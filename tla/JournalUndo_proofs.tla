------------------------- MODULE JournalUndo_proofs -------------------------
(***************************************************************************)
(* Proofs about JournalUndo.  The argument: the link to the target is on   *)
(* disk before the first PATCH, only the run's own final entry can fold it *)
(* away, and that entry keeps the link of every run that may have written. *)
(* So whoever begins an undo sees the link of every earlier one.  Of what  *)
(* one undo writes, that a landed PATCH leaves nothing of it to be done.   *)
(***************************************************************************)
EXTENDS JournalUndo, TLAPS

(* The parts of the inductive invariant.                                   *)

\* Runs are numbered as they begin, and lines belong to runs that have begun.
Order ==
    /\ \A e \in journal : e.run <= runs
    /\ \A r \in Runs : \A u \in reversedBy[r] : u <= runs
    /\ pc # "idle" => target \in 1 .. runs - 1

\* The undo in progress: its lines all link it to its target, which no other
\* run's folded entry does, and its link is on disk before it may write.
Current ==
    /\ pc = "idle" => ~reserved /\ ~wrote
    /\ ~wrote => made = {}
    /\ pc # "idle" =>
        /\ \A e \in journal : e.run = runs => e.part # "final" /\ e.undoes = target
        /\ \A u \in Runs : u # runs => \A e \in Folded(u) : e.undoes # target
        /\ reserved => Line(runs, "reserve", target, {}) \in journal
        /\ pc \in {"patch", "record"} \/ wrote => reserved
        /\ \A r \in Runs : runs \in reversedBy[r] => r = target /\ wrote

Links == EveryUndoIsLinked /\ UndoneOnce

IInv == TypeOK /\ Order /\ Current /\ Links

\* What exact records add: a line that undoes nothing names what was done, the
\* target is no undo run, and the item read is current unless marked stale.
Exact ==
    /\ \A e \in journal : e.undoes = 0 => e.changes \subseteq did[e.run]
    /\ pc # "idle" => ~IsUndo(target)
    /\ pc = "patch" /\ ~stale => view = library[item]

-----------------------------------------------------------------------------
(* The fold, seen by an append.                                            *)

\* An append for run n leaves the folded entries of every other run alone.
LEMMA FoldOthers ==
    ASSUME NEW n, journal \subseteq journal',
           \A e \in journal' : e \in journal \/ e.run = n,
           NEW u, u # n
    PROVE  Folded(u)' = Folded(u)
  BY DEF Folded, Finished

\* While a run is unfinished and stays so, its folded entries only grow.
LEMMA FoldGrows ==
    ASSUME NEW u, journal \subseteq journal',
           \A e \in journal' : e.run = u => e.part # "final"
    PROVE  Folded(u) \subseteq Folded(u)'
  BY DEF Folded, Finished

\* A set of changes keeps an item an item.
LEMMA ChangedType ==
    ASSUME NEW slots \in [Slots -> Values], NEW C \in SUBSET Changes
    PROVE  Changed(slots, C) \in [Slots -> Values]
  <1> SUFFICES ASSUME NEW s \in Slots
               PROVE  (IF \E c \in C : c.slot = s
                       THEN (CHOOSE c \in C : c.slot = s).to ELSE slots[s]) \in Values
    BY DEF Changed
  <1>1. CASE \E c \in C : c.slot = s
    <2>1. (CHOOSE c \in C : c.slot = s) \in C
      BY <1>1
    <2>2. (CHOOSE c \in C : c.slot = s) \in Changes
      BY <2>1
    <2>3. (CHOOSE c \in C : c.slot = s).to \in Values
      BY <2>2 DEF Changes
    <2> QED
      BY <1>1, <2>3
  <1>2. CASE ~ \E c \in C : c.slot = s
    BY <1>2
  <1> QED
    BY <1>1, <1>2

LEMMA PlannedType ==
    ASSUME TypeOK, NEW i
    PROVE  Planned(i) \in SUBSET Changes /\ Effective(i) \in SUBSET Changes
  <1>1. Reversible(target) \subseteq Changes
    BY DEF TypeOK, Reversible, Recorded, Folded, Entries
  <1>2. \A c \in Changes : Inverse(c) \in Changes
    BY DEF Inverse, Changes
  <1> QED
    BY <1>1, <1>2 DEF Planned, Effective

LEMMA InitIInv == Init => IInv /\ Exact
  <1> SUFFICES ASSUME Init PROVE IInv /\ Exact
    OBVIOUS
  <1> USE DEF Init
  <1>1. NoItem \in Items /\ NoView \in [Slots -> Values]
    BY UndoAssumption DEF NoItem, NoView
  <1>2. TypeOK
    <2>1. did \in [Runs -> SUBSET Changes] /\ reversedBy \in [Runs -> SUBSET Runs]
      OBVIOUS
    <2>2. runs \in 0 .. MaxRuns /\ edits \in 0 .. MaxEdits /\ target \in 0 .. MaxRuns
      BY UndoAssumption
    <2>3. library \in [Items -> [Slots -> Values]]
      OBVIOUS
    <2> QED
      BY <1>1, <2>1, <2>2, <2>3 DEF TypeOK
  <1>3. Order /\ Current /\ Links /\ Exact
    BY DEF Order, Current, Links, EveryUndoIsLinked, UndoneOnce, Exact, Runs
  <1> QED
    BY <1>2, <1>3 DEF IInv

-----------------------------------------------------------------------------
(* Steps outside the undo command.                                         *)

LEMMA ResetTypes ==
    ASSUME Reset
    PROVE  /\ item' \in Items /\ view' \in [Slots -> Values]
           /\ touched' \subseteq Items \X Slots /\ todo' \subseteq Items
           /\ made' \subseteq Changes /\ target' \in 0 .. MaxRuns
           /\ pc' = "idle"
           /\ stale' \in BOOLEAN /\ reserved' \in BOOLEAN /\ wrote' \in BOOLEAN
           /\ ok' \in BOOLEAN /\ stop' \in BOOLEAN
  <1> USE DEF Reset
  <1>1. NoItem \in Items /\ NoView \in [Slots -> Values]
    BY UndoAssumption DEF NoItem, NoView
  <1>2. 0 \in 0 .. MaxRuns
    BY UndoAssumption
  <1> QED
    BY <1>1, <1>2

LEMMA StepForward == IInv /\ ForwardRun => IInv'
  <1> SUFFICES ASSUME IInv, ForwardRun PROVE IInv'
    OBVIOUS
  <1> USE DEF IInv
  <1>1. PICK C \in SUBSET UNION {Differing(i) : i \in Items},
             D \in SUBSET UNION {InPlace(i) : i \in Items} :
          /\ library' = [i \in Items |-> Changed(library[i], OnItem(C, i))]
          /\ did' = [did EXCEPT ![runs + 1] = C]
          /\ \/ journal' = journal \cup {Line(runs + 1, "final", 0, C \cup D)}
             \/ journal' = journal \cup OpLines(runs + 1, C \cup D, {c.item : c \in C})
             \/ \E last \in {c.item : c \in C} :
                  journal' = journal \cup
                    OpLines(runs + 1, C \cup D, {c.item : c \in C} \ {last})
    BY DEF ForwardRun
  <1>2. /\ pc = "idle" /\ runs < MaxForward /\ runs' = runs + 1
        /\ UNCHANGED <<edits, reversedBy, touched, cmdVars>>
    BY DEF ForwardRun
  <1>3. runs \in Nat /\ runs + 1 \in Runs /\ MaxRuns \in Nat
    BY <1>2, UndoAssumption DEF TypeOK, Runs
  <1>4. C \subseteq Changes /\ C \cup D \subseteq Changes
    BY DEF Differing, InPlace
  <1>5. \A e \in journal' :
          e \in journal \/ (e.run = runs + 1 /\ e \in Entries)
    <2>1. Line(runs + 1, "final", 0, C \cup D) \in Entries
      BY <1>3, <1>4 DEF Line, Entries
    <2>2. \A i : Line(runs + 1, "op", 0, OnItem(C \cup D, i)) \in Entries
      BY <1>3, <1>4 DEF Line, Entries, OnItem
    <2>3. \A I : \A e \in OpLines(runs + 1, C \cup D, I) :
            e.run = runs + 1 /\ e \in Entries
      BY <2>2 DEF OpLines, Line
    <2>4. Line(runs + 1, "final", 0, C \cup D).run = runs + 1
      BY DEF Line
    <2> QED
      BY <1>1, <2>1, <2>3, <2>4
  <1>6. journal \subseteq journal'
    BY <1>1
  <1>7. TypeOK'
    <2>1. library' \in [Items -> [Slots -> Values]]
      <3>1. \A i \in Items : Changed(library[i], OnItem(C, i)) \in [Slots -> Values]
        BY <1>4, ChangedType DEF TypeOK, OnItem
      <3> QED
        BY <1>1, <3>1
    <2>2. did' \in [Runs -> SUBSET Changes]
      BY <1>1, <1>3, <1>4 DEF TypeOK
    <2>3. journal' \subseteq Entries
      BY <1>5 DEF TypeOK
    <2>4. runs' \in 0 .. MaxRuns
      BY <1>2, <1>3 DEF Runs
    <2> QED
      BY <1>2, <2>1, <2>2, <2>3, <2>4 DEF TypeOK, cmdVars
  <1>8. Order'
    BY <1>2, <1>3, <1>5 DEF Order, cmdVars, TypeOK, Entries, Runs
  <1>9. Current'
    BY <1>2 DEF Current, cmdVars
  <1>10. Links'
    <2>1. \A r \in Runs : \A u \in reversedBy[r] : u # runs + 1
      BY <1>3 DEF Order, TypeOK, Runs
    <2>2. \A r \in Runs : \A u \in reversedBy[r] : Folded(u)' = Folded(u)
      BY <2>1, <1>5, <1>6, FoldOthers
    <2> QED
      BY <2>2, <1>2 DEF Links, EveryUndoIsLinked, UndoneOnce
  <1> QED
    BY <1>7, <1>8, <1>9, <1>10

LEMMA StepUserEdit == IInv /\ UserEdit => IInv'
  <1> SUFFICES ASSUME IInv, UserEdit PROVE IInv'
    OBVIOUS
  <1> USE DEF IInv, UserEdit
  <1>1. TypeOK'
    BY UndoAssumption DEF TypeOK
  <1>2. \A u \in Runs : Folded(u)' = Folded(u)
    BY DEF Folded, Finished
  <1>3. Order' /\ Links'
    BY <1>2 DEF Order, Links, EveryUndoIsLinked, UndoneOnce, TypeOK
  <1>4. Current'
    BY <1>2 DEF Current
  <1> QED
    BY <1>1, <1>3, <1>4

-----------------------------------------------------------------------------
(* Steps of the undo command.                                              *)

LEMMA StepBegin == ASSUME NEW r \in Runs, IInv, Begin(r) PROVE IInv'
  <1> USE DEF IInv, Begin
  <1>1. PICK e \in Folded(r) : TRUE
    OBVIOUS
  <1>2. runs \in Nat /\ MaxRuns \in Nat /\ runs + 1 \in Runs
    BY UndoAssumption DEF TypeOK, Runs
  <1>3. r \in 1 .. runs
    BY <1>1, <1>2 DEF Order, Folded, Runs
  <1>4. TypeOK'
    <2>1. {c.item : c \in Reversible(r)} \subseteq Items
      BY DEF TypeOK, Reversible, Recorded, Folded, Entries, Changes
    <2> QED
      BY <2>1, <1>2, <1>3 DEF TypeOK, Runs
  <1>5. \A u \in Runs : Folded(u)' = Folded(u)
    BY DEF Folded, Finished
  <1>6. Order'
    BY <1>2, <1>3 DEF Order, TypeOK, Entries, Runs
  <1>7. Links'
    BY <1>5 DEF Links, EveryUndoIsLinked, UndoneOnce, TypeOK
  <1>8. Current'
    <2>1. \A f \in journal : f.run # runs + 1
      BY <1>2 DEF Order, TypeOK, Entries, Runs
    <2>2. \A u \in Runs : \A f \in Folded(u) : f.undoes # r
      BY DEF HasUndo
    <2>3. \A q \in Runs : runs + 1 \notin reversedBy[q]
      BY <1>2 DEF Order, TypeOK, Runs
    <2> QED
      BY <1>5, <2>1, <2>2, <2>3 DEF Current, TypeOK
  <1> QED
    BY <1>4, <1>6, <1>7, <1>8

\* A step that appends to the current run lines that do not finish it.
LEMMA AppendKeepsLinks ==
    ASSUME IInv, pc # "idle", pc' # "idle",
           journal \subseteq journal',
           \A e \in journal' : e \in journal \/
               (e.run = runs /\ e.part # "final" /\ e.undoes = target /\ e \in Entries),
           UNCHANGED <<runs, target, reversedBy, wrote, made>>,
           reserved' => Line(runs, "reserve", target, {}) \in journal',
           pc' \in {"patch", "record"} \/ wrote => reserved'
    PROVE  journal' \subseteq Entries /\ Order' /\ Current' /\ Links'
  <1> USE DEF IInv
  <1>1. journal' \subseteq Entries
    BY DEF TypeOK
  <1>2. Order'
    BY DEF Order, TypeOK, Entries, Runs
  <1>3. \A e \in journal' : e.run = runs => e.part # "final" /\ e.undoes = target
    BY DEF Current
  <1>4. \A u \in Runs : u # runs => Folded(u)' = Folded(u)
    BY FoldOthers
  <1>5. Folded(runs) \subseteq Folded(runs)'
    BY <1>3, FoldGrows
  <1>6. Current'
    BY <1>3, <1>4 DEF Current
  <1>7. \A q \in Runs : \A u \in reversedBy[q] : \E e \in Folded(u)' : e.undoes = q
    <2> SUFFICES ASSUME NEW q \in Runs, NEW u \in reversedBy[q]
                 PROVE  \E e \in Folded(u)' : e.undoes = q
      OBVIOUS
    <2>1. PICK e \in Folded(u) : e.undoes = q
      BY DEF Links, EveryUndoIsLinked
    <2>2. u \in Runs
      BY DEF TypeOK
    <2>3. e \in Folded(u)'
      BY <2>2, <1>4, <1>5
    <2> QED
      BY <2>1, <2>3
  <1>8. Links'
    BY <1>7 DEF Links, EveryUndoIsLinked, UndoneOnce
  <1> QED
    BY <1>1, <1>2, <1>6, <1>8

LEMMA StepReserve == IInv /\ Reserve => IInv'
  <1> SUFFICES ASSUME IInv, Reserve PROVE IInv'
    OBVIOUS
  <1> USE DEF IInv, Reserve, Active
  <1> DEFINE link == Line(runs, "reserve", target, {})
  <1>1. runs \in Runs /\ target \in Runs
    BY UndoAssumption DEF TypeOK, Order, Runs
  <1>2. /\ link \in Entries /\ link.run = runs /\ link.part # "final"
        /\ link.undoes = target
    BY <1>1 DEF Line, Entries
  <1>3. journal' = journal \/ journal' = journal \cup {link}
    OBVIOUS
  <1>4. reserved' => link \in journal'
    BY DEF Current
  <1>5. journal' \subseteq Entries /\ Order' /\ Current' /\ Links'
    BY <1>2, <1>3, <1>4, AppendKeepsLinks DEF Current
  <1>6. ok' \in BOOLEAN /\ stop' \in BOOLEAN /\ reserved' \in BOOLEAN
        /\ todo' \subseteq Items
    BY DEF TypeOK, Fail
  <1> QED
    BY <1>5, <1>6 DEF TypeOK

LEMMA StepRead == IInv /\ Read => IInv'
  <1> SUFFICES ASSUME IInv, Read PROVE IInv'
    OBVIOUS
  <1> USE DEF IInv, Read, Active
  <1>1. /\ item' \in Items /\ view' \in [Slots -> Values] /\ todo' \subseteq Items
        /\ ok' \in BOOLEAN /\ stop' \in BOOLEAN /\ stale' \in BOOLEAN
        /\ pc' \in {"op", "patch"}
    BY DEF TypeOK, Fail
  <1>2. Order' /\ Current' /\ Links'
    BY <1>1, AppendKeepsLinks DEF Current
  <1> QED
    BY <1>1, <1>2 DEF TypeOK

LEMMA StepPatch == IInv /\ Patch => IInv'
  <1> SUFFICES ASSUME IInv, Patch PROVE IInv'
    OBVIOUS
  <1> USE DEF IInv, Patch
  <1>1. runs \in Runs /\ target \in Runs
    BY UndoAssumption DEF TypeOK, Order, Runs
  <1>2. TypeOK'
    <2>1. Patched(item) \in [Slots -> Values]
      <3>1. [s \in Slots |-> IF s \in Memberships THEN view[s] ELSE library[item][s]]
               \in [Slots -> Values]
        BY DEF TypeOK
      <3> QED
        BY <3>1, PlannedType, ChangedType DEF Patched
    <2>2. library' \in [Items -> [Slots -> Values]]
      BY <2>1 DEF TypeOK, Lands
    <2>3. did' \in [Runs -> SUBSET Changes]
      BY <1>1, PlannedType DEF TypeOK, Lands
    <2>4. made' \subseteq Changes
      BY PlannedType DEF TypeOK
    <2>5. reversedBy' \in [Runs -> SUBSET Runs]
      BY <1>1 DEF TypeOK
    <2>6. ok' \in BOOLEAN /\ stop' \in BOOLEAN /\ wrote' \in BOOLEAN
          /\ pc' \in {"op", "record"}
      BY DEF TypeOK, Fail
    <2> QED
      BY <2>2, <2>3, <2>4, <2>5, <2>6 DEF TypeOK
  <1>3. \A u \in Runs : Folded(u)' = Folded(u)
    BY DEF Folded, Finished
  <1>4. \/ wrote' /\ reversedBy' = [reversedBy EXCEPT ![target] = @ \cup {runs}]
        \/ UNCHANGED <<wrote, made, reversedBy>>
    OBVIOUS
  <1>10. \A r \in Runs : \A u \in reversedBy'[r] :
           u \in reversedBy[r] \/ (u = runs /\ r = target)
    BY <1>1, <1>4 DEF TypeOK
  <1>5. Order'
    <2>1. \A r \in Runs : \A u \in reversedBy'[r] : u <= runs
      BY <1>1, <1>10 DEF Order, Runs
    <2> QED
      BY <2>1 DEF Order, TypeOK
  <1>6. Current'
    BY <1>1, <1>3, <1>4 DEF Current, TypeOK
  <1>7. reversedBy[target] \subseteq {runs}
    BY <1>1 DEF Current, Links, EveryUndoIsLinked, TypeOK
  <1>8. \E e \in Folded(runs) : e.undoes = target
    <2>1. Line(runs, "reserve", target, {}) \in Folded(runs)
      BY DEF Current, Folded, Finished, Line
    <2> QED
      BY <2>1 DEF Line
  <1>9. Links'
    <2>1. \A q \in Runs : \A u \in reversedBy[q] : u \in Runs
      BY DEF TypeOK
    <2>2. EveryUndoIsLinked'
      BY <2>1, <1>1, <1>3, <1>8, <1>10 DEF Links, EveryUndoIsLinked
    <2>3. UndoneOnce'
      BY <1>7, <1>10 DEF Links, UndoneOnce
    <2> QED
      BY <2>2, <2>3 DEF Links
  <1> QED
    BY <1>2, <1>5, <1>6, <1>9

LEMMA StepRecordOp == IInv /\ RecordOp => IInv'
  <1> SUFFICES ASSUME IInv, RecordOp PROVE IInv'
    OBVIOUS
  <1> USE DEF IInv, RecordOp
  <1> DEFINE line == Line(runs, "op", target, OnItem(made, item))
  <1>1. runs \in Runs /\ target \in Runs
    BY UndoAssumption DEF TypeOK, Order, Runs
  <1>2. /\ line \in Entries /\ line.run = runs /\ line.part # "final"
        /\ line.undoes = target
    BY <1>1 DEF Line, Entries, OnItem, TypeOK
  <1>3. journal' = journal \/ journal' = journal \cup {line}
    OBVIOUS
  <1>4. reserved /\ Line(runs, "reserve", target, {}) \in journal
    BY DEF Current
  <1> HIDE DEF line
  <1>5. journal' \subseteq Entries /\ Order' /\ Current' /\ Links'
    BY <1>2, <1>3, <1>4, AppendKeepsLinks
  <1> QED
    BY <1>5 DEF TypeOK

LEMMA StepFinish == IInv /\ Finish => IInv'
  <1> SUFFICES ASSUME IInv, Finish PROVE IInv'
    OBVIOUS
  <1> USE DEF IInv, Finish
  <1> DEFINE line == Line(runs, "final", IF wrote THEN target ELSE 0, made)
  <1>1. runs \in Runs /\ target \in Runs
    BY UndoAssumption DEF TypeOK, Order, Runs
  <1>2. /\ line \in Entries /\ line.run = runs /\ line.part = "final"
        /\ wrote => line.undoes = target
    BY <1>1 DEF Line, Entries, TypeOK
  <1>3. journal' = journal \/ journal' = journal \cup {line}
    OBVIOUS
  <1> HIDE DEF line
  <1>4. TypeOK'
    BY <1>2, <1>3, ResetTypes DEF TypeOK
  <1>5. Order'
    BY <1>2, <1>3, ResetTypes DEF Order, TypeOK, Entries, Runs
  <1>6. Current'
    BY DEF Current, Reset
  <1>7. \A u \in Runs : u # runs => Folded(u)' = Folded(u)
    BY <1>2, <1>3, FoldOthers
  <1>8. \A q \in Runs : \A u \in reversedBy[q] : \E e \in Folded(u)' : e.undoes = q
    <2> SUFFICES ASSUME NEW q \in Runs, NEW u \in reversedBy[q]
                 PROVE  \E e \in Folded(u)' : e.undoes = q
      OBVIOUS
    <2>1. PICK e \in Folded(u) : e.undoes = q
      BY DEF Links, EveryUndoIsLinked
    <2>2. CASE journal' = journal
      <3>1. Folded(u)' = Folded(u)
        BY <2>2 DEF Folded, Finished
      <3> QED
        BY <2>1, <3>1
    <2>3. CASE u # runs
      BY <2>1, <2>3, <1>7 DEF TypeOK
    <2>4. CASE u = runs /\ journal' = journal \cup {line}
      <3>1. q = target /\ wrote
        BY <2>4 DEF Current
      <3>2. line \in Folded(u)'
        BY <2>4, <1>2 DEF Folded
      <3> QED
        BY <3>1, <3>2, <1>2
    <2> QED
      BY <2>2, <2>3, <2>4, <1>3
  <1>9. Links'
    BY <1>8 DEF Links, EveryUndoIsLinked, UndoneOnce
  <1> QED
    BY <1>4, <1>5, <1>6, <1>9

LEMMA StepKill == IInv /\ Kill => IInv'
  <1> SUFFICES ASSUME IInv, Kill PROVE IInv'
    OBVIOUS
  <1> USE DEF IInv, Kill
  <1>1. TypeOK'
    BY ResetTypes DEF TypeOK
  <1>2. \A u \in Runs : Folded(u)' = Folded(u)
    BY DEF Folded, Finished
  <1>3. Order' /\ Links'
    BY <1>2, ResetTypes DEF Order, Links, EveryUndoIsLinked, UndoneOnce, TypeOK
  <1>4. Current'
    BY DEF Current, Reset
  <1> QED
    BY <1>1, <1>3, <1>4

-----------------------------------------------------------------------------
(* The theorems.                                                           *)

\* The invariant is inductive.
THEOREM Inductive == IInv /\ [Next]_vars => IInv'
  <1> SUFFICES ASSUME IInv, [Next]_vars PROVE IInv'
    OBVIOUS
  <1>1. CASE UNCHANGED vars
    <2>1. \A u \in Runs : Folded(u)' = Folded(u)
      BY <1>1 DEF Folded, Finished, vars
    <2> QED
      BY <1>1, <2>1 DEF vars, cmdVars, IInv, TypeOK, Order, Current, Links,
                        EveryUndoIsLinked, UndoneOnce
  <1>2. ASSUME NEW r \in Runs, Begin(r) PROVE IInv'
    BY <1>2, StepBegin
  <1> QED
    BY <1>1, <1>2, StepForward, StepUserEdit, StepReserve, StepRead, StepPatch,
       StepRecordOp, StepFinish, StepKill DEF Next

\* The types of the undo command's state, for any number of items, runs and
\* edits.
THEOREM TypeCorrect == Spec => []TypeOK
  <1>1. IInv => TypeOK
    BY DEF IInv
  <1> QED
    BY <1>1, InitIInv, Inductive, PTL DEF Spec

\* Every undo that wrote, or may have, stays linked to its target.
THEOREM UndosAreLinked == Spec => []EveryUndoIsLinked
  <1>1. IInv => EveryUndoIsLinked
    BY DEF IInv, Links
  <1> QED
    BY <1>1, InitIInv, Inductive, PTL DEF Spec

\* No run is reversed twice, undo runs included, whether or not the recorded
\* plans were exact.
THEOREM RunsAreUndoneOnce == Spec => []UndoneOnce
  <1>1. IInv => UndoneOnce
    BY DEF IInv, Links
  <1> QED
    BY <1>1, InitIInv, Inductive, PTL DEF Spec

-----------------------------------------------------------------------------
(* What an undo changes, when records are exact.                           *)

LEMMA ExactTarget ==
    ASSUME IInv, Exact, pc # "idle", target' = target,
           journal \subseteq journal',
           \A e \in journal' : e \in journal \/ e.run = runs
    PROVE  ~IsUndo(target)'
  <1>1. target # runs
    BY DEF IInv, Order, TypeOK
  <1>2. Folded(target)' = Folded(target)
    BY <1>1 DEF Folded, Finished
  <1> QED
    BY <1>2 DEF IsUndo, Exact

\* A line the current undo appends either links a run or names no change.
LEMMA ExactAppend ==
    ASSUME IInv, Exact, pc # "idle",
           journal \subseteq journal',
           \A e \in journal' : e \in journal \/
               (e.run = runs /\ (e.undoes = 0 => e.changes = {})),
           \A r \in Runs : did[r] \subseteq did'[r]
    PROVE  (\A e \in journal : e.undoes = 0 => e.changes \subseteq did[e.run])'
  BY DEF IInv, TypeOK, Exact, Entries

LEMMA ForwardExact ==
    ASSUME ~StalePlans, IInv, Exact, ForwardRun PROVE Exact'
  <1> USE DEF IInv
  <1>1. PICK C \in SUBSET UNION {Differing(i) : i \in Items},
             D \in SUBSET UNION {InPlace(i) : i \in Items} :
          /\ did' = [did EXCEPT ![runs + 1] = C]
          /\ \/ journal' = journal \cup {Line(runs + 1, "final", 0, C \cup D)}
             \/ journal' = journal \cup OpLines(runs + 1, C \cup D, {c.item : c \in C})
             \/ \E last \in {c.item : c \in C} :
                  journal' = journal \cup
                    OpLines(runs + 1, C \cup D, {c.item : c \in C} \ {last})
    BY DEF ForwardRun
  <1>2. pc = "idle" /\ pc' = "idle" /\ runs < MaxForward
    BY DEF ForwardRun, cmdVars
  <1>3. runs \in Nat /\ runs + 1 \in Runs
    BY <1>2, UndoAssumption DEF TypeOK, Runs
  <1>4. D = {}
    BY DEF InPlace
  <1>5. did'[runs + 1] = C
    BY <1>1, <1>3 DEF TypeOK
  <1>6. \A e \in journal' : e \in journal \/ (e.run = runs + 1 /\ e.changes \subseteq C)
    BY <1>1, <1>4 DEF Line, OpLines, OnItem
  <1>7. \A e \in journal : did'[e.run] = did[e.run]
    BY <1>1, <1>3 DEF Order, TypeOK, Entries, Runs
  <1> QED
    BY <1>2, <1>5, <1>6, <1>7 DEF Exact

LEMMA PatchExact ==
    ASSUME IInv, Exact, Patch PROVE Exact'
  <1> USE DEF IInv, Patch
  <1>1. \A r \in Runs : did[r] \subseteq did'[r]
    BY DEF Lands, TypeOK
  <1>2. ~IsUndo(target)'
    BY ExactTarget
  <1> QED
    BY <1>1, <1>2, ExactAppend DEF Exact

LEMMA RecordExact ==
    ASSUME IInv, Exact, RecordOp PROVE Exact'
  <1> USE DEF IInv, RecordOp
  <1>1. \A e \in journal' : e \in journal \/ (e.run = runs /\ e.undoes = target)
    BY DEF Line
  <1>2. target # 0
    BY UndoAssumption DEF Order, TypeOK
  <1>3. ~IsUndo(target)'
    BY <1>1, ExactTarget
  <1> QED
    BY <1>1, <1>2, <1>3, ExactAppend DEF Exact

LEMMA ReserveExact ==
    ASSUME IInv, Exact, Reserve PROVE Exact'
  <1> USE DEF IInv, Reserve, Active
  <1>1. \A e \in journal' : e \in journal \/ (e.run = runs /\ e.undoes = target)
    BY DEF Line
  <1>2. target # 0
    BY UndoAssumption DEF Order, TypeOK
  <1>3. ~IsUndo(target)'
    BY <1>1, ExactTarget
  <1> QED
    BY <1>1, <1>2, <1>3, ExactAppend DEF Exact

LEMMA FinishExact ==
    ASSUME IInv, Exact, Finish PROVE Exact'
  <1> USE DEF IInv, Finish
  <1>1. \A e \in journal' :
          e \in journal \/ (e.run = runs /\ (e.undoes = 0 => e.changes = {}))
    <2>1. target # 0
      BY UndoAssumption DEF Order, TypeOK
    <2> QED
      BY <2>1 DEF Line, Current
  <1>2. (\A e \in journal : e.undoes = 0 => e.changes \subseteq did[e.run])'
    BY <1>1, ExactAppend
  <1> QED
    BY <1>2 DEF Exact, Reset

LEMMA ExactStep ==
    ASSUME ~UndoUndos, ~StalePlans, IInv, Exact, [Next]_vars PROVE Exact'
  <1> USE DEF IInv
  <1>1. ASSUME UNCHANGED vars PROVE Exact'
    BY <1>1 DEF Exact, vars, cmdVars, IsUndo, Folded, Finished
  <1>2. ASSUME UserEdit PROVE Exact'
    <2>1. ~IsUndo(target)' \/ pc = "idle"
      BY <1>2, ExactTarget DEF UserEdit
    <2>2. pc = "patch" /\ ~stale' => view' = library'[item']
      BY <1>2 DEF UserEdit, Exact, TypeOK
    <2> QED
      BY <1>2, <2>1, <2>2 DEF UserEdit, Exact
  <1>3. ASSUME NEW r \in Runs, Begin(r) PROVE Exact'
    <2>1. ~IsUndo(r) /\ journal' = journal /\ target' = r /\ did' = did /\ pc' = "op"
      BY <1>3 DEF Begin
    <2>2. ~IsUndo(target)'
      BY <2>1 DEF IsUndo, Folded, Finished
    <2> QED
      BY <2>1, <2>2 DEF Exact
  <1>4. ASSUME Read PROVE Exact'
    <2>1. ~IsUndo(target)'
      BY <1>4, ExactTarget DEF Read, Active
    <2> QED
      BY <1>4, <2>1 DEF Read, Active, Exact
  <1>5. ASSUME Kill PROVE Exact'
    BY <1>5 DEF Kill, Reset, Exact
  <1> QED
    BY <1>1, <1>2, <1>3, <1>4, <1>5, ForwardExact, PatchExact, RecordExact,
       ReserveExact, FinishExact DEF Next

LEMMA PatchReverses ==
    ASSUME IInv, Exact, Patch, NEW i \in Items, NEW s \in Slots,
           library'[i][s] # library[i][s]
    PROVE  \E c \in did[target] : /\ c.item = i /\ c.slot = s
                                  /\ c.to = library[i][s]
                                  /\ c.from = library'[i][s]
  <1> USE DEF IInv, Patch
  <1>1. Lands
    OBVIOUS
  <1>2. i = item /\ library'[i] = Patched(item) /\ view = library[item]
    BY <1>1 DEF Lands, TypeOK, Exact
  <1> DEFINE E == {c \in Effective(item) : c.slot = s}
  <1>3. E # {}
    BY <1>2 DEF Patched, Changed
  <1> DEFINE c == CHOOSE c \in Effective(item) : c.slot = s
  <1>4. c \in Effective(item) /\ c.slot = s
    BY <1>3
  <1>5. library'[i][s] = c.to
    BY <1>2, <1>3 DEF Patched, Changed
  <1> HIDE DEF c
  <1>6. c.from = library[i][s] /\ c \in Planned(item)
    BY <1>2, <1>4 DEF Effective
  <1>7. PICK d \in Reversible(target) : d.item = item /\ c = Inverse(d)
    BY <1>6 DEF Planned
  <1>8. d \in Changes
    BY DEF TypeOK, Reversible, Recorded, Folded, Entries
  <1>9. c.from = d.to /\ c.to = d.from /\ c.slot = d.slot
    BY <1>7, <1>8 DEF Inverse, Changes
  <1>10. d \in did[target]
    <2>1. PICK e \in Folded(target) : d \in e.changes
      BY <1>7 DEF Reversible, Recorded
    <2>2. e.undoes = 0 /\ e \in journal /\ e.run = target
      BY <2>1 DEF Exact, IsUndo, Folded
    <2> QED
      BY <2>1, <2>2 DEF Exact
  <1> QED
    BY <1>2, <1>4, <1>5, <1>6, <1>7, <1>9, <1>10

\* When a run's record names exactly what it changed, undoing it only takes
\* its own changes back, from the values it wrote to the values it replaced.
THEOREM UndosOnlyReverse ==
    ASSUME ~UndoUndos, ~StalePlans PROVE Spec => UndoOnlyReverses
  <1>1. IInv /\ Exact /\ [Next]_vars =>
          [\A i \in Items, s \in Slots :
            pc = "patch" /\ pc' # "patch" /\ library'[i][s] # library[i][s] =>
              \E c \in did[target] : /\ c.item = i /\ c.slot = s
                                     /\ c.to = library[i][s]
                                     /\ c.from = library'[i][s]]_vars
    <2> SUFFICES ASSUME IInv, Exact, Next, NEW i \in Items, NEW s \in Slots,
                        pc = "patch", pc' # "patch", library'[i][s] # library[i][s]
                 PROVE  \E c \in did[target] : /\ c.item = i /\ c.slot = s
                                               /\ c.to = library[i][s]
                                               /\ c.from = library'[i][s]
      OBVIOUS
    <2>1. Patch
      BY DEF Next, ForwardRun, UserEdit, Begin, Reserve, Read, RecordOp, Finish,
             Kill, Active
    <2> QED
      BY <2>1, PatchReverses
  <1>2. IInv /\ Exact /\ [Next]_vars => (IInv /\ Exact)'
    BY Inductive, ExactStep
  <1> QED
    BY <1>1, <1>2, InitIInv, PTL DEF Spec, UndoOnlyReverses

-----------------------------------------------------------------------------
(* An undo whose operations have all succeeded is complete.                *)

\* At most one change of a slot of an item, and each changes it.
Single(C) ==
    \A c, d \in C : c.from # c.to /\ (c.item = d.item /\ c.slot = d.slot => c = d)

Plan == {Inverse(c) : c \in Reversible(target)}

\* The lines of a run together are single; those of the current undo are its plan's.
SingleLines ==
    /\ \A e, f \in journal : e.run = f.run => Single(e.changes \cup f.changes)
    /\ pc # "idle" =>
         made \subseteq Plan /\ \A e \in journal : e.run = runs => e.changes \subseteq Plan

\* What the target wrote is gone, wherever the undo has been or the user was.
Gone(c) ==
    \/ c.item \in todo \/ (pc = "patch" /\ c.item = item)
    \/ <<c.item, c.slot>> \in touched
    \/ library[c.item][c.slot] # c.to

Reversing ==
    /\ pc = "patch" /\ ~stale => view = library[item]
    /\ pc # "idle" /\ ok => \A c \in Reversible(target) : Gone(c)

LEMMA ReversibleFacts ==
    ASSUME IInv, SingleLines
    PROVE  /\ Reversible(target) \subseteq Changes /\ Plan \subseteq Changes
           /\ Single(Reversible(target)) /\ Single(Plan)
  <1>1. Reversible(target) \subseteq Changes
    BY DEF IInv, TypeOK, Reversible, Recorded, Folded, Entries
  <1>2. Single(Reversible(target))
    <2> SUFFICES ASSUME NEW c \in Reversible(target), NEW d \in Reversible(target)
                 PROVE  c.from # c.to /\ (c.item = d.item /\ c.slot = d.slot => c = d)
      BY DEF Single
    <2>1. PICK e \in Folded(target), f \in Folded(target) : c \in e.changes /\ d \in f.changes
      BY DEF Reversible, Recorded
    <2>2. Single(e.changes \cup f.changes)
      BY DEF SingleLines, Folded
    <2> QED
      BY <2>1, <2>2 DEF Single
  <1>3. \A c \in Changes : /\ Inverse(c) \in Changes
                           /\ Inverse(c).from = c.to /\ Inverse(c).to = c.from
                           /\ Inverse(c).item = c.item /\ Inverse(c).slot = c.slot
    BY DEF Inverse, Changes
  <1>4. Plan \subseteq Changes
    BY <1>1, <1>3 DEF Plan
  <1>5. Single(Plan)
    <2> SUFFICES ASSUME NEW x \in Plan, NEW y \in Plan
                 PROVE  x.from # x.to /\ (x.item = y.item /\ x.slot = y.slot => x = y)
      BY DEF Single
    <2>1. PICK c \in Reversible(target), d \in Reversible(target) :
            x = Inverse(c) /\ y = Inverse(d)
      BY DEF Plan
    <2>2. c.from # c.to /\ (c.item = d.item /\ c.slot = d.slot => c = d)
      BY <1>2 DEF Single
    <2> QED
      BY <1>1, <1>3, <2>1, <2>2
  <1> QED
    BY <1>1, <1>2, <1>4, <1>5

\* While an undo runs, what it is to reverse stays the same.
LEMMA SamePlan ==
    ASSUME IInv, pc # "idle", target' = target, journal \subseteq journal',
           \A e \in journal' : e \in journal \/ e.run = runs
    PROVE  Reversible(target)' = Reversible(target) /\ Plan' = Plan
  <1>1. target # runs
    BY DEF IInv, Order, TypeOK
  <1>2. Folded(target)' = Folded(target)
    BY <1>1 DEF Folded, Finished
  <1>3. Reversible(target)' = Reversible(target)
    BY <1>2 DEF Reversible, Recorded, IsUndo
  <1> QED
    BY <1>3 DEF Plan

\* A step of the undo that adds lines of its plan keeps the lines single.
LEMMA PlannedLines ==
    ASSUME IInv, SingleLines, pc # "idle", target' = target, runs' = runs,
           journal \subseteq journal', made' \subseteq Plan,
           \A e \in journal' : e \in journal \/ (e.run = runs /\ e.changes \subseteq Plan)
    PROVE  SingleLines'
  <1>1. Plan' = Plan
    BY SamePlan
  <1>2. ASSUME NEW e \in journal', e.run = runs PROVE e.changes \subseteq Plan
    BY <1>2 DEF SingleLines
  <1>3. ASSUME NEW e \in journal', NEW f \in journal', e.run = f.run
        PROVE  Single(e.changes \cup f.changes)
    <2>1. CASE e.run = runs
      <3>1. e.changes \subseteq Plan /\ f.changes \subseteq Plan
        BY <1>2, <1>3, <2>1
      <3> QED
        BY <3>1, ReversibleFacts DEF Single
    <2>2. CASE e.run # runs
      BY <1>3, <2>2 DEF SingleLines
    <2> QED
      BY <2>1, <2>2
  <1> QED
    BY <1>1, <1>2, <1>3 DEF SingleLines

LEMMA ForwardLines ==
    ASSUME IInv, SingleLines, ForwardRun
    PROVE  SingleLines'
  <1>1. pc' = "idle"
    BY DEF ForwardRun, cmdVars
  <1>2. PICK C \in SUBSET UNION {Differing(i) : i \in Items},
             D \in SUBSET UNION {InPlace(i) : i \in Items} :
          /\ \A c, d \in C \cup D : c.item = d.item /\ c.slot = d.slot => c = d
          /\ \/ journal' = journal \cup {Line(runs + 1, "final", 0, C \cup D)}
             \/ journal' = journal \cup OpLines(runs + 1, C \cup D, {c.item : c \in C})
             \/ \E last \in {c.item : c \in C} :
                  journal' = journal \cup
                    OpLines(runs + 1, C \cup D, {c.item : c \in C} \ {last})
    BY DEF ForwardRun
  <1>3. Single(C \cup D)
    BY <1>2 DEF Single, Differing, InPlace
  <1>4. \A e \in journal' : e \in journal \/ (e.run = runs + 1 /\ e.changes \subseteq C \cup D)
    BY <1>2 DEF Line, OpLines, OnItem
  <1>5. \A e \in journal : e.run # runs + 1
    BY DEF IInv, Order, TypeOK, Entries, Runs
  <1>6. ASSUME NEW e \in journal', NEW f \in journal', e.run = f.run
        PROVE  Single(e.changes \cup f.changes)
    <2>1. CASE e \in journal /\ f \in journal
      BY <1>6, <2>1 DEF SingleLines
    <2>2. CASE ~(e \in journal /\ f \in journal)
      <3>1. e.changes \cup f.changes \subseteq C \cup D
        BY <1>4, <1>5, <1>6, <2>2
      <3> QED
        BY <1>3, <3>1 DEF Single
    <2> QED
      BY <2>1, <2>2
  <1> QED
    BY <1>1, <1>6 DEF SingleLines

LEMMA LinesStep ==
    ASSUME IInv, SingleLines, [Next]_vars
    PROVE  SingleLines'
  <1>1. CASE ForwardRun
    BY <1>1, ForwardLines
  <1>2. CASE UNCHANGED <<journal, made, pc, target, runs>>
    BY <1>2 DEF SingleLines, Plan, Reversible, Recorded, IsUndo, Folded, Finished
  <1>3. ASSUME NEW r \in Runs, Begin(r) PROVE SingleLines'
    <2>1. made' = {} /\ journal' = journal /\ runs' = runs + 1
      BY <1>3 DEF Begin, IInv, Current
    <2>2. \A e \in journal : e.run # runs + 1
      BY DEF IInv, Order, TypeOK, Entries, Runs
    <2> QED
      BY <2>1, <2>2 DEF SingleLines
  <1>4. CASE Reserve
    <2>1. /\ pc # "idle" /\ target' = target /\ runs' = runs
          /\ journal \subseteq journal' /\ made' = made
          /\ \A e \in journal' : e \in journal \/ (e.run = runs /\ e.changes = {})
      BY <1>4 DEF Reserve, Active, Line
    <2> QED
      BY <2>1, PlannedLines DEF SingleLines
  <1>5. CASE Read
    <2>1. /\ pc # "idle" /\ pc' # "idle"
          /\ UNCHANGED <<target, runs, journal, made>>
      BY <1>5 DEF Read, Active
    <2> QED
      BY <2>1, PlannedLines DEF SingleLines
  <1>6. CASE Patch
    <2>1. /\ pc # "idle" /\ pc' # "idle" /\ UNCHANGED <<target, runs, journal>>
          /\ made' \in {made, made \cup Planned(item)}
      BY <1>6 DEF Patch
    <2>2. made \subseteq Plan
      BY <2>1 DEF SingleLines
    <2>3. Planned(item) \subseteq Plan
      BY DEF Plan, Planned
    <2> QED
      BY <2>1, <2>2, <2>3, PlannedLines
  <1>7. CASE RecordOp
    <2>1. /\ pc # "idle" /\ pc' # "idle" /\ UNCHANGED <<target, runs, made>>
          /\ journal \subseteq journal'
          /\ \A e \in journal' : e \in journal \/ (e.run = runs /\ e.changes \subseteq made)
      BY <1>7 DEF RecordOp, Line, OnItem
    <2>2. made \subseteq Plan
      BY <2>1 DEF SingleLines
    <2> QED
      BY <2>1, <2>2, PlannedLines
  <1>8. CASE Finish
    <2>1. /\ pc # "idle" /\ pc' = "idle" /\ runs' = runs
          /\ journal \subseteq journal'
          /\ \A e \in journal' : e \in journal \/ (e.run = runs /\ e.changes \subseteq made)
      BY <1>8 DEF Finish, Reset, Line
    <2>2. made \subseteq Plan /\ \A e \in journal : e.run = runs => e.changes \subseteq Plan
      BY <2>1 DEF SingleLines
    <2>3. ASSUME NEW e \in journal', NEW f \in journal', e.run = f.run
          PROVE  Single(e.changes \cup f.changes)
      <3>1. CASE e.run = runs
        <4>1. e.changes \cup f.changes \subseteq Plan
          BY <2>1, <2>2, <2>3, <3>1
        <4> QED
          BY <4>1, ReversibleFacts DEF Single
      <3>2. CASE e.run # runs
        BY <2>1, <2>3, <3>2 DEF SingleLines
      <3> QED
        BY <3>1, <3>2
    <2> QED
      BY <2>1, <2>3 DEF SingleLines
  <1>9. CASE Kill
    BY <1>9 DEF Kill, Reset, SingleLines
  <1> QED
    BY <1>1, <1>2, <1>3, <1>4, <1>5, <1>6, <1>7, <1>8, <1>9
       DEF Next, vars, cmdVars, UserEdit

\* A PATCH that lands on the version read leaves nothing of the target on its item.
LEMMA PatchLeavesNothing ==
    ASSUME IInv, SingleLines, Reversing, pc = "patch", Lands,
           NEW c \in Reversible(target), c.item = item
    PROVE  library'[c.item][c.slot] # c.to
  <1> DEFINE x == Inverse(c)
  <1>1. c \in Changes /\ c.from # c.to /\ c.slot \in Slots /\ Single(Plan)
    BY ReversibleFacts DEF Single, Changes
  <1>2. x.from = c.to /\ x.to = c.from /\ x.slot = c.slot /\ x.item = c.item
    BY <1>1 DEF Inverse, Changes
  <1>3. x \in Planned(item) /\ x \in Plan /\ Planned(item) \subseteq Plan
    BY DEF Planned, Plan
  <1>4. \A y \in Planned(item) : y.item = item
    <2>1. \A d \in Changes : Inverse(d).item = d.item
      BY DEF Inverse, Changes
    <2> QED
      BY <2>1, ReversibleFacts DEF Planned
  <1> HIDE DEF x
  <1>5. \A y \in Effective(item) : y.slot = c.slot => y = x
    BY <1>1, <1>2, <1>3, <1>4 DEF Single, Effective
  <1>6. library'[item] = Patched(item) /\ view = library[item]
    BY DEF IInv, TypeOK, Lands, Reversing
  <1>7. CASE x \in Effective(item)
    <2>1. (CHOOSE y \in Effective(item) : y.slot = c.slot) = x
      BY <1>2, <1>5, <1>7
    <2>2. Patched(item)[c.slot] = x.to
      BY <1>1, <1>2, <1>7, <2>1 DEF Patched, Changed
    <2> QED
      BY <1>1, <1>2, <1>6, <2>2
  <1>8. CASE x \notin Effective(item)
    <2>1. ~ \E y \in Effective(item) : y.slot = c.slot
      BY <1>5, <1>8
    <2>2. Patched(item)[c.slot] = library[item][c.slot]
      BY <1>1, <1>6, <2>1 DEF Patched, Changed
    <2>3. view[c.slot] # c.to
      BY <1>2, <1>3, <1>8 DEF Effective
    <2> QED
      BY <1>6, <2>2, <2>3
  <1> QED
    BY <1>7, <1>8

LEMMA ReversingStep ==
    ASSUME IInv, SingleLines, Reversing, [Next]_vars
    PROVE  Reversing'
  <1> DEFINE Same == Reversible(target)' = Reversible(target)
  <1>1. CASE ForwardRun \/ Finish \/ Kill
    BY <1>1 DEF ForwardRun, Finish, Kill, Reset, cmdVars, Reversing
  <1>2. ASSUME NEW r \in Runs, Begin(r) PROVE Reversing'
    <2>1. pc' = "op" /\ target' = r /\ todo' = {c.item : c \in Reversible(r)} /\ journal' = journal
      BY <1>2 DEF Begin
    <2>2. Reversible(target)' = Reversible(r)
      BY <2>1 DEF Reversible, Recorded, IsUndo, Folded, Finished
    <2> QED
      BY <2>1, <2>2 DEF Reversing, Gone
  <1>3. CASE UNCHANGED vars
    BY <1>3 DEF vars, cmdVars, Reversing, Gone, Reversible, Recorded, IsUndo, Folded, Finished
  <1>4. ASSUME UserEdit, pc # "idle" PROVE Reversing'
    <2>1. /\ UNCHANGED <<journal, pc, target, todo, item, view, ok>>
          /\ Same
      BY <1>4, SamePlan DEF UserEdit
    <2>2. PICK i \in Items, s \in Slots, v \in Values :
            /\ library' = [library EXCEPT ![i][s] = v]
            /\ touched' = touched \cup {<<i, s>>}
            /\ stale' = (stale \/ (pc = "patch" /\ i = item))
      BY <1>4 DEF UserEdit
    <2>3. \A j \in Items, t \in Slots :
            library'[j][t] # library[j][t] => j = i /\ t = s
      BY <2>2 DEF IInv, TypeOK
    <2>4. \A c \in Reversible(target) : Gone(c) => Gone(c)'
      BY <2>1, <2>2, <2>3, ReversibleFacts DEF Gone, Changes
    <2>5. pc = "patch" /\ ~stale' => view' = library'[item]
      BY <2>1, <2>2 DEF Reversing, IInv, TypeOK
    <2> QED
      BY <2>1, <2>4, <2>5 DEF Reversing
  <1>5. CASE Reserve
    <2>1. pc = "op" /\ UNCHANGED <<pc, library, touched, item, target>>
      BY <1>5 DEF Reserve, Active
    <2>2. /\ journal \subseteq journal'
          /\ \A e \in journal' : e \in journal \/ e.run = runs
      BY <1>5 DEF Reserve, Line
    <2>3. Same
      BY <2>1, <2>2, SamePlan
    <2>4. CASE UNCHANGED <<ok, todo>>
      BY <2>1, <2>3, <2>4 DEF Reversing, Gone
    <2>5. CASE ok' = FALSE
      BY <2>1, <2>5 DEF Reversing
    <2> QED
      BY <1>5, <2>4, <2>5 DEF Reserve, Fail
  <1>6. CASE Read
    <2>1. /\ pc = "op" /\ UNCHANGED <<library, touched, target, journal>> /\ Same
      BY <1>6, SamePlan DEF Read, Active
    <2>2. PICK i \in todo :
            /\ todo' = todo \ {i}
            /\ \/ ok' = FALSE /\ pc' = "op"
               \/ /\ \A c \in Planned(i) : library[i][c.slot] # c.from
                  /\ pc' = "op" /\ ok' = ok
               \/ pc' = "patch" /\ item' = i /\ view' = library[i] /\ ok' = ok
      BY <1>6, <2>1 DEF Read, Fail
    <2>3. CASE ok' = FALSE /\ pc' = "op"
      BY <2>3 DEF Reversing
    <2>4. CASE /\ \A c \in Planned(i) : library[i][c.slot] # c.from
               /\ pc' = "op" /\ ok' = ok
      <3>1. ASSUME NEW c \in Reversible(target), c.item = i
            PROVE  library[c.item][c.slot] # c.to
        <4>1. Inverse(c) \in Planned(i)
          BY <3>1 DEF Planned
        <4>2. c \in Changes
          BY ReversibleFacts
        <4>3. Inverse(c).from = c.to /\ Inverse(c).slot = c.slot
          BY <4>2 DEF Inverse, Changes
        <4> QED
          BY <2>4, <3>1, <4>1, <4>3
      <3> QED
        BY <2>1, <2>2, <2>4, <3>1 DEF Reversing, Gone
    <2>5. CASE pc' = "patch" /\ item' = i /\ view' = library[i] /\ ok' = ok
      BY <2>1, <2>2, <2>5 DEF Reversing, Gone
    <2> QED
      BY <2>2, <2>3, <2>4, <2>5
  <1>7. CASE Patch
    <2>1. /\ pc = "patch" /\ pc' # "idle" /\ pc' # "patch" /\ UNCHANGED <<touched, todo, item, target, journal>>
          /\ Same
      BY <1>7, SamePlan DEF Patch
    <2>2. CASE Lands /\ ok' = ok
      <3>1. \A j \in Items : j # item => library'[j] = library[j]
        BY <2>2 DEF Lands, IInv, TypeOK
      <3>2. ASSUME NEW c \in Reversible(target), ok PROVE Gone(c)'
        <4>1. Gone(c) /\ c.item \in Items
          BY <2>1, <3>2, ReversibleFacts DEF Reversing, Changes
        <4>2. CASE c.item = item
          BY <2>1, <2>2, <4>2, PatchLeavesNothing DEF Gone
        <4>3. CASE c.item # item
          BY <2>1, <3>1, <4>1, <4>3 DEF Gone
        <4> QED
          BY <4>2, <4>3
      <3> QED
        BY <2>1, <2>2, <3>2 DEF Reversing
    <2>3. CASE ok' = FALSE
      BY <2>1, <2>3 DEF Reversing
    <2> QED
      BY <1>7, <2>2, <2>3 DEF Patch, Fail
  <1>8. CASE RecordOp
    <2>1. /\ pc = "record" /\ pc' = "op" /\ UNCHANGED <<library, touched, todo, target, ok>>
          /\ journal \subseteq journal'
          /\ \A e \in journal' : e \in journal \/ e.run = runs
      BY <1>8 DEF RecordOp, Line
    <2>2. Same
      BY <2>1, SamePlan
    <2> QED
      BY <2>1, <2>2 DEF Reversing, Gone
  <1>9. ASSUME UserEdit, pc = "idle" PROVE Reversing'
    BY <1>9 DEF UserEdit, Reversing
  <1> QED
    BY <1>1, <1>2, <1>3, <1>4, <1>5, <1>6, <1>7, <1>8, <1>9 DEF Next

\* While all its operations have succeeded, an undo has left nothing of what its
\* target wrote on the items it is done with, except where the user edited
\* meanwhile, whatever the target was and whether or not its plan was exact.
THEOREM SuccessMeansReversed == Spec => []OkMeansReversed
  <1>1. Init => SingleLines /\ Reversing
    BY DEF Init, SingleLines, Reversing
  <1>2. IInv /\ SingleLines /\ Reversing /\ [Next]_vars => SingleLines' /\ Reversing'
    BY LinesStep, ReversingStep
  <1>3. Reversing => OkMeansReversed
    BY DEF Reversing, Gone, OkMeansReversed
  <1> QED
    BY <1>1, <1>2, <1>3, InitIInv, Inductive, PTL DEF Spec
=============================================================================
