---------------------------- MODULE JournalUndo -----------------------------
(***************************************************************************)
(* "journal undo <run-id>" (internal/cli/journal.go, internal/mutation/    *)
(* reverse.go): the reversal of what one journal entry recorded, beside a  *)
(* user who edits the library meanwhile, with failures and kills at every  *)
(* step.  MutationRun models the engine that runs the operations; here a   *)
(* forward run is one step and an undo run is taken apart.                 *)
(*                                                                         *)
(* An item is a function from slots to values.  A tag or a collection is a *)
(* membership slot, present or absent; a captured field, an Extra line or  *)
(* the trash flag is a field slot.  A change takes a slot from one value   *)
(* to another; its inverse takes it back, and only while the live item     *)
(* still holds what the change wrote.                                      *)
(***************************************************************************)
EXTENDS Naturals, FiniteSets

CONSTANTS
    Items, Memberships, Fields, Values,
    MaxRuns,        \* bound: forward and undo runs together
    MaxForward,     \* bound: forward runs are among the first MaxForward runs
    MaxEdits,       \* bound: edits by the user
    UndoUndos,      \* may an undo run itself be undone?
    StalePlans      \* may a write find part of its plan already in place?

ASSUME UndoAssumption ==
    /\ Items # {} /\ Values # {}
    /\ MaxRuns \in Nat
    /\ MaxForward \in 0 .. MaxRuns
    /\ MaxEdits \in Nat
    /\ UndoUndos \in BOOLEAN
    /\ StalePlans \in BOOLEAN

Slots == Memberships \cup Fields
Runs == 1 .. MaxRuns
Changes == [item : Items, slot : Slots, from : Values, to : Values]

\* A line of the journal: a reservation, one operation's record, or the record
\* of the finished run.  undoes = 0 links no run.
Entries == [run : Runs, part : {"reserve", "op", "final"},
            undoes : {0} \cup Runs, changes : SUBSET Changes]

VARIABLES
    library,        \* the items as api.zotero.org holds them
    journal,        \* the lines of the journal
    runs,           \* how many runs there have been; their ids are 1 .. runs
    edits,          \* how many edits the user has made
    did,            \* ghost: the changes each run really made
    reversedBy,     \* ghost: per run, the undo runs that wrote, or may have
    touched,        \* ghost: the slots the user edited during this undo
    pc,             \* the undo command: "idle", "op", "patch" or "record"
    target,         \* the run it undoes
    todo,           \* the items whose operations have not started
    item,           \* the item of the operation in progress
    view,           \* that item as read from the write plane
    stale,          \* has its version moved since the read?
    reserved,       \* is the link to target on disk?
    wrote,          \* has an operation landed, or may it have?
    made,           \* what the applied operations have planned
    ok, stop        \* the engine's verdict so far, and its stop flag

cmdVars == <<pc, target, todo, item, view, stale, reserved, wrote, made, ok, stop>>
vars == <<library, journal, runs, edits, did, reversedBy, touched, cmdVars>>

-----------------------------------------------------------------------------
(* The journal as ListEntries folds it. *)
Finished(r) == \E e \in journal : e.run = r /\ e.part = "final"
Folded(r) == {e \in journal : e.run = r /\ (Finished(r) => e.part = "final")}
Recorded(r) == UNION {e.changes : e \in Folded(r)}

IsUndo(r) == \E e \in Folded(r) : e.undoes # 0

\* Fault: looks for an earlier undo in the finished entries alone.
Mutant_HasUndo(r) == \E e \in journal : e.part = "final" /\ e.undoes = r

\* refuseRecordedUndo
HasUndo(r) == \E u \in Runs : \E e \in Folded(u) : e.undoes = r

\* InverseOps.  An operation of an undo run captured no inverse of its own, so
\* it is refused whole when one of its changes is to a field.
Reversible(r) ==
    {c \in Recorded(r) : IsUndo(r) =>
        \A d \in Recorded(r) : d.item = c.item => d.slot \in Memberships}

Inverse(c) == [c EXCEPT !.from = c.to, !.to = c.from]
Planned(i) == {Inverse(c) : c \in {d \in Reversible(target) : d.item = i}}

\* The part of the plan the PATCH carries: what the item read still holds.
Effective(i) == {c \in Planned(i) : view[c.slot] = c.from}

\* An item after a set of changes, of which one slot has at most one.
Changed(slots, C) ==
    [s \in Slots |-> IF \E c \in C : c.slot = s
                     THEN (CHOOSE c \in C : c.slot = s).to ELSE slots[s]]

\* Fault: leaves the field restores out of the PATCH.
Mutant_Patched(i) ==
    Changed([s \in Slots |-> IF s \in Memberships THEN view[s] ELSE library[i][s]],
            {c \in Effective(i) : c.slot \in Memberships})

\* The PATCH sends whole membership arrays, as they were read.
Patched(i) ==
    Changed([s \in Slots |-> IF s \in Memberships THEN view[s] ELSE library[i][s]],
            Effective(i))

OnItem(C, i) == {c \in C : c.item = i}
Line(r, part, undoes, changes) ==
    [run |-> r, part |-> part, undoes |-> undoes, changes |-> changes]

NoView == [s \in Slots |-> CHOOSE v \in Values : TRUE]
NoItem == CHOOSE i \in Items : TRUE

Init ==
    /\ library \in [Items -> [Slots -> Values]]
    /\ journal = {}
    /\ runs = 0 /\ edits = 0
    /\ did = [r \in Runs |-> {}]
    /\ reversedBy = [r \in Runs |-> {}]
    /\ touched = {}
    /\ pc = "idle"
    /\ target = 0
    /\ todo = {}
    /\ item = NoItem /\ view = NoView
    /\ stale = FALSE /\ reserved = FALSE /\ wrote = FALSE
    /\ made = {}
    /\ ok = TRUE /\ stop = FALSE

-----------------------------------------------------------------------------
(* A forward run: at most one operation on each item.  It ends with its    *)
(* final entry, or it is cut short, and then all but the last operation    *)
(* that landed have their record (MutationRun, OneRequestAtRisk).  The     *)
(* record is the plan: with StalePlans it also names memberships that were *)
(* already as planned when the PATCH was computed.                         *)
Differing(i) == {c \in Changes : c.item = i /\ c.from = library[i][c.slot] /\ c.to # c.from}
InPlace(i) ==
    {c \in Changes : /\ c.item = i /\ c.to = library[i][c.slot] /\ c.to # c.from
                     /\ c.slot \in Memberships /\ StalePlans}

OpLines(r, R, I) == {Line(r, "op", 0, OnItem(R, i)) : i \in I}

ForwardRun ==
    /\ pc = "idle"
    /\ runs < MaxForward
    /\ \E C \in SUBSET UNION {Differing(i) : i \in Items},
          D \in SUBSET UNION {InPlace(i) : i \in Items} :
         LET R == C \cup D
             I == {c.item : c \in C}
         IN /\ C # {}
            /\ \A c \in R : c.item \in I
            /\ \A c, d \in R : c.item = d.item /\ c.slot = d.slot => c = d
            /\ library' = [i \in Items |-> Changed(library[i], OnItem(C, i))]
            /\ did' = [did EXCEPT ![runs + 1] = C]
            /\ \/ journal' = journal \cup {Line(runs + 1, "final", 0, R)}
               \/ journal' = journal \cup OpLines(runs + 1, R, I)
               \/ \E last \in I : journal' = journal \cup OpLines(runs + 1, R, I \ {last})
    /\ runs' = runs + 1
    /\ UNCHANGED <<edits, reversedBy, touched, cmdVars>>

UserEdit ==
    /\ edits < MaxEdits
    /\ edits' = edits + 1
    /\ \E i \in Items, s \in Slots, v \in Values :
         /\ v # library[i][s]
         /\ library' = [library EXCEPT ![i][s] = v]
         /\ touched' = IF pc = "idle" THEN {} ELSE touched \cup {<<i, s>>}
         /\ stale' = (stale \/ (pc = "patch" /\ i = item))
    /\ UNCHANGED <<journal, runs, did, reversedBy, pc, target, todo, item, view,
                   reserved, wrote, made, ok, stop>>

-----------------------------------------------------------------------------
(* The undo command. *)
Begin(r) ==
    /\ pc = "idle"
    /\ runs < MaxRuns
    /\ Folded(r) # {}
    /\ ~HasUndo(r)
    /\ IsUndo(r) => UndoUndos
    /\ Reversible(r) # {}
    /\ pc' = "op"
    /\ runs' = runs + 1
    /\ target' = r
    /\ todo' = {c.item : c \in Reversible(r)}
    /\ UNCHANGED <<library, journal, edits, did, reversedBy, touched, item, view,
                   stale, reserved, wrote, made, ok, stop>>

\* A failed or conflicting operation stops the run, unless --continue-on-error
\* and --max-failures let it go on.
Fail == ok' = FALSE /\ stop' \in {stop, TRUE}

Active == pc = "op" /\ todo # {} /\ ~stop

\* reserveJournalUndo, inside the first operation's Apply.  An append that
\* returns an error may have stored its line, and fails that operation.
Reserve ==
    /\ Active
    /\ ~reserved
    /\ \/ /\ journal' = journal \cup {Line(runs, "reserve", target, {})}
          /\ reserved' = TRUE
          /\ UNCHANGED <<todo, ok, stop>>
       \/ /\ journal' \in {journal, journal \cup {Line(runs, "reserve", target, {})}}
          /\ \E i \in todo : todo' = todo \ {i}
          /\ Fail
          /\ UNCHANGED reserved
    /\ UNCHANGED <<library, runs, edits, did, reversedBy, touched, pc, target, item,
                   view, stale, wrote, made>>

\* The read of the live item: it fails, or nothing is left to reverse (no_op),
\* or a PATCH follows under the version read.
Read ==
    /\ Active
    /\ reserved
    /\ \E i \in todo :
         /\ todo' = todo \ {i}
         /\ \/ /\ Fail
               /\ UNCHANGED <<pc, item, view, stale>>
            \/ /\ \A c \in Planned(i) : library[i][c.slot] # c.from
               /\ UNCHANGED <<pc, item, view, stale, ok, stop>>
            \/ /\ \E c \in Planned(i) : library[i][c.slot] = c.from
               /\ pc' = "patch"
               /\ item' = i
               /\ view' = library[i]
               /\ stale' = FALSE
               /\ UNCHANGED <<ok, stop>>
    /\ UNCHANGED <<library, journal, runs, edits, did, reversedBy, touched, target,
                   reserved, wrote, made>>

\* Fault: sends the PATCH without its precondition.
Mutant_Lands ==
    /\ library' = [library EXCEPT ![item] = Patched(item)]
    /\ did' = [did EXCEPT ![runs] = @ \cup Effective(item)]

\* A PATCH that lands: only on the version that was read.
Lands ==
    /\ ~stale
    /\ library' = [library EXCEPT ![item] = Patched(item)]
    /\ did' = [did EXCEPT ![runs] = @ \cup Effective(item)]

\* The answer is "applied", an outcome nobody knows, or a refusal (412, any
\* other definite error).
Patch ==
    /\ pc = "patch"
    /\ \/ /\ Lands
          /\ made' = made \cup Planned(item)
          /\ pc' = "record"
          /\ wrote' = TRUE
          /\ reversedBy' = [reversedBy EXCEPT ![target] = @ \cup {runs}]
          /\ UNCHANGED <<ok, stop>>
       \/ /\ Lands \/ UNCHANGED <<library, did>>
          /\ pc' = "record"
          /\ wrote' = TRUE
          /\ reversedBy' = [reversedBy EXCEPT ![target] = @ \cup {runs}]
          /\ Fail
          /\ UNCHANGED made
       \/ /\ pc' = "op"
          /\ Fail
          /\ UNCHANGED <<library, did, wrote, made, reversedBy>>
    /\ UNCHANGED <<journal, runs, edits, touched, target, todo, item, view, stale,
                   reserved>>

\* The record of the operation, which names its planned changes if it applied
\* and none if its outcome is unknown.  A failed append holds back the rest.
RecordOp ==
    /\ pc = "record"
    /\ pc' = "op"
    /\ LET line == Line(runs, "op", target, OnItem(made, item))
       IN \/ /\ journal' = journal \cup {line}
             /\ UNCHANGED stop
          \/ /\ journal' \in {journal, journal \cup {line}}
             /\ stop' = TRUE
    /\ UNCHANGED <<library, runs, edits, did, reversedBy, touched, target, todo, item,
                   view, stale, reserved, wrote, made, ok>>

\* The command's locals go away with it.
Reset ==
    /\ pc' = "idle"
    /\ target' = 0
    /\ todo' = {}
    /\ item' = NoItem /\ view' = NoView
    /\ stale' = FALSE /\ reserved' = FALSE /\ wrote' = FALSE
    /\ made' = {}
    /\ ok' = TRUE /\ stop' = FALSE
    /\ touched' = {}

\* Fault: releases the reservation of every run that did not end well.
Mutant_Finish ==
    /\ pc = "op"
    /\ LET line == Line(runs, "final", IF ok THEN target ELSE 0, made)
       IN journal' \in {journal, journal \cup {line}}
    /\ Reset
    /\ UNCHANGED <<library, runs, edits, did, reversedBy>>

\* recordMutationJournal, after the last operation, a stop or a cancellation:
\* a run that wrote nothing gives its reservation up.
Finish ==
    /\ pc = "op"
    /\ LET line == Line(runs, "final", IF wrote THEN target ELSE 0, made)
       IN journal' \in {journal, journal \cup {line}}
    /\ Reset
    /\ UNCHANGED <<library, runs, edits, did, reversedBy>>

Kill ==
    /\ pc # "idle"
    /\ Reset
    /\ UNCHANGED <<library, journal, runs, edits, did, reversedBy>>

Next ==
    \/ ForwardRun
    \/ UserEdit
    \/ \E r \in Runs : Begin(r)
    \/ Reserve
    \/ Read
    \/ Patch
    \/ RecordOp
    \/ Finish
    \/ Kill

Spec == Init /\ [][Next]_vars

-----------------------------------------------------------------------------
(* Properties. *)

\* Types of the state.
TypeOK ==
    /\ library \in [Items -> [Slots -> Values]]
    /\ journal \subseteq Entries
    /\ runs \in 0 .. MaxRuns
    /\ edits \in 0 .. MaxEdits
    /\ did \in [Runs -> SUBSET Changes]
    /\ reversedBy \in [Runs -> SUBSET Runs]
    /\ touched \subseteq Items \X Slots
    /\ pc \in {"idle", "op", "patch", "record"}
    /\ target \in 0 .. MaxRuns
    /\ todo \subseteq Items
    /\ item \in Items
    /\ view \in [Slots -> Values]
    /\ made \subseteq Changes
    /\ stale \in BOOLEAN /\ reserved \in BOOLEAN /\ wrote \in BOOLEAN
    /\ ok \in BOOLEAN /\ stop \in BOOLEAN

\* Whatever fails and wherever the process dies, an undo that wrote, or may
\* have, is linked to the run it reverses by an entry that folding keeps.
EveryUndoIsLinked ==
    \A r \in Runs : \A u \in reversedBy[r] :
        \E e \in Folded(u) : e.undoes = r

\* No run is reversed twice, so that no undo is replayed over later edits
\* (reserveJournalUndo's promise, across kills and failed journal writes).
UndoneOnce ==
    \A r \in Runs : \A u, v \in reversedBy[r] : u = v

\* An undo changes a slot only back, from the value its target wrote to the
\* value that run replaced: what the user edited since, and what the run never
\* changed, stays as it is.
UndoOnlyReverses ==
    [][\A i \in Items, s \in Slots :
          pc = "patch" /\ pc' # "patch" /\ library'[i][s] # library[i][s] =>
              \E c \in did[target] : /\ c.item = i /\ c.slot = s
                                     /\ c.to = library[i][s]
                                     /\ c.from = library'[i][s]]_vars

\* While every operation so far has succeeded, nothing that the target wrote is
\* left on the items done with, except where the user edited meanwhile.
OkMeansReversed ==
    pc = "op" /\ ok =>
        \A c \in Reversible(target) :
            \/ c.item \in todo
            \/ <<c.item, c.slot>> \in touched
            \/ library[c.item][c.slot] # c.to
=============================================================================
