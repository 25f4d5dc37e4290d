-------------------------- MODULE VaultNote_proofs --------------------------
(***************************************************************************)
(* Proofs about VaultNote: its type invariant, BaselineHonest and, from    *)
(* the same inductive invariant, the three action properties: what other   *)
(* clients write stands, what the user writes stands, and no create is     *)
(* carried out beside a managed child note.                                *)
(***************************************************************************)
EXTENDS VaultNote, FiniteSetTheorems, TLAPS

\* The phases of a command that works on the note its file knows.
Bound == {"versions", "read", "intend", "patch", "reconcile", "settle"}
On(c, pcs) == c.pc \in pcs \/ (c.pc = "write" /\ c.next \in pcs)

\* A baseline that is true of the child note and of what a text is in it.
Fit(st) ==
    /\ st.key # None =>
         /\ st.src \in held /\ st.remote = Body(st.src)
         /\ st.ver <= version
         /\ notes[st.key].at = "live" /\ notes[st.key].ver = st.ver => notes[st.key].body = st.remote
    /\ st.psrc # None => st.psrc \in shown /\ st.premote = Body(st.psrc)

Dated == \A k \in NoteKeys : notes[k].ver <= version

Known == \A k \in NoteKeys : notes[k].at = "live" => notes[k].body.text \in held

Filed ==
    /\ Fit(file.state)
    /\ Empty \in shown /\ file.region \in shown
    /\ file.state.key # None => file.state.src \in shown

\* What a command knows has been in the region.
Seen(c) ==
    /\ c.note.region \in shown
    /\ On(c, Bound) => c.note.state.src \in shown
    /\ c.pc = "write" /\ c.buffer.state.key # None
         => c.buffer.state.src \in shown \cup {c.buffer.region}

Keyed(c) ==
    /\ On(c, Bound) => c.key = c.note.state.key /\ c.key \in NoteKeys
    /\ On(c, Bound) \/ c.pc \in {"discover", "post"} => c.src = None
    /\ c.pc \in {"versions", "read"} => ~c.retried
    /\ c.pc = "versions" => c.op = "push"
    /\ c.pc = "read" => c.op \in {"push", "pull", "keep_vault", "keep_remote"}
    /\ c.pc = "write" => c.next \in {"intend", "patch", "settle", "end"}

\* What the note is when it is read back.
Source(c) == IF c.src = None THEN c.note.region ELSE c.src
ReadBack(c) ==
    c.pc = "finalize" =>
        /\ c.key \in NoteKeys
        /\ Source(c) \in shown
        /\ notes[c.key].at = "live" => notes[c.key].body = Body(Source(c))

\* The precondition of a push names the body of the baseline.
Pinned(c) ==
    On(c, {"patch"}) /\ c.op # "keep_vault" =>
        /\ c.pre <= version
        /\ notes[c.key].at = "live" /\ notes[c.key].ver = c.pre
             => notes[c.key].body = c.note.state.remote

Again(c) ==
    c.retried /\ On(c, Bound) =>
        /\ c.live.body = c.note.state.remote
        /\ c.live.ver <= version
        /\ notes[c.key].at = "live" /\ notes[c.key].ver = c.live.ver
             => notes[c.key].body = c.live.body

Alone(c) == c.pc = "post" /\ <<c.note.region, c.replaces>> \notin tokens => Managed = {}

Spared(c) ==
    c.pc = "write" /\ c.op # "keep_remote" =>
        c.buffer.region = c.base \/ c.base \in held

Good(c) ==
    /\ Fit(c.note.state) /\ Fit(c.buffer.state)
    /\ Seen(c) /\ Keyed(c) /\ ReadBack(c) /\ Pinned(c) /\ Again(c) /\ Alone(c) /\ Spared(c)

\* The file says what the command has read or written.
Level(c) ==
    On(c, Bound) =>
        /\ file.state.key = c.key
        /\ c.pc = "write" => c.buffer.state = c.note.state
        /\ c.pc # "write" \/ c.next = "settle" => file.state.remote = c.note.state.remote

Inv == TypeOK /\ Dated /\ Known /\ Filed /\ Good(cmd) /\ Level(cmd)

-----------------------------------------------------------------------------
(* Types. *)

LEMMA BodyType == \A t \in Texts \cup {None} : Body(t) \in Bodies /\ NoBody \in Bodies
  BY DEF Body, NoBody, Bodies

LEMMA UnboundType == Unbound \in States
  BY BodyType DEF Unbound, States

LEMMA FreshType == Fresh \in Files
  BY UnboundType, VaultNoteAssumption DEF Fresh, Files

LEMMA AbsentType == Absent \in ChildNotes
  BY BodyType DEF Absent, ChildNotes

LEMMA IdleType == Idle \in Commands
  <1>1. "idle" \in PCs /\ "none" \in Statuses
    BY DEF PCs, Statuses
  <1> QED
    BY <1>1, FreshType, AbsentType DEF Idle, Commands

LEMMA BaselineType ==
    ASSUME NEW key \in NoteKeys \cup {None}, NEW ver \in Nat, NEW src \in Texts \cup {None},
           NEW body \in Bodies
    PROVE  Baseline(key, ver, src, body) \in States
  BY BodyType, UnboundType DEF Baseline, Unbound, States

LEMMA WritingType ==
    ASSUME NEW c \in Commands, NEW region \in Texts, NEW state \in States, NEW next \in PCs,
           file \in Files
    PROVE  Writing(c, region, state, next) \in Commands
  <1>1. "write" \in PCs
    BY DEF PCs
  <1>2. [region |-> region, state |-> state] \in Files
    BY DEF Files
  <1>3. [c.note EXCEPT !.state = state] \in Files
    BY DEF Files, Commands
  <1>4. file.region \in Texts \cup {None}
    BY DEF Files
  <1> QED
    BY <1>1, <1>2, <1>3, <1>4 DEF Writing, Commands

LEMMA StatingType ==
    ASSUME NEW c \in Commands, NEW state \in States, NEW next \in PCs, file \in Files
    PROVE  Stating(c, state, next) \in Commands
  <1>1. file.region \in Texts
    BY DEF Files
  <1> QED
    BY <1>1, WritingType DEF Stating

LEMMA EndingType ==
    ASSUME NEW status \in Statuses, NEW pc \in PCs, cmd \in Commands
    PROVE  Ending(status) \in Commands /\ Going(pc) \in Commands
  <1>1. "end" \in PCs
    BY DEF PCs
  <1> QED
    BY <1>1 DEF Ending, Going, Commands

LEMMA ConvergedType ==
    ASSUME NEW c \in Commands, NEW note \in ChildNotes, NEW src \in Texts, NEW next \in PCs,
           file \in Files
    PROVE  Converged(c, note, src, next) \in Commands
  <1>1. c.note.state.key \in NoteKeys \cup {None}
    BY DEF Commands, Files, States
  <1>2. note.ver \in Nat /\ note.body \in Bodies
    BY DEF ChildNotes
  <1>3. Baseline(c.note.state.key, note.ver, src, note.body) \in States
    BY <1>1, <1>2, BaselineType
  <1> QED
    BY <1>3, StatingType DEF Converged

LEMMA IntendingType ==
    ASSUME NEW c \in Commands, NEW ver \in Nat, file \in Files
    PROVE  Intending(c, ver) \in Commands
  <1>1. [c EXCEPT !.pre = ver] \in Commands
    BY DEF Commands
  <1>2. c.note.region \in Texts /\ c.note.state \in States
    BY DEF Commands, Files
  <1>3. Body(c.note.region) \in Bodies
    BY <1>2, BodyType
  <1>4. [c.note.state EXCEPT !.psrc = c.note.region, !.premote = Body(c.note.region)] \in States
    BY <1>2, <1>3 DEF States
  <1>5. "patch" \in PCs
    BY DEF PCs
  <1> QED
    BY <1>1, <1>4, <1>5, StatingType DEF Intending

LEMMA PullingType ==
    ASSUME NEW c \in Commands, NEW note \in ChildNotes, NEW source, file \in Files,
           note.body.text \in Texts
    PROVE  Pulling(c, note, source) \in Commands
  <1>1. c.note.state.key \in NoteKeys \cup {None}
    BY DEF Commands, Files, States
  <1>2. note.ver \in Nat /\ note.body \in Bodies
    BY DEF ChildNotes
  <1>3. Baseline(c.note.state.key, note.ver, note.body.text, note.body) \in States
    BY <1>1, <1>2, BaselineType
  <1>4. "end" \in PCs /\ "conflict" \in Statuses
    BY DEF PCs, Statuses
  <1>5. [c EXCEPT !.pc = "end", !.status = "conflict"] \in Commands
    BY <1>4 DEF Commands
  <1>6. Writing(c, note.body.text,
                Baseline(c.note.state.key, note.ver, note.body.text, note.body), "end") \in Commands
    BY <1>3, <1>4, WritingType
  <1> QED
    BY <1>5, <1>6 DEF Pulling

LEMMA QuietType ==
    ASSUME TypeOK, Quiet, cmd' \in Commands
    PROVE  TypeOK'
  BY DEF TypeOK, Quiet, zotero, ghosts, bounds

LEMMA StartType ==
    ASSUME Inv, NEW op \in Ops, Start(op)
    PROVE  TypeOK'
  <1> DEFINE bound == file.state.key # None
             begun == [Idle EXCEPT !.op = op, !.note = file, !.key = file.state.key]
  <1>1. file \in Files /\ file.region \in Texts /\ file.state \in States
        /\ file.state.key \in NoteKeys \cup {None}
    BY DEF Inv, TypeOK, Files, States
  <1>2. begun \in Commands
    BY <1>1, IdleType DEF Commands
  <1>3. Writing(begun, file.region, file.state, "end") \in Commands
    BY <1>1, <1>2, WritingType DEF PCs
  <1>4. \A pc \in PCs : [begun EXCEPT !.pc = pc] \in Commands
    BY <1>2 DEF Commands
  <1>5. \A pc \in PCs : [begun EXCEPT !.pc = pc, !.replaces = file.state.key] \in Commands
    BY <1>1, <1>2 DEF Commands
  <1>6. cmd' \in {Writing(begun, file.region, file.state, "end"),
                  [begun EXCEPT !.pc = "versions"], [begun EXCEPT !.pc = "read"],
                  [begun EXCEPT !.pc = "discover", !.replaces = file.state.key],
                  [begun EXCEPT !.pc = "end"]}
    BY Zenon DEF Start
  <1>7. cmd' \in Commands
    BY <1>3, <1>4, <1>5, <1>6 DEF PCs
  <1>8. orders' \in 0..MaxOrders
    BY VaultNoteAssumption DEF Start, Inv, TypeOK
  <1> QED
    BY <1>7, <1>8 DEF Start, Inv, TypeOK, zotero, ghosts

LEMMA OthersType ==
    ASSUME Inv,
           \/ \E t \in Texts : Save(t)
           \/ \E k \in NoteKeys :
                \/ \E t \in Texts, managed \in BOOLEAN : EditElsewhere(k, t, managed)
                \/ TouchElsewhere(k) \/ DeleteElsewhere(k)
    PROVE  TypeOK'
  <1>0. TypeOK /\ Known
    BY DEF Inv
  <1>1. ASSUME NEW t \in Texts, Save(t)
        PROVE  TypeOK'
    <2>1. file' \in Files
      BY <1>0, <1>1 DEF Save, TypeOK, Files
    <2>2. shown' \subseteq Texts /\ saves' \in 0..MaxSaves
      BY <1>0, <1>1, VaultNoteAssumption DEF Save, TypeOK
    <2> QED
      BY <1>0, <1>1, <2>1, <2>2 DEF Save, TypeOK, zotero
  <1>2. ASSUME NEW k \in NoteKeys, NEW note \in ChildNotes, note.body.text \in Texts, Bump(k, note)
        PROVE  TypeOK'
    <2>1. notes' \in [NoteKeys -> ChildNotes] /\ version' \in Nat
      BY <1>0, <1>2 DEF Bump, TypeOK, ChildNotes
    <2>2. held' \subseteq Texts /\ edits' \in 0..MaxEdits
      BY <1>0, <1>2, VaultNoteAssumption DEF Bump, TypeOK
    <2> QED
      BY <1>0, <1>2, <2>1, <2>2 DEF Bump, TypeOK
  <1>3. ASSUME NEW k \in Live
        PROVE  notes[k] \in ChildNotes /\ notes[k].body.text \in Texts
    BY <1>0, <1>3 DEF Live, Known, TypeOK
  <1>4. ASSUME NEW k \in NoteKeys, NEW t \in Texts, NEW managed \in BOOLEAN,
               EditElsewhere(k, t, managed)
        PROVE  TypeOK'
    <2>1. k \in Live
      BY <1>4 DEF EditElsewhere, Bump
    <2>2. Mutated(k, t, managed) \in ChildNotes /\ Mutated(k, t, managed).body.text = t
      BY <2>1, <1>3 DEF Mutated, ChildNotes, Bodies
    <2> QED
      BY <1>2, <1>4, <2>2 DEF EditElsewhere
  <1>5. ASSUME NEW k \in NoteKeys, TouchElsewhere(k)
        PROVE  TypeOK'
    BY <1>2, <1>3, <1>5 DEF TouchElsewhere, Bump
  <1>6. ASSUME NEW k \in NoteKeys, DeleteElsewhere(k)
        PROVE  TypeOK'
    <2>1. k \in Live
      BY <1>6 DEF DeleteElsewhere, Bump
    <2>2. [notes[k] EXCEPT !.at = "gone"] \in ChildNotes
          /\ [notes[k] EXCEPT !.at = "gone"].body.text \in Texts
      BY <2>1, <1>3 DEF ChildNotes
    <2> QED
      BY <1>2, <1>6, <2>2 DEF DeleteElsewhere
  <1> QED
    BY <1>1, <1>4, <1>5, <1>6

LEMMA ReadType ==
    ASSUME Inv, Read
    PROVE  cmd' \in Commands
  <1> DEFINE note == notes[cmd.key]
             n == cmd.note
             c == [cmd EXCEPT !.live = note]
             source == Recovered(n, note.body)
  <1>0. TypeOK /\ Known /\ cmd.key \in NoteKeys
        /\ cmd.op \in {"push", "pull", "keep_vault", "keep_remote"}
    BY DEF Inv, Good, Keyed, On, Bound, Read, At
  <1>1. note \in ChildNotes /\ cmd \in Commands /\ file \in Files
    BY <1>0 DEF TypeOK
  <1>2. c \in Commands
    BY <1>1 DEF Commands
  <1>3. n \in Files /\ n.state \in States /\ n.state.ver \in Nat /\ n.region \in Texts
        /\ n.state.src \in Texts \cup {None}
    BY <1>1 DEF Commands, Files, States
  <1>4. source # None => source \in Texts
    BY <1>3 DEF Recovered, States
  <1>5. note.at = "live" => note.body.text \in Texts
    BY <1>0 DEF Known, TypeOK
  <1>6. \A s \in Statuses : Ending(s) \in Commands
    BY <1>1, EndingType DEF PCs
  <1>7. ASSUME NEW s \in Statuses, NEW pc \in PCs, source # None
        PROVE  /\ Converged([c EXCEPT !.status = s], note, source, pc) \in Commands
               /\ Converged(c, note, source, pc) \in Commands
    <2>1. [c EXCEPT !.status = s] \in Commands
      BY <1>2 DEF Commands
    <2> QED
      BY <1>1, <1>2, <1>4, <1>7, <2>1, ConvergedType
  <1>8. Intending(c, n.state.ver) \in Commands /\ Intending(c, note.ver) \in Commands
    <2>1. note.ver \in Nat
      BY <1>1 DEF ChildNotes
    <2> QED
      BY <1>1, <1>2, <1>3, <2>1, IntendingType
  <1>9. note.at = "live" => /\ Pulling(c, note, n.state.src) \in Commands
                           /\ Pulling(c, note, n.region) \in Commands
    BY <1>1, <1>2, <1>5, PullingType
  <1>10. [c EXCEPT !.pc = "end", !.status = "conflict"] \in Commands
    <2>1. "end" \in PCs /\ "conflict" \in Statuses
      BY DEF PCs, Statuses
    <2> QED
      BY <1>2, <2>1 DEF Commands
  <1>11. {"remote_deleted", "unchanged", "skipped", "failed", "converged"} \subseteq Statuses
         /\ {"end", "intend"} \subseteq PCs
    BY DEF Statuses, PCs
  <1>12. CASE note.at # "live"
    BY <1>12, <1>6, <1>11 DEF Read
  <1>13. CASE note.at = "live" /\ cmd.op = "push"
    BY <1>13, <1>6, <1>7, <1>8, <1>11 DEF Read
  <1>14. CASE note.at = "live" /\ cmd.op = "pull"
    BY <1>14, <1>6, <1>7, <1>9, <1>10, <1>11 DEF Read
  <1>15. CASE note.at = "live" /\ cmd.op = "keep_vault"
    BY <1>15, <1>8 DEF Read
  <1>16. CASE note.at = "live" /\ cmd.op = "keep_remote"
    BY <1>16, <1>6, <1>9, <1>11 DEF Read
  <1> QED
    BY <1>0, <1>12, <1>13, <1>14, <1>15, <1>16

LEMMA StepType ==
    ASSUME Inv,
           \/ Versions \/ Intend \/ Reconcile \/ Settle \/ Finalize \/ Used \/ Return
    PROVE  cmd' \in Commands
  <1>0. TypeOK /\ cmd \in Commands /\ file \in Files
    BY DEF Inv, TypeOK
  <1>1. \A s \in Statuses, pc \in PCs :
          Ending(s) \in Commands /\ Going(pc) \in Commands /\ [Going(pc) EXCEPT !.status = s] \in Commands
    <2>1. \A s \in Statuses, pc \in PCs : Ending(s) \in Commands /\ Going(pc) \in Commands
      BY <1>0, EndingType
    <2> QED
      BY <2>1 DEF Commands
  <1>2. {"unchanged", "remote_deleted", "failed", "converged", "unknown", "conflict"} \subseteq Statuses
        /\ {"read", "settle", "finalize", "adopt", "end"} \subseteq PCs
    BY DEF Statuses, PCs
  <1>3. CASE Versions
    BY <1>1, <1>2, <1>3 DEF Versions
  <1>4. CASE Intend
    <2>1. cmd.note.state.ver \in Nat
      BY <1>0 DEF Commands, Files, States
    <2> QED
      BY <1>0, <1>4, <2>1, IntendingType DEF Intend
  <1>5. CASE Reconcile
    BY <1>1, <1>2, <1>5 DEF Reconcile
  <1>6. CASE Settle
    <2> DEFINE note == notes[cmd.key]
               c == [cmd EXCEPT !.live = note, !.status = "converged"]
    <2>1. cmd.key \in NoteKeys
      BY <1>6 DEF Inv, Good, Keyed, On, Bound, Settle, At
    <2>2. note \in ChildNotes /\ note.ver \in Nat
      BY <1>0, <2>1 DEF TypeOK, ChildNotes
    <2>3. c \in Commands /\ [c EXCEPT !.retried = TRUE] \in Commands
          /\ [cmd EXCEPT !.status = "converged"] \in Commands
      BY <1>0, <1>2, <2>2 DEF Commands
    <2>4. cmd.live \in ChildNotes /\ cmd.note.region \in Texts
      BY <1>0 DEF Commands, Files
    <2>5. /\ Converged([cmd EXCEPT !.status = "converged"], cmd.live, cmd.note.region, "end") \in Commands
          /\ Converged(c, note, cmd.note.region, "end") \in Commands
      BY <1>0, <1>2, <2>2, <2>3, <2>4, ConvergedType
    <2>6. Intending([c EXCEPT !.retried = TRUE], note.ver) \in Commands
      BY <1>0, <2>2, <2>3, IntendingType
    <2> QED
      BY <1>1, <1>2, <1>6, <2>5, <2>6 DEF Settle
  <1>7. CASE Finalize
    <2> DEFINE src == IF cmd.src = None THEN cmd.note.region ELSE cmd.src
               note == notes[cmd.key]
    <2>1. cmd.key \in NoteKeys
      BY <1>7 DEF Inv, Good, ReadBack, Finalize, At
    <2>2. note.ver \in Nat /\ note.body \in Bodies
      BY <1>0, <2>1 DEF TypeOK, ChildNotes
    <2>3. src \in Texts
      BY <1>0 DEF Commands, Files
    <2>4. Baseline(cmd.key, note.ver, src, note.body) \in States
      BY <2>1, <2>2, <2>3, BaselineType
    <2>5. Stating(cmd, Baseline(cmd.key, note.ver, src, note.body), "end") \in Commands
      BY <1>0, <1>2, <2>4, StatingType
    <2> QED
      BY <1>1, <1>2, <1>7, <2>5 DEF Finalize
  <1>8. CASE Used
    BY <1>1, <1>2, <1>8 DEF Used
  <1>9. CASE Return
    BY <1>9, IdleType DEF Return
  <1> QED
    BY <1>3, <1>4, <1>5, <1>6, <1>7, <1>8, <1>9

LEMMA AdoptingType ==
    ASSUME Inv, NEW k \in Managed
    PROVE  Adopting(k) \in Commands /\ k \in NoteKeys /\ notes[k].body.text \in Texts
  <1>1. k \in NoteKeys /\ notes[k].at = "live" /\ cmd \in Commands
    BY DEF Managed, Live, Inv, TypeOK
  <1>2. notes[k].body.text \in Texts
    BY <1>1 DEF Inv, Known, TypeOK
  <1>3. "finalize" \in PCs /\ "converged" \in Statuses
    BY DEF PCs, Statuses
  <1> QED
    BY <1>1, <1>2, <1>3 DEF Adopting, Commands

LEMMA OnlyOne ==
    ASSUME NEW S, Cardinality(S) = 1
    PROVE  (CHOOSE k \in S : TRUE) \in S
  <1>1. S # {}
    BY FS_EmptySet
  <1> QED
    BY <1>1

LEMMA CreateType ==
    ASSUME Inv, Discover \/ Adopt
    PROVE  cmd' \in Commands /\ (Discover => cmd'.src \in Texts \cup {None})
  <1>1. cmd \in Commands /\ {"ambiguous"} \subseteq Statuses /\ {"post"} \subseteq PCs
    BY DEF Inv, TypeOK, Statuses, PCs
  <1>2. Ending("ambiguous") \in Commands /\ Going("post") \in Commands
    BY <1>1, EndingType
  <1>3. CASE Discover
    <2>1. cmd' \in Commands
      <3>1. Children # {} => (CHOOSE k \in Children : TRUE) \in Managed
        BY DEF Children
      <3> QED
        BY <1>2, <1>3, <3>1, AdoptingType DEF Discover
    <2> QED
      BY <2>1 DEF Commands
  <1>4. CASE Adopt /\ ~Discover
    <2> DEFINE same == {k \in Managed : notes[k].body = Body(cmd.note.region)}
    <2>1. Cardinality(same) = 1 => (CHOOSE k \in same : TRUE) \in Managed
      BY OnlyOne
    <2> QED
      BY <1>2, <1>4, <2>1, AdoptingType DEF Adopt
  <1> QED
    BY <1>3, <1>4

LEMMA LandedType ==
    ASSUME Inv, NEW k \in NoteKeys, Landed(k, Body(cmd.note.region))
    PROVE  /\ notes' \in [NoteKeys -> ChildNotes] /\ version' \in Nat /\ held' \subseteq Texts
           /\ file' \in Files /\ shown' \subseteq Texts
  <1>1. TypeOK /\ cmd.note.region \in Texts
    BY DEF Inv, TypeOK, Commands, Files
  <1>2. Body(cmd.note.region) \in Bodies /\ Body(cmd.note.region).text = cmd.note.region
    BY <1>1, BodyType DEF Body
  <1>3. version' \in Nat
    BY <1>1 DEF Landed, TypeOK
  <1>4. [at |-> "live", body |-> Body(cmd.note.region), ver |-> version + 1, by |-> "zotio"] \in ChildNotes
    BY <1>1, <1>2 DEF ChildNotes, TypeOK
  <1> QED
    BY <1>1, <1>2, <1>3, <1>4 DEF Landed, TypeOK

LEMMA RequestType ==
    ASSUME Inv, Patch \/ Refuse \/ \E k \in NoteKeys : Post(k)
    PROVE  TypeOK'
  <1>0. TypeOK /\ cmd \in Commands /\ file \in Files
    BY DEF Inv, TypeOK
  <1>1. {"finalize", "reconcile", "adopt", "settle"} \subseteq PCs
        /\ {"updated", "stale", "failed"} \subseteq Statuses
    BY DEF PCs, Statuses
  <1>2. \A pc \in PCs, s \in Statuses : Going(pc) \in Commands /\ [Going(pc) EXCEPT !.status = s] \in Commands
    <2>1. \A pc \in PCs, s \in Statuses : Going(pc) \in Commands
      BY <1>0, EndingType
    <2> QED
      BY <2>1 DEF Commands
  <1>3. faults < MaxFaults /\ faults' = faults + 1 => faults' \in 0..MaxFaults
    BY <1>0, VaultNoteAssumption DEF TypeOK
  <1>4. CASE Patch
    <2>1. cmd.key \in NoteKeys
      BY <1>4 DEF Patch, Accepts, Live
    <2>2. cmd' \in Commands
      BY <1>1, <1>2, <1>4 DEF Patch
    <2>3. /\ saves' \in 0..MaxSaves /\ edits' \in 0..MaxEdits /\ orders' \in 0..MaxOrders
          /\ faults' \in 0..MaxFaults /\ tokens' = tokens
      BY <1>0, <1>3, <1>4 DEF Patch, bounds, TypeOK
    <2> QED
      BY <1>0, <1>4, <2>1, <2>2, <2>3, LandedType DEF Patch, TypeOK
  <1>5. CASE Refuse
    <2> DEFINE c(s) == [cmd EXCEPT !.status = s]
               state == [cmd.note.state EXCEPT !.psrc = None, !.premote = NoBody]
    <2>1. state \in States
      BY <1>0, BodyType DEF Commands, Files, States
    <2>2. c("stale") \in Commands /\ c("failed") \in Commands
      BY <1>0, <1>1 DEF Commands
    <2>3. Stating(c("stale"), state, "settle") \in Commands
          /\ Stating(c("failed"), state, "settle") \in Commands
      BY <1>0, <1>1, <2>1, <2>2, StatingType
    <2>4. cmd' \in Commands
      BY <1>5, <2>3 DEF Refuse
    <2>5. /\ saves' \in 0..MaxSaves /\ edits' \in 0..MaxEdits /\ orders' \in 0..MaxOrders
          /\ faults' \in 0..MaxFaults
      BY <1>0, <1>3, <1>5 DEF Refuse, bounds, TypeOK
    <2> QED
      BY <1>0, <1>5, <2>4, <2>5 DEF Refuse, TypeOK, zotero, ghosts
  <1>6. ASSUME NEW k \in NoteKeys, Post(k)
        PROVE  TypeOK'
    <2>1. cmd' \in Commands
      <3>1. [Going("finalize") EXCEPT !.key = k, !.status = "updated"] \in Commands
        BY <1>0, <1>1 DEF Going, Commands
      <3> QED
        BY <1>0, <1>1, <1>2, <1>6, <3>1 DEF Post
    <2>2. /\ saves' \in 0..MaxSaves /\ edits' \in 0..MaxEdits /\ orders' \in 0..MaxOrders
          /\ faults' \in 0..MaxFaults
      BY <1>0, <1>3, <1>6 DEF Post, bounds, TypeOK
    <2>3. Token \in Texts \X (NoteKeys \cup {None})
      BY <1>0 DEF Token, Commands, Files
    <2>4. tokens' \subseteq Texts \X (NoteKeys \cup {None})
      BY <1>0, <1>6, <2>3 DEF Post, TypeOK
    <2> QED
      BY <1>6, <2>1, <2>2, <2>4, LandedType DEF Post, TypeOK
  <1> QED
    BY <1>4, <1>5, <1>6

LEMMA EndType ==
    ASSUME Inv, Rename \/ FailWrite \/ FailRequest \/ Kill
    PROVE  TypeOK'
  <1>0. TypeOK /\ cmd \in Commands /\ file \in Files
    BY DEF Inv, TypeOK
  <1>1. cmd.buffer \in Files /\ cmd.buffer.region \in Texts /\ cmd.next \in PCs /\ file.region \in Texts
    BY <1>0 DEF Commands, Files
  <1>2. {"settle", "end"} \subseteq PCs /\ "failed" \in Statuses
    BY DEF PCs, Statuses
  <1>3. Going(cmd.next) \in Commands /\ Going("settle") \in Commands /\ Ending("failed") \in Commands
    BY <1>0, <1>1, <1>2, EndingType
  <1>4. [Going("settle") EXCEPT !.note.state = file.state] \in Commands
    <2>1. [cmd.note EXCEPT !.state = file.state] \in Files
      BY <1>0 DEF Commands, Files
    <2> QED
      BY <1>0, <1>2, <2>1 DEF Going, Commands
  <1>5. Faulty => faults' \in 0..MaxFaults
    BY <1>0, VaultNoteAssumption DEF Faulty, TypeOK
  <1>6. CASE Rename
    BY <1>0, <1>1, <1>3, <1>6 DEF Rename, TypeOK, zotero, bounds
  <1>7. CASE FailWrite
    <2>1. cmd' \in Commands
      BY <1>3, <1>4, <1>7 DEF FailWrite
    <2>2. file' \in Files /\ shown' \subseteq Texts
      BY <1>0, <1>1, <1>7 DEF FailWrite, TypeOK, Files
    <2> QED
      BY <1>0, <1>5, <1>7, <2>1, <2>2 DEF FailWrite, Faulty, TypeOK, zotero
  <1>8. CASE FailRequest
    BY <1>0, <1>3, <1>5, <1>8 DEF FailRequest, Faulty, TypeOK, zotero
  <1>9. CASE Kill
    BY <1>0, <1>5, <1>9, IdleType DEF Kill, Faulty, TypeOK, zotero
  <1> QED
    BY <1>6, <1>7, <1>8, <1>9

LEMMA TypeStep == Inv /\ [Next]_vars => TypeOK'
  <1> SUFFICES ASSUME Inv, [Next]_vars PROVE TypeOK'
    OBVIOUS
  <1>0. TypeOK
    BY DEF Inv
  <1>1. ASSUME Versions \/ Read \/ Intend \/ Reconcile \/ Settle \/ Finalize \/ Used \/ Adopt \/ Return
        PROVE  TypeOK'
    <2>1. cmd' \in Commands
      BY <1>1, ReadType, StepType, CreateType
    <2>2. Quiet
      BY <1>1 DEF Versions, Read, Intend, Reconcile, Settle, Finalize, Used, Adopt, Return
    <2> QED
      BY <1>0, <2>1, <2>2, QuietType
  <1>2. CASE Discover
    <2>1. cmd' \in Commands /\ cmd'.src \in Texts \cup {None}
      BY <1>2, CreateType
    <2>2. shown' \subseteq Texts
      BY <1>0, <1>2, <2>1 DEF Discover, TypeOK
    <2> QED
      BY <1>0, <1>2, <2>1, <2>2 DEF Discover, TypeOK, zotero, bounds
  <1>3. CASE UNCHANGED vars
    BY <1>0, <1>3 DEF vars, zotero, ghosts, bounds, TypeOK
  <1> QED
    BY <1>1, <1>2, <1>3, OthersType, StartType, RequestType, EndType DEF Next, Work

-----------------------------------------------------------------------------
(* What a command knows. *)

LEMMA MovedGood ==
    ASSUME Good(cmd'), UNCHANGED <<notes, version, tokens, held>>, shown \subseteq shown'
    PROVE  Good(cmd)'
  <1> USE DEF On
  <1>1. Fit(cmd.note.state)' /\ Fit(cmd.buffer.state)'
    BY DEF Good, Fit
  <1>2. Seen(cmd)'
    BY DEF Good, Seen
  <1>3. Keyed(cmd)' /\ Pinned(cmd)' /\ Again(cmd)' /\ Spared(cmd)'
    BY DEF Good, Keyed, Pinned, Again, Spared
  <1>4. ReadBack(cmd)'
    BY DEF Good, ReadBack, Source
  <1>5. Alone(cmd)'
    BY DEF Good, Alone, Managed, Live
  <1> QED
    BY <1>1, <1>2, <1>3, <1>4, <1>5 DEF Good

\* A phase that asks for nothing.
LEMMA RestingGood ==
    ASSUME NEW c, Fit(c.note.state), Fit(c.buffer.state), c.note.region \in shown,
           c.pc \in {"idle", "discover", "adopt", "end"}, c.pc = "discover" => c.src = None
    PROVE  Good(c)
  <1>1. ~On(c, Bound) /\ ~On(c, {"patch"})
    BY DEF On, Bound
  <1> QED
    BY <1>1 DEF Good, Seen, Keyed, ReadBack, Pinned, Again, Alone, Spared

LEMMA EndingGood ==
    ASSUME Inv, NEW status
    PROVE  Good(Ending(status)) /\ Good(Going("adopt"))
  <1>1. cmd \in Commands /\ Good(cmd)
    BY DEF Inv, TypeOK
  <1>2. /\ Ending(status).note = cmd.note /\ Ending(status).buffer = cmd.buffer
        /\ Going("adopt").note = cmd.note /\ Going("adopt").buffer = cmd.buffer
        /\ Ending(status).pc = "end" /\ Going("adopt").pc = "adopt"
    BY <1>1 DEF Ending, Going, Commands
  <1>3. Fit(cmd.note.state) /\ Fit(cmd.buffer.state) /\ cmd.note.region \in shown
    BY <1>1 DEF Good, Seen
  <1> QED
    BY <1>2, <1>3, RestingGood

LEMMA FitUnbound == Fit(Unbound)
  BY DEF Fit, Unbound

LEMMA IdleGood ==
    ASSUME Empty \in shown
    PROVE  Good(Idle)
  <1>1. Idle.note = Fresh /\ Idle.buffer = Fresh /\ Idle.pc = "idle"
    BY DEF Idle
  <1>2. Fresh.state = Unbound /\ Fresh.region = Empty
    BY DEF Fresh
  <1> QED
    BY <1>1, <1>2, FitUnbound, RestingGood

LEMMA WritingGood ==
    ASSUME NEW c \in Commands, NEW region \in Texts, NEW state \in States, NEW next \in PCs,
           next \in {"intend", "patch", "settle", "end"},
           Fit(state), c.note.region \in shown,
           state.key # None => state.src \in shown \cup {region},
           next # "end" => /\ c.key = state.key /\ c.key \in NoteKeys
                           /\ state.src \in shown /\ c.src = None,
           next = "patch" /\ c.op # "keep_vault" =>
               /\ c.pre <= version
               /\ notes[c.key].at = "live" /\ notes[c.key].ver = c.pre
                    => notes[c.key].body = state.remote,
           c.retried /\ next # "end" =>
               /\ c.live.body = state.remote /\ c.live.ver <= version
               /\ notes[c.key].at = "live" /\ notes[c.key].ver = c.live.ver
                    => notes[c.key].body = c.live.body,
           region = file.region \/ file.region \in held \/ c.op = "keep_remote"
    PROVE  Good(Writing(c, region, state, next))
  <1> DEFINE w == Writing(c, region, state, next)
  <1>1. /\ w.pc = "write" /\ w.next = next /\ w.note.state = state /\ w.note.region = c.note.region
        /\ w.base = file.region /\ w.buffer.region = region /\ w.buffer.state = state
        /\ w.key = c.key /\ w.op = c.op /\ w.pre = c.pre /\ w.live = c.live /\ w.retried = c.retried
        /\ w.src = c.src
    BY DEF Writing, Commands, Files
  <1> HIDE DEF w
  <1>2. On(w, Bound) <=> next # "end"
    BY <1>1 DEF On, Bound
  <1>3. On(w, {"patch"}) <=> next = "patch"
    BY <1>1 DEF On
  <1>4. Seen(w) /\ Keyed(w)
    BY <1>1, <1>2 DEF Seen, Keyed
  <1>5. Pinned(w) /\ Again(w)
    BY <1>1, <1>2, <1>3 DEF Pinned, Again
  <1>6. Fit(w.note.state) /\ Fit(w.buffer.state) /\ Spared(w) /\ ReadBack(w) /\ Alone(w)
    BY <1>1 DEF Spared, ReadBack, Alone
  <1>7. Good(w)
    BY <1>4, <1>5, <1>6 DEF Good
  <1> QED
    BY <1>7 DEF w
\* What the commands that write make of it.
LEMMA KeyedFacts ==
    ASSUME Inv
    PROVE  /\ cmd \in Commands /\ cmd.note.state \in States /\ cmd.note.region \in Texts
           /\ file.region \in Texts /\ cmd.note.state.ver \in Nat
           /\ On(cmd, Bound) => cmd.note.state.key # None /\ cmd.src = None
  <1>1. cmd \in Commands /\ file \in Files
    BY DEF Inv, TypeOK
  <1>2. On(cmd, Bound) => cmd.note.state.key \in NoteKeys /\ cmd.src = None
    BY DEF Inv, Good, Keyed
  <1> QED
    BY <1>1, <1>2, VaultNoteAssumption DEF Commands, Files, States

LEMMA ConvergedGood ==
    ASSUME Inv, NEW c \in Commands, NEW note \in ChildNotes, NEW src \in Texts,
           NEW next \in {"intend", "end"},
           c.note = cmd.note, c.key = cmd.key, On(cmd, Bound),
           c.src = None, src \in held, src \in shown, note.body = Body(src), note.ver <= version,
           notes[c.key].at = "live" /\ notes[c.key].ver = note.ver => notes[c.key].body = note.body,
           next = "intend" => ~c.retried
    PROVE  Good(Converged(c, note, src, next))
  <1> DEFINE st == Baseline(cmd.note.state.key, note.ver, src, note.body)
  <1>1. cmd.key = cmd.note.state.key /\ cmd.key \in NoteKeys /\ cmd.note.region \in shown
    BY DEF Inv, Good, Keyed, Seen
  <1>2. /\ st.key = cmd.key /\ st.ver = note.ver /\ st.src = src /\ st.remote = note.body
        /\ st.psrc = None /\ st.premote = NoBody
    BY <1>1 DEF Baseline, Unbound
  <1>3. st \in States
    <2>1. note.ver \in Nat /\ note.body \in Bodies
      BY DEF ChildNotes
    <2> QED
      BY <1>1, <2>1, BaselineType
  <1>4. Fit(st)
    BY <1>2 DEF Fit
  <1>5. next \in PCs /\ next # "patch" /\ next \in {"intend", "patch", "settle", "end"}
    BY DEF PCs
  <1>6. file.region \in Texts
    BY KeyedFacts
  <1> HIDE DEF st
  <1>7. Good(Writing(c, file.region, st, next))
    BY <1>1, <1>2, <1>3, <1>4, <1>5, <1>6, WritingGood
  <1> QED
    BY <1>7 DEF Converged, Stating, st

LEMMA IntendingGood ==
    ASSUME Inv, NEW c \in Commands, NEW ver \in Nat,
           c.note = cmd.note, c.key = cmd.key, On(cmd, Bound), c.src = None,
           c.op # "keep_vault" =>
               /\ ver <= version
               /\ notes[c.key].at = "live" /\ notes[c.key].ver = ver
                    => notes[c.key].body = c.note.state.remote,
           c.retried =>
               /\ c.live.body = c.note.state.remote /\ c.live.ver <= version
               /\ notes[c.key].at = "live" /\ notes[c.key].ver = c.live.ver
                    => notes[c.key].body = c.live.body
    PROVE  Good(Intending(c, ver))
  <1> DEFINE n == cmd.note
             st == [n.state EXCEPT !.psrc = n.region, !.premote = Body(n.region)]
             d == [c EXCEPT !.pre = ver]
  <1>1. cmd.key = n.state.key /\ cmd.key \in NoteKeys /\ n.region \in shown /\ n.state.src \in shown
        /\ Fit(n.state)
    BY DEF Inv, Good, Keyed, Seen
  <1>2. n.state \in States /\ n.region \in Texts /\ file.region \in Texts
    BY KeyedFacts
  <1>3. /\ st.key = n.state.key /\ st.ver = n.state.ver /\ st.src = n.state.src
        /\ st.remote = n.state.remote /\ st.psrc = n.region /\ st.premote = Body(n.region)
    BY <1>2 DEF States
  <1>4. st \in States
    BY <1>2, BodyType DEF States
  <1>5. Fit(st)
    BY <1>1, <1>3 DEF Fit
  <1>6. /\ d \in Commands /\ d.note = n /\ d.key = c.key /\ d.src = c.src /\ d.op = c.op
        /\ d.pre = ver /\ d.live = c.live /\ d.retried = c.retried
    BY DEF Commands
  <1>7. "patch" \in PCs
    BY DEF PCs
  <1> HIDE DEF st, d
  <1>8. Good(Writing(d, file.region, st, "patch"))
    BY <1>1, <1>2, <1>3, <1>4, <1>5, <1>6, <1>7, WritingGood
  <1> QED
    BY <1>8 DEF Intending, Stating, st, d

LEMMA PullingGood ==
    ASSUME Inv, NEW c \in Commands, NEW note \in ChildNotes, NEW source,
           c.note = cmd.note, c.key = cmd.key, On(cmd, Bound), c.buffer = cmd.buffer,
           note = notes[c.key], note.at = "live", note.body.managed,
           source \in held \/ c.op = "keep_remote"
    PROVE  Good(Pulling(c, note, source))
  <1> DEFINE st == Baseline(cmd.note.state.key, note.ver, note.body.text, note.body)
             d == [c EXCEPT !.pc = "end", !.status = "conflict"]
  <1>1. /\ cmd.key = cmd.note.state.key /\ cmd.key \in NoteKeys /\ cmd.note.region \in shown
        /\ Fit(cmd.note.state) /\ Fit(cmd.buffer.state)
    BY DEF Inv, Good, Keyed, Seen
  <1>2. note.body.text \in held /\ note.body.text \in Texts /\ note.ver <= version
    BY <1>1 DEF Inv, Known, Dated, TypeOK
  <1>3. note.ver \in Nat /\ note.body \in Bodies /\ note.body = Body(note.body.text)
    BY DEF ChildNotes, Bodies, Body
  <1>4. /\ st.key = cmd.key /\ st.ver = note.ver /\ st.src = note.body.text /\ st.remote = note.body
        /\ st.psrc = None /\ st.premote = NoBody
    BY <1>1 DEF Baseline, Unbound
  <1>5. st \in States
    BY <1>1, <1>2, <1>3, BaselineType
  <1> HIDE DEF st
  <1>6. Fit(st)
    <2>1. notes[st.key].body = st.remote
      BY <1>1, <1>4
    <2> QED
      BY <1>2, <1>3, <1>4, <2>1 DEF Fit
  <1>7. d.note = cmd.note /\ d.buffer = cmd.buffer /\ d.pc = "end"
    BY DEF Commands
  <1>8. Good(d)
    BY <1>1, <1>7, RestingGood
  <1>9. "end" \in PCs
    BY DEF PCs
  <1>10. file.region = source => Good(Writing(c, note.body.text, st, "end"))
    BY <1>1, <1>2, <1>4, <1>5, <1>6, <1>9, WritingGood
  <1> QED
    BY <1>8, <1>10 DEF Pulling, st

\* A note with a text that was recovered is that text in the managed shape.
LEMMA RecoveredBody ==
    ASSUME Inv, On(cmd, Bound), NEW note \in ChildNotes, note.at = "live", note = notes[cmd.key],
           Recovered(cmd.note, note.body) # None
    PROVE  LET source == Recovered(cmd.note, note.body)
           IN source \in Texts /\ source \in held /\ source \in shown /\ note.body = Body(source)
  <1> DEFINE source == Recovered(cmd.note, note.body)
  <1>1. source \in shown /\ note.body = Body(source)
    <2>1. CASE cmd.note.state.psrc # None /\ note.body = cmd.note.state.premote
      BY <2>1 DEF Inv, Good, Fit, Recovered
    <2>2. CASE ~(cmd.note.state.psrc # None /\ note.body = cmd.note.state.premote)
      BY <2>2 DEF Inv, Good, Seen, Recovered
    <2> QED
      BY <2>1, <2>2
  <1>2. note.body.text = source
    BY <1>1 DEF Body
  <1>3. source \in held
    BY <1>2 DEF Inv, Good, Keyed, Known
  <1> QED
    BY <1>1, <1>3 DEF Inv, TypeOK

LEMMA ReadGood ==
    ASSUME Inv, Read
    PROVE  Good(cmd')
  <1> DEFINE note == notes[cmd.key]
             n == cmd.note
             c == [cmd EXCEPT !.live = note]
             source == Recovered(n, note.body)
  <1>0. /\ TypeOK /\ Good(cmd) /\ cmd.pc = "read" /\ On(cmd, Bound)
        /\ cmd.op \in {"push", "pull", "keep_vault", "keep_remote"}
        /\ cmd.key = n.state.key /\ cmd.key \in NoteKeys /\ cmd.src = None /\ ~cmd.retried
    BY DEF Inv, Good, Keyed, On, Bound, Read, At
  <1>1. note \in ChildNotes /\ cmd \in Commands /\ note.ver \in Nat /\ note.ver <= version
    BY <1>0 DEF TypeOK, Inv, Dated, ChildNotes
  <1>2. /\ c \in Commands /\ c.note = n /\ c.key = cmd.key /\ c.src = None /\ c.buffer = cmd.buffer
        /\ c.op = cmd.op /\ ~c.retried
    BY <1>0, <1>1 DEF Commands
  <1>3. \A s \in Statuses : Good(Ending(s))
    BY EndingGood
  <1>4. ASSUME note.at = "live", source # None, NEW s \in Statuses, NEW next \in {"intend", "end"}
        PROVE  /\ Good(Converged([c EXCEPT !.status = s], note, source, next))
               /\ Good(Converged(c, note, source, next))
    <2>1. source \in Texts /\ source \in held /\ source \in shown /\ note.body = Body(source)
      BY <1>0, <1>1, <1>4, RecoveredBody
    <2> DEFINE d == [c EXCEPT !.status = s]
    <2>2. /\ d \in Commands /\ d.note = n /\ d.key = cmd.key /\ d.src = None /\ ~d.retried
      BY <1>2 DEF Commands
    <2> HIDE DEF d, c, source
    <2>3. Good(Converged(d, note, source, next))
      BY <1>0, <1>1, <2>1, <2>2, ConvergedGood
    <2>4. Good(Converged(c, note, source, next))
      BY <1>0, <1>1, <1>2, <2>1, ConvergedGood
    <2> QED
      BY <2>3, <2>4 DEF d
  <1>5. cmd.op = "push" => Good(Intending(c, n.state.ver))
    <2>1. n.state.ver \in Nat /\ n.state.key # None
      BY <1>0, KeyedFacts
    <2>2. /\ n.state.ver <= version
          /\ notes[c.key].at = "live" /\ notes[c.key].ver = n.state.ver
               => notes[c.key].body = c.note.state.remote
      BY <1>0, <1>2, <2>1 DEF Good, Fit
    <2> HIDE DEF c
    <2> QED
      BY <1>0, <1>2, <2>1, <2>2, IntendingGood
  <1>6. cmd.op = "keep_vault" => Good(Intending(c, note.ver))
    <2> HIDE DEF c
    <2> QED
      BY <1>0, <1>1, <1>2, IntendingGood
  <1>7. note.at = "live" /\ note.body.managed
          => /\ Good(Pulling(c, note, n.state.src))
             /\ cmd.op = "keep_remote" => Good(Pulling(c, note, n.region))
    <2>1. n.state.src \in held
      BY <1>0, KeyedFacts DEF Good, Fit
    <2> HIDE DEF c
    <2> QED
      BY <1>0, <1>1, <1>2, <2>1, PullingGood
  <1>8. Good([c EXCEPT !.pc = "end", !.status = "conflict"])
    <2> DEFINE d == [c EXCEPT !.pc = "end", !.status = "conflict"]
    <2>1. d.note = cmd.note /\ d.buffer = cmd.buffer /\ d.pc = "end"
      BY <1>2 DEF Commands
    <2>2. Fit(d.note.state) /\ Fit(d.buffer.state) /\ d.note.region \in shown
      BY <1>0, <2>1 DEF Good, Seen
    <2> HIDE DEF d
    <2>3. Good(d)
      BY <2>1, <2>2, RestingGood
    <2> QED
      BY <2>3 DEF d
  <1>9. {"remote_deleted", "unchanged", "skipped", "failed", "converged"} \subseteq Statuses
    BY DEF Statuses
  <1>12. CASE note.at # "live"
    BY <1>12, <1>3, <1>9 DEF Read
  <1>13. CASE note.at = "live" /\ cmd.op = "push"
    BY <1>13, <1>3, <1>4, <1>5, <1>9 DEF Read
  <1>14. CASE note.at = "live" /\ cmd.op = "pull"
    BY <1>14, <1>3, <1>4, <1>7, <1>8, <1>9 DEF Read
  <1>15. CASE note.at = "live" /\ cmd.op = "keep_vault"
    BY <1>15, <1>6 DEF Read
  <1>16. CASE note.at = "live" /\ cmd.op = "keep_remote"
    BY <1>16, <1>3, <1>7, <1>9 DEF Read
  <1> QED
    BY <1>0, <1>12, <1>13, <1>14, <1>15, <1>16

\* A command that goes on to another phase of the same work.
LEMMA GoingGood ==
    ASSUME Inv, On(cmd, Bound), cmd.pc # "write",
           NEW c \in Commands, c.pc \in {"read", "settle", "reconcile"}, c.pc = "read" => cmd.pc = "versions",
           c.note = cmd.note, c.buffer = cmd.buffer, c.key = cmd.key, c.src = cmd.src,
           c.retried = cmd.retried, c.live = cmd.live, c.op = cmd.op
    PROVE  Good(c)
  <1>1. Good(cmd) /\ On(c, Bound) /\ ~On(c, {"patch"}) /\ c.pc # "write"
    BY DEF Inv, On, Bound
  <1>2. Seen(c)
    BY <1>1 DEF Good, Seen
  <1>3. Keyed(c) /\ Again(c)
    BY <1>1 DEF Good, Keyed, Again
  <1> QED
    BY <1>1, <1>2, <1>3 DEF Good, ReadBack, Pinned, Alone, Spared

LEMMA FinalizeGood ==
    ASSUME Inv, NEW c \in Commands, c.pc = "finalize", c.note = cmd.note, c.buffer = cmd.buffer,
           c.key \in NoteKeys, Source(c) \in shown,
           notes[c.key].at = "live" => notes[c.key].body = Body(Source(c))
    PROVE  Good(c)
  <1>1. Good(cmd) /\ ~On(c, Bound) /\ ~On(c, {"patch"})
    BY DEF Inv, On, Bound
  <1> QED
    BY <1>1 DEF Good, Seen, Keyed, ReadBack, Pinned, Again, Alone, Spared

LEMMA SettleGood ==
    ASSUME Inv, Settle
    PROVE  Good(cmd')
  <1> DEFINE note == notes[cmd.key]
             n == cmd.note
             c == [cmd EXCEPT !.live = note, !.status = "converged"]
             b == [cmd EXCEPT !.status = "converged"]
             d == [c EXCEPT !.retried = TRUE]
  <1>0. /\ TypeOK /\ Good(cmd) /\ On(cmd, Bound) /\ cmd \in Commands
        /\ cmd.key = n.state.key /\ cmd.key \in NoteKeys /\ cmd.src = None
        /\ n.region \in Texts /\ n.region \in shown
    BY KeyedFacts DEF Inv, Good, Keyed, Seen, On, Bound, Settle, At
  <1>1. note \in ChildNotes /\ note.ver \in Nat /\ note.ver <= version /\ cmd.live \in ChildNotes
    BY <1>0 DEF TypeOK, Inv, Dated, ChildNotes, Commands
  <1>2. /\ b \in Commands /\ b.note = n /\ b.key = cmd.key /\ b.src = None
    BY <1>0 DEF Commands, Statuses
  <1>3. /\ c \in Commands /\ c.note = n /\ c.key = cmd.key /\ c.src = None
    BY <1>0, <1>1 DEF Commands, Statuses
  <1>4. /\ d \in Commands /\ d.note = n /\ d.key = cmd.key /\ d.src = None /\ d.live = note
    BY <1>0, <1>1 DEF Commands, Statuses
  <1>5. Good(Ending("failed")) /\ Good(Ending("conflict"))
    BY EndingGood
  <1>6. ASSUME cmd.retried, cmd.live.body = Body(n.region)
        PROVE  Good(Converged(b, cmd.live, n.region, "end"))
    <2>1. /\ cmd.live.body = n.state.remote /\ cmd.live.ver <= version
          /\ notes[b.key].at = "live" /\ notes[b.key].ver = cmd.live.ver => notes[b.key].body = cmd.live.body
      BY <1>0, <1>2, <1>6 DEF Good, Again
    <2>2. n.state.src \in held /\ n.state.remote = Body(n.state.src)
      BY <1>0, KeyedFacts DEF Good, Fit
    <2>3. n.region \in held
      BY <1>6, <2>1, <2>2 DEF Body
    <2> HIDE DEF b
    <2> QED
      BY <1>0, <1>1, <1>2, <1>6, <2>1, <2>3, ConvergedGood
  <1>7. note.body = n.state.remote => Good(Intending(d, note.ver))
    <2> HIDE DEF d, c, b
    <2> QED
      BY <1>0, <1>1, <1>4, IntendingGood
  <1>8. ASSUME note.at = "live", note.body = Body(n.region)
        PROVE  Good(Converged(c, note, n.region, "end"))
    <2>1. n.region \in held
      BY <1>0, <1>8 DEF Inv, Known, Body
    <2> HIDE DEF c, d, b
    <2> QED
      BY <1>0, <1>1, <1>3, <1>8, <2>1, ConvergedGood
  <1> QED
    BY <1>5, <1>6, <1>7, <1>8 DEF Settle

LEMMA StepGood ==
    ASSUME Inv,
           \/ Versions \/ Intend \/ Reconcile \/ Refuse \/ Finalize \/ Used \/ Adopt \/ Return
    PROVE  Good(cmd')
  <1>0. /\ TypeOK /\ Good(cmd) /\ cmd \in Commands /\ file \in Files
        /\ cmd.note.region \in shown /\ file.region \in Texts
    BY KeyedFacts DEF Inv, Good, Seen, TypeOK
  <1>1. \A s \in Statuses : Good(Ending(s)) /\ Good(Going("adopt"))
    BY EndingGood
  <1>2. {"unchanged", "remote_deleted", "failed", "converged", "unknown", "ambiguous", "stale"} \subseteq Statuses
        /\ {"read", "settle", "finalize", "reconcile", "patch", "end"} \subseteq PCs
    BY DEF Statuses, PCs
  <1>3. CASE Versions
    <2>1. On(cmd, Bound) /\ cmd.pc = "versions"
      BY <1>3 DEF Versions, At, On, Bound
    <2> DEFINE c == Going("read")
    <2>2. /\ c \in Commands /\ c.pc = "read" /\ c.note = cmd.note /\ c.buffer = cmd.buffer
          /\ c.key = cmd.key /\ c.src = cmd.src /\ c.retried = cmd.retried /\ c.live = cmd.live
          /\ c.op = cmd.op
      BY <1>0, <1>2 DEF Going, Commands
    <2>3. Good(c)
      <3> HIDE DEF c
      <3> QED
        BY <2>1, <2>2, GoingGood
    <2> QED
      BY <1>1, <1>2, <1>3, <2>3 DEF Versions
  <1>4. CASE Intend
    <2>1. On(cmd, Bound) /\ cmd.src = None /\ cmd.note.state.key # None /\ cmd.note.state.ver \in Nat
          /\ cmd.key = cmd.note.state.key
      BY <1>4, KeyedFacts DEF Intend, At, On, Bound, Inv, Good, Keyed
    <2>2. /\ cmd.note.state.ver <= version
          /\ notes[cmd.key].at = "live" /\ notes[cmd.key].ver = cmd.note.state.ver
               => notes[cmd.key].body = cmd.note.state.remote
      BY <1>0, <2>1 DEF Good, Fit
    <2>3. cmd.retried =>
               /\ cmd.live.body = cmd.note.state.remote /\ cmd.live.ver <= version
               /\ notes[cmd.key].at = "live" /\ notes[cmd.key].ver = cmd.live.ver
                    => notes[cmd.key].body = cmd.live.body
      BY <1>0, <2>1 DEF Good, Again
    <2>4. Good(Intending(cmd, cmd.note.state.ver))
      BY <1>0, <2>1, <2>2, <2>3, IntendingGood
    <2> QED
      BY <1>4, <2>4 DEF Intend
  <1>5. CASE Reconcile
    <2>1. On(cmd, Bound) /\ cmd.src = None /\ cmd.key \in NoteKeys /\ cmd.pc = "reconcile"
      BY <1>5, KeyedFacts DEF Reconcile, At, On, Bound, Inv, Good, Keyed
    <2> DEFINE c == [Going("finalize") EXCEPT !.status = "converged"]
               d == [Going("settle") EXCEPT !.status = "unknown"]
    <2>2. /\ c \in Commands /\ c.pc = "finalize" /\ c.note = cmd.note /\ c.buffer = cmd.buffer
          /\ c.key = cmd.key /\ c.src = cmd.src
      BY <1>0, <1>2 DEF Going, Commands
    <2>3. /\ d \in Commands /\ d.pc = "settle" /\ d.note = cmd.note /\ d.buffer = cmd.buffer
          /\ d.key = cmd.key /\ d.src = cmd.src /\ d.retried = cmd.retried /\ d.live = cmd.live
          /\ d.op = cmd.op
      BY <1>0, <1>2 DEF Going, Commands
    <2>4. Source(c) = cmd.note.region
      BY <2>1, <2>2 DEF Source
    <2> HIDE DEF c, d
    <2>5. notes[cmd.key].body = Body(cmd.note.region) => Good(c)
      BY <1>0, <2>1, <2>2, <2>4, FinalizeGood
    <2>6. Good(d)
      BY <2>1, <2>3, GoingGood
    <2> QED
      BY <1>5, <2>5, <2>6 DEF Reconcile, c, d
  <1>6. CASE Refuse
    <2> DEFINE c(s) == [cmd EXCEPT !.status = s]
               st == [cmd.note.state EXCEPT !.psrc = None, !.premote = NoBody]
    <2>1. /\ On(cmd, Bound) /\ cmd.src = None /\ cmd.key \in NoteKeys
          /\ cmd.key = cmd.note.state.key /\ cmd.note.state \in States /\ cmd.note.state.src \in shown
      BY <1>6, KeyedFacts DEF Refuse, At, On, Bound, Inv, Good, Keyed, Seen
    <2>2. /\ st \in States /\ st.key = cmd.note.state.key /\ st.ver = cmd.note.state.ver
          /\ st.src = cmd.note.state.src /\ st.remote = cmd.note.state.remote /\ st.psrc = None
      BY <2>1, BodyType DEF States
    <2>3. Fit(st)
      BY <1>0, <2>2 DEF Good, Fit
    <2>4. cmd.retried =>
               /\ cmd.live.body = st.remote /\ cmd.live.ver <= version
               /\ notes[cmd.key].at = "live" /\ notes[cmd.key].ver = cmd.live.ver
                    => notes[cmd.key].body = cmd.live.body
      BY <1>0, <2>1, <2>2 DEF Good, Again
    <2>5. ASSUME NEW s \in Statuses
          PROVE  Good(Stating(c(s), st, "settle"))
      <3>1. /\ c(s) \in Commands /\ c(s).note = cmd.note /\ c(s).key = cmd.key /\ c(s).src = None
            /\ c(s).retried = cmd.retried /\ c(s).live = cmd.live
        BY <1>0, <2>1 DEF Commands
      <3> HIDE DEF st, c
      <3>2. Good(Writing(c(s), file.region, st, "settle"))
        BY <1>0, <1>2, <2>1, <2>2, <2>3, <2>4, <3>1, WritingGood
      <3> QED
        BY <3>2 DEF Stating
    <2> QED
      BY <1>2, <1>6, <2>5 DEF Refuse
  <1>7. CASE Finalize
    <2> DEFINE note == notes[cmd.key]
               st == Baseline(cmd.key, note.ver, Source(cmd), note.body)
    <2>1. cmd.key \in NoteKeys /\ Source(cmd) \in shown
          /\ (note.at = "live" => note.body = Body(Source(cmd)))
      BY <1>7 DEF Inv, Good, ReadBack, Finalize, At
    <2>2. note.ver \in Nat /\ note.body \in Bodies /\ note.ver <= version /\ Source(cmd) \in Texts
      BY <1>0, <2>1 DEF TypeOK, ChildNotes, Inv, Dated
    <2>3. st \in States
      BY <2>1, <2>2, BaselineType
    <2>4. /\ st.key = cmd.key /\ st.ver = note.ver /\ st.src = Source(cmd) /\ st.remote = note.body
          /\ st.psrc = None
      BY DEF Baseline, Unbound
    <2>5. ASSUME cmd.key \in Live
          PROVE  Good(Writing(cmd, file.region, st, "end"))
      <3>1. note.at = "live" /\ Source(cmd) \in held
        BY <2>1, <2>5 DEF Live, Inv, Known, Body
      <3> HIDE DEF st
      <3>2. Fit(st)
        BY <2>1, <2>2, <2>4, <3>1 DEF Fit
      <3> QED
        BY <1>0, <1>2, <2>1, <2>3, <2>4, <3>2, WritingGood
    <2> QED
      BY <1>1, <1>2, <1>7, <2>5 DEF Finalize, Stating, Source
  <1>8. CASE Used
    BY <1>1, <1>2, <1>8 DEF Used
  <1>9. CASE Return
    BY <1>9, IdleGood DEF Return, Inv, Filed
  <1>10. CASE Adopt
    <2> DEFINE same == {k \in Managed : notes[k].body = Body(cmd.note.region)}
    <2>1. ASSUME NEW k \in same
          PROVE  Good(Adopting(k))
      <3>1. k \in Managed /\ notes[k].body = Body(cmd.note.region)
        OBVIOUS
      <3>2. Adopting(k) \in Commands /\ k \in NoteKeys
        BY <3>1, AdoptingType
      <3>3. /\ Adopting(k).pc = "finalize" /\ Adopting(k).note = cmd.note
            /\ Adopting(k).buffer = cmd.buffer /\ Adopting(k).key = k /\ Adopting(k).src = None
        BY <1>0, <3>1 DEF Adopting, Commands
      <3> QED
        BY <1>0, <3>1, <3>2, <3>3, FinalizeGood DEF Source
    <2>2. Cardinality(same) = 1 => (CHOOSE k \in same : TRUE) \in same
      BY OnlyOne
    <2> QED
      BY <1>1, <1>2, <1>10, <2>1, <2>2 DEF Adopt
  <1> QED
    BY <1>3, <1>4, <1>5, <1>6, <1>7, <1>8, <1>9, <1>10

LEMMA StartGood ==
    ASSUME Inv, NEW op \in Ops, Start(op)
    PROVE  Good(cmd')
  <1> DEFINE begun == [Idle EXCEPT !.op = op, !.note = file, !.key = file.state.key]
             c(pc) == [begun EXCEPT !.pc = pc]
             d == [begun EXCEPT !.pc = "discover", !.replaces = file.state.key]
  <1>1. /\ file \in Files /\ file.region \in Texts /\ file.state \in States
        /\ file.state.key \in NoteKeys \cup {None}
    BY DEF Inv, TypeOK, Files, States
  <1>2. /\ Fit(file.state) /\ file.region \in shown
        /\ file.state.key # None => file.state.src \in shown
    BY DEF Inv, Filed
  <1>3. /\ begun \in Commands /\ begun.note = file /\ begun.buffer = Fresh /\ begun.key = file.state.key
        /\ begun.op = op /\ ~begun.retried /\ begun.src = None
    BY <1>1, IdleType DEF Commands, Idle
  <1>4. Fit(Fresh.state)
    BY FitUnbound DEF Fresh
  <1>5. ASSUME NEW pc \in {"versions", "read"}, file.state.key # None,
               pc = "versions" => op = "push",
               pc = "read" => op \in {"pull", "keep_vault", "keep_remote"}
        PROVE  Good(c(pc))
    <2>1. /\ c(pc).pc = pc /\ c(pc).note = file /\ c(pc).buffer = Fresh /\ c(pc).key = file.state.key
          /\ c(pc).op = op /\ ~c(pc).retried /\ c(pc).src = None
      BY <1>3 DEF Commands
    <2> HIDE DEF c
    <2>2. ~On(c(pc), {"patch"}) /\ c(pc).pc # "write"
      BY <2>1 DEF On
    <2>3. Seen(c(pc)) /\ Keyed(c(pc))
      BY <1>1, <1>2, <1>5, <2>1 DEF Seen, Keyed
    <2> QED
      BY <1>2, <1>4, <2>1, <2>2, <2>3 DEF Good, ReadBack, Pinned, Again, Alone, Spared
  <1>6. Good(d)
    <2>1. d.pc = "discover" /\ d.note = file /\ d.buffer = Fresh /\ d.src = None
      BY <1>3 DEF Commands
    <2> HIDE DEF d
    <2> QED
      BY <1>2, <1>4, <2>1, RestingGood
  <1>7. Good(c("end"))
    <2>1. c("end").pc = "end" /\ c("end").note = file /\ c("end").buffer = Fresh
      BY <1>3 DEF Commands
    <2> HIDE DEF c
    <2> QED
      BY <1>2, <1>4, <2>1, RestingGood
  <1>8. Good(Writing(begun, file.region, file.state, "end"))
    <2>1. "end" \in PCs
      BY DEF PCs
    <2> HIDE DEF begun
    <2> QED
      BY <1>1, <1>2, <1>3, <2>1, WritingGood
  <1>9. CASE op = "sync"
    <2>1. cmd' = Writing(begun, file.region, file.state, "end")
      BY <1>9, Zenon DEF Start, Unpushed
    <2> QED
      BY <1>8, <2>1
  <1>10. CASE op = "push" /\ file.state.key # None
    <2>1. cmd' = c("versions")
      BY <1>10, Zenon DEF Start, Unpushed
    <2> QED
      BY <1>5, <1>10, <2>1
  <1>11. CASE op \in {"pull", "keep_vault", "keep_remote"} /\ file.state.key # None
    <2>1. cmd' = c("read")
      BY <1>11, Zenon DEF Start, Unpushed
    <2> QED
      BY <1>5, <1>11, <2>1
  <1>12. CASE /\ op # "sync" /\ ~(op = "push" /\ file.state.key # None)
              /\ ~(op \in {"pull", "keep_vault", "keep_remote"} /\ file.state.key # None)
    <2>1. cmd' \in {d, c("end")}
      BY <1>12 DEF Start
    <2> QED
      BY <1>6, <1>7, <2>1
  <1> QED
    BY <1>9, <1>10, <1>11, <1>12

LEMMA DiscoverGood ==
    ASSUME Inv, Discover
    PROVE  Good(cmd)'
  <1>0. /\ Good(cmd) /\ cmd \in Commands /\ cmd.pc = "discover" /\ cmd.src = None
        /\ UNCHANGED <<notes, version, tokens, held, file>> /\ shown \subseteq shown'
    BY DEF Inv, TypeOK, Good, Keyed, Discover, At, zotero
  <1>1. ASSUME cmd' = Ending("ambiguous")
        PROVE  Good(cmd)'
    <2>1. Good(cmd')
      BY <1>1, EndingGood DEF Statuses
    <2> QED
      BY <1>0, <2>1, MovedGood
  <1>2. ASSUME cmd' = Going("post"), Managed = {}
        PROVE  Good(cmd)'
    <2>1. /\ cmd'.pc = "post" /\ cmd'.note = cmd.note /\ cmd'.buffer = cmd.buffer /\ cmd'.src = None
      BY <1>0, <1>2 DEF Going, Commands
    <2>2. ~On(cmd', Bound) /\ ~On(cmd', {"patch"})
      BY <2>1 DEF On, Bound
    <2>3. Good(cmd')
      BY <1>0, <1>2, <2>1, <2>2 DEF Good, Seen, Keyed, ReadBack, Pinned, Again, Alone, Spared
    <2> QED
      BY <1>0, <2>3, MovedGood
  <1>3. ASSUME NEW k \in Managed, cmd' = Adopting(k)
        PROVE  Good(cmd)'
    <2>1. k \in NoteKeys /\ notes[k].body.text \in Texts /\ notes[k].body.managed
          /\ notes[k].body \in Bodies
      BY <1>3, AdoptingType DEF Managed, Inv, TypeOK, ChildNotes
    <2>2. notes[k].body = Body(notes[k].body.text)
      BY <2>1 DEF Body, Bodies
    <2>3. /\ cmd'.pc = "finalize" /\ cmd'.note = cmd.note /\ cmd'.buffer = cmd.buffer /\ cmd'.key = k
          /\ cmd'.src = IF notes[k].body = Body(cmd.note.region) THEN None ELSE notes[k].body.text
      BY <1>0, <1>3 DEF Adopting, Commands
    <2>4. shown' = IF cmd'.src = None THEN shown ELSE shown \cup {cmd'.src}
      BY DEF Discover
    <2>5. ~On(cmd', Bound) /\ ~On(cmd', {"patch"})
      BY <2>3 DEF On, Bound
    <2>6. cmd.note.region \in shown' /\ notes[k].body = Body(Source(cmd')) /\ Source(cmd') \in shown'
      <3>1. cmd.note.region \in shown'
        BY <1>0 DEF Good, Seen
      <3>2. CASE notes[k].body = Body(cmd.note.region)
        BY <2>3, <3>1, <3>2 DEF Source
      <3>3. CASE notes[k].body # Body(cmd.note.region)
        <4>1. cmd'.src = notes[k].body.text /\ cmd'.src # None
          BY <2>1, <2>3, <3>3, VaultNoteAssumption
        <4>2. Source(cmd') = notes[k].body.text
          BY <4>1 DEF Source
        <4> QED
          BY <2>2, <2>4, <3>1, <4>1, <4>2
      <3> QED
        BY <3>2, <3>3
    <2>7. Source(cmd)' = Source(cmd')
      BY DEF Source
    <2>8. ReadBack(cmd)'
      BY <1>0, <2>1, <2>3, <2>6, <2>7 DEF ReadBack
    <2>9. Seen(cmd)' /\ Keyed(cmd)'
      BY <2>3, <2>6 DEF Seen, Keyed, On, Bound
    <2>10. Pinned(cmd)' /\ Again(cmd)' /\ Alone(cmd)' /\ Spared(cmd)'
      BY <2>3 DEF Pinned, Again, Alone, Spared, On, Bound
    <2>11. Fit(cmd.note.state)' /\ Fit(cmd.buffer.state)'
      BY <1>0, <2>3 DEF Good, Fit
    <2> QED
      BY <2>8, <2>9, <2>10, <2>11 DEF Good
  <1>4. Cardinality(Children) = 1 => (CHOOSE k \in Children : TRUE) \in Managed
    BY OnlyOne DEF Children
  <1> QED
    BY <1>1, <1>2, <1>3, <1>4 DEF Discover, Children

LEMMA RenamedGood ==
    ASSUME Inv, Rename \/ FailWrite
    PROVE  Good(cmd)'
  <1>0. /\ Good(cmd) /\ cmd \in Commands /\ cmd.pc = "write" /\ file \in Files /\ Filed /\ Level(cmd)
        /\ UNCHANGED <<notes, version, tokens, held>> /\ shown \subseteq shown'
    BY DEF Inv, TypeOK, Rename, FailWrite, Faulty, At, zotero
  <1>1. cmd.next \in {"intend", "patch", "settle", "end"}
    BY <1>0 DEF Good, Keyed
  <1>2. ASSUME NEW c \in Commands, c = Going(cmd.next)
        PROVE  Good(c)
    <2>1. /\ c.pc = cmd.next /\ c.note = cmd.note /\ c.buffer = cmd.buffer /\ c.key = cmd.key
          /\ c.src = cmd.src /\ c.op = cmd.op /\ c.pre = cmd.pre /\ c.live = cmd.live
          /\ c.retried = cmd.retried
      BY <1>2 DEF Going, Commands
    <2>2. (On(c, Bound) <=> On(cmd, Bound)) /\ (On(c, {"patch"}) <=> On(cmd, {"patch"}))
      BY <1>0, <1>1, <2>1 DEF On, Bound
    <2>3. Seen(c) /\ Keyed(c)
      BY <1>0, <1>1, <2>1, <2>2 DEF Good, Seen, Keyed
    <2>4. Pinned(c) /\ Again(c)
      BY <1>0, <2>1, <2>2 DEF Good, Pinned, Again
    <2>5. Fit(c.note.state) /\ Fit(c.buffer.state) /\ ReadBack(c) /\ Alone(c) /\ Spared(c)
      BY <1>0, <1>1, <2>1 DEF Good, ReadBack, Alone, Spared
    <2> QED
      BY <2>3, <2>4, <2>5 DEF Good
  <1>3. ASSUME cmd.next = "settle", NEW c, c = [Going("settle") EXCEPT !.note.state = file.state]
        PROVE  Good(c)
    <2>1. /\ c.pc = "settle" /\ c.note.region = cmd.note.region /\ c.note.state = file.state
          /\ c.buffer = cmd.buffer /\ c.key = cmd.key /\ c.src = cmd.src /\ c.live = cmd.live
          /\ c.retried = cmd.retried
      BY <1>0, <1>3 DEF Going, Commands, Files
    <2>2. /\ On(cmd, Bound) /\ On(c, Bound) /\ ~On(c, {"patch"})
      BY <1>0, <1>3, <2>1 DEF On, Bound
    <2>3. cmd.key \in NoteKeys /\ cmd.src = None /\ cmd.key = file.state.key
          /\ file.state.remote = cmd.note.state.remote
      BY <1>0, <1>3, <2>2 DEF Good, Keyed, Level
    <2>4. Seen(c) /\ Keyed(c)
      BY <1>0, <2>1, <2>3, VaultNoteAssumption DEF Good, Seen, Keyed, Filed
    <2>5. Again(c)
      BY <1>0, <2>1, <2>2, <2>3 DEF Good, Again
    <2>6. Fit(c.note.state) /\ Fit(c.buffer.state) /\ Pinned(c) /\ ReadBack(c) /\ Alone(c) /\ Spared(c)
      BY <1>0, <2>1, <2>2 DEF Good, Filed, Pinned, ReadBack, Alone, Spared
    <2> QED
      BY <2>4, <2>5, <2>6 DEF Good
  <1>4. Good(cmd')
    <2>1. CASE Rename
      <3>1. cmd' \in Commands
        BY EndType DEF TypeOK
      <3> QED
        BY <1>2, <2>1, <3>1 DEF Rename
    <2>2. CASE FailWrite
      BY <1>3, <2>2, EndingGood DEF FailWrite, Statuses
    <2> QED
      BY <2>1, <2>2
  <1> QED
    BY <1>0, <1>4, MovedGood

-----------------------------------------------------------------------------
(* A child note gets a new version. *)

FitN(st) ==
    /\ st.key # None =>
         /\ st.src \in held' /\ st.remote = Body(st.src)
         /\ st.ver <= version'
         /\ notes'[st.key].at = "live" /\ notes'[st.key].ver = st.ver
              => notes'[st.key].body = st.remote
    /\ st.psrc # None => st.psrc \in shown' /\ st.premote = Body(st.psrc)

Renewed(k) ==
    /\ version' = version + 1 /\ held \subseteq held' /\ shown \subseteq shown'
    /\ notes'[k].ver = version + 1
    /\ \A j \in NoteKeys : j # k => notes'[j] = notes[j]

LEMMA FitKept ==
    ASSUME Inv, NEW k \in NoteKeys, Renewed(k), NEW st \in States, Fit(st)
    PROVE  FitN(st)
  <1>1. version \in Nat /\ st.ver \in Nat /\ st.key \in NoteKeys \cup {None}
    BY DEF Inv, TypeOK, States
  <1>2. CASE st.key = k
    <2>1. st.key # None => st.ver <= version
      BY DEF Fit
    <2>2. st.key # None => st.ver # version + 1 /\ st.ver <= version + 1
      BY <1>1, <2>1
    <2> QED
      BY <1>2, <2>2 DEF Fit, FitN, Renewed
  <1>3. CASE st.key # k
    <2>1. st.key # None => notes'[st.key] = notes[st.key]
      BY <1>1, <1>3 DEF Renewed
    <2>2. st.key # None => st.ver <= version + 1
      BY <1>1 DEF Fit
    <2> QED
      BY <2>1, <2>2 DEF Fit, FitN, Renewed
  <1> QED
    BY <1>2, <1>3

LEMMA CommandFits ==
    ASSUME Inv, NEW k \in NoteKeys, Renewed(k)
    PROVE  FitN(cmd.note.state) /\ FitN(cmd.buffer.state) /\ FitN(file.state)
  <1>1. cmd.note.state \in States /\ cmd.buffer.state \in States /\ file.state \in States
    BY DEF Inv, TypeOK, Commands, Files
  <1>2. Fit(cmd.note.state) /\ Fit(cmd.buffer.state) /\ Fit(file.state)
    BY DEF Inv, Good, Filed
  <1> QED
    BY <1>1, <1>2, FitKept

\* What another client does to a note leaves what a command knows true.
LEMMA BumpGood ==
    ASSUME Inv, NEW k \in NoteKeys, NEW note \in ChildNotes, Bump(k, note),
           cmd.pc = "finalize" /\ note.at = "live" => note.body = notes[k].body,
           note.at = "live" /\ note.body.managed => notes[k].body.managed
    PROVE  Good(cmd)'
  <1>0. /\ TypeOK /\ Good(cmd) /\ cmd \in Commands /\ version \in Nat /\ UNCHANGED <<cmd, tokens, file>>
        /\ k \in Live /\ notes \in [NoteKeys -> ChildNotes]
    BY DEF Inv, TypeOK, Bump
  <1>1. /\ \A j \in NoteKeys : j # k => notes'[j] = notes[j]
        /\ notes'[k].ver = version + 1 /\ notes'[k].at = note.at /\ notes'[k].body = note.body
    BY <1>0 DEF Bump, ChildNotes
  <1>2. Renewed(k)
    BY <1>1 DEF Renewed, Bump
  <1>3. Fit(cmd.note.state)' /\ Fit(cmd.buffer.state)'
    BY <1>0, <1>2, CommandFits DEF Fit, FitN
  <1>4. Seen(cmd)' /\ Keyed(cmd)' /\ Spared(cmd)'
    BY <1>0, <1>2 DEF Good, Seen, Keyed, Spared, On, Renewed
  <1>5. ReadBack(cmd)'
    <2>1. cmd.pc = "finalize" => cmd.key \in NoteKeys /\ Source(cmd) \in shown
                                 /\ (notes[cmd.key].at = "live" => notes[cmd.key].body = Body(Source(cmd)))
      BY <1>0 DEF Good, ReadBack
    <2>2. Source(cmd)' = Source(cmd)
      BY <1>0 DEF Source
    <2>3. cmd.pc = "finalize" /\ notes'[cmd.key].at = "live" => notes'[cmd.key].body = Body(Source(cmd))
      BY <1>0, <1>1, <2>1 DEF Live
    <2> QED
      BY <1>0, <1>2, <2>1, <2>2, <2>3 DEF ReadBack, Renewed
  <1>6. Pinned(cmd)'
    <2>1. On(cmd, {"patch"}) => cmd.key \in NoteKeys
      BY <1>0 DEF Good, Keyed, On, Bound
    <2>2. cmd.pre \in Nat
      BY <1>0 DEF Commands
    <2>3. On(cmd, {"patch"})' <=> On(cmd, {"patch"})
      BY <1>0 DEF On
    <2>4. On(cmd, {"patch"}) /\ cmd.op # "keep_vault" => cmd.pre <= version + 1 /\ cmd.pre # version + 1
      BY <1>0, <2>2 DEF Good, Pinned
    <2> QED
      BY <1>0, <1>1, <1>2, <2>1, <2>3, <2>4 DEF Good, Pinned, Renewed
  <1>7. Again(cmd)'
    <2>1. On(cmd, Bound) => cmd.key \in NoteKeys
      BY <1>0 DEF Good, Keyed
    <2>2. cmd.live.ver \in Nat
      BY <1>0 DEF Commands, ChildNotes
    <2>3. On(cmd, Bound)' <=> On(cmd, Bound)
      BY <1>0 DEF On, Bound
    <2>4. On(cmd, Bound) /\ cmd.retried => cmd.live.ver <= version + 1 /\ cmd.live.ver # version + 1
      BY <1>0, <2>2 DEF Good, Again
    <2> QED
      BY <1>0, <1>1, <1>2, <2>1, <2>3, <2>4 DEF Good, Again, Renewed
  <1>8. Alone(cmd)'
    <2>1. Managed' \subseteq Managed
      BY <1>0, <1>1 DEF Managed, Live
    <2> QED
      BY <1>0, <2>1 DEF Good, Alone
  <1> QED
    BY <1>3, <1>4, <1>5, <1>6, <1>7, <1>8 DEF Good

LEMMA OthersGood ==
    ASSUME Inv, "readback" \notin Risks, NEW k \in NoteKeys,
           \/ \E t \in Texts, managed \in BOOLEAN : EditElsewhere(k, t, managed)
           \/ TouchElsewhere(k) \/ DeleteElsewhere(k)
    PROVE  Good(cmd)' /\ \E note \in ChildNotes : Bump(k, note)
  <1>0. k \in Live /\ notes[k] \in ChildNotes
    BY DEF Inv, TypeOK, EditElsewhere, TouchElsewhere, DeleteElsewhere, Bump
  <1>1. ASSUME NEW t \in Texts, NEW managed \in BOOLEAN, EditElsewhere(k, t, managed)
        PROVE  Good(cmd)' /\ \E note \in ChildNotes : Bump(k, note)
    <2> DEFINE note == Mutated(k, t, managed)
    <2>1. /\ note \in ChildNotes /\ note.body.managed = managed
      BY <1>0 DEF Mutated, ChildNotes, Bodies
    <2>2. cmd.pc # "finalize" /\ (managed => notes[k].body.managed) /\ Bump(k, note)
      BY <1>1 DEF EditElsewhere
    <2> HIDE DEF note
    <2> QED
      BY <2>1, <2>2, BumpGood
  <1>2. CASE TouchElsewhere(k)
    BY <1>0, <1>2, BumpGood DEF TouchElsewhere
  <1>3. CASE DeleteElsewhere(k)
    <2> DEFINE note == [notes[k] EXCEPT !.at = "gone"]
    <2>1. note \in ChildNotes /\ note.at = "gone"
      BY <1>0 DEF ChildNotes
    <2>2. Bump(k, note)
      BY <1>3 DEF DeleteElsewhere
    <2> HIDE DEF note
    <2> QED
      BY <2>1, <2>2, BumpGood
  <1> QED
    BY <1>1, <1>2, <1>3

LEMMA LandedNote ==
    ASSUME Inv, NEW k \in NoteKeys, Landed(k, Body(cmd.note.region))
    PROVE  /\ Renewed(k) /\ notes'[k].at = "live" /\ notes'[k].body = Body(cmd.note.region)
           /\ notes'[k].ver = version + 1 /\ held' = held \cup {cmd.note.region}
           /\ file' = file /\ shown' = shown
  <1>1. notes \in [NoteKeys -> ChildNotes]
    BY DEF Inv, TypeOK
  <1>2. Body(cmd.note.region).text = cmd.note.region
    BY DEF Body
  <1> QED
    BY <1>1, <1>2 DEF Landed, Renewed

LEMMA LandedGood ==
    ASSUME Inv, NEW k \in NoteKeys, Landed(k, Body(cmd.note.region)), cmd.src = None,
           cmd'.pc \in {"finalize", "adopt"}, cmd'.pc = "finalize" => cmd'.key = k,
           cmd'.note = cmd.note, cmd'.buffer = cmd.buffer, cmd'.src = cmd.src
    PROVE  Good(cmd)'
  <1>1. /\ Renewed(k) /\ notes'[k].body = Body(cmd.note.region) /\ shown' = shown
        /\ cmd.note.region \in shown
    BY LandedNote DEF Inv, Good, Seen
  <1>2. Fit(cmd.note.state)' /\ Fit(cmd.buffer.state)'
    BY <1>1, CommandFits DEF Fit, FitN
  <1>3. Source(cmd)' = cmd.note.region
    BY DEF Source
  <1>4. ReadBack(cmd)'
    BY <1>1, <1>3 DEF ReadBack
  <1>5. Seen(cmd)' /\ Keyed(cmd)' /\ Pinned(cmd)' /\ Again(cmd)' /\ Alone(cmd)' /\ Spared(cmd)'
    BY <1>1 DEF Seen, Keyed, Pinned, Again, Alone, Spared, On, Bound
  <1> QED
    BY <1>2, <1>4, <1>5 DEF Good

LEMMA PatchGood ==
    ASSUME Inv, Patch
    PROVE  Good(cmd)'
  <1>0. /\ TypeOK /\ Good(cmd) /\ cmd \in Commands /\ cmd.pc = "patch" /\ On(cmd, Bound)
        /\ cmd.key \in NoteKeys /\ cmd.src = None /\ Landed(cmd.key, Body(cmd.note.region))
    BY DEF Inv, TypeOK, Patch, At, On, Bound, Good, Keyed
  <1>1. cmd' = [Going("finalize") EXCEPT !.status = "updated"] \/ cmd' = Going("reconcile")
    BY DEF Patch
  <1>2. /\ cmd'.note = cmd.note /\ cmd'.buffer = cmd.buffer /\ cmd'.key = cmd.key
        /\ cmd'.src = cmd.src /\ cmd'.live = cmd.live /\ cmd'.retried = cmd.retried
        /\ cmd'.pc \in {"finalize", "reconcile"}
    BY <1>0, <1>1 DEF Going, Commands
  <1>3. CASE cmd'.pc = "finalize"
    BY <1>0, <1>2, <1>3, LandedGood
  <1>4. CASE cmd'.pc = "reconcile"
    <2>1. Renewed(cmd.key) /\ shown' = shown
      BY <1>0, LandedNote
    <2>2. Fit(cmd.note.state)' /\ Fit(cmd.buffer.state)'
      BY <1>0, <1>2, <2>1, CommandFits DEF Fit, FitN
    <2>3. Seen(cmd)' /\ Keyed(cmd)'
      BY <1>0, <1>2, <1>4, <2>1 DEF Good, Seen, Keyed, On, Bound
    <2>4. Again(cmd)'
      <3>1. cmd.live.ver \in Nat /\ version \in Nat
        BY <1>0 DEF Commands, ChildNotes, TypeOK
      <3>2. cmd.retried => cmd.live.ver <= version + 1 /\ cmd.live.ver # version + 1
                           /\ cmd.live.body = cmd.note.state.remote
        BY <1>0, <3>1 DEF Good, Again
      <3> QED
        BY <1>2, <2>1, <3>2 DEF Again, Renewed
    <2>5. ReadBack(cmd)' /\ Pinned(cmd)' /\ Alone(cmd)' /\ Spared(cmd)'
      BY <1>4 DEF ReadBack, Pinned, Alone, Spared, On
    <2> QED
      BY <2>2, <2>3, <2>4, <2>5 DEF Good
  <1> QED
    BY <1>2, <1>3, <1>4

LEMMA PostGood ==
    ASSUME Inv, NEW k \in NoteKeys, Post(k)
    PROVE  Good(cmd)'
  <1>0. /\ TypeOK /\ Good(cmd) /\ cmd \in Commands /\ cmd.pc = "post"
        /\ cmd.src = None /\ Landed(k, Body(cmd.note.region))
    BY DEF Inv, TypeOK, Post, At, Good, Keyed
  <1>1. \/ cmd' = [Going("finalize") EXCEPT !.key = k, !.status = "updated"]
        \/ cmd' = cmd \/ cmd' = Going("adopt")
    BY DEF Post
  <1>2. CASE cmd' # cmd
    <2>1. /\ cmd'.note = cmd.note /\ cmd'.buffer = cmd.buffer /\ cmd'.src = cmd.src
          /\ cmd'.pc \in {"finalize", "adopt"} /\ (cmd'.pc = "finalize" => cmd'.key = k)
      BY <1>0, <1>1, <1>2 DEF Going, Commands
    <2> QED
      BY <1>0, <2>1, LandedGood
  <1>3. CASE cmd' = cmd
    <2>1. Renewed(k) /\ shown' = shown
      BY <1>0, LandedNote
    <2>2. Fit(cmd.note.state)' /\ Fit(cmd.buffer.state)'
      BY <1>3, <2>1, CommandFits DEF Fit, FitN
    <2>3. <<cmd.note.region, cmd.replaces>> \in tokens'
      BY DEF Post, Token
    <2>4. Alone(cmd)'
      BY <1>3, <2>3 DEF Alone
    <2>5. Seen(cmd)' /\ Keyed(cmd)'
      BY <1>0, <1>3, <2>1 DEF Good, Seen, Keyed, On, Bound
    <2>6. ReadBack(cmd)' /\ Pinned(cmd)' /\ Again(cmd)' /\ Spared(cmd)'
      BY <1>0, <1>3 DEF ReadBack, Pinned, Again, Spared, On, Bound
    <2> QED
      BY <2>2, <2>4, <2>5, <2>6 DEF Good
  <1> QED
    BY <1>2, <1>3

-----------------------------------------------------------------------------
(* The file and the command agree. *)

LEMMA RestLevel ==
    ASSUME cmd'.pc \notin Bound \cup {"write"}
    PROVE  Level(cmd)'
  BY DEF Level, On, Bound

LEMMA WritingLevel ==
    ASSUME Inv, On(cmd, Bound), cmd.pc # "write", file' = file,
           NEW c \in Commands, NEW region, NEW st \in States, NEW next \in PCs,
           c.key = cmd.key, st.key = cmd.key,
           next = "settle" => st.remote = cmd.note.state.remote,
           cmd' = Writing(c, region, st, next)
    PROVE  Level(cmd)'
  <1>1. /\ cmd'.pc = "write" /\ cmd'.next = next /\ cmd'.key = cmd.key /\ cmd'.note.state = st
        /\ cmd'.buffer.state = st
    BY DEF Writing, Commands, Files
  <1>2. file.state.key = cmd.key /\ file.state.remote = cmd.note.state.remote
    BY DEF Inv, Level
  <1> QED
    BY <1>1, <1>2 DEF Level

LEMMA SameLevel ==
    ASSUME Inv, On(cmd, Bound), cmd.pc # "write", file' = file,
           cmd'.pc # "write", cmd'.key = cmd.key, cmd'.note = cmd.note
    PROVE  Level(cmd)'
  BY DEF Inv, Level

LEMMA ConvergedLevel ==
    ASSUME Inv, On(cmd, Bound), cmd.pc # "write", file' = file,
           NEW c \in Commands, NEW note \in ChildNotes, NEW src \in Texts, NEW next \in {"intend", "end"},
           c.key = cmd.key, c.note = cmd.note, cmd' = Converged(c, note, src, next)
    PROVE  Level(cmd)'
  <1> DEFINE st == Baseline(cmd.note.state.key, note.ver, src, note.body)
  <1>1. cmd.note.state.key = cmd.key /\ cmd.key \in NoteKeys /\ next \in PCs /\ next # "settle"
    BY DEF Inv, Good, Keyed, PCs
  <1>2. st \in States
    <2>1. note.ver \in Nat /\ note.body \in Bodies
      BY DEF ChildNotes
    <2> QED
      BY <1>1, <2>1, BaselineType
  <1>3. st.key = cmd.key
    BY <1>1 DEF Baseline, Unbound
  <1>4. cmd' = Writing(c, file.region, st, next)
    BY DEF Converged, Stating
  <1> HIDE DEF st
  <1> QED
    BY <1>1, <1>2, <1>3, <1>4, WritingLevel

LEMMA IntendingLevel ==
    ASSUME Inv, On(cmd, Bound), cmd.pc # "write", file' = file,
           NEW c \in Commands, NEW ver \in Nat,
           c.key = cmd.key, c.note = cmd.note, cmd' = Intending(c, ver)
    PROVE  Level(cmd)'
  <1> DEFINE st == [cmd.note.state EXCEPT !.psrc = cmd.note.region, !.premote = Body(cmd.note.region)]
             d == [c EXCEPT !.pre = ver]
  <1>1. cmd.note.state.key = cmd.key /\ "patch" \in PCs
    BY DEF Inv, Good, Keyed, PCs
  <1>2. cmd.note.state \in States /\ cmd.note.region \in Texts
    BY KeyedFacts
  <1>3. st \in States /\ st.key = cmd.key
    BY <1>1, <1>2, BodyType DEF States
  <1>4. d \in Commands /\ d.key = cmd.key
    BY DEF Commands
  <1>5. cmd' = Writing(d, file.region, st, "patch")
    BY DEF Intending, Stating
  <1> HIDE DEF st, d
  <1> QED
    BY <1>1, <1>3, <1>4, <1>5, WritingLevel

LEMMA EndedLevel ==
    ASSUME Inv, NEW c \in Commands, NEW region, NEW st \in States, cmd' = Writing(c, region, st, "end")
    PROVE  Level(cmd)'
  <1>1. cmd'.pc = "write" /\ cmd'.next = "end"
    BY DEF Writing, Commands
  <1> QED
    BY <1>1 DEF Level, On, Bound

LEMMA PullingLevel ==
    ASSUME Inv, NEW c \in Commands, NEW note \in ChildNotes, NEW source,
           c.note = cmd.note, cmd' = Pulling(c, note, source), note.at = "live",
           note.body.text \in Texts
    PROVE  Level(cmd)'
  <1> DEFINE st == Baseline(cmd.note.state.key, note.ver, note.body.text, note.body)
  <1>1. CASE cmd' = [c EXCEPT !.pc = "end", !.status = "conflict"]
    <2>1. cmd'.pc = "end"
      BY <1>1 DEF Commands
    <2> QED
      BY <2>1, RestLevel DEF Bound
  <1>2. CASE cmd' = Writing(c, note.body.text, st, "end")
    <2>1. note.ver \in Nat /\ note.body \in Bodies /\ cmd.note.state.key \in NoteKeys \cup {None}
      BY KeyedFacts DEF ChildNotes, States
    <2>2. st \in States
      BY <2>1, BaselineType
    <2> HIDE DEF st
    <2> QED
      BY <1>2, <2>2, EndedLevel
  <1> QED
    BY <1>1, <1>2 DEF Pulling

LEMMA ReadLevel ==
    ASSUME Inv, Read
    PROVE  Level(cmd)'
  <1> DEFINE note == notes[cmd.key]
             n == cmd.note
             c == [cmd EXCEPT !.live = note]
             source == Recovered(n, note.body)
  <1>0. /\ cmd \in Commands /\ cmd.pc = "read" /\ On(cmd, Bound) /\ file' = file
        /\ cmd.op \in {"push", "pull", "keep_vault", "keep_remote"} /\ cmd.key \in NoteKeys
    BY DEF Inv, TypeOK, Good, Keyed, On, Bound, Read, At, Quiet
  <1>1. note \in ChildNotes /\ note.ver \in Nat /\ n.state.ver \in Nat
    BY <1>0, KeyedFacts DEF Inv, TypeOK, ChildNotes
  <1>2. c \in Commands /\ c.note = n /\ c.key = cmd.key
    BY <1>0, <1>1 DEF Commands
  <1>3. ASSUME NEW s \in Statuses, cmd' = Ending(s)
        PROVE  Level(cmd)'
    <2>1. cmd'.pc = "end"
      BY <1>0, <1>3 DEF Ending, Commands
    <2> QED
      BY <2>1, RestLevel DEF Bound
  <1>4. ASSUME note.at = "live", source # None, NEW s \in Statuses, NEW next \in {"intend", "end"},
               \/ cmd' = Converged([c EXCEPT !.status = s], note, source, next)
               \/ cmd' = Converged(c, note, source, next)
        PROVE  Level(cmd)'
    <2>1. source \in Texts
      BY <1>0, <1>1, <1>4, RecoveredBody
    <2> DEFINE d == [c EXCEPT !.status = s]
    <2>2. d \in Commands /\ d.note = n /\ d.key = cmd.key
      BY <1>2 DEF Commands
    <2>3. cmd' = Converged(d, note, source, next) \/ cmd' = Converged(c, note, source, next)
      BY <1>4
    <2> HIDE DEF d, c, source
    <2> QED
      BY <1>0, <1>1, <1>2, <2>1, <2>2, <2>3, ConvergedLevel
  <1>5. cmd' = Intending(c, n.state.ver) \/ cmd' = Intending(c, note.ver) => Level(cmd)'
    <2> HIDE DEF c
    <2> QED
      BY <1>0, <1>1, <1>2, IntendingLevel
  <1>6. note.at = "live" /\ (cmd' = Pulling(c, note, n.state.src) \/ cmd' = Pulling(c, note, n.region))
          => Level(cmd)'
    <2>1. note.at = "live" => note.body.text \in Texts
      BY <1>0 DEF Inv, Known, TypeOK
    <2> HIDE DEF c
    <2> QED
      BY <1>1, <1>2, <2>1, PullingLevel
  <1>7. ASSUME cmd' = [c EXCEPT !.pc = "end", !.status = "conflict"]
        PROVE  Level(cmd)'
    <2>1. cmd'.pc = "end"
      BY <1>2, <1>7 DEF Commands
    <2> QED
      BY <2>1, RestLevel DEF Bound
  <1>9. {"remote_deleted", "unchanged", "skipped", "failed", "converged"} \subseteq Statuses
    BY DEF Statuses
  <1>12. CASE note.at # "live"
    BY <1>12, <1>3, <1>9 DEF Read
  <1>13. CASE note.at = "live" /\ cmd.op = "push"
    BY <1>13, <1>3, <1>4, <1>5, <1>9 DEF Read
  <1>14. CASE note.at = "live" /\ cmd.op = "pull"
    BY <1>14, <1>3, <1>4, <1>6, <1>7, <1>9 DEF Read
  <1>15. CASE note.at = "live" /\ cmd.op = "keep_vault"
    BY <1>15, <1>5 DEF Read
  <1>16. CASE note.at = "live" /\ cmd.op = "keep_remote"
    BY <1>16, <1>3, <1>6, <1>9 DEF Read
  <1> QED
    BY <1>0, <1>12, <1>13, <1>14, <1>15, <1>16

LEMMA SettleLevel ==
    ASSUME Inv, Settle
    PROVE  Level(cmd)'
  <1> DEFINE note == notes[cmd.key]
             n == cmd.note
             c == [cmd EXCEPT !.live = note, !.status = "converged"]
             b == [cmd EXCEPT !.status = "converged"]
             d == [c EXCEPT !.retried = TRUE]
  <1>0. /\ cmd \in Commands /\ cmd.pc = "settle" /\ On(cmd, Bound) /\ file' = file
        /\ cmd.key \in NoteKeys /\ n.region \in Texts
    BY KeyedFacts DEF Inv, TypeOK, Good, Keyed, On, Bound, Settle, At, Quiet
  <1>1. note \in ChildNotes /\ note.ver \in Nat /\ cmd.live \in ChildNotes
    BY <1>0 DEF Inv, TypeOK, ChildNotes, Commands
  <1>2. /\ b \in Commands /\ b.note = n /\ b.key = cmd.key
        /\ c \in Commands /\ c.note = n /\ c.key = cmd.key
        /\ d \in Commands /\ d.note = n /\ d.key = cmd.key
    BY <1>0, <1>1 DEF Commands, Statuses
  <1>3. \/ cmd' = Converged(b, cmd.live, n.region, "end") \/ cmd' = Converged(c, note, n.region, "end")
        \/ cmd' = Intending(d, note.ver) \/ cmd' = Ending("failed") \/ cmd' = Ending("conflict")
    BY DEF Settle
  <1>4. ASSUME NEW s, cmd' = Ending(s)
        PROVE  Level(cmd)'
    <2>1. cmd'.pc = "end"
      BY <1>0, <1>4 DEF Ending, Commands
    <2> QED
      BY <2>1, RestLevel DEF Bound
  <1> HIDE DEF b, c, d
  <1> QED
    BY <1>0, <1>1, <1>2, <1>3, <1>4, ConvergedLevel, IntendingLevel

LEMMA RefuseLevel ==
    ASSUME Inv, Refuse
    PROVE  Level(cmd)'
  <1> DEFINE c(s) == [cmd EXCEPT !.status = s]
             st == [cmd.note.state EXCEPT !.psrc = None, !.premote = NoBody]
  <1>0. /\ cmd \in Commands /\ cmd.pc = "patch" /\ On(cmd, Bound) /\ file' = file
        /\ cmd.note.state.key = cmd.key /\ cmd.note.state \in States
    BY KeyedFacts DEF Inv, TypeOK, Good, Keyed, On, Bound, Refuse, At
  <1>1. st \in States /\ st.key = cmd.key /\ st.remote = cmd.note.state.remote
    BY <1>0, BodyType DEF States
  <1>2. /\ c("stale") \in Commands /\ c("stale").key = cmd.key
        /\ c("failed") \in Commands /\ c("failed").key = cmd.key
    BY <1>0 DEF Commands, Statuses
  <1>3. \/ cmd' = Writing(c("stale"), file.region, st, "settle")
        \/ cmd' = Writing(c("failed"), file.region, st, "settle")
    BY DEF Refuse, Stating
  <1>4. "settle" \in PCs
    BY DEF PCs
  <1> HIDE DEF c, st
  <1> QED
    BY <1>0, <1>1, <1>2, <1>3, <1>4, WritingLevel

LEMMA StartLevel ==
    ASSUME Inv, NEW op \in Ops, Start(op)
    PROVE  Level(cmd)'
  <1> DEFINE begun == [Idle EXCEPT !.op = op, !.note = file, !.key = file.state.key]
             c(pc) == [begun EXCEPT !.pc = pc]
             d == [begun EXCEPT !.pc = "discover", !.replaces = file.state.key]
  <1>1. file \in Files /\ file.region \in Texts /\ file.state \in States
        /\ file.state.key \in NoteKeys \cup {None} /\ file' = file
    BY DEF Inv, TypeOK, Files, States, Start
  <1>2. begun \in Commands /\ begun.note = file /\ begun.key = file.state.key
    BY <1>1, IdleType DEF Commands
  <1>3. ASSUME NEW pc \in {"versions", "read", "end"}, cmd' = c(pc)
        PROVE  Level(cmd)'
    <2>1. cmd'.pc = pc /\ cmd'.note = file /\ cmd'.key = file.state.key
      BY <1>2, <1>3 DEF Commands
    <2> QED
      BY <1>1, <2>1 DEF Level
  <1>4. ASSUME cmd' = d
        PROVE  Level(cmd)'
    <2>1. cmd'.pc = "discover"
      BY <1>2, <1>4 DEF Commands
    <2> QED
      BY <2>1, RestLevel DEF Bound
  <1>5. ASSUME cmd' = Writing(begun, file.region, file.state, "end")
        PROVE  Level(cmd)'
    <2> HIDE DEF begun
    <2> QED
      BY <1>1, <1>2, <1>5, EndedLevel
  <1>6. cmd' \in {Writing(begun, file.region, file.state, "end"), c("versions"), c("read"), d, c("end")}
    BY Zenon DEF Start
  <1> QED
    BY <1>3, <1>4, <1>5, <1>6

LEMMA OtherLevel ==
    ASSUME Inv,
           \/ Versions \/ Intend \/ Reconcile \/ Patch \/ Finalize \/ Discover
           \/ (\E k \in NoteKeys : Post(k)) \/ Used \/ Adopt \/ Return
           \/ Rename \/ FailWrite \/ FailRequest \/ Kill
    PROVE  Level(cmd)'
  <1>0. cmd \in Commands /\ file \in Files /\ Level(cmd)
    BY DEF Inv, TypeOK
  <1>1. ASSUME NEW pc, cmd'.pc = pc, pc \in {"idle", "end", "finalize", "discover", "post", "adopt"}
        PROVE  Level(cmd)'
    BY <1>1, RestLevel DEF Bound
  <1>2. \A s : Ending(s).pc = "end" /\ Going("adopt").pc = "adopt" /\ Going("post").pc = "post"
    BY <1>0 DEF Ending, Going, Commands
  <1>3. CASE Versions
    <2>1. On(cmd, Bound) /\ cmd.pc = "versions" /\ file' = file
      BY <1>3 DEF Versions, At, On, Bound, Quiet
    <2>2. ASSUME cmd' = Going("read")
          PROVE  Level(cmd)'
      <3>1. cmd'.pc = "read" /\ cmd'.key = cmd.key /\ cmd'.note = cmd.note
        BY <1>0, <2>2 DEF Going, Commands
      <3> QED
        BY <2>1, <3>1, SameLevel
    <2> QED
      BY <1>1, <1>2, <1>3, <2>2 DEF Versions
  <1>4. CASE Intend
    <2>1. On(cmd, Bound) /\ cmd.pc = "intend" /\ file' = file /\ cmd.note.state.ver \in Nat
      BY <1>4, KeyedFacts DEF Intend, At, On, Bound, Quiet
    <2> QED
      BY <1>0, <1>4, <2>1, IntendingLevel DEF Intend
  <1>5. CASE Reconcile
    <2>1. On(cmd, Bound) /\ cmd.pc = "reconcile" /\ file' = file
      BY <1>5 DEF Reconcile, At, On, Bound, Quiet
    <2>2. cmd'.pc \in {"finalize", "settle"} /\ cmd'.key = cmd.key /\ cmd'.note = cmd.note
      BY <1>0, <1>5 DEF Reconcile, Going, Commands
    <2> QED
      BY <2>1, <2>2, SameLevel
  <1>6. CASE Patch
    <2>1. On(cmd, Bound) /\ cmd.pc = "patch" /\ file' = file
      BY <1>6 DEF Patch, At, On, Bound, Landed
    <2>2. cmd'.pc \in {"finalize", "reconcile"} /\ cmd'.key = cmd.key /\ cmd'.note = cmd.note
      BY <1>0, <1>6 DEF Patch, Going, Commands
    <2> QED
      BY <2>1, <2>2, SameLevel
  <1>7. CASE Finalize
    <2>1. CASE cmd' = Ending("failed")
      BY <1>1, <1>2, <2>1
    <2>2. CASE cmd' # Ending("failed")
      <3> DEFINE st == Baseline(cmd.key, notes[cmd.key].ver, Source(cmd), notes[cmd.key].body)
      <3>1. cmd' = Writing(cmd, file.region, st, "end")
        BY <1>7, <2>2 DEF Finalize, Stating, Source
      <3>2. cmd.key \in NoteKeys /\ Source(cmd) \in Texts
        BY <1>7 DEF Inv, Good, ReadBack, Finalize, At, TypeOK
      <3>3. st \in States
        BY <3>2, BaselineType DEF Inv, TypeOK, ChildNotes
      <3> HIDE DEF st
      <3> QED
        BY <1>0, <3>1, <3>3, EndedLevel
    <2> QED
      BY <2>1, <2>2
  <1>8. ASSUME NEW k, cmd' = Adopting(k)
        PROVE  Level(cmd)'
    <2>1. cmd'.pc = "finalize"
      BY <1>0, <1>8 DEF Adopting, Commands
    <2> QED
      BY <1>1, <2>1
  <1>9. CASE Discover
    BY <1>1, <1>2, <1>8, <1>9 DEF Discover
  <1>10. ASSUME NEW k \in NoteKeys, Post(k)
         PROVE  Level(cmd)'
    <2>1. cmd.pc = "post" /\ cmd'.pc \in {"finalize", "post", "adopt"}
      BY <1>0, <1>10 DEF Post, At, Going, Commands
    <2> QED
      BY <1>1, <2>1
  <1>11. CASE Used
    BY <1>1, <1>2, <1>11 DEF Used
  <1>12. CASE Adopt
    BY <1>1, <1>2, <1>8, <1>12 DEF Adopt
  <1>13. CASE Return \/ Kill
    BY <1>1, <1>13 DEF Return, Kill, Idle
  <1>14. CASE FailRequest
    BY <1>1, <1>2, <1>14 DEF FailRequest
  <1>15. CASE Rename
    <2>1. cmd.next \in {"intend", "patch", "settle", "end"} /\ cmd.pc = "write"
      BY <1>15 DEF Rename, At, Inv, Good, Keyed
    <2>2. cmd'.pc = cmd.next /\ cmd'.key = cmd.key /\ cmd'.note = cmd.note /\ file' = cmd.buffer
      BY <1>0, <1>15 DEF Rename, Going, Commands
    <2>3. cmd.next # "end" => cmd.note.state.key = cmd.key /\ cmd.buffer.state = cmd.note.state
      BY <1>0, <2>1 DEF Inv, Good, Keyed, Level, On, Bound
    <2> QED
      BY <2>1, <2>2, <2>3 DEF Level, On, Bound
  <1>16. CASE FailWrite
    <2>1. CASE cmd.next # "settle"
      BY <1>1, <1>2, <1>16, <2>1 DEF FailWrite
    <2>2. CASE cmd.next = "settle"
      <3>1. cmd.pc = "write" /\ On(cmd, Bound) /\ file' \in {file, cmd.buffer}
        BY <1>16, <2>2 DEF FailWrite, At, On, Bound
      <3>2. cmd'.pc = "settle" /\ cmd'.key = cmd.key /\ cmd'.note.state = file.state
        BY <1>0, <1>16, <2>2 DEF FailWrite, Going, Commands, Files
      <3>3. /\ cmd.note.state.key = cmd.key /\ cmd.buffer.state = cmd.note.state
            /\ file.state.key = cmd.key /\ file.state.remote = cmd.note.state.remote
        BY <1>0, <2>2, <3>1 DEF Inv, Good, Keyed, Level
      <3> QED
        BY <3>1, <3>2, <3>3 DEF Level
    <2> QED
      BY <2>1, <2>2
  <1> QED
    BY <1>3, <1>4, <1>5, <1>6, <1>7, <1>9, <1>10, <1>11, <1>12, <1>13, <1>14, <1>15, <1>16

-----------------------------------------------------------------------------
(* The inductive step. *)

LEMMA InitInv == Init => Inv
  <1> SUFFICES ASSUME Init PROVE Inv
    OBVIOUS
  <1>1. TypeOK
    BY FreshType, AbsentType, IdleType, VaultNoteAssumption DEF Init, TypeOK
  <1>2. Dated /\ Known
    BY DEF Init, Dated, Known, Absent
  <1>3. Fresh.state = Unbound /\ Fresh.region = Empty /\ Unbound.key = None
    BY DEF Fresh, Unbound
  <1>4. Filed
    BY <1>3, FitUnbound DEF Init, Filed
  <1>5. Good(cmd)
    BY IdleGood DEF Init
  <1>6. Level(cmd)
    BY DEF Init, Idle, Level, On, Bound
  <1> QED
    BY <1>1, <1>2, <1>4, <1>5, <1>6 DEF Inv

LEMMA NotesStep ==
    ASSUME Inv, Next, "readback" \notin Risks
    PROVE  /\ (Dated /\ Known)'
           /\ \/ UNCHANGED <<notes, version, held>> /\ shown \subseteq shown'
              \/ \E k \in NoteKeys : Renewed(k)
  <1>0. TypeOK /\ Dated /\ Known /\ version \in Nat /\ notes \in [NoteKeys -> ChildNotes]
    BY DEF Inv, TypeOK
  <1>1. ASSUME UNCHANGED <<notes, version, held>>, shown \subseteq shown'
        PROVE  /\ (Dated /\ Known)'
               /\ UNCHANGED <<notes, version, held>> /\ shown \subseteq shown'
    BY <1>0, <1>1 DEF Dated, Known
  <1>2. ASSUME NEW k \in NoteKeys, Renewed(k), notes'[k].at = "live" => notes'[k].body.text \in held'
        PROVE  (Dated /\ Known)'
    <2>1. ASSUME NEW j \in NoteKeys
          PROVE  notes'[j].ver <= version'
      <3>1. notes[j].ver \in Nat /\ notes[j].ver <= version
        BY <1>0 DEF Dated, ChildNotes
      <3> QED
        BY <1>0, <1>2, <3>1 DEF Renewed
    <2> QED
      BY <1>0, <1>2, <2>1 DEF Dated, Known, Renewed
  <1>3. ASSUME NEW k \in NoteKeys, NEW note \in ChildNotes, Bump(k, note)
        PROVE  (Dated /\ Known)' /\ Renewed(k)
    <2>1. /\ \A j \in NoteKeys : j # k => notes'[j] = notes[j]
          /\ notes'[k].ver = version + 1 /\ notes'[k].body = note.body
      BY <1>0, <1>3 DEF Bump, ChildNotes
    <2>2. Renewed(k) /\ notes'[k].body.text \in held'
      BY <1>3, <2>1 DEF Renewed, Bump
    <2> QED
      BY <1>2, <2>2
  <1>4. ASSUME NEW k \in NoteKeys, Landed(k, Body(cmd.note.region))
        PROVE  (Dated /\ Known)' /\ Renewed(k)
    <2>1. /\ Renewed(k) /\ notes'[k].body = Body(cmd.note.region) /\ held' = held \cup {cmd.note.region}
      BY <1>4, LandedNote
    <2>2. notes'[k].body.text \in held'
      BY <2>1 DEF Body
    <2> QED
      BY <1>2, <2>1, <2>2
  <1>5. CASE Patch
    <2>1. cmd.key \in NoteKeys /\ Landed(cmd.key, Body(cmd.note.region))
      BY <1>5 DEF Patch, Accepts, Live
    <2> QED
      BY <1>4, <2>1
  <1>6. ASSUME NEW k \in NoteKeys, Post(k)
        PROVE  (Dated /\ Known)' /\ Renewed(k)
    BY <1>4, <1>6 DEF Post
  <1>7. ASSUME NEW k \in NoteKeys,
               \/ \E t \in Texts, managed \in BOOLEAN : EditElsewhere(k, t, managed)
               \/ TouchElsewhere(k) \/ DeleteElsewhere(k)
        PROVE  (Dated /\ Known)' /\ Renewed(k)
    BY <1>3, <1>7, OthersGood
  <1>8. ASSUME NEW op \in Ops, Start(op)
        PROVE  UNCHANGED <<notes, version, held>> /\ shown \subseteq shown'
    BY <1>8 DEF Start, zotero, ghosts
  <1>9. ASSUME NEW t \in Texts, Save(t)
        PROVE  UNCHANGED <<notes, version, held>> /\ shown \subseteq shown'
    BY <1>9 DEF Save, zotero
  <1>10. ASSUME Versions \/ Read \/ Intend \/ Reconcile \/ Settle \/ Finalize \/ Used \/ Adopt \/ Return
         PROVE  UNCHANGED <<notes, version, held>> /\ shown \subseteq shown'
    <2>1. Quiet
      BY <1>10 DEF Versions, Read, Intend, Reconcile, Settle, Finalize, Used, Adopt, Return
    <2> QED
      BY <2>1 DEF Quiet, zotero, ghosts
  <1>11. ASSUME Refuse \/ Discover \/ Rename \/ FailWrite \/ FailRequest \/ Kill
         PROVE  UNCHANGED <<notes, version, held>> /\ shown \subseteq shown'
    BY <1>11 DEF Refuse, Discover, Rename, FailWrite, FailRequest, Kill, Faulty, zotero, ghosts
  <1> QED
    BY <1>1, <1>5, <1>6, <1>7, <1>8, <1>9, <1>10, <1>11, LandedNote DEF Next, Work, Patch, Accepts, Live

LEMMA FiledStep ==
    ASSUME Inv, Next, "readback" \notin Risks
    PROVE  Filed'
  <1>0. Filed /\ file \in Files /\ cmd \in Commands /\ Good(cmd)
    BY DEF Inv, TypeOK
  <1>1. FitN(file.state)
    <2>1. CASE UNCHANGED <<notes, version, held>> /\ shown \subseteq shown'
      BY <1>0, <2>1 DEF Filed, Fit, FitN
    <2>2. CASE \E k \in NoteKeys : Renewed(k)
      BY <2>2, CommandFits
    <2> QED
      BY <2>1, <2>2, NotesStep
  <1>2. shown \subseteq shown'
    BY NotesStep DEF Renewed
  <1>3. CASE file' = file
    BY <1>0, <1>1, <1>2, <1>3 DEF Filed, Fit, FitN
  <1>4. ASSUME NEW t \in Texts, Save(t)
        PROVE  Filed'
    <2>1. file'.region = t /\ file'.state = file.state /\ shown' = shown \cup {t}
      BY <1>0, <1>4 DEF Save, Files
    <2> QED
      BY <1>0, <1>1, <2>1 DEF Filed, Fit, FitN
  <1>5. CASE (Rename \/ FailWrite) /\ file' # file
    <2>1. /\ cmd.pc = "write" /\ file' = cmd.buffer /\ shown' = shown \cup {cmd.buffer.region}
          /\ UNCHANGED <<notes, version, held>>
      BY <1>5 DEF Rename, FailWrite, Faulty, At, zotero
    <2>2. Fit(cmd.buffer.state) /\ (cmd.buffer.state.key # None
            => cmd.buffer.state.src \in shown \cup {cmd.buffer.region})
      BY <1>0, <2>1 DEF Good, Seen
    <2>3. Fit(file.state)'
      BY <2>1, <2>2 DEF Fit
    <2> QED
      BY <1>0, <2>1, <2>2, <2>3 DEF Filed
  <1>6. file' # file => (\E t \in Texts : Save(t)) \/ Rename \/ FailWrite
    <2>1. ASSUME NEW op \in Ops, Start(op)
          PROVE  file' = file
      BY <2>1 DEF Start
    <2>2. ASSUME Versions \/ Read \/ Intend \/ Reconcile \/ Settle \/ Finalize \/ Used \/ Adopt
                 \/ Return
          PROVE  file' = file
      BY <2>2 DEF Versions, Read, Intend, Reconcile, Settle, Finalize, Used, Adopt, Return, Quiet
    <2>3. ASSUME Refuse \/ Patch \/ Discover \/ FailRequest \/ Kill \/ \E k \in NoteKeys : Post(k)
          PROVE  file' = file
      BY <2>3 DEF Refuse, Patch, Discover, FailRequest, Kill, Post, Landed
    <2>4. ASSUME NEW k \in NoteKeys,
                 \/ \E t \in Texts, managed \in BOOLEAN : EditElsewhere(k, t, managed)
                 \/ TouchElsewhere(k) \/ DeleteElsewhere(k)
          PROVE  file' = file
      BY <2>4 DEF EditElsewhere, TouchElsewhere, DeleteElsewhere, Bump
    <2> QED
      BY <2>1, <2>2, <2>3, <2>4 DEF Next, Work
  <1> QED
    BY <1>3, <1>4, <1>5, <1>6

LEMMA GoodStep ==
    ASSUME Inv, Next, "readback" \notin Risks
    PROVE  Good(cmd)' /\ Level(cmd)'
  <1>0. Good(cmd) /\ Level(cmd) /\ Filed
    BY DEF Inv
  <1>1. ASSUME Good(cmd'), UNCHANGED <<notes, version, tokens, held>>, shown \subseteq shown'
        PROVE  Good(cmd)'
    BY <1>1, MovedGood
  <1>2. ASSUME NEW t \in Texts, Save(t)
        PROVE  Good(cmd)' /\ Level(cmd)'
    <2>1. cmd' = cmd /\ file'.state = file.state /\ shown \subseteq shown'
          /\ UNCHANGED <<notes, version, tokens, held>>
      BY <1>2 DEF Save, Inv, TypeOK, Files, zotero
    <2>2. Good(cmd')
      BY <1>0, <2>1
    <2> QED
      BY <1>0, <1>1, <2>1, <2>2 DEF Level, On, Bound
  <1>3. ASSUME NEW k \in NoteKeys,
               \/ \E t \in Texts, managed \in BOOLEAN : EditElsewhere(k, t, managed)
               \/ TouchElsewhere(k) \/ DeleteElsewhere(k)
        PROVE  Good(cmd)' /\ Level(cmd)'
    <2>1. cmd' = cmd /\ file' = file
      BY <1>3 DEF EditElsewhere, TouchElsewhere, DeleteElsewhere, Bump
    <2>2. Level(cmd)'
      BY <1>0, <2>1 DEF Level, On, Bound
    <2> QED
      BY <1>3, <2>2, OthersGood
  <1>4. ASSUME NEW op \in Ops, Start(op)
        PROVE  Good(cmd)' /\ Level(cmd)'
    <2>1. UNCHANGED <<notes, version, tokens, held>> /\ shown \subseteq shown'
      BY <1>4 DEF Start, zotero, ghosts
    <2> QED
      BY <1>1, <1>4, <2>1, StartGood, StartLevel
  <1>5. ASSUME Versions \/ Read \/ Intend \/ Reconcile \/ Refuse \/ Settle \/ Finalize \/ Used
               \/ Adopt \/ Return
        PROVE  Good(cmd)'
    <2>1. UNCHANGED <<notes, version, tokens, held>> /\ shown \subseteq shown'
      BY <1>5 DEF Versions, Read, Intend, Reconcile, Refuse, Settle, Finalize, Used, Adopt, Return,
                  Quiet, zotero, ghosts
    <2>2. Good(cmd')
      BY <1>5, ReadGood, SettleGood, StepGood
    <2> QED
      BY <1>1, <2>1, <2>2
  <1>6. CASE FailRequest
    <2>1. UNCHANGED <<notes, version, tokens, held>> /\ shown \subseteq shown'
      BY <1>6 DEF FailRequest, Faulty, zotero
    <2>2. Good(cmd')
      BY <1>6, EndingGood DEF FailRequest
    <2> QED
      BY <1>1, <1>6, <2>1, <2>2, OtherLevel
  <1>7. CASE Kill
    <2>1. UNCHANGED <<notes, version, tokens, held>> /\ shown \subseteq shown'
      BY <1>7 DEF Kill, Faulty, zotero
    <2>2. Good(cmd')
      BY <1>0, <1>7, IdleGood DEF Kill, Filed
    <2> QED
      BY <1>1, <1>7, <2>1, <2>2, OtherLevel
  <1>8. CASE Work
    BY <1>5, <1>8, PatchGood, DiscoverGood, PostGood, RenamedGood, ReadLevel, SettleLevel,
       RefuseLevel, OtherLevel DEF Work
  <1>9. CASE FailWrite
    BY <1>9, RenamedGood, OtherLevel
  <1> QED
    BY <1>2, <1>3, <1>4, <1>6, <1>7, <1>8, <1>9 DEF Next

LEMMA InvStep ==
    ASSUME "readback" \notin Risks
    PROVE  Inv /\ [Next]_vars => Inv'
  <1> SUFFICES ASSUME Inv, [Next]_vars PROVE Inv'
    OBVIOUS
  <1>1. TypeOK'
    BY TypeStep
  <1>2. CASE Next
    BY <1>1, <1>2, NotesStep, FiledStep, GoodStep DEF Inv
  <1>3. CASE UNCHANGED vars
    <2>1. UNCHANGED <<notes, version, tokens, held, shown, file, cmd>>
      BY <1>3 DEF vars, zotero, ghosts
    <2>2. (Dated /\ Known)'
      BY <2>1 DEF Inv, Dated, Known
    <2>3. Filed' /\ Level(cmd)'
      BY <2>1 DEF Inv, Filed, Fit, Level, On, Bound
    <2>4. Good(cmd)'
      <3>1. Good(cmd')
        BY <2>1 DEF Inv
      <3> QED
        BY <2>1, <3>1, MovedGood
    <2> QED
      BY <1>1, <2>2, <2>3, <2>4 DEF Inv
  <1> QED
    BY <1>2, <1>3

-----------------------------------------------------------------------------
(* What it gives.  All of it is about a vault whose notes no other client edits *)
(* between zotio's write and its read-back.                                     *)

LEMMA Invariance ==
    ASSUME "readback" \notin Risks
    PROVE  Spec => []Inv
  <1>1. Init => Inv
    BY InitInv
  <1>2. Inv /\ [Next]_vars => Inv'
    BY InvStep
  <1> QED
    BY <1>1, <1>2, PTL DEF Spec

\* Every variable of the vault, its child notes and the running command has its type,
\* through kills, failed writes and lost answers (pushState, vault_push.go).
THEOREM TypeCorrect ==
    ASSUME "readback" \notin Risks
    PROVE  Spec => []TypeOK
  <1>1. Inv => TypeOK
    BY DEF Inv
  <1> QED
    BY <1>1, Invariance, PTL

\* However many keys, texts, saves, edits and kills there are, what a file or the
\* process about to write one takes for the state last in step was such a state
\* (finalizeState, convergeNote, keepRemoteResolve).
THEOREM BaselinesAreHonest ==
    ASSUME "readback" \notin Risks
    PROVE  Spec => []BaselineHonest
  <1>1. Inv => BaselineHonest
    <2> SUFFICES ASSUME Inv PROVE BaselineHonest
      OBVIOUS
    <2>1. ASSUME NEW st, Fit(st)
          PROVE  Agree(st)
      BY <2>1 DEF Fit, Agree, Body
    <2> QED
      BY <2>1 DEF Inv, Filed, Good, BaselineHonest
  <1> QED
    BY <1>1, Invariance, PTL

LEMMA Replaces ==
    ASSUME Inv, Next, cmd' # cmd, NEW k \in NoteKeys, notes'[k] # notes[k]
    PROVE  \/ Patch /\ k = cmd.key
           \/ Post(k)
  <1>0. notes \in [NoteKeys -> ChildNotes]
    BY DEF Inv, TypeOK
  <1>1. ~ \E t \in Texts : Save(t)
    BY DEF Save
  <1>2. ~ \E j \in NoteKeys :
            \/ \E t \in Texts, managed \in BOOLEAN : EditElsewhere(j, t, managed)
            \/ TouchElsewhere(j) \/ DeleteElsewhere(j)
    BY DEF EditElsewhere, TouchElsewhere, DeleteElsewhere, Bump
  <1>3. ~ \E op \in Ops : Start(op)
    BY DEF Start, zotero
  <1>4. ~(Versions \/ Read \/ Intend \/ Reconcile \/ Settle \/ Finalize \/ Used \/ Adopt \/ Return)
    BY DEF Versions, Read, Intend, Reconcile, Settle, Finalize, Used, Adopt, Return, Quiet, zotero
  <1>5. ~(Refuse \/ Discover \/ Rename \/ FailWrite \/ FailRequest \/ Kill)
    BY DEF Refuse, Discover, Rename, FailWrite, FailRequest, Kill, Faulty, zotero
  <1>6. CASE Patch
    <2>1. cmd.key \in NoteKeys
      BY <1>6 DEF Patch, Accepts, Live
    <2>2. k = cmd.key
      BY <1>0, <1>6, <2>1 DEF Patch, Landed
    <2> QED
      BY <1>6, <2>2
  <1>7. ASSUME NEW j \in NoteKeys, Post(j)
        PROVE  Post(k)
    BY <1>0, <1>7 DEF Post, Landed
  <1> QED
    BY <1>1, <1>2, <1>3, <1>4, <1>5, <1>6, <1>7 DEF Next, Work

\* A body that another client has written is never replaced by a push, a recreate or a
\* pull, only by the keep-vault the user asks for (patchWithConflict).
THEOREM RemoteEditsAreSafe ==
    ASSUME "readback" \notin Risks
    PROVE  Spec => RemoteEditsStand
  <1>1. ASSUME Inv, [Next]_vars, NEW k \in NoteKeys, cmd' # cmd, k \in Live,
               notes'[k].body # notes[k].body, cmd.op # "keep_vault"
        PROVE  notes[k].body.managed /\ notes[k].body.text \in shown
    <2>1. Next
      BY <1>1 DEF vars
    <2>2. ~Post(k)
      BY <1>1 DEF Post, Live
    <2>3. Patch /\ k = cmd.key
      BY <1>1, <2>1, <2>2, Replaces
    <2>4. notes[k].at = "live" /\ notes[k].ver = cmd.pre /\ On(cmd, {"patch"}) /\ On(cmd, Bound)
      BY <2>3 DEF Patch, Accepts, Live, At, On, Bound
    <2>5. /\ notes[k].body = cmd.note.state.remote /\ cmd.note.state.src \in shown
          /\ cmd.note.state.remote = Body(cmd.note.state.src)
      <3>1. cmd.note.state.key # None
        BY <1>1, <2>4, KeyedFacts
      <3> QED
        BY <1>1, <2>3, <2>4, <3>1 DEF Inv, Good, Pinned, Seen, Fit
    <2> QED
      BY <2>5 DEF Body
  <1> DEFINE A == \A k \in NoteKeys :
                     cmd' # cmd /\ k \in Live /\ notes'[k].body # notes[k].body
                       => cmd.op = "keep_vault" \/ (notes[k].body.managed /\ notes[k].body.text \in shown)
  <1>2. Inv /\ [Next]_vars => [A]_vars
    BY <1>1
  <1>3. Spec => [][A]_vars
    <2> HIDE DEF A
    <2> QED
      BY <1>2, Invariance, PTL DEF Spec
  <1> QED
    BY <1>3 DEF RemoteEditsStand

\* What the user has written is replaced only by the keep-remote the user asks for, or
\* when a child note has had it (applyPulledRegion, atomicReplace).
THEOREM LocalEditsAreSafe ==
    ASSUME "readback" \notin Risks
    PROVE  Spec => LocalEditsStand
  <1>1. ASSUME Inv, [Next]_vars, cmd' # cmd, file'.region # file.region, file.region = cmd.base,
               cmd.op # "keep_remote"
        PROVE  file.region \in held
    <2>1. (Rename \/ FailWrite) /\ file' = cmd.buffer /\ cmd.pc = "write"
      <3>1. ~ \E t \in Texts : Save(t)
        BY <1>1 DEF Save
      <3>2. ~ \E j \in NoteKeys :
                \/ \E t \in Texts, managed \in BOOLEAN : EditElsewhere(j, t, managed)
                \/ TouchElsewhere(j) \/ DeleteElsewhere(j)
        BY <1>1 DEF EditElsewhere, TouchElsewhere, DeleteElsewhere, Bump
      <3>3. ~ \E op \in Ops : Start(op)
        BY <1>1 DEF Start
      <3>4. ~(Versions \/ Read \/ Intend \/ Reconcile \/ Settle \/ Finalize \/ Used \/ Adopt \/ Return)
        BY <1>1 DEF Versions, Read, Intend, Reconcile, Settle, Finalize, Used, Adopt, Return, Quiet
      <3>5. ~(Refuse \/ Discover \/ FailRequest \/ Kill \/ Patch \/ \E k \in NoteKeys : Post(k))
        BY <1>1 DEF Refuse, Discover, FailRequest, Kill, Patch, Post, Landed
      <3>6. Rename \/ FailWrite
        BY <1>1, <3>1, <3>2, <3>3, <3>4, <3>5 DEF Next, Work, vars
      <3> QED
        BY <1>1, <3>6 DEF Rename, FailWrite, At
    <2> QED
      BY <1>1, <2>1 DEF Inv, Good, Spared
  <1> DEFINE A == cmd' # cmd /\ file'.region # file.region /\ file.region = cmd.base
                    => cmd.op = "keep_remote" \/ file.region \in held
  <1>2. Inv /\ [Next]_vars => [A]_vars
    BY <1>1
  <1>3. Spec => [][A]_vars
    <2> HIDE DEF A
    <2> QED
      BY <1>2, Invariance, PTL DEF Spec
  <1> QED
    BY <1>3 DEF LocalEditsStand

\* No create is carried out while the item has a managed child note, however often
\* creates are cut off and repeated (createChildNote).
THEOREM NoSecondChildIsMade ==
    ASSUME "readback" \notin Risks
    PROVE  Spec => NoSecondChild
  <1>1. ASSUME Inv, [Next]_vars, NEW k \in NoteKeys, notes[k].at = "none", notes'[k].at = "live"
        PROVE  Managed = {}
    <2>1. Next /\ notes'[k] # notes[k] /\ k \notin Live
      BY <1>1 DEF vars, zotero, Live
    <2>2. ~ \E j \in NoteKeys :
              \/ \E t \in Texts, managed \in BOOLEAN : EditElsewhere(j, t, managed)
              \/ TouchElsewhere(j) \/ DeleteElsewhere(j)
      <3>1. ASSUME NEW j \in NoteKeys, NEW note, Bump(j, note)
            PROVE  FALSE
        <4>1. j # k
          BY <2>1, <3>1 DEF Bump
        <4> QED
          BY <1>1, <2>1, <3>1, <4>1 DEF Bump, Inv, TypeOK
      <3> QED
        BY <3>1 DEF EditElsewhere, TouchElsewhere, DeleteElsewhere
    <2>3. ~ \E t \in Texts : Save(t)
      BY <2>1 DEF Save, zotero
    <2>4. Post(k)
      <3>1. CASE cmd' # cmd
        <4>1. ~(Patch /\ k = cmd.key)
          BY <2>1 DEF Patch, Accepts
        <4> QED
          BY <1>1, <2>1, <3>1, <4>1, Replaces
      <3>2. CASE cmd' = cmd
        <4>1. ~ \E op \in Ops : Start(op)
          BY <2>1 DEF Start, zotero
        <4>2. ~(Versions \/ Read \/ Intend \/ Reconcile \/ Settle \/ Finalize \/ Used \/ Adopt \/ Return)
          BY <2>1 DEF Versions, Read, Intend, Reconcile, Settle, Finalize, Used, Adopt, Return, Quiet, zotero
        <4>3. ~(Refuse \/ Discover \/ Rename \/ FailWrite \/ FailRequest \/ Kill)
          BY <2>1 DEF Refuse, Discover, Rename, FailWrite, FailRequest, Kill, Faulty, zotero
        <4>4. ~Patch
          <5>1. ASSUME Patch
                PROVE  FALSE
            <6>1. cmd.key # k
              BY <2>1, <5>1 DEF Patch, Accepts
            <6> QED
              BY <1>1, <2>1, <5>1, <6>1 DEF Patch, Landed, Inv, TypeOK
          <5> QED
            BY <5>1
        <4>5. \E j \in NoteKeys : Post(j)
          BY <2>1, <2>2, <2>3, <4>1, <4>2, <4>3, <4>4 DEF Next, Work
        <4> QED
          BY <1>1, <2>1, <4>5 DEF Post, Landed, Inv, TypeOK
      <3> QED
        BY <3>1, <3>2
    <2> QED
      BY <1>1, <2>4 DEF Post, At, Token, Inv, Good, Alone
  <1> DEFINE A == \A k \in NoteKeys : notes[k].at = "none" /\ notes'[k].at = "live" => Managed = {}
  <1>2. Inv /\ [Next]_vars => [A]_vars
    BY <1>1
  <1>3. Spec => [][A]_vars
    <2> HIDE DEF A
    <2> QED
      BY <1>2, Invariance, PTL DEF Spec
  <1> QED
    BY <1>3 DEF NoSecondChild
=============================================================================
