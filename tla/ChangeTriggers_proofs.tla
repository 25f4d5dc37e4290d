-------------------------- MODULE ChangeTriggers_proofs --------------------------
(***************************************************************************)
(* How a change becomes a run of a workflow, for every number of keys,     *)
(* versions, steps, workflows and faults.                                  *)
(*                                                                         *)
(* WatchOwed: the marker file never forgets a change, counts exactly when  *)
(* no cycle was cut short, and lets no workflow run for nothing.           *)
(*                                                                         *)
(* ChangeFeed: TInv is the inductive invariant of the poll, WInv that of   *)
(* the workflow runner.  Each is kept by every step of its own side, and   *)
(* by those the two take together.                                         *)
(***************************************************************************)
EXTENDS WatchOwed, ChangeFeed, FiniteSetTheorems, SequenceTheorems, TLAPS

-----------------------------------------------------------------------------
(* The cycles of a watch. *)

Exact(w) == marker[w] = Marker(Owed(unhandled[w], FALSE), FALSE)

\* What the running cycle knows of its workflow.
CycleOwes ==
    /\ cycle \in {"idle", "mark"} => summary = 0
    /\ cycle \in {"mark", "sync", "record"} => (unhandled[who] > 0 => Changed(Added))
    /\ cycle \in {"sync", "record"} => marker[who].inFlight
    /\ cycle \in {"run", "clear"} => marker[who] = Marker(pending, FALSE) /\ Changed(pending)
    /\ cycle = "clear" => unhandled[who] = 0

\* What it counts, when no cycle of the workflow was cut short.
CycleCounts ==
    cycle # "idle" /\ ~doubtful[who] =>
        /\ cycle = "mark" => Exact(who)
        /\ cycle \in {"mark", "sync", "record"} =>
               ~pending.unknown /\ pending.rows + summary = unhandled[who]
        /\ cycle = "run" => ~pending.unknown /\ pending.rows = unhandled[who]

IInv == TypeOK /\ NothingForgotten /\ CountsExact /\ CycleOwes /\ CycleCounts

-----------------------------------------------------------------------------
LEMMA InitIInv == Init => IInv
  BY WatchAssumption, FaultsAssumption DEF Init, IInv, TypeOK, NothingForgotten, CountsExact,
     CycleOwes, CycleCounts, NoMarker, Marker, Owed

\* What a marker that is there says when it is read: something is owed.
LEMMA LoadedFacts ==
  ASSUME NEW m \in [rows : Nat, unknown : BOOLEAN, inFlight : BOOLEAN]
  PROVE  /\ Loaded(m).rows = m.rows
         /\ Loaded(m).unknown = (m.unknown \/ m.inFlight)
         /\ Loaded(m) \in [rows : Nat, unknown : BOOLEAN]
         /\ m # NoMarker => Changed(Loaded(m))
<1>1. Loaded(m).rows = m.rows /\ Loaded(m).unknown = (m.unknown \/ m.inFlight)
  BY DEF Loaded, Owed
<1>2. Loaded(m) \in [rows : Nat, unknown : BOOLEAN]
  <2>1. m.rows \in Nat /\ (m.unknown \/ m.inFlight) \in BOOLEAN
    OBVIOUS
  <2> QED  BY <2>1 DEF Loaded, Owed
<1>3. m = [rows |-> m.rows, unknown |-> m.unknown, inFlight |-> m.inFlight]
  OBVIOUS
<1>4. m.rows = 0 /\ ~m.unknown /\ ~m.inFlight => m = NoMarker
  BY <1>3 DEF NoMarker, Marker, Owed
<1>5. m # NoMarker => Changed(Loaded(m))
  BY <1>1, <1>4 DEF Changed
<1> QED  BY <1>1, <1>2, <1>5

LEMMA StepStart ==
  ASSUME NEW w \in Workflows, IInv, StartCycle(w)
  PROVE  IInv'
<1>1. /\ cycle = "idle" /\ cycle' = "mark" /\ who = NoWorkflow /\ who' = w
      /\ summary = 0 /\ summary' = 0 /\ marker' = marker
      /\ unhandled' = unhandled
  BY DEF StartCycle, IInv, TypeOK, CycleOwes
<1>2. marker[w] \in [rows : Nat, unknown : BOOLEAN, inFlight : BOOLEAN]
  BY DEF IInv, TypeOK
<1>3. /\ pending' \in [rows : Nat, unknown : BOOLEAN]
      /\ marker[w] # NoMarker => Changed(pending')
  <2>1. CASE pending' = Loaded(marker[w])
    BY <1>2, <2>1, LoadedFacts
  <2>2. CASE pending' = Owed(0, TRUE)
    BY <2>2 DEF Changed, Owed
  <2> QED  BY <2>1, <2>2 DEF StartCycle
<1>4. TypeOK'
  <2>1. faults' \in 0 .. MaxFaults
    <3>1. \/ faults' = faults
          \/ faults < MaxFaults /\ faults' = faults + 1
      BY DEF StartCycle, Fault
    <3>2. faults \in 0 .. MaxFaults
      BY DEF IInv, TypeOK
    <3> QED  BY <3>1, <3>2, FaultsAssumption
  <2>2. doubtful' \in [Workflows -> BOOLEAN]
    BY DEF StartCycle, IInv, TypeOK
  <2> QED  BY <1>1, <1>3, <2>1, <2>2, WatchAssumption DEF StartCycle, IInv, TypeOK
<1>5. NothingForgotten'
  BY <1>1 DEF IInv, NothingForgotten
<1>6. CountsExact'
  <2> SUFFICES ASSUME NEW v \in Workflows, ~doubtful'[v], v # w
               PROVE  marker[v] = Marker(Owed(unhandled[v], FALSE), FALSE)
    BY <1>1 DEF CountsExact, Marker, Owed
  <2>1. ~doubtful[v]
    BY DEF StartCycle, IInv, TypeOK
  <2>2. who # v
    BY <1>1, WatchAssumption
  <2> QED  BY <2>1, <2>2 DEF IInv, CountsExact
<1>7. CycleOwes'
  <2>1. unhandled[w] > 0 => Changed(pending')
    BY <1>3 DEF IInv, NothingForgotten
  <2>2. Added' = pending'
    BY <1>1, <1>3 DEF Added, Owed
  <2> QED  BY <1>1, <2>1, <2>2 DEF CycleOwes
<1>8. CycleCounts'
  <2> SUFFICES ASSUME ~doubtful'[w]
               PROVE  /\ Exact(w)
                      /\ ~pending'.unknown /\ pending'.rows = unhandled[w]
    BY <1>1, <1>3 DEF CycleCounts, Exact, Marker, Owed
  <2>1. ~doubtful[w] /\ pending' = Loaded(marker[w])
    BY DEF StartCycle, IInv, TypeOK
  <2>2. Exact(w)
    BY <1>1, <2>1, WatchAssumption DEF IInv, CountsExact, Exact
  <2>3. /\ marker[w].rows = unhandled[w]
        /\ ~marker[w].unknown /\ ~marker[w].inFlight
    BY <2>2 DEF Exact, Marker, Owed
  <2> QED  BY <1>2, <2>1, <2>2, <2>3, LoadedFacts
<1> QED  BY <1>4, <1>5, <1>6, <1>7, <1>8 DEF IInv

LEMMA StepMark == IInv /\ MarkCycle => IInv'
<1> SUFFICES ASSUME IInv, MarkCycle PROVE IInv'  OBVIOUS
<1>1. TypeOK'
  BY WatchAssumption, FaultsAssumption DEF MarkCycle, Marked, IInv, TypeOK, Marker
<1>2. NothingForgotten'
  BY DEF MarkCycle, Marked, IInv, TypeOK, NothingForgotten, NoMarker, Marker, Owed
<1>3. CountsExact'
  BY DEF MarkCycle, Marked, IInv, TypeOK, CountsExact, Marker, Owed
<1>4. CycleOwes'
  BY DEF MarkCycle, Marked, Added, IInv, TypeOK, CycleOwes, Changed, Marker, Owed
<1>5. CycleCounts'
  BY DEF MarkCycle, Marked, IInv, TypeOK, CycleCounts, Exact, Marker, Owed
<1> QED  BY <1>1, <1>2, <1>3, <1>4, <1>5 DEF IInv

LEMMA StepMarkFails == IInv /\ MarkFails => IInv'
<1> SUFFICES ASSUME IInv, MarkFails PROVE IInv'  OBVIOUS
<1>1. TypeOK'
  BY WatchAssumption, FaultsAssumption DEF MarkFails, Over, Fault, IInv, TypeOK, Owed
<1>2. NothingForgotten'
  BY DEF MarkFails, Over, Fault, IInv, TypeOK, NothingForgotten, NoMarker,
     Marker, Owed
<1>3. CountsExact'
  BY DEF MarkFails, Over, Fault, Added, IInv, TypeOK, CountsExact,
     CycleOwes, CycleCounts, Exact, Changed, Marker, Owed
<1>4. CycleOwes'
  BY DEF MarkFails, Over, Fault, Added, IInv, TypeOK, CycleOwes, Changed,
     Marker, Owed
<1>5. CycleCounts'
  BY DEF MarkFails, Over, Fault, IInv, TypeOK, CycleCounts, Exact, Marker,
     Owed
<1> QED  BY <1>1, <1>2, <1>3, <1>4, <1>5 DEF IInv

LEMMA StepCommit == IInv /\ Commit => IInv'
<1> SUFFICES ASSUME IInv, Commit PROVE IInv'  OBVIOUS
<1>1. TypeOK'
  BY WatchAssumption, FaultsAssumption DEF Commit, IInv, TypeOK
<1>2. NothingForgotten'
  BY DEF Commit, Added, IInv, TypeOK, NothingForgotten, CycleOwes, Changed,
     NoMarker, Marker, Owed
<1>3. CountsExact'
  BY DEF Commit, IInv, TypeOK, CountsExact, Marker, Owed
<1>4. CycleOwes'
  BY DEF Commit, Added, IInv, TypeOK, CycleOwes, Changed, Marker, Owed
<1>5. CycleCounts'
  BY DEF Commit, IInv, TypeOK, CycleCounts, Exact, Marker, Owed
<1> QED  BY <1>1, <1>2, <1>3, <1>4, <1>5 DEF IInv

LEMMA StepSyncEnds == IInv /\ SyncEnds => IInv'
<1> SUFFICES ASSUME IInv, SyncEnds PROVE IInv'  OBVIOUS
<1>1. TypeOK'
  BY WatchAssumption, FaultsAssumption DEF SyncEnds, Fault, NoFault, IInv, TypeOK
<1>2. NothingForgotten'
  BY DEF SyncEnds, Fault, NoFault, IInv, TypeOK, NothingForgotten, NoMarker, Marker,
     Owed
<1>3. CountsExact'
  BY DEF SyncEnds, Fault, NoFault, IInv, TypeOK, CountsExact, Marker, Owed
<1>4. CycleOwes'
  BY DEF SyncEnds, Fault, NoFault, Added, IInv, TypeOK, CycleOwes, Changed, Marker,
     Owed
<1>5. CycleCounts'
  BY DEF SyncEnds, Fault, NoFault, IInv, TypeOK, CycleCounts, Exact, Marker, Owed
<1> QED  BY <1>1, <1>2, <1>3, <1>4, <1>5 DEF IInv

LEMMA StepRecord == IInv /\ Record => IInv'
<1> SUFFICES ASSUME IInv, Record PROVE IInv'  OBVIOUS
<1>1. TypeOK'
  <2>1. Added \in [rows : Nat, unknown : BOOLEAN]
    BY DEF IInv, TypeOK, Added, Owed
  <2>2. who \in Workflows
    BY DEF Record, IInv, TypeOK
  <2>3. marker' \in [Workflows ->
                       [rows : Nat, unknown : BOOLEAN, inFlight : BOOLEAN]]
    BY <2>1, <2>2 DEF Record, Marker, IInv, TypeOK
  <2>4. CASE Runs(Added)
    BY <2>1, <2>2, <2>3, <2>4, WatchAssumption DEF Record, IInv, TypeOK
  <2>5. CASE ~Runs(Added)
    <3>1. Over /\ UNCHANGED <<changes, faults, unhandled, doubtful>>
      BY <2>5 DEF Record
    <3>2. pending' \in [rows : Nat, unknown : BOOLEAN]
      BY <3>1 DEF Over, Owed
    <3> QED  BY <2>3, <3>1, <3>2 DEF Over, IInv, TypeOK
  <2> QED  BY <2>4, <2>5
<1>2. NothingForgotten'
  BY DEF Record, Over, Runs, Added, IInv, TypeOK, NothingForgotten,
     CycleOwes, Changed, NoMarker, Marker, Owed
<1>3. CountsExact'
  BY DEF Record, Over, Runs, Added, IInv, TypeOK, CountsExact, CycleOwes,
     CycleCounts, Exact, Changed, Marker, Owed
<1>4. CycleOwes'
  BY DEF Record, Over, Runs, Added, IInv, TypeOK, CycleOwes, Changed,
     Marker, Owed
<1>5. CycleCounts'
  BY DEF Record, Over, Runs, Added, IInv, TypeOK, CycleCounts, Exact,
     Changed, Marker, Owed
<1> QED  BY <1>1, <1>2, <1>3, <1>4, <1>5 DEF IInv

LEMMA StepRecordFails == IInv /\ RecordingFails => IInv'
<1> SUFFICES ASSUME IInv, RecordingFails PROVE IInv'  OBVIOUS
<1>1. TypeOK'
  BY WatchAssumption, FaultsAssumption DEF RecordingFails, Over, Fault, IInv, TypeOK, Owed
<1>2. NothingForgotten'
  BY DEF RecordingFails, Over, Fault, IInv, TypeOK, NothingForgotten,
     NoMarker, Marker, Owed
<1>3. CountsExact'
  BY DEF RecordingFails, Over, Fault, IInv, TypeOK, CountsExact, Marker, Owed
<1>4. CycleOwes'
  BY DEF RecordingFails, Over, Fault, Added, IInv, TypeOK, CycleOwes,
     Changed, Marker, Owed
<1>5. CycleCounts'
  BY DEF RecordingFails, Over, Fault, IInv, TypeOK, CycleCounts, Exact,
     Marker, Owed
<1> QED  BY <1>1, <1>2, <1>3, <1>4, <1>5 DEF IInv

LEMMA StepSucceed == IInv /\ Succeed => IInv'
<1> SUFFICES ASSUME IInv, Succeed PROVE IInv'  OBVIOUS
<1>1. TypeOK'
  BY WatchAssumption, FaultsAssumption DEF Succeed, IInv, TypeOK
<1>2. NothingForgotten'
  BY DEF Succeed, IInv, TypeOK, NothingForgotten, NoMarker, Marker, Owed
<1>3. CountsExact'
  BY DEF Succeed, IInv, TypeOK, CountsExact, Marker, Owed
<1>4. CycleOwes'
  BY DEF Succeed, Added, IInv, TypeOK, CycleOwes, Changed, Marker, Owed
<1>5. CycleCounts'
  BY DEF Succeed, IInv, TypeOK, CycleCounts, Exact, Marker, Owed
<1> QED  BY <1>1, <1>2, <1>3, <1>4, <1>5 DEF IInv

LEMMA StepFail == IInv /\ Fail => IInv'
<1> SUFFICES ASSUME IInv, Fail PROVE IInv'  OBVIOUS
<1>1. TypeOK'
  BY WatchAssumption, FaultsAssumption DEF Fail, Over, Fault, IInv, TypeOK, Owed
<1>2. NothingForgotten'
  BY DEF Fail, Over, Fault, IInv, TypeOK, NothingForgotten, NoMarker,
     Marker, Owed
<1>3. CountsExact'
  BY DEF Fail, Over, Fault, Added, IInv, TypeOK, CountsExact, CycleOwes,
     CycleCounts, Exact, Changed, Marker, Owed
<1>4. CycleOwes'
  BY DEF Fail, Over, Fault, Added, IInv, TypeOK, CycleOwes, Changed,
     Marker, Owed
<1>5. CycleCounts'
  BY DEF Fail, Over, Fault, IInv, TypeOK, CycleCounts, Exact, Marker, Owed
<1> QED  BY <1>1, <1>2, <1>3, <1>4, <1>5 DEF IInv

LEMMA StepClear == IInv /\ Clear => IInv'
<1> SUFFICES ASSUME IInv, Clear PROVE IInv'  OBVIOUS
<1>1. TypeOK'
  BY WatchAssumption, FaultsAssumption DEF Clear, Over, IInv, TypeOK, NoMarker, Marker, Owed
<1>2. NothingForgotten'
  BY DEF Clear, Over, Added, IInv, TypeOK, NothingForgotten, CycleOwes,
     Changed, NoMarker, Marker, Owed
<1>3. CountsExact'
  BY DEF Clear, Over, Added, IInv, TypeOK, CountsExact, CycleOwes, Changed,
     NoMarker, Marker, Owed
<1>4. CycleOwes'
  BY DEF Clear, Over, Added, IInv, TypeOK, CycleOwes, Changed, NoMarker,
     Marker, Owed
<1>5. CycleCounts'
  BY DEF Clear, Over, IInv, TypeOK, CycleCounts, Exact, NoMarker, Marker,
     Owed
<1> QED  BY <1>1, <1>2, <1>3, <1>4, <1>5 DEF IInv

LEMMA StepClearFails == IInv /\ ClearFails => IInv'
<1> SUFFICES ASSUME IInv, ClearFails PROVE IInv'  OBVIOUS
<1>1. TypeOK'
  BY WatchAssumption, FaultsAssumption DEF ClearFails, Over, Fault, IInv, TypeOK, Owed
<1>2. NothingForgotten'
  BY DEF ClearFails, Over, Fault, IInv, TypeOK, NothingForgotten, NoMarker,
     Marker, Owed
<1>3. CountsExact'
  BY DEF ClearFails, Over, Fault, IInv, TypeOK, CountsExact, Marker, Owed
<1>4. CycleOwes'
  BY DEF ClearFails, Over, Fault, Added, IInv, TypeOK, CycleOwes, Changed,
     Marker, Owed
<1>5. CycleCounts'
  BY DEF ClearFails, Over, Fault, IInv, TypeOK, CycleCounts, Exact,
     Marker, Owed
<1> QED  BY <1>1, <1>2, <1>3, <1>4, <1>5 DEF IInv

LEMMA StepKill == IInv /\ KillWatch => IInv'
<1> SUFFICES ASSUME IInv, KillWatch PROVE IInv'  OBVIOUS
<1>1. TypeOK'
  BY WatchAssumption, FaultsAssumption DEF KillWatch, Over, Fault, IInv, TypeOK, Owed
<1>2. NothingForgotten'
  BY DEF KillWatch, Over, Fault, IInv, TypeOK, NothingForgotten, NoMarker,
     Marker, Owed
<1>3. CountsExact'
  BY DEF KillWatch, Over, Fault, IInv, TypeOK, CountsExact, Marker, Owed
<1>4. CycleOwes'
  BY DEF KillWatch, Over, Fault, Added, IInv, TypeOK, CycleOwes, Changed,
     Marker, Owed
<1>5. CycleCounts'
  BY DEF KillWatch, Over, Fault, IInv, TypeOK, CycleCounts, Exact, Marker, Owed
<1> QED  BY <1>1, <1>2, <1>3, <1>4, <1>5 DEF IInv

LEMMA Inductive == IInv /\ [Next]_vars => IInv'
<1> SUFFICES ASSUME IInv, [Next]_vars PROVE IInv'  OBVIOUS
<1>1. CASE \E w \in Workflows : StartCycle(w)
  BY <1>1, StepStart
<1>2. CASE CycleStep
  BY <1>2, StepMark, StepMarkFails, StepCommit, StepSyncEnds, StepRecord,
     StepRecordFails, StepSucceed, StepFail, StepClear, StepClearFails
     DEF CycleStep
<1>3. CASE KillWatch
  BY <1>3, StepKill
<1>4. CASE UNCHANGED vars
  BY <1>4 DEF vars, cycleVars, IInv, TypeOK, NothingForgotten, CountsExact,
     CycleOwes, CycleCounts, Exact, Added, Changed
<1> QED  BY <1>1, <1>2, <1>3, <1>4 DEF Next

LEMMA Invariance == Spec => []IInv
  BY InitIInv, Inductive, PTL DEF Spec

\* The state of the cycle and of the markers keeps its shape.
THEOREM TypeCorrect == Spec => []TypeOK
<1>1. IInv => TypeOK
  BY DEF IInv
<1> QED  BY <1>1, Invariance, PTL

\* A kill at any moment leaves a marker for every change that no successful run
\* of the workflow has handled, whatever failed before.
THEOREM NothingIsForgotten == Spec => []NothingForgotten
<1>1. IInv => NothingForgotten
  BY DEF IInv
<1> QED  BY <1>1, Invariance, PTL

\* Where no cycle was cut short, the marker counts the rows owed exactly.
THEOREM CountsAreExact == Spec => []CountsExact
<1>1. IInv => CountsExact
  BY DEF IInv
<1> QED  BY <1>1, Invariance, PTL

\* No workflow runs unless a change or a cycle cut short calls for it.
THEOREM NoRunIsIdle == Spec => []NoIdleRun
<1>1. IInv => NoIdleRun
  <2> SUFFICES ASSUME IInv, cycle = "run", ~doubtful[who]
               PROVE  unhandled[who] > 0
    BY DEF NoIdleRun, IInv, TypeOK
  <2>1. ~pending.unknown /\ pending.rows = unhandled[who]
    BY DEF IInv, CycleCounts
  <2>2. Changed(pending)
    BY DEF IInv, CycleOwes
  <2> QED  BY <2>1, <2>2 DEF Changed
<1> QED  BY <1>1, Invariance, PTL

-----------------------------------------------------------------------------
(* The workflow runner. *)

Kind(s) == spec.step[s].kind
Done == succeeded \cup declined
Running == pc \in {"step", "run", "wait"}

\* What the checkpoint calls completed is done, and while all is good so is
\* everything the run has walked past.
Progress ==
    /\ Exists => \A i \in Step : checkpoint.status[i] \in {"ok", "skipped"} => i \in Done
    /\ Running /\ good => \A i \in Step : i < at => i \in Done
    /\ pc # "idle" => Exists
    /\ pc = "finish" => ~good
    /\ outcome = "ok" => ~Exists /\ Done = Step

\* The step under way is the only one in progress, and the only one with a
\* request whose sender still waits.
UnderWay ==
    /\ pc # "wait" => request = NoRequest
    /\ pc = "wait" /\ request # NoRequest => request.of = at /\ request.route = Kind(at)
    /\ pc \in {"run", "wait"} => at \in Step /\ checkpoint.status[at] = "in_progress"
    /\ Running => \A i \in Step : (i > at \/ (i = at /\ pc = "step")) =>
                      checkpoint.status[i] # "in_progress"
    /\ \A s \in inFlight : Kind(s) = "web"

\* The connector's work may be there unseen.
Unsure(s) == ConnectorHides /\ Kind(s) = "connector"

\* What is left by a create that keeps its step from doing it again.
Remembered(s) ==
    \/ Kind(s) = "web" /\ s \in tokens
    \/ Kind(s) = "import" /\ s \in guards
    \/ /\ Kind(s) \in {"connector", "import"}
       /\ Exists => checkpoint.status[s] \in {"in_progress", "ok", "blocked"}

CopiesRemembered ==
    \A s \in Step : ~Unsure(s) => copies[s] = 0 \/ (copies[s] = 1 /\ Remembered(s))

\* The step under way: nothing done before its create is sent, and what was done
\* known from the answer or the guard.
CopiesUnderWay ==
    /\ pc = "run" /\ Kind(at) \in {"connector", "import"} /\ ~Unsure(at) =>
           copies[at] = 0 \/ (Kind(at) = "import" /\ at \in guards)
    /\ pc = "wait" /\ request # NoRequest /\ Kind(at) = "connector" /\ ~Unsure(at) => copies[at] = 0
    /\ pc = "wait" /\ request # NoRequest /\ Kind(at) = "import" =>
           at \in guards /\ (copies[at] = 0 \/ answer \in {"ok", "partial", "conflict"})
    /\ pc = "wait" /\ request = NoRequest /\ Kind(at) \in {"connector", "import"} /\ ~Unsure(at) =>
           copies[at] = 0 \/ answer \in {"ok", "partial"} \/ (Kind(at) = "import" /\ at \in guards)

WInv == WorkflowTypeOK /\ Progress /\ UnderWay /\ CopiesRemembered /\ CopiesUnderWay

-----------------------------------------------------------------------------
Checkpoints == [batch : Batches \cup {NoBatch}, status : [Step -> Statuses]]

LEMMA StepFacts ==
    /\ NumSteps \in Nat /\ NumSteps >= 1 /\ Step = 1..NumSteps /\ 1 \in Step /\ Steps = Step
    /\ \A i \in Step : i \in Nat /\ i >= 1 /\ i <= NumSteps /\ i + 1 \in 1..(NumSteps + 1)
  BY WorkflowAssumption DEF Step

\* A checkpoint with steps is not the absent one.
LEMMA ThereIs == \A c \in Checkpoints : c # NoCheckpoint
<1> SUFFICES ASSUME NEW c \in Checkpoints, c = NoCheckpoint PROVE FALSE
  OBVIOUS
<1>1. c.status \in [Step -> Statuses] /\ c.status = <<>>
  BY DEF Checkpoints, NoCheckpoint
<1>2. DOMAIN c.status = Step /\ DOMAIN c.status = {}
  BY <1>1
<1> QED  BY <1>2, StepFacts

LEMMA CheckpointShape ==
  ASSUME WorkflowTypeOK, Exists
  PROVE  checkpoint \in Checkpoints
  BY DEF WorkflowTypeOK, Exists, Checkpoints

LEMMA SpecShape ==
  ASSUME WorkflowTypeOK
  PROVE  /\ \A i \in Step : spec.step[i] \in StepSpecs /\ Kind(i) \in StepKinds
         /\ spec.continueOnError \in BOOLEAN /\ spec.readsTrigger \in BOOLEAN
<1>1. spec \in SpecShapes
  BY WorkflowAssumption DEF WorkflowTypeOK
<1>2. spec.step \in [Step -> StepSpecs]
  BY <1>1 DEF SpecShapes
<1>3. ASSUME NEW i \in Step PROVE spec.step[i] \in StepSpecs /\ Kind(i) \in StepKinds
  <2>1. spec.step[i] \in StepSpecs
    BY <1>2
  <2> QED  BY <2>1 DEF StepSpecs, Kind
<1> QED  BY <1>1, <1>3 DEF SpecShapes

\* What recording a status does to the checkpoint.
LEMMA Recording ==
  ASSUME NEW st \in Statuses, WorkflowTypeOK, Exists, at \in Step, Recorded(st)
  PROVE  /\ checkpoint' \in Checkpoints /\ Exists'
         /\ \A i \in Step : checkpoint'.status[i] = IF i = at THEN st ELSE checkpoint.status[i]
<1>1. checkpoint \in Checkpoints
  BY CheckpointShape
<1>2. checkpoint' \in Checkpoints
  BY <1>1 DEF Recorded, Checkpoints
<1>3. \A i \in Step : checkpoint'.status[i] = IF i = at THEN st ELSE checkpoint.status[i]
  BY <1>1 DEF Recorded, Checkpoints
<1> QED  BY <1>2, <1>3, ThereIs DEF Exists

\* The state of a walk, and what outlives it.
WalkTypeOK ==
    /\ pc \in {"idle", "step", "run", "wait", "finish"}
    /\ at \in 1..(NumSteps + 1)
    /\ good \in BOOLEAN
    /\ results \in [Step -> Statuses]
    /\ outcome \in {"none", "ok", "failed"}

KeptTypeOK ==
    /\ spec \in Specs
    /\ checkpoint \in {NoCheckpoint} \cup Checkpoints
    /\ succeeded \subseteq Step /\ declined \subseteq Step

LEMMA TypeParts == WorkflowTypeOK <=> WalkTypeOK /\ KeptTypeOK /\ CreateTypeOK
  BY DEF WorkflowTypeOK, WalkTypeOK, KeptTypeOK, Checkpoints

LEMMA TypePartsNext == WalkTypeOK' /\ KeptTypeOK' /\ CreateTypeOK' => WorkflowTypeOK'
  BY DEF WorkflowTypeOK, WalkTypeOK, KeptTypeOK, Checkpoints

LEMMA Unrecorded == [i \in Step |-> "none"] \in [Step -> Statuses]
  BY DEF Statuses

LEMMA EndTypes ==
  ASSUME NEW r \in {"none", "ok", "failed"}, End(r)
  PROVE  WalkTypeOK'
<1>1. at' = 1 /\ 1 \in 1..(NumSteps + 1)
  BY StepFacts DEF End
<1> QED  BY <1>1, Unrecorded DEF End, WalkTypeOK

LEMMA WalkTypes ==
  ASSUME NEW known \in [Step -> Statuses], Walk(known)
  PROVE  WalkTypeOK'
<1>1. at' = 1 /\ 1 \in 1..(NumSteps + 1)
  BY StepFacts DEF Walk
<1> QED  BY <1>1 DEF Walk, WalkTypeOK

LEMMA GoOnTypes ==
  ASSUME NEW r \in Statuses, WalkTypeOK, at \in Step, GoOn(r),
         good' \in BOOLEAN, outcome' = outcome
  PROVE  WalkTypeOK'
<1>1. at' \in 1..(NumSteps + 1)
  BY StepFacts DEF GoOn
<1> QED  BY <1>1 DEF GoOn, WalkTypeOK

LEMMA StopTypes ==
  ASSUME WalkTypeOK, Stop, outcome' = outcome
  PROVE  WalkTypeOK'
  BY DEF Stop, WalkTypeOK

LEMMA CreatesSame ==
  ASSUME CreateTypeOK, UNCHANGED createVars
  PROVE  CreateTypeOK'
  BY DEF CreateTypeOK, createVars

LEMMA NoRequestType == NoRequest \in [of : Steps \cup {NoStep}, route : Routes \cup {"none"}, attempt : 0..MaxRetries]
<1>1. 0 \in 0..MaxRetries
  BY CreateAssumption
<1> QED  BY <1>1 DEF NoRequest

LEMMA NewPayloadsTypes ==
  ASSUME CreateTypeOK, NewPayloads
  PROVE  CreateTypeOK'
  BY NoRequestType DEF CreateTypeOK, NewPayloads, Answers

LEMMA AbandonTypes ==
  ASSUME CreateTypeOK, Abandon, request.route = "web" => request.of \in Steps
  PROVE  CreateTypeOK'
<1>1. inFlight' \subseteq Steps
  <2>1. CASE request.route # "web"
    BY <2>1 DEF CreateTypeOK, Abandon
  <2>2. CASE request.route = "web"
    BY <2>2 DEF CreateTypeOK, Abandon
  <2> QED  BY <2>1, <2>2
<1> QED  BY <1>1, NoRequestType DEF CreateTypeOK, Abandon, Answers

LEMMA WResume ==
  ASSUME WInv, Resume
  PROVE  WInv'
<1> USE StepFacts DEF WInv
<1>1. WorkflowTypeOK'
  <2>1. WalkTypeOK'
    BY TypeParts, WalkTypes, CheckpointShape DEF Resume, Resumable, Checkpoints
  <2>2. KeptTypeOK'
    BY TypeParts DEF Resume, KeptTypeOK
  <2>3. CreateTypeOK'
    BY TypeParts, CreatesSame DEF Resume
  <2> QED  BY <2>1, <2>2, <2>3, TypePartsNext
<1>2. Progress'
  BY SpecShape, ThereIs, CheckpointShape DEF Resume, Resumable, Walk, createVars, WorkflowTypeOK, CreateTypeOK, Progress, Exists, Kind, Done, Running, Remembered, Unsure
<1>3. UnderWay'
  BY SpecShape, ThereIs, CheckpointShape DEF Resume, Resumable, Walk, createVars, WorkflowTypeOK, CreateTypeOK, UnderWay, Progress, Exists, Kind, Done, Running, Remembered, Unsure
<1>4. CopiesRemembered'
  BY SpecShape, ThereIs, CheckpointShape DEF Resume, Resumable, Walk, createVars, WorkflowTypeOK, CreateTypeOK, CopiesRemembered, UnderWay, Progress, CopiesUnderWay, Exists, Kind, Done, Running, Remembered, Unsure
<1>5. CopiesUnderWay'
  BY SpecShape, ThereIs, CheckpointShape DEF Resume, Resumable, Walk, createVars, WorkflowTypeOK, CreateTypeOK, CopiesRemembered, UnderWay, Progress, CopiesUnderWay, Exists, Kind, Done, Running, Remembered, Unsure
<1> QED  BY <1>1, <1>2, <1>3, <1>4, <1>5

LEMMA WDiscard ==
  ASSUME WInv, Discard, pc = "idle"
  PROVE  WInv'
<1> USE StepFacts DEF WInv
<1>1. WorkflowTypeOK'
  <2>1. WalkTypeOK'
    BY TypeParts DEF Discard, WalkTypeOK
  <2>2. KeptTypeOK'
    BY TypeParts DEF Discard, KeptTypeOK
  <2>3. CreateTypeOK'
    BY TypeParts, NewPayloadsTypes DEF Discard
  <2> QED  BY <2>1, <2>2, <2>3, TypePartsNext
<1>2. Progress'
  BY SpecShape, ThereIs, CheckpointShape DEF Discard, NewPayloads, NoRequest, Answers, WorkflowTypeOK, CreateTypeOK, Progress, Exists, Kind, Done, Running, Remembered, Unsure
<1>3. UnderWay'
  BY SpecShape, ThereIs, CheckpointShape DEF Discard, NewPayloads, NoRequest, Answers, WorkflowTypeOK, CreateTypeOK, UnderWay, Progress, Exists, Kind, Done, Running, Remembered, Unsure
<1>4. CopiesRemembered'
  BY SpecShape, ThereIs, CheckpointShape DEF Discard, NewPayloads, NoRequest, Answers, WorkflowTypeOK, CreateTypeOK, CopiesRemembered, UnderWay, Progress, CopiesUnderWay, Exists, Kind, Done, Running, Remembered, Unsure
<1>5. CopiesUnderWay'
  BY SpecShape, ThereIs, CheckpointShape DEF Discard, NewPayloads, NoRequest, Answers, WorkflowTypeOK, CreateTypeOK, CopiesRemembered, UnderWay, Progress, CopiesUnderWay, Exists, Kind, Done, Running, Remembered, Unsure
<1> QED  BY <1>1, <1>2, <1>3, <1>4, <1>5

LEMMA WSkipCompleted ==
  ASSUME WInv, SkipCompleted
  PROVE  WInv'
<1> USE StepFacts DEF WInv
<1>1. WorkflowTypeOK'
  <2>1. WalkTypeOK'
    <3>1. results[at] \in Statuses /\ good' \in BOOLEAN
      BY TypeParts DEF SkipCompleted, AtStep, WalkTypeOK
    <3> QED  BY <3>1, TypeParts, GoOnTypes DEF SkipCompleted, AtStep
  <2>2. KeptTypeOK'
    BY TypeParts DEF SkipCompleted, KeptTypeOK
  <2>3. CreateTypeOK'
    BY TypeParts, CreatesSame DEF SkipCompleted
  <2> QED  BY <2>1, <2>2, <2>3, TypePartsNext
<1>2. Progress'
  BY SpecShape, ThereIs, CheckpointShape DEF SkipCompleted, AtStep, Completed, GoOn, createVars, WorkflowTypeOK, CreateTypeOK, Progress, Exists, Kind, Done, Running, Remembered, Unsure
<1>3. UnderWay'
  BY SpecShape, ThereIs, CheckpointShape DEF SkipCompleted, AtStep, Completed, GoOn, createVars, WorkflowTypeOK, CreateTypeOK, UnderWay, Progress, Exists, Kind, Done, Running, Remembered, Unsure
<1>4. CopiesRemembered'
  BY SpecShape, ThereIs, CheckpointShape DEF SkipCompleted, AtStep, Completed, GoOn, createVars, WorkflowTypeOK, CreateTypeOK, CopiesRemembered, UnderWay, Progress, CopiesUnderWay, Exists, Kind, Done, Running, Remembered, Unsure
<1>5. CopiesUnderWay'
  BY SpecShape, ThereIs, CheckpointShape DEF SkipCompleted, AtStep, Completed, GoOn, createVars, WorkflowTypeOK, CreateTypeOK, CopiesRemembered, UnderWay, Progress, CopiesUnderWay, Exists, Kind, Done, Running, Remembered, Unsure
<1> QED  BY <1>1, <1>2, <1>3, <1>4, <1>5

LEMMA WHaltBlocked ==
  ASSUME WInv, HaltBlocked
  PROVE  WInv'
<1> USE StepFacts DEF WInv
<1>1. WorkflowTypeOK'
  <2>1. WalkTypeOK'
    BY TypeParts, StopTypes DEF HaltBlocked
  <2>2. KeptTypeOK'
    BY TypeParts DEF HaltBlocked, KeptTypeOK
  <2>3. CreateTypeOK'
    BY TypeParts, CreatesSame DEF HaltBlocked
  <2> QED  BY <2>1, <2>2, <2>3, TypePartsNext
<1>2. Progress'
  BY SpecShape, ThereIs, CheckpointShape DEF HaltBlocked, AtStep, Blocked, Stop, createVars, WorkflowTypeOK, CreateTypeOK, Progress, Exists, Kind, Done, Running, Remembered, Unsure
<1>3. UnderWay'
  BY SpecShape, ThereIs, CheckpointShape DEF HaltBlocked, AtStep, Blocked, Stop, createVars, WorkflowTypeOK, CreateTypeOK, UnderWay, Progress, Exists, Kind, Done, Running, Remembered, Unsure
<1>4. CopiesRemembered'
  BY SpecShape, ThereIs, CheckpointShape DEF HaltBlocked, AtStep, Blocked, Stop, createVars, WorkflowTypeOK, CreateTypeOK, CopiesRemembered, UnderWay, Progress, CopiesUnderWay, Exists, Kind, Done, Running, Remembered, Unsure
<1>5. CopiesUnderWay'
  BY SpecShape, ThereIs, CheckpointShape DEF HaltBlocked, AtStep, Blocked, Stop, createVars, WorkflowTypeOK, CreateTypeOK, CopiesRemembered, UnderWay, Progress, CopiesUnderWay, Exists, Kind, Done, Running, Remembered, Unsure
<1> QED  BY <1>1, <1>2, <1>3, <1>4, <1>5

LEMMA WUnprepared ==
  ASSUME WInv, Unprepared
  PROVE  WInv'
<1> USE StepFacts DEF WInv
<1>1. WorkflowTypeOK'
  <2>1. WalkTypeOK'
    BY TypeParts, StopTypes, GoOnTypes DEF Unprepared, Due, AtStep, FailStep, Statuses
  <2>2. KeptTypeOK'
    BY TypeParts DEF Unprepared, KeptTypeOK
  <2>3. CreateTypeOK'
    BY TypeParts, CreatesSame DEF Unprepared
  <2> QED  BY <2>1, <2>2, <2>3, TypePartsNext
<1>2. Progress'
  BY SpecShape, ThereIs, CheckpointShape DEF Unprepared, Due, AtStep, Completed, FailStep, GoOn, Stop, createVars, WorkflowTypeOK, CreateTypeOK, Progress, Exists, Kind, Done, Running, Remembered, Unsure
<1>3. UnderWay'
  BY SpecShape, ThereIs, CheckpointShape DEF Unprepared, Due, AtStep, Completed, FailStep, GoOn, Stop, createVars, WorkflowTypeOK, CreateTypeOK, UnderWay, Progress, Exists, Kind, Done, Running, Remembered, Unsure
<1>4. CopiesRemembered'
  BY SpecShape, ThereIs, CheckpointShape DEF Unprepared, Due, AtStep, Completed, FailStep, GoOn, Stop, createVars, WorkflowTypeOK, CreateTypeOK, CopiesRemembered, UnderWay, Progress, CopiesUnderWay, Exists, Kind, Done, Running, Remembered, Unsure
<1>5. CopiesUnderWay'
  BY SpecShape, ThereIs, CheckpointShape DEF Unprepared, Due, AtStep, Completed, FailStep, GoOn, Stop, createVars, WorkflowTypeOK, CreateTypeOK, CopiesRemembered, UnderWay, Progress, CopiesUnderWay, Exists, Kind, Done, Running, Remembered, Unsure
<1> QED  BY <1>1, <1>2, <1>3, <1>4, <1>5

LEMMA WFinish ==
  ASSUME WInv, Finish
  PROVE  WInv'
<1> USE StepFacts DEF WInv
<1>1. WorkflowTypeOK'
  <2>1. WalkTypeOK'
    BY EndTypes DEF Finish
  <2>2. KeptTypeOK'
    BY TypeParts DEF Finish, KeptTypeOK
  <2>3. CreateTypeOK'
    BY TypeParts, CreatesSame DEF Finish
  <2> QED  BY <2>1, <2>2, <2>3, TypePartsNext
<1>2. Progress'
  <2>1. CASE good
    <3>1. at = NumSteps + 1 /\ pc = "step"
      BY <2>1 DEF Finish, Progress
    <3>2. Step \subseteq Done /\ Done \subseteq Step
      BY <2>1, <3>1 DEF Progress, Running, Done, WorkflowTypeOK
    <3>3. Done' = Done
      BY DEF Finish, Done
    <3>4. CASE checkpoint' = NoCheckpoint /\ End("ok")
      BY <3>2, <3>3, <3>4 DEF End, Progress, Running, Exists
    <3>5. CASE End("failed") /\ UNCHANGED checkpoint
      BY <3>3, <3>5 DEF End, Progress, Running, Exists
    <3> QED  BY <2>1, <3>4, <3>5 DEF Finish
  <2>2. CASE ~good
    BY <2>2 DEF Finish, End, Progress, Running, Exists, Done
  <2> QED  BY <2>1, <2>2
<1>3. UnderWay'
  BY SpecShape, ThereIs, CheckpointShape DEF Finish, End, createVars, WorkflowTypeOK, CreateTypeOK, UnderWay, Progress, Exists, Kind, Done, Running, Remembered, Unsure
<1>4. CopiesRemembered'
  BY SpecShape, ThereIs, CheckpointShape DEF Finish, End, createVars, WorkflowTypeOK, CreateTypeOK, CopiesRemembered, UnderWay, Progress, CopiesUnderWay, Exists, Kind, Done, Running, Remembered, Unsure
<1>5. CopiesUnderWay'
  BY SpecShape, ThereIs, CheckpointShape DEF Finish, End, createVars, WorkflowTypeOK, CreateTypeOK, CopiesRemembered, UnderWay, Progress, CopiesUnderWay, Exists, Kind, Done, Running, Remembered, Unsure
<1> QED  BY <1>1, <1>2, <1>3, <1>4, <1>5

LEMMA WKillRun ==
  ASSUME WInv, KillRun
  PROVE  WInv'
<1> USE StepFacts DEF WInv
<1>1. WorkflowTypeOK'
  <2>1. WalkTypeOK'
    BY EndTypes DEF KillRun
  <2>2. KeptTypeOK'
    BY TypeParts DEF KillRun, KeptTypeOK
  <2>3. CreateTypeOK'
    <3>1. request.route = "web" => request.of \in Steps
      BY DEF UnderWay, NoRequest
    <3> QED  BY <3>1, TypeParts, AbandonTypes DEF KillRun
  <2> QED  BY <2>1, <2>2, <2>3, TypePartsNext
<1>2. Progress'
  BY SpecShape, ThereIs, CheckpointShape DEF KillRun, End, Abandon, NoRequest, Answers, WorkflowTypeOK, CreateTypeOK, Progress, Exists, Kind, Done, Running, Remembered, Unsure
<1>3. UnderWay'
  BY SpecShape, ThereIs, CheckpointShape DEF KillRun, End, Abandon, NoRequest, Answers, WorkflowTypeOK, CreateTypeOK, UnderWay, Progress, Exists, Kind, Done, Running, Remembered, Unsure
<1>4. CopiesRemembered'
  BY SpecShape, ThereIs, CheckpointShape DEF KillRun, End, Abandon, NoRequest, Answers, WorkflowTypeOK, CreateTypeOK, CopiesRemembered, UnderWay, Progress, CopiesUnderWay, Exists, Kind, Done, Running, Remembered, Unsure
<1>5. CopiesUnderWay'
  BY SpecShape, ThereIs, CheckpointShape DEF KillRun, End, Abandon, NoRequest, Answers, WorkflowTypeOK, CreateTypeOK, CopiesRemembered, UnderWay, Progress, CopiesUnderWay, Exists, Kind, Done, Running, Remembered, Unsure
<1> QED  BY <1>1, <1>2, <1>3, <1>4, <1>5

LEMMA WRead ==
  ASSUME WInv, NEW r \in {"ok", "failed"}, Read(r)
  PROVE  WInv'
<1> USE StepFacts DEF WInv
<1>1. WorkflowTypeOK'
  <2>1. WalkTypeOK'
    BY TypeParts DEF Read, WalkTypeOK
  <2>2. KeptTypeOK'
    BY TypeParts DEF Read, KeptTypeOK
  <2>3. CreateTypeOK'
    BY TypeParts, CreatesSame DEF Read
  <2> QED  BY <2>1, <2>2, <2>3, TypePartsNext
<1>2. Progress'
  BY SpecShape, ThereIs, CheckpointShape DEF Read, createVars, WorkflowTypeOK, CreateTypeOK, Progress, Exists, Kind, Done, Running, Remembered, Unsure
<1>3. UnderWay'
  BY SpecShape, ThereIs, CheckpointShape DEF Read, createVars, WorkflowTypeOK, CreateTypeOK, UnderWay, Progress, Exists, Kind, Done, Running, Remembered, Unsure
<1>4. CopiesRemembered'
  BY SpecShape, ThereIs, CheckpointShape DEF Read, createVars, WorkflowTypeOK, CreateTypeOK, CopiesRemembered, UnderWay, Progress, CopiesUnderWay, Exists, Kind, Done, Running, Remembered, Unsure
<1>5. CopiesUnderWay'
  BY SpecShape, ThereIs, CheckpointShape DEF Read, createVars, WorkflowTypeOK, CreateTypeOK, CopiesRemembered, UnderWay, Progress, CopiesUnderWay, Exists, Kind, Done, Running, Remembered, Unsure
<1> QED  BY <1>1, <1>2, <1>3, <1>4, <1>5

LEMMA WStart ==
  ASSUME NEW batch \in Batches, WInv, Start(batch)
  PROVE  WInv'
<1> USE StepFacts DEF WInv
<1> DEFINE new == Fresh(IF spec.readsTrigger THEN batch ELSE NoBatch)
<1>0. pc = "idle" /\ request = NoRequest
  BY DEF Start, UnderWay
<1>1. CASE Exists
  <2>1. End("failed") /\ UNCHANGED <<spec, checkpoint, succeeded, declined, createVars, faults>>
    BY <1>1 DEF Start
  <2>2. WorkflowTypeOK'
    <3>1. WalkTypeOK'
      BY <2>1, EndTypes
    <3>2. KeptTypeOK'
      BY <2>1, TypeParts DEF KeptTypeOK
    <3>3. CreateTypeOK'
      BY <2>1, TypeParts, CreatesSame
    <3> QED  BY <3>1, <3>2, <3>3, TypePartsNext
  <2> QED  BY <1>0, <1>1, <2>1, <2>2 DEF End, createVars, Progress, UnderWay, CopiesRemembered, CopiesUnderWay, Exists, Kind, Done, Running, Remembered, Unsure
<1>2. CASE ~Exists
  <2>1. /\ spec' = spec /\ succeeded' = {} /\ declined' = {} /\ NewPayloads
        /\ \/ checkpoint' = new /\ Walk([i \in Step |-> "none"])
           \/ checkpoint' \in {NoCheckpoint, new} /\ End("failed")
    BY <1>2 DEF Start
  <2>2. new \in Checkpoints /\ \A i \in Step : new.status[i] = "none"
    BY TypeParts, Unrecorded DEF Fresh, Checkpoints
  <2>3. new # NoCheckpoint
    BY <2>2, ThereIs
  <2>4. WorkflowTypeOK'
    <3>1. WalkTypeOK'
      BY <2>1, EndTypes, WalkTypes, Unrecorded
    <3>2. KeptTypeOK'
      BY <2>1, <2>2, TypeParts DEF KeptTypeOK
    <3>3. CreateTypeOK'
      BY <2>1, TypeParts, NewPayloadsTypes
    <3> QED  BY <3>1, <3>2, <3>3, TypePartsNext
  <2>5. checkpoint' = NoCheckpoint \/ \A i \in Step : checkpoint'.status[i] = "none"
    BY <2>1, <2>2
  <2>6. request' = NoRequest /\ inFlight' \subseteq inFlight /\ \A s \in Step : copies'[s] = 0
    BY <2>1 DEF NewPayloads
  <2> HIDE DEF new
  <2>7. \/ pc' = "step" /\ at' = 1 /\ checkpoint' = new /\ outcome' = "none"
        \/ pc' = "idle" /\ outcome' = "failed"
    BY <2>1 DEF Walk, End
  <2>8. Progress'
    BY <2>1, <2>3, <2>5, <2>7 DEF Progress, Exists, Kind, Done, Running, Remembered, Unsure
  <2>9. UnderWay'
    BY <2>1, <2>2, <2>6, <2>7 DEF UnderWay, Exists, Kind, Done, Running, Remembered, Unsure
  <2>10. CopiesRemembered' /\ CopiesUnderWay'
    BY <2>1, <2>6, <2>7 DEF CopiesRemembered, CopiesUnderWay
  <2> QED  BY <2>4, <2>8, <2>9, <2>10
<1> QED  BY <1>1, <1>2

\* What a status that may have been recorded does to the checkpoint.
LEMMA MaybeRecorded ==
  ASSUME NEW st \in Statuses, WorkflowTypeOK, Exists, at \in Step,
         UNCHANGED checkpoint \/ Recorded(st)
  PROVE  /\ checkpoint' \in Checkpoints /\ Exists'
         /\ \A i \in Step : \/ checkpoint'.status[i] = checkpoint.status[i]
                            \/ i = at /\ checkpoint'.status[i] = st
<1>1. CASE UNCHANGED checkpoint
  BY <1>1, CheckpointShape DEF Exists
<1>2. CASE Recorded(st)
  BY <1>2, Recording
<1> QED  BY <1>1, <1>2

\* A run that stops where it is, with what it did remembered.
LEMMA Stopping ==
  ASSUME NEW st \in Statuses, WInv, at \in Step, Exists,
         UNCHANGED checkpoint \/ Recorded(st), Stop, NoFault \/ Fault,
         spec' = spec, outcome' = outcome,
         succeeded \subseteq succeeded', succeeded' \subseteq Step,
         declined \subseteq declined', declined' \subseteq Step,
         st \in {"ok", "skipped"} => at \in Done',
         request' = NoRequest, answer' \in Answers, UNCHANGED <<tokens, inFlight, guards, copies>>,
         copies[at] # 0 /\ Kind(at) \in {"connector", "import"} /\ ~Unsure(at) =>
             st \in {"in_progress", "ok", "blocked"} \/ (Kind(at) = "import" /\ at \in guards)
  PROVE  WInv'
<1> USE StepFacts DEF WInv
<1>1. /\ checkpoint' \in Checkpoints /\ Exists'
      /\ \A i \in Step : \/ checkpoint'.status[i] = checkpoint.status[i]
                         \/ i = at /\ checkpoint'.status[i] = st
  BY MaybeRecorded
<1>2. WorkflowTypeOK'
  <2>1. WalkTypeOK'
    BY TypeParts, StopTypes
  <2>2. KeptTypeOK'
    BY <1>1, TypeParts DEF KeptTypeOK
  <2>3. CreateTypeOK'
    BY TypeParts, NoRequestType DEF CreateTypeOK
  <2> QED  BY <2>1, <2>2, <2>3, TypePartsNext
<1>3. Done \subseteq Done' /\ pc' = "finish" /\ good' = FALSE
  BY DEF Done, Stop
<1>4. \A i \in Step : i \in Done => i \in Done'
  BY <1>3
<1> HIDE DEF WInv
<1>5. Progress'
  <2> SUFFICES ASSUME NEW i \in Step, checkpoint'.status[i] \in {"ok", "skipped"}
               PROVE  i \in Done'
    BY <1>1, <1>3 DEF WInv, Progress, Running, Exists
  <2> QED  BY <1>1, <1>4 DEF WInv, Progress
<1>6. UnderWay'
  BY <1>3 DEF WInv, UnderWay, Running, Kind
<1>7. CopiesRemembered'
  <2> SUFFICES ASSUME NEW s \in Step, ~Unsure(s), copies[s] # 0
               PROVE  copies[s] = 1 /\ Remembered(s)'
    BY DEF CopiesRemembered, Unsure, Kind
  <2>1. copies[s] = 1 /\ Remembered(s)
    BY DEF WInv, CopiesRemembered
  <2>2. CASE s # at
    BY <1>1, <2>1, <2>2 DEF Remembered, Kind
  <2>3. CASE s = at
    BY <1>1, <2>1, <2>3 DEF Remembered, Kind
  <2> QED  BY <2>1, <2>2, <2>3
<1>8. CopiesUnderWay'
  BY <1>3 DEF CopiesUnderWay
<1> QED  BY <1>2, <1>5, <1>6, <1>7, <1>8 DEF WInv

\* A run that goes on to the next step, with the status of this one recorded.
LEMMA GoingOn ==
  ASSUME NEW st \in Statuses, WInv, at \in Step, Exists, Running,
         UNCHANGED checkpoint \/ Recorded(st), st # "in_progress",
         UNCHANGED checkpoint => checkpoint.status[at] # "in_progress",
         NEW r \in Statuses, GoOn(r), good' \in BOOLEAN, good' => good /\ at \in Done',
         spec' = spec, outcome' = outcome,
         succeeded \subseteq succeeded', succeeded' \subseteq Step,
         declined \subseteq declined', declined' \subseteq Step,
         st \in {"ok", "skipped"} /\ ~UNCHANGED checkpoint => at \in Done',
         request' = NoRequest, answer' \in Answers, UNCHANGED <<tokens, inFlight, guards, copies>>,
         copies[at] # 0 /\ Kind(at) \in {"connector", "import"} /\ ~Unsure(at) =>
             st \in {"ok", "blocked"} \/ (Kind(at) = "import" /\ at \in guards) \/ UNCHANGED checkpoint
  PROVE  WInv'
<1> USE StepFacts
<1>0. WorkflowTypeOK
  BY DEF WInv
<1>1. /\ checkpoint' \in Checkpoints /\ Exists'
      /\ \A i \in Step : \/ checkpoint'.status[i] = checkpoint.status[i]
                         \/ i = at /\ checkpoint'.status[i] = st /\ ~UNCHANGED checkpoint
  <2>1. CASE UNCHANGED checkpoint
    BY <1>0, <2>1, CheckpointShape DEF Exists
  <2>2. CASE Recorded(st) /\ ~UNCHANGED checkpoint
    BY <1>0, <2>2, Recording
  <2> QED  BY <2>1, <2>2
<1>2. WorkflowTypeOK'
  <2>1. WalkTypeOK'
    BY <1>0, TypeParts, GoOnTypes
  <2>2. KeptTypeOK'
    BY <1>0, <1>1, TypeParts DEF KeptTypeOK
  <2>3. CreateTypeOK'
    BY <1>0, TypeParts, NoRequestType DEF CreateTypeOK
  <2> QED  BY <2>1, <2>2, <2>3, TypePartsNext
<1>3. Done \subseteq Done' /\ pc' = "step" /\ at' = at + 1
  BY DEF Done, GoOn
<1>4. checkpoint'.status[at] # "in_progress"
  <2>1. CASE UNCHANGED checkpoint
    BY <2>1
  <2>2. CASE Recorded(st)
    BY <1>0, <2>2, Recording
  <2> QED  BY <2>1, <2>2
<1>5. Progress'
  <2>1. ASSUME NEW i \in Step, checkpoint'.status[i] \in {"ok", "skipped"}
        PROVE  i \in Done'
    BY <1>1, <1>3, <2>1 DEF WInv, Progress
  <2>2. ASSUME good', NEW i \in Step, i < at + 1
        PROVE  i \in Done'
    BY <1>3, <2>2 DEF WInv, Progress
  <2>3. outcome # "ok"
    BY DEF WInv, Progress
  <2> QED  BY <1>1, <1>3, <2>1, <2>2, <2>3 DEF Progress
<1>6. UnderWay'
  <2>1. \A i \in Step : i > at => checkpoint'.status[i] # "in_progress"
    BY <1>1 DEF WInv, UnderWay
  <2> QED  BY <1>3, <2>1 DEF WInv, UnderWay, Kind
<1>7. CopiesRemembered'
  <2> SUFFICES ASSUME NEW s \in Step, ~Unsure(s), copies[s] # 0
               PROVE  copies[s] = 1 /\ Remembered(s)'
    BY DEF CopiesRemembered, Unsure, Kind
  <2>1. copies[s] = 1 /\ Remembered(s)
    BY DEF WInv, CopiesRemembered
  <2>2. CASE s # at \/ UNCHANGED checkpoint
    BY <1>1, <2>1, <2>2 DEF Remembered, Kind
  <2>3. CASE s = at /\ Recorded(st)
    BY <1>0, <2>1, <2>3, Recording DEF Remembered, Kind, Unsure
  <2> QED  BY <2>1, <2>2, <2>3
<1>8. CopiesUnderWay'
  BY <1>3 DEF CopiesUnderWay
<1> QED  BY <1>2, <1>5, <1>6, <1>7, <1>8 DEF WInv

\* Before a step is due nothing of it is in progress: what it has done is known.
LEMMA DueFacts ==
  ASSUME WInv, Due
  PROVE  /\ at \in Step /\ Exists /\ Running /\ request = NoRequest /\ answer \in Answers
         /\ succeeded \subseteq Step /\ declined \subseteq Step
         /\ copies[at] # 0 /\ Kind(at) \in {"connector", "import"} /\ ~Unsure(at) =>
                Kind(at) = "import" /\ at \in guards
<1>1. at \in Step /\ pc = "step" /\ ~Completed /\ ~Blocked
  BY DEF Due, AtStep
<1>2. Exists /\ request = NoRequest /\ checkpoint.status[at] # "in_progress"
  BY <1>1, StepFacts DEF WInv, Progress, UnderWay, Running
<1>3. copies[at] # 0 /\ ~Unsure(at) => Remembered(at)
  BY <1>1 DEF WInv, CopiesRemembered
<1> QED  BY <1>1, <1>2, <1>3 DEF WInv, Remembered, Completed, Blocked, Running, WorkflowTypeOK, CreateTypeOK

LEMMA WSkip ==
  ASSUME WInv, Skip
  PROVE  WInv'
<1>1. Due /\ declined' = declined \cup {at} /\ UNCHANGED <<spec, outcome, succeeded, createVars>>
  BY DEF Skip
<1>2. /\ at \in Step /\ Exists /\ Running /\ request' = NoRequest /\ answer' \in Answers
      /\ UNCHANGED <<tokens, inFlight, guards, copies>>
      /\ at \in Done' /\ succeeded' \subseteq Step /\ declined' \subseteq Step
      /\ copies[at] # 0 /\ Kind(at) \in {"connector", "import"} /\ ~Unsure(at) =>
             Kind(at) = "import" /\ at \in guards
  BY <1>1, DueFacts DEF createVars, Done
<1>3. CASE Recorded("skipped") /\ GoOn("skipped") /\ UNCHANGED <<good, faults>>
  <2>1. good' \in BOOLEAN /\ "skipped" \in Statuses
    BY <1>3 DEF WInv, WorkflowTypeOK, Statuses
  <2>2. checkpoint.status[at] # "in_progress"
    BY <1>1, <1>2 DEF WInv, UnderWay, Due, AtStep
  <2> QED  BY <1>1, <1>2, <1>3, <2>1, <2>2, GoingOn
<1>4. CASE RecordFails("skipped")
  BY <1>1, <1>2, <1>4, Stopping DEF RecordFails, Statuses
<1> QED  BY <1>3, <1>4 DEF Skip

LEMMA WMark ==
  ASSUME WInv, Mark
  PROVE  WInv'
<1> USE StepFacts
<1>1. Due /\ UNCHANGED <<spec, outcome, succeeded, declined, createVars>>
  BY DEF Mark
<1>2. /\ at \in Step /\ Exists /\ Running /\ request' = NoRequest /\ answer' \in Answers
      /\ UNCHANGED <<request, answer, tokens, inFlight, guards, copies>>
      /\ succeeded' \subseteq Step /\ declined' \subseteq Step
      /\ copies[at] # 0 /\ Kind(at) \in {"connector", "import"} /\ ~Unsure(at) =>
             Kind(at) = "import" /\ at \in guards
  BY <1>1, DueFacts DEF createVars
<1>3. CASE Recorded("in_progress") /\ pc' = "run" /\ UNCHANGED <<at, good, results, faults>>
  <2>1. /\ checkpoint' \in Checkpoints /\ Exists'
        /\ \A i \in Step : checkpoint'.status[i] = IF i = at THEN "in_progress" ELSE checkpoint.status[i]
    BY <1>2, <1>3, Recording DEF WInv, Statuses
  <2>2. WorkflowTypeOK'
    <3>1. WalkTypeOK'
      BY <1>1, <1>3, TypeParts DEF WInv, WalkTypeOK
    <3>2. KeptTypeOK'
      BY <1>1, <2>1, TypeParts DEF WInv, KeptTypeOK
    <3>3. CreateTypeOK'
      BY <1>1, TypeParts, CreatesSame DEF WInv
    <3> QED  BY <3>1, <3>2, <3>3, TypePartsNext
  <2>3. Progress'
    BY <1>1, <1>2, <1>3, <2>1 DEF WInv, Progress, Running, Done
  <2>4. UnderWay'
    BY <1>1, <1>2, <1>3, <2>1 DEF WInv, UnderWay, Running, Kind
  <2>5. CopiesRemembered'
    <3> SUFFICES ASSUME NEW s \in Step, ~Unsure(s), copies[s] # 0
                 PROVE  copies[s] = 1 /\ Remembered(s)'
      BY <1>1, <1>2 DEF CopiesRemembered, Unsure, Kind
    <3>1. copies[s] = 1 /\ Remembered(s)
      BY DEF WInv, CopiesRemembered
    <3> QED  BY <1>1, <1>2, <2>1, <3>1 DEF Remembered, Kind
  <2>6. CopiesUnderWay'
    BY <1>1, <1>2, <1>3 DEF CopiesUnderWay, Kind, Unsure
  <2> QED  BY <2>2, <2>3, <2>4, <2>5, <2>6 DEF WInv
<1>4. CASE RecordFails("in_progress")
  BY <1>1, <1>2, <1>4, Stopping DEF RecordFails, Statuses
<1> QED  BY <1>3, <1>4 DEF Mark

\* What is known when a step has returned.
LEMMA ReturnedFacts ==
  ASSUME WInv, Returned
  PROVE  /\ at \in Step /\ Exists /\ Running /\ pc = "wait" /\ checkpoint.status[at] = "in_progress"
         /\ answer \in Answers /\ StatusOf \in {"ok", "blocked", "failed"}
         /\ succeeded \subseteq Step /\ declined \subseteq Step
         /\ copies[at] # 0 /\ Kind(at) \in {"connector", "import"} /\ ~Unsure(at) =>
                answer \in {"ok", "partial"} \/ (Kind(at) = "import" /\ at \in guards)
  BY DEF WInv, Returned, UnderWay, Progress, Running, StatusOf, Partly, WorkflowTypeOK, CreateTypeOK,
         CopiesUnderWay

LEMMA WRecordOk ==
  ASSUME WInv, RecordOk
  PROVE  WInv'
<1>1. /\ Returned /\ answer = "ok" /\ StatusOf = "ok" /\ succeeded' = succeeded \cup {at} /\ Consumed
      /\ UNCHANGED <<spec, outcome, declined>>
  BY DEF RecordOk, StatusOf
<1>2. /\ request' = NoRequest /\ answer' \in Answers /\ UNCHANGED <<tokens, inFlight, guards, copies>>
      /\ at \in Done' /\ succeeded' \subseteq Step /\ declined' \subseteq Step
  BY <1>1, ReturnedFacts DEF Consumed, Returned, Answers, Done
<1>3. CASE Recorded(StatusOf) /\ GoOn("ok") /\ UNCHANGED <<good, faults>>
  <2>1. good' \in BOOLEAN /\ "ok" \in Statuses
    BY <1>3 DEF WInv, WorkflowTypeOK, Statuses
  <2>2. \A i \in Step : checkpoint'.status[i] = IF i = at THEN "ok" ELSE checkpoint.status[i]
    BY <1>1, <1>3, <2>1, ReturnedFacts, Recording DEF WInv
  <2>3. ~UNCHANGED checkpoint
    BY <1>1, <2>2, ReturnedFacts
  <2> QED  BY <1>1, <1>2, <1>3, <2>1, <2>3, ReturnedFacts, GoingOn
<1>4. CASE RecordFails(StatusOf)
  BY <1>1, <1>2, <1>4, ReturnedFacts, Stopping DEF RecordFails, Statuses
<1> QED  BY <1>3, <1>4 DEF RecordOk

LEMMA WRecordFailed ==
  ASSUME WInv, RecordFailed
  PROVE  WInv'
<1>1. /\ Returned /\ answer # "ok" /\ Consumed
      /\ UNCHANGED <<spec, outcome, succeeded, declined>>
  BY DEF RecordFailed
<1>2. /\ request' = NoRequest /\ answer' \in Answers /\ UNCHANGED <<tokens, inFlight, guards, copies>>
      /\ succeeded' \subseteq Step /\ declined' \subseteq Step
      /\ StatusOf \in {"blocked", "failed"} /\ StatusOf \in Statuses
      /\ copies[at] # 0 /\ Kind(at) \in {"connector", "import"} /\ ~Unsure(at) =>
             StatusOf = "blocked" \/ (Kind(at) = "import" /\ at \in guards)
  BY <1>1, ReturnedFacts DEF Consumed, Returned, Answers, StatusOf, Partly, Statuses
<1>3. CASE Recorded(StatusOf) /\ NoFault /\ Stop
  BY <1>1, <1>2, <1>3, ReturnedFacts, Stopping
<1>4. CASE RecordFails(StatusOf)
  BY <1>1, <1>2, <1>4, ReturnedFacts, Stopping DEF RecordFails
<1>5. CASE Recorded(StatusOf) /\ NoFault /\ GoOn("failed") /\ good' = FALSE
  <2>1. good' \in BOOLEAN /\ "failed" \in Statuses
    BY <1>5 DEF Statuses
  <2>2. \A i \in Step : checkpoint'.status[i] = IF i = at THEN StatusOf ELSE checkpoint.status[i]
    BY <1>2, <1>1, <1>5, <2>1, ReturnedFacts, Recording DEF WInv
  <2>3. ~UNCHANGED checkpoint
    BY <1>1, <1>2, <2>2, ReturnedFacts
  <2> QED  BY <1>1, <1>2, <1>5, <2>1, <2>3, ReturnedFacts, GoingOn
<1> QED  BY <1>3, <1>4, <1>5 DEF RecordFailed, FailStep

\* The step under way is sent, or does what can be repeated.
LEMMA WRun ==
  ASSUME WInv, Run
  PROVE  WInv'
<1> USE StepFacts
<1>0. /\ pc = "run" /\ pc' = "wait" /\ at \in Step /\ Exists /\ request = NoRequest
      /\ UNCHANGED <<spec, checkpoint, at, good, results, outcome, succeeded, declined, tokens, inFlight, copies>>
      /\ checkpoint.status[at] = "in_progress" /\ guards \subseteq guards'
      /\ This.kind = Kind(at) /\ Kind(at) \in StepKinds
  BY SpecShape DEF Run, Dispatch, RefuseImport, Refused, WInv, UnderWay, Progress, This, Kind
<1>1. \/ request' = NoRequest /\ answer' \in {"ok", "failed"} /\ Kind(at) = "plain" /\ guards' = guards
      \/ request' = NoRequest /\ answer' = "failed" /\ Kind(at) = "import" /\ guards' \subseteq guards \cup {at}
      \/ /\ request' = [of |-> at, route |-> Kind(at), attempt |-> 0] /\ Kind(at) # "plain" /\ answer' = "none"
         /\ guards' = IF Kind(at) = "import" THEN guards \cup {at} ELSE guards
         /\ ~(Kind(at) = "import" /\ at \in guards)
  <2>1. CASE Kind(at) = "plain"
    BY <1>0, <2>1 DEF Run
  <2>2. CASE Kind(at) # "plain" /\ Dispatch(at, This.kind)
    BY <1>0, <2>2 DEF Dispatch, Refused
  <2>3. CASE RefuseImport(at, This.kind)
    BY <1>0, <2>3 DEF RefuseImport
  <2> QED  BY <1>0, <2>1, <2>2, <2>3 DEF Run
<1>2. WorkflowTypeOK'
  <2>1. WalkTypeOK'
    BY <1>0, TypeParts DEF WInv, WalkTypeOK
  <2>2. KeptTypeOK'
    BY <1>0, TypeParts DEF WInv, KeptTypeOK
  <2>3. CreateTypeOK'
    <3>1. CreateTypeOK /\ 0 \in 0..MaxRetries
      BY TypeParts, CreateAssumption DEF WInv
    <3>2. request' \in [of : Steps \cup {NoStep}, route : Routes \cup {"none"}, attempt : 0..MaxRetries]
      BY <1>0, <1>1, <3>1, NoRequestType DEF StepKinds
    <3> QED  BY <1>0, <1>1, <3>1, <3>2 DEF CreateTypeOK, Answers
  <2> QED  BY <2>1, <2>2, <2>3, TypePartsNext
<1>3. Progress'
  BY <1>0 DEF WInv, Progress, Running, Done, Exists
<1>4. UnderWay'
  <2>1. request' # NoRequest => request'.of = at /\ request'.route = Kind(at)
    BY <1>1
  <2> QED  BY <1>0, <2>1 DEF WInv, UnderWay, Running, Kind
<1>5. CopiesRemembered'
  BY <1>0 DEF WInv, CopiesRemembered, Remembered, Unsure, Kind, Exists
<1>6. CopiesUnderWay'
  <2>1. /\ copies'[at] = copies[at] /\ Kind(at)' = Kind(at) /\ Unsure(at)' = Unsure(at)
        /\ pc' = "wait" /\ at' = at
    BY <1>0 DEF Kind, Unsure
  <2>2. Kind(at) \in {"connector", "import"} /\ ~Unsure(at) =>
           copies[at] = 0 \/ (Kind(at) = "import" /\ at \in guards)
    BY <1>0 DEF WInv, CopiesUnderWay
  <2>3. CASE request' = NoRequest /\ answer' \in {"ok", "failed"} /\ Kind(at) = "plain"
    BY <2>1, <2>3 DEF CopiesUnderWay
  <2>4. CASE request' = NoRequest /\ Kind(at) = "import"
    BY <1>0, <2>1, <2>2, <2>4 DEF CopiesUnderWay
  <2>5. CASE /\ request' = [of |-> at, route |-> Kind(at), attempt |-> 0] /\ answer' = "none"
             /\ guards' = IF Kind(at) = "import" THEN guards \cup {at} ELSE guards
             /\ ~(Kind(at) = "import" /\ at \in guards)
    <3>1. request' # NoRequest
      BY <1>0, <2>5, CreateAssumption DEF NoRequest
    <3>2. Kind(at) = "import" => ~Unsure(at) /\ at \in guards'
      BY <2>5 DEF Unsure
    <3> QED  BY <2>1, <2>2, <2>5, <3>1, <3>2 DEF CopiesUnderWay
  <2> QED  BY <1>1, <2>3, <2>4, <2>5
<1> QED  BY <1>2, <1>3, <1>4, <1>5, <1>6 DEF WInv

\* What a write request does, when it is answered, lost or late: each copy puts
\* its token where the server sees it.
WebEffect(s) ==
    /\ Kind(s) = "web" /\ s \in Step
    /\ inFlight' \subseteq inFlight \cup {s}
    /\ tokens \subseteq tokens' /\ tokens' \subseteq tokens \cup {s} /\ guards' = guards
    /\ \/ copies' = copies
       \/ copies' = [copies EXCEPT ![s] = @ + 1] /\ s \notin tokens /\ s \in tokens'

LEMMA ServeEffect ==
  ASSUME NEW s \in Steps, NEW e \in {"ok", "partial", "failed"}, Serve(s, e)
  PROVE  /\ tokens \subseteq tokens' /\ tokens' \subseteq tokens \cup {s}
         /\ \/ copies' = copies
            \/ copies' = [copies EXCEPT ![s] = @ + 1] /\ s \in tokens'
<1>1. CASE e = "failed"
  BY <1>1 DEF Serve, Created
<1>2. CASE e # "failed"
  BY <1>2 DEF Serve, Created
<1> QED  BY <1>1, <1>2

LEMMA WebKeeps ==
  ASSUME WInv, NEW s, WebEffect(s), UNCHANGED <<spec, runVars>>,
         request' = NoRequest \/ (request' # NoRequest /\ pc = "wait" /\ request # NoRequest
                                  /\ request'.of = request.of /\ request'.route = request.route)
                              \/ request' = request,
         s = at \/ UNCHANGED <<request, answer>>,
         request' \in [of : Steps \cup {NoStep}, route : Routes \cup {"none"}, attempt : 0..MaxRetries],
         answer' \in Answers
  PROVE  WInv'
<1> USE StepFacts
<1>1. /\ UNCHANGED <<checkpoint, pc, at, good, results, outcome, succeeded, declined>>
      /\ copies \in [Step -> Nat] /\ tokens \subseteq Step /\ inFlight \subseteq Step /\ guards \subseteq Step
      /\ Kind(s) = "web" /\ s \in Step
  BY DEF runVars, WInv, WorkflowTypeOK, CreateTypeOK, WebEffect
<1>2. /\ copies' \in [Step -> Nat] /\ tokens' \subseteq Step /\ inFlight' \subseteq Step
      /\ \A i \in Step : i # s => copies'[i] = copies[i]
      /\ \/ copies'[s] = copies[s]
         \/ copies'[s] = copies[s] + 1 /\ s \notin tokens /\ s \in tokens'
  <2>1. tokens' \subseteq Step /\ inFlight' \subseteq Step
    BY <1>1 DEF WebEffect
  <2>2. CASE copies' = copies
    BY <1>1, <2>1, <2>2
  <2>3. CASE copies' = [copies EXCEPT ![s] = @ + 1] /\ s \notin tokens /\ s \in tokens'
    <3>1. copies[s] + 1 \in Nat
      BY <1>1
    <3> QED  BY <1>1, <2>1, <2>3, <3>1
  <2> QED  BY <2>2, <2>3 DEF WebEffect
<1>3. WorkflowTypeOK'
  <2>1. WalkTypeOK'
    BY <1>1, TypeParts DEF WInv, WalkTypeOK
  <2>2. KeptTypeOK'
    BY <1>1, TypeParts DEF WInv, KeptTypeOK
  <2>3. CreateTypeOK'
    BY <1>1, <1>2, TypeParts DEF WInv, CreateTypeOK, WebEffect
  <2> QED  BY <2>1, <2>2, <2>3, TypePartsNext
<1>4. Progress'
  BY <1>1 DEF WInv, Progress, Running, Done, Exists
<1>5. UnderWay'
  BY <1>1 DEF WInv, UnderWay, Running, Kind, WebEffect
<1>6. CopiesRemembered'
  <2> SUFFICES ASSUME NEW i \in Step, ~Unsure(i), copies'[i] # 0
               PROVE  copies'[i] = 1 /\ Remembered(i)'
    BY DEF CopiesRemembered, Unsure, Kind
  <2>1. copies[i] = 0 \/ (copies[i] = 1 /\ Remembered(i))
    BY DEF WInv, CopiesRemembered
  <2>2. CASE copies'[i] = copies[i]
    BY <1>1, <2>1, <2>2 DEF Remembered, Kind, Exists, WebEffect
  <2>3. CASE i = s /\ copies'[s] = copies[s] + 1 /\ s \notin tokens /\ s \in tokens'
    BY <1>1, <2>1, <2>3 DEF Remembered, Kind
  <2> QED  BY <1>2, <2>2, <2>3
<1>7. CopiesUnderWay'
  <2>1. CASE s = at
    BY <1>1, <2>1 DEF CopiesUnderWay, Kind
  <2>2. CASE s # at /\ UNCHANGED <<request, answer>>
    <3>1. CASE at \in Step
      BY <1>1, <1>2, <2>2, <3>1 DEF WInv, CopiesUnderWay, Kind, Unsure, WebEffect
    <3>2. CASE at \notin Step
      BY <1>1, <3>2 DEF WInv, UnderWay, CopiesUnderWay
    <3> QED  BY <3>1, <3>2
  <2> QED  BY <2>1, <2>2
<1> QED  BY <1>3, <1>4, <1>5, <1>6, <1>7 DEF WInv

\* The request of the step under way.
LEMMA RequestFacts ==
  ASSUME WInv, Wait
  PROVE  /\ pc = "wait" /\ at \in Step /\ at \in Steps /\ Exists /\ checkpoint.status[at] = "in_progress"
         /\ request # NoRequest => request.of = at /\ request.route = Kind(at)
         /\ request = NoRequest => request.route = "none"
         /\ request \in [of : Steps \cup {NoStep}, route : Routes \cup {"none"}, attempt : 0..MaxRetries]
         /\ answer \in Answers /\ UNCHANGED <<spec, runVars>>
  BY StepFacts DEF WInv, Wait, UnderWay, Progress, WorkflowTypeOK, CreateTypeOK, NoRequest

LEMMA RetryFacts ==
  ASSUME request \in [of : Steps \cup {NoStep}, route : Routes \cup {"none"}, attempt : 0..MaxRetries],
         MayRetry, Retry, request.of \in Steps
  PROVE  /\ request' \in [of : Steps \cup {NoStep}, route : Routes \cup {"none"}, attempt : 0..MaxRetries]
         /\ request' # NoRequest /\ request'.of = request.of /\ request'.route = request.route
         /\ answer' = answer
<1>1. request.attempt + 1 \in 0..MaxRetries
  BY CreateAssumption DEF MayRetry
<1>2. request'.of = request.of /\ request.of # NoStep
  BY CreateAssumption DEF Retry
<1> QED  BY <1>1, <1>2 DEF Retry, NoRequest

LEMMA WWebAnswered ==
  ASSUME WInv, Wait, WebAnswered
  PROVE  WInv'
<1>1. request # NoRequest /\ request.of = at /\ Kind(at) = "web"
  BY RequestFacts DEF WebAnswered
<1>2. WebEffect(at) /\ request' = NoRequest /\ answer' \in Answers
  <2>1. CASE Seen(at)
    BY <1>1, <2>1, RequestFacts DEF WebAnswered, Answer, WebEffect, Answers
  <2>2. CASE ~Seen(at)
    <3>1. PICK e \in Effects : Serve(at, e) /\ Answer(e)
      BY <1>1, <2>2 DEF WebAnswered
    <3> QED  BY <1>1, <2>2, <3>1, RequestFacts, ServeEffect DEF WebAnswered, Answer, WebEffect, Answers, Seen, Effects
  <2> QED  BY <2>1, <2>2
<1> QED  BY <1>1, <1>2, RequestFacts, WebKeeps, NoRequestType

LEMMA WWebLost ==
  ASSUME WInv, Wait, WebLost
  PROVE  WInv'
<1>1. request # NoRequest /\ request.of = at /\ Kind(at) = "web"
  BY RequestFacts DEF WebLost
<1>2. WebEffect(at)
  <2>1. CASE UNCHANGED <<tokens, inFlight, copies>>
    BY <1>1, <2>1, RequestFacts DEF WebLost, WebEffect
  <2>2. CASE ~Seen(at) /\ \E e \in Effects : Serve(at, e) /\ UNCHANGED inFlight
    <3>1. PICK e \in Effects : Serve(at, e) /\ UNCHANGED inFlight
      BY <2>2
    <3> QED  BY <1>1, <2>2, <3>1, RequestFacts, ServeEffect DEF WebLost, WebEffect, Seen, Effects
  <2>3. CASE inFlight' = inFlight \cup {at} /\ UNCHANGED <<tokens, copies>>
    BY <1>1, <2>3, RequestFacts DEF WebLost, WebEffect
  <2> QED  BY <1>1, <2>1, <2>2, <2>3 DEF WebLost
<1>3. CASE MayRetry /\ Retry
  BY <1>1, <1>2, <1>3, RequestFacts, RetryFacts, WebKeeps
<1>4. CASE Answer("conflict")
  BY <1>1, <1>2, <1>4, RequestFacts, WebKeeps, NoRequestType DEF Answer, Answers
<1> QED  BY <1>3, <1>4 DEF WebLost

LEMMA WWebThrottled ==
  ASSUME WInv, Wait, WebThrottled
  PROVE  WInv'
<1>1. request # NoRequest /\ request.of = at /\ Kind(at) = "web"
  BY RequestFacts DEF WebThrottled
<1>2. WebEffect(at)
  BY <1>1, RequestFacts DEF WebThrottled, WebEffect
<1>3. CASE MayRetry /\ Retry
  BY <1>1, <1>2, <1>3, RequestFacts, RetryFacts, WebKeeps
<1>4. CASE Answer("failed")
  BY <1>1, <1>2, <1>4, RequestFacts, WebKeeps, NoRequestType DEF Answer, Answers
<1> QED  BY <1>3, <1>4 DEF WebThrottled

LEMMA WArrive ==
  ASSUME WInv, Arrive
  PROVE  WInv'
<1>1. PICK s \in Steps : Late(s) /\ UNCHANGED <<spec, runVars>>
  BY DEF Arrive
<1>2. s \in Step /\ Kind(s) = "web" /\ UNCHANGED <<request, answer>>
  BY <1>1, StepFacts DEF WInv, UnderWay, Late
<1>3. WebEffect(s)
  <2>1. CASE Seen(s)
    BY <1>1, <1>2, <2>1 DEF Late, WebEffect
  <2>2. CASE ~Seen(s)
    <3>1. PICK e \in Effects : Serve(s, e)
      BY <1>1, <2>2 DEF Late
    <3> QED  BY <1>1, <1>2, <2>2, <3>1, ServeEffect DEF Late, WebEffect, Seen, Effects
  <2> QED  BY <2>1, <2>2
<1> QED  BY <1>1, <1>2, <1>3, WebKeeps DEF WInv, WorkflowTypeOK, CreateTypeOK

\* The routes through the desktop: only the step under way is touched.
LEMMA DesktopKeeps ==
  ASSUME WInv, Wait, UNCHANGED <<tokens, inFlight>>, request # NoRequest, Kind(at) # "web",
         request' = request \/ request' = NoRequest, answer' \in Answers,
         guards' \subseteq guards, guards \subseteq guards' \cup {at},
         copies' = copies \/ (copies' = [copies EXCEPT ![at] = @ + 1] /\ (copies[at] = 0 \/ Unsure(at))),
         CopiesUnderWay'
  PROVE  WInv'
<1> USE StepFacts
<1>1. /\ UNCHANGED <<spec, checkpoint, pc, at, good, results, outcome, succeeded, declined>>
      /\ copies \in [Step -> Nat] /\ tokens \subseteq Step /\ inFlight \subseteq Step /\ guards \subseteq Step
      /\ Kind(at) \in {"connector", "import"}
      /\ pc = "wait" /\ at \in Step /\ Exists /\ checkpoint.status[at] = "in_progress"
  <2>1. Kind(at) \in {"connector", "import"}
    <3>1. Kind(at) = request.route /\ request.route \in Routes \cup {"none"} /\ at \in Step
      BY RequestFacts
    <3>2. Kind(at) \in Routes \cup {"plain"}
      BY <3>1, SpecShape DEF WInv, StepKinds
    <3> QED  BY <3>1, <3>2 DEF Routes
  <2> QED  BY <2>1, RequestFacts DEF runVars, WInv, WorkflowTypeOK, CreateTypeOK
<1>2. WorkflowTypeOK'
  <2>1. WalkTypeOK'
    BY <1>1, TypeParts DEF WInv, WalkTypeOK
  <2>2. KeptTypeOK'
    BY <1>1, TypeParts DEF WInv, KeptTypeOK
  <2>3. CreateTypeOK'
    <3>1. copies' \in [Steps -> Nat]
      <4>1. copies[at] + 1 \in Nat
        BY <1>1
      <4> QED  BY <1>1, <4>1
    <3>2. guards' \subseteq Steps
      BY <1>1
    <3> QED  BY <1>1, <3>1, <3>2, TypeParts, NoRequestType DEF WInv, CreateTypeOK
  <2> QED  BY <2>1, <2>2, <2>3, TypePartsNext
<1>3. Progress'
  BY <1>1 DEF WInv, Progress, Running, Done, Exists
<1>4. UnderWay'
  BY <1>1 DEF WInv, UnderWay, Running, Kind
<1>5. CopiesRemembered'
  <2> SUFFICES ASSUME NEW i \in Step, ~Unsure(i), copies'[i] # 0
               PROVE  copies'[i] = 1 /\ Remembered(i)'
    BY <1>1 DEF CopiesRemembered, Unsure, Kind
  <2>1. copies[i] = 0 \/ (copies[i] = 1 /\ Remembered(i))
    BY DEF WInv, CopiesRemembered
  <2>2. CASE i # at
    BY <1>1, <2>1, <2>2 DEF Remembered, Kind, Exists
  <2>3. CASE i = at
    BY <1>1, <2>1, <2>3 DEF Remembered, Kind
  <2> QED  BY <2>2, <2>3
<1> QED  BY <1>2, <1>3, <1>4, <1>5 DEF WInv

LEMMA WConnectorSaves ==
  ASSUME WInv, Wait, ConnectorSaves
  PROVE  WInv'
<1>1. /\ request # NoRequest /\ request.of = at /\ Kind(at) = "connector"
      /\ pc = "wait" /\ at \in Step /\ UNCHANGED <<spec, pc, at>> /\ copies \in [Step -> Nat]
  BY RequestFacts, StepFacts DEF ConnectorSaves, runVars, WInv, WorkflowTypeOK, CreateTypeOK
<1>2. copies[at] = 0 \/ Unsure(at)
  BY <1>1 DEF WInv, CopiesUnderWay
<1>3. /\ request' = NoRequest /\ answer' \in Answers /\ UNCHANGED <<tokens, inFlight, guards>>
      /\ \/ copies' = copies
         \/ copies' = [copies EXCEPT ![at] = @ + 1] /\ (answer' \in {"ok", "partial"} \/ Unsure(at))
  BY <1>1 DEF ConnectorSaves, Answer, Created, Found, Answers, Unsure
<1>4. CopiesUnderWay'
  BY <1>1, <1>2, <1>3 DEF CopiesUnderWay, Kind, Unsure
<1> QED  BY <1>1, <1>2, <1>3, <1>4, DesktopKeeps

LEMMA WImportSent ==
  ASSUME WInv, Wait, ImportSent
  PROVE  WInv'
<1>1. /\ request # NoRequest /\ request.of = at /\ Kind(at) = "import" /\ answer = "none"
      /\ pc = "wait" /\ at \in Step /\ UNCHANGED <<spec, pc, at>> /\ copies \in [Step -> Nat]
  BY RequestFacts, StepFacts DEF ImportSent, runVars, WInv, WorkflowTypeOK, CreateTypeOK
<1>2. copies[at] = 0 /\ at \in guards
  BY <1>1 DEF WInv, CopiesUnderWay
<1>3. /\ request' = request /\ answer' \in Answers /\ UNCHANGED <<tokens, inFlight, guards>>
      /\ \/ copies' = copies
         \/ copies' = [copies EXCEPT ![at] = @ + 1] /\ answer' \in {"ok", "partial", "conflict"}
  BY <1>1 DEF ImportSent, Created, Answers
<1>4. CopiesUnderWay'
  BY <1>1, <1>2, <1>3 DEF CopiesUnderWay, Kind, Unsure
<1> QED  BY <1>1, <1>2, <1>3, <1>4, DesktopKeeps

LEMMA WImportSettles ==
  ASSUME WInv, Wait, ImportSettles
  PROVE  WInv'
<1>1. /\ request # NoRequest /\ request.of = at /\ Kind(at) = "import" /\ answer # "none"
      /\ pc = "wait" /\ at \in Step /\ UNCHANGED <<spec, pc, at>> /\ answer \in Answers
  BY RequestFacts, StepFacts DEF ImportSettles, runVars
<1>2. at \in guards /\ (copies[at] = 0 \/ answer \in {"ok", "partial", "conflict"})
  BY <1>1 DEF WInv, CopiesUnderWay
<1>3. /\ request' = NoRequest /\ UNCHANGED <<answer, tokens, inFlight, copies>>
      /\ guards' \subseteq guards /\ guards \subseteq guards' \cup {at}
      /\ ~Settled(answer) => guards' = guards
  BY <1>1 DEF ImportSettles
<1>4. CopiesUnderWay'
  BY <1>1, <1>2, <1>3 DEF CopiesUnderWay, Kind, Unsure, Settled
<1> QED  BY <1>1, <1>3, <1>4, DesktopKeeps

LEMMA WWait == WInv /\ Wait => WInv'
  BY WWebAnswered, WWebLost, WWebThrottled, WConnectorSaves, WImportSent, WImportSettles DEF Wait, Respond

LEMMA WorkflowSteady ==
  ASSUME WInv, UNCHANGED <<spec, runVars, createVars>>
  PROVE  WInv'
<1>1. UNCHANGED <<checkpoint, pc, at, good, results, outcome, succeeded, declined,
                  request, answer, tokens, inFlight, guards, copies>>
  BY DEF runVars, createVars
<1>2. WorkflowTypeOK'
  BY <1>1, CreatesSame, TypeParts, TypePartsNext DEF WInv, WalkTypeOK, KeptTypeOK
<1> QED
  BY <1>1, <1>2 DEF WInv, Progress, UnderWay, CopiesRemembered, CopiesUnderWay, Exists, Kind, Done, Running,
                    Remembered, Unsure

LEMMA WorkflowInitial == WorkflowInit => WInv
<1> SUFFICES ASSUME WorkflowInit PROVE WInv
  OBVIOUS
<1> USE StepFacts DEF WorkflowInit, CreateInit
<1>1. WorkflowTypeOK
  <2>1. CreateTypeOK
    BY NoRequestType DEF CreateTypeOK, Answers
  <2> QED  BY <2>1, Unrecorded DEF WorkflowTypeOK
<1>2. Progress /\ UnderWay /\ CopiesRemembered /\ CopiesUnderWay
  BY DEF Progress, UnderWay, CopiesRemembered, CopiesUnderWay, Exists, Running
<1> QED  BY <1>1, <1>2 DEF WInv

LEMMA WorkflowKept == WInv /\ WorkflowStep => WInv'
  BY WSkipCompleted, WHaltBlocked, WSkip, WUnprepared, WMark, WRun, WWait, WRecordOk, WRecordFailed, WFinish
     DEF WorkflowStep

-----------------------------------------------------------------------------
(* The feed. *)

LibraryOK ==
    /\ \A k \in Keys : 1 <= object[k].changed /\ object[k].changed <= version
    /\ \A k, l \in Keys : object[k].changed = object[l].changed => k = l
    /\ since <= cursor /\ cursor <= version
    /\ since = 0 => cursor = 0

\* A window is being read, delivered or recorded; the cursor is where it began.
InWindow == poll \in {"read", "deletions", "deliver", "append", "record", "cursor"}

\* Its events are changes the cursor has not passed.
EventsNew ==
    InWindow => \A i \in DOMAIN work.events :
        /\ cursor < work.events[i].version
        /\ work.events[i].version <= object[work.events[i].key].changed
        /\ cursor = 0 => work.events[i].version <= work.version

\* What has been read is a prefix of what there is, as long as nothing moves.
Reading ==
    /\ InWindow => work.version <= version
    /\ poll = "read" /\ work.events # <<>> /\ version = work.version =>
          /\ Len(work.events) <= Len(Listing)
          /\ \A i \in DOMAIN work.events : work.events[i] = Listing[i]

\* The last event of a key says what the library says of it.
Tells(k) ==
    \E i \in DOMAIN work.events :
        /\ work.events[i] = [key |-> k, version |-> object[k].changed]
        /\ \A j \in DOMAIN work.events : j > i => work.events[j].key # k

InReach(k) == cursor < object[k].changed /\ object[k].changed <= work.version

\* Did the window include deletions?
WithDeletions == serves /\ cursor > 0 /\ ~work.held

WindowWhole ==
    /\ poll = "deletions" => \A k \in Keys : InReach(k) /\ object[k].alive => Tells(k)
    /\ poll \in {"deliver", "append", "record", "cursor"} =>
          \A k \in Keys : InReach(k) /\ (object[k].alive \/ WithDeletions) => Tells(k)

Written(k) == disk.last[k] = object[k].changed /\ file.last[k] = object[k].changed

FileTells ==
    /\ \A k \in Keys : Passed(k) => Written(k)
    /\ poll = "append" => ~file.torn
    /\ poll \in {"record", "cursor"} =>
          \A k \in Keys : InReach(k) /\ (object[k].alive \/ WithDeletions) => Written(k)

\* What is owed is about changes that were made, and a first listing is about
\* none that comes after it.
OwedBounds ==
    /\ \A k \in Keys : owed.last[k] <= object[k].changed /\ accounted[k] <= object[k].changed
    /\ cursor = 0 => owed.baseline \/ Empty(owed)
    /\ cursor > 0 /\ owed.baseline => \A k \in Keys : owed.last[k] <= since
    /\ cursor = 0 /\ (poll \in {"deletions", "deliver", "append", "record", "cursor"}
                      \/ (poll = "read" /\ work.events # <<>>)) =>
          \A k \in Keys : owed.last[k] <= work.version
    /\ poll = "clear" => \A k \in Keys : owed.last[k] <= accounted[k]

OwedTells ==
    /\ OwedOrHandled
    /\ poll = "cursor" /\ cursor > 0 =>
          \A k \in Keys : InReach(k) /\ (object[k].alive \/ WithDeletions) =>
              owed.last[k] = object[k].changed

TInv ==
    /\ TailTypeOK /\ LibraryOK /\ EventsNew /\ Reading /\ WindowWhole
    /\ FileTells /\ OwedBounds /\ OwedTells

-----------------------------------------------------------------------------
(* Sequences of events and what they say of a key. *)

LEMMA TailFacts ==
    /\ IsFiniteSet(Keys) /\ Cardinality(Keys) \in Nat /\ MaxVersion \in Nat /\ Cardinality(Keys) <= MaxVersion
    /\ PageSize \in Nat /\ PageSize >= 1 /\ MaxAttempts \in Nat /\ MaxAttempts >= 1 /\ TriggerLimit \in Nat
    /\ Version = 0..MaxVersion /\ 0 \in Version /\ \A v \in Version : v \in Nat
  BY TailAssumption, FS_CardinalityType DEF Version

Below == {p \in Nat \X Nat : p[1] < p[2]}

LEMMA BelowIsWellFounded == IsWellFoundedOn(Below, Nat)
  BY NatLessThanWellFounded, Zenon DEF OpToRel, Below

\* A nonempty set of positions has a last one.
LEMMA MaxIsLast ==
  ASSUME NEW n \in Nat, NEW S \in SUBSET (1..n), S # {}
  PROVE  Max(S) \in S /\ \A y \in S : Max(S) >= y
<1> DEFINE T == {n - x : x \in S}
<1>1. T \subseteq Nat /\ T # {}
  <2>1. \A x \in S : n - x \in Nat
    OBVIOUS
  <2>2. PICK x \in S : TRUE
    OBVIOUS
  <2>3. n - x \in T
    BY <2>2
  <2> QED  BY <2>1, <2>3
<1>2. PICK t \in T : \A y \in T : ~(<<y, t>> \in Below)
  BY <1>1, BelowIsWellFounded, WFMin
<1>3. PICK m \in S : t = n - m
  OBVIOUS
<1>4. ASSUME NEW y \in S PROVE m >= y
  <2>1. n - y \in T /\ n - y \in Nat /\ t \in Nat
    BY <1>1
  <2>2. ~(n - y < t)
    BY <1>2, <2>1 DEF Below
  <2> QED  BY <1>3, <2>1, <2>2
<1> QED  BY <1>4 DEF Max

LEMMA LatestType ==
  ASSUME NEW last \in PerKey, NEW events \in Seq(Events)
  PROVE  /\ Latest(last, events) \in PerKey
         /\ \A k \in Keys :
               /\ (\A i \in DOMAIN events : events[i].key # k) => Latest(last, events)[k] = last[k]
               /\ \/ Latest(last, events)[k] = last[k]
                  \/ \E i \in DOMAIN events : events[i].key = k /\ Latest(last, events)[k] = events[i].version
               /\ \A i \in DOMAIN events :
                     events[i].key = k /\ (\A j \in DOMAIN events : j > i => events[j].key # k) =>
                         Latest(last, events)[k] = events[i].version
<1> DEFINE mine(k) == {i \in DOMAIN events : events[i].key = k}
           new == Latest(last, events)
<1>1. Len(events) \in Nat /\ DOMAIN events = 1..Len(events) /\ \A i \in DOMAIN events : events[i] \in Events
  OBVIOUS
<1>2. \A k \in Keys : new[k] = IF mine(k) = {} THEN last[k] ELSE events[Max(mine(k))].version
  BY DEF Latest
<1>3. ASSUME NEW k \in Keys, mine(k) # {}
      PROVE  Max(mine(k)) \in mine(k) /\ \A y \in mine(k) : Max(mine(k)) >= y
  <2>1. mine(k) \in SUBSET (1..Len(events))
    BY <1>1
  <2> HIDE DEF mine
  <2> QED  BY <1>1, <1>3, <2>1, MaxIsLast
<1>4. ASSUME NEW k \in Keys
      PROVE  \/ mine(k) = {} /\ new[k] = last[k]
             \/ \E i \in mine(k) : new[k] = events[i].version /\ \A y \in mine(k) : i >= y
  BY <1>2, <1>3
<1>5. new \in PerKey
  <2>1. ASSUME NEW k \in Keys PROVE new[k] \in Version
    <3>1. CASE new[k] = last[k]
      BY <3>1 DEF PerKey
    <3>2. CASE \E i \in mine(k) : new[k] = events[i].version
      BY <1>1, <3>2 DEF Events
    <3> QED  BY <1>4, <3>1, <3>2
  <2>2. new = [k \in Keys |-> new[k]]
    BY DEF Latest
  <2> QED  BY <2>1, <2>2 DEF PerKey
<1> HIDE DEF new
<1>6. ASSUME NEW k \in Keys, NEW i \in DOMAIN events, events[i].key = k,
             \A j \in DOMAIN events : j > i => events[j].key # k
      PROVE  new[k] = events[i].version
  <2>1. i \in mine(k)
    BY <1>6
  <2>2. PICK m \in mine(k) : new[k] = events[m].version /\ \A y \in mine(k) : m >= y
    BY <1>4, <2>1
  <2>3. m = i
    BY <1>1, <1>6, <2>1, <2>2
  <2> QED  BY <2>2, <2>3
<1> QED  BY <1>4, <1>5, <1>6 DEF new

\* The order of an answer has a place for each key and a key for each place.
LEMMA NewestIsWhole ==
  ASSUME NEW keys \in SUBSET Keys, TailTypeOK, LibraryOK
  PROVE  /\ Cardinality(keys) \in Nat
         /\ \A i \in 1..Cardinality(keys) : Newest(keys)[i] \in keys
         /\ \A k \in keys : \E i \in 1..Cardinality(keys) : Newest(keys)[i] = k
         /\ \A i, j \in 1..Cardinality(keys) : Newest(keys)[i] = Newest(keys)[j] => i = j
<1> DEFINE n == Cardinality(keys)
           upto(k) == {l \in keys : object[l].changed >= object[k].changed}
           f == [k \in keys |-> Cardinality(upto(k))]
<1>1. IsFiniteSet(keys) /\ n \in Nat
  BY TailFacts, FS_Subset, FS_CardinalityType
<1>2. \A k \in keys : object[k].changed \in Nat
  BY TailFacts DEF TailTypeOK, Objects
<1>3. ASSUME NEW k \in keys
      PROVE  upto(k) \in SUBSET keys /\ IsFiniteSet(upto(k)) /\ Cardinality(upto(k)) \in 1..n
  <2>1. upto(k) \in SUBSET keys /\ k \in upto(k)
    BY <1>2
  <2> HIDE DEF upto
  <2>2. IsFiniteSet(upto(k)) /\ Cardinality(upto(k)) <= n
    BY <1>1, <2>1, FS_Subset
  <2>3. Cardinality(upto(k)) \in Nat /\ Cardinality(upto(k)) # 0
    BY <2>1, <2>2, FS_CardinalityType, FS_EmptySet
  <2> QED  BY <1>1, <2>1, <2>2, <2>3
<1>4. ASSUME NEW k \in keys, NEW l \in keys, object[k].changed < object[l].changed
      PROVE  f[k] # f[l]
  <2>1. upto(l) \in SUBSET upto(k) /\ k \in upto(k) /\ k \notin upto(l)
    BY <1>2, <1>4
  <2>2. IsFiniteSet(upto(k))
    BY <1>3
  <2> HIDE DEF upto
  <2>3. Cardinality(upto(l)) # Cardinality(upto(k))
    BY <2>1, <2>2, FS_Subset
  <2> QED  BY <2>3
<1>5. ASSUME NEW k \in keys, NEW l \in keys, k # l
      PROVE  f[k] # f[l]
  <2>1. object[k].changed # object[l].changed
    BY <1>5 DEF LibraryOK
  <2> HIDE DEF f
  <2>2. object[k].changed < object[l].changed \/ object[l].changed < object[k].changed
    BY <1>2, <2>1
  <2> QED  BY <1>4, <2>2
<1>6. f \in [keys -> 1..n]
  BY <1>3
<1> HIDE DEF f
<1>7. f \in Injection(keys, 1..n)
  BY <1>5, <1>6 DEF Injection, IsInjective
<1>8. IsFiniteSet(1..n) /\ Cardinality(1..n) = n
  BY <1>1, FS_Interval
<1> HIDE DEF n
<1>9. f \in Surjection(keys, 1..n)
  BY <1>1, <1>7, <1>8, FS_Injection DEF n
<1>10. \A k \in keys : Place(keys, k) = f[k]
  BY DEF Place, f
<1>11. \A i \in 1..n : Newest(keys)[i] = CHOOSE k \in keys : f[k] = i
  BY <1>10 DEF Newest, n
<1>12. \A i \in 1..n : \E k \in keys : f[k] = i
  BY <1>9 DEF Surjection
<1>13. \A i \in 1..n : Newest(keys)[i] \in keys /\ f[Newest(keys)[i]] = i
  BY <1>11, <1>12
<1>14. ASSUME NEW k \in keys PROVE \E i \in 1..n : Newest(keys)[i] = k
  <2>1. f[k] \in 1..n
    BY <1>6
  <2>2. Newest(keys)[f[k]] \in keys /\ f[Newest(keys)[f[k]]] = f[k]
    BY <1>13, <2>1
  <2>3. Newest(keys)[f[k]] = k
    BY <1>5, <2>2
  <2> QED  BY <2>1, <2>3
<1> QED  BY <1>1, <1>13, <1>14 DEF n

\* An answer has every key that changed, with its last change, and no other.
LEMMA ChangesAreWhole ==
  ASSUME NEW alive \in BOOLEAN, TailTypeOK, LibraryOK
  PROVE  /\ Changes(alive) \in Seq(Events)
         /\ \A i \in DOMAIN Changes(alive) :
               /\ Changes(alive)[i].key \in ChangedKeys(alive)
               /\ Changes(alive)[i].version = object[Changes(alive)[i].key].changed
               /\ Changes(alive)[i] = [key |-> Changes(alive)[i].key, version |-> Changes(alive)[i].version]
         /\ \A k \in ChangedKeys(alive) : \E i \in DOMAIN Changes(alive) :
               Changes(alive)[i] = [key |-> k, version |-> object[k].changed]
         /\ \A i, j \in DOMAIN Changes(alive) : Changes(alive)[i].key = Changes(alive)[j].key => i = j
<1> DEFINE keys == ChangedKeys(alive)
           c == Changes(alive)
           n == Cardinality(keys)
<1>1. keys \in SUBSET Keys
  BY DEF ChangedKeys
<1>2. /\ n \in Nat
      /\ \A i \in 1..n : Newest(keys)[i] \in keys
      /\ \A k \in keys : \E i \in 1..n : Newest(keys)[i] = k
      /\ \A i, j \in 1..n : Newest(keys)[i] = Newest(keys)[j] => i = j
  BY <1>1, NewestIsWhole
<1>3. DOMAIN Newest(keys) = 1..n
  BY DEF Newest
<1>4. c = [i \in 1..n |-> [key |-> Newest(keys)[i], version |-> object[Newest(keys)[i]].changed]]
  BY <1>3 DEF Changes
<1>5. \A k \in Keys : object[k].changed \in Version
  BY DEF TailTypeOK, Objects
<1> HIDE DEF keys, c, n
<1>6. \A i \in 1..n : c[i] \in Events
  BY <1>1, <1>2, <1>4, <1>5 DEF Events
<1>7. c \in Seq(Events) /\ DOMAIN c = 1..n
  BY <1>2, <1>4, <1>6
<1> QED  BY <1>2, <1>4, <1>7 DEF c, keys

-----------------------------------------------------------------------------
(* The steps of a poll. *)

LEMMA NoWorkType == NoWork \in Works /\ NoWork.events = <<>> /\ NoWork.version = 0 /\ NoWork.held = FALSE
  BY TailFacts DEF NoWork, Works, Version

LEMMA NothingType == Nothing \in OwedBatches /\ Empty(Nothing) /\ (\A k \in Keys : Nothing.last[k] = 0) /\ ~Nothing.baseline
  BY TailFacts DEF Nothing, OwedBatches, PerKey, Empty

\* Values that are compared are numbers.
LEMMA TailNumbers ==
  ASSUME TailTypeOK
  PROVE  /\ version \in Nat /\ cursor \in Nat /\ since \in Nat /\ work.version \in Nat
         /\ \A k \in Keys : /\ object[k] \in Objects /\ object[k].changed \in Nat /\ object[k].alive \in BOOLEAN
                            /\ owed.last[k] \in Nat /\ accounted[k] \in Nat
                            /\ file.last[k] \in Nat /\ disk.last[k] \in Nat
         /\ work.events \in Seq(Events) /\ Len(work.events) \in Nat /\ DOMAIN work.events = 1..Len(work.events)
         /\ \A i \in DOMAIN work.events : work.events[i] \in Events /\ work.events[i].key \in Keys
                                          /\ work.events[i].version \in Nat
<1>1. /\ version \in Nat /\ cursor \in Nat /\ since \in Nat /\ work.version \in Nat
      /\ \A k \in Keys : object[k] \in Objects
  BY TailFacts DEF TailTypeOK, Works
<1>2. \A k \in Keys : object[k].changed \in Nat /\ object[k].alive \in BOOLEAN
  BY <1>1, TailFacts DEF Objects
<1>3. owed.last \in PerKey /\ accounted \in PerKey /\ file.last \in PerKey /\ disk.last \in PerKey
  BY DEF TailTypeOK, OwedBatches, Files
<1>4. \A k \in Keys : owed.last[k] \in Nat /\ accounted[k] \in Nat /\ file.last[k] \in Nat /\ disk.last[k] \in Nat
  BY <1>3, TailFacts DEF PerKey
<1>5. work.events \in Seq(Events)
  BY DEF TailTypeOK, Works
<1>6. \A e \in Events : e.key \in Keys /\ e.version \in Nat
  BY TailFacts DEF Events
<1> QED  BY <1>1, <1>2, <1>4, <1>5, <1>6

\* A poll that is over, or has moved its cursor, no longer says anything of its
\* window.
LEMMA WindowOver ==
  ASSUME poll' \notin {"read", "deletions", "deliver", "append", "record", "cursor"}
  PROVE  EventsNew' /\ Reading' /\ WindowWhole'
  BY DEF EventsNew, Reading, WindowWhole, InWindow

\* No passed key has an event in the window.
LEMMA PassedIsSilent ==
  ASSUME TInv, InWindow, NEW k \in Keys, object[k].changed <= cursor
  PROVE  \A i \in DOMAIN work.events : work.events[i].key # k
<1> SUFFICES ASSUME NEW i \in DOMAIN work.events, work.events[i].key = k PROVE FALSE
  OBVIOUS
<1>1. cursor < work.events[i].version /\ work.events[i].version <= object[k].changed
  BY DEF TInv, EventsNew
<1> QED  BY <1>1, TailNumbers DEF TInv

LEMMA PollEnds ==
  ASSUME TInv, EndPoll \/ (work' = work /\ poll' \in {"running"}),
         UNCHANGED <<libraryVars, cursor, owed, file, disk, since, accounted>>
  PROVE  TInv'
<1>1. TailTypeOK'
  BY NoWorkType DEF TInv, TailTypeOK, EndPoll, libraryVars
<1>2. EventsNew' /\ Reading' /\ WindowWhole'
  BY WindowOver DEF EndPoll
<1>3. LibraryOK' /\ FileTells' /\ OwedBounds' /\ OwedTells'
  BY DEF TInv, EndPoll, libraryVars, LibraryOK, FileTells, OwedBounds, OwedTells, OwedOrHandled, Passed,
         Written, Empty
<1> QED  BY <1>1, <1>2, <1>3 DEF TInv

LEMMA TBeginPoll == TInv /\ BeginPoll => TInv'
<1> SUFFICES ASSUME TInv, BeginPoll PROVE TInv'
  OBVIOUS
<1>1. TailTypeOK'
  BY NoWorkType DEF TInv, TailTypeOK, BeginPoll, libraryVars
<1>2. EventsNew' /\ Reading' /\ WindowWhole'
  BY NoWorkType, TailNumbers DEF TInv, BeginPoll, libraryVars, EventsNew, Reading, WindowWhole, InWindow
<1>3. LibraryOK' /\ FileTells' /\ OwedBounds' /\ OwedTells'
  BY NoWorkType DEF TInv, BeginPoll, libraryVars, LibraryOK, FileTells, OwedBounds, OwedTells, OwedOrHandled, Passed,
         Written, Empty
<1> QED  BY <1>1, <1>2, <1>3 DEF TInv

LEMMA TLibraryChanges ==
  ASSUME TInv, NEW k \in Keys, LibraryChanges(k)
  PROVE  TInv'
<1>1. /\ version \in Nat /\ version' = version + 1 /\ version' \in Version
      /\ UNCHANGED <<serves, cursor, owed, file, disk, poll, work, since, accounted>>
  BY TailNumbers, TailFacts DEF TInv, LibraryChanges
<1>2. PICK alive \in BOOLEAN : object' = [object EXCEPT ![k] = [changed |-> version + 1, alive |-> alive]]
  BY DEF LibraryChanges
<1>3. /\ object' \in [Keys -> Objects] /\ object'[k].changed = version + 1
      /\ \A l \in Keys : l # k => object'[l] = object[l]
      /\ object'[k].changed > object[k].changed
      /\ \A l \in Keys : object[l].changed <= object'[l].changed
      /\ \A l \in Keys : object'[l].changed <= version => l # k /\ object'[l] = object[l]
  <2>1. [changed |-> version + 1, alive |-> alive] \in Objects
    BY <1>1 DEF Objects
  <2>2. object \in [Keys -> Objects] /\ object[k].changed <= version
    BY DEF TInv, TailTypeOK, LibraryOK
  <2>3. object' \in [Keys -> Objects] /\ object'[k].changed = version + 1 /\ \A l \in Keys : l # k => object'[l] = object[l]
    BY <1>2, <2>1, <2>2
  <2> HIDE DEF LibraryChanges
  <2>4. \A l \in Keys : object[l].changed \in Nat
    BY TailNumbers DEF TInv
  <2> QED  BY <1>1, <2>2, <2>3, <2>4
<1>4. TailTypeOK'
  BY <1>1, <1>3 DEF TInv, TailTypeOK
<1>5. LibraryOK'
  <2>1. \A l \in Keys : object[l].changed \in Nat /\ 1 <= object[l].changed /\ object[l].changed <= version
    BY TailNumbers DEF TInv, LibraryOK
  <2>2. \A l \in Keys : object'[l].changed >= 1 /\ object'[l].changed <= version'
    BY <1>1, <1>3, <2>1
  <2>3. \A l, m \in Keys : object'[l].changed = object'[m].changed => l = m
    BY <1>1, <1>3, <2>1 DEF TInv, LibraryOK
  <2> QED  BY <1>1, <2>2, <2>3, TailNumbers DEF TInv, LibraryOK
<1>6. \A l \in Keys : Passed(l)' => Passed(l) /\ object'[l] = object[l]
  BY <1>1, <1>3, TailNumbers DEF TInv, LibraryOK, Passed
<1>7. InWindow => work.version <= version
  BY DEF TInv, Reading
<1>8. InWindow => \A l \in Keys : InReach(l)' => InReach(l) /\ object'[l] = object[l]
  BY <1>1, <1>3, <1>7, TailNumbers DEF TInv, InReach
<1>9. EventsNew'
  <2>1. ASSUME InWindow, NEW i \in DOMAIN work.events
        PROVE  /\ cursor < work.events[i].version
               /\ work.events[i].version <= object'[work.events[i].key].changed
               /\ cursor = 0 => work.events[i].version <= work.version
    <3>1. /\ cursor < work.events[i].version
          /\ work.events[i].version <= object[work.events[i].key].changed
          /\ cursor = 0 => work.events[i].version <= work.version
      BY <2>1 DEF TInv, EventsNew
    <3>2. /\ work.events[i].key \in Keys /\ work.events[i].version \in Nat
          /\ object[work.events[i].key].changed \in Nat
      BY TailNumbers DEF TInv
    <3>3. /\ object[work.events[i].key].changed <= object'[work.events[i].key].changed
          /\ object'[work.events[i].key] \in Objects
      BY <1>3, <3>2
    <3>4. object'[work.events[i].key].changed \in Nat
      BY <3>3, TailFacts DEF Objects
    <3> QED  BY <3>1, <3>2, <3>3, <3>4
  <2> QED  BY <1>1, <2>1 DEF EventsNew, InWindow
<1>10. Reading'
  BY <1>1, <1>7, TailNumbers DEF TInv, Reading, InWindow
<1>11. WindowWhole'
  <2>1. ASSUME InWindow, NEW l \in Keys, InReach(l)', Tells(l)
        PROVE  Tells(l)'
    BY <1>1, <1>8, <2>1 DEF Tells
  <2> QED  BY <1>1, <1>8, <2>1 DEF TInv, WindowWhole, InWindow, WithDeletions
<1>12. FileTells'
  BY <1>1, <1>6, <1>8 DEF TInv, FileTells, InWindow, WithDeletions, Written
<1>13. OwedBounds'
  BY <1>1, <1>3, TailNumbers DEF TInv, OwedBounds, Empty
<1>14. OwedTells'
  BY <1>1, <1>6, <1>8 DEF TInv, OwedTells, OwedOrHandled, InWindow, WithDeletions
<1> QED  BY <1>4, <1>5, <1>9, <1>10, <1>11, <1>12, <1>13, <1>14 DEF TInv

LEMMA AnswerType ==
  ASSUME TInv, NEW alive \in BOOLEAN
  PROVE  /\ Changes(alive) \in Seq(Events) /\ Len(Changes(alive)) \in Nat
         /\ DOMAIN Changes(alive) = 1..Len(Changes(alive))
         /\ \A i \in 1..Len(Changes(alive)) : Changes(alive)[i] \in Events
<1>1. Changes(alive) \in Seq(Events)
  BY ChangesAreWhole DEF TInv
<1> DEFINE c == Changes(alive)
<1> HIDE DEF c
<1>2. c \in Seq(Events) => Len(c) \in Nat /\ DOMAIN c = 1..Len(c) /\ \A i \in 1..Len(c) : c[i] \in Events
  OBVIOUS
<1> QED  BY <1>1, <1>2 DEF c

LEMMA MinOfTwo ==
  ASSUME NEW a \in Nat, NEW b \in Nat
  PROVE  Min({a, b}) = IF a <= b THEN a ELSE b
<1> DEFINE m == IF a <= b THEN a ELSE b
<1>1. m \in {a, b} /\ \A y \in {a, b} : m <= y
  OBVIOUS
<1>2. \A x \in {a, b} : (\A y \in {a, b} : x <= y) => x = m
  OBVIOUS
<1> QED  BY <1>1, <1>2 DEF Min

\* A page takes the window from one prefix of the listing to the next.
LEMMA PageGrows ==
  ASSUME TInv, ReadPage
  PROVE  /\ work'.events \in Seq(Events) /\ Len(work'.events) <= Len(Listing)
         /\ \A i \in DOMAIN work'.events : work'.events[i] = Listing[i]
         /\ work'.version = version /\ work'.held = work.held /\ work'.attempt = work.attempt
         /\ poll' = "deletions" => Len(work'.events) = Len(Listing)
         /\ poll' \in {"read", "deletions"}
<1> DEFINE n == Len(work.events)
           m == Min({n + PageSize, Len(Listing)})
<1>1. /\ Listing \in Seq(Events) /\ Len(Listing) \in Nat /\ DOMAIN Listing = 1..Len(Listing)
      /\ \A i \in 1..Len(Listing) : Listing[i] \in Events
  <2>1. TRUE \in BOOLEAN
    OBVIOUS
  <2> QED  BY <2>1, AnswerType DEF Listing
<1>2. n \in Nat /\ n <= Len(Listing) /\ \A i \in 1..n : work.events[i] = Listing[i]
  <2>1. CASE work.events = <<>>
    BY <1>1, <2>1
  <2>2. CASE work.events # <<>>
    BY <2>2, TailNumbers DEF ReadPage, Moved, TInv, Reading
  <2> QED  BY <2>1, <2>2
<1>3. m \in Nat /\ n <= m /\ m <= Len(Listing) /\ (m < n + PageSize => m = Len(Listing))
  BY <1>1, <1>2, TailFacts, MinOfTwo
<1> HIDE DEF m
<1>4. Page = SubSeq(Listing, n + 1, m)
  BY DEF Page, m
<1>5. /\ Page \in Seq(Events) /\ Len(Page) = m - n
      /\ \A i \in 1..(m - n) : Page[i] = Listing[n + i]
  <2> DEFINE L == Len(Listing)
  <2>0. n \in Nat /\ m \in Nat /\ L \in Nat /\ m <= L
    BY <1>1, <1>2, <1>3
  <2> HIDE DEF n, L
  <2>1. ASSUME NEW i \in (n + 1)..m PROVE Listing[i] \in Events
    <3>1. i \in 1..L
      BY <2>0
    <3> QED  BY <1>1, <3>1 DEF L
  <2>2. n + 1 \in Int /\ m \in Int
    BY <2>0
  <2>3. /\ Page \in Seq(Events) /\ Len(Page) = IF n + 1 <= m THEN m - (n + 1) + 1 ELSE 0
        /\ \A i \in 1..(m - (n + 1) + 1) : Page[i] = Listing[(n + 1) + i - 1]
    BY <1>4, <2>1, <2>2, SubSeqProperties
  <2>4. Len(Page) = m - n
    BY <1>2, <1>3, <2>3
  <2>5. ASSUME NEW i \in 1..(m - n) PROVE Page[i] = Listing[n + i]
    <3>1. i \in 1..(m - (n + 1) + 1) /\ (n + 1) + i - 1 = n + i
      BY <1>2, <1>3
    <3> QED  BY <2>3, <3>1
  <2> QED  BY <2>3, <2>4, <2>5
<1>6. work' = [work EXCEPT !.events = work.events \o Page, !.version = IF work.events = <<>> THEN version ELSE work.version]
  BY DEF ReadPage
<1>7. /\ work'.events = work.events \o Page /\ work'.held = work.held /\ work'.attempt = work.attempt
      /\ work'.version = IF work.events = <<>> THEN version ELSE work.version
  BY <1>6 DEF TInv, TailTypeOK, Works
<1>8. work'.version = version
  BY <1>7 DEF ReadPage, Moved
<1>9. /\ work'.events \in Seq(Events) /\ Len(work'.events) = m
      /\ \A i \in 1..m : work'.events[i] = Listing[i]
  <2>1. work.events \in Seq(Events)
    BY TailNumbers DEF TInv
  <2>2. /\ work'.events \in Seq(Events) /\ Len(work'.events) = n + Len(Page)
        /\ \A i \in 1..(n + Len(Page)) : work'.events[i] = IF i <= n THEN work.events[i] ELSE Page[i - n]
    <3> DEFINE whole == work.events \o Page
    <3>1. /\ whole \in Seq(Events) /\ Len(whole) = n + Len(Page)
          /\ \A i \in 1..(n + Len(Page)) : whole[i] = IF i <= n THEN work.events[i] ELSE Page[i - n]
      BY <1>5, <2>1, ConcatProperties
    <3>2. work'.events = whole
      BY <1>7
    <3> HIDE DEF whole
    <3> QED  BY <3>1, <3>2
  <2>3. n + Len(Page) = m
    BY <1>2, <1>3, <1>5
  <2>4. ASSUME NEW i \in 1..m PROVE work'.events[i] = Listing[i]
    <3>1. CASE i <= n
      BY <1>2, <2>2, <2>3, <3>1
    <3>2. CASE ~(i <= n)
      <4>1. i - n \in 1..(m - n) /\ n + (i - n) = i
        BY <1>2, <1>3, <3>2
      <4> QED  BY <1>5, <2>2, <2>3, <3>2, <4>1
    <3> QED  BY <3>1, <3>2
  <2> QED  BY <2>2, <2>3, <2>4
<1>10. DOMAIN work'.events = 1..m
  BY <1>9
<1>11. poll' \in {"read", "deletions"} /\ (poll' = "deletions" => Len(Page) < PageSize)
  BY DEF ReadPage
<1>12. Len(Page) < PageSize => m = Len(Listing)
  BY <1>2, <1>3, <1>5, TailFacts
<1> QED  BY <1>3, <1>7, <1>8, <1>9, <1>10, <1>11, <1>12

\* What an answer of the library holds is new, and is the last word on its keys.
LEMMA AnswersAreNew ==
  ASSUME TInv, NEW alive \in BOOLEAN, NEW i \in DOMAIN Changes(alive)
  PROVE  /\ cursor < Changes(alive)[i].version
         /\ Changes(alive)[i].version = object[Changes(alive)[i].key].changed
         /\ Changes(alive)[i].version <= version
         /\ Changes(alive)[i].key \in Keys /\ object[Changes(alive)[i].key].alive = alive
<1>1. /\ Changes(alive)[i].key \in ChangedKeys(alive)
      /\ Changes(alive)[i].version = object[Changes(alive)[i].key].changed
  BY ChangesAreWhole DEF TInv
<1> QED  BY <1>1, TailNumbers DEF ChangedKeys, TInv, LibraryOK

LEMMA TReadPage == TInv /\ ReadPage => TInv'
<1> SUFFICES ASSUME TInv, ReadPage PROVE TInv'
  OBVIOUS
<1>0. UNCHANGED <<serves, version, object, cursor, owed, file, disk, since, accounted>> /\ poll = "read"
  BY DEF ReadPage, libraryVars
<1>1. Listing \in Seq(Events) /\ Len(Listing) \in Nat /\ DOMAIN Listing = 1..Len(Listing) /\ Listing' = Listing
  <2>1. Listing' = Listing
    BY <1>0 DEF Listing, Changes, ChangedKeys, Newest, Place
  <2>2. TRUE \in BOOLEAN
    OBVIOUS
  <2> QED  BY <2>1, <2>2, AnswerType DEF Listing
<1>2. /\ Len(work'.events) \in Nat /\ DOMAIN work'.events = 1..Len(work'.events)
      /\ DOMAIN work'.events \subseteq DOMAIN Listing
      /\ \A i \in DOMAIN work'.events : work'.events[i] = Listing[i]
  BY <1>1, PageGrows
<1>3. work' \in Works
  <2>1. work' = [events |-> work'.events, version |-> work'.version, attempt |-> work'.attempt, held |-> work'.held]
    BY DEF ReadPage, TInv, TailTypeOK, Works
  <2>2. work.attempt \in 1..MaxAttempts /\ work.held \in BOOLEAN /\ version \in Version
    BY DEF TInv, TailTypeOK, Works
  <2> QED  BY <2>1, <2>2, PageGrows DEF Works
<1>4. TailTypeOK'
  BY <1>0, <1>3, PageGrows DEF TInv, TailTypeOK
<1>5. LibraryOK'
  BY <1>0 DEF TInv, LibraryOK
<1>6. EventsNew'
  <2>1. ASSUME NEW i \in DOMAIN work'.events
        PROVE  /\ cursor < work'.events[i].version
               /\ work'.events[i].version <= object[work'.events[i].key].changed
               /\ work'.events[i].version <= work'.version
    <3>1. i \in DOMAIN Listing /\ work'.events[i] = Listing[i]
      BY <1>2
    <3>2. /\ cursor < Listing[i].version /\ Listing[i].version <= version
          /\ Listing[i].version = object[Listing[i].key].changed /\ Listing[i].key \in Keys
      BY <3>1, AnswersAreNew DEF Listing
    <3>3. object[Listing[i].key].changed \in Nat
      BY <3>2, TailNumbers DEF TInv
    <3> QED  BY <3>1, <3>2, <3>3, PageGrows
  <2> QED  BY <1>0, <2>1 DEF EventsNew
<1>7. Reading'
  BY <1>0, <1>1, <1>2, PageGrows, TailNumbers DEF Reading, TInv
<1>8. WindowWhole'
  <2> SUFFICES ASSUME poll' = "deletions", NEW k \in Keys, InReach(k)', object[k].alive
               PROVE  Tells(k)'
    BY <1>0, PageGrows DEF WindowWhole
  <2>1. k \in ChangedKeys(TRUE)
    BY <1>0 DEF ChangedKeys, InReach
  <2>2. PICK i \in DOMAIN Listing : Listing[i] = [key |-> k, version |-> object[k].changed]
    BY <2>1, ChangesAreWhole DEF TInv, Listing
  <2>3. \A j \in DOMAIN Listing : j > i => Listing[j].key # k
    <3>1. ASSUME NEW j \in DOMAIN Listing, Listing[j].key = Listing[i].key PROVE j = i
      BY <3>1, ChangesAreWhole DEF TInv, Listing
    <3> QED  BY <1>1, <2>2, <3>1
  <2>4. DOMAIN work'.events = DOMAIN Listing
    BY <1>1, <1>2, PageGrows
  <2> QED  BY <1>0, <1>2, <2>2, <2>3, <2>4 DEF Tells
<1>9. FileTells' /\ OwedTells'
  BY <1>0, PageGrows DEF TInv, FileTells, OwedTells, OwedOrHandled, Passed, Written
<1>10. OwedBounds'
  <2>1. \A k \in Keys : owed.last[k] <= version
    BY TailNumbers DEF TInv, OwedBounds, LibraryOK
  <2> QED  BY <1>0, <2>1, PageGrows DEF TInv, OwedBounds, Empty
<1> QED  BY <1>4, <1>5, <1>6, <1>7, <1>8, <1>9, <1>10 DEF TInv

LEMMA TRestartWindow == TInv /\ RestartWindow => TInv'
<1> SUFFICES ASSUME TInv, RestartWindow PROVE TInv'
  OBVIOUS
<1>0. /\ UNCHANGED <<libraryVars, cursor, owed, file, disk, since, accounted>> /\ poll = "read"
      /\ UNCHANGED <<serves, version, object>>
  BY DEF RestartWindow, libraryVars
<1>1. CASE ~(work.attempt < MaxAttempts)
  BY <1>0, <1>1, PollEnds DEF RestartWindow
<1>2. CASE work.attempt < MaxAttempts
  <2>1. work' = [NoWork EXCEPT !.attempt = work.attempt + 1] /\ poll' = "read"
    BY <1>0, <1>2 DEF RestartWindow
  <2>2. work.attempt + 1 \in 1..MaxAttempts
    BY <1>2, TailFacts DEF TInv, TailTypeOK, Works
  <2>3. work' \in Works /\ work'.events = <<>> /\ work'.version = 0
    BY <2>1, <2>2, NoWorkType DEF Works, NoWork
  <2>4. TailTypeOK'
    BY <1>0, <2>1, <2>3 DEF TInv, TailTypeOK
  <2>5. EventsNew' /\ Reading' /\ WindowWhole'
    BY <1>0, <2>1, <2>3, TailNumbers DEF TInv, EventsNew, Reading, WindowWhole, InWindow
  <2>6. LibraryOK' /\ FileTells' /\ OwedBounds' /\ OwedTells'
    BY <1>0, <2>1, <2>3 DEF TInv, LibraryOK, FileTells, OwedBounds, OwedTells, OwedOrHandled, Passed,
         Written, Empty
  <2> QED  BY <2>4, <2>5, <2>6 DEF TInv
<1> QED  BY <1>1, <1>2

\* The events stay when the deletions are left out, or not to be had.
LEMMA DeletionsLeftOut ==
  ASSUME TInv, poll = "deletions", poll' = "deliver",
         work' \in Works, work'.events = work.events, work'.version = work.version, ~WithDeletions',
         UNCHANGED <<serves, version, object, cursor, owed, file, disk, since, accounted>>
  PROVE  TInv'
<1>1. TailTypeOK' /\ LibraryOK'
  BY DEF TInv, TailTypeOK, LibraryOK
<1>2. EventsNew' /\ Reading'
  BY DEF TInv, EventsNew, Reading, InWindow
<1>3. WindowWhole'
  BY DEF TInv, WindowWhole, InReach, Tells
<1>4. FileTells' /\ OwedTells'
  BY DEF TInv, FileTells, OwedTells, OwedOrHandled, Passed, Written
<1>5. OwedBounds'
  BY DEF TInv, OwedBounds, Empty
<1> QED  BY <1>1, <1>2, <1>3, <1>4, <1>5 DEF TInv

LEMMA TReadDeletions == TInv /\ ReadDeletions => TInv'
<1> SUFFICES ASSUME TInv, ReadDeletions PROVE TInv'
  OBVIOUS
<1>0. UNCHANGED <<serves, version, object, cursor, owed, file, disk, since, accounted>>
      /\ poll = "deletions" /\ poll' = "deliver"
  BY DEF ReadDeletions, libraryVars
<1>1. work \in Works /\ work.events \in Seq(Events) /\ Len(work.events) \in Nat
      /\ work = [events |-> work.events, version |-> work.version, attempt |-> work.attempt, held |-> work.held]
  BY TailNumbers DEF TInv, TailTypeOK, Works
<1>2. CASE work' = [work EXCEPT !.held = TRUE]
  <2>1. work' \in Works /\ work'.events = work.events /\ work'.version = work.version /\ work'.held
    BY <1>1, <1>2 DEF Works
  <2> QED  BY <1>0, <2>1, DeletionsLeftOut DEF WithDeletions
<1>3. CASE ~(cursor > 0 /\ serves) /\ work' = [work EXCEPT !.events = work.events \o <<>>]
  <2>1. work.events \o <<>> = work.events
    BY <1>1
  <2>2. work' \in Works /\ work'.events = work.events /\ work'.version = work.version
    BY <1>1, <1>3, <2>1
  <2> QED  BY <1>0, <1>3, <2>2, DeletionsLeftOut DEF WithDeletions
<1>4. CASE cursor > 0 /\ serves /\ work' = [work EXCEPT !.events = work.events \o Deletions]
  <2> DEFINE n == Len(work.events)
             whole == work.events \o Deletions
  <2>1. FALSE \in BOOLEAN
    OBVIOUS
  <2>2. /\ Deletions \in Seq(Events) /\ Len(Deletions) \in Nat /\ DOMAIN Deletions = 1..Len(Deletions)
        /\ \A i \in DOMAIN Deletions :
              /\ cursor < Deletions[i].version
              /\ Deletions[i].version = object[Deletions[i].key].changed
              /\ Deletions[i].key \in Keys /\ ~object[Deletions[i].key].alive
        /\ \A k \in ChangedKeys(FALSE) : \E i \in DOMAIN Deletions :
              Deletions[i] = [key |-> k, version |-> object[k].changed]
        /\ \A i, j \in DOMAIN Deletions : Deletions[i].key = Deletions[j].key => i = j
    BY <2>1, AnswerType, AnswersAreNew, ChangesAreWhole DEF Deletions, TInv
  <2>3. /\ whole \in Seq(Events) /\ Len(whole) = n + Len(Deletions)
        /\ \A i \in 1..(n + Len(Deletions)) : whole[i] = IF i <= n THEN work.events[i] ELSE Deletions[i - n]
    BY <1>1, <2>2, ConcatProperties
  <2>4. work' \in Works /\ work'.events = whole /\ work'.version = work.version /\ work'.held = work.held
    BY <1>1, <1>4, <2>3 DEF Works
  <2> HIDE DEF whole
  <2>5. /\ n \in Nat /\ DOMAIN work'.events = 1..(n + Len(Deletions)) /\ DOMAIN work.events = 1..n
        /\ \A i \in 1..n : work'.events[i] = work.events[i]
        /\ \A i \in DOMAIN Deletions : n + i \in DOMAIN work'.events /\ work'.events[n + i] = Deletions[i]
        /\ \A i \in DOMAIN work'.events : i \in 1..n \/ (i - n \in DOMAIN Deletions /\ i = n + (i - n))
    <3>1. n \in Nat /\ DOMAIN work'.events = 1..(n + Len(Deletions)) /\ DOMAIN work.events = 1..n
      BY <1>1, <2>2, <2>3, <2>4
    <3>2. ASSUME NEW i \in 1..n PROVE work'.events[i] = work.events[i]
      <4>1. i \in 1..(n + Len(Deletions)) /\ i <= n
        BY <2>2, <3>1
      <4> QED  BY <2>3, <2>4, <4>1
    <3>3. ASSUME NEW i \in DOMAIN Deletions
          PROVE  n + i \in DOMAIN work'.events /\ work'.events[n + i] = Deletions[i]
      <4> HIDE DEF n
      <4>1. n + i \in 1..(n + Len(Deletions)) /\ ~(n + i <= n) /\ (n + i) - n = i
        BY <2>2, <3>1
      <4> QED  BY <2>3, <2>4, <3>1, <4>1
    <3>4. ASSUME NEW i \in DOMAIN work'.events
          PROVE  i \in 1..n \/ (i - n \in DOMAIN Deletions /\ i = n + (i - n))
      <4> HIDE DEF n
      <4> QED  BY <2>2, <3>1
    <3> QED  BY <3>1, <3>2, <3>3, <3>4
  <2> HIDE DEF n
  <2>6. TailTypeOK' /\ LibraryOK' /\ Reading'
    BY <1>0, <2>4 DEF TInv, TailTypeOK, LibraryOK, Reading, InWindow
  <2>7. EventsNew'
    <3>1. ASSUME NEW i \in DOMAIN work'.events
          PROVE  cursor < work'.events[i].version /\ work'.events[i].version <= object[work'.events[i].key].changed
      <4>1. CASE i \in 1..n
        BY <1>0, <2>5, <4>1 DEF TInv, EventsNew, InWindow
      <4>2. CASE i - n \in DOMAIN Deletions /\ i = n + (i - n)
        <5>1. work'.events[i] = Deletions[i - n]
          BY <2>5, <4>2
        <5>2. object[Deletions[i - n].key].changed \in Nat
          BY <2>2, <4>2, TailNumbers DEF TInv
        <5> QED  BY <2>2, <4>2, <5>1, <5>2
      <4> QED  BY <2>5, <4>1, <4>2
    <3> QED  BY <1>0, <1>4, <3>1, TailNumbers DEF EventsNew, TInv
  <2>8. WindowWhole'
    <3> SUFFICES ASSUME NEW k \in Keys, InReach(k)'
                 PROVE  Tells(k)'
      BY <1>0 DEF WindowWhole
    <3>1. InReach(k) /\ object[k] = object'[k]
      BY <1>0, <2>4 DEF InReach
    <3>2. CASE object[k].alive
      <4>1. Tells(k)
        BY <1>0, <3>1, <3>2 DEF TInv, WindowWhole
      <4>2. PICK i \in 1..n : /\ work.events[i] = [key |-> k, version |-> object[k].changed]
                              /\ \A j \in 1..n : j > i => work.events[j].key # k
        BY <2>5, <4>1 DEF Tells
      <4>3. ASSUME NEW j \in DOMAIN work'.events, j > i PROVE work'.events[j].key # k
        <5>1. CASE j \in 1..n
          BY <2>5, <4>2, <4>3, <5>1
        <5>2. CASE j - n \in DOMAIN Deletions /\ j = n + (j - n)
          <6>1. work'.events[j] = Deletions[j - n]
            BY <2>5, <5>2
          <6> QED  BY <2>2, <3>2, <5>2, <6>1
        <5> QED  BY <2>5, <5>1, <5>2
      <4>4. i \in DOMAIN work'.events /\ work'.events[i] = work.events[i]
        BY <2>2, <2>5
      <4> QED  BY <3>1, <4>2, <4>3, <4>4 DEF Tells
    <3>3. CASE ~object[k].alive
      <4>1. k \in ChangedKeys(FALSE)
        BY <3>1, <3>3, TailNumbers DEF ChangedKeys, InReach, TInv
      <4>2. PICK i \in DOMAIN Deletions : Deletions[i] = [key |-> k, version |-> object[k].changed]
        BY <2>2, <4>1
      <4>3. ASSUME NEW j \in DOMAIN work'.events, j > n + i, work'.events[j].key = k PROVE FALSE
        <5>1. j - n \in DOMAIN Deletions /\ j = n + (j - n)
          BY <2>2, <2>5, <4>3
        <5>2. work'.events[j] = Deletions[j - n]
          BY <2>5, <5>1
        <5>3. j - n = i
          BY <2>2, <4>2, <4>3, <5>1, <5>2
        <5> QED  BY <2>2, <2>5, <4>3, <5>1, <5>3
      <4>4. n + i \in DOMAIN work'.events /\ work'.events[n + i] = Deletions[i]
        BY <2>5
      <4> QED  BY <3>1, <4>2, <4>3, <4>4 DEF Tells
    <3> QED  BY <3>2, <3>3
  <2>9. FileTells' /\ OwedTells'
    BY <1>0 DEF TInv, FileTells, OwedTells, OwedOrHandled, Passed, Written
  <2>10. OwedBounds'
    BY <1>0, <1>4, <2>4 DEF TInv, OwedBounds, Empty
  <2> QED  BY <2>6, <2>7, <2>8, <2>9, <2>10 DEF TInv
<1> QED  BY <1>2, <1>3, <1>4 DEF ReadDeletions

\* The window goes on with its events; only the delivery file is written.
LEMMA OnlyTheFile ==
  ASSUME TInv, poll \in {"deliver", "append"}, poll' \in {"append", "record"}, work' = work,
         file' \in Files, disk' \in Files, FileTells',
         UNCHANGED <<serves, version, object, cursor, owed, since, accounted>>
  PROVE  TInv'
<1>1. TailTypeOK' /\ LibraryOK'
  BY DEF TInv, TailTypeOK, LibraryOK
<1>2. EventsNew' /\ Reading'
  BY DEF TInv, EventsNew, Reading, InWindow
<1>3. WindowWhole'
  BY DEF TInv, WindowWhole, InReach, Tells, WithDeletions
<1>4. OwedTells'
  BY DEF TInv, OwedTells, OwedOrHandled, Passed
<1>5. OwedBounds'
  BY DEF TInv, OwedBounds, Empty
<1> QED  BY <1>1, <1>2, <1>3, <1>4, <1>5 DEF TInv

\* The poll ends with the delivery file written, in part or not at all.
LEMMA FileThenEnd ==
  ASSUME TInv, EndPoll, file' \in Files, disk' \in Files,
         \A k \in Keys : Passed(k) => disk'.last[k] = object[k].changed /\ file'.last[k] = object[k].changed,
         UNCHANGED <<serves, version, object, cursor, owed, since, accounted>>
  PROVE  TInv'
<1>1. TailTypeOK' /\ LibraryOK'
  BY NoWorkType DEF TInv, TailTypeOK, LibraryOK, EndPoll
<1>2. EventsNew' /\ Reading' /\ WindowWhole'
  BY WindowOver DEF EndPoll
<1>3. FileTells'
  BY DEF EndPoll, FileTells, Passed, Written
<1>4. OwedTells' /\ OwedBounds'
  BY DEF TInv, OwedTells, OwedOrHandled, Passed, OwedBounds, Empty, EndPoll
<1> QED  BY <1>1, <1>2, <1>3, <1>4 DEF TInv

LEMMA TRepair == TInv /\ Repair => TInv'
<1> SUFFICES ASSUME TInv, Repair PROVE TInv'
  OBVIOUS
<1>0. /\ UNCHANGED <<serves, version, object, cursor, owed, since, accounted>>
      /\ poll = "deliver" /\ file' = Repaired
  BY DEF Repair, libraryVars
<1>1. file \in Files /\ disk \in Files /\ Repaired \in Files /\ Repaired.last = file.last /\ ~Repaired.torn
  BY DEF TInv, TailTypeOK, Files, Repaired
<1>2. CASE work' = work /\ poll' = "append" /\ disk' = IF file.torn THEN Repaired ELSE disk
  <2>1. FileTells'
    BY <1>0, <1>1, <1>2 DEF TInv, FileTells, Passed, Written
  <2> QED  BY <1>0, <1>1, <1>2, <2>1, OnlyTheFile
<1>3. CASE EndPoll /\ disk' = disk
  BY <1>0, <1>1, <1>3, FileThenEnd DEF TInv, FileTells, Written
<1> QED  BY <1>2, <1>3 DEF Repair

LEMMA TAppendBatch == TInv /\ AppendBatch => TInv'
<1> SUFFICES ASSUME TInv, AppendBatch PROVE TInv'
  OBVIOUS
<1>0. /\ UNCHANGED <<serves, version, object, cursor, owed, since, accounted>>
      /\ poll = "append" /\ poll' = "record" /\ work' = work /\ disk' = file'
      /\ file' = Appended(work.events, FALSE)
  BY DEF AppendBatch, libraryVars
<1>1. file.last \in PerKey /\ ~file.torn /\ InWindow
  BY <1>0 DEF TInv, TailTypeOK, Files, FileTells, InWindow
<1>2. work.events \in Seq(Events) /\ DOMAIN work.events = 1..Len(work.events)
  BY TailNumbers DEF TInv
<1>3. file' = [last |-> Latest(file.last, work.events), torn |-> FALSE]
  BY <1>0, <1>1 DEF Appended
<1>4. Latest(file.last, work.events) \in PerKey
  BY <1>1, <1>2, LatestType
<1>5. file' \in Files /\ file'.last = Latest(file.last, work.events)
  BY <1>3, <1>4 DEF Files
<1>6. ASSUME NEW k \in Keys, Passed(k) PROVE file'.last[k] = object[k].changed
  <2>1. \A i \in DOMAIN work.events : work.events[i].key # k
    BY <1>1, <1>6, PassedIsSilent DEF Passed
  <2> QED  BY <1>1, <1>2, <1>5, <1>6, <2>1, LatestType DEF TInv, FileTells, Written
<1>7. ASSUME NEW k \in Keys, InReach(k), object[k].alive \/ WithDeletions PROVE file'.last[k] = object[k].changed
  <2>1. Tells(k)
    BY <1>0, <1>7 DEF TInv, WindowWhole
  <2>2. PICK i \in DOMAIN work.events : /\ work.events[i] = [key |-> k, version |-> object[k].changed]
                                        /\ \A j \in DOMAIN work.events : j > i => work.events[j].key # k
    BY <2>1 DEF Tells
  <2> QED  BY <1>1, <1>2, <1>5, <2>2, LatestType
<1>8. FileTells'
  BY <1>0, <1>6, <1>7 DEF FileTells, Passed, Written, InReach, WithDeletions
<1> QED  BY <1>0, <1>5, <1>8, OnlyTheFile

LEMMA TAppendFails == TInv /\ AppendFails => TInv'
<1> SUFFICES ASSUME TInv, AppendFails PROVE TInv'
  OBVIOUS
<1>0. /\ UNCHANGED <<serves, version, object, cursor, owed, since, accounted>>
      /\ poll = "append" /\ EndPoll /\ disk' \in {disk, file'}
  BY DEF AppendFails, libraryVars
<1>1. file.last \in PerKey /\ ~file.torn /\ InWindow /\ disk \in Files
  BY <1>0 DEF TInv, TailTypeOK, Files, FileTells, InWindow
<1>2. PICK n \in 0..Len(work.events), torn \in BOOLEAN : file' = Appended(SubSeq(work.events, 1, n), torn)
  BY DEF AppendFails
<1> DEFINE part == SubSeq(work.events, 1, n)
<1>3. /\ work.events \in Seq(Events) /\ Len(work.events) \in Nat /\ DOMAIN work.events = 1..Len(work.events)
      /\ \A i \in 1..Len(work.events) : work.events[i] \in Events
  BY TailNumbers DEF TInv
<1>4. /\ part \in Seq(Events) /\ Len(part) = n
      /\ \A i \in 1..n : part[i] = work.events[i]
  <2>1. \A i \in 1..n : work.events[i] \in Events
    BY <1>3
  <2>2. /\ part \in Seq(Events) /\ Len(part) = IF 1 <= n THEN n - 1 + 1 ELSE 0
        /\ \A i \in 1..(n - 1 + 1) : part[i] = work.events[1 + i - 1]
    BY <2>1, SubSeqProperties
  <2> HIDE DEF part
  <2> QED  BY <2>2
<1> HIDE DEF part
<1>5. file' = [last |-> Latest(file.last, part), torn |-> torn]
  BY <1>1, <1>2 DEF Appended, part
<1>6. file' \in Files /\ file'.last = Latest(file.last, part)
  BY <1>1, <1>4, <1>5, LatestType DEF Files
<1>7. ASSUME NEW k \in Keys, Passed(k) PROVE file'.last[k] = object[k].changed
  <2>1. \A i \in DOMAIN work.events : work.events[i].key # k
    BY <1>1, <1>7, PassedIsSilent DEF Passed
  <2>2. \A i \in DOMAIN part : part[i].key # k
    BY <1>3, <1>4, <2>1
  <2> QED  BY <1>1, <1>4, <1>6, <1>7, <2>2, LatestType DEF TInv, FileTells, Written
<1> QED  BY <1>0, <1>1, <1>6, <1>7, FileThenEnd DEF TInv, FileTells, Written

LEMMA TNothingToDeliver == TInv /\ NothingToDeliver => TInv'
<1> SUFFICES ASSUME TInv, NothingToDeliver PROVE TInv'
  OBVIOUS
<1>0. /\ UNCHANGED <<serves, version, object, cursor, owed, since, accounted, file, disk>>
      /\ poll = "deliver" /\ poll' = "record" /\ work' = work /\ work.events = <<>>
  BY DEF NothingToDeliver, libraryVars
<1>1. \A k \in Keys : ~Tells(k)
  BY <1>0 DEF Tells
<1>2. FileTells'
  BY <1>0, <1>1 DEF TInv, FileTells, WindowWhole, Passed, Written, InReach, WithDeletions
<1>3. file \in Files /\ disk \in Files
  BY DEF TInv, TailTypeOK
<1> QED  BY <1>0, <1>2, <1>3, OnlyTheFile

LEMMA TPowerLoss == TInv /\ PowerLoss => TInv'
<1> SUFFICES ASSUME TInv, PowerLoss PROVE TInv'
  OBVIOUS
<1>1. UNCHANGED <<serves, version, object, cursor, owed, since, accounted>> /\ EndPoll /\ file' = disk /\ disk' = disk
  BY DEF PowerLoss, libraryVars
<1>2. disk \in Files
  BY DEF TInv, TailTypeOK
<1> QED  BY <1>1, <1>2, FileThenEnd DEF TInv, FileTells, Written

\* What is owed after a window is owed, key by key.
LEMMA OwedAfter ==
  ASSUME TInv, poll = "record"
  PROVE  LET new == Merge(owed, Delivered) IN
         /\ new \in OwedBatches
         /\ \A k \in Keys : new.last[k] <= object[k].changed
         /\ cursor = 0 => new.baseline \/ Empty(new)
         /\ cursor > 0 /\ new.baseline => new = owed
         /\ cursor = 0 => \A k \in Keys : new.last[k] <= work.version
         /\ \A k \in Keys : Passed(k) /\ object[k].changed > since =>
               object[k].changed \in {new.last[k], accounted[k]}
         /\ cursor > 0 => \A k \in Keys : Tells(k) => new.last[k] = object[k].changed
<1> DEFINE next == Delivered
           new == Merge(owed, Delivered)
<1>1. /\ work.events \in Seq(Events) /\ DOMAIN work.events = 1..Len(work.events) /\ InWindow
      /\ Nothing.last \in PerKey /\ (\A k \in Keys : Nothing.last[k] = 0)
      /\ owed \in OwedBatches /\ owed.last \in PerKey /\ owed.baseline \in BOOLEAN
  BY TailNumbers, NothingType DEF TInv, TailTypeOK, OwedBatches, InWindow
<1>2. next = [last |-> Latest(Nothing.last, work.events), baseline |-> cursor = 0]
  BY DEF Delivered
<1>3. next.last = Latest(Nothing.last, work.events) /\ next.baseline = (cursor = 0)
  BY <1>2
<1>b. (cursor = 0 => next.baseline = TRUE) /\ (cursor # 0 => next.baseline = FALSE)
  <2> HIDE DEF next
  <2> QED  BY <1>3
<1> HIDE DEF next
<1>4. next.last \in PerKey /\ next \in OwedBatches
  BY <1>1, <1>2, <1>3, LatestType DEF OwedBatches
<1>5. \A k \in Keys : next.last[k] = 0 \/ \E i \in DOMAIN work.events :
            work.events[i].key = k /\ next.last[k] = work.events[i].version
  BY <1>1, <1>3, LatestType
<1>6. \A k \in Keys : object[k].changed <= cursor => next.last[k] = 0
  <2> SUFFICES ASSUME NEW k \in Keys, object[k].changed <= cursor PROVE next.last[k] = 0
    OBVIOUS
  <2>1. \A i \in DOMAIN work.events : work.events[i].key # k
    BY <1>1, PassedIsSilent
  <2> QED  BY <1>5, <2>1
<1>7. \A k \in Keys : next.last[k] <= object[k].changed /\ (cursor = 0 => next.last[k] <= work.version)
  <2> SUFFICES ASSUME NEW k \in Keys
               PROVE  next.last[k] <= object[k].changed /\ (cursor = 0 => next.last[k] <= work.version)
    OBVIOUS
  <2>1. object[k].changed \in Nat /\ work.version \in Nat
    BY TailNumbers DEF TInv
  <2>2. CASE next.last[k] = 0
    BY <2>1, <2>2
  <2>3. CASE \E i \in DOMAIN work.events : work.events[i].key = k /\ next.last[k] = work.events[i].version
    BY <1>1, <2>3 DEF TInv, EventsNew
  <2> QED  BY <1>5, <2>2, <2>3
<1>8. \A k \in Keys : Tells(k) => next.last[k] = object[k].changed
  <2> SUFFICES ASSUME NEW k \in Keys, Tells(k) PROVE next.last[k] = object[k].changed
    OBVIOUS
  <2>1. PICK i \in DOMAIN work.events : /\ work.events[i] = [key |-> k, version |-> object[k].changed]
                                        /\ \A j \in DOMAIN work.events : j > i => work.events[j].key # k
    BY DEF Tells
  <2>2. work.events[i].key = k /\ work.events[i].version = object[k].changed
    BY <2>1
  <2>3. Latest(Nothing.last, work.events)[k] = work.events[i].version
    BY <1>1, <2>1, <2>2, LatestType
  <2> QED  BY <1>3, <2>2, <2>3
<1>9. /\ \A k \in Keys : /\ owed.last[k] \in Nat /\ next.last[k] \in Nat /\ accounted[k] \in Nat
                         /\ object[k].changed \in Nat /\ object[k].changed >= 1
                         /\ owed.last[k] <= object[k].changed
                         /\ cursor = 0 => owed.last[k] <= work.version
                         /\ cursor > 0 /\ owed.baseline => owed.last[k] <= since
                         /\ Passed(k) /\ object[k].changed > since =>
                               object[k].changed \in {owed.last[k], accounted[k]}
      /\ cursor = 0 => owed.baseline \/ Empty(owed)
      /\ cursor \in Nat /\ since \in Nat
  <2>1. \A k \in Keys : next.last[k] \in Nat
    BY <1>4, TailFacts DEF PerKey
  <2>2. \A k \in Keys : object[k].changed \in Nat /\ owed.last[k] \in Nat /\ accounted[k] \in Nat
    BY TailNumbers DEF TInv
  <2> QED  BY <2>1, <2>2, TailNumbers DEF TInv, LibraryOK, OwedBounds, OwedTells, OwedOrHandled
<1>10. \A k \in Keys : Passed(k) => next.last[k] = 0
  BY <1>6 DEF Passed
<1> DEFINE Good(batch) ==
             /\ batch \in OwedBatches
             /\ \A k \in Keys : batch.last[k] <= object[k].changed
             /\ cursor = 0 => batch.baseline \/ Empty(batch)
             /\ cursor > 0 /\ batch.baseline => batch = owed
             /\ cursor = 0 => \A k \in Keys : batch.last[k] <= work.version
             /\ \A k \in Keys : Passed(k) /\ object[k].changed > since =>
                   object[k].changed \in {batch.last[k], accounted[k]}
             /\ cursor > 0 => \A k \in Keys : Tells(k) => batch.last[k] = object[k].changed
<1>11. ASSUME Empty(next) PROVE Good(owed)
  <2>1. \A k \in Keys : ~Tells(k)
    BY <1>8, <1>9, <1>11 DEF Empty
  <2> QED  BY <1>1, <1>9, <2>1
<1>12. ASSUME Empty(owed) \/ owed.baseline PROVE Good(next)
  <2>1. \A k \in Keys : Passed(k) /\ object[k].changed > since => object[k].changed = accounted[k]
    BY <1>9, <1>12, TailNumbers DEF Empty, Passed, TInv
  <2>2. cursor > 0 => ~next.baseline
    BY <1>b, <1>9
  <2> QED  BY <1>3, <1>4, <1>7, <1>8, <2>1, <2>2
<1>13. ASSUME next.baseline, ~owed.baseline PROVE Empty(owed)
  BY <1>3, <1>9, <1>13
<1>14. ASSUME ~next.baseline,
              new = [last |-> [k \in Keys |-> IF next.last[k] # 0 THEN next.last[k] ELSE owed.last[k]],
                     baseline |-> FALSE]
       PROVE  Good(new)
  <2>1. /\ new.last = [k \in Keys |-> IF next.last[k] # 0 THEN next.last[k] ELSE owed.last[k]]
        /\ ~new.baseline
    BY <1>14
  <2> HIDE DEF new
  <2>2. new.last \in PerKey /\ new \in OwedBatches
    BY <1>1, <1>4, <1>14, <2>1 DEF PerKey, OwedBatches
  <2>3. cursor # 0
    BY <1>3, <1>14
  <2>4. \A k \in Keys : new.last[k] = IF next.last[k] # 0 THEN next.last[k] ELSE owed.last[k]
    BY <2>1
  <2> QED  BY <1>7, <1>8, <1>9, <1>10, <2>1, <2>2, <2>3, <2>4
<1>15. /\ Empty(next) => new = owed
       /\ ~Empty(next) /\ Empty(owed) => new = next
       /\ ~Empty(next) /\ ~Empty(owed) /\ next.baseline /\ ~owed.baseline => new = owed
       /\ ~Empty(next) /\ ~Empty(owed) /\ ~(next.baseline /\ ~owed.baseline) /\ owed.baseline => new = next
       /\ ~Empty(next) /\ ~Empty(owed) /\ ~next.baseline /\ ~owed.baseline =>
             new = [last |-> [k \in Keys |-> IF next.last[k] # 0 THEN next.last[k] ELSE owed.last[k]],
                    baseline |-> FALSE]
  BY DEF Merge, next
<1> HIDE DEF Good
<1>16. next.baseline \in BOOLEAN
  BY <1>3
<1>17. Good(new)
  BY <1>11, <1>12, <1>13, <1>14, <1>15, <1>16
<1> QED  BY <1>17 DEF Good

LEMMA TRecordOwed == TInv /\ RecordOwed => TInv'
<1> SUFFICES ASSUME TInv, RecordOwed PROVE TInv'
  OBVIOUS
<1>0. /\ UNCHANGED <<serves, version, object, cursor, since, accounted, file, disk>>
      /\ poll = "record" /\ owed' = Merge(owed, Delivered)
      /\ (poll' = "cursor" /\ work' = work) \/ EndPoll
  BY DEF RecordOwed, libraryVars
<1>1. /\ owed' \in OwedBatches
      /\ \A k \in Keys : owed'.last[k] <= object[k].changed
      /\ cursor = 0 => owed'.baseline \/ Empty(owed')
      /\ cursor > 0 /\ owed'.baseline => owed' = owed
      /\ cursor = 0 => \A k \in Keys : owed'.last[k] <= work.version
      /\ \A k \in Keys : Passed(k) /\ object[k].changed > since =>
            object[k].changed \in {owed'.last[k], accounted[k]}
      /\ cursor > 0 => \A k \in Keys : Tells(k) => owed'.last[k] = object[k].changed
  BY <1>0, OwedAfter
<1>2. TailTypeOK' /\ LibraryOK'
  BY <1>0, <1>1, NoWorkType DEF TInv, TailTypeOK, LibraryOK, EndPoll
<1>3. CASE EndPoll
  <2>1. EventsNew' /\ Reading' /\ WindowWhole'
    BY <1>3, WindowOver DEF EndPoll
  <2>2. FileTells'
    BY <1>0, <1>3 DEF EndPoll, TInv, FileTells, Passed, Written
  <2>3. OwedBounds'
    BY <1>0, <1>1, <1>3 DEF EndPoll, TInv, OwedBounds, Empty
  <2>4. OwedTells'
    BY <1>0, <1>1, <1>3 DEF EndPoll, OwedTells, OwedOrHandled, Passed
  <2> QED  BY <1>2, <2>1, <2>2, <2>3, <2>4 DEF TInv
<1>4. CASE poll' = "cursor" /\ work' = work
  <2>1. EventsNew' /\ Reading'
    BY <1>0, <1>4 DEF TInv, EventsNew, Reading, InWindow
  <2>2. WindowWhole'
    BY <1>0, <1>4 DEF TInv, WindowWhole, InReach, Tells, WithDeletions
  <2>3. FileTells'
    BY <1>0, <1>4 DEF TInv, FileTells, Passed, Written, InReach, WithDeletions
  <2>4. OwedBounds'
    BY <1>0, <1>1, <1>4 DEF TInv, OwedBounds, Empty
  <2>5. OwedTells'
    <3>1. \A k \in Keys : InReach(k) /\ (object[k].alive \/ WithDeletions) => Tells(k)
      BY <1>0 DEF TInv, WindowWhole
    <3> QED  BY <1>0, <1>1, <1>4, <3>1 DEF OwedTells, OwedOrHandled, Passed, InReach, WithDeletions
  <2> QED  BY <1>2, <2>1, <2>2, <2>3, <2>4, <2>5 DEF TInv
<1> QED  BY <1>0, <1>3, <1>4

LEMMA TSaveCursor == TInv /\ SaveCursor => TInv'
<1> SUFFICES ASSUME TInv, SaveCursor PROVE TInv'
  OBVIOUS
<1>1. CASE EndPoll /\ cursor' = cursor /\ since' = since
  BY <1>1, PollEnds DEF SaveCursor
<1>2. CASE /\ cursor' = (IF Advances THEN work.version ELSE cursor)
           /\ since' = (IF since = 0 THEN cursor' ELSE since)
           /\ poll' = "hook" /\ work' = work
  <2>0. UNCHANGED <<serves, version, object, owed, file, disk, accounted>> /\ poll = "cursor" /\ InWindow
    BY DEF SaveCursor, libraryVars, InWindow
  <2>1. /\ version \in Nat /\ cursor \in Nat /\ since \in Nat /\ work.version \in Nat /\ work.version <= version
        /\ since <= cursor /\ cursor <= version /\ (since = 0 => cursor = 0)
        /\ \A k \in Keys : /\ object[k].changed \in Nat /\ object[k].changed >= 1
                           /\ owed.last[k] \in Nat /\ accounted[k] \in Nat
    BY <2>0, TailNumbers DEF TInv, LibraryOK, Reading
  <2>2. cursor' \in Nat /\ cursor <= cursor' /\ cursor' <= version /\ since' <= cursor' /\ (since' = 0 => cursor' = 0)
        /\ since' \in Nat /\ since <= since'
    BY <1>2, <2>1 DEF Advances
  <2>3. TailTypeOK'
    BY <1>2, <2>0 DEF TInv, TailTypeOK, Works
  <2>4. LibraryOK'
    BY <2>0, <2>2 DEF TInv, LibraryOK
  <2>5. EventsNew' /\ Reading' /\ WindowWhole'
    BY <1>2, WindowOver
  <2>6. ASSUME NEW k \in Keys, Passed(k)'
        PROVE  \/ Passed(k) /\ since' = since
               \/ InReach(k) /\ (object[k].alive \/ WithDeletions) /\ (cursor > 0 \/ object[k].changed <= since')
    <3>1. object[k].changed <= cursor' /\ (object[k].alive \/ (serves /\ object[k].changed > since'))
      BY <2>0, <2>6 DEF Passed
    <3>2. CASE object[k].changed <= cursor
      <4>1. since # 0
        BY <2>1, <3>2
      <4> QED  BY <1>2, <3>1, <3>2, <4>1 DEF Passed
    <3>3. CASE ~(object[k].changed <= cursor)
      <4>1. Advances /\ cursor' = work.version
        BY <1>2, <3>1, <3>3
      <4>2. InReach(k)
        BY <2>1, <3>1, <3>3, <4>1 DEF InReach
      <4>3. cursor = 0 => since' = cursor' /\ object[k].changed <= since'
        BY <1>2, <2>1, <3>1
      <4>4. object[k].alive \/ WithDeletions
        BY <2>1, <2>2, <3>1, <4>1, <4>3 DEF WithDeletions, Advances
      <4> QED  BY <2>1, <4>2, <4>3, <4>4
    <3> QED  BY <3>2, <3>3
  <2>7. FileTells'
    BY <1>2, <2>0, <2>6 DEF TInv, FileTells, Written
  <2>8. OwedTells'
    <3>1. ASSUME NEW k \in Keys, Passed(k)', object[k].changed > since'
          PROVE  object[k].changed \in {owed.last[k], accounted[k]}
      <4>1. CASE Passed(k) /\ since' = since
        BY <3>1, <4>1 DEF TInv, OwedTells, OwedOrHandled
      <4>2. CASE InReach(k) /\ (object[k].alive \/ WithDeletions) /\ (cursor > 0 \/ object[k].changed <= since')
        BY <2>0, <2>1, <2>2, <3>1, <4>2 DEF TInv, OwedTells
      <4> QED  BY <2>6, <3>1, <4>1, <4>2
    <3> QED  BY <1>2, <2>0, <3>1 DEF OwedTells, OwedOrHandled
  <2>9. OwedBounds'
    <3>1. cursor' = 0 => cursor = 0
      BY <2>1, <2>2
    <3>2. ASSUME cursor' > 0, owed.baseline, NEW k \in Keys PROVE owed.last[k] <= since'
      <4>1. CASE cursor > 0
        BY <2>1, <2>2, <3>2, <4>1 DEF TInv, OwedBounds
      <4>2. CASE cursor = 0
        <5>1. since' = cursor' /\ cursor' = work.version
          BY <1>2, <2>1, <3>2, <4>2
        <5> QED  BY <2>0, <4>2, <5>1 DEF TInv, OwedBounds
      <4> QED  BY <2>1, <4>1, <4>2
    <3> QED  BY <1>2, <2>0, <3>1, <3>2 DEF TInv, OwedBounds, Empty
  <2> QED  BY <2>3, <2>4, <2>5, <2>7, <2>8, <2>9 DEF TInv
<1> QED  BY <1>1, <1>2 DEF SaveCursor

LEMMA MaxOfTwo ==
  ASSUME NEW a \in Nat, NEW b \in Nat
  PROVE  Max({a, b}) = IF a <= b THEN b ELSE a
<1> DEFINE m == IF a <= b THEN b ELSE a
<1>1. m \in {a, b} /\ \A y \in {a, b} : m >= y
  OBVIOUS
<1>2. \A x \in {a, b} : (\A y \in {a, b} : x >= y) => x = m
  OBVIOUS
<1> QED  BY <1>1, <1>2 DEF Max

LEMMA THandled == TInv /\ Handled => TInv'
<1> SUFFICES ASSUME TInv, Handled PROVE TInv'
  OBVIOUS
<1>0. /\ UNCHANGED <<serves, version, object, cursor, owed, file, disk, work, since>> /\ poll' = "clear"
      /\ accounted' = [k \in Keys |-> Max({owed.last[k], accounted[k]})]
  BY DEF Handled, libraryVars
<1>1. \A k \in Keys : /\ owed.last[k] \in Version /\ accounted[k] \in Version /\ object[k].changed \in Nat
                      /\ owed.last[k] \in Nat /\ accounted[k] \in Nat
  BY TailNumbers DEF TInv, TailTypeOK, OwedBatches, PerKey
<1>2. \A k \in Keys : accounted'[k] = IF owed.last[k] <= accounted[k] THEN accounted[k] ELSE owed.last[k]
  BY <1>0, <1>1, MaxOfTwo
<1>3. accounted' \in PerKey
  BY <1>0, <1>1, <1>2 DEF PerKey
<1>4. TailTypeOK' /\ LibraryOK'
  BY <1>0, <1>3 DEF TInv, TailTypeOK, LibraryOK
<1>5. EventsNew' /\ Reading' /\ WindowWhole'
  BY <1>0, WindowOver
<1>6. FileTells'
  BY <1>0 DEF TInv, FileTells, Passed, Written
<1>7. \A k \in Keys : owed.last[k] <= object[k].changed /\ accounted[k] <= object[k].changed
  BY DEF TInv, OwedBounds
<1>8. OwedBounds'
  <2>1. \A k \in Keys : accounted'[k] <= object[k].changed /\ owed.last[k] <= accounted'[k]
    BY <1>1, <1>2, <1>7
  <2> QED  BY <1>0, <1>7, <2>1 DEF TInv, OwedBounds, Empty
<1>9. OwedTells'
  <2>1. ASSUME NEW k \in Keys, object[k].changed \in {owed.last[k], accounted[k]}
        PROVE  object[k].changed = accounted'[k]
    BY <1>1, <1>2, <1>7, <2>1
  <2> QED  BY <1>0, <2>1 DEF TInv, OwedTells, OwedOrHandled, Passed
<1> QED  BY <1>4, <1>5, <1>6, <1>8, <1>9 DEF TInv

LEMMA TClearOwed == TInv /\ ClearOwed => TInv'
<1> SUFFICES ASSUME TInv, ClearOwed PROVE TInv'
  OBVIOUS
<1>0. /\ UNCHANGED <<serves, version, object, cursor, file, disk, since, accounted>> /\ poll = "clear" /\ EndPoll
      /\ owed' \in {owed, Nothing}
  BY DEF ClearOwed, libraryVars
<1>1. CASE owed' = owed
  BY <1>0, <1>1, PollEnds DEF libraryVars
<1>2. CASE owed' = Nothing
  <2>1. TailTypeOK' /\ LibraryOK'
    BY <1>0, <1>2, NothingType, NoWorkType DEF TInv, TailTypeOK, LibraryOK, EndPoll
  <2>2. EventsNew' /\ Reading' /\ WindowWhole'
    BY <1>0, WindowOver DEF EndPoll
  <2>3. FileTells'
    BY <1>0 DEF TInv, FileTells, Passed, Written, EndPoll
  <2>4. OwedBounds'
    BY <1>0, <1>2, NothingType, TailNumbers DEF TInv, OwedBounds, EndPoll
  <2>5. ASSUME NEW k \in Keys, object[k].changed \in {owed.last[k], accounted[k]}
        PROVE  object[k].changed = accounted[k]
    BY <1>0, <2>5, TailNumbers DEF TInv, OwedBounds
  <2>6. OwedTells'
    BY <1>0, <2>5 DEF TInv, OwedTells, OwedOrHandled, Passed, EndPoll
  <2> QED  BY <2>1, <2>2, <2>3, <2>4, <2>6 DEF TInv
<1> QED  BY <1>0, <1>1, <1>2

LEMMA TFailPoll == TInv /\ FailPoll => TInv'
  BY PollEnds DEF FailPoll

LEMMA TNothingOwed == TInv /\ NothingOwed => TInv'
  BY PollEnds DEF NothingOwed

LEMMA TTriggerHeld == TInv /\ TriggerHeld => TInv'
  BY PollEnds DEF TriggerHeld

LEMMA TKillPoll == TInv /\ KillPoll => TInv'
  BY PollEnds DEF KillPoll

\* Every step of a poll, whatever the workflow's side does.
LEMMA TailStepKeeps == TInv /\ (TailStep \/ FailPoll \/ AppendFails) => TInv'
  BY TBeginPoll, TReadPage, TRestartWindow, TReadDeletions, TRepair, TAppendBatch, TNothingToDeliver,
     TRecordOwed, TSaveCursor, TNothingOwed, TClearOwed, TFailPoll, TAppendFails DEF TailStep

LEMMA TailSteady == TInv /\ UNCHANGED tailVars => TInv'
<1> SUFFICES ASSUME TInv, UNCHANGED tailVars PROVE TInv'
  OBVIOUS
<1>0. UNCHANGED <<serves, version, object, cursor, owed, file, disk, poll, work, since, accounted>>
  BY DEF tailVars, libraryVars
<1>1. TailTypeOK' /\ LibraryOK'
  BY <1>0 DEF TInv, TailTypeOK, LibraryOK
<1>2. EventsNew'
  BY <1>0 DEF TInv, EventsNew, InWindow
<1>3. Reading'
  <2>1. Listing' = Listing
    BY <1>0 DEF Listing, Changes, ChangedKeys, Newest, Place
  <2> QED  BY <1>0, <2>1 DEF TInv, Reading, InWindow
<1>4. WindowWhole'
  BY <1>0 DEF TInv, WindowWhole, InReach, Tells, WithDeletions
<1>5. FileTells'
  BY <1>0 DEF TInv, FileTells, Passed, Written, InReach, WithDeletions
<1>6. OwedBounds' /\ OwedTells'
  BY <1>0 DEF TInv, OwedBounds, Empty, OwedTells, OwedOrHandled, Passed, InReach, WithDeletions
<1> QED  BY <1>1, <1>2, <1>3, <1>4, <1>5, <1>6 DEF TInv

LEMMA TailInitial == TailInit => TInv
<1> SUFFICES ASSUME TailInit PROVE TInv
  OBVIOUS
<1> DEFINE n == Cardinality(Keys)
<1>1. /\ n \in Version /\ n \in Nat /\ version = n /\ version \in Nat /\ 1..n \subseteq Version
      /\ serves \in BOOLEAN /\ since = cursor /\ cursor \in {0, n}
      /\ owed = Nothing /\ disk = file /\ accounted = file.last /\ poll = "idle" /\ work = NoWork
      /\ file = [last |-> [k \in Keys |-> IF cursor = 0 THEN 0 ELSE object[k].changed], torn |-> FALSE]
  BY TailFacts DEF TailInit
<1> HIDE DEF n
<1>2. object \in [Keys -> Objects] /\ \A k \in Keys : object[k].changed \in 1..n /\ object[k].alive
  <2>1. object \in [Keys -> [changed : 1..n, alive : {TRUE}]]
    BY DEF TailInit, n
  <2>2. [changed : 1..n, alive : {TRUE}] \subseteq Objects
    BY <1>1 DEF Objects
  <2> QED  BY <2>1, <2>2
<1>3. file.last = [k \in Keys |-> IF cursor = 0 THEN 0 ELSE object[k].changed] /\ ~file.torn
  BY <1>1
<1>4. file.last \in PerKey /\ file \in Files
  BY <1>1, <1>2, <1>3, TailFacts DEF PerKey, Files
<1>5. TailTypeOK
  BY <1>1, <1>2, <1>4, TailFacts, NothingType, NoWorkType DEF TailTypeOK
<1>6. LibraryOK
  BY <1>1, <1>2 DEF LibraryOK, TailInit
<1>7. EventsNew /\ Reading /\ WindowWhole
  BY <1>1 DEF EventsNew, Reading, WindowWhole, InWindow
<1>8. FileTells
  BY <1>1, <1>2, <1>3 DEF FileTells, Passed, Written
<1>9. OwedBounds
  BY <1>1, <1>2, <1>3, NothingType DEF OwedBounds
<1>10. OwedTells
  BY <1>1, <1>2, <1>3 DEF OwedTells, OwedOrHandled, Passed
<1> QED  BY <1>5, <1>6, <1>7, <1>8, <1>9, <1>10 DEF TInv

-----------------------------------------------------------------------------
(* The two together. *)

FInv == TInv /\ WInv /\ caller \in {"none", "tail", "user"}

LEMMA FeedInitial == FeedInit => FInv
  BY TailInitial, WorkflowInitial DEF FeedInit, FInv

LEMMA HookRunKeeps == FInv /\ HookRuns => FInv'
<1> SUFFICES ASSUME FInv, HookRuns PROVE FInv'
  OBVIOUS
<1>1. owed \in Batches
  BY FeedAssumption DEF FInv, TInv, TailTypeOK
<1>2. WInv'
  BY <1>1, WStart DEF FInv, HookRuns
<1>3. TInv'
  BY PollEnds DEF FInv, HookRuns
<1> QED  BY <1>2, <1>3 DEF FInv, HookRuns

LEMMA HookReturnKeeps == FInv /\ HookReturns => FInv'
<1> SUFFICES ASSUME FInv, HookReturns PROVE FInv'
  OBVIOUS
<1>1. PICK r \in {"ok", "failed"} : Read(r) /\ (Handled \/ TriggerHeld)
  BY DEF HookReturns
<1>2. WInv'
  BY <1>1, WRead DEF FInv
<1>3. TInv'
  BY <1>1, THandled, TTriggerHeld DEF FInv
<1> QED  BY <1>1, <1>2, <1>3 DEF FInv, Read

LEMMA UserKeeps == FInv /\ (UserReads \/ UserResumes \/ UserDiscards) => FInv'
<1> SUFFICES ASSUME FInv, UserReads \/ UserResumes \/ UserDiscards PROVE FInv'
  OBVIOUS
<1>1. CASE UserReads
  <2>1. PICK r \in {"ok", "failed"} : Read(r) /\ UNCHANGED tailVars
    BY <1>1 DEF UserReads
  <2> QED  BY <2>1, WRead, TailSteady DEF FInv, Read
<1>2. CASE UserResumes
  BY <1>2, WResume, TailSteady DEF FInv, UserResumes
<1>3. CASE UserDiscards
  <2>1. Discard /\ pc = "idle" /\ UNCHANGED <<tailVars, caller>>
    BY <1>3 DEF UserDiscards, Discard
  <2> QED  BY <2>1, WDiscard, TailSteady DEF FInv
<1> QED  BY <1>1, <1>2, <1>3

LEMMA FeedInductive == FInv /\ [FeedNext]_feedVars => FInv'
<1> SUFFICES ASSUME FInv, [FeedNext]_feedVars PROVE FInv'
  OBVIOUS
<1>1. CASE TailSteps
  BY <1>1, TailStepKeeps, WorkflowSteady DEF FInv, TailSteps
<1>2. CASE HookRuns
  BY <1>2, HookRunKeeps
<1>3. CASE HookSkips
  BY <1>3, THandled, WorkflowSteady DEF FInv, HookSkips, workflowVars
<1>4. CASE HookReturns
  BY <1>4, HookReturnKeeps
<1>5. CASE WorkflowSteps
  BY <1>5, WorkflowKept, TailSteady DEF FInv, WorkflowSteps
<1>6. CASE UserReads \/ UserResumes \/ UserDiscards
  BY <1>6, UserKeeps
<1>7. CASE World
  <2>1. CASE (\E k \in Keys : LibraryChanges(k)) /\ UNCHANGED <<workflowVars, caller>>
    BY <2>1, TLibraryChanges, WorkflowSteady DEF FInv, workflowVars
  <2>2. CASE Arrive /\ UNCHANGED <<tailVars, caller>>
    BY <2>2, WArrive, TailSteady DEF FInv
  <2> QED  BY <1>7, <2>1, <2>2 DEF World
<1>8. CASE Kill
  BY <1>8, WKillRun, TKillPoll DEF FInv, Kill
<1>9. CASE Blackout
  BY <1>9, WKillRun, TPowerLoss DEF FInv, Blackout
<1>10. CASE UNCHANGED feedVars
  BY <1>10, WorkflowSteady, TailSteady DEF FInv, feedVars, workflowVars
<1> QED  BY <1>1, <1>2, <1>3, <1>4, <1>5, <1>6, <1>7, <1>8, <1>9, <1>10 DEF FeedNext

LEMMA FeedInvariance == FeedSpec => []FInv
  BY FeedInitial, FeedInductive, PTL DEF FeedSpec

\* The state of feed, runner and create routes keeps its shape: what is owed is
\* always a batch the runner accepts, and no copy of a create is lost count of.
THEOREM FeedTypeCorrect == FeedSpec => []FeedTypeOK
<1>1. FInv => FeedTypeOK
  BY DEF FInv, TInv, WInv, FeedTypeOK
<1> QED  BY <1>1, FeedInvariance, PTL

\* The cursor never passes a change whose event is not in the delivery file,
\* whole, synced and the last of its key: not when the window moves under the
\* reader, an append is torn or a poll dies between any two of its steps.
THEOREM CursorWaitsForDelivery == FeedSpec => []DeliveredUpToCursor
<1>1. FInv => DeliveredUpToCursor
  BY DEF FInv, TInv, FileTells, Written, DeliveredUpToCursor
<1> QED  BY <1>1, FeedInvariance, PTL

\* A change the cursor has passed is owed to the workflow until the workflow has
\* run for it or skipped the batch it is in.
THEOREM NoChangeIsDropped == FeedSpec => []OwedOrHandled
<1>1. FInv => OwedOrHandled
  BY DEF FInv, TInv, OwedTells
<1> QED  BY <1>1, FeedInvariance, PTL

\* A run that reports success has left no step behind, over all the runs and
\* resumes of its approval.
THEOREM SuccessLeavesNothing == FeedSpec => []SuccessIsWhole
<1>1. FInv => SuccessIsWhole
  BY DEF FInv, WInv, Progress, Done, SuccessIsWhole
<1> QED  BY <1>1, FeedInvariance, PTL

LEMMA CopiesBounded ==
  ASSUME FInv, NEW s \in Steps, ~Unsure(s)
  PROVE  copies[s] <= 1
<1>1. s \in Step
  BY WorkflowAssumption
<1>2. copies[s] = 0 \/ copies[s] = 1
  BY <1>1 DEF FInv, WInv, CopiesRemembered
<1> QED  BY <1>2

\* Where the connector's work can be seen, no create of an approved run is
\* carried out twice.
THEOREM CreatesRunOnce ==
  ASSUME ~ConnectorHides
  PROVE  FeedSpec => []CreatedOnce
<1>1. FInv => CreatedOnce
  BY CopiesBounded DEF CreatedOnce, Unsure
<1> QED  BY <1>1, FeedInvariance, PTL

\* The creates of the other two routes are carried out at most once whatever the
\* connector hides.
THEOREM TokenAndGuardSuffice ==
  FeedSpec => [](\A s \in Steps : spec.step[s].kind # "connector" => copies[s] <= 1)
<1>1. FInv => \A s \in Steps : spec.step[s].kind # "connector" => copies[s] <= 1
  BY CopiesBounded DEF Unsure, Kind
<1> QED  BY <1>1, FeedInvariance, PTL
=============================================================================
