------------------------------ MODULE WatchOwed ------------------------------
(***************************************************************************)
(* "zotio watch --workflow-on-change" (internal/cli/watch.go,              *)
(* watch_workflow_owed.go): each cycle syncs the mirror and, when that     *)
(* changed a row, runs a workflow.  Changes are committed to the mirror by *)
(* the sync and discharged by the workflow, at another time and perhaps by *)
(* another process, so what is owed is kept in a marker file beside the    *)
(* mirror.                                                                 *)
(*                                                                         *)
(* A watcher is known by its workflow: watchers of the same one, at the    *)
(* same time or one after the other, share its marker.  A cycle holds the  *)
(* installation's writer lock from start to end, and one that finds it     *)
(* taken is skipped, so the cycles of all watchers take turns.             *)
(***************************************************************************)
EXTENDS Faults

CONSTANTS
    Workflows,      \* the workflow files being watched for
    NoWorkflow,     \* no cycle is running
    MaxChanges      \* bound: rows that syncs change

ASSUME WatchAssumption ==
    /\ NoWorkflow \notin Workflows
    /\ MaxChanges \in Nat

VARIABLES
    marker,         \* the marker file of each workflow; Nothing if absent
    cycle, who,        \* where the cycle is, and for which workflow
    pending,        \* the obligation it has in memory
    summary,        \* the rows its sync has changed so far
    ending,        \* how the sync ended
    changes,
    unhandled,      \* ghost: rows changed in the workflow's cycles since it
                    \* last succeeded
    doubtful        \* ghost: has a cycle of it been cut short since?

cycleVars == <<cycle, who, pending, summary, ending>>
vars == <<marker, cycleVars, changes, faults, unhandled, doubtful>>

\* watchWorkflowOwed, its upserted and deleted rows in one count.
Owed(rows, unknown) == [rows |-> rows, unknown |-> unknown]
Changed(owed) == owed.rows > 0 \/ owed.unknown

\* watchWorkflowOwedFile
Marker(owed, inFlight) == [rows |-> owed.rows, unknown |-> owed.unknown, inFlight |-> inFlight]
NoMarker == Marker(Owed(0, FALSE), FALSE)

Init ==
    /\ marker = [w \in Workflows |-> NoMarker]
    /\ cycle = "idle" /\ who = NoWorkflow
    /\ pending = Owed(0, FALSE) /\ summary = 0 /\ ending = "none"
    /\ changes = 0 /\ faults = 0
    /\ unhandled = [w \in Workflows |-> 0]
    /\ doubtful = [w \in Workflows |-> FALSE]

-----------------------------------------------------------------------------
\* The cycle returns and its lock is released.
Over ==
    /\ cycle' = "idle" /\ who' = NoWorkflow
    /\ pending' = Owed(0, FALSE) /\ summary' = 0 /\ ending' = "none"

\* Fault: a cycle found in flight is taken for one that changed nothing.
Mutant_Loaded(m) == Owed(m.rows, m.unknown)

\* loadWatchWorkflowOwed: a marker in flight is from a process that stopped.
Loaded(m) == Owed(m.rows, m.unknown \/ m.inFlight)

\* The cycle takes the lock and then reads the marker, which another watcher
\* may have written since; one that cannot be read is owed.
StartCycle(w) ==
    /\ cycle = "idle"
    /\ cycle' = "mark" /\ who' = w
    /\ \/ /\ pending' = Loaded(marker[w])
          /\ UNCHANGED <<faults, doubtful>>
       \/ /\ Fault
          /\ pending' = Owed(0, TRUE)
          /\ doubtful' = [doubtful EXCEPT ![w] = TRUE]
    /\ UNCHANGED <<marker, summary, ending, changes, unhandled>>

\* Fault: the marker is first written when the sync has ended.
Mutant_Marked == marker

Marked == [marker EXCEPT ![who] = Marker(pending, TRUE)]

\* The marker is in flight before the sync can commit a row.
MarkCycle ==
    /\ cycle = "mark"
    /\ marker' = Marked
    /\ cycle' = "sync"
    /\ UNCHANGED <<who, pending, summary, ending, changes, faults, unhandled, doubtful>>

MarkFails ==
    /\ cycle = "mark"
    /\ Fault
    /\ Over
    /\ UNCHANGED <<marker, changes, unhandled, doubtful>>

\* The sync changes a row, and counts it.
Commit ==
    /\ cycle = "sync"
    /\ changes < MaxChanges
    /\ changes' = changes + 1
    /\ summary' = summary + 1
    /\ unhandled' = [unhandled EXCEPT ![who] = @ + 1]
    /\ UNCHANGED <<marker, cycle, who, pending, ending, faults, doubtful>>

\* The sync ends, whole, without some resource, or with an error; what it
\* counted is reported in each case.
SyncEnds ==
    /\ cycle = "sync"
    /\ cycle' = "record"
    /\ \/ ending' = "complete" /\ NoFault
       \/ ending' \in {"incomplete", "failed"} /\ Fault
    /\ UNCHANGED <<marker, who, pending, summary, changes, unhandled, doubtful>>

\* Fault: forgets the obligation of earlier cycles.
Mutant_Added == Owed(summary, pending.unknown)

Added == Owed(pending.rows + summary, pending.unknown)

\* watchWorkflowSkipReason
Runs(owed) == ending = "complete" /\ Changed(owed)

\* The counts are in the marker before anything else happens; with nothing owed
\* there is no marker.
Record ==
    /\ cycle = "record"
    /\ marker' = [marker EXCEPT ![who] = Marker(Added, FALSE)]
    /\ IF Runs(Added)
       THEN cycle' = "run" /\ pending' = Added /\ UNCHANGED <<who, summary, ending>>
       ELSE Over
    /\ UNCHANGED <<changes, faults, unhandled, doubtful>>

RecordingFails ==
    /\ cycle = "record"
    /\ Fault
    /\ Over
    /\ doubtful' = [doubtful EXCEPT ![who] = TRUE]
    /\ UNCHANGED <<marker, changes, unhandled>>

\* The workflow runs; it sees every row committed before it began.
Succeed ==
    /\ cycle = "run"
    /\ cycle' = "clear"
    /\ unhandled' = [unhandled EXCEPT ![who] = 0]
    /\ doubtful' = [doubtful EXCEPT ![who] = FALSE]
    /\ UNCHANGED <<marker, who, pending, summary, ending, changes, faults>>

\* A failed run leaves the obligation.  An applied one also leaves a checkpoint
\* that fails the runs after it until the user resumes it, which is one fault
\* of many cycles.
Fail ==
    /\ cycle = "run"
    /\ Fault
    /\ Over
    /\ UNCHANGED <<marker, changes, unhandled, doubtful>>

Clear ==
    /\ cycle = "clear"
    /\ marker' = [marker EXCEPT ![who] = NoMarker]
    /\ Over
    /\ UNCHANGED <<changes, faults, unhandled, doubtful>>

ClearFails ==
    /\ cycle = "clear"
    /\ Fault
    /\ Over
    /\ doubtful' = [doubtful EXCEPT ![who] = TRUE]
    /\ UNCHANGED <<marker, changes, unhandled>>

\* The process is killed; the lock goes with it.
KillWatch ==
    /\ cycle # "idle"
    /\ Fault
    /\ Over
    /\ doubtful' = [doubtful EXCEPT ![who] = TRUE]
    /\ UNCHANGED <<marker, changes, unhandled>>

CycleStep ==
    \/ MarkCycle \/ MarkFails \/ Commit \/ SyncEnds \/ Record \/ RecordingFails
    \/ Succeed \/ Fail \/ Clear \/ ClearFails

Next == (\E w \in Workflows : StartCycle(w)) \/ CycleStep \/ KillWatch

Spec == Init /\ [][Next]_vars

\* A cycle that has begun goes on: it waits for nobody.  Each watcher's ticker
\* starts another at every interval, and finds the lock free again and again.
Fairness ==
    /\ WF_vars(CycleStep)
    /\ \A w \in Workflows : SF_vars(StartCycle(w))

FairSpec == Spec /\ Fairness

-----------------------------------------------------------------------------
(* Properties. *)

\* The types of the state.
TypeOK ==
    /\ marker \in [Workflows -> [rows : Nat, unknown : BOOLEAN, inFlight : BOOLEAN]]
    /\ cycle \in {"idle", "mark", "sync", "record", "run", "clear"}
    /\ who \in Workflows \cup {NoWorkflow}
    /\ (cycle = "idle") <=> (who = NoWorkflow)
    /\ pending \in [rows : Nat, unknown : BOOLEAN]
    /\ summary \in Nat
    /\ ending \in {"none", "complete", "incomplete", "failed"}
    /\ changes \in 0 .. MaxChanges /\ faults \in 0 .. MaxFaults
    /\ unhandled \in [Workflows -> Nat]
    /\ doubtful \in [Workflows -> BOOLEAN]

\* At every moment, and so whenever the process may be killed, the marker on
\* disk owes the workflow of every change that its cycles committed and no
\* successful run of it has handled (watch_workflow_owed.go: recorded before a
\* cycle can commit anything and cleared only by a successful run).
NothingForgotten ==
    \A w \in Workflows : unhandled[w] > 0 => marker[w] # NoMarker

\* Without a cycle cut short, the marker of an idle watcher counts the very
\* rows it owes, and so no workflow runs for nothing.
CountsExact ==
    \A w \in Workflows : ~doubtful[w] /\ who # w =>
        marker[w] = Marker(Owed(unhandled[w], FALSE), FALSE)

\* A workflow only runs for a change, or for the doubt a cut short cycle left.
NoIdleRun == cycle = "run" => unhandled[who] > 0 \/ doubtful[who]

\* Every committed change is handled in the end, if the watcher keeps ticking
\* and faults stop.
EveryChangeHandled == \A w \in Workflows : (unhandled[w] > 0) ~> (unhandled[w] = 0)
=============================================================================
