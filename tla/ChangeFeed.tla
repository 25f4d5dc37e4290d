----------------------------- MODULE ChangeFeed -----------------------------
(***************************************************************************)
(* "zotio tail --workflow <spec> --yes": the poll of TailPoll hands what   *)
(* it owes to the runner of WorkflowRun.  A workflow that fails leaves its *)
(* checkpoint; while it is there every poll's run is refused, and the user *)
(* resumes it or deletes it between two polls ("zotio workflow run --yes   *)
(* --resume").  The library changes all along.                             *)
(***************************************************************************)
EXTENDS TailPoll, WorkflowRun

VARIABLE caller     \* who runs the workflow: "tail", "user" or "none"

feedVars == <<tailVars, workflowVars, caller>>

ASSUME FeedAssumption == Batches = OwedBatches

FeedInit ==
    /\ TailInit /\ WorkflowInit
    /\ caller = "none"
    /\ faults = 0

\* The hook starts the workflow with everything owed.
HookRuns ==
    /\ poll = "hook" /\ ~Empty(owed)
    /\ ~(spec.readsTrigger /\ TriggerSkipped)
    /\ Start(owed)
    /\ poll' = "running" /\ caller' = "tail"
    /\ UNCHANGED <<libraryVars, cursor, owed, file, disk, work, since, accounted>>

HookSkips ==
    /\ poll = "hook" /\ ~Empty(owed)
    /\ spec.readsTrigger /\ TriggerSkipped
    /\ Handled
    /\ UNCHANGED <<workflowVars, caller>>

\* The run is over and its outcome is read.
Read(result) ==
    /\ caller # "none" /\ outcome = result
    /\ outcome' = "none" /\ caller' = "none"
    /\ UNCHANGED <<spec, checkpoint, pc, at, good, results, succeeded, declined, createVars, faults>>

HookReturns ==
    /\ caller = "tail"
    /\ \/ Read("ok") /\ Handled
       \/ Read("failed") /\ TriggerHeld

UserReads ==
    /\ caller = "user"
    /\ Read("ok") \/ Read("failed")
    /\ UNCHANGED tailVars

UserResumes ==
    /\ poll = "idle" /\ caller = "none"
    /\ Resume
    /\ caller' = "user"
    /\ UNCHANGED tailVars

UserDiscards ==
    /\ poll = "idle" /\ caller = "none"
    /\ Discard
    /\ UNCHANGED <<tailVars, caller>>

WorkflowSteps == WorkflowStep /\ UNCHANGED <<tailVars, caller>>

TailSteps ==
    /\ caller = "none"
    /\ TailStep \/ FailPoll \/ AppendFails
    /\ UNCHANGED <<spec, runVars, createVars, caller>>

World ==
    \/ (\E k \in Keys : LibraryChanges(k)) /\ UNCHANGED <<workflowVars, caller>>
    \/ Arrive /\ UNCHANGED <<tailVars, caller>>

\* The process, or the machine, stops.
Kill ==
    /\ poll # "idle" \/ caller # "none"
    /\ Fault
    /\ KillRun /\ KillPoll
    /\ caller' = "none"

Blackout ==
    /\ PowerLoss
    /\ KillRun
    /\ caller' = "none"

FeedNext ==
    \/ TailSteps \/ HookRuns \/ HookSkips \/ HookReturns
    \/ WorkflowSteps \/ UserReads \/ UserResumes \/ UserDiscards
    \/ World \/ Kill \/ Blackout

FeedTypeOK == TailTypeOK /\ WorkflowTypeOK /\ caller \in {"none", "tail", "user"}

FeedSpec == FeedInit /\ [][FeedNext]_feedVars
=============================================================================
