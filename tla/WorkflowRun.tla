---------------------------- MODULE WorkflowRun -----------------------------
(***************************************************************************)
(* "zotio workflow run --yes" (internal/cli/workflow_run.go): the steps of *)
(* a spec, one after the other, with a checkpoint sidecar from which       *)
(* --resume continues.  A step is marked in progress before it runs and    *)
(* its status is recorded afterwards; a kill between the two leaves it in  *)
(* progress, and --resume then refuses.                                    *)
(*                                                                         *)
(* An approval is one --yes: it begins with a new checkpoint and lasts     *)
(* until a run removes the checkpoint or the user discards it.             *)
(***************************************************************************)
EXTENDS CreateRoutes

CONSTANTS
    NumSteps,
    Specs,          \* the workflow files considered
    Batches,        \* the change batches that may start a run
    NoBatch         \* a run without one

VARIABLES
    spec,
    checkpoint,     \* the sidecar; NoCheckpoint if there is none
    pc, at,         \* where the run is, and at which step
    good,           \* report.OK
    results,        \* what later steps know of a step
    outcome,        \* how the last run ended, until its caller has read it
    succeeded,      \* ghost: steps that have succeeded in this approval
    declined        \* ghost: steps skipped for their condition or selection

runVars == <<checkpoint, pc, at, good, results, outcome, succeeded, declined>>
workflowVars == <<spec, runVars, createVars, faults>>

Step == 1..NumSteps

\* A step creates by one of the routes or does something repeatable; it may use
\* the output of a step before it, run only if that one ended in a given way,
\* and select values from its input.
StepKinds == Routes \cup {"plain"}
StepSpecs == [kind : StepKinds, uses : 0..NumSteps, when : 0..NumSteps,
              is : {"ok", "failed", "skipped"}, selects : BOOLEAN]
SpecShapes == [step : [Step -> StepSpecs], continueOnError : BOOLEAN, readsTrigger : BOOLEAN]

ASSUME WorkflowAssumption ==
    /\ NumSteps \in Nat \ {0} /\ Steps = Step
    /\ Specs \subseteq SpecShapes
    /\ \A w \in Specs, i \in Step : w.step[i].uses < i /\ w.step[i].when < i
    /\ NoBatch \notin Batches

Statuses == {"none", "in_progress", "ok", "failed", "blocked", "skipped"}
NoCheckpoint == [batch |-> NoBatch, status |-> <<>>]
Fresh(batch) == [batch |-> batch, status |-> [i \in Step |-> "none"]]
Exists == checkpoint # NoCheckpoint

WorkflowInit ==
    /\ spec \in Specs
    /\ checkpoint = NoCheckpoint
    /\ pc = "idle" /\ at = 1 /\ good = TRUE
    /\ results = [i \in Step |-> "none"]
    /\ outcome = "none"
    /\ succeeded = {} /\ declined = {}
    /\ CreateInit

This == spec.step[at]

-----------------------------------------------------------------------------
\* Every run walks the steps from the first.
Walk(known) ==
    /\ pc' = "step" /\ at' = 1 /\ good' = TRUE
    /\ results' = known
    /\ outcome' = "none"

End(result) ==
    /\ pc' = "idle" /\ at' = 1 /\ good' = TRUE
    /\ results' = [i \in Step |-> "none"]
    /\ outcome' = result

\* A run without --resume refuses to start while there is a checkpoint, and
\* otherwise writes a new one first.  A failed directory sync is an error, but
\* the new file may be there.
Start(batch) ==
    /\ pc = "idle"
    /\ IF Exists
       THEN End("failed") /\ UNCHANGED <<checkpoint, succeeded, declined, createVars, faults>>
       ELSE /\ succeeded' = {} /\ declined' = {}
            /\ NewPayloads
            /\ LET new == Fresh(IF spec.readsTrigger THEN batch ELSE NoBatch)
               IN  \/ checkpoint' = new /\ Walk([i \in Step |-> "none"]) /\ NoFault
                   \/ Fault /\ checkpoint' \in {NoCheckpoint, new} /\ End("failed")
    /\ UNCHANGED spec

\* Fault: a step in progress is taken for one that has failed.
Mutant_Resumable == Exists

\* validateWorkflowRunCheckpoint
Resumable == Exists /\ \A i \in Step : checkpoint.status[i] # "in_progress"

Resume ==
    /\ pc = "idle" /\ Resumable
    /\ Walk(checkpoint.status)
    /\ UNCHANGED <<spec, checkpoint, succeeded, declined, createVars, faults>>

\* The user deletes the sidecar to start over.
Discard ==
    /\ pc = "idle" /\ Exists
    /\ checkpoint' = NoCheckpoint
    /\ succeeded' = {} /\ declined' = {}
    /\ NewPayloads
    /\ UNCHANGED <<spec, pc, at, good, results, outcome, faults>>

-----------------------------------------------------------------------------
\* The step's result is remembered and the run goes on to the next.
GoOn(result) ==
    /\ pc' = "step" /\ at' = at + 1
    /\ results' = [results EXCEPT ![at] = result]

\* The rest is not attempted.
Stop ==
    /\ pc' = "finish" /\ good' = FALSE
    /\ UNCHANGED <<at, results>>

\* A step has failed and stops the run, unless the spec says otherwise.
FailStep ==
    IF spec.continueOnError THEN GoOn("failed") /\ good' = FALSE ELSE Stop

\* checkpointWorkflowRunStep
Recorded(status) == checkpoint' = [checkpoint EXCEPT !.status[at] = status]

\* The status may be on disk although writing it has failed; the run stops.
RecordFails(status) ==
    /\ Fault
    /\ UNCHANGED checkpoint \/ Recorded(status)
    /\ Stop

AtStep == pc = "step" /\ at \in Step

\* Fault: a step that failed in the earlier run is taken for completed.
Mutant_Completed == checkpoint.status[at] \in {"ok", "skipped", "failed"}

\* What --resume does not run again.
Completed == checkpoint.status[at] \in {"ok", "skipped"}

SkipCompleted ==
    /\ AtStep /\ Completed
    /\ GoOn(results[at])
    /\ UNCHANGED <<spec, checkpoint, good, outcome, succeeded, declined, createVars, faults>>

\* The step has applied part of its creates: a person has to look.
Blocked == checkpoint.status[at] = "blocked"

HaltBlocked ==
    /\ AtStep /\ Blocked
    /\ Stop
    /\ UNCHANGED <<spec, checkpoint, outcome, succeeded, declined, createVars, faults>>

Due == AtStep /\ ~Completed /\ ~Blocked
Unmet == This.when # 0 /\ results[This.when] # This.is
Unavailable == This.uses # 0 /\ results[This.uses] # "ok"

\* A condition that is not met, or a selection without values, skips the step
\* for good.
Skip ==
    /\ Due
    /\ Unmet \/ (~Unavailable /\ This.selects)
    /\ declined' = declined \cup {at}
    /\ \/ Recorded("skipped") /\ GoOn("skipped") /\ UNCHANGED <<good, faults>>
       \/ RecordFails("skipped")
    /\ UNCHANGED <<spec, outcome, succeeded, createVars>>

\* The output the step uses is not there: it fails without a record.
Unprepared ==
    /\ Due /\ ~Unmet /\ Unavailable
    /\ FailStep
    /\ UNCHANGED <<spec, checkpoint, outcome, succeeded, declined, createVars, faults>>

\* The step is in progress on disk before it runs.
Mark ==
    /\ Due /\ ~Unmet /\ ~Unavailable
    /\ \/ Recorded("in_progress") /\ pc' = "run" /\ UNCHANGED <<at, good, results, faults>>
       \/ RecordFails("in_progress")
    /\ UNCHANGED <<spec, outcome, succeeded, declined, createVars>>

-----------------------------------------------------------------------------
Run ==
    /\ pc = "run"
    /\ IF This.kind = "plain"
       THEN /\ \/ answer' = "ok" /\ NoFault
               \/ answer' = "failed" /\ Fault
            /\ UNCHANGED <<request, tokens, inFlight, guards, copies>>
       ELSE Dispatch(at, This.kind) \/ RefuseImport(at, This.kind)
    /\ pc' = "wait"
    /\ UNCHANGED <<spec, checkpoint, at, good, results, outcome, succeeded, declined>>

Wait ==
    /\ pc = "wait"
    /\ Respond
    /\ UNCHANGED <<spec, runVars>>

Returned == pc = "wait" /\ request = NoRequest /\ answer # "none"
Consumed == answer' = "none" /\ UNCHANGED <<request, tokens, inFlight, guards, copies>>

\* An error return while the library has accepted some of the creates.
Partly == answer = "partial"

StatusOf ==
    IF answer = "ok" THEN "ok" ELSE IF Partly THEN "blocked" ELSE "failed"

RecordOk ==
    /\ Returned /\ answer = "ok"
    /\ succeeded' = succeeded \cup {at}
    /\ \/ Recorded(StatusOf) /\ GoOn("ok") /\ UNCHANGED <<good, faults>>
       \/ RecordFails(StatusOf)
    /\ Consumed
    /\ UNCHANGED <<spec, outcome, declined>>

RecordFailed ==
    /\ Returned /\ answer # "ok"
    /\ \/ /\ Recorded(StatusOf) /\ NoFault
          /\ IF StatusOf = "blocked" THEN Stop ELSE FailStep
       \/ RecordFails(StatusOf)
    /\ Consumed
    /\ UNCHANGED <<spec, outcome, succeeded, declined>>

-----------------------------------------------------------------------------
\* A run whose steps are all good removes the checkpoint.
Finish ==
    /\ pc = "finish" \/ (pc = "step" /\ at = NumSteps + 1)
    /\ \/ ~good /\ End("failed") /\ UNCHANGED <<checkpoint, faults>>
       \/ good /\ checkpoint' = NoCheckpoint /\ End("ok") /\ NoFault
       \/ good /\ Fault /\ End("failed") /\ UNCHANGED checkpoint
    /\ UNCHANGED <<spec, succeeded, declined, createVars>>

\* The process stops.
KillRun ==
    /\ End("none")
    /\ Abandon
    /\ UNCHANGED <<spec, checkpoint, succeeded, declined>>

WorkflowStep ==
    \/ SkipCompleted \/ HaltBlocked \/ Skip \/ Unprepared \/ Mark
    \/ Run \/ Wait \/ RecordOk \/ RecordFailed \/ Finish

Arrive == \E s \in Steps : Late(s) /\ UNCHANGED <<spec, runVars>>

-----------------------------------------------------------------------------
WorkflowTypeOK ==
    /\ spec \in Specs
    /\ checkpoint \in {NoCheckpoint} \cup [batch : Batches \cup {NoBatch}, status : [Step -> Statuses]]
    /\ pc \in {"idle", "step", "run", "wait", "finish"}
    /\ at \in 1..(NumSteps + 1)
    /\ good \in BOOLEAN
    /\ results \in [Step -> Statuses]
    /\ outcome \in {"none", "ok", "failed"}
    /\ succeeded \subseteq Step /\ declined \subseteq Step
    /\ CreateTypeOK

\* A run that reports success leaves no step behind: each has succeeded in this
\* approval, in this run or in one it resumes, or was skipped because its own
\* condition or selection said so (workflow_run.go:890).
SuccessIsWhole == outcome = "ok" => succeeded \cup declined = Step
=============================================================================
