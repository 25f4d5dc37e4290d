---------------------------- MODULE MutationRun -----------------------------
(***************************************************************************)
(* One mutation run: the engine RunObserved of internal/mutation, the      *)
(* adapter runMutation of internal/cli/mutate.go around it, and the        *)
(* batched updater that sends several operations in one request.           *)
(*                                                                         *)
(* Operations run in order.  An operation whose plan is non-empty calls    *)
(* its Apply; the first operation of a request sends it and the others     *)
(* read the decoded answer.  Each landed operation is marked (a permanent  *)
(* delete) and recorded in the journal before the next one starts.  The    *)
(* caller may cancel the run and the process may be killed at any step.    *)
(***************************************************************************)
EXTENDS Naturals, FiniteSets

CONSTANTS
    NumOps,         \* bound: the operations of a plan
    Plans,          \* the plans and options a run may be given
    LateDeletes     \* may a delete land after the read-back still saw the item?

Ops == 1 .. NumOps

PlanType ==
    [changes : SUBSET Ops,           \* the operations with something to change
     deletes : SUBSET Ops,           \* those of kind item_delete
     invalid : SUBSET Ops,           \* those with an InvalidReason
     destructive : SUBSET Ops,
     batch : BOOLEAN,                \* a batchItemUpdater, or one request each
     request : [Ops -> Nat],         \* the request that carries an operation
     apply : BOOLEAN,                \* --yes and not --dry-run
     cap : Nat,                      \* EffectiveMaxChanges
     allowDestructive : BOOLEAN,
     continueOnError : BOOLEAN,
     maxFailures : Nat,              \* 0: no limit
     hasKey : BOOLEAN]               \* is a Web API key configured?

\* Requests are filled in plan order: chunkStart for a batch, one operation
\* each otherwise.
ASSUME PlansAssumption ==
    /\ NumOps \in Nat
    /\ LateDeletes \in BOOLEAN
    /\ Plans \subseteq PlanType
    /\ \A p \in Plans :
         /\ p.deletes \subseteq p.changes
         /\ \A a, b \in Ops : a <= b => p.request[a] <= p.request[b]
         /\ p.batch => p.continueOnError

VARIABLES
    plan,
    pc,
    op,             \* the loop's current operation
    stop, canceled, observeErr, heldBack,    \* RunObserved's locals
    ctxDone,        \* the caller's context is cancelled
    items,          \* result.items: the status reported for each operation
    fate,           \* what the answer to an operation's request says of it
    landed,         \* the operations whose write reached the library
    late,           \* those whose request may still reach it
    marked,         \* deletes with an ADR-0007 deletion marker in the mirror
    unmarked,       \* deletes whose marker could not be written
    checkpoints,    \* the operations with an op-level journal record
    finalStored,    \* is the run's final journal entry in the journal?
    warned,         \* was "applied but not journaled" reported?
    exit            \* how the command ended

engineVars == <<stop, canceled, observeErr, heldBack>>
libraryVars == <<fate, landed, late>>
mirrorVars == <<marked, unmarked>>
journalVars == <<checkpoints, finalStored, warned>>
vars == <<plan, pc, op, engineVars, ctxDone, items, libraryVars, mirrorVars,
          journalVars, exit>>

\* "unknown" is failed and "differs" is conflict, both with committed:true:
\* the answer was lost, and reading the item back failed or did not show the
\* requested fields.
BatchAnswers == {"applied", "conflict", "failed", "unknown"}
Answers == BatchAnswers \cup {"no_op", "skipped", "differs"}
Fates == Answers \cup {"none", "unsent"}
Statuses == Answers \cup {"none", "not_attempted"}
Exits == {"none", "refused", "preview", "ok", "credentials", "barrier",
          "canceled", "partial", "incomplete"}

-----------------------------------------------------------------------------
Members(o) == {m \in plan.changes : plan.request[m] = plan.request[o]}

\* Fault: a member of a sent batch counts as not attempted once the run stops.
Mutant_Dispatched(o) == FALSE

\* Op.Dispatched: the write already left the process with an earlier
\* operation of its request.
Dispatched(o) == fate[o] \notin {"none", "unsent"}

Uncertain(status) == status \in {"unknown", "differs"}

\* OpLanded: applied, or committed with an outcome nobody could confirm.
Landed(status) == status = "applied" \/ Uncertain(status)

Bad(status) == status \in {"conflict", "failed"} \/ Uncertain(status)
Failures == {o \in Ops : Bad(items[o])}
AnyLanded == \E o \in Ops : Landed(items[o])
AppliedDeletes == {o \in plan.deletes : items[o] = "applied"}

\* Fault: the run goes on after a write it could not record.
Mutant_HoldsBack(o) == FALSE

\* An earlier landed write could not be recorded: no new write may start.
HoldsBack(o) == observeErr /\ o \in plan.changes

Init ==
    /\ plan \in Plans
    /\ pc = "gates"
    /\ op = 1
    /\ stop = FALSE /\ canceled = FALSE /\ observeErr = FALSE /\ heldBack = FALSE
    /\ ctxDone = FALSE
    /\ items = [o \in Ops |-> "none"]
    /\ fate = [o \in Ops |-> "none"]
    /\ landed = {} /\ late = {}
    /\ marked = {} /\ unmarked = {}
    /\ checkpoints = {} /\ finalStored = FALSE /\ warned = FALSE
    /\ exit = "none"

Running == pc \notin {"done", "killed"}

-----------------------------------------------------------------------------
(* firstInvalid, CheckGates and the preview return. *)
Refused ==
    \/ plan.invalid # {}
    \/ Cardinality(plan.changes) > plan.cap
    \/ plan.destructive # {} /\ ~plan.allowDestructive

CheckGates ==
    /\ pc = "gates"
    /\ \/ Refused /\ exit' = "refused" /\ pc' = "done"
       \/ ~Refused /\ ~plan.apply /\ exit' = "preview" /\ pc' = "done"
       \/ ~Refused /\ plan.apply /\ pc' = "loop" /\ UNCHANGED exit
    /\ UNCHANGED <<plan, op, engineVars, ctxDone, items, libraryVars,
                   mirrorVars, journalVars>>

(* The top of the loop: the cancellation check, then what becomes of op. *)
CancelCheck ==
    /\ stop' = (stop \/ ctxDone)
    /\ canceled' = (canceled \/ (~stop /\ ctxDone))

LeaveOut ==
    /\ (stop \/ ctxDone \/ HoldsBack(op)) /\ ~Dispatched(op)
    /\ items' = [items EXCEPT ![op] = "not_attempted"]
    /\ heldBack' = (heldBack \/ HoldsBack(op))
    /\ op' = op + 1
    /\ UNCHANGED pc

NothingToDo ==
    /\ ~(stop \/ ctxDone)
    /\ op \notin plan.changes
    /\ items' = [items EXCEPT ![op] = "no_op"]
    /\ op' = op + 1
    /\ UNCHANGED <<pc, heldBack>>

StartOp ==
    /\ Dispatched(op) \/ ~(stop \/ ctxDone \/ HoldsBack(op))
    /\ op \in plan.changes
    /\ pc' = "apply"
    /\ UNCHANGED <<op, heldBack, items>>

Decide ==
    /\ pc = "loop"
    /\ op <= NumOps
    /\ CancelCheck
    /\ LeaveOut \/ NothingToDo \/ StartOp
    /\ UNCHANGED <<plan, observeErr, ctxDone, libraryVars, mirrorVars,
                   journalVars, exit>>

-----------------------------------------------------------------------------
(* Apply of the first operation of a request: the request and its answer.  *)
(* Refused before it left: a cancelled context, or no Web API key.  Else   *)
(* the answer gives each member its own outcome; one that is lost, or that *)
(* cannot be attributed, leaves the outcome unknown, and then the write    *)
(* may have landed, may land later, or never.                              *)
Unsent(f) == [o \in Ops |-> IF o \in Members(op) THEN f ELSE fate[o]]

Withheld ==
    /\ \/ ctxDone /\ fate' = Unsent("unsent")
       \/ ~plan.hasKey /\ fate' = Unsent("failed")
    /\ UNCHANGED <<landed, late>>

\* After an ambiguous DELETE the item is read back; a read that still finds
\* it reports a plain failure.
MayLandLate(f) ==
    {o \in Members(op) : \/ Uncertain(f[o])
                         \/ LateDeletes /\ o \in plan.deletes /\ f[o] = "failed"}

Answered ==
    /\ plan.hasKey
    /\ \E f \in [Members(op) -> IF plan.batch THEN BatchAnswers ELSE Answers] :
         /\ fate' = [o \in Ops |-> IF o \in Members(op) THEN f[o] ELSE fate[o]]
         /\ \E pending \in SUBSET MayLandLate(f) :
              \E hit \in SUBSET {o \in Members(op) : Uncertain(f[o])} :
                /\ hit \cap pending = {}
                /\ landed' = landed \cup hit
                               \cup {o \in Members(op) : f[o] = "applied"}
                /\ late' = late \cup pending

Send ==
    /\ pc = "apply"
    /\ fate[op] = "none"
    /\ Withheld \/ Answered
    /\ UNCHANGED <<plan, pc, op, engineVars, ctxDone, items, mirrorVars,
                   journalVars, exit>>

(* Apply returns op's own outcome, which onOutcome then handles. *)
Reported(f) == IF f = "unsent" THEN "failed" ELSE f

\* Fault: deletion markers are left to the write-through at the end.
Mutant_AfterApply(status) == IF Landed(status) THEN "record" ELSE "tally"

AfterApply(status) ==
    IF status = "applied" /\ op \in plan.deletes THEN "mark"
    ELSE IF Landed(status) THEN "record" ELSE "tally"

Collect ==
    /\ pc = "apply"
    /\ fate[op] # "none"
    /\ items' = [items EXCEPT ![op] = Reported(fate[op])]
    /\ pc' = AfterApply(items'[op])
    /\ UNCHANGED <<plan, op, engineVars, ctxDone, libraryVars, mirrorVars,
                   journalVars, exit>>

(* mirrorPermanentDelete, silent about a mirror it cannot write. *)
MarkDelete ==
    /\ pc = "mark"
    /\ \/ marked' = marked \cup {op} /\ UNCHANGED unmarked
       \/ unmarked' = unmarked \cup {op} /\ UNCHANGED marked
    /\ pc' = "record"
    /\ UNCHANGED <<plan, op, engineVars, ctxDone, items, libraryVars,
                   journalVars, exit>>

(* mutationOutcomeRecorder: WriteEntry of the op-level record.  An error   *)
(* return leaves the record in the journal or not.                         *)
RecordOutcome ==
    /\ pc = "record"
    /\ \E stored, failed \in BOOLEAN :
         /\ stored \/ failed
         /\ checkpoints' = IF stored THEN checkpoints \cup {op} ELSE checkpoints
         /\ observeErr' = (observeErr \/ failed)
    /\ pc' = "tally"
    /\ UNCHANGED <<plan, op, stop, canceled, heldBack, ctxDone, items,
                   libraryVars, mirrorVars, finalStored, warned, exit>>

(* The stop rules at the end of the loop body. *)
StopRule ==
    IF Bad(items[op]) /\ ~plan.continueOnError THEN TRUE
    ELSE /\ plan.continueOnError
         /\ plan.maxFailures > 0
         /\ Cardinality(Failures) >= plan.maxFailures

Tally ==
    /\ pc = "tally"
    /\ stop' = (stop \/ StopRule)
    /\ op' = op + 1
    /\ pc' = "loop"
    /\ UNCHANGED <<plan, canceled, observeErr, heldBack, ctxDone, items,
                   libraryVars, mirrorVars, journalVars, exit>>

-----------------------------------------------------------------------------
(* applyMirrorWriteThrough repeats the idempotent reaps and reports those  *)
(* that fail.                                                              *)
WriteThrough ==
    /\ pc = "loop"
    /\ op > NumOps
    /\ \E failing \in SUBSET AppliedDeletes :
         /\ marked' = marked \cup (AppliedDeletes \ failing)
         /\ unmarked' = failing \ marked
    /\ pc' = "journal"
    /\ UNCHANGED <<plan, op, engineVars, ctxDone, items, libraryVars,
                   journalVars, exit>>

\* Fault: a run whose only writes are unconfirmed keeps no final entry.
Mutant_HasWrite == \E o \in Ops : items[o] = "applied"

\* recordMutationJournal's hasWrite.
HasWrite == AnyLanded

RecordRun ==
    /\ pc = "journal"
    /\ IF HasWrite
       THEN \E stored, failed \in BOOLEAN :
              /\ stored \/ failed
              /\ finalStored' = stored
              /\ warned' = failed
       ELSE UNCHANGED <<finalStored, warned>>
    /\ pc' = "classify"
    /\ UNCHANGED <<plan, op, engineVars, ctxDone, items, libraryVars,
                   mirrorVars, checkpoints, exit>>

\* env.OK, and classifyMutationErr's test for a partial run.
Complete == \A o \in Ops : ~Bad(items[o]) /\ items[o] # "not_attempted"
Partial ==
    /\ \E o \in Ops : items[o] = "applied"
    /\ \E o \in Ops : items[o] \in {"failed", "unknown", "not_attempted"}

\* watchMissingWriteKey saw an Apply refused for want of a key.
KeyRefused ==
    /\ ~plan.hasKey
    /\ \E o \in plan.changes : fate[o] = "failed" /\ items[o] = "failed"
    /\ \A o \in Ops : items[o] # "applied"

Verdict ==
    CASE KeyRefused -> "credentials"
      [] ~KeyRefused /\ Complete -> "ok"
      [] ~KeyRefused /\ ~Complete /\ heldBack -> "barrier"
      [] ~KeyRefused /\ ~Complete /\ ~heldBack /\ canceled /\ ~AnyLanded -> "canceled"
      [] ~KeyRefused /\ ~Complete /\ ~heldBack /\ ~(canceled /\ ~AnyLanded) ->
            IF Partial THEN "partial" ELSE "incomplete"

Classify ==
    /\ pc = "classify"
    /\ exit' = Verdict
    /\ pc' = "done"
    /\ UNCHANGED <<plan, op, engineVars, ctxDone, items, libraryVars,
                   mirrorVars, journalVars>>

-----------------------------------------------------------------------------
(* The environment: the caller cancels, the process is killed, the library *)
(* processes a request whose answer was lost.                              *)
Cancel ==
    /\ Running
    /\ ~ctxDone
    /\ ctxDone' = TRUE
    /\ UNCHANGED <<plan, pc, op, engineVars, items, libraryVars, mirrorVars,
                   journalVars, exit>>

Kill ==
    /\ Running
    /\ pc' = "killed"
    /\ UNCHANGED <<plan, op, engineVars, ctxDone, items, libraryVars, mirrorVars,
                   journalVars, exit>>

LandLate ==
    /\ \E o \in late : landed' = landed \cup {o} /\ late' = late \ {o}
    /\ UNCHANGED <<plan, pc, op, engineVars, ctxDone, items, fate, mirrorVars,
                   journalVars, exit>>

Next ==
    \/ CheckGates \/ Decide \/ Send \/ Collect \/ MarkDelete
    \/ RecordOutcome \/ Tally \/ WriteThrough \/ RecordRun \/ Classify
    \/ Cancel \/ Kill \/ LandLate

Spec == Init /\ [][Next]_vars

-----------------------------------------------------------------------------
(* Properties. *)

\* The shape of the state.
TypeOK ==
    /\ plan \in Plans
    /\ pc \in {"gates", "loop", "apply", "mark", "record", "tally", "journal",
               "classify", "done", "killed"}
    /\ op \in 1 .. NumOps + 1
    /\ {stop, canceled, observeErr, heldBack, ctxDone, finalStored, warned}
          \subseteq BOOLEAN
    /\ items \in [Ops -> Statuses]
    /\ fate \in [Ops -> Fates]
    /\ landed \subseteq Ops /\ late \subseteq Ops
    /\ marked \subseteq plan.deletes /\ unmarked \subseteq plan.deletes
    /\ checkpoints \subseteq Ops
    /\ exit \in Exits

\* What an undo finds: the final entry, which folding prefers, or the op-level
\* records of a run that never wrote one.
Recoverable == IF finalStored THEN {o \in Ops : Landed(items[o])} ELSE checkpoints

\* The operations the library may show: answered applied, or unknown.
Owed == {o \in Ops : Landed(fate[o])}

\* However the run ends, at any moment the writes that landed without a
\* journal record were all carried by one request, and nothing was sent after
\* it (RunObserved's hold-back, runMutation's fail-closed recorder).
OneRequestAtRisk ==
    \A o \in (landed \cup late) \ Recoverable :
        \A m \in Ops : fate[m] \notin {"none", "unsent"} =>
            plan.request[m] <= plan.request[o]

\* The result items never misstate the library: applied means landed, and an
\* operation whose write landed, or may still land, is reported applied or
\* committed with an unknown outcome once it is reported at all ("recovery
\* must not silently discard", OpLanded).
ReportTruthful ==
    \A o \in Ops :
        /\ items[o] = "applied" => o \in landed
        /\ o \in landed \cup late => items[o] = "none" \/ Landed(items[o])

\* A run that ended without the journal warning can be undone whole: every
\* write that landed, or may land yet, is in its journal entry.
UndoableUnlessWarned ==
    pc = "done" /\ ~warned => landed \cup late \subseteq Recoverable

\* The deletion marker is written, or its failure known, before the journal
\* says the delete happened, so that no kill leaves a recorded delete that the
\* next sync resurrects (ADR-0007).
MarkedBeforeRecorded ==
    \A o \in checkpoints \cap plan.deletes :
        items[o] = "applied" => o \in marked \cup unmarked

\* No request leaves after a failure without --continue-on-error, after the
\* failure limit is reached, or after the run noticed its cancellation.
FailFast ==
    [][fate' # fate =>
         /\ ~canceled
         /\ plan.continueOnError \/ Failures = {}
         /\ plan.continueOnError /\ plan.maxFailures > 0
               => Cardinality(Failures) < plan.maxFailures]_vars

\* The run implements the write-ahead ledger: nothing is sent while an earlier
\* landed write has no record, and no record is ever lost, the final entry
\* that replaces the op-level ones included.
Ledger == INSTANCE WriteLedger WITH owed <- Owed, recorded <- Recoverable
LedgerSpec == Ledger!Spec
=============================================================================
