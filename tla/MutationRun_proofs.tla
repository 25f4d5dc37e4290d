------------------------- MODULE MutationRun_proofs -------------------------
(***************************************************************************)
(* Proofs about MutationRun.  The argument: operations are taken in order, *)
(* a request is sent whole, and the run keeps a write-ahead discipline:    *)
(* every operation behind the loop that landed has its record, or          *)
(* observeErr is set and nothing is sent any more.                         *)
(***************************************************************************)
EXTENDS MutationRun, TLAPS

(* The parts of the inductive invariant.                                   *)

\* The loop's place: what is reported and what is not yet.
Place ==
    /\ pc \in {"gates", "loop", "apply", "mark", "record", "tally", "journal"} =>
         ~finalStored
    /\ pc = "gates" => op = 1
    /\ pc \in {"apply", "mark", "record", "tally"} => op \in plan.changes
    /\ pc \in {"journal", "classify"} => op = NumOps + 1
    /\ pc \in {"mark", "record", "tally"} => items[op] = Reported(fate[op])
    /\ pc \in {"mark", "record", "tally"} => fate[op] # "none"
    /\ pc = "mark" => op \in plan.deletes /\ items[op] = "applied"
    /\ pc = "record" => Landed(items[op])
    /\ pc \notin {"mark", "record", "tally", "killed"} =>
         \A o \in Ops : o >= op => items[o] = "none"
    /\ \A o \in Ops : o > op => items[o] = "none"
    /\ \A o \in Ops : o < op => items[o] # "none"

\* Requests are sent whole, in order, and only for planned changes.
Requests ==
    /\ \A o \in Ops : fate[o] # "none" => o \in plan.changes
    /\ \A a, b \in plan.changes :
         plan.request[a] = plan.request[b] /\ fate[a] # "none" => fate[b] # "none"
    /\ op \in Ops =>
         \A o \in Ops : fate[o] # "none" => plan.request[o] <= plan.request[op]
    /\ \A o \in plan.changes :
         o < op /\ fate[o] = "none" => items[o] = "not_attempted"
    /\ (\E o \in Ops : items[o] = "not_attempted") => stop \/ observeErr
    /\ pc = "apply" /\ fate[op] = "none" => ~stop /\ ~observeErr

\* A reported outcome is the one the answer gave.
Reports ==
    \A o \in Ops :
        /\ Dispatched(o) => items[o] \in {"none", fate[o]}
        /\ Landed(items[o]) => items[o] = fate[o]

\* The write-ahead discipline.
Ahead ==
    /\ checkpoints \subseteq {o \in Ops : Landed(items[o])}
    /\ ~observeErr => \A o \in Ops :
         /\ o < op /\ Landed(items[o]) => o \in checkpoints
         /\ o = op /\ pc = "tally" /\ Landed(items[o]) => o \in checkpoints

IInv == TypeOK /\ Place /\ Requests /\ Reports /\ Ahead

-----------------------------------------------------------------------------
LEMMA PlanFacts ==
    ASSUME plan \in Plans
    PROVE  /\ plan.changes \subseteq Ops
           /\ plan.deletes \subseteq plan.changes
           /\ plan.request \in [Ops -> Nat]
           /\ \A a, b \in Ops : a <= b => plan.request[a] <= plan.request[b]
           /\ plan.continueOnError \in BOOLEAN
           /\ plan.maxFailures \in Nat
           /\ NumOps \in Nat
  <1>1. plan \in PlanType
    BY PlansAssumption
  <1> QED
    BY <1>1, PlansAssumption DEF PlanType

LEMMA InitIInv == Init => IInv
  <1> SUFFICES ASSUME Init PROVE IInv
    OBVIOUS
  <1> USE DEF Init
  <1>1. 1 \in 1 .. NumOps + 1
    BY PlansAssumption
  <1>2. TypeOK
    BY <1>1 DEF TypeOK, Statuses, Answers, BatchAnswers, Fates, Exits
  <1>3. Place
    BY PlansAssumption DEF Place, Ops
  <1>4. Requests
    BY PlanFacts DEF Requests, Ops
  <1>5. Reports /\ Ahead
    BY DEF Reports, Ahead, Landed, Uncertain, Dispatched
  <1> QED
    BY <1>2, <1>3, <1>4, <1>5 DEF IInv

-----------------------------------------------------------------------------
(* One lemma per kind of step.                                             *)

LEMMA StepGates == IInv /\ CheckGates => IInv'
  <1> SUFFICES ASSUME IInv, CheckGates PROVE IInv'
    OBVIOUS
  <1> USE DEF CheckGates, engineVars, libraryVars, mirrorVars, journalVars, IInv
  <1>1. TypeOK'
    BY DEF TypeOK, Exits
  <1>2. Place'
    BY DEF Place
  <1>3. Requests'
    BY DEF Requests
  <1>4. Reports' /\ Ahead'
    BY DEF Reports, Ahead, Landed, Uncertain, Dispatched
  <1> QED
    BY <1>1, <1>2, <1>3, <1>4

LEMMA StepLeaveOut == IInv /\ Decide /\ LeaveOut => IInv'
  <1> SUFFICES ASSUME IInv, Decide, LeaveOut PROVE IInv'
    OBVIOUS
  <1> USE DEF Decide, CancelCheck, LeaveOut, libraryVars, mirrorVars, journalVars, IInv
  <1>0. op \in Ops /\ op \in Nat /\ op + 1 \in 1 .. NumOps + 1
    BY PlanFacts DEF TypeOK, Ops
  <1>1. TypeOK'
    BY <1>0 DEF TypeOK, Statuses, HoldsBack
  <1>2. Place'
    BY <1>0 DEF Place, Ops, TypeOK, Statuses
  <1>3. Requests'
    <2>1. stop' \/ observeErr'
      BY DEF HoldsBack
    <2>2. \A o \in Ops : fate[o] # "none" /\ op + 1 \in Ops
                          => plan.request[o] <= plan.request[op + 1]
      <3>1. op <= op + 1
        BY <1>0
      <3>2. op + 1 \in Ops => plan.request[op] <= plan.request[op + 1]
        BY <1>0, <3>1, PlanFacts DEF TypeOK
      <3> QED
        BY <1>0, <3>2, PlanFacts DEF Requests, TypeOK
    <2>3. \A o \in plan.changes :
            o < op + 1 /\ fate[o] = "none" => items'[o] = "not_attempted"
      BY <1>0, PlanFacts DEF Requests, Ops, TypeOK
    <2> QED
      BY <2>1, <2>2, <2>3 DEF Requests
  <1>4. Reports'
    BY <1>0 DEF Reports, Landed, Uncertain, Dispatched, TypeOK
  <1>5. Ahead'
    BY <1>0 DEF Ahead, Landed, Uncertain, TypeOK, Ops, Place
  <1> QED
    BY <1>1, <1>2, <1>3, <1>4, <1>5

LEMMA StepNothingToDo == IInv /\ Decide /\ NothingToDo => IInv'
  <1> SUFFICES ASSUME IInv, Decide, NothingToDo PROVE IInv'
    OBVIOUS
  <1> USE DEF Decide, CancelCheck, NothingToDo, libraryVars, mirrorVars, journalVars, IInv
  <1>0. op \in Ops /\ op \in Nat /\ op + 1 \in 1 .. NumOps + 1
    BY PlanFacts DEF TypeOK, Ops
  <1>1. TypeOK'
    BY <1>0 DEF TypeOK, Statuses, Answers
  <1>2. Place'
    BY <1>0 DEF Place, Ops, TypeOK, Statuses
  <1>3. Requests'
    BY <1>0, PlanFacts DEF Requests, Ops, TypeOK, Statuses, Place
  <1>4. Reports'
    BY <1>0 DEF Reports, Landed, Uncertain, Dispatched, TypeOK, Requests
  <1>5. Ahead'
    BY <1>0 DEF Ahead, Landed, Uncertain, TypeOK, Ops, Place
  <1> QED
    BY <1>1, <1>2, <1>3, <1>4, <1>5

LEMMA StepStartOp == IInv /\ Decide /\ StartOp => IInv'
  <1> SUFFICES ASSUME IInv, Decide, StartOp PROVE IInv'
    OBVIOUS
  <1> USE DEF Decide, CancelCheck, StartOp, libraryVars, mirrorVars, journalVars, IInv
  <1>1. TypeOK'
    BY DEF TypeOK
  <1>2. Place'
    BY DEF Place
  <1>3. Requests'
    BY DEF Requests, TypeOK, HoldsBack, Dispatched
  <1>4. Reports' /\ Ahead'
    BY DEF Reports, Ahead, Landed, Uncertain, Dispatched
  <1> QED
    BY <1>1, <1>2, <1>3, <1>4

LEMMA StepCollect == IInv /\ Collect => IInv'
  <1> SUFFICES ASSUME IInv, Collect PROVE IInv'
    OBVIOUS
  <1> USE DEF Collect, engineVars, libraryVars, mirrorVars, journalVars, IInv
  <1>0. op \in Ops /\ op \in Nat
    BY PlanFacts DEF TypeOK, Place, Ops
  <1>1. items' = [items EXCEPT ![op] = Reported(fate[op])] /\ items'[op] = Reported(fate[op])
    BY <1>0 DEF TypeOK
  <1>2. Reported(fate[op]) \in Answers /\ (fate[op] # "unsent" => Reported(fate[op]) = fate[op])
    BY <1>0 DEF TypeOK, Fates, Answers, BatchAnswers, Reported
  <1>3. pc' \in {"mark", "record", "tally"} /\ (pc' = "record" => Landed(items'[op]))
        /\ (pc' = "mark" => op \in plan.deletes /\ items'[op] = "applied")
    BY DEF AfterApply, Landed
  <1>4. TypeOK'
    BY <1>0, <1>1, <1>2, <1>3 DEF TypeOK, Statuses
  <1>5. Place'
    BY <1>0, <1>1, <1>2, <1>3 DEF Place, TypeOK, Answers, BatchAnswers, Ops
  <1>6. Requests'
    BY <1>0, <1>1, <1>2, <1>3 DEF Requests, TypeOK, Answers, BatchAnswers
  <1>7. Reports'
    BY <1>0, <1>1, <1>2 DEF Reports, TypeOK, Landed, Uncertain, Dispatched, Reported
  <1>8. Ahead'
    <2>1. pc' = "tally" => ~Landed(items'[op])
      BY DEF AfterApply
    <2>2. items[op] = "none"
      BY <1>0 DEF Place
    <2> QED
      BY <1>0, <1>1, <2>1, <2>2 DEF Ahead, Landed, Uncertain, TypeOK, Place
  <1> QED
    BY <1>4, <1>5, <1>6, <1>7, <1>8

\* What a request that leaves finds: every write that landed has its record,
\* no member of the request was reported before it, and none has been sent.
LEMMA AtSend ==
    ASSUME IInv, pc = "apply", fate[op] = "none"
    PROVE  /\ op \in Ops /\ op \in plan.changes
           /\ ~stop /\ ~observeErr
           /\ \A m \in Members(op) : m \in Ops /\ fate[m] = "none" /\ m >= op
           /\ \A o \in Ops : fate[o] # "none" => o < op
           /\ Owed \subseteq checkpoints
  <1> USE DEF IInv
  <1>1. op \in Ops /\ op \in plan.changes /\ ~stop /\ ~observeErr
    BY PlanFacts DEF TypeOK, Place, Requests
  <1>2. \A m \in Members(op) : m \in Ops /\ m \in plan.changes /\ fate[m] = "none"
    BY <1>1, PlanFacts DEF TypeOK, Requests, Members
  <1>3. \A m \in Members(op) : m >= op
    <2> SUFFICES ASSUME NEW m \in Members(op), ~(m >= op) PROVE FALSE
      OBVIOUS
    <2>1. m < op
      BY <1>1, <1>2 DEF Ops
    <2>2. items[m] = "not_attempted"
      BY <1>2, <2>1 DEF Requests
    <2> QED
      BY <1>1, <1>2, <2>2 DEF Requests
  <1>4. \A o \in Ops : fate[o] # "none" => o < op
    <2> SUFFICES ASSUME NEW o \in Ops, fate[o] # "none", ~(o < op) PROVE FALSE
      OBVIOUS
    <2>1. op <= o
      BY <1>1 DEF Ops
    <2>2. plan.request[op] <= plan.request[o] /\ plan.request[o] <= plan.request[op]
      BY <1>1, <2>1, PlanFacts DEF TypeOK, Requests
    <2>3. plan.request[op] = plan.request[o]
      BY <1>1, <2>2, PlanFacts DEF TypeOK
    <2> QED
      BY <1>1, <2>3 DEF Requests
  <1>5. Owed \subseteq checkpoints
    <2> SUFFICES ASSUME NEW o \in Ops, Landed(fate[o]) PROVE o \in checkpoints
      BY DEF Owed
    <2>1. fate[o] \notin {"none", "unsent"}
      BY DEF Landed, Uncertain
    <2>2. o < op
      BY <1>4, <2>1
    <2>3. items[o] = fate[o]
      BY <2>1, <2>2 DEF Place, Reports, Dispatched
    <2> QED
      BY <1>1, <2>2, <2>3 DEF Ahead
  <1> QED
    BY <1>1, <1>2, <1>3, <1>4, <1>5

LEMMA SendFates ==
    ASSUME TypeOK, Send
    PROVE  /\ fate' \in [Ops -> Fates]
           /\ \A o \in Ops : o \notin Members(op) => fate'[o] = fate[o]
           /\ \A o \in Members(op) : o \in Ops => fate'[o] # "none"
           /\ landed' \subseteq Ops /\ late' \subseteq Ops
           /\ landed \subseteq landed' /\ late \subseteq late'
           /\ \A o \in landed' \ landed : o \in Members(op) /\ Landed(fate'[o])
           /\ \A o \in late' \ late : /\ o \in Members(op)
                                      /\ ~LateDeletes => Landed(fate'[o])
           /\ \A o \in Members(op) : fate'[o] = "applied" => o \in landed'
  <1>0. Members(op) \subseteq Ops
    BY PlanFacts DEF Members, TypeOK
  <1>1. CASE Withheld
    <2>1. PICK f \in {"unsent", "failed"} : fate' = Unsent(f)
      BY <1>1 DEF Withheld
    <2>2. fate' = [o \in Ops |-> IF o \in Members(op) THEN f ELSE fate[o]]
      BY <2>1 DEF Unsent
    <2>3. f \in Fates /\ f # "none" /\ f # "applied"
      BY DEF Fates, Answers, BatchAnswers
    <2>4. fate' \in [Ops -> Fates]
      BY <2>2, <2>3 DEF TypeOK
    <2>5. landed' = landed /\ late' = late
      BY <1>1 DEF Withheld
    <2> QED
      BY <1>0, <2>2, <2>3, <2>4, <2>5 DEF TypeOK
  <1>2. CASE Answered
    <2>1. PICK f \in [Members(op) -> IF plan.batch THEN BatchAnswers ELSE Answers] :
            /\ fate' = [o \in Ops |-> IF o \in Members(op) THEN f[o] ELSE fate[o]]
            /\ \E pending \in SUBSET MayLandLate(f) :
                 \E hit \in SUBSET {o \in Members(op) : Uncertain(f[o])} :
                   /\ landed' = landed \cup hit
                                  \cup {o \in Members(op) : f[o] = "applied"}
                   /\ late' = late \cup pending
      BY <1>2 DEF Answered
    <2>2. PICK pending \in SUBSET MayLandLate(f),
               hit \in SUBSET {o \in Members(op) : Uncertain(f[o])} :
            /\ landed' = landed \cup hit
                           \cup {o \in Members(op) : f[o] = "applied"}
            /\ late' = late \cup pending
      BY <2>1
    <2>3. \A o \in Members(op) : f[o] \in Answers
      BY DEF Answers
    <2>4. Answers \subseteq Fates /\ "none" \notin Answers
      BY DEF Fates, Answers, BatchAnswers
    <2>5. fate' \in [Ops -> Fates]
      BY <2>1, <2>3, <2>4 DEF TypeOK
    <2>6. \A o \in Ops : fate'[o] = IF o \in Members(op) THEN f[o] ELSE fate[o]
      BY <2>1
    <2>7. MayLandLate(f) \subseteq Members(op)
      BY DEF MayLandLate
    <2>8. \A o \in pending : ~LateDeletes => Uncertain(f[o])
      BY DEF MayLandLate
    <2>9. landed' \subseteq Ops /\ late' \subseteq Ops
      BY <1>0, <2>2, <2>7 DEF TypeOK
    <2> QED
      BY <1>0, <2>2, <2>3, <2>4, <2>5, <2>6, <2>7, <2>8, <2>9 DEF Landed
  <1> QED
    BY <1>1, <1>2 DEF Send

LEMMA StepSend == IInv /\ Send => IInv'
  <1> SUFFICES ASSUME IInv, Send PROVE IInv'
    OBVIOUS
  <1> USE DEF IInv
  <1>0. /\ pc = "apply" /\ fate[op] = "none"
        /\ UNCHANGED <<plan, pc, op, stop, canceled, observeErr, heldBack, ctxDone,
                       items, marked, unmarked, checkpoints, finalStored, warned, exit>>
    BY DEF Send, engineVars, mirrorVars, journalVars
  <1>1. /\ op \in Ops /\ op \in plan.changes
        /\ \A m \in Members(op) : m \in Ops /\ fate[m] = "none" /\ m >= op
        /\ \A o \in Ops : fate[o] # "none" => o < op
    BY <1>0, AtSend
  <1>2. op \in Members(op)
    BY <1>1 DEF Members
  <1>3. TypeOK'
    BY <1>0, SendFates DEF TypeOK
  <1>4. Place'
    BY <1>0 DEF Place
  <1>5. Requests'
    <2>1. \A o \in Ops : fate'[o] # "none" => o \in plan.changes
      BY SendFates DEF Requests, Members
    <2>2. ASSUME NEW a \in plan.changes, NEW b \in plan.changes,
                 plan.request[a] = plan.request[b], fate'[a] # "none"
          PROVE  fate'[b] # "none"
      <3>0. a \in Ops /\ b \in Ops
        BY PlanFacts DEF TypeOK
      <3>1. a \in Members(op) <=> b \in Members(op)
        BY <2>2 DEF Members
      <3> QED
        BY <2>2, <3>0, <3>1, SendFates DEF Requests
    <2>3. \A o \in Ops : fate'[o] # "none" => plan.request[o] <= plan.request[op]
      BY <1>1, SendFates, PlanFacts DEF TypeOK, Requests, Members
    <2>4. \A o \in plan.changes :
            o < op /\ fate'[o] = "none" => items[o] = "not_attempted"
      BY SendFates, PlanFacts DEF TypeOK, Requests, Members
    <2>5. fate'[op] # "none"
      BY <1>1, <1>2, SendFates
    <2> QED
      BY <1>0, <2>1, <2>2, <2>3, <2>4, <2>5 DEF Requests
  <1>6. Reports'
    <2>1. \A o \in Members(op) : items[o] = "none"
      BY <1>0, <1>1 DEF Place
    <2> QED
      BY <1>0, <2>1, SendFates DEF Reports, Dispatched, Landed, Uncertain
  <1>7. Ahead'
    BY <1>0 DEF Ahead, Landed, Uncertain
  <1> QED
    BY <1>3, <1>4, <1>5, <1>6, <1>7

LEMMA StepMarkDelete == IInv /\ MarkDelete => IInv'
  <1> SUFFICES ASSUME IInv, MarkDelete PROVE IInv'
    OBVIOUS
  <1> USE DEF MarkDelete, engineVars, libraryVars, journalVars, IInv
  <1>1. TypeOK'
    BY DEF TypeOK, Place
  <1>2. Place'
    BY DEF Place, Landed
  <1>3. Requests' /\ Reports' /\ Ahead'
    BY DEF Requests, Reports, Ahead, Landed, Uncertain, Dispatched
  <1> QED
    BY <1>1, <1>2, <1>3

LEMMA StepRecordOutcome == IInv /\ RecordOutcome => IInv'
  <1> SUFFICES ASSUME IInv, RecordOutcome PROVE IInv'
    OBVIOUS
  <1> USE DEF RecordOutcome, libraryVars, mirrorVars, IInv
  <1>0. op \in Ops /\ Landed(items[op])
    BY PlanFacts DEF TypeOK, Place
  <1>1. PICK stored \in BOOLEAN, failed \in BOOLEAN :
          /\ stored \/ failed
          /\ checkpoints' = IF stored THEN checkpoints \cup {op} ELSE checkpoints
          /\ observeErr' = (observeErr \/ failed)
    OBVIOUS
  <1>2. TypeOK'
    BY <1>0, <1>1 DEF TypeOK
  <1>3. Place'
    BY DEF Place
  <1>4. Requests'
    BY <1>1 DEF Requests, TypeOK
  <1>5. Reports'
    BY DEF Reports, Landed, Uncertain, Dispatched
  <1>6. Ahead'
    <2>1. ~observeErr' => ~observeErr /\ checkpoints' = checkpoints \cup {op}
      BY <1>1 DEF TypeOK
    <2>2. checkpoints' \subseteq checkpoints \cup {op} /\ checkpoints \subseteq checkpoints'
      BY <1>1
    <2> QED
      BY <1>0, <2>1, <2>2 DEF Ahead, Landed, Uncertain
  <1> QED
    BY <1>2, <1>3, <1>4, <1>5, <1>6

LEMMA StepTally == IInv /\ Tally => IInv'
  <1> SUFFICES ASSUME IInv, Tally PROVE IInv'
    OBVIOUS
  <1> USE DEF Tally, libraryVars, mirrorVars, journalVars, IInv
  <1>0. op \in Ops /\ op \in Nat /\ op + 1 \in 1 .. NumOps + 1 /\ op \in plan.changes
    BY PlanFacts DEF TypeOK, Ops, Place
  <1>1. StopRule \in BOOLEAN
    BY DEF StopRule
  <1>2. TypeOK'
    BY <1>0, <1>1 DEF TypeOK
  <1>3. Place'
    <2>1. items[op] # "none"
      BY <1>0, PlanFacts DEF Place, Reported, TypeOK
    <2> QED
      BY <1>0, <2>1 DEF Place, Ops
  <1>4. Requests'
    <2>1. \A o \in Ops : fate[o] # "none" /\ op + 1 \in Ops
                          => plan.request[o] <= plan.request[op + 1]
      <3>1. op <= op + 1
        BY <1>0
      <3>2. op + 1 \in Ops => plan.request[op] <= plan.request[op + 1]
        BY <1>0, <3>1, PlanFacts DEF TypeOK
      <3> QED
        BY <1>0, <3>2, PlanFacts DEF Requests, TypeOK
    <2>2. \A o \in plan.changes :
            o < op + 1 /\ fate[o] = "none" => items[o] = "not_attempted"
      BY <1>0, PlanFacts DEF Requests, Ops, TypeOK, Place
    <2> QED
      BY <2>1, <2>2 DEF Requests
  <1>5. Reports'
    BY DEF Reports, Landed, Uncertain, Dispatched
  <1>6. Ahead'
    BY <1>0 DEF Ahead, Landed, Uncertain, Ops
  <1> QED
    BY <1>2, <1>3, <1>4, <1>5, <1>6

LEMMA StepWriteThrough == IInv /\ WriteThrough => IInv'
  <1> SUFFICES ASSUME IInv, WriteThrough PROVE IInv'
    OBVIOUS
  <1> USE DEF WriteThrough, engineVars, libraryVars, journalVars, IInv
  <1>1. TypeOK'
    BY DEF TypeOK, AppliedDeletes
  <1>2. Place'
    BY PlanFacts DEF Place, TypeOK
  <1>3. Requests' /\ Reports' /\ Ahead'
    BY DEF Requests, Reports, Ahead, Landed, Uncertain, Dispatched
  <1> QED
    BY <1>1, <1>2, <1>3

LEMMA StepRecordRun == IInv /\ RecordRun => IInv'
  <1> SUFFICES ASSUME IInv, RecordRun PROVE IInv'
    OBVIOUS
  <1> USE DEF RecordRun, engineVars, libraryVars, mirrorVars, IInv
  <1>1. TypeOK'
    BY DEF TypeOK
  <1>2. Place'
    BY DEF Place
  <1>3. Requests' /\ Reports' /\ Ahead'
    BY DEF Requests, Reports, Ahead, Landed, Uncertain, Dispatched
  <1> QED
    BY <1>1, <1>2, <1>3

LEMMA StepClassify == IInv /\ Classify => IInv'
  <1> SUFFICES ASSUME IInv, Classify PROVE IInv'
    OBVIOUS
  <1> USE DEF Classify, engineVars, libraryVars, mirrorVars, journalVars, IInv
  <1>0. {stop, canceled, observeErr, heldBack} \subseteq BOOLEAN
    BY DEF TypeOK
  <1>1. Verdict \in Exits
    <2>1. CASE KeyRefused
      BY <2>1 DEF Verdict, Exits
    <2>2. CASE ~KeyRefused /\ Complete
      BY <2>2 DEF Verdict, Exits
    <2>3. CASE ~KeyRefused /\ ~Complete
      BY <1>0, <2>3 DEF Verdict, Exits
    <2> QED
      BY <2>1, <2>2, <2>3
  <1>2. TypeOK'
    BY <1>1 DEF TypeOK
  <1>3. Place'
    BY DEF Place
  <1>4. Requests' /\ Reports' /\ Ahead'
    BY DEF Requests, Reports, Ahead, Landed, Uncertain, Dispatched
  <1> QED
    BY <1>2, <1>3, <1>4

LEMMA StepEnvironment == IInv /\ (Cancel \/ Kill \/ LandLate) => IInv'
  <1> SUFFICES ASSUME IInv, Cancel \/ Kill \/ LandLate PROVE IInv'
    OBVIOUS
  <1> USE DEF engineVars, libraryVars, mirrorVars, journalVars, IInv
  <1>1. CASE Cancel
    <2> USE <1>1 DEF Cancel
    <2>1. TypeOK' /\ Place'
      BY DEF TypeOK, Place
    <2> QED
      BY <2>1 DEF Requests, Reports, Ahead, Landed, Uncertain, Dispatched
  <1>2. CASE Kill
    <2> USE <1>2 DEF Kill
    <2>1. TypeOK' /\ Place'
      BY DEF TypeOK, Place
    <2> QED
      BY <2>1 DEF Requests, Reports, Ahead, Landed, Uncertain, Dispatched
  <1>3. CASE LandLate
    <2> USE <1>3 DEF LandLate
    <2>1. TypeOK' /\ Place'
      BY DEF TypeOK, Place
    <2> QED
      BY <2>1 DEF Requests, Reports, Ahead, Landed, Uncertain, Dispatched
  <1> QED
    BY <1>1, <1>2, <1>3

LEMMA StepIInv == IInv /\ [Next]_vars => IInv'
  <1> SUFFICES ASSUME IInv, [Next]_vars PROVE IInv'
    OBVIOUS
  <1>1. CASE Decide
    BY <1>1, StepLeaveOut, StepNothingToDo, StepStartOp DEF Decide
  <1>2. CASE UNCHANGED vars
    BY <1>2 DEF vars, engineVars, libraryVars, mirrorVars, journalVars, IInv,
       TypeOK, Place, Requests, Reports, Ahead, Landed, Uncertain, Dispatched
  <1> QED
    BY <1>1, <1>2, StepGates, StepSend, StepCollect, StepMarkDelete,
       StepRecordOutcome, StepTally, StepWriteThrough, StepRecordRun,
       StepClassify, StepEnvironment DEF Next

THEOREM Inductive == Spec => []IInv
  BY InitIInv, StepIInv, PTL DEF Spec

\* The state keeps its shape for every plan, batch size and number of operations.
THEOREM TypeCorrect == Spec => []TypeOK
  <1>1. IInv => TypeOK
    BY DEF IInv
  <1> QED
    BY <1>1, Inductive, PTL

-----------------------------------------------------------------------------
(* What an undo finds only grows, and holds nothing that was not owed.     *)

LEMMA RecoverableOwed == IInv => Recoverable \subseteq Owed
  BY DEF IInv, Recoverable, Owed, Reports, Ahead

LEMMA RecoverableGrows ==
    ASSUME IInv, [Next]_vars
    PROVE  Recoverable \subseteq Recoverable'
  <1> USE DEF IInv
  <1>1. CASE RecordRun
    <2>1. Recoverable = checkpoints
      BY <1>1 DEF RecordRun, Place, Recoverable
    <2>2. checkpoints' = checkpoints /\ items' = items
      BY <1>1 DEF RecordRun
    <2> QED
      BY <2>1, <2>2 DEF Recoverable, Ahead, Landed, Uncertain
  <1>2. CASE RecordOutcome
    BY <1>2 DEF RecordOutcome, Recoverable, Landed, Uncertain
  <1>3. CASE Decide
    BY <1>3 DEF Decide, journalVars, Place, Recoverable
  <1>4. CASE Collect
    BY <1>4 DEF Collect, journalVars, Place, Recoverable
  <1>5. CASE /\ UNCHANGED <<items, checkpoints, finalStored>>
    BY <1>5 DEF Recoverable, Landed, Uncertain
  <1> QED
    BY <1>1, <1>2, <1>3, <1>4, <1>5 DEF Next, vars, CheckGates, Send, MarkDelete,
       Tally, WriteThrough, Classify, Cancel, Kill, LandLate, journalVars

LEMMA OwedChanges ==
    ASSUME IInv, [Next]_vars
    PROVE  \/ Owed' = Owed
           \/ /\ Send /\ pc = "apply" /\ fate[op] = "none"
              /\ UNCHANGED <<plan, Recoverable>>
              /\ Owed \subseteq Recoverable
              /\ Owed \subseteq Owed'
  <1> USE DEF IInv
  <1>1. CASE Send
    <2>1. pc = "apply" /\ fate[op] = "none" /\ plan' = plan
          /\ UNCHANGED <<items, checkpoints, finalStored>>
      BY <1>1 DEF Send, journalVars
    <2>2. Recoverable = checkpoints /\ Recoverable' = Recoverable
      BY <2>1 DEF Recoverable, Place, Landed, Uncertain
    <2>3. Owed \subseteq Owed'
      <3> SUFFICES ASSUME NEW o \in Ops, Landed(fate[o]) PROVE Landed(fate'[o])
        BY DEF Owed, Landed, Uncertain
      <3>1. fate[o] # "none"
        BY DEF Landed, Uncertain
      <3>2. o \notin Members(op)
        BY <2>1, <3>1, AtSend
      <3> QED
        BY <1>1, <3>2, SendFates
    <2> QED
      BY <1>1, <2>1, <2>2, <2>3, AtSend
  <1>2. CASE fate' = fate
    BY <1>2 DEF Owed, Landed, Uncertain
  <1> QED
    BY <1>1, <1>2 DEF Next, vars, CheckGates, Decide, Collect, RecordOutcome,
       MarkDelete, Tally, WriteThrough, RecordRun, Classify, Cancel, Kill,
       LandLate, libraryVars

\* Every run implements the write-ahead ledger: nothing is sent while a write
\* that landed, or may have, has no journal record, and no record is lost.
THEOREM RunImplementsLedger == Spec => LedgerSpec
  <1>1. Init => Ledger!Init
    BY DEF Init, Ledger!Init, Owed, Recoverable, Landed, Uncertain
  <1>2. IInv /\ IInv' /\ [Next]_vars => [Ledger!Next]_<<Owed, Recoverable>>
    <2> SUFFICES ASSUME IInv, IInv', [Next]_vars
                 PROVE  [Ledger!Next]_<<Owed, Recoverable>>
      OBVIOUS
    <2>1. Recoverable \subseteq Recoverable' /\ Recoverable' \subseteq Owed'
      <3>1. (IInv => Recoverable \subseteq Owed)'
        BY RecoverableOwed, PTL
      <3> QED
        BY <3>1, RecoverableGrows
    <2>2. CASE Owed' = Owed
      <3>1. Recoverable' = Recoverable \cup Recoverable'
        BY <2>1
      <3>2. Ledger!Record
        BY <2>1, <2>2, <3>1 DEF Ledger!Record
      <3> QED
        BY <3>2 DEF Ledger!Next
    <2>3. CASE /\ UNCHANGED Recoverable
               /\ Owed \subseteq Recoverable
               /\ Owed \subseteq Owed'
      <3>1. Owed' = Owed \cup (Owed' \ Owed) /\ Owed' \subseteq Ops
        BY <2>3 DEF Owed
      <3>2. Ledger!Dispatch
        BY <2>3, <3>1 DEF Ledger!Dispatch
      <3> QED
        BY <3>2 DEF Ledger!Next
    <2> QED
      BY <2>2, <2>3, OwedChanges
  <1>3. Spec => Ledger!Init /\ [][Ledger!Next]_<<Owed, Recoverable>>
    BY <1>1, <1>2, Inductive, PTL DEF Spec
  <1> QED
    BY <1>3 DEF LedgerSpec, Ledger!Spec

-----------------------------------------------------------------------------
(* The library: what landed, or may land, was answered applied or unknown. *)
(* This is where late deletes are ruled out.                               *)

Library ==
    /\ landed \cup late \subseteq Owed
    /\ \A o \in Ops : fate[o] = "applied" => o \in landed

LEMMA LibraryStep ==
    ASSUME ~LateDeletes, IInv, Library, [Next]_vars
    PROVE  Library'
  <1> USE DEF IInv
  <1>1. CASE Send
    <2>1. pc = "apply" /\ fate[op] = "none" /\ plan' = plan
      BY <1>1 DEF Send
    <2>2. Members(op) \subseteq Ops
      BY PlanFacts DEF TypeOK, Members
    <2>3. Owed \subseteq Owed'
      BY OwedChanges
    <2>4. landed' \cup late' \subseteq Owed'
      BY <1>1, <2>2, <2>3, SendFates DEF Library, Owed
    <2>5. \A o \in Ops : fate'[o] = "applied" => o \in landed'
      BY <1>1, SendFates DEF Library
    <2> QED
      BY <2>4, <2>5 DEF Library
  <1>2. CASE LandLate
    BY <1>2 DEF LandLate, Library, Owed, Landed, Uncertain
  <1>3. CASE UNCHANGED <<fate, landed, late>>
    BY <1>3 DEF Library, Owed, Landed, Uncertain
  <1> QED
    BY <1>1, <1>2, <1>3 DEF Next, vars, CheckGates, Decide, Collect, RecordOutcome,
       MarkDelete, Tally, WriteThrough, RecordRun, Classify, Cancel, Kill,
       libraryVars

LEMMA LibraryHolds ==
    ASSUME ~LateDeletes
    PROVE  Spec => []Library
  <1>1. Init => Library
    BY DEF Init, Library
  <1>2. IInv /\ Library /\ [Next]_vars => Library'
    BY LibraryStep
  <1> QED
    BY <1>1, <1>2, Inductive, PTL DEF Spec

\* The result items never misstate the library, as long as a delete that the
\* read-back still saw does not land afterwards.
THEOREM ReportsAreTruthful ==
    ASSUME ~LateDeletes
    PROVE  Spec => []ReportTruthful
  <1>1. IInv /\ Library => ReportTruthful
    <2> SUFFICES ASSUME IInv, Library, NEW o \in Ops
                 PROVE  /\ items[o] = "applied" => o \in landed
                        /\ o \in landed \cup late => items[o] = "none" \/ Landed(items[o])
      BY DEF ReportTruthful
    <2>1. items[o] = "applied" => fate[o] = "applied"
      BY DEF IInv, Reports, Landed
    <2>2. Landed(fate[o]) => items[o] \in {"none", fate[o]}
      BY DEF IInv, Reports, Dispatched, Landed, Uncertain
    <2> QED
      BY <2>1, <2>2 DEF Library, Owed
  <1> QED
    BY <1>1, Inductive, LibraryHolds, PTL

-----------------------------------------------------------------------------
\* Nothing was sent after a request whose writes are not all recorded.
AtRisk ==
    \A o \in Owed \ Recoverable :
        \A m \in Ops : fate[m] \notin {"none", "unsent"} =>
            plan.request[m] <= plan.request[o]

LEMMA AtRiskStep ==
    ASSUME IInv, AtRisk, [Next]_vars
    PROVE  AtRisk'
  <1> USE DEF IInv
  <1>1. CASE Send
    <2>1. pc = "apply" /\ fate[op] = "none" /\ plan' = plan
          /\ UNCHANGED <<items, checkpoints, finalStored>>
      BY <1>1 DEF Send, journalVars
    <2>2. Owed \subseteq checkpoints /\ op \in Ops
          /\ \A a \in Ops : fate[a] # "none" => a < op
      BY <2>1, AtSend
    <2>3. Recoverable' = checkpoints
      BY <2>1 DEF Recoverable, Place
    <2> SUFFICES ASSUME NEW o \in Owed' \ Recoverable',
                        NEW m \in Ops, fate'[m] \notin {"none", "unsent"}
                 PROVE  plan.request[m] <= plan.request[o]
      BY <2>1 DEF AtRisk
    <2>4. o \in Members(op)
      BY <1>1, <2>2, <2>3, SendFates DEF Owed
    <2>5. plan.request[o] = plan.request[op]
      BY <2>4 DEF Members
    <2>6. CASE m \in Members(op)
      BY <2>2, <2>5, <2>6, PlanFacts DEF TypeOK, Members
    <2>7. CASE m \notin Members(op)
      <3>1. m <= op
        BY <1>1, <2>2, <2>7, SendFates DEF Ops
      <3> QED
        BY <2>2, <2>5, <3>1, PlanFacts DEF TypeOK
    <2> QED
      BY <2>6, <2>7
  <1>2. CASE UNCHANGED <<fate, plan>>
    <2>1. Owed' = Owed /\ Recoverable \subseteq Recoverable'
      BY <1>2, RecoverableGrows DEF Owed, Landed, Uncertain
    <2> QED
      BY <1>2, <2>1 DEF AtRisk
  <1> QED
    BY <1>1, <1>2 DEF Next, vars, CheckGates, Decide, Collect, RecordOutcome,
       MarkDelete, Tally, WriteThrough, RecordRun, Classify, Cancel, Kill,
       LandLate, libraryVars

\* However the run ends, the landed writes without a record were carried by
\* one request.
THEOREM OneRequestIsAtRisk ==
    ASSUME ~LateDeletes
    PROVE  Spec => []OneRequestAtRisk
  <1>1. Init => AtRisk
    BY DEF Init, AtRisk, Owed, Landed, Uncertain
  <1>2. IInv /\ AtRisk /\ [Next]_vars => AtRisk'
    BY AtRiskStep
  <1>3. AtRisk /\ Library => OneRequestAtRisk
    BY DEF AtRisk, Library, OneRequestAtRisk
  <1> QED
    BY <1>1, <1>2, <1>3, Inductive, LibraryHolds, PTL DEF Spec

-----------------------------------------------------------------------------
\* What the end of a run owes its journal.
Settled ==
    /\ pc = "gates" => Owed = {}
    /\ pc \in {"classify", "done"} /\ ~warned => Owed \subseteq Recoverable

LEMMA SettledStep ==
    ASSUME IInv, Settled, [Next]_vars
    PROVE  Settled'
  <1> USE DEF IInv
  <1>1. CASE RecordRun
    <2>1. pc = "journal" /\ pc' = "classify" /\ UNCHANGED <<items, fate, checkpoints>>
      BY <1>1 DEF RecordRun, libraryVars
    <2>2. \A o \in Ops : items[o] # "none"
      BY <2>1, PlanFacts DEF TypeOK, Place, Ops
    <2>3. Owed \subseteq {o \in Ops : Landed(items[o])}
      BY <2>2 DEF Owed, Reports, Dispatched, Landed, Uncertain
    <2>4. Owed' = Owed
      BY <2>1 DEF Owed, Landed, Uncertain
    <2>5. CASE HasWrite
      <3>1. ~warned' => finalStored'
        BY <1>1, <2>5 DEF RecordRun
      <3>2. finalStored' => Recoverable' = {o \in Ops : Landed(items[o])}
        BY <2>1 DEF Recoverable, Landed, Uncertain
      <3> QED
        BY <2>1, <2>3, <2>4, <3>1, <3>2 DEF Settled
    <2>6. CASE ~HasWrite
      <3>1. Owed' = {}
        BY <2>3, <2>4, <2>6 DEF HasWrite, AnyLanded
      <3> QED
        BY <2>1, <3>1 DEF Settled
    <2> QED
      BY <2>5, <2>6
  <1>2. CASE CheckGates
    BY <1>2 DEF CheckGates, libraryVars, Settled, Owed, Landed, Uncertain
  <1>3. CASE Classify
    BY <1>3 DEF Classify, libraryVars, journalVars, Settled, Owed, Recoverable,
       Landed, Uncertain
  <1>4. CASE pc' \notin {"gates", "classify", "done"}
    BY <1>4 DEF Settled
  <1>5. CASE UNCHANGED <<pc, fate, items, journalVars>>
    BY <1>5 DEF journalVars, Settled, Owed, Recoverable, Landed, Uncertain
  <1>6. CASE Decide
    BY <1>4, <1>6 DEF Decide, LeaveOut, NothingToDo, StartOp
  <1>7. CASE Collect
    BY <1>4, <1>7 DEF Collect, AfterApply
  <1>8. CASE Send \/ MarkDelete \/ RecordOutcome \/ Tally \/ WriteThrough \/ Kill
    BY <1>4, <1>8 DEF Send, MarkDelete, RecordOutcome, Tally, WriteThrough, Kill
  <1> QED
    BY <1>1, <1>2, <1>3, <1>5, <1>6, <1>7, <1>8
       DEF Next, vars, Cancel, LandLate, libraryVars, journalVars

\* A run that ended without the journal warning can be undone whole.
THEOREM UnwarnedRunsAreUndoable ==
    ASSUME ~LateDeletes
    PROVE  Spec => []UndoableUnlessWarned
  <1>1. Init => Settled
    BY DEF Init, Settled, Owed, Landed, Uncertain
  <1>2. IInv /\ Settled /\ [Next]_vars => Settled'
    BY SettledStep
  <1>3. Settled /\ Library => UndoableUnlessWarned
    BY DEF Settled, Library, UndoableUnlessWarned
  <1> QED
    BY <1>1, <1>2, <1>3, Inductive, LibraryHolds, PTL DEF Spec

-----------------------------------------------------------------------------
\* A delete about to be recorded has had its marker attempt.
MarkerFirst ==
    /\ pc = "record" /\ op \in plan.deletes /\ items[op] = "applied"
         => op \in marked \cup unmarked
    /\ MarkedBeforeRecorded

LEMMA MarkerFirstStep ==
    ASSUME IInv, MarkerFirst, [Next]_vars
    PROVE  MarkerFirst'
  <1> USE DEF IInv
  <1>1. CASE MarkDelete
    BY <1>1 DEF MarkDelete, journalVars, MarkerFirst, MarkedBeforeRecorded
  <1>2. CASE RecordOutcome
    <2>1. checkpoints' \subseteq checkpoints \cup {op} /\ pc = "record" /\ pc' = "tally"
      BY <1>2 DEF RecordOutcome
    <2> QED
      BY <1>2, <2>1 DEF RecordOutcome, mirrorVars, MarkerFirst, MarkedBeforeRecorded
  <1>3. CASE Collect
    <2>1. op \in Ops /\ items[op] = "none" /\ pc = "apply"
      BY <1>3, PlanFacts DEF Collect, TypeOK, Place, Ops
    <2>2. op \notin checkpoints
      BY <2>1 DEF Ahead, Landed, Uncertain
    <2>3. \A o \in Ops : o # op => items'[o] = items[o]
      BY <1>3 DEF Collect, TypeOK
    <2>4. pc' = "record" /\ op \in plan.deletes => items'[op] # "applied"
      BY <1>3 DEF Collect, AfterApply
    <2>5. UNCHANGED <<plan, op, marked, unmarked, checkpoints>>
      BY <1>3 DEF Collect, mirrorVars, journalVars
    <2> QED
      BY <2>2, <2>3, <2>4, <2>5 DEF MarkerFirst, MarkedBeforeRecorded, TypeOK
  <1>4. CASE Decide
    <2>1. pc' # "record" /\ UNCHANGED <<plan, marked, unmarked, checkpoints>>
      BY <1>4 DEF Decide, LeaveOut, NothingToDo, StartOp, mirrorVars, journalVars
    <2>2. \A o \in Ops : items'[o] = "applied" => items[o] = "applied"
      BY <1>4 DEF Decide, LeaveOut, NothingToDo, StartOp, TypeOK
    <2> QED
      BY <2>1, <2>2 DEF MarkerFirst, MarkedBeforeRecorded, TypeOK
  <1>5. CASE WriteThrough
    <2>1. AppliedDeletes \subseteq marked' \cup unmarked'
      BY <1>5 DEF WriteThrough
    <2> QED
      BY <1>5, <2>1 DEF WriteThrough, journalVars, MarkerFirst, MarkedBeforeRecorded,
         AppliedDeletes
  <1>6. CASE UNCHANGED <<plan, items, mirrorVars, checkpoints>>
             /\ (UNCHANGED <<pc, op>> \/ pc' # "record")
    BY <1>6 DEF mirrorVars, MarkerFirst, MarkedBeforeRecorded
  <1> QED
    BY <1>1, <1>2, <1>3, <1>4, <1>5, <1>6
       DEF Next, vars, CheckGates, Send, Tally, RecordRun, Classify, Cancel, Kill,
           LandLate, journalVars

\* No kill leaves a recorded delete without its marker, or a known failure to
\* write it.
THEOREM MarkersComeFirst == Spec => []MarkedBeforeRecorded
  <1>1. Init => MarkerFirst
    BY DEF Init, MarkerFirst, MarkedBeforeRecorded
  <1>2. IInv /\ MarkerFirst /\ [Next]_vars => MarkerFirst'
    BY MarkerFirstStep
  <1>3. MarkerFirst => MarkedBeforeRecorded
    BY DEF MarkerFirst
  <1> QED
    BY <1>1, <1>2, <1>3, Inductive, PTL DEF Spec
=============================================================================
