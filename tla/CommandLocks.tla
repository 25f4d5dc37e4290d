---------------------------- MODULE CommandLocks ----------------------------
(***************************************************************************)
(* How a zotio command takes and gives back its writer locks                *)
(* (internal/cli/writer_lock.go, root.go, deliver_spool.go,                 *)
(* cliutil/lock.go) and how the MCP server runs commands in its own process *)
(* (internal/mcp/cobratree/shellout.go).                                    *)
(*                                                                          *)
(* One execution of the command tree is a FRAME.  It goes through the       *)
(* phases of Cobra, any of which may fail or panic:                         *)
(*                                                                          *)
(*   pre    the root pre-run hook, up to the installation lock              *)
(*   setup  the original pre-run hook, under the lock if it was taken       *)
(*   leaf   validation and the command's own PreRunE                        *)
(*   run    the RunE wrapper takes the lock over                            *)
(*   body   the command, inside the transactions it opens; a workflow runs  *)
(*          its steps as frames of their own, which inherit its context     *)
(*   unwind the deferred releases, the delivery and the backstop of         *)
(*          ExecuteRootInProcess                                            *)
(*                                                                          *)
(* A frame's ctx is the ownership stack of its command context.  Locks are  *)
(* advisory file locks, taken without waiting and dropped by the operating  *)
(* system when a process dies.  A lock whose unlock call fails is closed    *)
(* with the descriptor and is left out.                                     *)
(***************************************************************************)
EXTENDS Naturals, Sequences, SequencesExt

CONSTANTS
    Server,     \* the concurrent requests of one MCP server
    Shells,     \* zotio processes started by hand, one command each
    Install,    \* the installation lock
    Paths,      \* output locks, one for each canonical target
    LockOrder,  \* the sorted order in which a lock set is acquired
    Commands,   \* the commands of the tree
    Profile,    \* what each command does: see ProfileType
    Uses,       \* the commands each client may start
    Libraries,  \* the group scopes
    Personal,   \* the scope a process starts with
    MaxSteps,   \* bound: steps that one workflow execution runs
    None        \* no client, no lock, no ownership

Clients == Server \cup Shells
Locks == Paths \cup {Install}

(* The execution that acquired a lock, by its depth, and the number of     *)
(* ownerships that were under this one in its context.                     *)
Ownership == [lock : Locks, owner : Nat, below : Nat]

(* A command takes the installation lock around its body ("body"), per     *)
(* polling cycle ("cycle": watch, tail) or never ("none", which also is a  *)
(* writer in preview).  output is the file of its --output flag, sidecars  *)
(* the files of its other flags, deliver the file of --deliver.            *)
ProfileType ==
    [lock : {"body", "cycle", "none"}, output : SUBSET Paths, sidecars : SUBSET Paths,
     deliver : Paths \cup {None}, steps : SUBSET Commands, library : Libraries]

ASSUME LocksAssumption ==
    /\ Install \notin Paths
    /\ None \notin Clients \cup Locks \cup Ownership
    /\ Server \cap Shells = {}
    /\ LockOrder \in Seq(Paths) /\ Range(LockOrder) = Paths
    /\ Profile \in [Commands -> ProfileType]
    /\ Uses \in [Clients -> SUBSET Commands]
    /\ Personal \in Libraries
    /\ MaxSteps \in Nat

VARIABLES
    holder,     \* the client whose open file holds each lock
    slot,       \* the request in the one-deep mirrored-command channel
    request,    \* where each client is
    cancelled,  \* the requests whose context was cancelled
    stack,      \* the nested executions of each client, the root one first
    scope       \* the process-global group scope, by process

vars == <<holder, slot, request, cancelled, stack, scope>>

Processes == {Server} \cup {{c} : c \in Shells}
ProcessOf(c) == IF c \in Server THEN Server ELSE {c}

Frame ==
    [cmd : Commands, phase : {"pre", "setup", "leaf", "run", "body", "unwind"},
     ctx : Seq(Ownership), defers : Seq(Ownership), tracked : Ownership \cup {None},
     spool : Paths \cup {None}, open : SUBSET Locks, steps : 0 .. MaxSteps,
     saved : Libraries, outcome : {"ok", "error", "panic"}, refusedBy : Clients \cup {None}]

NewFrame(cmd, ctx, saved) ==
    [cmd |-> cmd, phase |-> "pre", ctx |-> ctx, defers |-> <<>>, tracked |-> None,
     spool |-> None, open |-> {}, steps |-> 0, saved |-> saved, outcome |-> "ok",
     refusedBy |-> None]

Init ==
    /\ holder = [p \in Locks |-> None]
    /\ slot = None
    /\ request = [c \in Clients |-> "idle"]
    /\ cancelled = [c \in Clients |-> FALSE]
    /\ stack = [c \in Clients |-> <<>>]
    /\ scope = [p \in Processes |-> Personal]

-----------------------------------------------------------------------------
(* The top frame of a client, and the context of its command.              *)
Top(c) == Last(stack[c])
At(c, phase) == stack[c] # <<>> /\ Top(c).phase = phase
Prof(f) == Profile[f.cmd]
SetTop(c, f) == stack' = [stack EXCEPT ![c][Len(stack[c])] = f]

(* Fault: only the innermost ownership of the context is looked at.        *)
Mutant_Held(f, p) == f.ctx # <<>> /\ Last(f.ctx).lock = p

(* heldWriterLockPath walks the whole ownership stack.                     *)
Held(f, p) == \E i \in DOMAIN f.ctx : f.ctx[i].lock = p

(* Fault: the wrapper takes over any installation ownership in the context, *)
(* also one that an outer command acquired.                                *)
Mutant_Handoff(c) ==
    IF Top(c).ctx # <<>> /\ Last(Top(c).ctx).lock = Install THEN <<Last(Top(c).ctx)>> ELSE <<>>

(* installationWriterLockHandoff: the ownership on top of the stack, if    *)
(* this very command acquired it and it is the installation lock.          *)
Handoff(c) ==
    LET f == Top(c) IN
    IF f.ctx = <<>> THEN <<>>
    ELSE LET top == Last(f.ctx) IN
         IF top.owner = Len(stack[c]) /\ top.lock = Install THEN <<top>> ELSE <<>>

(* The end of a phase that failed: what the frame has deferred runs next.  *)
Unwinding(f, outcome, defers) ==
    [f EXCEPT !.phase = "unwind", !.outcome = outcome, !.defers = defers,
              !.open = {d.lock : d \in Range(defers)}]

Failures == {"error", "panic"}

(* acquireWriterLockOwnership: TryLock, then the new ownership on top of   *)
(* the context.                                                            *)
Acquired(c, p) == [lock |-> p, owner |-> Len(stack[c]), below |-> Len(Top(c).ctx)]
Takes(c, p, f) ==
    /\ holder[p] = None
    /\ holder' = [holder EXCEPT ![p] = c]
    /\ SetTop(c, [f EXCEPT !.ctx = Append(@, Acquired(c, p)),
                           !.defers = Append(@, Acquired(c, p))])

(* A lock another open file holds, or one whose file cannot be secured:    *)
(* the acquisition gives an error and keeps nothing.                       *)
Refused(c, p) ==
    /\ SetTop(c, [Unwinding(Top(c), "error", Top(c).defers) EXCEPT !.refusedBy = holder[p]])
    /\ UNCHANGED holder

(* withPathWriterLock: run inline under a lock the context already holds,  *)
(* else acquire it and defer its release.                                  *)
OpenTransaction(c, p) ==
    LET f == [Top(c) EXCEPT !.open = @ \cup {p}] IN
    \/ Held(f, p) /\ SetTop(c, f) /\ UNCHANGED holder
    \/ ~Held(f, p) /\ (Takes(c, p, f) \/ Refused(c, p))

-----------------------------------------------------------------------------
(* acquireMirroredSlot: a request waits on the channel, gives up when its  *)
(* context is cancelled, and looks at the context again once it is in.     *)
Ask(c) ==
    /\ c \in Server /\ request[c] = "idle"
    /\ request' = [request EXCEPT ![c] = "waiting"]
    /\ cancelled' = [cancelled EXCEPT ![c] = FALSE]
    /\ UNCHANGED <<holder, slot, stack, scope>>

Cancel(c) ==
    /\ request[c] \in {"waiting", "checking"} /\ ~cancelled[c]
    /\ cancelled' = [cancelled EXCEPT ![c] = TRUE]
    /\ UNCHANGED <<holder, slot, request, stack, scope>>

GiveUp(c) ==
    /\ request[c] = "waiting" /\ cancelled[c]
    /\ request' = [request EXCEPT ![c] = "idle"]
    /\ UNCHANGED <<holder, slot, cancelled, stack, scope>>

TakeSlot(c) ==
    /\ request[c] = "waiting" /\ slot = None
    /\ slot' = c
    /\ request' = [request EXCEPT ![c] = "checking"]
    /\ UNCHANGED <<holder, cancelled, stack, scope>>

(* runMirroredWithPositionals: StateGuard snapshots the globals, a fresh    *)
(* tree is built and executed.                                             *)
Begin(c, cmd) == stack' = [stack EXCEPT ![c] = <<NewFrame(cmd, <<>>, scope[ProcessOf(c)])>>]

CheckAndBegin(c) ==
    /\ request[c] = "checking"
    /\ \/ /\ cancelled[c]
          /\ slot' = None
          /\ request' = [request EXCEPT ![c] = "idle"]
          /\ UNCHANGED stack
       \/ /\ ~cancelled[c]
          /\ request' = [request EXCEPT ![c] = "running"]
          /\ \E cmd \in Uses[c] : Begin(c, cmd)
          /\ UNCHANGED slot
    /\ UNCHANGED <<holder, cancelled, scope>>

StartShell(c) ==
    /\ c \in Shells /\ request[c] = "idle"
    /\ request' = [request EXCEPT ![c] = "running"]
    /\ \E cmd \in Uses[c] : Begin(c, cmd)
    /\ UNCHANGED <<holder, slot, cancelled, scope>>

(* The deferred ends of runMirroredWithPositionals: a panic is recovered,   *)
(* the globals restored, the slot given back.  The process of a shell ends. *)
EndRequest(c) ==
    /\ request[c] = "running" /\ stack[c] = <<>>
    /\ request' = [request EXCEPT ![c] = "idle"]
    /\ slot' = IF slot = c THEN None ELSE slot
    /\ UNCHANGED <<holder, cancelled, stack, scope>>

-----------------------------------------------------------------------------
(* wrapRootPersistentWriterLockPreRun.  Everything that can refuse the      *)
(* command without running it is asked before the lock: the profile, one    *)
(* file named by both --output and --deliver, a dry run that cannot         *)
(* preview, required flags.                                                 *)
OneFileTwice(f) == Prof(f).deliver \in Prof(f).output

RefuseEarly(c) ==
    /\ At(c, "pre")
    /\ SetTop(c, Unwinding(Top(c), "error", <<>>))
    /\ UNCHANGED <<holder, slot, request, cancelled, scope>>

(* Fault: the hook does not record the handoff on the execution.           *)
Mutant_PreRun(c) ==
    /\ At(c, "pre") /\ ~OneFileTwice(Top(c))
    /\ LET f == [Top(c) EXCEPT !.phase = "setup"] IN
       IF Prof(f).lock # "body" \/ Held(f, Install)
       THEN SetTop(c, f) /\ UNCHANGED holder
       ELSE Takes(c, Install, f) \/ Refused(c, Install)
    /\ UNCHANGED <<slot, request, cancelled, scope>>

PreRun(c) ==
    /\ At(c, "pre") /\ ~OneFileTwice(Top(c))
    /\ LET f == [Top(c) EXCEPT !.phase = "setup"] IN
       IF Prof(f).lock # "body" \/ Held(f, Install)
       THEN SetTop(c, f) /\ UNCHANGED holder
       ELSE \/ Takes(c, Install, [f EXCEPT !.tracked = Acquired(c, Install)])
            \/ Refused(c, Install)
    /\ UNCHANGED <<slot, request, cancelled, scope>>

(* The original hook, which takes the lock of a file delivery outside the  *)
(* ownership stack and selects the library.  Success disarms the deferred  *)
(* release: the lock is handed off to the body.                            *)
Setup(c) ==
    /\ At(c, "setup")
    /\ LET f == Top(c)
           d == Prof(f).deliver
           Ready(g) ==
             \/ /\ SetTop(c, [g EXCEPT !.phase = "leaf", !.defers = <<>>])
                /\ scope' = [scope EXCEPT ![ProcessOf(c)] = Prof(g).library]
             \/ \E outcome \in Failures :
                  /\ SetTop(c, Unwinding(g, outcome, g.defers))
                  /\ UNCHANGED scope
       IN IF d = None THEN Ready(f) /\ UNCHANGED holder
          ELSE \/ /\ holder[d] = None
                  /\ holder' = [holder EXCEPT ![d] = c]
                  /\ Ready([f EXCEPT !.spool = d])
               \/ Refused(c, d) /\ UNCHANGED scope
    /\ UNCHANGED <<slot, request, cancelled>>

(* Cobra's validation and the leaf's PreRunE.  wrapPreRun releases the      *)
(* handoff when the hook fails or panics; no wrapper sees a failure of any  *)
(* other phase between the two hooks.                                       *)
LeafPreRun(c) ==
    /\ At(c, "leaf")
    /\ \/ SetTop(c, [Top(c) EXCEPT !.phase = "run"])
       \/ \E outcome \in Failures : SetTop(c, Unwinding(Top(c), outcome, Handoff(c)))
       \/ \E outcome \in Failures : SetTop(c, Unwinding(Top(c), outcome, <<>>))
    /\ UNCHANGED <<holder, slot, request, cancelled, scope>>

(* wrapInstallationWriterCommand: release what the pre-run hook handed     *)
(* over, or open the transaction here.                                     *)
EnterBody(c) ==
    /\ At(c, "run")
    /\ \/ /\ Prof(Top(c)).lock = "body" /\ Handoff(c) # <<>>
          /\ SetTop(c, [Top(c) EXCEPT !.phase = "body", !.defers = Handoff(c), !.open = {Install}])
       \/ /\ Prof(Top(c)).lock # "body" \/ Handoff(c) = <<>>
          /\ SetTop(c, [Top(c) EXCEPT !.phase = "body"])
    /\ UNCHANGED <<holder, slot, request, cancelled, scope>>

(* The locks the body still has to open, the installation lock first, then *)
(* the set of its output locks in sorted order (withPathWriterLocks).      *)
Wanted(f) ==
    (IF Prof(f).lock = "none" THEN {} ELSE {Install}) \cup Prof(f).output \cup Prof(f).sidecars
StillWanted(f) == Wanted(f) \ f.open

Before(p, q) ==
    \/ p = Install
    \/ \E i, j \in DOMAIN LockOrder : i <= j /\ LockOrder[i] = p /\ LockOrder[j] = q

OpenNext(c) ==
    /\ At(c, "body")
    /\ \E p \in StillWanted(Top(c)) :
         /\ \A q \in StillWanted(Top(c)) : Before(p, q)
         /\ OpenTransaction(c, p)
    /\ UNCHANGED <<slot, request, cancelled, scope>>

(* executeWorkflowRunStepWithRoot: a step is an execution of its own that   *)
(* inherits the context of the workflow.                                    *)
RunStep(c) ==
    /\ At(c, "body") /\ StillWanted(Top(c)) = {}
    /\ Top(c).steps < MaxSteps
    /\ \E cmd \in Prof(Top(c)).steps :
         stack' = [stack EXCEPT ![c] =
             Append([stack[c] EXCEPT ![Len(stack[c])] = [Top(c) EXCEPT !.steps = @ + 1]],
                    NewFrame(cmd, Top(c).ctx, scope[ProcessOf(c)]))]
    /\ UNCHANGED <<holder, slot, request, cancelled, scope>>

Finish(c) ==
    /\ At(c, "body") /\ StillWanted(Top(c)) = {}
    /\ \E outcome \in {"ok", "error", "panic"} :
         SetTop(c, Unwinding(Top(c), outcome, Top(c).defers))
    /\ UNCHANGED <<holder, slot, request, cancelled, scope>>

-----------------------------------------------------------------------------
(* finishWriterLockOwnership: the command gets its previous context back,   *)
(* the record of the execution is cleared if this is what it tracks, and    *)
(* the lock is released.                                                    *)
Released(f, own) ==
    [f EXCEPT !.ctx = SubSeq(@, 1, own.below),
              !.tracked = IF @ = own THEN None ELSE @,
              !.open = @ \ {own.lock}]

RunDeferred(c) ==
    /\ At(c, "unwind") /\ Top(c).defers # <<>>
    /\ LET own == Last(Top(c).defers) IN
       /\ SetTop(c, [Released(Top(c), own) EXCEPT !.defers = Front(@)])
       /\ holder' = [holder EXCEPT ![own.lock] = None]
    /\ UNCHANGED <<slot, request, cancelled, scope>>

(* The delivery renames the spool into place unless the command panicked,   *)
(* and cleanupDeliverSpool releases what it left: either way the lock of    *)
(* the target goes back.  A failed delivery fails a successful command.     *)
CloseSpool(c) ==
    /\ At(c, "unwind") /\ Top(c).defers = <<>> /\ Top(c).spool # None
    /\ holder' = [holder EXCEPT ![Top(c).spool] = None]
    /\ \E outcome \in {Top(c).outcome, IF Top(c).outcome = "ok" THEN "error" ELSE Top(c).outcome} :
         SetTop(c, [Top(c) EXCEPT !.spool = None, !.outcome = outcome])
    /\ UNCHANGED <<slot, request, cancelled, scope>>

AtBoundary(c) == At(c, "unwind") /\ Top(c).defers = <<>> /\ Top(c).spool = None

(* releaseWriterLockHandoff, deferred by ExecuteRootInProcess.             *)
Backstop(c) ==
    /\ AtBoundary(c) /\ Top(c).tracked # None
    /\ LET own == Top(c).tracked IN
       /\ SetTop(c, Released(Top(c), own))
       /\ holder' = [holder EXCEPT ![own.lock] = None]
    /\ UNCHANGED <<slot, request, cancelled, scope>>

(* Fault: a nested execution leaves its globals to its caller.             *)
Mutant_ReturnScope(c) ==
    /\ AtBoundary(c) /\ Top(c).tracked = None
    /\ scope' = [scope EXCEPT ![ProcessOf(c)] =
                   IF Len(stack[c]) = 1 THEN Top(c).saved ELSE @]
    /\ LET rest == Front(stack[c]) IN
       stack' = [stack EXCEPT ![c] =
           IF rest # <<>> /\ Top(c).outcome = "panic"
           THEN [rest EXCEPT ![Len(rest)] = Unwinding(Last(rest), "panic", Last(rest).defers)]
           ELSE rest]
    /\ UNCHANGED <<holder, slot, request, cancelled>>

(* Fault: releases are plain calls after the body, which a panic skips.    *)
Mutant_ReturnPanic(c) ==
    /\ AtBoundary(c) /\ Top(c).tracked = None
    /\ scope' = [scope EXCEPT ![ProcessOf(c)] = Top(c).saved]
    /\ LET rest == Front(stack[c]) IN
       stack' = [stack EXCEPT ![c] =
           IF rest # <<>> /\ Top(c).outcome = "panic"
           THEN [rest EXCEPT ![Len(rest)] = Unwinding(Last(rest), "panic", <<>>)]
           ELSE rest]
    /\ UNCHANGED <<holder, slot, request, cancelled>>

(* The execution returns and the globals it saved are restored.  A panic   *)
(* goes on through the frame of the workflow; an error is the workflow's   *)
(* to handle (continue_on_error).                                          *)
Return(c) ==
    /\ AtBoundary(c) /\ Top(c).tracked = None
    /\ scope' = [scope EXCEPT ![ProcessOf(c)] = Top(c).saved]
    /\ LET rest == Front(stack[c]) IN
       stack' = [stack EXCEPT ![c] =
           IF rest # <<>> /\ Top(c).outcome = "panic"
           THEN [rest EXCEPT ![Len(rest)] = Unwinding(Last(rest), "panic", Last(rest).defers)]
           ELSE rest]
    /\ UNCHANGED <<holder, slot, request, cancelled>>

(* The operating system ends a process: its open files, and with them its  *)
(* locks, are gone.                                                        *)
Kill(process) ==
    /\ holder' = [p \in Locks |-> IF holder[p] \in process THEN None ELSE holder[p]]
    /\ slot' = IF slot \in process THEN None ELSE slot
    /\ request' = [c \in Clients |-> IF c \in process THEN "idle" ELSE request[c]]
    /\ cancelled' = [c \in Clients |-> c \notin process /\ cancelled[c]]
    /\ stack' = [c \in Clients |-> IF c \in process THEN <<>> ELSE stack[c]]
    /\ scope' = [scope EXCEPT ![process] = Personal]

-----------------------------------------------------------------------------
(* The steps a running command takes by itself.                            *)
Execute(c) ==
    \/ RefuseEarly(c) \/ PreRun(c) \/ Setup(c) \/ LeafPreRun(c) \/ EnterBody(c)
    \/ OpenNext(c) \/ RunStep(c) \/ Finish(c)
    \/ RunDeferred(c) \/ CloseSpool(c) \/ Backstop(c) \/ Return(c)

Next ==
    \/ \E c \in Clients :
         \/ Ask(c) \/ Cancel(c) \/ GiveUp(c) \/ TakeSlot(c) \/ CheckAndBegin(c)
         \/ StartShell(c) \/ EndRequest(c) \/ Execute(c)
    \/ \E process \in Processes : Kill(process)

Spec == Init /\ [][Next]_vars

(* Every command ends: bodies have timeouts or bounded work, so a running   *)
(* command keeps going.  Senders blocked on a channel are served in turn,   *)
(* so a waiting request is not passed over for ever.                        *)
Fairness ==
    \A c \in Clients :
        /\ WF_vars(Execute(c))
        /\ WF_vars(CheckAndBegin(c) \/ EndRequest(c) \/ GiveUp(c))
        /\ SF_vars(TakeSlot(c))

FairSpec == Spec /\ Fairness

-----------------------------------------------------------------------------
(* Every variable holds a value of its kind.                               *)
TypeOK ==
    /\ holder \in [Locks -> Clients \cup {None}]
    /\ slot \in Server \cup {None}
    /\ request \in [Clients -> {"idle", "waiting", "checking", "running"}]
    /\ cancelled \in [Clients -> BOOLEAN]
    /\ stack \in [Clients -> Seq(Frame)]
    /\ scope \in [Processes -> Libraries]

(* A transaction is under its lock from its first step to its last: a       *)
(* nested command, an early failure or a panic never releases the lock of   *)
(* a transaction that is still open around it.                              *)
OpenMeansHeld ==
    \A c \in Clients : \A i \in DOMAIN stack[c] :
        \A p \in stack[c][i].open : holder[p] = c

(* No path out of a command strands a lock: whatever failed or panicked,    *)
(* a client that runs nothing holds no lock and not the slot.               *)
NothingStranded ==
    \A c \in Clients :
        /\ stack[c] = <<>> => \A p \in Locks : holder[p] # c
        /\ request[c] \in {"idle", "waiting"} => slot # c

(* A command is never refused by a lock that its own caller holds: reuse    *)
(* sees every ownership of the context, whichever lock is on top of it.     *)
NeverRefusedByItself ==
    \A c \in Clients : \A i \in DOMAIN stack[c] : stack[c][i].refusedBy # c

(* Commands of one server run one at a time and each sees the library its   *)
(* own arguments selected, also after a nested step that selected another.  *)
OwnLibrary ==
    \A c \in Clients :
        stack[c] # <<>> /\ Top(c).phase \in {"leaf", "run", "body"}
            => scope[ProcessOf(c)] = Prof(Top(c)).library

(* Every lock that is taken is given back, and every request that waits for *)
(* the slot gets an answer.                                                 *)
EverythingComesBack ==
    /\ \A p \in Locks : holder[p] # None ~> holder[p] = None
    /\ \A c \in Server : request[c] = "waiting" ~> request[c] # "waiting"

=============================================================================
