---------------------------- MODULE CreateRoutes ----------------------------
(***************************************************************************)
(* How a command creates items (internal/cli/items_create.go,              *)
(* create_route.go, import_file.go, internal/client/client.go), and what   *)
(* each route does so that a create whose answer is lost is not carried    *)
(* out again by the next attempt:                                          *)
(*   "web"        POST /items with a write token derived from the payload; *)
(*                the server refuses a token it has seen                   *)
(*   "connector"  the desktop's SaveItems; after an error the library is   *)
(*                searched for the items                                   *)
(*   "import"     the desktop's Import, behind a guard file named for the  *)
(*                content                                                  *)
(* A create is known by the workflow step that asks for it; its payload,   *)
(* and with it token and guard, stays the same when the step is repeated.  *)
(***************************************************************************)
EXTENDS Faults

CONSTANTS
    Steps,          \* the steps that may create items
    NoStep,
    MaxRetries,     \* of one HTTP request, 3 in the code
    ConnectorHides  \* may the connector's work go unseen by the search?

ASSUME CreateAssumption ==
    /\ NoStep \notin Steps
    /\ MaxRetries \in Nat
    /\ ConnectorHides \in BOOLEAN

VARIABLES
    request,        \* the create under way
    answer,         \* what it reports when it is over
    tokens,         \* external: write tokens the server has seen
    inFlight,       \* external: requests whose sender no longer waits
    guards,         \* guard files
    copies          \* external: how often each create was carried out

createVars == <<request, answer, tokens, inFlight, guards, copies>>

Routes == {"web", "connector", "import"}
NoRequest == [of |-> NoStep, route |-> "none", attempt |-> 0]

\* Nothing, everything applied, something applied, unknown, nothing applied.
Answers == {"none", "ok", "partial", "conflict", "failed"}

CreateInit ==
    /\ request = NoRequest /\ answer = "none"
    /\ tokens = {} /\ inFlight = {} /\ guards = {}
    /\ copies = [s \in Steps |-> 0]

CreateTypeOK ==
    /\ request \in [of : Steps \cup {NoStep}, route : Routes \cup {"none"}, attempt : 0..MaxRetries]
    /\ answer \in Answers
    /\ tokens \subseteq Steps /\ inFlight \subseteq Steps /\ guards \subseteq Steps
    /\ copies \in [Steps -> Nat]

-----------------------------------------------------------------------------
\* An import finds the guard of an earlier try.
Refused(s, route) == route = "import" /\ s \in guards

\* A create begins; an import first writes its guard.
Dispatch(s, route) ==
    /\ ~Refused(s, route)
    /\ request' = [of |-> s, route |-> route, attempt |-> 0]
    /\ answer' = "none"
    /\ guards' = IF route = "import" THEN guards \cup {s} ELSE guards
    /\ UNCHANGED <<tokens, inFlight, copies, faults>>

\* It is refused, or writing its guard fails; nothing is sent.
RefuseImport(s, route) ==
    /\ route = "import"
    /\ IF Refused(s, route)
       THEN NoFault /\ UNCHANGED guards
       ELSE Fault /\ guards' \in {guards, guards \cup {s}}
    /\ request' = NoRequest /\ answer' = "failed"
    /\ UNCHANGED <<tokens, inFlight, copies>>

Answer(a) == request' = NoRequest /\ answer' = a

\* The library carries a create out, wholly or in part, or rejects it.
Effects == {"ok", "partial", "failed"}
Created(s, effect) ==
    copies' = IF effect = "failed" THEN copies ELSE [copies EXCEPT ![s] = @ + 1]

-----------------------------------------------------------------------------
\* A token the server has seen is answered with 412.
Seen(s) == s \in tokens

Serve(s, effect) ==
    /\ effect \in Effects
    /\ Created(s, effect)
    /\ tokens' \in {tokens \cup {s}} \cup (IF effect = "failed" THEN {tokens} ELSE {})

\* The attempt is answered, with success or with a refusal.
WebAnswered ==
    /\ request.route = "web"
    /\ IF Seen(request.of)
       THEN Answer("conflict") /\ UNCHANGED <<tokens, copies>>
       ELSE \E e \in Effects : Serve(request.of, e) /\ Answer(e)
    /\ UNCHANGED <<inFlight, guards, faults>>

MayRetry == request.attempt < MaxRetries
Retry == request' = [request EXCEPT !.attempt = @ + 1] /\ UNCHANGED answer

\* The attempt ends in a 5xx, a broken connection, a timeout or a body that
\* cannot be read.  It may have been carried out, may still be, or never
\* arrived.  The token makes a retry safe; timeouts and bodies are not retried.
WebLost ==
    /\ request.route = "web"
    /\ Fault
    /\ \/ UNCHANGED <<tokens, inFlight, copies>>
       \/ ~Seen(request.of) /\ \E e \in Effects : Serve(request.of, e) /\ UNCHANGED inFlight
       \/ inFlight' = inFlight \cup {request.of} /\ UNCHANGED <<tokens, copies>>
    /\ \/ MayRetry /\ Retry
       \/ Answer("conflict")
    /\ UNCHANGED guards

\* 429: the attempt was not carried out.  When the retries are exhausted the
\* create has failed, whatever became of earlier attempts.
WebThrottled ==
    /\ request.route = "web"
    /\ Fault
    /\ IF MayRetry THEN Retry ELSE Answer("failed")
    /\ UNCHANGED <<tokens, inFlight, guards, copies>>

\* A request that was given up arrives after all.
Late(s) ==
    /\ s \in inFlight
    /\ inFlight' = inFlight \ {s}
    /\ IF Seen(s) THEN UNCHANGED <<tokens, copies>> ELSE \E e \in Effects : Serve(s, e)
    /\ UNCHANGED <<request, answer, guards, faults>>

-----------------------------------------------------------------------------
\* What the search after a connector error may conclude about items that are
\* there: all found, some found, or none yet.
Found == {"ok", "partial"} \cup (IF ConnectorHides THEN {"conflict"} ELSE {})

\* SaveItems succeeds; or fails before it is sent; or reports an error, after
\* which the items are searched for.  An error of the filing that follows
\* leaves the items applied and the command failed.
ConnectorSaves ==
    /\ request.route = "connector"
    /\ \/ Created(request.of, "ok") /\ Answer("ok") /\ NoFault
       \/ Created(request.of, "ok") /\ Fault /\ \E a \in Found : Answer(a)
       \/ UNCHANGED copies /\ Fault /\ \E a \in {"failed", "conflict"} : Answer(a)
    /\ UNCHANGED <<tokens, inFlight, guards>>

\* The import is sent, and answered or not.  The guard is still there.
ImportSent ==
    /\ request.route = "import" /\ answer = "none"
    /\ \/ Created(request.of, "ok") /\ answer' = "ok" /\ NoFault
       \/ Created(request.of, "ok") /\ Fault /\ answer' \in {"partial", "conflict"}
       \/ UNCHANGED copies /\ Fault /\ answer' \in {"failed", "conflict"}
    /\ UNCHANGED <<request, tokens, inFlight, guards>>

\* A confirmed outcome; the others keep the guard.
Settled(a) == a \in {"ok", "failed"}

\* The outcome is journaled and rendered, then the guard is removed.
ImportSettles ==
    /\ request.route = "import" /\ answer # "none"
    /\ request' = NoRequest
    /\ \/ NoFault /\ guards' = IF Settled(answer) THEN guards \ {request.of} ELSE guards
       \/ Fault /\ Settled(answer) /\ UNCHANGED guards
    /\ UNCHANGED <<answer, tokens, inFlight, copies>>

Respond == WebAnswered \/ WebLost \/ WebThrottled \/ ConnectorSaves \/ ImportSent \/ ImportSettles

\* The process that waits for an answer is gone; a web request may still arrive.
Abandon ==
    /\ request' = NoRequest /\ answer' = "none"
    /\ inFlight' \in {inFlight} \cup (IF request.route = "web" THEN {inFlight \cup {request.of}} ELSE {})
    /\ UNCHANGED <<tokens, guards, copies>>

\* The creates of a new approval have the payloads of the one before, or others.
NewPayloads ==
    /\ request' = NoRequest /\ answer' = "none"
    /\ copies' = [s \in Steps |-> 0]
    /\ \/ UNCHANGED <<tokens, inFlight, guards>>
       \/ tokens' = {} /\ inFlight' = {} /\ guards' = {}

\* No create of an approved run is carried out twice, however often its step is
\* tried again after a lost answer, a kill or a failure (create_route.go's write
\* token, import_file_pending.go's guard, the refusals of workflow_run.go).
CreatedOnce == \A s \in Steps : copies[s] <= 1
=============================================================================
