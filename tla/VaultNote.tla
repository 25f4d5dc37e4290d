----------------------------- MODULE VaultNote -----------------------------
(***************************************************************************)
(* One note of a vault and its child note in Zotero (vault_push.go,        *)
(* vault_pull.go, vault_sync.go).  The user owns the Notes region of a     *)
(* file, which zotio pushes to a child note that other clients edit too.   *)
(* A hidden comment of the file holds the baseline: the text of the region *)
(* and the body and version of the child note that were last in step, and  *)
(* the intent of a write that may have landed.                             *)
(*                                                                         *)
(* A hash is the text that was hashed, and a body of a child note is a     *)
(* text in the managed shape or not: rendering keeps one text apart from   *)
(* another, and Zotero keeps the markup that zotio sends.  The commands of *)
(* this vault exclude each other by its writer lock; previews, gates and   *)
(* the library check change nothing.  A request has landed, or never will, *)
(* once its answer is lost, and Zotero remembers every write token.        *)
(***************************************************************************)
EXTENDS Naturals, FiniteSets

CONSTANTS
    Texts,          \* texts of a region, Empty among them
    Empty,
    NoteKeys,       \* keys of child notes
    None,
    Risks,          \* see AllRisks
    MaxSaves,       \* bound: times the user saves the file
    MaxEdits,       \* bound: edits of a child note by other clients
    MaxOrders,      \* bound: resolve commands
    MaxFaults       \* bound: kills, lost answers and failing writes

AllRisks == {
    "readback",     \* another client edits a note between zotio's write and its read-back
    "forgotten"}    \* keep-vault begins while the intent of an earlier write is pending

ASSUME VaultNoteAssumption ==
    /\ Empty \in Texts /\ None \notin Texts /\ None \notin NoteKeys
    /\ IsFiniteSet(NoteKeys) /\ Risks \subseteq AllRisks
    /\ MaxSaves \in Nat /\ MaxEdits \in Nat /\ MaxOrders \in Nat /\ MaxFaults \in Nat

VARIABLES
    notes,          \* the child notes of the item
    version,        \* the version of the library
    tokens,         \* the write tokens Zotero has seen: a text and the key it replaces
    file,           \* the vault file: its Notes region and its state comment
    cmd,            \* the command that holds the vault's writer lock
    held,           \* ghost: the texts a child note has had
    shown,          \* ghost: the texts the region has had, or that the user was told of
    saves, edits, orders, faults

zotero == <<notes, version, tokens>>
ghosts == <<held, shown>>
bounds == <<saves, edits, orders, faults>>
vars == <<zotero, file, cmd, ghosts, bounds>>

Body(t) == [text |-> t, managed |-> TRUE]
NoBody == [text |-> None, managed |-> FALSE]
Absent == [at |-> "none", body |-> NoBody, ver |-> 0, by |-> "nobody"]

\* pushState.  src is the text of the region, remote the body, and psrc and
\* premote those of a write that may have landed.
Unbound == [key |-> None, ver |-> 0, src |-> None, remote |-> NoBody,
            psrc |-> None, premote |-> NoBody]

Baseline(key, ver, src, body) ==
    [Unbound EXCEPT !.key = key, !.ver = ver, !.src = src, !.remote = body]

Fresh == [region |-> Empty, state |-> Unbound]
Live == {k \in NoteKeys : notes[k].at = "live"}

Idle == [op |-> "idle", pc |-> "idle", note |-> Fresh, replaces |-> None, key |-> None,
         live |-> Absent, pre |-> 0, retried |-> FALSE, src |-> None,
         buffer |-> Fresh, base |-> None, next |-> "idle", status |-> "none"]

Ops == {"push", "pull", "keep_vault", "keep_remote", "recreate", "sync"}
Orders == {"keep_vault", "keep_remote", "recreate"}

Init ==
    /\ notes = [k \in NoteKeys |-> Absent] /\ version = 0 /\ tokens = {}
    /\ file = Fresh /\ cmd = Idle
    /\ held = {} /\ shown = {Empty}
    /\ saves = 0 /\ edits = 0 /\ orders = 0 /\ faults = 0

-----------------------------------------------------------------------------
(* The user and other clients. *)

Save(t) ==
    /\ saves < MaxSaves
    /\ saves' = saves + 1
    /\ file' = [file EXCEPT !.region = t]
    /\ shown' = shown \cup {t}
    /\ UNCHANGED <<zotero, cmd, held, edits, orders, faults>>

Bump(k, note) ==
    /\ k \in Live
    /\ edits < MaxEdits
    /\ edits' = edits + 1
    /\ version' = version + 1
    /\ notes' = [notes EXCEPT ![k] = [note EXCEPT !.ver = version + 1]]
    /\ held' = held \cup {note.body.text}
    /\ UNCHANGED <<tokens, file, cmd, shown, saves, orders, faults>>

Mutated(k, t, managed) ==
    [notes[k] EXCEPT !.body = [text |-> t, managed |-> managed], !.by = "other"]

\* What a body says that is not in the managed shape makes no difference.
EditElsewhere(k, t, managed) ==
    /\ IF managed THEN notes[k].body.managed ELSE t = Empty
    /\ "readback" \in Risks \/ cmd.pc # "finalize"
    /\ Bump(k, Mutated(k, t, managed))

\* A tag of the note, or its place: the body stays.
TouchElsewhere(k) == Bump(k, notes[k])

DeleteElsewhere(k) == Bump(k, [notes[k] EXCEPT !.at = "gone"])

-----------------------------------------------------------------------------
(* A command. *)

At(pc) == cmd.pc = pc
Going(pc) == [cmd EXCEPT !.pc = pc]
Ending(status) == [cmd EXCEPT !.pc = "end", !.status = status]

\* atomicReplace: the file is read and compared here, and renamed in Rename; what
\* is saved between the two is lost.
Writing(c, region, state, next) ==
    [c EXCEPT !.pc = "write", !.next = next, !.note.state = state, !.base = file.region,
              !.buffer = [region |-> region, state |-> state]]

\* writeNoteState replaces the comment in the file as it is now.
Stating(c, state, next) == Writing(c, file.region, state, next)

Dirty(n) == n.region # n.state.src

Unpushed(op) == op = "push" /\ file.state.key = None /\ file.region # Empty

\* parsePushNote, and what decides without a request.
Start(op) ==
    /\ cmd = Idle
    /\ orders' = IF op \in Orders THEN orders + 1 ELSE orders
    /\ orders' <= MaxOrders
    /\ "forgotten" \in Risks \/ op # "keep_vault" \/ file.state.psrc = None
    /\ LET bound == file.state.key # None
           begun == [Idle EXCEPT !.op = op, !.note = file, !.key = file.state.key]
       IN cmd' = CASE op = "sync" -> Writing(begun, file.region, file.state, "end")
                   [] op = "push" /\ bound -> [begun EXCEPT !.pc = "versions"]
                   [] op \in {"pull", "keep_vault", "keep_remote"} /\ bound -> [begun EXCEPT !.pc = "read"]
                   [] op = "recreate" \/ (op = "keep_vault" /\ ~bound) \/ Unpushed(op) ->
                        [begun EXCEPT !.pc = "discover", !.replaces = file.state.key]
                   [] OTHER -> [begun EXCEPT !.pc = "end"]
    /\ UNCHANGED <<zotero, file, ghosts, saves, edits, faults>>

Quiet == UNCHANGED <<zotero, file, ghosts, bounds>>

\* fetchNoteVersions
Versions ==
    /\ At("versions")
    /\ cmd' = IF cmd.key \notin Live THEN Ending("remote_deleted")
              ELSE IF Dirty(cmd.note) \/ cmd.note.state.psrc # None THEN Going("read")
              ELSE Ending("unchanged")
    /\ Quiet

\* Fault: a lost baseline is not recognised by its intent.
Mutant_Recovered(n, body) == IF body = Body(n.region) THEN n.region ELSE None

\* recoveredPushSource: the text of a push that has landed, or None.
Recovered(n, body) ==
    IF n.state.psrc # None /\ body = n.state.premote THEN n.state.psrc
    ELSE IF body = Body(n.region) THEN n.region
    ELSE None

\* Fault: the baseline keeps the body it had.
Mutant_Converged(c, note, src, next) ==
    Stating(c, [c.note.state EXCEPT !.ver = note.ver, !.src = src, !.psrc = None,
                                    !.premote = NoBody], next)

\* convergeNote
Converged(c, note, src, next) ==
    Stating(c, Baseline(c.note.state.key, note.ver, src, note.body), next)

\* Fault: the precondition is the version just read, not that of the baseline.
Mutant_Intending(c, ver) ==
    Stating([c EXCEPT !.pre = c.live.ver],
            [c.note.state EXCEPT !.psrc = c.note.region, !.premote = Body(c.note.region)], "patch")

\* recordPendingPush
Intending(c, ver) ==
    Stating([c EXCEPT !.pre = ver],
            [c.note.state EXCEPT !.psrc = c.note.region, !.premote = Body(c.note.region)], "patch")

\* Fault: the region is replaced as it is now.
Mutant_Pulling(c, note, source) ==
    Writing(c, note.body.text,
            Baseline(c.note.state.key, note.ver, note.body.text, note.body), "end")

\* A region is replaced only if it is the one that authorised it.
Pulling(c, note, source) ==
    IF file.region # source THEN [c EXCEPT !.pc = "end", !.status = "conflict"]
    ELSE Writing(c, note.body.text,
                 Baseline(c.note.state.key, note.ver, note.body.text, note.body), "end")

\* getNote, and what pushOne, pullOne and the resolve command make of it.
Read ==
    /\ At("read")
    /\ LET note == notes[cmd.key]
           n == cmd.note
           c == [cmd EXCEPT !.live = note]
           source == Recovered(n, note.body)
           moved == note.ver # n.state.ver
       IN cmd' =
            CASE note.at # "live" -> Ending("remote_deleted")
              [] note.at = "live" /\ cmd.op = "push" ->
                   (IF source # None
                    THEN Converged([c EXCEPT !.status = "converged"], note, source,
                                   IF source = n.region THEN "end" ELSE "intend")
                    ELSE IF Dirty(n) THEN Intending(c, n.state.ver)
                    ELSE Ending("unchanged"))
              [] note.at = "live" /\ cmd.op = "pull" ->
                   (IF (moved \/ n.state.psrc # None) /\ source # None
                    THEN Converged(c, note, source, "end")
                    ELSE IF ~moved THEN Ending("unchanged")
                    ELSE IF Dirty(n) THEN [c EXCEPT !.pc = "end", !.status = "conflict"]
                    ELSE IF ~note.body.managed THEN Ending("skipped")
                    ELSE Pulling(c, note, n.state.src))
              [] note.at = "live" /\ cmd.op = "keep_vault" -> Intending(c, note.ver)
              [] note.at = "live" /\ cmd.op = "keep_remote" ->
                   (IF note.body.managed THEN Pulling(c, note, n.region) ELSE Ending("failed"))
    /\ Quiet

\* The next recordPendingPush of the same push, after its baseline was recovered.
Intend ==
    /\ At("intend")
    /\ cmd' = Intending(cmd, cmd.note.state.ver)
    /\ Quiet

\* classifyReconciledPatch: an answer was lost, and the note tells what became of it.
Reconcile ==
    /\ At("reconcile")
    /\ cmd' = IF cmd.key \in Live /\ notes[cmd.key].body = Body(cmd.note.region)
              THEN [Going("finalize") EXCEPT !.status = "converged"]
              ELSE [Going("settle") EXCEPT !.status = "unknown"]
    /\ Quiet

Accepts(k, pre) == k \in Live /\ notes[k].ver = pre

Landed(k, body) ==
    /\ version' = version + 1
    /\ notes' = [notes EXCEPT ![k] = [at |-> "live", body |-> body, ver |-> version + 1, by |-> "zotio"]]
    /\ held' = held \cup {body.text}
    /\ UNCHANGED <<file, shown>>

\* patchPendingNote after its intent is on disk: the PATCH lands.
Patch ==
    /\ At("patch") /\ Accepts(cmd.key, cmd.pre)
    /\ Landed(cmd.key, Body(cmd.note.region))
    /\ \/ /\ cmd' = [Going("finalize") EXCEPT !.status = "updated"]
          /\ UNCHANGED bounds
       \/ /\ faults < MaxFaults /\ faults' = faults + 1
          /\ cmd' = Going("reconcile")
          /\ UNCHANGED <<saves, edits, orders>>
    /\ UNCHANGED tokens

\* The PATCH is refused: for its version, or for a reason that has nothing to do
\* with the note.  Its intent is withdrawn.
Refuse ==
    /\ At("patch")
    /\ IF Accepts(cmd.key, cmd.pre)
       THEN faults < MaxFaults /\ faults' = faults + 1 /\ UNCHANGED <<saves, edits, orders>>
       ELSE UNCHANGED bounds
    /\ cmd' = Stating([cmd EXCEPT !.status = IF cmd.key \in Live /\ notes[cmd.key].ver # cmd.pre
                                             THEN "stale" ELSE "failed"],
                      [cmd.note.state EXCEPT !.psrc = None, !.premote = NoBody], "settle")
    /\ UNCHANGED <<zotero, file, ghosts>>

\* patchWithConflict after a PATCH that failed.
Settle ==
    /\ At("settle")
    /\ LET note == notes[cmd.key]
           wanted == Body(cmd.note.region)
           c == [cmd EXCEPT !.live = note, !.status = "converged"]
       IN cmd' =
            IF cmd.retried /\ cmd.live.body = wanted
            THEN Converged([cmd EXCEPT !.status = "converged"], cmd.live, cmd.note.region, "end")
            ELSE IF cmd.op # "push" \/ cmd.retried \/ cmd.status # "stale" \/ note.at # "live"
            THEN Ending("failed")
            ELSE IF note.body = cmd.note.state.remote
            THEN Intending([c EXCEPT !.retried = TRUE], note.ver)
            ELSE IF note.body = wanted
            THEN Converged(c, note, cmd.note.region, "end")
            ELSE Ending("conflict")
    /\ Quiet

\* finalizeState
Finalize ==
    /\ At("finalize")
    /\ cmd' = IF cmd.key \in Live
              THEN Stating(cmd, Baseline(cmd.key, notes[cmd.key].ver,
                                         IF cmd.src = None THEN cmd.note.region ELSE cmd.src,
                                         notes[cmd.key].body), "end")
              ELSE Ending("failed")
    /\ Quiet

-----------------------------------------------------------------------------
(* Creating the child note: createChildNote. *)

Managed == {k \in Live : notes[k].body.managed}

\* Fault: a child counts only with the text that is about to be created.
Mutant_Children == {k \in Managed : notes[k].body = Body(cmd.note.region)}

\* findChildNoteCreate before a create: the managed children, whatever they hold.
Children == Managed

Adopting(k) ==
    [cmd EXCEPT !.pc = "finalize", !.key = k, !.status = "converged",
                !.src = IF notes[k].body = Body(cmd.note.region) THEN None ELSE notes[k].body.text]

\* A child that is bound with another text is reported: "local notes remain unchanged;
\* run vault push to send local edits".
Discover ==
    /\ At("discover")
    /\ cmd' = IF Children = {} THEN Going("post")
              ELSE IF Cardinality(Children) = 1 THEN Adopting(CHOOSE k \in Children : TRUE)
              ELSE Ending("ambiguous")
    /\ shown' = IF cmd'.src = None THEN shown ELSE shown \cup {cmd'.src}
    /\ UNCHANGED <<zotero, file, held, bounds>>

Token == <<cmd.note.region, cmd.replaces>>

\* The POST lands under a token Zotero has not seen.  An answer that is lost makes
\* the client send it again, or give up.
Post(k) ==
    /\ At("post") /\ Token \notin tokens
    /\ notes[k].at = "none"
    /\ Landed(k, Body(cmd.note.region))
    /\ tokens' = tokens \cup {Token}
    /\ \/ /\ cmd' = [Going("finalize") EXCEPT !.key = k, !.status = "updated"]
          /\ UNCHANGED bounds
       \/ /\ faults < MaxFaults /\ faults' = faults + 1
          /\ cmd' \in {cmd, Going("adopt")}
          /\ UNCHANGED <<saves, edits, orders>>

\* A token that was used is refused.
Used ==
    /\ At("post") /\ Token \in tokens
    /\ cmd' = Going("adopt")
    /\ Quiet

\* reconcileChildNoteCreate: the managed children that hold just this text.
Adopt ==
    /\ At("adopt")
    /\ LET same == {k \in Managed : notes[k].body = Body(cmd.note.region)}
       IN cmd' = IF Cardinality(same) = 1 THEN Adopting(CHOOSE k \in same : TRUE)
                 ELSE Ending("ambiguous")
    /\ Quiet

-----------------------------------------------------------------------------
(* The end of a write, and what may go wrong. *)

Rename ==
    /\ At("write")
    /\ file' = cmd.buffer
    /\ shown' = shown \cup {cmd.buffer.region}
    /\ cmd' = Going(cmd.next)
    /\ UNCHANGED <<zotero, held, bounds>>

Faulty ==
    /\ faults < MaxFaults /\ faults' = faults + 1
    /\ UNCHANGED <<zotero, held, saves, edits, orders>>

\* The write fails, before the rename or when it syncs the directory, or finds the
\* file busy.  A withdrawal that fails does not keep the command from going on.
FailWrite ==
    /\ At("write") /\ Faulty
    /\ file' \in {file, cmd.buffer}
    /\ shown' = shown \cup {file'.region}
    /\ cmd' = IF cmd.next = "settle"
              THEN [Going("settle") EXCEPT !.note.state = file.state]
              ELSE Ending("failed")

\* A request fails and nothing has changed, or the process is killed.
FailRequest ==
    /\ cmd.pc \in {"versions", "read", "patch", "reconcile", "finalize", "discover", "post", "adopt"}
    /\ Faulty
    /\ cmd' = Ending("failed")
    /\ UNCHANGED <<file, shown>>

Kill ==
    /\ cmd # Idle /\ Faulty
    /\ cmd' = Idle
    /\ UNCHANGED <<file, shown>>

Return ==
    /\ At("end")
    /\ cmd' = Idle
    /\ Quiet

Work ==
    \/ Versions \/ Read \/ Intend \/ Reconcile \/ Patch \/ Refuse \/ Settle \/ Finalize
    \/ Discover \/ (\E k \in NoteKeys : Post(k)) \/ Used \/ Adopt \/ Rename \/ Return

Next ==
    \/ \E t \in Texts : Save(t)
    \/ \E k \in NoteKeys :
          \/ \E t \in Texts, managed \in BOOLEAN : EditElsewhere(k, t, managed)
          \/ TouchElsewhere(k) \/ DeleteElsewhere(k)
    \/ \E op \in Ops : Start(op)
    \/ Work
    \/ FailWrite \/ FailRequest \/ Kill

\* A command goes on while its process lives; the user runs push again and again.
Spec ==
    /\ Init /\ [][Next]_vars
    /\ WF_vars(Work) /\ SF_vars(Start("push"))

-----------------------------------------------------------------------------
Bodies == [text : Texts \cup {None}, managed : BOOLEAN]
States == [key : NoteKeys \cup {None}, ver : Nat, src : Texts \cup {None}, remote : Bodies,
           psrc : Texts \cup {None}, premote : Bodies]
Files == [region : Texts, state : States]
ChildNotes == [at : {"none", "live", "gone"}, body : Bodies, ver : Nat, by : {"nobody", "zotio", "other"}]

PCs == {"idle", "versions", "read", "intend", "patch", "reconcile", "settle", "finalize",
        "discover", "post", "adopt", "write", "end"}
Statuses == {"none", "unchanged", "converged", "updated", "conflict", "ambiguous", "skipped",
             "remote_deleted", "stale", "unknown", "failed"}

Commands == [op : Ops \cup {"idle"}, pc : PCs, note : Files, replaces : NoteKeys \cup {None},
         key : NoteKeys \cup {None}, live : ChildNotes, pre : Nat, retried : BOOLEAN,
         src : Texts \cup {None}, buffer : Files, base : Texts \cup {None}, next : PCs,
         status : Statuses]

TypeOK ==
    /\ notes \in [NoteKeys -> ChildNotes] /\ version \in Nat
    /\ tokens \subseteq Texts \X (NoteKeys \cup {None})
    /\ file \in Files /\ cmd \in Commands
    /\ held \subseteq Texts /\ shown \subseteq Texts
    /\ saves \in 0..MaxSaves /\ edits \in 0..MaxEdits /\ orders \in 0..MaxOrders
    /\ faults \in 0..MaxFaults

\* A write of zotio replaces a body only if its text was in this file before, so
\* that an edit of another client is never overwritten, except where the user
\* asked for it with --keep-vault (vault_push.go, patchWithConflict).
RemoteEditsStand ==
    [][\A k \in NoteKeys :
         cmd' # cmd /\ k \in Live /\ notes'[k].body # notes[k].body
           => cmd.op = "keep_vault" \/ (notes[k].body.managed /\ notes[k].body.text \in shown)]_vars

\* A command replaces a region only by asking for it with --keep-remote, or when a
\* child note has had that text; what the user saves after the last comparison is
\* left aside (vault_pull.go, applyPulledRegion; vault_sync.go, atomicReplace).
LocalEditsStand ==
    [][cmd' # cmd /\ file'.region # file.region /\ file.region = cmd.base
         => cmd.op = "keep_remote" \/ file.region \in held]_vars

Agree(st) ==
    st.key # None =>
        /\ st.src \in held /\ st.remote.text = st.src
        /\ notes[st.key].at = "live" /\ notes[st.key].ver = st.ver => notes[st.key].body = st.remote

\* What a file, or the process about to write one, takes for the state last in
\* step is a state that was: text and body belong together, and a child note at
\* this version has this body (finalizeState, convergeNote, keepRemoteResolve).
BaselineHonest == Agree(file.state) /\ Agree(cmd.note.state)

\* However creates are cut off and repeated, none is carried out beside a managed
\* child note of the item (createChildNote).
NoSecondChild ==
    [][\A k \in NoteKeys : notes[k].at = "none" /\ notes'[k].at = "live" => Managed = {}]_vars

InStep ==
    /\ file.state.key \in Live
    /\ notes[file.state.key].body = Body(file.region)
    /\ file.state.src = file.region /\ file.state.psrc = None

\* Pushing again and again ends with the region in the child note and nothing in
\* doubt, unless there is nothing to push, or another client has changed the note's
\* body or deleted it, whether the file knows that note or only Zotero its token
\* (pushOne, recoveredPushSource, createChildNote).
PushesThrough ==
    <>[](\/ InStep
         \/ file.state.key = None /\ file.region = Empty
         \/ \E k \in (IF file.state.key = None THEN NoteKeys ELSE {file.state.key}) :
               notes[k].at = "gone" \/ notes[k].by = "other")
=============================================================================
