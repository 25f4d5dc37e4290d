---------------------------- MODULE PendingWrites ----------------------------
(***************************************************************************)
(* The two planes (internal/cli/write_through.go, pending_writes.go,       *)
(* sync.go and the store).  zotio writes to zotero.org and reads from the  *)
(* Zotero desktop, which hears of a write when Zotero next syncs.  A       *)
(* command that wrote replays its write onto the mirror and leaves a       *)
(* marker; a sync, whose two workers for items and items-trash run at      *)
(* once, merges the markers into the older rows the desktop still lists.   *)
(*                                                                         *)
(* The library is a log of snapshots: its latest is zotero.org's, and the  *)
(* desktop shows one that is perhaps older.  A listing is one response     *)
(* here: pages, cursors and the completeness checks are in MirrorSync.     *)
(* The read plane is always the desktop: a change of plane, which strips   *)
(* the row versions as a full pass does, is left out.  One scalar field    *)
(* stands for the replayable ones.                                         *)
(*                                                                         *)
(* Some circumstances break promises of this code; each is a member of     *)
(* Risks, and happens only in a run that takes it.                         *)
(***************************************************************************)
EXTENDS Naturals, FiniteSets, Sequences, FiniteSetsExt

CONSTANTS
    Keys,           \* item keys
    Parent,         \* the parent of each key, None for a top-level item
    None,
    Values,         \* values of the field
    Initial,        \* the field of every item the library begins with
    Risks,          \* see AllRisks
    MaxVersion,     \* bound: versions of the library
    MaxSyncs,       \* bound: syncs started
    MaxAges,        \* bound: times the markers grow old
    MaxBackups      \* bound: times the desktop's library is put back

AllRisks == {
    "behind",       \* Zotero's sync began before the latest writes it did not hear of
    "unseen",       \* zotio edits an item whose latest edit has reached the desktop only
    "again",        \* an edit writes a value the field had before
    "fresh",        \* zotio edits an item it created, before any sync listed it
    "backups",      \* a backup changes which items are in the trash
    "halfway"}      \* a full pass over an older library fails with rows stored

Resources == {"items", "items-trash"}
Ops == {"create", "edit", "trash", "restore", "erase"}

ASSUME PendingWritesAssumption ==
    /\ Parent \in [Keys -> Keys \cup {None}] /\ None \notin Keys
    /\ Initial \in Values /\ None \notin Values
    /\ IsFiniteSet(Keys) /\ IsFiniteSet(Values)
    /\ Risks \subseteq AllRisks
    /\ MaxVersion \in Nat \ {0} /\ MaxSyncs \in Nat /\ MaxAges \in Nat /\ MaxBackups \in Nat

VARIABLES
    history,        \* the snapshots of the library; a version is an index
    desk,           \* the snapshot the desktop shows
    mirror,         \* the row of each key in items and in items-trash
    pending,        \* pending_writes of items
    buried,         \* the keys with a deletion marker for items-trash
    check,          \* library_version of each resource
    cmd,            \* the command that holds the installation lock
    worker,         \* the sync worker of each resource
    syncs, ages, backups,
    wrote,          \* ghost: the version of zotio's latest write in the mirror
    purged,         \* ghost: the keys zotio erased, and their mirrored children
    moved           \* ghost: did the desktop change since the sync began?

planes == <<history, desk>>
store == <<mirror, pending, buried, check>>
ghosts == <<wrote, purged, moved>>
bounds == <<syncs, ages, backups>>
planeVars == <<planes, store, cmd, worker, bounds, ghosts>>

Version == Len(history)
Cloud == history[Version]
Desk == history[desk]

NoRow == [val |-> None, ver |-> 0]
NoMarker == [kind |-> "none", written |-> None, was |-> {}, old |-> FALSE]
Deleted == [NoMarker EXCEPT !.kind = "deleted"]
NoCommand == [op |-> "idle", key |-> None, val |-> None, ver |-> 0, full |-> FALSE]
NoWorker == [pc |-> "idle", full |-> FALSE, since |-> 0, rows |-> {}, seen |-> {}, top |-> 0]

Other(r) == IF r = "items" THEN "items-trash" ELSE "items"
Place(r) == IF r = "items" THEN "live" ELSE "trash"

\* A library of which the mirror has all; of the children some may come later.
PlanesInit ==
    /\ \E late \in SUBSET {k \in Keys : Parent[k] # None} :
         history = <<[k \in Keys |-> IF k \in late
                        THEN [at |-> "never", val |-> None, ver |-> 0]
                        ELSE [at |-> "live", val |-> Initial, ver |-> 1]]>>
    /\ desk = 1
    /\ mirror = [r \in Resources |-> [k \in Keys |->
         IF r = "items" /\ Cloud[k].at = "live" THEN [val |-> Initial, ver |-> 1] ELSE NoRow]]
    /\ pending = [k \in Keys |-> NoMarker] /\ buried = {}
    /\ check = [r \in Resources |-> IF r = "items" THEN 1 ELSE 0]
    /\ cmd = NoCommand /\ worker = [r \in Resources |-> NoWorker]
    /\ syncs = 0 /\ ages = 0 /\ backups = 0
    /\ wrote = [k \in Keys |-> 0] /\ purged = {} /\ moved = FALSE

-----------------------------------------------------------------------------
(* The library. *)

Children(above, known) == {k \in known : Parent[k] \in above}

\* An item, its attachments and their annotations, of those that are known.
Family(k, known) ==
    LET below == Children({k}, known) IN {k} \cup below \cup Children(below, known)

Possible(op, k, v) ==
    CASE op = "create"  -> Cloud[k].at = "never"
                           /\ (Parent[k] # None => Cloud[Parent[k]].at = "live")
      [] op = "edit"    -> Cloud[k].at = "live" /\ v # Cloud[k].val
      [] op = "trash"   -> Cloud[k].at = "live"
      [] op = "restore" -> Cloud[k].at = "trash"
      [] op = "erase"   -> Cloud[k].at \in {"live", "trash"}

Outcome(op, k, v) ==
    LET object(at, val) == [at |-> at, val |-> val, ver |-> Version + 1]
    IN CASE op = "create"  -> [Cloud EXCEPT ![k] = object("live", v)]
         [] op = "edit"    -> [Cloud EXCEPT ![k] = object("live", v)]
         [] op = "trash"   -> [Cloud EXCEPT ![k] = object("trash", @.val)]
         [] op = "restore" -> [Cloud EXCEPT ![k] = object("live", @.val)]
         [] op = "erase"   -> [j \in Keys |->
               IF j \in Family(k, Keys) /\ Cloud[j].at # "never"
               THEN [Cloud[j] EXCEPT !.at = "erased"] ELSE Cloud[j]]

\* v matters to a create and to an edit only.
Lands(op, k, v) ==
    /\ Version < MaxVersion
    /\ op \notin {"create", "edit"} => v = Initial
    /\ op = "edit" => "again" \in Risks \/ \A i \in 1 .. Version : v # history[i][k].val
    /\ Possible(op, k, v)
    /\ history' = Append(history, Outcome(op, k, v))

\* Another client.
Elsewhere(op, k, v) ==
    /\ Lands(op, k, v)
    /\ UNCHANGED <<desk, store, cmd, worker, bounds, ghosts>>

\* Zotero syncs: the desktop hears of all there is.
DeskHears ==
    /\ desk' \in IF "behind" \in Risks THEN desk + 1 .. Version ELSE {Version} \ {desk}
    /\ moved' = TRUE
    /\ UNCHANGED <<history, store, cmd, worker, bounds, wrote, purged>>

SamePlaces(i, j) == \A k \in Keys : history[i][k].at = history[j][k].at

\* The desktop's library is put back from a backup.  What zotio wrote since is
\* promised no more, nor what it erased.
DeskRestored ==
    /\ backups < MaxBackups
    /\ backups' = backups + 1
    /\ desk' \in 1 .. desk - 1
    /\ "backups" \in Risks \/ \A i \in desk' .. desk : SamePlaces(i, desk)
    /\ moved' = TRUE
    /\ wrote' = [k \in Keys |-> 0] /\ purged' = {}
    /\ cmd' = [cmd EXCEPT !.ver = 0]
    /\ UNCHANGED <<history, store, worker, syncs, ages>>

-----------------------------------------------------------------------------
(* A command of zotio that writes.  It holds the lock until it has replayed *)
(* its write onto the mirror.                                               *)
Command(op, k, v) ==
    /\ cmd = NoCommand
    /\ op = "edit" =>
         /\ "unseen" \in Risks
            \/ Desk[k].val \in {mirror["items"][k].val, None} \cup pending[k].was
         /\ "fresh" \in Risks \/ pending[k].kind # "create"
    /\ Lands(op, k, v)
    /\ cmd' = [op |-> op, key |-> k, val |-> v, ver |-> Version + 1, full |-> FALSE]
    /\ UNCHANGED <<desk, store, worker, bounds, ghosts>>

Replayed(op) == cmd.op = op /\ cmd' = NoCommand

\* CreateMirroredItem: the row has no version, any marker of the key goes.
MirrorCreate ==
    /\ Replayed("create")
    /\ mirror' = [mirror EXCEPT !["items"][cmd.key] = [val |-> cmd.val, ver |-> 0]]
    /\ pending' = [pending EXCEPT ![cmd.key] = [NoMarker EXCEPT !.kind = "create"]]
    /\ buried' = buried \ {cmd.key}
    /\ wrote' = [wrote EXCEPT ![cmd.key] = cmd.ver]
    /\ UNCHANGED <<planes, check, worker, bounds, purged, moved>>

\* Fault: forgets the values an earlier write was to replace.
Mutant_Merged(m, v, before) == [kind |-> "field", written |-> v, was |-> {before}, old |-> FALSE]

\* recordPendingWriteTx and supersedePendingChanges: a deletion marker stays, a
\* later write of the field replaces the earlier one and inherits what the read
\* plane may still show.  A create stays first in the list.
Merged(m, v, before) ==
    CASE m.kind = "deleted" -> m
      [] m.kind = "create"  -> [m EXCEPT !.old = FALSE]
      [] m.kind = "none"    -> [kind |-> "field", written |-> v, was |-> {before}, old |-> FALSE]
      [] m.kind = "field"   -> [kind |-> "field", written |-> v, old |-> FALSE,
                                was |-> {before, m.written} \cup m.was]

\* replayItemChanges and UpsertMirroredWrite, in one transaction.
MirrorEdit ==
    /\ Replayed("edit")
    /\ LET k == cmd.key
           row == mirror["items"][k]
       IN IF row = NoRow
          THEN UNCHANGED <<mirror, pending, wrote>>
          ELSE /\ mirror' = [mirror EXCEPT !["items"][k] = [val |-> cmd.val, ver |-> 0]]
               /\ pending' = [pending EXCEPT ![k] = Merged(@, cmd.val, row.val)]
               /\ wrote' = [wrote EXCEPT ![k] = cmd.ver]
    /\ UNCHANGED <<planes, buried, check, worker, bounds, purged, moved>>

Keeps(new, old) == old # NoRow /\ new.ver # 0 /\ old.ver # 0 /\ new.ver < old.ver

\* mirrorTrashedItem: the live row is copied, and stays.
MirrorTrash ==
    /\ Replayed("trash")
    /\ LET row == mirror["items"][cmd.key]
       IN mirror' = IF row = NoRow \/ Keeps(row, mirror["items-trash"][cmd.key]) THEN mirror
                    ELSE [mirror EXCEPT !["items-trash"][cmd.key] = row]
    /\ UNCHANGED <<planes, pending, buried, check, worker, bounds, ghosts>>

\* The trash row goes, and its marker.  If there is no live row, it becomes one,
\* without a version and with a warning that it may be older than the writes to
\* the item, which are promised no more.
MirrorRestore ==
    /\ Replayed("restore")
    /\ LET k == cmd.key
           kept == mirror["items-trash"][k]
           rebuilt == mirror["items"][k] = NoRow /\ kept # NoRow
       IN /\ mirror' = [mirror EXCEPT !["items-trash"][k] = NoRow,
                          !["items"][k] = IF rebuilt THEN [val |-> kept.val, ver |-> 0] ELSE @]
          /\ wrote' = IF rebuilt THEN [wrote EXCEPT ![k] = 0] ELSE wrote
    /\ buried' = buried \ {cmd.key}
    /\ UNCHANGED <<planes, pending, check, worker, bounds, purged, moved>>

Mirrored == {k \in Keys : \E r \in Resources : mirror[r][k] # NoRow}

\* Fault: the item alone.
Mutant_Reaped(k) == {k}

\* mirroredItemDescendantsLocked
Reaped(k) == Family(k, Mirrored)

\* ReapMirroredItem, in one durable transaction, the moment the delete landed;
\* the write-through that follows repeats it.
MirrorErase ==
    /\ Replayed("erase")
    /\ LET gone == Reaped(cmd.key)
       IN /\ mirror' = [r \in Resources |-> [k \in Keys |->
                          IF k \in gone THEN NoRow ELSE mirror[r][k]]]
          /\ pending' = [k \in Keys |-> IF k \in gone THEN Deleted ELSE pending[k]]
          /\ buried' = buried \cup gone
    /\ purged' = purged \cup Family(cmd.key, Mirrored)
    /\ UNCHANGED <<planes, check, worker, bounds, wrote, moved>>

\* More than pendingWriteTTL passes.
Age ==
    /\ ages < MaxAges
    /\ ages' = ages + 1
    /\ pending' = [k \in Keys |-> IF pending[k].kind \in {"create", "field"}
                                 THEN [pending[k] EXCEPT !.old = TRUE] ELSE pending[k]]
    /\ UNCHANGED <<planes, mirror, buried, check, cmd, worker, syncs, backups, ghosts>>

-----------------------------------------------------------------------------
(* A sync. *)

StartSync(full) ==
    /\ cmd = NoCommand
    /\ syncs < MaxSyncs
    /\ syncs' = syncs + 1
    /\ cmd' = [NoCommand EXCEPT !.op = "sync", !.full = full]
    /\ worker' = [r \in Resources |-> [NoWorker EXCEPT !.pc = "begin", !.full = full]]
    /\ moved' = FALSE
    /\ UNCHANGED <<planes, store, ages, backups, wrote, purged>>

At(r, pc) == worker[r].pc = pc
Proceed(r, pc) == worker' = [worker EXCEPT ![r].pc = pc]

\* Fault: the stored versions of a full pass stay.
Mutant_Stripped(r) == mirror[r]

\* ClearResourceVersions
Stripped(r) == [k \in Keys |-> [mirror[r][k] EXCEPT !.ver = 0]]

Expires(k) == pending[k].kind \in {"create", "field"} /\ pending[k].old

\* A full pass strips the versions of the rows.  checkPendingWriteAges retires
\* the field markers past their time, or fails with a warning; no deletion
\* marker is ever too old.
BeginPass(r) ==
    /\ At(r, "begin")
    /\ worker' = [worker EXCEPT ![r].pc = "fetch",
                                ![r].since = IF worker[r].full THEN 0 ELSE check[r]]
    /\ mirror' = IF worker[r].full THEN [mirror EXCEPT ![r] = Stripped(r)] ELSE mirror
    /\ \/ /\ r = "items"
          /\ pending' = [k \in Keys |-> IF Expires(k) THEN NoMarker ELSE pending[k]]
          /\ wrote' = [k \in Keys |-> IF Expires(k) THEN 0 ELSE wrote[k]]
       \/ UNCHANGED <<pending, wrote>>
    /\ UNCHANGED <<planes, buried, check, cmd, bounds, purged, moved>>

Listed(r, since) ==
    {[key |-> k, val |-> Desk[k].val, ver |-> Desk[k].ver] :
       k \in {k \in Keys : Desk[k].at = Place(r) /\ Desk[k].ver > since}}

\* Fault: replays a write over any other value.
Mutant_Lags(m, val) == m.kind = "field" /\ val # m.written

Lags(m, val) == m.kind = "field" /\ val \in m.was \ {m.written}

\* A deletion marker drops the row.
Suppressed(r, k) == IF r = "items" THEN pending[k].kind = "deleted" ELSE k \in buried

\* reconcilePendingWrites: a lagging row takes the written value.
Reconciled(r, rows) ==
    {IF r = "items" /\ Lags(pending[row.key], row.val)
     THEN [row EXCEPT !.val = pending[row.key].written] ELSE row :
       row \in {row \in rows : ~Suppressed(r, row.key)}}

\* A marker that changes nothing, that was overtaken or that cannot be replayed
\* goes: what is left of the row is the read plane's.
Confirmed(r, rows) ==
    {row.key : row \in {row \in rows :
       r = "items" /\ pending[row.key].kind \in {"create", "field"}
       /\ ~Lags(pending[row.key], row.val)}}

Top(rows) == Max({0} \cup {row.ver : row \in rows})

\* One listing, and the markers met in it.  An empty answer to an incremental
\* request says nothing of the library's version, which is then asked for.
FetchListing(r) ==
    /\ At(r, "fetch")
    /\ LET w == worker[r]
           rows == Listed(r, w.since)
       IN /\ worker' = [worker EXCEPT
               ![r].pc = IF rows # {} THEN "store"
                         ELSE IF w.full \/ w.since = 0 THEN "sweep" ELSE "verify",
               ![r].rows = Reconciled(r, rows),
               ![r].seen = {row.key : row \in rows},
               ![r].top = Top(rows)]
          /\ pending' = [k \in Keys |-> IF k \in Confirmed(r, rows) THEN NoMarker ELSE pending[k]]
    /\ UNCHANGED <<planes, mirror, buried, check, cmd, bounds, ghosts>>

\* syncCurrentResourceVersion: a library behind the checkpoint was put back, so
\* the pass starts over as a full one.
Verify(r) ==
    /\ At(r, "verify")
    /\ worker' = IF Top(Listed(r, 0)) < worker[r].since
                 THEN [worker EXCEPT ![r] = [NoWorker EXCEPT !.pc = "begin", !.full = TRUE]]
                 ELSE [worker EXCEPT ![r].pc = "stamp"]
    /\ UNCHANGED <<planes, store, cmd, bounds, ghosts>>

\* upsertGenericResourceTx and reconcileItemLifecycleTx for one row: an older
\* version is not stored, and of the two states of an item the newer stays, the
\* trash if they are as new.
Landed(r, row) ==
    LET new == [val |-> row.val, ver |-> row.ver]
        old == mirror[r][row.key]
    IN IF Keeps(new, old) THEN old ELSE new

Wins(r, ver, opposite) == ver > opposite \/ (ver = opposite /\ r = "items-trash")

\* UpsertBatch, in one transaction.
Store(r) ==
    /\ At(r, "store")
    /\ LET rows == worker[r].rows
           new(k) == Landed(r, CHOOSE row \in rows : row.key = k)
           opposite(k) == mirror[Other(r)][k]
           written == {row.key : row \in rows}
           loses(q, k) == /\ k \in written
                          /\ opposite(k) # NoRow
                          /\ (q = r) = ~Wins(r, new(k).ver, opposite(k).ver)
       IN mirror' = [q \in Resources |-> [k \in Keys |->
                       IF loses(q, k) THEN NoRow
                       ELSE IF q = r /\ k \in written THEN new(k) ELSE mirror[q][k]]]
    /\ worker' = [worker EXCEPT ![r].pc = "sweep", ![r].rows = {}]
    /\ UNCHANGED <<planes, pending, buried, check, cmd, bounds, ghosts>>

\* SweepMissing: the rows that were not listed go, and the markers of items with
\* them; the deletion markers of keys that are not listed are confirmed.
Swept(r, seen) ==
    /\ mirror' = [mirror EXCEPT ![r] = [k \in Keys |-> IF k \in seen THEN @[k] ELSE NoRow]]
    /\ IF r = "items"
       THEN LET gone == {k \in Keys \ seen : mirror[r][k] # NoRow \/ pending[k].kind = "deleted"}
            IN /\ pending' = [k \in Keys |-> IF k \in gone THEN NoMarker ELSE pending[k]]
               /\ wrote' = [k \in Keys |-> IF k \in gone THEN 0 ELSE wrote[k]]
               /\ UNCHANGED buried
       ELSE buried' = buried \cap seen /\ UNCHANGED <<pending, wrote>>

Sweep(r) ==
    /\ At(r, "sweep")
    /\ IF worker[r].full THEN Swept(r, worker[r].seen)
       ELSE UNCHANGED <<mirror, pending, buried, wrote>>
    /\ Proceed(r, "stamp")
    /\ UNCHANGED <<planes, check, cmd, bounds, purged, moved>>

\* ResetLibraryVersion after a full pass, SaveLibraryVersion otherwise.
Stamp(r) ==
    /\ At(r, "stamp")
    /\ check' = [check EXCEPT ![r] = IF worker[r].full THEN worker[r].top
                                     ELSE Max({@, worker[r].top})]
    /\ worker' = [worker EXCEPT ![r] = [NoWorker EXCEPT !.pc = "done"]]
    /\ UNCHANGED <<planes, mirror, pending, buried, cmd, bounds, ghosts>>

\* A full pass has found the library older than the checkpoint it is to reset.
Halfway(r) ==
    worker[r].full /\ worker[r].pc \in {"sweep", "stamp"} /\ worker[r].top < check[r]

\* A request or a statement of one worker fails; the other goes on.
FailPass(r) ==
    /\ worker[r].pc \notin {"idle", "done", "failed"}
    /\ "halfway" \in Risks \/ ~Halfway(r)
    /\ worker' = [worker EXCEPT ![r] = [NoWorker EXCEPT !.pc = "failed"]]
    /\ UNCHANGED <<planes, store, cmd, bounds, ghosts>>

\* The end of a sync.  After an incremental one sweepIncrementalResource lists
\* the keys of the trash once more and sweeps; it may fail, with a warning.
FinishSync ==
    /\ cmd.op = "sync"
    /\ \A r \in Resources : worker[r].pc \in {"done", "failed"}
    /\ \/ /\ ~cmd.full /\ At("items-trash", "done")
          /\ Swept("items-trash", {row.key : row \in Listed("items-trash", 0)})
       \/ UNCHANGED <<mirror, pending, buried, wrote>>
    /\ cmd' = NoCommand /\ worker' = [r \in Resources |-> NoWorker]
    /\ UNCHANGED <<planes, check, bounds, purged, moved>>

\* zotio is killed, or the mirror cannot be written: a warning.
Kill ==
    /\ cmd # NoCommand
    /\ "halfway" \in Risks \/ \A r \in Resources : ~Halfway(r)
    /\ cmd' = NoCommand /\ worker' = [r \in Resources |-> NoWorker]
    /\ UNCHANGED <<planes, store, bounds, ghosts>>

PlanesNext ==
    \/ \E op \in Ops, k \in Keys, v \in Values : Elsewhere(op, k, v) \/ Command(op, k, v)
    \/ DeskHears \/ DeskRestored \/ Age
    \/ MirrorCreate \/ MirrorEdit \/ MirrorTrash \/ MirrorRestore \/ MirrorErase
    \/ \E full \in BOOLEAN : StartSync(full)
    \/ \E r \in Resources : BeginPass(r) \/ FetchListing(r) \/ Verify(r) \/ Store(r)
                            \/ Sweep(r) \/ Stamp(r) \/ FailPass(r)
    \/ FinishSync \/ Kill

PlanesSpec == PlanesInit /\ [][PlanesNext]_planeVars

-----------------------------------------------------------------------------
(* Properties. *)

Objects == [at : {"never", "live", "trash", "erased"}, val : Values \cup {None}, ver : Nat]
Rows == [val : Values \cup {None}, ver : Nat]
Markers == [kind : {"none", "create", "field", "deleted"}, written : Values \cup {None},
            was : SUBSET Values, old : BOOLEAN]
Commands == [op : Ops \cup {"idle", "sync"}, key : Keys \cup {None},
             val : Values \cup {None}, ver : Nat, full : BOOLEAN]
Workers == [pc : {"idle", "begin", "fetch", "verify", "store", "sweep", "stamp", "done", "failed"},
            full : BOOLEAN, since : Nat, rows : SUBSET [key : Keys, val : Values, ver : Nat],
            seen : SUBSET Keys, top : Nat]

\* The types of the state, and that a key marked as deleted has no row of items.
PlanesTypeOK ==
    /\ history \in Seq([Keys -> Objects])
    /\ desk \in 1 .. Version /\ Version <= MaxVersion
    /\ mirror \in [Resources -> [Keys -> Rows]]
    /\ pending \in [Keys -> Markers] /\ buried \subseteq Keys
    /\ \A k \in Keys : pending[k].kind = "deleted" => mirror["items"][k] = NoRow
    /\ check \in [Resources -> 0 .. Version]
    /\ cmd \in Commands /\ worker \in [Resources -> Workers]
    /\ syncs \in 0 .. MaxSyncs /\ ages \in 0 .. MaxAges /\ backups \in 0 .. MaxBackups
    /\ wrote \in [Keys -> 0 .. Version] /\ purged \subseteq Keys /\ moved \in BOOLEAN

\* A write of zotio that reached the mirror is never rolled back there: however
\* the desktop lags and whatever it is told meanwhile, the mirror shows the
\* value the item had then or has had since, until the marker is too old or a
\* full pass finds the item gone (pending_writes.go, reconcilePendingWrites).
OwnWritesStand ==
    \A k \in Keys : wrote[k] > 0 /\ mirror["items"][k] # NoRow =>
        \E i \in wrote[k] .. Version : history[i][k].val = mirror["items"][k].val

\* An item zotio erased, and each child of it the mirror had, is never in the
\* mirror again, neither among the items nor in the trash, whichever of its
\* earlier states the desktop still lists (store.go, ReapMirroredItem).
StaysPurged == \A k \in purged, r \in Resources : mirror[r][k] = NoRow

Completed == cmd.op = "sync" /\ ~moved /\ \A r \in Resources : At(r, "done")

\* The item has a row in the table of the state the desktop shows, and no other.
InPlace(k) == \A r \in Resources : (mirror[r][k] # NoRow) = (Desk[k].at = Place(r))

\* A full sync over a desktop that stayed still leaves every item that nobody
\* has moved since what the desktop shows in the table of its state and in no
\* other, with the desktop's value or zotio's later one, in whatever order the
\* two workers that share its row ran, a library put back from a backup included
\* (sync.go, Full sync also clears row versions).
FullSettles ==
    Completed /\ cmd.full =>
        \A k \in Keys : (\A i \in desk .. Version : history[i][k].at = Desk[k].at) =>
            /\ InPlace(k)
            /\ \A r \in Resources :
                 mirror[r][k].val \in {None, Desk[k].val, pending[k].written}

\* Once the desktop has heard of everything, one sync is enough for every item
\* that still exists, an incremental one included: no checkpoint passed over a
\* change of either resource and no marker holds an old value up, whatever was
\* written, replayed, swept or cut short before (sync.go, Stamps converge).
CatchesUp ==
    Completed /\ desk = Version =>
        \A k \in Keys : Desk[k].at \in {"live", "trash"} =>
            InPlace(k) /\ \A r \in Resources : mirror[r][k].val \in {None, Desk[k].val}
=============================================================================
