----------------------------- MODULE MirrorSync -----------------------------
(***************************************************************************)
(* "zotio sync" of one resource (internal/cli/sync.go, syncResource, with  *)
(* sync_total.go, pending_writes.go and the store): the local mirror       *)
(* follows the read plane by paginated passes, full or incremental, while  *)
(* the plane changes between any two requests.  A pass may be cut short    *)
(* anywhere and an incremental one resumed by a later command.             *)
(*                                                                         *)
(* A row is known by its key and its version.  The plane's versions only   *)
(* grow here and zotio's own field writes are left out, so no page is ever *)
(* older than the mirror: the version-monotonic upsert, the stripping of   *)
(* stored versions, the check for a restored library and the markers of    *)
(* field writes are not in this module.  Deletion markers are.             *)
(*                                                                         *)
(* Every request that fails, every cap on pages, every failed statement    *)
(* that is returned as an error and every kill leaves the state as it was: *)
(* they are all Abort.                                                     *)
(***************************************************************************)
EXTENDS Naturals, FiniteSets, Sequences, SequencesExt

CONSTANTS
    Keys,           \* item keys; the plane never reuses one
    None,           \* no cursor, total or listing version
    Servers,        \* what a server may be like: a subset of Apis
    Limit,          \* objects per page
    MaxPasses,      \* bound: sync passes started
    MaxChanges,     \* bound: changes of the plane and deletions by zotio
    Replaces,       \* may one pass see the listing both gain and lose objects?
    SkipsAhead      \* may --since-version be newer than the checkpoint?

(* A server may leave Total-Results or Last-Modified-Version out of a list *)
(* response, and may accept the sort by dateAdded, refuse it with a 400,   *)
(* or not be asked because the resource has none.                          *)
Apis == [counts : BOOLEAN, versions : BOOLEAN, sort : {"dateAdded", "refused", "unasked"}]

ASSUME MirrorSyncAssumption ==
    /\ Servers \subseteq Apis
    /\ Keys # {} /\ IsFiniteSet(Keys)
    /\ None \notin Nat
    /\ Limit \in Nat \ {0}
    /\ MaxPasses \in Nat /\ MaxChanges \in Nat
    /\ Replaces \in BOOLEAN /\ SkipsAhead \in BOOLEAN

VARIABLES
    api,            \* what this server is like
    added,          \* the plane's keys in the order of dateAdded
    modified,       \* the plane's keys, the most recently modified first
    ver,            \* the version of each key; 0 for one that never was
    libver,         \* the library version
    mirror,         \* the version of each mirrored row, 0 for none
    marked,         \* the keys with a deletion marker
    checkpoint,     \* library_version of sync_state
    cursor,         \* last_cursor with its scope: see Cursors
    synced,         \* ghost: the library version when the last pass that
                    \* cleared the cursor began; 0 before the first
    purged,         \* ghost: the keys zotio deleted for good
    passes, changes,
    pc,             \* where the pass is
    pass,           \* its local variables: see NoPass
    page,           \* the rows of the response being stored
    began,          \* ghost: the library version when the pass began
    gained, lost    \* ghost: has its listing gained or lost an object since?

plane == <<added, modified, ver, libver>>
store == <<mirror, marked, checkpoint, cursor>>
vars == <<api, plane, store, synced, purged, passes, changes, pc, pass, page,
          began, gained, lost>>

Live == Range(added)

\* The orders a list may have, and who comes no later than whom in one.
Orders == {s \in SeqOf(Keys, Cardinality(Keys)) : IsInjective(s)}
Leads(s, i, j) == \E b \in DOMAIN s : s[b] = j /\ \E a \in 1 .. b : s[a] = i

\* last_cursor and cursor_scope.  at = None is the empty cursor of a completed
\* pass; since = None is a scope that a later pass cannot match.
Clear == [at |-> None, full |-> FALSE, since |-> None, mark |-> 0, listing |-> 0, total |-> None]
Restarted == [Clear EXCEPT !.at = 0]

NoPass == [full |-> FALSE,      \* --full
           since |-> 0,         \* effectiveSince
           sorted |-> FALSE,    \* stableOrder
           ordered |-> FALSE,   \* stableOrderSupported
           start |-> 0,         \* the offset of the next request
           mark |-> 0,          \* libraryVersion
           pinned |-> FALSE,    \* versionFixed
           listing |-> None,    \* listingVersion, None until it is fixed
           expect |-> None,     \* resumeTotal
           total |-> None,      \* totals.total; None if not known
           pages |-> 0,         \* pagesFetched
           got |-> 0,           \* len(items) of the response being stored
           seen |-> {}]         \* seenKeys

Init ==
    /\ api \in Servers
    /\ \E s \in Orders :
         /\ added = s
         /\ modified = Reverse(s)
         /\ ver = [k \in Keys |-> IF \E i \in DOMAIN s : s[i] = k
                                  THEN CHOOSE i \in DOMAIN s : s[i] = k ELSE 0]
         /\ libver = Len(s)
    \* before the first sync, or after a completed one
    /\ \/ mirror = [k \in Keys |-> 0] /\ checkpoint = 0
       \/ mirror = ver /\ checkpoint = libver
    /\ synced = checkpoint
    /\ marked = {} /\ purged = {}
    /\ cursor = Clear
    /\ passes = 0 /\ changes = 0
    /\ pc = "idle" /\ pass = NoPass /\ page = {}
    /\ began = 0 /\ gained = FALSE /\ lost = FALSE

-----------------------------------------------------------------------------
(* The plane.  Another client adds, edits and deletes; its changes reach   *)
(* the plane late, so an item may appear anywhere in either order, but an  *)
(* edit only ever moves it towards the most recent.  In the listing of the *)
(* pass an edit may be a gain: the item was not modified since.            *)
Listed == {k \in Live : ver[k] > pass.since}
Busy == pc # "idle"

Changing(gains, loses) ==
    /\ changes < MaxChanges
    /\ changes' = changes + 1
    /\ libver' = libver + 1
    /\ gained' = (gained \/ (Busy /\ gains))
    /\ lost' = (lost \/ (Busy /\ loses))
    /\ Replaces \/ ~(gained' /\ lost')

\* The order t of ks keeps the order s, but for k, which may have come forward.
Follows(s, t, ks, k) ==
    /\ Range(t) = ks
    /\ \A b \in DOMAIN s : s[b] \in ks \ {k} =>
         \A a \in 1 .. b : s[a] \in ks => Leads(t, s[a], s[b])

PlaneAdd(k) ==
    /\ ver[k] = 0
    /\ Changing(TRUE, FALSE)
    /\ added' \in {s \in Orders : Follows(added, s, Live \cup {k}, k)}
    /\ modified' \in {s \in Orders : Follows(modified, s, Live \cup {k}, k)}
    /\ ver' = [ver EXCEPT ![k] = libver']
    /\ UNCHANGED <<api, store, synced, purged, passes, pc, pass, page, began>>

PlaneEdit(k) ==
    /\ k \in Live \ purged
    /\ Changing(k \notin Listed, FALSE)
    /\ modified' \in {s \in Orders : Follows(modified, s, Live, k)}
    /\ ver' = [ver EXCEPT ![k] = libver']
    /\ UNCHANGED <<api, added, store, synced, purged, passes, pc, pass, page, began>>

PlaneDelete(k) ==
    /\ k \in Live
    /\ Changing(FALSE, k \in Listed)
    /\ added' \in {s \in Orders : Follows(added, s, Live \ {k}, k)}
    /\ modified' \in {s \in Orders : Follows(modified, s, Live \ {k}, k)}
    /\ UNCHANGED <<api, ver, store, synced, purged, passes, pc, pass, page, began>>

\* A permanent delete by zotio, which never runs beside a sync (the writer
\* lock): the row goes and its marker comes in one transaction.  The read plane
\* may go on listing the item until it hears of the delete.
ZotioDelete(k) ==
    /\ pc = "idle"
    /\ changes < MaxChanges
    /\ k \in Live \ purged
    /\ changes' = changes + 1
    /\ mirror' = [mirror EXCEPT ![k] = 0]
    /\ marked' = marked \cup {k}
    /\ purged' = purged \cup {k}
    /\ UNCHANGED <<api, plane, checkpoint, cursor, synced, passes, pc, pass, page,
                   began, gained, lost>>

-----------------------------------------------------------------------------
(* A pass begins.  --full and --latest-only first give up the saved offset *)
(* (latest: a cap of one page, which is an Abort after it).  A cursor is   *)
(* resumed only by an incremental pass with the since that saved it.       *)
Resumable(c, full, since) ==
    /\ ~full /\ ~c.full
    /\ c.at # None /\ c.since = since /\ c.total # None

Begin(full, latest, sinceVersion) ==
    /\ pc = "idle"
    /\ passes < MaxPasses
    /\ SkipsAhead \/ sinceVersion <= checkpoint
    /\ passes' = passes + 1
    /\ LET since == IF sinceVersion > 0 THEN sinceVersion
                    ELSE IF full THEN 0 ELSE checkpoint
           saved == IF cursor.at # None /\ (full \/ (latest /\ sinceVersion = 0))
                    THEN Restarted ELSE cursor
           fresh == [NoPass EXCEPT !.full = full, !.since = since,
                                   !.sorted = full /\ api.sort = "dateAdded",
                                   !.ordered = ~(full /\ api.sort = "refused")]
       IN IF Resumable(saved, full, since)
          THEN /\ cursor' = saved
               /\ pass' = [fresh EXCEPT
                    !.start = saved.at,
                    !.mark = saved.mark,
                    !.pinned = TRUE,
                    !.listing = IF saved.at = 0 THEN None ELSE saved.listing,
                    !.expect = IF saved.at = 0 THEN None ELSE saved.total]
          ELSE cursor' = Restarted /\ pass' = fresh
    /\ pc' = "fetch" /\ page' = {}
    /\ began' = libver /\ gained' = FALSE /\ lost' = FALSE
    /\ UNCHANGED <<api, plane, mirror, marked, checkpoint, synced, purged, changes>>

\* The order of the pass, and the place of an object in the list it selects.
Order == IF pass.sorted THEN added ELSE modified
Rank(k) == Cardinality({j \in Listed : Leads(Order, j, k)})
Total == Cardinality(Listed)

\* The page of n objects behind the offset.
Page(n) == {[key |-> k, ver |-> ver[k]] :
              k \in {j \in Listed : pass.start < Rank(j) /\ Rank(j) <= pass.start + n}}

LastModified == IF api.versions THEN libver ELSE 0

\* Fault: takes the version of the latest response.
Mutant_Mark(v) == IF ~pass.pinned /\ v > 0 THEN v ELSE pass.mark

\* The pass is pinned to its first known version.
Mark(v) == IF ~pass.pinned /\ pass.mark = 0 THEN v ELSE pass.mark

Scope(total) ==
    [at |-> 0, full |-> pass.full, since |-> pass.since, mark |-> pass.mark,
     listing |-> IF pass.listing = None THEN 0 ELSE pass.listing, total |-> total]

ResumeRefused ==
    /\ pass.expect # None
    /\ \/ ~api.counts \/ Total # pass.expect
       \/ LastModified = 0 \/ LastModified # pass.listing

\* The listing is not the one the offset was saved for: start over, with the
\* watermark of the pass that saved it.
DiscardOffset ==
    /\ pc = "fetch"
    /\ ResumeRefused
    /\ \/ /\ cursor' = Scope(pass.expect)
          /\ pass' = [pass EXCEPT !.start = 0, !.listing = None, !.expect = None]
          /\ pc' = pc
       \/ \* the cursor was not written
          /\ pass' = [pass EXCEPT !.expect = None]
          /\ pc' = "fail"
          /\ UNCHANGED cursor
    /\ UNCHANGED <<api, plane, mirror, marked, checkpoint, synced, purged, passes,
                   changes, page, began, gained, lost>>

\* Fault: no check of the total against the earlier pages.
Mutant_Consistent(total) == pass.start <= total

\* pageTotals.observe: the total has not moved, and the page is not past it.
Consistent(total) ==
    /\ pass.total \in {None, total}
    /\ pass.start <= total

\* pageTotals.finish: the listing ended exactly at its total.
Ends(total, n) == total # None => pass.start + n = total

\* responseLibraryVersion: the header, or the latest version among the rows.
Shown(rows) ==
    IF LastModified > 0 THEN {LastModified}
    ELSE {v \in {r.ver : r \in rows} \cup {0} : \A r \in rows : r.ver <= v}

\* One response: a page of the listing as it is now, or a prefix of that page.
Fetch ==
    /\ pc = "fetch"
    /\ ~ResumeRefused
    /\ \E n \in 0 .. Limit :
         LET rows == Page(n)
             total == IF api.counts THEN Total ELSE None
             seen == [pass EXCEPT !.expect = None, !.listing = IF @ = None THEN LastModified ELSE @]
         IN /\ n = 0 \/ pass.start + n <= Total
            /\ page' = rows
            /\ IF total # None /\ ~Consistent(total)
               THEN /\ pass' = [seen EXCEPT !.mark = Mark(LastModified)]
                    /\ pc' = "fail"
               ELSE /\ \E v \in Shown(rows) :
                         pass' = [seen EXCEPT !.mark = Mark(v), !.total = total, !.got = n]
                    /\ pc' = IF n > 0 THEN "store"
                             ELSE IF Ends(total, 0) THEN "done" ELSE "fail"
    /\ UNCHANGED <<api, plane, store, synced, purged, passes, changes, began, gained, lost>>

Keyset(rows) == {r.key : r \in rows}

\* reconcilePendingWrites: a row with a deletion marker is not stored.
Reconciled(rows) == {r \in rows : r.key \notin marked}

\* Fault: records the keys of the rows that will be stored.
Mutant_Reported(rows) == Keyset(Reconciled(rows))

\* The keys the plane reported, deletion markers or not.
Reported(rows) == Keyset(rows)

\* upsertResourceBatch, in one transaction.
Store ==
    /\ pc = "store"
    /\ mirror' = [k \in Keys |->
         IF \E r \in Reconciled(page) : r.key = k
         THEN (CHOOSE r \in page : r.key = k).ver ELSE mirror[k]]
    /\ pass' = [pass EXCEPT !.seen = IF pass.full THEN @ \cup Reported(page) ELSE @]
    /\ pc' = "advance"
    /\ UNCHANGED <<api, plane, marked, checkpoint, cursor, synced, purged, passes,
                   changes, page, began, gained, lost>>

\* An incremental pass saves where it is, a failed save being only a warning.
\* A page that is not full ends the listing.
Advance ==
    /\ pc = "advance"
    /\ LET n == pass.got
           next == [Scope(pass.total) EXCEPT !.at = IF n = Limit THEN pass.start + n ELSE 0]
       IN /\ IF pass.full THEN UNCHANGED cursor ELSE cursor' \in {cursor, next}
          /\ IF n = Limit
             THEN /\ pass' = [pass EXCEPT !.pages = @ + 1, !.start = @ + n, !.got = 0]
                  /\ pc' = "fetch"
             ELSE /\ pass' = [pass EXCEPT !.pages = @ + 1, !.got = 0]
                  /\ pc' = IF Ends(pass.total, n) THEN "done" ELSE "fail"
    /\ page' = {}
    /\ UNCHANGED <<api, plane, mirror, marked, checkpoint, synced, purged, passes,
                   changes, began, gained, lost>>

Over ==
    /\ pc' = "idle" /\ pass' = NoPass /\ page' = {}
    /\ began' = 0 /\ gained' = FALSE /\ lost' = FALSE

\* failPass: the pass stays on record as unfinished, at no offset.
FailPass ==
    /\ pc = "fail"
    /\ cursor' = Scope(pass.total)
    /\ Over
    /\ UNCHANGED <<api, plane, mirror, marked, checkpoint, synced, purged, passes, changes>>

ObservedEverything == pass.since = 0
OrderVerified == pass.ordered /\ (pass.sorted \/ pass.pages <= 1)

\* Fault: only if the plane reported anything.
Mutant_MaySweep ==
    /\ pass.full /\ ObservedEverything /\ pass.total # None /\ OrderVerified
    /\ pass.seen # {}

\* Absence is evidence of deletion only when presence was possible.
MaySweep == pass.full /\ ObservedEverything /\ pass.total # None /\ OrderVerified

\* SweepMissing, in one transaction: rows and deletion markers of the keys that
\* the plane did not report.
Sweep ==
    /\ pc = "done"
    /\ IF MaySweep
       THEN /\ mirror' = [k \in Keys |-> IF k \in pass.seen THEN mirror[k] ELSE 0]
            /\ marked' = marked \cap pass.seen
       ELSE UNCHANGED <<mirror, marked>>
    /\ pc' = "clear"
    /\ UNCHANGED <<api, plane, checkpoint, cursor, synced, purged, passes, changes,
                   pass, page, began, gained, lost>>

ClearCursor ==
    /\ pc = "clear"
    /\ cursor' = Clear
    /\ synced' = began
    /\ pc' = "stamp"
    /\ UNCHANGED <<api, plane, mirror, marked, checkpoint, purged, passes, changes,
                   pass, page, began, gained, lost>>

\* ResetLibraryVersion after an authoritative pass, SaveLibraryVersion otherwise.
Stamp ==
    /\ pc = "stamp"
    /\ checkpoint' = IF pass.full /\ ObservedEverything THEN pass.mark
                     ELSE Max({checkpoint, pass.mark})
    /\ Over
    /\ UNCHANGED <<api, plane, mirror, marked, cursor, synced, purged, passes, changes>>

Abort ==
    /\ pc # "idle"
    /\ Over
    /\ UNCHANGED <<api, plane, store, synced, purged, passes, changes>>

Next ==
    \/ \E k \in Keys : PlaneAdd(k) \/ PlaneEdit(k) \/ PlaneDelete(k) \/ ZotioDelete(k)
    \/ \E full, latest \in BOOLEAN, v \in 0 .. libver : Begin(full, latest, v)
    \/ DiscardOffset \/ Fetch \/ Store \/ Advance \/ FailPass
    \/ Sweep \/ ClearCursor \/ Stamp \/ Abort

Spec == Init /\ [][Next]_vars

-----------------------------------------------------------------------------
(* Properties. *)

Nones == Nat \cup {None}
Cursors == [at : Nones, full : BOOLEAN, since : Nones, mark : Nat, listing : Nat, total : Nones]
Passes == [full : BOOLEAN, since : Nat, sorted : BOOLEAN, ordered : BOOLEAN, start : Nat,
           mark : Nat, pinned : BOOLEAN, listing : Nones, expect : Nones, total : Nones,
           pages : Nat, got : Nat, seen : SUBSET Keys]

\* The types of the state, and what is always so of the plane: its two orders
\* hold the same keys once each, and no version is above the library's.
TypeOK ==
    /\ api \in Servers
    /\ added \in Orders /\ modified \in Orders /\ Range(modified) = Live
    /\ libver \in Nat
    /\ ver \in [Keys -> 0 .. libver]
    /\ mirror \in [Keys -> Nat]
    /\ marked \subseteq purged /\ purged \subseteq Keys
    /\ checkpoint \in 0 .. libver /\ synced \in 0 .. libver
    /\ cursor \in Cursors
    /\ passes \in 0 .. MaxPasses /\ changes \in 0 .. MaxChanges
    /\ pc \in {"idle", "fetch", "store", "advance", "fail", "done", "clear", "stamp"}
    /\ pass \in Passes /\ pass.mark <= libver
    /\ page \subseteq [key : Keys, ver : Nat]
    /\ began \in 0 .. libver
    /\ gained \in BOOLEAN /\ lost \in BOOLEAN

\* An item zotio deleted for good never comes back to the mirror, however long
\* the read plane goes on listing it and whatever passes run meanwhile: its
\* marker outlives the last listing of it (pending_writes.go).
NoResurrection == \A k \in purged : mirror[k] = 0

\* A sync never takes from the mirror an item the plane still lists, nor the
\* marker of a deleted one it still lists: absence from a pass is evidence of
\* deletion only when presence was possible (sync.go, the sweep's condition).
SparesTheListed ==
    [][\A k \in Live : /\ mirror[k] # 0 /\ mirror'[k] = 0 => k \in purged' \ purged
                       /\ k \in marked => k \in marked']_vars

\* The mirror is current up to version v: each item the plane lists, and last
\* changed by then, has its row, or the marker that keeps it out.
CurrentTo(v) ==
    \A k \in Live : ver[k] <= v => mirror[k] = ver[k] \/ k \in marked

\* With a server that counts, the checkpoint, from which the next incremental
\* pass starts, never passes over a change the mirror does not have, and a
\* cleared cursor, which readers take for a completed sync, means the mirror
\* has all there was when that pass began (sync.go, Stamps converge).
CheckpointHonest ==
    api.counts => CurrentTo(checkpoint) /\ (cursor = Clear => CurrentTo(synced))

\* A full, unfiltered pass over a plane that stayed still leaves the mirror
\* equal to it, but for the deletions it has not heard of: nothing deleted
\* upstream lingers, an empty plane included.
FullConverges ==
    pc = "clear" /\ pass.full /\ pass.since = 0 /\ libver = began
    /\ api.counts /\ api.sort = "dateAdded" =>
        \A k \in Keys : mirror[k] = IF k \in Live \ marked THEN ver[k] ELSE 0
=============================================================================
