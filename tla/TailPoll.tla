------------------------------ MODULE TailPoll ------------------------------
(***************************************************************************)
(* One resource's change feed, "zotio tail <resource>"                     *)
(* (internal/cli/tail.go): a poll reads the window of changes since its    *)
(* cursor, appends the events to the delivery file, records them as owed   *)
(* to the triggered workflow, moves the cursor and hands over to the       *)
(* workflow.  Every step may fail or be the last before a kill; the file   *)
(* may lose what was not synced.                                           *)
(*                                                                         *)
(* An event is known by its key and the version of the change it reports.  *)
(* A poll holds the installation lock and the lock of the delivery file.   *)
(***************************************************************************)
EXTENDS Sequences, FiniteSets, FiniteSetsExt, Faults

CONSTANTS
    Keys,
    MaxVersion,     \* bound: the versions the library goes through
    PageSize,       \* 100 in the code
    MaxAttempts,    \* how often a window is read from its start, 3 in the code
    TriggerLimit    \* events a triggered workflow accepts, 500 in the code

ASSUME TailAssumption ==
    /\ IsFiniteSet(Keys) /\ MaxVersion \in Nat /\ Cardinality(Keys) <= MaxVersion
    /\ PageSize \in Nat \ {0}
    /\ MaxAttempts \in Nat \ {0} /\ TriggerLimit \in Nat

VARIABLES
    serves,         \* external: does the API have /deleted?
    version,        \* external: the library's version
    object,         \* external: when a key last changed, and is it there?
    cursor,         \* sync_state "tail:<resource>"
    owed,           \* the pending trigger record
    file, disk,     \* the delivery file as read, and as after a power loss
    poll,           \* where the poll is
    work,           \* what it has read
    since,          \* ghost: the version of the first poll's window
    accounted       \* ghost: per key, the last event the workflow ran for or skipped

libraryVars == <<serves, version, object>>
tailVars == <<libraryVars, cursor, owed, file, disk, poll, work, since, accounted>>

Version == 0..MaxVersion
Objects == [changed : Version, alive : BOOLEAN]
Events == [key : Keys, version : Version]
PerKey == [Keys -> Version]         \* 0: no event
OwedBatches == [last : PerKey, baseline : BOOLEAN]
Nothing == [last |-> [k \in Keys |-> 0], baseline |-> FALSE]

\* The last whole line of each key, and does the file end in half a line?
Files == [last : PerKey, torn : BOOLEAN]

NoWork == [events |-> <<>>, version |-> 0, attempt |-> 1, held |-> FALSE]
Works == [events : Seq(Events), version : Version, attempt : 1..MaxAttempts, held : BOOLEAN]

\* The feed starts on a library with objects, from nothing or after a poll.
TailInit ==
    /\ serves \in BOOLEAN
    /\ object \in [Keys -> [changed : 1..Cardinality(Keys), alive : {TRUE}]]
    /\ \A k, l \in Keys : object[k].changed = object[l].changed => k = l
    /\ version = Cardinality(Keys)
    /\ cursor \in {0, version}
    /\ since = cursor
    /\ file = [last |-> [k \in Keys |-> IF cursor = 0 THEN 0 ELSE object[k].changed], torn |-> FALSE]
    /\ accounted = file.last
    /\ disk = file /\ owed = Nothing
    /\ poll = "idle" /\ work = NoWork

-----------------------------------------------------------------------------
\* Somebody edits, deletes or creates an object.
LibraryChanges(k) ==
    /\ version < MaxVersion
    /\ version' = version + 1
    /\ \E alive \in BOOLEAN :
          /\ object[k].alive \/ alive
          /\ object' = [object EXCEPT ![k] = [changed |-> version + 1, alive |-> alive]]
    /\ UNCHANGED <<serves, cursor, owed, file, disk, poll, work, since, accounted>>

-----------------------------------------------------------------------------
\* The poll is over; every error on its way leaves the cursor as it is.
EndPoll == poll' = "idle" /\ work' = NoWork

FailPoll ==
    /\ poll \in {"read", "deletions", "deliver", "append", "record"}
    /\ Fault /\ EndPoll
    /\ UNCHANGED <<libraryVars, cursor, owed, file, disk, since, accounted>>

\* Cursor and owed events are read.
BeginPoll ==
    /\ poll = "idle"
    /\ poll' = "read" /\ work' = NoWork
    /\ UNCHANGED <<libraryVars, cursor, owed, file, disk, since, accounted, faults>>

\* The keys whose change since the cursor left an object, or took it away.
ChangedKeys(alive) == {k \in Keys : object[k].alive = alive /\ object[k].changed > cursor}

\* Where a key comes among these, the newest first.
Place(keys, k) == Cardinality({l \in keys : object[l].changed >= object[k].changed})

Newest(keys) == [i \in 1..Cardinality(keys) |-> CHOOSE k \in keys : Place(keys, k) = i]

Changes(alive) ==
    LET newest == Newest(ChangedKeys(alive))
    IN  [i \in DOMAIN newest |-> [key |-> newest[i], version |-> object[newest[i]].changed]]

Listing == Changes(TRUE)
Deletions == Changes(FALSE)

Page == SubSeq(Listing, Len(work.events) + 1, Min({Len(work.events) + PageSize, Len(Listing)}))

\* The library has changed since the first page of the window.
Moved == work.events # <<>> /\ version # work.version

\* A page is added to the window; a short one is the last.
ReadPage ==
    /\ poll = "read" /\ ~Moved
    /\ work' = [work EXCEPT !.events = @ \o Page, !.version = IF work.events = <<>> THEN version ELSE @]
    /\ poll' = IF Len(Page) < PageSize THEN "deletions" ELSE "read"
    /\ UNCHANGED <<libraryVars, cursor, owed, file, disk, since, accounted, faults>>

\* The window is read again from its start, or the poll fails.
RestartWindow ==
    /\ poll = "read" /\ Moved
    /\ IF work.attempt < MaxAttempts
       THEN work' = [NoWork EXCEPT !.attempt = work.attempt + 1] /\ UNCHANGED poll
       ELSE EndPoll
    /\ UNCHANGED <<libraryVars, cursor, owed, file, disk, since, accounted, faults>>

\* The deletions follow, unless this is the first poll or the API has none to
\* offer.  If they cannot be read, the rest is delivered and the cursor held.
ReadDeletions ==
    /\ poll = "deletions"
    /\ poll' = "deliver"
    /\ \/ /\ work' = [work EXCEPT !.events = @ \o (IF cursor > 0 /\ serves THEN Deletions ELSE <<>>)]
          /\ NoFault
       \/ cursor > 0 /\ Fault /\ work' = [work EXCEPT !.held = TRUE]
    /\ UNCHANGED <<libraryVars, cursor, owed, file, disk, since, accounted>>

-----------------------------------------------------------------------------
\* What the last of these events says of each key.
Latest(last, events) ==
    [k \in Keys |->
        LET mine == {i \in DOMAIN events : events[i].key = k}
        IN  IF mine = {} THEN last[k] ELSE events[Max(mine)].version]

\* Fault: half a line at the end of the file is not looked for.
Mutant_Repaired == file

\* quarantineTornTailDelivery
Repaired == [file EXCEPT !.torn = FALSE]

\* The file is cut back to whole lines, and synced if it had to be.
Repair ==
    /\ poll = "deliver" /\ work.events # <<>>
    /\ file' = Repaired
    /\ \/ /\ disk' = IF file.torn THEN Repaired ELSE disk
          /\ poll' = "append"
          /\ UNCHANGED <<work, faults>>
       \/ file.torn /\ Fault /\ EndPoll /\ UNCHANGED disk
    /\ UNCHANGED <<libraryVars, cursor, owed, since, accounted>>

\* Events appended to half a line: the first one is part of that line.
Appended(events, torn) ==
    [last |-> Latest(file.last, IF file.torn /\ events # <<>> THEN Tail(events) ELSE events),
     torn |-> torn]

\* appendTailBatch succeeds: the batch is in the file and on the disk.
AppendBatch ==
    /\ poll = "append"
    /\ file' = Appended(work.events, FALSE)
    /\ disk' = file'
    /\ poll' = "record"
    /\ UNCHANGED <<libraryVars, cursor, owed, work, since, accounted, faults>>

\* The append fails or is killed and is not rolled back: the file may hold some
\* or all of the batch, and the disk may not.
AppendFails ==
    /\ poll = "append"
    /\ Fault /\ EndPoll
    /\ \E n \in 0..Len(work.events), torn \in BOOLEAN :
          /\ n = Len(work.events) => ~torn
          /\ file' = Appended(SubSeq(work.events, 1, n), torn)
    /\ disk' \in {disk, file'}
    /\ UNCHANGED <<libraryVars, cursor, owed, since, accounted>>

NothingToDeliver ==
    /\ poll = "deliver" /\ work.events = <<>>
    /\ poll' = "record"
    /\ UNCHANGED <<libraryVars, cursor, owed, file, disk, work, since, accounted, faults>>

-----------------------------------------------------------------------------
Empty(batch) == \A k \in Keys : batch.last[k] = 0
Delivered == [last |-> Latest(Nothing.last, work.events), baseline |-> cursor = 0]

\* Fault: what was owed before is forgotten.
Mutant_Merge(b, next) == IF Empty(next) THEN b ELSE next

\* tailChangeBatch.merge: the first poll's listing never mixes with changes.
Merge(b, next) ==
    IF Empty(next) THEN b
    ELSE IF Empty(b) THEN next
    ELSE IF next.baseline /\ ~b.baseline THEN b
    ELSE IF b.baseline THEN next
    ELSE [last |-> [k \in Keys |-> IF next.last[k] # 0 THEN next.last[k] ELSE b.last[k]],
          baseline |-> FALSE]

\* What was delivered is owed to the workflow before the cursor moves past it.
RecordOwed ==
    /\ poll = "record"
    /\ owed' = Merge(owed, Delivered)
    /\ \/ poll' = "cursor" /\ UNCHANGED <<work, faults>>
       \/ work.events # <<>> /\ Fault /\ EndPoll
    /\ UNCHANGED <<libraryVars, cursor, file, disk, since, accounted>>

\* A window that was read whole, with its deletions, moves the cursor.
Advances == work.version > cursor /\ ~work.held

SaveCursor ==
    /\ poll = "cursor"
    /\ \/ /\ cursor' = IF Advances THEN work.version ELSE cursor
          /\ since' = IF since = 0 THEN cursor' ELSE since
          /\ poll' = "hook" /\ UNCHANGED <<work, faults>>
       \/ Advances /\ Fault /\ EndPoll /\ UNCHANGED <<cursor, since>>
    /\ UNCHANGED <<libraryVars, owed, file, disk, accounted>>

-----------------------------------------------------------------------------
\* Nothing is owed: the poll is done.
NothingOwed ==
    /\ poll = "hook" /\ Empty(owed)
    /\ EndPoll
    /\ UNCHANGED <<libraryVars, cursor, owed, file, disk, since, accounted, faults>>

Size(batch) == Cardinality({k \in Keys : batch.last[k] # 0})

\* tailWorkflowTrigger: a workflow that reads its trigger is not run for the
\* first poll's listing, nor for more events than it accepts.
TriggerSkipped == owed.baseline \/ Size(owed) > TriggerLimit

\* The workflow has run for the owed events, or skipped them.
Handled ==
    /\ poll' = "clear"
    /\ accounted' = [k \in Keys |-> Max({owed.last[k], accounted[k]})]
    /\ UNCHANGED <<libraryVars, cursor, owed, file, disk, work, since>>

\* The workflow has failed: everything owed stays owed.
TriggerHeld ==
    /\ EndPoll
    /\ UNCHANGED <<libraryVars, cursor, owed, file, disk, since, accounted>>

\* The record is removed; a removal that fails may have taken effect.
ClearOwed ==
    /\ poll = "clear"
    /\ EndPoll
    /\ \/ owed' = Nothing /\ NoFault
       \/ owed' \in {owed, Nothing} /\ Fault
    /\ UNCHANGED <<libraryVars, cursor, file, disk, since, accounted>>

\* The file falls back to what was synced.
PowerLoss ==
    /\ file # disk
    /\ Fault
    /\ file' = disk
    /\ EndPoll
    /\ UNCHANGED <<libraryVars, cursor, owed, disk, since, accounted>>

KillPoll == EndPoll /\ UNCHANGED <<libraryVars, cursor, owed, file, disk, since, accounted>>

TailStep ==
    \/ BeginPoll \/ ReadPage \/ RestartWindow \/ ReadDeletions
    \/ Repair \/ AppendBatch \/ NothingToDeliver \/ RecordOwed \/ SaveCursor
    \/ NothingOwed \/ ClearOwed

-----------------------------------------------------------------------------
TailTypeOK ==
    /\ serves \in BOOLEAN /\ version \in Version
    /\ object \in [Keys -> Objects]
    /\ cursor \in Version /\ since \in Version
    /\ owed \in OwedBatches
    /\ file \in Files /\ disk \in Files
    /\ poll \in {"idle", "read", "deletions", "deliver", "append", "record", "cursor",
                 "hook", "running", "clear"}
    /\ work \in Works
    /\ accounted \in PerKey

\* A change the feed promises to report, if the cursor has passed it.
Passed(k) ==
    /\ object[k].changed <= cursor
    /\ object[k].alive \/ (serves /\ object[k].changed > since)

\* Whatever fails, the cursor never passes a change whose event is not in the
\* delivery file, whole and synced and the last one for its key: what the cursor
\* has passed is not asked for again (tail.go:497, 687-705, 718-739).
DeliveredUpToCursor == \A k \in Keys : Passed(k) => disk.last[k] = object[k].changed

\* A change the cursor has passed is owed to the workflow until the workflow has
\* run for it (or was skipped for the batch it is in): no kill and no failed
\* write between delivery and run loses it (tail.go:774-803).
OwedOrHandled ==
    \A k \in Keys :
        Passed(k) /\ object[k].changed > since =>
            object[k].changed \in {owed.last[k], accounted[k]}
=============================================================================
