# zotio in TLA+

zotio is a command-line program and MCP server that keeps a local SQLite mirror
of a Zotero library, reads from it or from the Zotero APIs, and changes the
library through reviewed, journaled mutation runs. Its hard parts are not its
commands but the protocols beneath them: an append-only journal that survives
crashes, a run engine that must record what it writes, an undo that must not
harm later edits, a mirror that follows a library through paginated lists and
shows its own writes while the desktop lags, watchers and feeds that must not
forget work, a workflow runner that must not create twice, locks that nested
commands share, and notes that two sides edit. Those are modelled here.

Paths below are relative to the repository root.

## 1. The system

### Two planes, one machine

Writes go to the Zotero Web API (the write plane). Reads come from the same API
or from the desktop application's local API (the read plane), which follows the
Web API with a lag. The mirror follows the read plane. Everything zotio itself
persists is on one machine: the mirror database, the run journal, a response
cache, marker and checkpoint files, configuration, and lock files.

Commands are processes. A command that mutates shared local state takes the
installation writer lock for its whole duration; readers take none. The MCP
server runs commands in its own process, one at a time.

### Components

| Component | State it keeps | Operations | What is hard | What makes it correct |
|---|---|---|---|---|
| Run journal (`internal/mutation/journal.go`) | `journal.jsonl`, torn-tail sidecars | append an entry, list, read one | kills inside an append, power loss, repair, readers without a lock | no record damages another, acknowledged entries survive, readers are honest about what they miss |
| Mutation run (`internal/mutation/mutation.go`, `cli/mutate.go`, `batch_item_update.go`, `write_precondition.go`) | result items, op-level journal records, deletion markers | plan, gate, apply op by op or in batches, record, classify the exit | lost answers, kills between a write and its record, failures of the journal, batches under fail-fast | at most one request is ever unrecorded, reports match the library |
| Journal undo (`cli/journal.go`, `mutation/reverse.go`) | undo links in the journal | reserve, read, conditional PATCH, record | other clients edit meanwhile, a kill at any step, undo of an undo | undone at most once, only the run's own changes are reversed |
| Mirror sync (`cli/sync.go`, `sync_total.go`, `pending_writes.go`) | rows, cursor, checkpoint, markers | full, incremental and resumed passes, sweep | offsets that shift under a pass, resumption, a lagging plane | deleted items never return, listed items are never swept, checkpoints skip nothing |
| Watch obligation (`cli/watch.go`, `watch_workflow_owed.go`) | one marker file per workflow | start, sync, record, run the workflow, clear | kills, marker failures, several watchers | no change is forgotten, no run without cause |
| Response cache (`internal/client/client.go`) | one file per response, a generation marker, a lock | look up, publish, invalidate | reads in flight across a write, a removal that fails, kills | nothing older than a write is served after it, no resource is cleared in vain |
| Write-through and field markers (`write_through.go`, `pending_writes.go`, `store.go`) | rows, pending writes | replay a write onto the mirror, merge it into listings, expire it | the desktop lags, two workers share rows, a backup is put back | the mirror shows zotio's own writes, never overrules a newer one, and converges |
| Change feed (`tail.go`) | cursor, owed trigger, delivery file | poll, deliver, record, save, trigger | kills and power losses between any two | nothing the cursor passed is undelivered or unhandled |
| Workflow runner (`workflow_run.go`) | checkpoint file | run steps, resume, block | kills around a step that creates | no create is repeated, no step skipped |
| Create routes (`items_create.go`, `create_route.go`, `import_file.go`, `client.go`, `connector`) | write tokens, guard files | create by web, connector or import | lost and late answers, retries | a create is carried out once |
| Writer locks (`writer_lock.go`, `root.go`, `deliver_spool.go`, `cliutil/lock.go`) | lock files, ownership in a context | acquire before, release after a command | nested commands, deliveries, panics, in-process reuse | a transaction never loses its lock, every lock comes back |
| MCP server (`internal/mcp`) | one command slot, process globals | run a command | cancellation, panics | slot and library always come back |
| Vault (`vault_push.go`, `vault_pull.go`, `vault_sync.go`) | regions and baselines in files | push, pull, resolve, rewrite | two other editors, lost answers | neither side's edit is lost, no second child note |
| Mirror store (`internal/store`) | SQLite tables | transactions, upserts, search | migrations | used as atomic transactions |
| Sync orchestration (`sync.go`, `sync_reap.go`, `group_fanout.go`) | a worker pool | one pass per resource | workers that share rows | the union of the passes is one sync |
| API client (`internal/client`) | rate limit, backoff, cache | requests, retries | retries of writes | ambiguity is reported |
| Imports (`import_*.go`, `connector_target.go`) | none | discover, translate, plan | - | what they create goes through the create routes |
| Delivery (`deliver*.go`, `output_publish.go`) | spool, outputs | publish atomically | concurrent runs | whole outputs only |
| Export and snapshots (`export*.go`) | lockfile | paginated read, verify | a moving library | what is written was read |
| Health monitor (`watch_health*.go`, `library_health*.go`) | baseline | compare | drift | - |
| Configuration (`internal/config`, `auth.go`) | config and credential files | login, logout | order of two files | a logout is final |
| Desktop presence (`internal/desktop`, `internal/zoteroprefs`) | none | probe, wait | timing | - |
| Item, collection, tag commands | none | plan operations for a run | - | what a plan holds |
| Reads and analysis | none | queries | - | - |
| Rate limit, paths, update check, provider cache | small files | - | - | - |
| Generators | none | build time | - | - |

### How they interact

* A mutating command plans operations, the run engine applies them through the
  client, marks permanent deletes in the mirror, records each landed operation
  in the journal and updates the mirror afterwards.
* `journal undo` reads the journal, builds inverse operations and hands them to
  the same engine; its link to the undone run is reserved in the journal first.
* `sync` reads the plane page by page and consults the markers the run left.
* `watch` runs `sync` and, if it changed rows, a workflow, whose steps are
  commands; `tail` turns the same changes into events.
* Every GET of the client may answer from the response cache; every write of the
  client, and of the desktop connector, invalidates it, in all processes at once.
* Creates leave by one of three routes, each with its own way of not being carried
  out twice; a workflow relies on the answer it gets to know whether it may repeat
  the step.
* `vault push` and `vault pull` carry a region of a file to a child note and back,
  through the client, under the lock of the vault.
* All writers of local state exclude each other by the writer lock. The journal's
  readers, and every actor outside this machine, do not.

## 2. Modules

| Module | Models | Composes |
|---|---|---|
| `JournalLog` | abstract: an append-only log from whose end a crash may drop unacknowledged records | |
| `JournalFile` | the journal at the level of file operations | implements `JournalLog` |
| `WriteLedger` | abstract: nothing is sent while an earlier landed write is unrecorded | |
| `MutationRun` | engine, adapter and batched updater | implements `WriteLedger` |
| `JournalUndo` | the undo command beside a user | a forward run is one step; journal lines appear whole |
| `MirrorSync` | a sync pass of one resource | uses the deletion markers of `MutationRun` |
| `WatchOwed` | the obligation between sync and workflow | sync and workflow by what they return |
| `ResponseCache` | the response cache that all processes share | requests by when they are answered |
| `PendingWrites` | zotio's writes, the lagging desktop and the two workers of a sync | a listing is one response; pages are in `MirrorSync` |
| `Faults` | the faults of one behaviour, counted together | |
| `CreateRoutes` | one create by web, connector or import | `Faults` |
| `WorkflowRun` | `workflow run --yes` with its checkpoint | `CreateRoutes` |
| `TailPoll` | one poll of a change feed | `Faults` |
| `ChangeFeed` | `tail --workflow`: the poll starts the runner, the user resumes it | `TailPoll`, `WorkflowRun` |
| `CommandLocks` | the phases of commands and their locks, the MCP slot | the mutual exclusion the other modules assume |
| `VaultNote` | one note of a vault and its child note | requests by what they do to the note |

`MC*` modules give the instances for TLC; `*_proofs` modules hold the theorems.

The composition is assume-guarantee, one promise per seam. `JournalFile` shows
that an acknowledged line is there for good and that a line is either whole or
absent to a reader; `MutationRun` and `JournalUndo` therefore treat a journal
write as one step that succeeds or fails. `MutationRun` shows that a landed write
is recorded before the next request leaves; `JournalUndo` relies on it by
making a forward run one step. `MutationRun` shows that a recorded delete has
its marker, or a reported failure of it; `MirrorSync` and `PendingWrites` start
from deletes that have their marker. `MirrorSync` shows what a pass through a moving
listing may conclude; `PendingWrites` takes a listing as one response and asks what
the markers do to it. `CommandLocks` shows that no path of a command gives up a
lock under an open transaction; every other module relies on it where it lets one
writer run at a time. `ChangeFeed` puts the feed, the runner and the creates together
in one state space with one budget of faults, since their promises meet there: an
event is owed until the runner has finished with it, and the runner repeats only what
a route says did not happen.

Definitions named `Mutant_...` stand before the definition they alter and are
used by no specification. Each describes one plausible fault and shows that the
property it is paired with can fail.

### JournalFile

The file is a sequence of slots, one per line; what a slot decodes to is its
data, and only the last slot may be unfinished: torn bytes, or a whole record
without its newline. `disk` is what fsync has secured. An append is `BeginWrite`,
`Inspect` (quarantineTornJournalTail looks at the tail), the repair
(`TerminateInPlace` for a whole record, else `WriteSidecar`, `Truncate`,
`SyncRepair`), then `WriteHead`, `WriteBody`, `WriteNewline`, `SyncEntry`,
`ReturnNil`. The write is one call in the code; its three steps are the places
where a kill or a short write may cut it. `AbortWrite` is an error or a kill at
any step; `PowerLoss` replaces the file by any file between `disk` and `file`.
The reader is `BeginRead`, `ReadSnapshot` (one parse of the file at one moment,
retried up to `ReadAttempts` times while the tail is unfinished) and `EndRead`.

Abstracted: the bytes and JSON of a record; rename and directory syncs of the
sidecar, whose name carries a timestamp; the first creation of the directory.

### MutationRun

`CheckGates` is the adapter's gate sequence (invalid plans, preview, caps,
destructive operations, cancellation); `Decide` the head of the engine's loop
(stop, hold-back, failure limit, cancellation); `Send` dispatches a request, for
itself or for its whole chunk, and chooses the answer and what the library did
with it; `Collect` reads the answer of an operation whose request has left;
`MarkDelete`, `RecordOutcome`, `Tally` are the observer in its order;
`WriteThrough`, `RecordRun`, `Classify` the end. `Cancel` cancels the context
and `Kill` ends the process, each at any moment. `fate` is what the answer says,
`landed` what the library did: an answer that is lost may be either, and the
read-back's three results (the fields are there, are not, cannot be read) decide
the status. `late` holds deletes still on their way.

Abstracted: which fields an operation changes, the client's retries (their
classified result is an input), the mirror beyond deletion markers.

### JournalUndo

An item is a function from slots to values. Tags and collections are membership
slots, fields and the trash flag are field slots. `ForwardRun` changes some
slots and journals them; `UserEdit` changes any slot at any moment. An undo is
`Begin` (the refusals: unknown run, already undone), `Reserve` (its link to the
target), then for each item `Read`, `Patch` (conditional on the version read,
with the effective inverses only), `RecordOp`, and at last `Finish`. A PATCH may
land with its answer lost. Partial results, failed journal writes and `Kill` are
in each step. `did`, `reversedBy` and `touched` are history variables.

`StalePlans` and `UndoUndos` switch on two behaviours of the code that break
what it promises; they are FALSE where the promises are checked, and `StalePlans`
is TRUE in the run that shows the disagreement (section 4).

### MirrorSync

The plane is two orders of the same keys, by date added and by date modified, as
sequences without repetition. `PlaneAdd`, `PlaneEdit`, `PlaneDelete` and `ZotioDelete`
may happen between any two requests; each changes the place of one item, behind or
before any other (`Follows`, `Leads`), as orders by dates with ties may. A page is the
items of some ranks. A pass is `Begin` (full or incremental, with or
without `--latest-only` and `--since-version`, resuming a cursor whose scope
matches), `DiscardOffset`, `Fetch`, `Store`, `Advance`, then the end of the pass:
`Sweep`, `ClearCursor`, `Stamp`, or `FailPass`. `Abort` is everything that stops
a pass without a change of state: a failed request, a cap on pages, an SQL
error, a kill. The sweep's conditions, the pinned listing version, the total and
its cross-check, the fallback when the server refuses a sort are in the model.

A server is one of `Servers`: it may omit the total or the listing version, and
may refuse the sort. `Replaces` lets a pass see its list gain and lose objects
at once, `SkipsAhead` a `--since-version` beyond the checkpoint; both are FALSE
in the run (section 4).

Abstracted: rows are a key and a version. Versions only grow, so a restored
library, stripped versions and field markers are left to `PendingWrites`.

### WatchOwed

`StartCycle(w)` takes the writer lock, and is disabled while another cycle has it (the
code skips that tick); `MarkCycle` writes the in-flight marker, `Commit` stores rows,
`SyncEnds`, `Record` writes what is owed, `Succeed` and `Fail` are the workflow,
`Clear` removes the marker. Each file operation has its failing twin; `KillWatch`
ends a cycle anywhere. A watcher is identified by its workflow, which is how the
marker file is named.

What the model says of a limit of the feature: only rows changed by a workflow's
own cycles count. Changes stored by a plain `zotio sync`, or by a cycle of
another workflow, are already in the mirror when the next cycle looks, and no
watcher's workflow runs for them, although docs/guide/workflows.md:31 says that
"it runs when the library changes". `unhandled` is defined accordingly.

### ResponseCache

A GET in a slot is `BeginGet` (the snapshot of both counters, or a bypass when the
marker cannot be read), then `Hit` or `Fetch`, then `BeginPublish` and `Rename`,
or `NotPublished`. A write is `Write` (the request is over, landed or not), then
`Mark`, `Remove` file by file, `EndInvalidate`; or `MarkUnreadable`, which purges
the directory; or `GiveUp`. The lock is held from the checks of a publication to
its rename, and from the marker's advance to the last removal; readers take none.
`Exit` ends a process anywhere and the kernel frees its lock; `PowerLoss` may
lose or damage any file, for none is fsynced. A response is the library version
it was taken at; `floor` and `done` are history variables.

Taking the lock and advancing the marker are one step, as between the two there
is only a busy lock to be seen, and any attempt may fail as busy anyway. A client
may take its snapshot while it invalidates, which its mutex forbids in the code;
another process may do so at the same moment, so nothing is added that could not
happen. A miss is always possible, which stands for expiry, absence and a body
that does not parse. Abstracted: keys within a namespace, of which there is one;
the legacy marker and files; paths of an unknown resource, which clear all. Left
out: a power loss that brings back an older, intact marker (after it a response
may be cached that a later read should not get, for at most the five minutes of
its life), and a read plane that lags behind the write plane, which no cache can mend.

### PendingWrites

The library is a log of snapshots. zotero.org is its end; the desktop shows an older
one, until `DeskHears`, or until `DeskRestored` puts a backup in its place. `Elsewhere`
is any client. A command of zotio is `Command` (its request lands; the lock is
held) and one of `MirrorCreate`, `MirrorEdit`, `MirrorTrash`, `MirrorRestore` and
`MirrorErase`, which replay it onto the mirror and leave the marker. A kill between the two loses
the replay, not the write. `Age` is the fifteen minutes after which field and create
markers expire.

A sync is `StartSync` and two workers, for items and items-trash, at any interleaving:
`BeginPass` (expired markers go, a full pass strips versions), `Fetch` (a listing of
the desktop, merged with the markers), `Verify` (is the desktop still at the version
it listed?), `Store` (the version guards, and the row of the other resource), `Sweep`,
`Stamp`, `FailPass`. A row moves between the two resources when its item is trashed or
restored, so both workers write it.

`Risks` names circumstances in which the code does not keep what it promises, or
cannot; the run has none of them, and section 4 says what each does. No property needs all
of them absent: `StaysPurged` needs `behind`, `OwnWritesStand` `behind`, `again`, `unseen` and
`fresh`, `CatchesUp` `again`, `backups` and `halfway`, `FullSettles` none. A listing is one
response: pages, cursors and completeness are the matter of `MirrorSync`. The plane read
is always the desktop.

### CreateRoutes, WorkflowRun, TailPoll, ChangeFeed

A create of `CreateRoutes` is known by the workflow step that asks for it. By the web
it is a POST with a write token, sent again after a lost answer or a 5xx; by the connector a
SaveItems, after whose failure the library is searched; by import a request behind
a guard file, which refuses the next attempt until an answer removes it. `inFlight` holds
requests whose sender has stopped waiting: `Arrive` carries one out, at any later
moment. `ConnectorHides` would let a connector's item stay unseen by the search.

`WorkflowRun` runs the steps of one spec: condition, input, selection, then
the step, each of whose starts and ends is in the checkpoint. `Start` is a run from
nothing, refused while there is a checkpoint; `Resume` one from a checkpoint, refused while
a step is in progress and halted by a step that is blocked (`HaltBlocked`); `Discard` is the
user deleting the file.

`TailPoll` is one cycle of a feed: read the window by pages (again from its start if
the library moves under it), read the deletions if the server has them, cut the delivery
file back to whole lines, append the events, record what is owed, move the cursor. The
delivery file is synced before the cursor moves; `PowerLoss` takes what was not synced.

`ChangeFeed` makes one state space of the three. The hook of a poll starts the runner
with all that is owed (`HookRuns`) or finds more than it accepts (`HookSkips`); between
two polls the user may resume or discard. Faults of all parts are counted together.

Abstracted: what an event or a payload says; pages by rank as in `MirrorSync`; the
workflow's file, which does not change (a changed one is refused by its hash). Left out:
`import --reimport`, which removes the guard on the user's word, and imported records
that carry no key.

### CommandLocks

One execution of the command tree is a frame on its client's stack; a workflow's step
and a cycle of `watch` or `tail` are frames on top, whose context continues their
parent's. A frame goes through `PreRun` (the installation lock, and an early refusal), `Setup` (the
scope, the spool), `LeafPreRun`, `EnterBody` (the RunE wrapper takes the lock over),
`OpenNext`, `RunStep` and `Finish` in the body, then `RunDeferred`, `CloseSpool`, `Backstop`, `Return`. Every
phase may fail or panic. `ctx` is the stack of ownerships in the command's context, `defers` the
releases that its own deferred functions owe, `tracked` what the backstop of
`ExecuteRootInProcess` would release. The requests of the MCP server pass its slot
(`Ask`, `Cancel`, `GiveUp`, `TakeSlot`, `CheckAndBegin`, `EndRequest`); a shell runs one
command. `Kill` ends a process anywhere and the kernel drops its locks.

Abstracted: what a command does, but for the locks, the library and the steps it takes (`Profile`); lock
files and their metadata; canonical paths, of which a lock is one.

### VaultNote

The file is its Notes region and the state in its hidden comment: key, version,
text and body that were last in step, and the intent of a write whose answer never
came. A command is `Start(op)`, then `Versions` and `Read`; by what it finds it ends, takes over
a body that is its own (`Converged`, `Recovered`), or goes on to `Intend`, `Patch`,
`Settle` and `Finalize` (the read-back that becomes the baseline), or to `Discover`,
`Post` and `Adopt` for a note that it must create. Every write of the file is `Rename`
after a last comparison; a failed or busy one is `FailWrite`. `sync` does the same under one
lock with only the rewriting of the rest of the file. The user is `Save`, at any moment;
other clients are `EditElsewhere`, `TouchElsewhere` (the version moves, the body stays) and
`DeleteElsewhere`. `held` is every text a child note has had, `shown` every text that
the region has had, together with those of adopted notes, which the command reports.

Abstracted: a hash is the text hashed, and rendering loses none. Left out: previews, gates, the
library check and the artifacts around the region, which change neither side; the
server's rewriting of HTML; the trash, which a child note leaves as it entered it;
requests that land after zotio has looked for them.

## 3. What is checked

All runs use the full interleaving of the actions above; the numbers are distinct
states.

| Run | Bounds | States | Shows |
|---|---|---|---|
| `journal_file` | 3 writes, 3 read attempts, any number of failures and power losses | 6,101 | `AckedSurvives`, `ReaderHonest`, `RepairKeepsEvidence`, implements `JournalLog` (`LogSpec`) |
| `mutation_run` | 15 plans of 3 operations, chunks of 2 | 356,823 | `ReportTruthful`, `UndoableUnlessWarned`, `MarkedBeforeRecorded`, implements `WriteLedger` (`LedgerSpec`) |
| `journal_undo` | 2 items with a tag and a field, 1 forward run, 2 undo runs, 1 edit | 2,707,168 | `EveryUndoIsLinked`, `UndoneOnce`, `OkMeansReversed`, `UndoOnlyReverses` |
| `mirror_sync` | 3 keys, pages of 2, 2 passes, 2 changes, 5 servers | 5,071,227 | `NoResurrection`, `CheckpointHonest`, `FullConverges`, `SparesTheListed` |
| `watch_owed` | 2 workflows, 3 changed rows, 3 faults | 18,504 | `NothingForgotten`, `CountsExact`, `EveryChangeHandled` |
| `response_cache` | 2 requests at a time, 2 clients, 2 resources, 2 writes, any number of reads, exits and power losses | 1,972,303 | `ReadsAreFresh`, `SelectiveClear` |
| `pending_writes` | an item and its note, 3 values, 3 versions, 2 syncs, markers that age once, 1 backup | 2,120,451 | `OwnWritesStand`, `StaysPurged`, `FullSettles`, `CatchesUp` |
| `change_feed` | 2 objects, 4 versions, pages of 1, 2 attempts, 1 event a trigger, 3 specs of 2 steps, 1 retry, 2 faults | 2,548,340 | `DeliveredUpToCursor`, `OwedOrHandled`, `CreatedOnce`, `SuccessIsWhole` |
| `command_locks` | 2 requests of a server, 1 shell, 5 commands, 3 locks, 2 steps | 32,672 | `OpenMeansHeld`, `NothingStranded`, `NeverRefusedByItself`, `OwnLibrary`, `EverythingComesBack` |
| `vault_note` | 3 texts, 2 note keys, 2 saves, 2 foreign edits, 1 resolve, 1 fault | 1,072,398 | `BaselineHonest`, `RemoteEditsStand`, `LocalEditsStand`, `NoSecondChild`, `PushesThrough` |
| `stale_plan` | as `journal_undo`, with `StalePlans` | - | a disagreement: `UndoOnlyReverses` |
| `vault_read_back` | as `vault_note`, with the risk `readback` | - | a disagreement: `RemoteEditsStand` |

Why the bounds are enough for the questions:

* `journal_file`: three records give one acknowledged record in front of a torn
  one and a new one behind it, which is the longest chain the repair relates.
  The reader's retries meet a tail under repair in every step. The proofs cover
  any number.
* `mutation_run`: three operations in requests of two give a request of two, a
  second request of one, an operation in the middle that is skipped, and a
  failure before, inside and after a request. The fifteen plans take each gate
  and each option to both of its values. The proofs cover any plan.
* `journal_undo`: two items let an undo fail between them; a field and a tag
  have the two kinds of inverses; a user's edit is before, during or after the
  undo. A second forward run would be to the undo what an edit already is.
* `mirror_sync`: three keys on pages of two make two pages, so that an item can
  slide over the boundary; two changes allow an edit followed by a delete, or
  two deletes; two passes a pass and its resumption, or a full and an incremental
  one. The proofs cover any number.
* `watch_owed`: two workflows share the lock, not the marker; three faults
  are one in each phase of a cycle.
* `response_cache`: a read in flight across a write needs two requests, of one
  client or of two; a second write shows the counters of two clients overtaking
  each other; of the two resources one reaches the other and is not reached by it.
  A third request would be a second reader or writer of the same kind. The proofs
  cover any number.
* `pending_writes`: three values are the old one, zotio's and another client's;
  three versions the library's first, zotio's write and one that races it. A child
  may be known to the mirror or not. The second sync sees what the first left. The proofs cover
  any number; before them the inductive invariants were checked on this run, and with one key, four versions
  and three syncs with the risks that each part allows.
* `change_feed`: two objects on pages of one let the library move between two pages; of two
  faults one cuts a step and one what was to mend it. The specs are a create that feeds
  another, an import with a fallback, and a step that selects, so that each route, each condition and
  each way of going on is taken. One event more than a trigger takes is two.
* `command_locks`: the server has the caller that runs and the caller that waits; its
  workflow nests a command of another library and one that names an output the shell's
  `tail` has locked; the shell's cycle nests a workflow whose step names the output the
  shell has itself. The proofs cover any number but for liveness.
* `vault_note`: a text beside the old and the new one, and beside each an empty region; a
  second key for a note created beside the first. A save and an edit are on each side of a
  push, or both on one. The proofs cover any number but for liveness.

Symmetry is used over the keys in `mirror_sync` and `change_feed`, over the values but the
first in `pending_writes` and over the slots in `response_cache`; no liveness is checked there.

Deadlock is checked in `journal_file`, `watch_owed`, `response_cache`, `change_feed` and
`command_locks`, where something can always happen. The other runs set
`CHECK_DEADLOCK FALSE`: a mutation run ends, and elsewhere the bounds on runs, passes,
changes and commands end the behaviour. No lock is waited for in those modules.

`LogSpec` and `LedgerSpec` are the refinements. `LogSpec` maps the file to the
sequence of records a reader decodes. `LedgerSpec` maps the writes a run owes to
the operations whose answer says they landed or may have, and the records to those
an undo would find. Both are safety specifications.

### Fairness

* `EveryChangeHandled` (`watch_owed`). `WF(CycleStep)`: a cycle under way waits for no one, since
  it has the lock. `SF(StartCycle(w))`: each watcher has its own ticker; a tick that
  finds the lock taken is skipped, so the start is enabled again and again but not
  forever, and weak fairness would assume less than a watcher needs. The code's
  watchers retry at every interval and no cycle holds the lock for good. Faults are
  bounded by `MaxFaults`: without a bound a cycle could be killed each time and
  nothing would ever be handled. A workflow that an applied failure has blocked
  needs the user's `--resume`; it counts as one fault of many cycles.
* `EverythingComesBack` (`command_locks`). Weak fairness of each client's execution and of the
  server's bookkeeping around it: requests and bodies have timeouts or bounded work, and
  nothing here waits for a lock. Strong fairness of `TakeSlot`: the slot is a channel, whose blocked senders
  are served in turn, so a waiting caller is not overtaken forever.
* `PushesThrough` (`vault_note`). Weak fairness of a command's work, and strong fairness of `Start("push")`: the
  property is about a user who pushes again and again, and other commands take the
  same lock in between. Faults, saves and foreign edits are bounded.

## 4. Where the code and its words disagree

Two disagreements have a run that TLC must find violated; `PROJECT.json` quotes the lines.

* `stale_plan` (`mutation/journal.go:157`): the journal records the planned
  changes, the write applies those not yet in place. Undoing then removes what the
  run never added. An undo of an undo does so too: its effective inverses are known and
  used for the mirror, but not recorded (`UndoUndos`).
* `vault_read_back` (`vault_push.go:493`): after a push zotio reads the note back and
  takes what it finds for what it wrote. An edit of another client between the two becomes the
  baseline, and the next push overwrites it without a conflict.

The others were met while modelling or proving (`halfway` was found by a proof that did not
go through). Where a constant allows the behaviour, TLC shows it
when the constant is changed; the runs have it off.

| Where | What happens | Constant |
|---|---|---|
| `write_precondition.go:152` | A DELETE whose answer was lost is reported as failed when the read-back still sees the item. If the request lands after that, a delete exists without record and marker. The PATCH path reports the same doubt as committed | `LateDeletes` |
| `sync.go:1987` | The sweep trusts a total that stood still, but a deletion and an addition between two requests keep the total and shift an unseen item over the page boundary: it is swept though it is listed | `Replaces` |
| `sync.go:2081` | `--since-version` newer than the checkpoint stamps a checkpoint over changes that no pass fetched | `SkipsAhead` |
| `pending_writes.go:193` | A marker holds the value the mirror had. If zotio edits an item whose latest edit has reached the desktop only, the desktop's value is taken for a third one, and zotio's own write disappears from the mirror until the desktop has it | `Risks`: `unseen` |
| `sync.go:1440`, `pending_writes.go:85` | Another client that writes the value the field had before looks like the lag: it is overruled until the marker expires | `again` |
| `store.go:2529` | A row zotio created has no version, so an edit before any sync lists it cannot be ordered against a listing | `fresh` |
| `sync.go:1639` | A backup that puts items into, or out of, the trash: only the rows of the resource that is swept go back in version | `backups` |
| `sync.go:2065` | A full pass finds an older library (a backup was put back), stores its rows and fails, or is killed, before it resets the checkpoint. If the desktop then catches up to the versions it had, incremental passes begin above the rows that were put back, which stay old until a full pass | `halfway` |
| `write_through.go:197` | A restored row is rebuilt from the mirror's copy in the trash. If zotio's own edit was not in that copy the mirror loses it again; the code says so in a warning, and `OwnWritesStand` promises such a write no more | - |
| `pending_writes.go` (items-trash) | A purged item, listed in the trash by a desktop whose own sync began earlier and ended later, is back in the mirror's trash until the next pass | `behind` |
| `write_through.go:497` | zotio trashes an item and `sync --full` runs before the desktop knows: the live row is refused and the trash row not listed, so the mirror has neither until the desktop hears of it. A just-created item is swept likewise | outside the premise of `FullSettles` |
| `vault_push.go:443` | `resolve --keep-vault` replaces a pending intent. If the earlier write had landed, the next push takes it for a foreign edit | `forgotten` |
| `workflow_run.go:1105` | After a kill in a step that is in progress, `--resume` refuses for ever; only deleting the checkpoint helps, and then the step is repeated with the same write token or guard | - |
| `workflow_run.go:982`, `:1095` | The user is told to edit a blocked step, but a changed spec is refused with its checkpoint | - |
| `create_route.go:29` | An attempt that may have landed, followed by 429 or 4xx on the retry, is reported as failed rather than ambiguous; the token still makes a repetition safe | - |
| `tail.go:459` | Events owed over failing cycles are skipped when together more than 500, though docs/guide/workflows.md:218 speaks of "a cycle with more than 500 events" | - |
| `deliver_spool.go:46`, `root.go:575`, `library_health.go:705` | A command whose `--deliver` names one of its own sidecar files (`library health --write-baseline`) is refused by its own delivery lock; only `--output` is compared with it beforehand | `Profile`: a `deliver` among the `sidecars` |
| `vault_sync.go`, `resolve --recreate` | On a live note that another client reshaped it binds the note without `--allow-destructive`, and the next push overwrites it; after a recreate beside it, `keep-vault` leaves two managed children | - |
| `vault_pull.go` | A pull says "local and remote both changed" when only the note's metadata moved | - |

## 5. What is proved

Proved with TLAPS for every value of the constants within the named assumptions
(`ConstantsAssumption`, `PlansAssumption`, `UndoAssumption`, `MirrorSyncAssumption`,
`WatchAssumption`, `FaultsAssumption`, `TailAssumption`, `CreateAssumption`, `WorkflowAssumption`, `FeedAssumption`,
`CacheAssumption`, `PendingWritesAssumption`, `LocksAssumption`, `VaultNoteAssumption`). They ask that
bounds are naturals, sets finite where the code's are, and tables total; `PendingWritesAssumption`
also that the library has a version, that is `MaxVersion` is at least 1.

| Theorem | In | Further assumption |
|---|---|---|
| `TypeCorrect` | each proof module | |
| `JournalNeverCorrupt`, `AcknowledgedEntriesSurvive`, `ReadersAreHonest`, `RepairsKeepEvidence`, `JournalFileImplementsLog` | `JournalFile_proofs` | |
| `RunImplementsLedger`, `MarkersComeFirst` | `MutationRun_proofs` | |
| `ReportsAreTruthful`, `OneRequestIsAtRisk`, `UnwarnedRunsAreUndoable` | `MutationRun_proofs` | `~LateDeletes` |
| `UndosAreLinked`, `RunsAreUndoneOnce`, `SuccessMeansReversed` | `JournalUndo_proofs` | |
| `UndosOnlyReverse` | `JournalUndo_proofs` | `~UndoUndos`, `~StalePlans` |
| `DeletedStaysDeleted`, `ListedAreSpared`, `CheckpointsAreHonest`, `FullPassesConverge` | `MirrorSync_proofs` | `~Replaces`, `~SkipsAhead` |
| `NothingIsForgotten`, `CountsAreExact`, `NoRunIsIdle` | `ChangeTriggers_proofs` | |
| `FeedTypeCorrect`, `CursorWaitsForDelivery`, `NoChangeIsDropped`, `SuccessLeavesNothing`, `TokenAndGuardSuffice` | `ChangeTriggers_proofs` | |
| `CreatesRunOnce` | `ChangeTriggers_proofs` | `~ConnectorHides` |
| `ReadsAreNeverStale`, `ClearsAreSelective`, `GenerationsAreIssued` | `OwnWrites_proofs` | |
| `PlanesTypeCorrect`, `FullSyncsSettle` | `OwnWrites_proofs` | |
| `ErasedStaysErased` | `OwnWrites_proofs` | `"behind" \notin Risks` |
| `WritesAreNotRolledBack` | `OwnWrites_proofs` | `OwnRisks`: none of `behind`, `again`, `unseen`, `fresh` |
| `OneSyncCatchesUp` | `OwnWrites_proofs` | `CoverRisks`: none of `again`, `backups`, `halfway` |
| `TransactionsAreLocked`, `NoLockIsStranded`, `CommandsSeeTheirLibrary` | `CommandLocks_proofs` | |
| `OwnLocksAreReused` | `CommandLocks_proofs` | `DeliveriesApart(B)` |
| `BaselinesAreHonest`, `RemoteEditsAreSafe`, `LocalEditsAreSafe`, `NoSecondChildIsMade` | `VaultNote_proofs` | `"readback" \notin Risks` |

The further assumptions exclude exactly behaviours of section 4. The type
invariants are stated in the models and proved; where the theorem covers it, the run does not check it again.

* **Journal.** `NeverCorrupt` is not inductive: it says nothing of `disk`.
  `IInv` adds that both images are well formed, that the disk is a prefix of the
  file or still ends in a fragment which the file has cut (`DiskLags`), what each
  place in `WriteEntry` may rely on (`PlaceInv`) and that acknowledged records are
  finished lines of the *disk*. A power loss picks a file between the two, so each
  such file has the same properties. For the refinement, `OrderInv` adds that
  records appear in the order of their writes, so the decoded log only ever grows
  at its end or loses unacknowledged records there. `Saved` says that a fragment about to be
  cut is in a sidecar; every other step leaves the file or lengthens it.
* **Mutation run.** `Place` ties the loop's counter to what has been reported;
  `Requests` says requests are sent whole, in plan order; `Reports` that a result
  is what the answer said; `Ahead` is the write-ahead discipline: as long as the
  observer has not failed, every landed operation behind the counter has its
  record. `Ahead` gives the ledger; with `Library` (the library never has what
  the answers exclude, which is what `~LateDeletes` buys) it gives the rest.
* **Undo.** `Order` numbers runs by their beginning, `Current` describes the undo
  in progress: its lines link it to its target, no other run's folded entry does,
  and the link is on disk before it may write. With them a second undo is refused
  whatever was killed. `Exact` adds, for `UndosOnlyReverse`, that a record names
  what was done and that an item read is current unless its version has moved.
  For `SuccessMeansReversed`, `Single` says that the lines of a run name each slot once and that
  each change does change it, so a PATCH that landed leaves none of them still to be reversed.
* **Mirror sync.** The heart is what a total that stood still proves. `Trend` says that
  without replacement a pass's list either only gains or only loses; if its
  length is the same at the end, nothing came or went, so the order shifted only by edits, which move an
  item towards the part still to be read. `AllSeen` then says that every listed item was on a page
  or lies beyond the offset, and the sweep, which asks for the last page and
  for the same total, removes only what is not listed. `Covered` and `Complete` carry the same for
  versions: what was fetched is current up to the pass's goal, so a stamp at that goal passes over
  nothing; `Saved` keeps it for an offset that a later pass resumes. A row that a version guard keeps
  is newer than any horizon that a pass may stamp (`Outdated`).
* **Watch.** `CycleOwes` says what the running cycle, or the marker it left, knows
  of the rows committed: from `Mark` to `Record` the marker is in flight, which is
  read as "unknown, so run". `CycleCounts` is the exact account as long as nothing
  was cut short.
* **Feed.** Three files must tell one story. `FileTells` says of the delivery file that up to the
  cursor, and up to the batch being delivered, it ends each key's events with the newest; `OwedTells`
  that what the cursor has passed is owed, in a run, or handled. Neither is inductive without what
  the poll in progress has read: `Reading` describes each page by rank, `WindowWhole` that a
  window whose pages all carried one version has every change since the cursor, which is an
  induction over its pages carried in the invariant. For the creates, `CopiesRemembered` says
  that each copy the library made is known to a record that will stop the next attempt (the checkpoint, the token, the guard
  or the search) and `CopiesUnderWay` the same of the request in flight. `Progress` orders
  the steps around the one in hand. `TInv` speaks of the poll and `WInv` of the runner, so
  a step of one side leaves the other's as it was; only the hook is a step of both.
* **Cache.** `Fresh(n, g, v)` says that whoever reads namespace `n` and accepts
  generation `g` gets nothing older than `v`, from the directory or from a response
  on its way there. A step keeps it for any `n`, `g` and `v`, since a response is as
  new as the library when fetched. `Shut` says it of the current generation and of
  the last write that returned: an advance of the marker makes it true at once,
  because `Issue` bounds every tag by the marker, so the removal is needed for
  nothing but space. `Gets` carries it in each read under way to its answer. `Purging` says
  that a request which purges the whole directory found its marker unreadable.
* **Pending writes.** Five invariants, each kept by every step with the help of those before it. `Base` says
  where things come from: what zotio has of an item, in rows, in the rows of a pass and in markers, is a state
  the library had, no newer than its version says, and a deletion marker means that the item is erased.
  `Purge`: once the desktop has heard of the deletion, no list has the item; until then the marker keeps it
  out, and the marker goes only when a list without the item was read. `Newer`: a row on the side where the item is not
  is older than every snapshot since the item came to where it is. A version guard decides
  between the two rows, so the moved item wins in whatever order the two workers write.
  `FullPass` follows a full pass from its list to its end on this ground. `OwnWrites` says that what zotio wrote
  is in the row, or was overruled by something the library has had since; it needs `FreshValues` (what an
  edit writes is neither in the row nor in the marker), without which a marker could not tell the desktop's
  lag from another client's edit. `Coverage` is the account of versions behind
  `CatchesUp`: every item the library last changed by the checkpoint, or by the bound of the pass under way,
  has its row with the library's value (`Covers`); a list has what came after the checkpoint (`Lists`); a sync of a
  desktop that has heard of everything reaches every item (`Reaches`); a write that a command has yet to replay lies
  above the checkpoint (`Ahead`); nothing has moved between the desktop and the checkpoint (`Rested`),
  whose failure is `backups`. `halfway` came out of the step of `Covers` for a pass that fails. It
  needs `Replaced`: no marker takes the library's value for one that was replaced, which is where `again` counts.
* **Locks.** Every lock held is owed by exactly one frame of its holder, in its deferred functions, its
  tracked handoff or its spool, and the frames above it only have the ownership in their context. A nested
  command therefore finds the lock and releases nothing that it did not take. What is owed
  is released before the frame returns, by one of three paths, so an empty stack holds
  nothing. `Reuses` adds that a frame's context begins with those of its callers, so what they
  own is found there; only the lock of a delivery is in no context, hence the assumption
  (the last row but one of section 4 is its violation; the commands of the run satisfy it). For the library, each frame saves the scope of the frame below it.
* **Vault.** Each place of a command has what it may rely on (`Good`): the note it read is
  pinned by the version its PATCH names, a text that it takes for its own was in this file, a create
  is asked for while no managed note is there. Baselines are `Fit`: text and body belong together
  and, at that version, to the note. `Level` ties the file to the command under way, which alone
  writes its state; the user's saves change the region, which every rename compares once more.

## 6. What is only model-checked

The liveness properties `EveryChangeHandled`, `EverythingComesBack` and `PushesThrough`: fairness and ENABLED are
beyond the proof system used; so is induction over recursive definitions. Every other property of the
runs is the subject of a theorem; the two that a run refutes (`stale_plan`, `vault_read_back`) hold, and are proved, without
the circumstance that the run adds.

## 7. Not modelled

Every part is listed in `PROJECT.json` with its reason. Most of the program's lines
are commands that plan, query, format and parse: they keep no state between two calls, and what
they compute is data to the protocols above. A plan is any plan to `MutationRun` and
`JournalUndo`, a query is a read to `ResponseCache`. What has state and is left out:

* SQLite: transactions are taken as atomic, migrations and the search index are not looked at.
* The worker pool of `sync` beyond its two workers that share rows, the schema resources and the
  fan-out over libraries: these share nothing but the pool.
* The adaptive rate limit and backoff: they change when a request leaves, not what it does.
* Delivery and exports without a cursor: a spool or a temporary file and one rename.
* Logout: the scrubbed configuration is published before the credentials file is removed
  (`internal/cli/auth.go`, `internal/config/config.go:478`); three steps of one process whose order the code
  gives, so a model would only restate it.
* The health monitor: one process compares findings with its own baseline file.
* Probing and waiting for the desktop application: time windows and processes.
