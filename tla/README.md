# Fleet Ledger: TLA+ models of sync, outbox, cloud backup, entitlements and the project books

Fleet Ledger (asset_ledger_app) is an offline-first Flutter ledger for owners of
construction machines: timing records, projects, payments and write-offs live in
a SQLite database on each device. Small Python services keep a cloud copy: a
change log to sync devices with, a store for encrypted backups, and a verifier
for in-app purchases. The hard part of the program is not any one of its
computations but that several copies of one ledger are edited offline, pushed and
pulled over a network that loses answers, by an app that may be killed between
any two statements. That part is modelled first; the services in front of it and
the books themselves, whose transactions decide with what a screen read before
they began, follow.

## 1. Inventory

| Component | State it keeps | Operations | Talks to | Hard behaviour |
|---|---|---|---|---|
| Cloud sync backend (`server/cloud_sync_backend`) | tables `sync_changes`, `sync_entity_heads`, `sync_devices` | `POST /sync/changes`, `GET /sync/changes`, `POST /sync/devices` | sync manager of every device | one thread and one SQLite connection per request, competing for the write lock; rollback, death of the process |
| Request path of the sync backend (`config.py`, `auth.py`, `http_helpers.py`) | cached version policy of the process, `sync_devices`; outside: policy file, sessions | version gate, authentication, register a device | account service, operators who edit the policy file | threads share the cache without a lock; an authority changes or fails during a request |
| Outbox and planner (`lib/infrastructure/sync/sync_repositories.dart`, `sync_manager_push_planner.dart`) | table `sync_outbox` | enqueue inside a business transaction, listPending, fold, order, validate, delete, mark failed | business repositories, sync manager | a bounded snapshot of due rows is folded and validated as if it were all; retries hide rows |
| Sync manager (`sync_manager.dart`, `sync_production_caller.dart`) | tables `entity_sync_meta`, `sync_state`, `sync_conflicts`, business tables | pull one page, push the due rows, acknowledge, park conflicts | backend, outbox, conflict screen | every `await` lets the owner's edits, a resolution or a restore in; the network loses answers; the app dies |
| Conflict resolution (`sync_conflict_resolution_use_case.dart`) | `sync_conflicts` | use remote, use local | sync manager's tables | resolution while the conflict, the record and the outbox move on |
| Cloud backup on the device (`cloud_backup_service.dart`, `local_restore_service.dart`) | all tables, through export and restore | export, watermark, upload, restore | sync tables, backup backend | snapshot and cursor are read at different times; a restore happens beside a running sync |
| Cloud backup backend (`server/cloud_backup_backend`) | object store, metadata table | create, list, download | device backup | two stores without a common transaction |
| IAP verification backend (`server/iap_verification_backend`) | `iap_entitlements` | verify purchase, current entitlement, mapping of Apple's signed payloads and status lists | Apple, the app | read, ask Apple, write back, without a lock; two environments of which the wrong one may be what fails |
| Rate limiters of the servers | window of timestamps per account | check | handlers | the time is read before the lock is taken |
| Project settlement and payments (`local_project_settlement_repository.dart`, `local_account_payment_write_use_case.dart`) | `projects`, `account_payments`, `project_write_offs` | settle, settle merged, delete write-off, revoke, payments | outbox, impact service | amounts computed by the screen before the transaction; payments changed after settlement |
| Timing records with impact (`local_save_timing_record_with_impact_use_case.dart`, `local_delete_…`) | `timing_records`, settlements, merges | save, delete with revocation | settlement, outbox | reads before the transaction, a long transaction with many effects |
| Operation tokens, assistant workflow (`operation_token_repository.dart`, `features/mcp`) | `operation_tokens` | insert, claim, cancel, expire, execute | write use cases | two confirmations of one token, expiry while confirming |
| Account project merge (`account_project_merge_service.dart`) | merge groups and members | merge, dissolve | settlement, timing | checked before the transaction that creates the group; dissolved as a side effect of edits |
| Subscription, login, version policy | caches | refresh | remote services | little state of their own |
| Database opening and migrations, share files, user interface | schema, files, view state | - | - | sequential, conversion or presentation |

How they interact. A business transaction writes its tables, one
`entity_sync_meta` row and one `sync_outbox` row per changed entity, all in one
SQLite transaction (`TimingRecordSyncEnqueuer`, `SyncTransactionGroup`).
`SyncProductionCaller.runOnce`, one at a time, pulls one page from the backend
and then pushes the due outbox rows. A pulled change is applied, or parked in
`sync_conflicts` for the owner, in a transaction that also moves the pull
cursor; an acknowledged row is deleted, its meta row is updated and the cursor is
moved, in three transactions. A backup exports the business tables and notes the
pull cursor; a restore replaces the business tables, empties the sync tables,
sets the push gate and writes the cursor.

What makes each correct:

- *Backend*: an account's log has no hole and no duplicate, versions of an
  entity form a chain, heads agree with the log, pages and acknowledgements tell
  the truth about committed rows, and every push is answered.
- *Request path*: a request is served only under an account an authority vouched
  for while it ran; 401 is said only when none did; a fresh cache is the file's policy.
- *Outbox*: a committed business row is never lost; rows of a transaction reach
  the server in their order; folding only drops what is void; only corrupt rows
  are failed for good.
- *Sync*: no device knows more than the backend, changes are kept until the
  backend has them, what is shown as synced is, cursors skip nothing, devices
  converge, refused changes come before the owner.
- *Backup*: what is restored is completed by a later pull, nothing is sent while
  the gate is set, and sync resumes.
- *Backup backend*: every row has its complete object, an acknowledged backup is
  listed and served, an account sees its own backups only, the rate limit holds.
- *IAP backend*: a token is granted what Apple granted to it, an answer is true
  of some moment of its request, and a row overwritten by an older answer heals.
  What Apple's list says does not depend on which environment was asked first or
  on failures of the other one.
- *Books*: no project has two write-offs; a settled one is covered by payments and
  write-off unless it was changed without being judged, or judged with stale numbers.

## 2. Modules

| Module | Models | Depends on |
|---|---|---|
| `SyncServer` | `SyncStore.push_changes`, `pull_changes` and the threads of the HTTP server | - |
| `PushLog` | what that store promises: a log, a batch judged in one step | - |
| `SyncServerLog` | that `SyncServer` implements it: the refinement mapping | `SyncServer`, `PushLog` |
| `SyncServerProofs` | theorems about `SyncServer` and `SyncServerLog` | `SyncServerLog`, `TLAPS` |
| `RequestGate` | version gate, authentication and device registration before the store | - |
| `RequestGateProofs` | theorems about it | `RequestGate`, `TLAPS` |
| `OutboxPlanner` | folding, grouping, ordering and validation of listed rows, as operators | - |
| `GroupPush` | enqueueing transaction groups and pushing them | `OutboxPlanner` |
| `GroupPushProofs` | theorems about it | `GroupPush`, `TLAPS` |
| `DeviceStore` | what each transaction does to a device's database, as operators on a record | `OutboxPlanner` |
| `CloudSync` | several devices, the backend as one log, the network | `DeviceStore` |
| `LogReplica` | what a device that only pulls is: a reader of a log, row by row | - |
| `CloudSyncReplica` | that `CloudSync` implements it: the refinement mapping | `CloudSync`, `LogReplica` |
| `CloudBackup` | export, upload and restore beside `CloudSync` | `CloudSync` |
| `CloudSyncProofs` | theorems about the three | `CloudBackup`, `CloudSyncReplica`, `TLAPS` |
| `CloudBackupBackend` | the backup backend: object store, metadata table, rate limiter | - |
| `CloudBackupBackendProofs` | theorems about it | `CloudBackupBackend`, `TLAPS` |
| `EntitlementStore` | the IAP verification backend and Apple | - |
| `AppleLookup` | what the IAP backend makes of Apple's payloads and lists, as operators | - |
| `EntitlementLookup` | what Apple sends for a subscription, and the verdicts expected on it | `EntitlementStore`, `AppleLookup` |
| `EntitlementStoreProofs` | theorems about the store and the lookups | `EntitlementLookup`, `AppleLookupProofs` |
| `AppleLookupProofs` | theorems about them | `AppleLookup`, `TLAPS` |
| `ProjectLedger` | timing records, rates, payments, write-offs, merge groups, settled status | - |
| `ProjectLedgerProofs` | theorems about it | `ProjectLedger`, `TLAPS` |
| `MC*` | small instances for TLC | the module of that name |

### SyncServer

`changes[a]` and `heads[a]` are the committed tables of account `a`; `writer`,
`wrows` and `wheads` are the one open write transaction, which SQLite allows
because of `BEGIN IMMEDIATE`. A request thread has a place (`pc`), its account, the
rest of its batch and the answer collected so far. `ReceivePush`, `RejectBatch`
(413), `RefusePush` (400, 429) and `BusyTimeout` (500: the lock was not
free in time) come before the transaction; `BeginImmediate`, `PushDuplicate`,
`PushConflict` and `PushAccept`, one change each, are the loop of `push_changes`;
`CommitPush` and `RollbackPush` end it; `ServePull` is the single SELECT of a pull;
`Finish` ends the thread and `Crash` the process. A payload is only its hash:
the backend stores it verbatim and compares nothing else. A pull is one step,
because it is one SQL statement on one connection.

`PushLog` is the abstract specification: no tables, numbers, heads or transactions, only a
sequence per account, a push that is judged as a whole in one step (`Outcomes`: one
`Consider` after the other over the batch) and a pull that is a stretch of the log. `SyncServerLog` adds one
history variable, `batchOf`, the batch a thread works on, since the loop consumes it,
and instantiates `Log == INSTANCE PushLog WITH ...`: the log is the committed rows in the order of
`server_seq`, a push is asked for until its thread is done, an answer is the reply.
`ImplementsLog` then says that the whole loop with its lock is that one step, at the commit.

### RequestGate

`load_policy` of `config.py` is `Stat`, `Compare`, then `UseCached`, or `ReadFile`, `NoteMtime` and
`NotePolicy`: each line that touches the file or one of the two module variables is a
step, because threads share them without a lock. A version below the minimum is 426.
The `Authenticator` tries development tokens, then the signed token, then the account service
(`FromDevTokens`, `FromJwt`, `AskService`, `ServiceAccepts`, `ServiceRefuses`,
`ServiceDown`, `RefuseToken`); which of them are configured is `conf`. After that a request is
`SyncServer`'s (`Serve`) or registers a device: `ReadTime` and `WriteDevice` are separate,
as in `register_device`. `Tick`, `SessionChanges`, `WriteFile`, `RemoveFile` and `Restart`
are the world: the clock, logins, operators at the policy file, the process.
`vouched[h]` collects the accounts the authorities named for the token of request `h` at any
moment since it came, `doubted` the requests for whose token no authority named one at
some moment, and `raced` notes that two threads wrote the cache at once; they are history.

### OutboxPlanner and GroupPush

An outbox row has its creation order, its entity, its operation and either a
group with a `local_sequence` or neither. `Folded`, `SendGroups`,
`GoesBefore` and `Invalid` are the functions of the planner file over the set of
listed rows. In `GroupPush`, `Enqueue` commits a business transaction with all its
rows; `ListPending` takes the due rows up to the limit, any subset of the rows that
failed before being still in backoff; `DropFolded`, `NextGroup`, `FailGroup`,
`MarkInvalid`, `SendOk`, `SendFails`, `Acknowledge`, `GroupDone` and `PushDone` are the steps of
`_pushLive`, each `await` being a step (an invalid group is marked row by row); `Kill` ends the
app. What the server holds is `accepted`; a failing send may or may not have reached it. The server
knows a row it has by its identity here, where the backend compares entity and payload hash:
what comes of two changes with one payload is `sync_revert`'s question.

### DeviceStore and CloudSync

A store is a record of the tables. Each operator is one SQLite transaction of the
app, so that `CloudSync` can interleave them: `FetchPage`, `FetchFails`,
`ReadMeta`, `Merge` and `PullDone` for `pullPending`; `ListPending`, `DropFolded`,
`Send`, `Answered`, `NoAnswer`, `RecordFailure`, `AckDelete`, `AckMeta`, `AckReadCursor` and
`AckWriteCursor` for `_pushLive` and `_send`; `Create`, `Save`, `Discard`,
`TakeRemote` and `TakeLocal` for the owner; `Kill`, `Start`, `ServeLate` and
`LoseLate` for the world. A killed device is `dead` until it is started. `run[d]` is what the running isolate has in memory and loses when
killed. The backend is the log alone: that pushes are atomic and numbered without
holes is what `SyncServer` and its theorems establish, which is why a request is
one step here.

Two fields of a logged change, `by` and `at`, are history for the properties: the
request carries neither. For the same reason the branch of `pullPending` that skips
own changes is left out: it needs an `origin_device_id`, which the push body
never has, so that it cannot be taken against this backend.

`LogReplica` is the abstract specification of a device that is not in `Writers`, so that the owner neither
edits records nor settles conflicts on it: a log to which rows are added, and readers that
go through it, one row a step, taking each row or setting it aside, the latter only if it
brings back an entity deleted before. There are no runs, pages, versions, hashes or lost
answers. `CloudSyncReplica` maps the cursor to the place in the log, the records to
what the reader holds and the parked conflicts to what it set aside; `Merge` on a reader is the
one step that is seen.

### CloudBackup

`Export`, `ReadCursor` and `ReadConflicts` are the three places where `uploadCurrent`
reads the database (tables, cursor, earliest pending conflict), with an `await` between any
two; `Upload` follows after size check, key and encryption, and `UploadFails` may end it
anywhere. Syncing, editing and resolving go on between these steps. `Restore` is the
one transaction of `restoreFromDecodedJson`, at any moment of a running sync. The
envelope is the business table and a watermark, or none for an old backup.

### CloudBackupBackend

`objects` is the object store and `rows` the table `backups`. `PutBegins` and
`PutEnds` are `put_text`: a file store has an incomplete object between them.
`PutFails` leaves any content, because an error answer of a store does not say what
it did; `InsertRow`, `InsertFails` and `CleanUp` follow in the order of
`create_backup`, and `AnswerCreated` is the 200. `ListRows` and `FindRow` are the two
SELECTs, `GetObject` the download with the checks of what was stored. `ReadClock` and
then `Limit` or `Admit` stand before every request: `rate_limit.py` reads the time
before it takes its lock. `Crash` loses the threads and the limiter, not the stores.
`acked`, `admitted` and `before` are history.

### EntitlementStore

`apple` is the subscription Apple knows of each token and changes by itself
(`AppleChanges`); `store` is `iap_entitlements`. `Verify` and `Current` are the two
endpoints; `VerifyMaps`, `VerifyFails`, `RefreshMaps` and `RefreshKeeps` are the
outcomes of asking Apple, `AppleDown` the lack of an answer, `Upsert` and
`UpsertFails` the write. A row without a transaction id or an environment, as
`verification_failed_record` makes it, cannot be refreshed: `known` is that fact.
`during` collects the states Apple was in while a request ran and is history, as are
`bought` and `granted`.

Apple's answer is one of a few states there. `AppleLookup` is the code between the
two, `apple_verifier.py` from the signed payload of the request to the row: `VerifyTransaction` tries
Sandbox and then Production, where a retryable failure of one is only reported when the other
did not decide; `MapBestStatus` goes through the list, stops at the first item
that raises and takes the latest of the candidates; `MapState` maps the status, with the
end of the grace period from the renewal; `VerifyPurchase` and `RefreshCurrentEntitlement` are the two
entries. A signed payload that lacks a field raises inside the attempt and comes out as
unavailable, like any other exception.

`EntitlementLookup` ties the two. A transaction and a list of statuses are what Apple sends for a
state of `apple` (`Carries`, `Lists`) if every item is signed for the token and its product, and the
state is that of the latest item; `LookupAgrees` says that on these, whatever fails, the verdict of
`AppleLookup` is the one the store's actions take, or unavailable. `MCEntitlementStore` gives
TLC lists with a lapsed subscription of the same product before or after the current one.

### ProjectLedger

`record`, `rate`, `received`, `off`, `settled` and `group` are the tables, with a project's payments and
write-offs as sums; `settled_at` and `settled_snapshot` are written with the status and carry
nothing else. Each action is one transaction of a use case: `Settle`, `SettleMerged`,
`DeleteWriteOff`, `DeleteMergedWriteOffs` and `RevokeSettlement` of the settlement repository,
`WritePayments` of the payment use case (single and merged), `ExecuteSave` and `DeleteRecord` of the
timing use cases, `CreateGroup` and `DissolveGroup` of the merge service, `ChangeRate` of the device
and rate stores, `ApplyRecord` and `ApplyProject` of a pull. What they decide with but read earlier
is state: `seen`, the receivables in the dialog the owner looks at (`Open`); `ed`, a save
between `prepareForSave` and its transaction, with the rates it read; `joining`, a merge that was
checked and not yet created. `unjudged` is history: the settled projects whose last change was not
judged, or was judged with numbers that were not true any more.

Three simplifications. The merged settlement's check of the whole against the total on the screen is left
out, which only allows more; each member is checked in the transaction, as in the code.
External work is not a trace of a project here (`Traced`). One merge group is active at a time.
The outbox rows of these transactions are `GroupPush`'s.

## 3. Runs

| Run | What it shows |
|---|---|
| `server` | Two threads push and pull on two accounts, with rollbacks and deaths of the process: numbering without hole or duplicate, version chains, heads that agree with the log, complete pages, acknowledgements of committed rows only, an append-only log, an answer to every push; seen from outside, the abstract log `PushLog`. Deadlock is checked. |
| `requests` | Two threads run through the version gate and the authorities while the policy file is rewritten or removed, tokens expire, sessions change and the process dies: accounts are vouched for, 401 is honest, an unraced cache is the file's. Deadlock is checked. |
| `group_push` | Through failing sends, lost answers, kills and a limit that cuts a history: no committed row is lost, no row of a transaction arrives without all rows before it. |
| `group_fold` | *violation.* An entity stays alive at the server although its owner deleted it. |
| `sync` | Two devices edit one record, conflict and resolve; one uploads and the other is restored between any two steps of a run. Nothing is ahead of the backend or wrongly shown as synced, only a restore drops local changes, no upload covers what is parked. |
| `sync_reader` | One device edits, one reads; requests get lost or arrive late, apps are killed. The reader takes the log row by row (`LogReplica`), mirrors it up to its cursor and gets to its end; the writer's outbox empties, and no change leaves it unlogged. |
| `sync_skip` | *violation.* The cursor passes a change that was never pulled. |
| `sync_revert` | *violation.* Devices differ for good after a record went back to an earlier content. |
| `backup_stale` | *violation.* A snapshot older than its watermark. |
| `backup_backend` | Two threads over two stores, any of which may fail, with deaths of the process and a rate limit of one. |
| `entitlements` | Two threads verify and refresh one token while its subscription changes; Apple's lists, however ordered and whichever environment fails, give the verdicts the store takes. |
| `ledger` | Two projects and two records: dialogs, saves and merges that read before their transaction, beside payments, rates, pulls, deletions and a merge group. No second write-off, no settled project with something left unless a change was not judged. Deadlock is checked. |

### Bounds

- `server`: two threads are enough for every race, since only one holds the write
  lock and a third can only wait for it as the second does. Two accounts, because
  numbering is per account; two entities, so that an entity's versions and the
  account's numbers differ. `MCBatches` has a plain create, a chain within one
  batch, a batch of two entities with a stale base, and a batch beyond `MaxBatch`.
  The log is bounded by itself: two hashes and two entities give at most four rows.
- `requests`: two threads, because what goes wrong with the cache takes one thread
  between the other's two writes. One token, which every authority may know under an account of its
  own; the two configurations have each pair of neighbours in the order of the authorities.
  `MaxClock` 1 lets a token expire during a request. `MaxWrites` 2 is the first
  policy file and one that replaces it; every write raises the modification time
  strictly, which two writes in one tick of a file system's clock would not.
- `group_push`: four transactions in any order the rules allow, with `Limit` 3 below
  the six rows they write, so that a snapshot cuts the history. Row ids are
  `10 * n + i`, which needs fewer than ten rows in a transaction.
- `group_fold`: the life of one record, ungrouped: a create, an update and a delete.
- `sync`: one record, two bodies, three edits, resolutions or restores: enough for a conflict
  and its resolution, with another edit or a restore beside it. Ids are small because a conflict needs
  two devices at one record. Both devices edit, one uploads and the other is restored; the cloud
  starts with a backup from before watermarks, so that both kinds of envelope are restored. Kills
  and lost requests would take the run beyond what can be enumerated. They are in `sync_reader`, with one device that edits, and
  the theorems on the same properties have all of it at once.
- `sync_reader`: two records and pages of one row, so that a pull takes several
  runs; two edits (`MaxSaves`), of which one may be a delete that is pushed before the create: that is how
  the reader comes to set a row aside. A third choice (`MaxEdits`) is left for settling a conflict,
  which the writing device may have with a late change of its own. `MaxLate` 1 keeps one given-up request on its way.
- `backup_backend`: `MaxClock` 2 with a window of 1 passes more than one window; two
  ids let one creation fail and one succeed. `LimitHeld` allows one request more per
  thread than the limit: stamps read before the lock are put into the window late
  and pruned early. The instance reaches the limit plus one.
- `entitlements`: `MaxChanges` 3 is a purchase, an upgrade and its end; `MaxVerifies` 2
  with two threads is what one thread needs to overwrite the other. The lists of
  `LookupAgrees` have up to two items, as many as decide an order.
- `ledger`: two projects and two records of one hour each, so that a record can move, a last one
  can be deleted and a project can have two; rates 1 and 2, so that a rate read
  before its change gives another amount; `MaxFen` 1, so that a payment, a write-off or both cover a
  project at one rate and not at the other; one merge group; `MaxFlows` 2, because the races are between
  two of dialog, save and merge. `Quantity` counts records (`MCQuantity`). A group that
  loses a member and remains needs three projects: that branch is left to the proof.

`CHECK_DEADLOCK FALSE` stands where the owner may stop editing and everything is
pushed, or a counter is at its bound.

### What the violations say

- `sync_skip`. `_send` writes the acknowledged `server_seq` as the pull cursor,
  although other devices' changes below it were not pulled. `sync_reader` shows
  that a device that does not push skips nothing.
- `group_fold`. The server has the create of a record, but the answer was lost or the app was
  killed before `deleteAcknowledged`, so the row is still pending. The owner deletes the
  record; the next push finds a create and a delete, drops both as what "the server NEVER saw"
  (`sync_repositories.dart:53`), and the record stays alive at the server and on the other devices. A
  create that backs off while a later update is sent and accepted ends the same way.
- `sync_revert`. A change back to a content the entity had before has the hash of an
  old row; the backend takes it for a retry, answers "accepted" and logs nothing.
- `backup_stale`. `uploadCurrent` reads the tables first and the cursor later; a
  pull between the two makes the watermark cover what the snapshot lacks.

Formulas that were written, refuted by the models and given up or weakened, because
no run has room for them or no line of the repository promises them, but worth knowing. Those
with a name are definitions; put into the INVARIANTS of their module's cfg, TLC shows the trace.

- `LegalNeverFailed` (`GroupPush`): a failed row waits for its `next_retry_at` while the other rows
  of its group do not. They are listed without it, have a gap in `local_sequence`, and
  `markTerminalFailed` fails them for good, which `sync_manager.dart` and
  `sync_repositories.dart` keep for corrupt metadata. `LIMIT` may cut a group between two
  lists with the same end; `Limit = 6` excludes that, so that backoff alone is to blame.
- `GrantCurrent` (`EntitlementStore`): a refresh looks for the stored row's product among Apple's
  answers; when the subscription moved to the other product it finds none and answers
  with the row as it is, active or not, for as long as nobody verifies again.
- `GateCurrent` (`RequestGate`): two threads that read the policy file before and after its replacement and write
  the cache at once leave the old policy under the new time, and the new minimum is not enforced
  until the file changes again. `docs/architecture/app-version-update-design.md` leaves the
  enforcement to this 426. `CacheTrue` is what remains: without such a race the cache is true.
- `last_seen_at` of a device may go back: `register_device` takes the time before it writes.
- A merged settlement that covers the whole settles members with nothing to receive, although
  `business_rules_v1.md` says that an empty project cannot be settled.
- A settled project may become a member of a new merge group, and a project may be settled
  while the check of its merge is waiting: the check is outside the transaction.
- A payment of a settled project may be lowered, and its rate raised, without the status being
  judged: `SettledJustified` has `unjudged` for these.
- `NoneSetAside` (`CloudSyncReplica`): a delete is sent while the create or an edit of the same record
  still waits for its `next_retry_at`, since only due rows are listed, ordered and folded. The device then
  pulls its delete, and the older row goes out on top of it: the log has the deleted record again,
  and every device that reads it parks a conflict, with a single device editing.
- A save between the reading of a meta row and the transaction that applies the
  pulled change is overwritten in the table; its outbox row stays.
- A device pulls its own changes back when its cursor was not moved, and with a newer
  edit of the record it parks its own change as a conflict. The body of a push has
  no device id that would tell.
- A push that is refused for its base is retried; the owner sees a conflict only when
  the other change is pulled, which `sync_skip` may prevent.
- The push gate is read once per run: a restore in the middle of a push lets the rows
  in hand out, and nothing in `lib/` clears the gate again.
- `RestoredMirrors` (`CloudBackup`): a restored device that nothing is edited on holds the log up to its
  cursor. That fails in two ways. A backup without watermark leaves the cursor of the device as it
  was, although `cloud_backup_service.dart:236` expects it to be 0 ("游标保持 0,下次 pull 从 0 全量重放"), so the
  changes between the backup and that cursor never come back. And a restore in the middle of
  a pull does not stop it: the rest of the page in hand is applied to the restored tables and
  moves the restored cursor past the changes between the watermark and that page, where
  `sync-transport-design.md:78` has the device catch up from the watermark. To see it, let only `d1` edit,
  start both devices with `MCEmpty` and the cloud with a backup of empty tables: without watermark for
  the first way; with watermark 0, two ids and pages of three rows for the second.
- A failed put or a failed cleanup leaves an object without a row. Nothing removes it.
- A failed verification overwrites an active row of the token, with its transaction
  id, so that no refresh can bring it back; `Heals` excludes such rows.

## 4. Fairness

- `SyncServer`: weak fairness of a thread's own work. Threads are scheduled by the
  system; nothing is assumed of arrivals, refusals, exceptions or deaths.
- `CloudSync` (`RunsGoOn`): a run's own steps go on (weak); runs are started again and
  again by app start, resume and the owner, and not every request fails (strong
  fairness of `FetchPage`, and of `Answered` where there is something to send: a failing attempt
  disables them in between); the app is killed only finitely often, since a device whose app is
  killed in every run promises nothing. `RowsComeDue`: backoff is capped, so that the oldest row of an
  outbox is due now and then when a run looks. Neither says anything of the owner, of late requests or of
  resolutions: `Drains` has the pending conflict as an alternative for that reason, and
  a device that fell behind its own change as another, because the code has no way out.
- `EntitlementStore`: threads finish (weak); for each token the app asks at every start,
  and neither Apple nor the database fails for ever (strong, per token).

`ImplementsLog` has no liveness of its own: what a push must come to is
`PushAnswered`. The other modules have safety properties only.

## 5. Proofs

| Theorem | Says |
|---|---|
| `SyncServerProofs`: `TypeCorrect`, `LogCorrect`, `HeadsCorrect`, `PagesCorrect`, `AcksCorrect`, `LogAppendOnly` | the invariants and `AppendOnly` of `server` |
| `SyncServerProofs`: `LogImplemented` | `SyncServer` implements `PushLog`, for batches of any length |
| `CloudBackupBackendProofs`: `TypeCorrect`, `RestorableCorrect`, `ListCorrect`, `DownloadCorrect`, `LimitCorrect` | the properties of `backup_backend` |
| `EntitlementStoreProofs`: `TypeCorrect`, `GrantOwnedCorrect`, `GrantTrueCorrect`, `LookupAgreesCorrect` | the properties of `entitlements` save liveness |
| `EntitlementStoreProofs`: `VerdictsAgree` | `LookupAgrees` for every request beside any others |
| `RequestGateProofs`: `TypeCorrect`, `ServedVouchedCorrect`, `RefusedHonestlyCorrect`, `CacheCorrect` | the properties of `requests` |
| `AppleLookupProofs`: `PurchaseNeutral`, `RefreshNeutral` | trouble at Apple changes a verdict to unavailable or not at all, for lists of any length |
| `AppleLookupProofs`: `CandidateGrant` | a granting row is made of a payload Apple signed for this app, token and product, not revoked, active or in grace |
| `ProjectLedgerProofs`: `TypeCorrect`, `BooksSoundCorrect` | the properties of `ledger` |
| `GroupPushProofs`: `TypeCorrect`, `NothingLostCorrect`, `GroupOrderCorrect` | the properties of `group_push` |
| `CloudSyncProofs`: `TypeCorrect`, `NeverAheadCorrect`, `SyncedIsLoggedCorrect`, `ChangesKeptCorrect`, `ReaderMirrorsCorrect` | the properties of `sync_reader` save liveness, and its types |
| `CloudSyncProofs`: `ReplicaImplemented` | devices nothing is edited on implement `LogReplica`, whatever they start with |
| `CloudSyncProofs`: `BackupTypeCorrect`, `NeverAheadWithRestores`, `SyncedIsLoggedWithRestores`, `KeptUnlessRestoredCorrect`, `ParkedNotCoveredCorrect` | the properties of `sync`, with uploads and restores |
| `Invariance` in each of the state machines, `BackupInvariance` for `CloudBackup` | the inductive invariant `IInv`, `BackupInv` |

They hold for every number of threads, accounts, entities, hashes, ids, tokens and
states, under the assumptions the modules name: batches are sequences of changes,
limits are numbers, a page holds at least one row, states are subscriptions, `None` is
none of the values it stands beside, what no record amounts to is 0, a business transaction
writes fewer than ten outbox rows (`RowOf` numbers them), there are finitely many request
threads where they are counted (`HandlersAssumption`), devices start without sync
metadata, envelopes that are there before the first push have no watermark or that of an empty
log (`CloudBackupAssumption`), the dates and ids in Apple's lists are numbers (`ListsAssumption`) and the
troubles those `AppleLookup` knows (`FailuresAssumption`), and, for `ReaderMirrorsCorrect`, readers start empty (`FreshReaders`). `ReplicaImplemented` does not need
that, only that no body is the absence of one (`BodiesAssumption`).

*SyncServer.* The properties speak of committed tables, but a push works on a view of
its own, so they are not inductive. `IInv` says of the open transaction's view what the
properties say of the tables, and that the view adds rows at the end of the log its
account has; the write lock makes "the log its account has" unchanged until commit.
Answers under way are of the view, answers given of the tables. Pages stay complete
since every new row has a larger number than all there are.

`LogImplemented` needs what a transaction has come to halfway through its batch. `LInv` says it:
the view as a log and the answer collected so far are `Outcomes` of the part of the batch
that is done (`PushOK`), where a row's version is the number of entries its entity has up to it
(`Numbered`, which the tables store and the abstract log counts). Each of `PushDuplicate`, `PushConflict`
and `PushAccept` is then one more `Consider`, so that the commit is the abstract `Push`; a
rollback, a refusal and a death are `Refuse` or `Crash`, and the rest stutters. `Outcomes` is a
recursive function; that it has the values its recursion says (`OutcomesAre`) follows from the
well-foundedness of the numbers, so nothing is assumed of the batch but that it is a sequence of changes.

*CloudBackupBackend.* Nothing spans the two stores, so the argument is about the thread
between them: a key between put and insert belongs to one thread (`Apart`), has no row
yet, and at the insert its object is whole (`ThreadOK`). A failure, a cleanup or a
death can then only touch an object without a row.

The limiter is another argument. A request let through at a time of the clock is recorded at the time
its thread read, which may be earlier. For the window that begins at `t`, `Remembered` compares the
requests let through from `t` on with those recorded from `t` on: while the window lasts no prune
reaches it, and the two differ only by threads that read the clock before `t` and took the lock
after it. The number of these and of the threads that may still do so (`Late`) is bounded by the number of
threads, since who reads the clock from then on is not late. Sums over time are handled by lemmas on
`Total` (it is monotone, one more stamp is one more), from a set-based induction on times
(`TimesInduction`).

*EntitlementStore.* Threads overwrite each other, so nothing can be said of a row being
recent. What does hold is stable: what a thread carries was granted to that
token once (`Earned`), and Apple was in that state while the request ran (`Witnessed`).

*RequestGate.* The authorities are asked one after the other while tokens expire and logins end, so
`IInv` says for every place of a thread what it knows (`Judged`): a token that the
development tokens and the secret refused stays refused by them, because time only runs on, so that the service's
refusal is a moment at which nobody vouches; a thread that read the file with the time
it goes by has the file's policy. `Alone` says that without a race the time in the cache
is that of the one thread between the two writes, `Times` that no time in the cache is ahead of
the file's.

*AppleLookup.* From one attempt to one item to the list: a failure of one environment is
reported only when the other did not decide; a list is decided by its first error, of which a failure
adds an earlier one, that is then unavailability, and takes none away. The first error of a list of
any length exists by the well-foundedness of the numbers. `VerdictsAgree` has the rest from
there: a verdict is unavailable or that of a calm Apple (`SpoiltOrQuiet`), and then every item of a list is a
candidate or passed over (`QuietItem`), so that the latest one decides (`BestIsLatest`,
`QuietLookup`). `LookupAgrees` looks at a thread only while the others are idle, which spares TLC work and
is no condition of the theorem.

*ProjectLedger.* `IInv` is `BooksSound`, the types and `EmptyOff`: a project whose count of write-offs is
0 has none of their money either, which is what lets the count that a transaction checks
bound the sum it decides with. Lemmas say what a receivable depends on: its own rate, by which it
grows, and its own records. Then it is one lemma for each action.

*GroupPush.* The loop works on rows as they were listed, and the table moves on. `IInv` ties
the two: every row enqueued is in the outbox, at the server or dropped (`Kept`), a listed group is of
enqueued rows of one transaction (`Listed`), and what goes
before a row of the group in hand is still in it or at the server (`Sending`, `Acked`). A group that passed
validation has no gap, so it has all rows the transaction numbered below its last; together
with the break after a failure that is `GroupOrder`.

*CloudSync.* The log only grows, so that what was read of it stays true (`Grows`, `InformedKept`,
`AwareKept`): pages in hand, parked conflicts and the row behind an acknowledgement are rows of
the log, and the version of a row is the number of rows its entity had then (`LogOK`). Every version a
device stores is copied from one of these, which is `NeverAhead`. A reader has nothing in its
outbox, so its cursor moves by merging only, and the page in hand is what comes next
(`Follows`). Its stored versions are not beyond the rows of the entity up to the cursor, which rules out
that the next row is taken for one applied before, nothing of it is dirty, and what it has as deleted the log
deleted: so the next row is applied, or it is parked because it brings something back
(`MergeFollows`). That is `ReplicaImplemented`, and `ReaderMirrors` follows from what one row
changes of the contents (`NextContent`).
`SyncedIsLogged` is about writers: a record is always what the hash beside it says (`Made`), and that
hash is of a logged row, of the row queued last or of a pending delete (`Settled`). An acknowledged
row is in the log before it leaves the outbox, and a row that is folded away without that leaves a later
one of its record behind, unless it is the delete itself; for this the rows in hand have to be
those of the outbox (`InStep`). The same facts give `ChangesKept`: of all steps only an
acknowledgement, a fold and the owner's taking the remote side take a row from the outbox, and every other one keeps
each row's id.

*CloudBackup.* `BackupInv` adds that the envelope in the cloud and the cursor an upload has read are not beyond
the log, which only grows. A restore gives a device such a cursor, no metadata and an empty outbox, which
is what `IInv` asks for, whatever run it falls into: that run's rows, page and answers are still of the log. `ChangesKept`
does not hold of the device that is restored, whose outbox is emptied by design; of every other
it does (`KeptUnlessRestored`), because the steps of an upload touch no device.

`ParkedNotCovered` is about three readings that are not one. A change may be parked, and another
resolved, after the conflicts were read and before the envelope goes up; nothing in `uploadCurrent`
excludes it. What saves the watermark is the order of the log: the page in hand goes on exactly from
the cursor (`Onward`), an acknowledgement writes a cursor only if it is larger, so that the cursor climbs and
whatever is parked is beyond the cursor it was parked at (`Climbs`); a change parked after the upload
read the cursor is then beyond what it read (`Safe`). `PInv` says this of each device that uploads
and is not restored, on top of `BackupInv`, and every step of sync keeps it (`OnwardNext`). A restore
rewinds the cursor and leaves the page in hand, after which neither `Onward` nor `Climbs` need hold: that is why the
restored devices are excepted.

Model-checked only: liveness (`PushAnswered`, `ReaderCatchesUp`, `Drains`, `Heals`), which the prover does not reach.

## 6. Not modelled

- Operation tokens and the assistant's workflow: a claim is one guarded UPDATE in the
  transaction of the write it pays for, so that nothing can come between; the workflow around it
  (`executeWithToken`) has no caller in `lib/`.
- External work, fuel and the creation of projects in a save, several active merge groups:
  left out of `ProjectLedger`. `GroupPush` and `CloudSync` take the rows they enqueue as given.
- A JWT whose header or payload is JSON but no object (`auth.py:131`), which ends in a 500, is no token of
  `RequestGate`; 401 and 403 of the account service count as its refusal there, as in the code, although it
  also gives them for the backend's own bearer. In `AppleLookup` a transaction id is its place in
  the order of strings that `transaction_sort_key` compares by.
- Dry-run pushes: they change no table. Entity types without an applier: the cursor
  moves past them by design. Foreign keys at apply time: listed as a hazard.
- Encryption, envelope formats, share files, migrations: conversions and sequential
  code, tested by example. Login and the app's half of the version policy: decided outside the
  repository, or a cache of one value. User interface: presentation.
- The authentication of the backup backend: it is the code `RequestGate` models. The IAP backend
  has none, it validates the shape of a request. The limiter of the sync backend is the same sliding window
  as the one in `CloudBackupBackend`.

## 7. What is left

1. `LogReplica` with restores, which take a reader back to a watermark with the records of a backup.
2. One log for `CloudSync` and `SyncServer`: what `CloudSync` takes for granted of the backend is what
   `ImplementsLog` shows, but the two are put together by reading only.
3. Stale conflict screens in `CloudSync`, and foreign keys at apply time, with the tables of
   `ProjectLedger` in the place of the one business table a device has there.
4. Several merge groups and external work in `ProjectLedger`.
