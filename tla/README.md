# LibreSync in TLA+

LibreSync is a Rust library that keeps the data of one application the same on
several devices of one user, without a server. This directory holds TLA+ models
of the parts of it in which threads, processes and devices interact, the TLC
configurations that check them on small instances, and proofs, checked by the
TLA+ proof system, of what holds for every instance.

Paths below are relative to `src/crates/libresync/src/` unless they start with
`docs/` or name another crate. `PROJECT.json` maps each definition to the lines
it stands for.

## 1. The system

| Component | State | Operations | What is hard | What makes it correct |
|---|---|---|---|---|
| Replicated state, `state.rs` | entries with Lamport clocks, apply sequence, origin of each entry, epoch, cursor into each peer's history | local write, apply, delta, cursors, save and load | a cursor stands for a whole prefix of another device's history | a delta never leaves out what the receiver lacks; nothing held is replaced by less |
| Delta exchange, `sync.rs` | a connection with a message in flight | client and listener side of protocols 1 and 2, cancel | state lock released between export and merge; loss at any point; crossing exchanges | as above, and convergence |
| Record merge, `record.rs`, `logical.rs`, `session/adapter.rs` | records with a stamp per field, tombstones | set, delete, import, merge, compact | edits of one record on two devices, policies that merge in the order of arrival | no merge leaves two devices apart for good |
| Event queue, `engine.rs` 137-345 | channel, `signaled`, wake pipe, waker | emit, poll, wait, drain | flag, byte and queue change in separate steps | nobody sleeps on a queued event |
| Background engine, `engine.rs` 1206-1506 | command channel, cancelled set, current token, thread | submit, cancel, cancel_current, shutdown | cancel against take-over of a command | what is queued finishes, only what was cancelled is cancelled, shutdown returns |
| Engine, `engine.rs` 547-1109, `adapter.rs` | state, state file, adapters and their caches | sync, watch, auto refresh, listen | load, exchange and apply under separate locks, users that edit the file meanwhile | the file shows what the state holds; no edit is taken back |
| SQLite files, `adapter.rs` 560-1000 | main file, page delta and log, an entry each | load, tick, apply | three parts of one database are merged and written separately | a database is one its user saved |
| Session lifecycle, `session/network.rs` | phase, generation, runtime, operations, peer states | start, pause, shutdown, pause, resume and remove a peer | stop races accept, scheduling and a second stop | stop leaves nothing running, a removed peer is fenced |
| Managed exchange, `session/network.rs`, `session/receipt.rs` | records, revision, per-peer receipts, pending preview | hello, export, receive, consent, acknowledge, remove, repair | answers lost, proofs late or from an earlier enrollment | nothing stops being pending before the peer holds it; no merge without consent |
| Session journal, `session/mod.rs`, `session/store.rs`, `lease.rs` | envelope in memory and on disk, lease, fence | open, mutate, two-phase transaction, recovery | failed saves, kills and power loss between file operations | what was acknowledged survives; an uncertain save is not built upon |
| Secure pairing, `pairing.rs`, `session/pairing.rs` | invitations, preparations, trust, group key | invite, claim, prepare, commit on each side, recover, repair, remove | either side fails after the other committed | inviter first, single use, one key per enrollment, recovery, removal |
| Legacy linking, `sync.rs`, `engine.rs` 623-654 | pins, app keys, a request waiting for approval | link, approve, unlink, replace a certificate | two links at once, answers lost, a listener with its old certificate | devices that linked last can sync |
| Companion, `companion.rs` | registry of spaces, one session each, backups with their key | open, add, pause, resume, remove, archive, backup | uncertain registry saves beside running sessions | registry and sessions agree, a removal stays, the last backup is kept |
| Backup, `backup.rs` | snapshot files | create, restore, prune, re-encrypt | failure half way | no snapshot becomes unreadable |
| Key store, `keystore.rs` | an item for the app key, one for the certificate, one for its private key | load or make | items stored by separate calls, several processes, a locked store | one key, matching pairs |
| Command line, `libresync-cli` | configuration, state file, snapshots, pid file | a process per command, a listener, a watch | kills between two files, processes that keep a copy | the key opens the files, what is stored stays |
| C interface, `libresync-ffi` | engine handle and its tickets, table of sessions, callbacks | create, sync, cancel, free; open, call, subscribe, close | free and close while calls are under way on other threads | a running sync is found and announced, a callback's context is released last |
| SQLite logical adapter, `sqlite_logical.rs` | the application's table, a sidecar table with clocks and tombstones | load, apply | the application writes its table and does not know the sidecar | tables that have nothing left to exchange agree; no row goes back to what it was |
| Discovery, `discovery.rs` | announced and found services | announce, browse | threads of the mDNS library | - |
| Cryptography, `keys.rs`, `crypto.rs`, `device.rs` | - | seal, open, fingerprints | - | - |
| Swift and Kotlin bindings, always-on app, demos | handles | calls of the above | - | - |

How they interact: an `Engine` owns a `State` behind one mutex, which its sync
clients, its listener threads and its adapters lock in turn; it reports through
the event queue. A `BackgroundEngine` runs an `Engine` on a thread of its own, and
the C interface shares a locked one with tasks. The command line runs an engine
per process over files. A managed `Session` does not use `Engine`: it keeps
everything in one encrypted journal (`Inner::mutate` is the only writer), and its
scheduler and inbound workers exchange batches of records, pair devices and
recover interrupted pairings through it. Applications edit through
`import_records` and take over what arrived with `application_inbox` and
`acknowledge_inbox`. The companion and the bindings drive sessions.

## 2. Modules

Each module is one component; its actions are critical sections of the code, so
that everything that can interleave in the code interleaves in the model.

**DeltaSync** (`state.rs`, `sync.rs`). `held`, `seq`, `seqOf`, `origin`,
`counter`, `epoch` and `cursor` are the fields of `State`; a value is reduced to
the clock of the write that produced each of its fields, with the epoch it was
drawn in as a third part: a recreated state draws clocks again, so two contents
may have one clock, which no comparison of the code can tell apart. `conn[s]` is a
connection and the one message in flight on it. `SendSince`, `ListenerExport`,
`ClientMerge` and `ListenerMerge` are the four lock sections of a protocol 2
exchange, `PushSnapshot` to `MergePulled` those of protocol 1, `Drop` the end of
a connection at any point, `Set` a local write, `ResetPeerCursors` and
`Recreate` what the API and a deleted state file do. `Applier` selects
last-writer-wins (`apply_entry`) or the field-level merge (`merge_records`).

**EventNotifier** (`engine.rs` 137-345). Every atomic operation of the queue, the
flag and the pipe is an action. `mix` is the set of consumers of a behaviour:
ones that drain at each wake-up, ones that take a single event, ones that block.

**BackgroundEngine** (`engine.rs` 1206-1506). `current`, `cancelled`, `sender` and
the channel have a lock each and no operation holds two, so each action is one
lock section of an application thread or of the engine thread. `Recv` ends the
thread also when every sender of the channel is gone.

**ManagedLifecycle** (`session/network.rs`). The lifecycle mutex, the runtime
handle, the registry of operations and the journal's phase, generation and peer
states. `stop` is split at every step that another thread can come between; an
exchange is reduced to `Publish`, a mutation guarded by `check`. From some save
on (`uncertain`) every mutate is refused; a stop goes on then with the phase as it
was, which `astray` remembers. `outdated` are the exchanges that began before the
last mutate that fenced them, `late` those of them that published after it.

**ManagedExchange** (`session/network.rs` 437-969, `receipt.rs`). One action is one
`mutate` with the message it reads and the one it writes. A record is the clock
of its write; a receipt carries the enrollment it proves. `inbox` and `app` are
the application's copy and its committed data, so late acknowledgements exist.

**SessionJournal** (`session/mod.rs`, `session/store.rs`, `lease.rs`). `cached` is
the journal file as a running system sees it, `durable` as a power loss may leave
it; a save is write, rename, directory sync, and may fail at each. An envelope is
two counters, for the records and for the rest, and a prepared target.

**SecurePairing** (`pairing.rs`, `session/pairing.rs`). `host[i]`, `join[d][i]`,
`rec[d][i]` are the worker, the caller and the recovery of an invitation with
the message each waits for; `trust` is what the journals hold. `ClosePairing` and
`Removes` may come in any phase of the session. The key agreement is assumed to do
its job.

**Replicas** is what DeltaSync promises an application: registers that take
versions from each other and only move to later ones. DeltaSync implements it
(`Implements` instantiates it with the versions held and those in messages).

**EngineSync** (`engine.rs` sync, watch, auto_refresh; `adapter.rs`, `logical.rs`).
`file`, `ver`, `counter`, `cache` and `disk` are the application's file, the entry
of its key, the Lamport counter, the loop's cache and the saved state. A sync is
load, exchange, merge on each side, apply and save, each a lock section; users
edit files at any time. `past` is the history of edits, so that an edit that is
taken back can be told from one that lost.

**RecordMerge** (`record.rs`, `logical.rs`, `session/adapter.rs`,
`MomentumAdapter`). A batch of records meets the records of another device:
merged or refused as a whole by a session's adapter, field by field and by policy
by an engine, with tombstones that may be compacted in between. A list is a
function from its items to their places: `Union` leaves what it has where it is and
puts what it has not seen behind, in the order it comes.

**MappedTable** (`sqlite_logical.rs`, `record.rs`, `logical.rs`). `row[d]` and
`meta[d]` are the application's row and its sidecar row, `rec[d]` the record in the
state. `Stored` is what a load makes of the first two, `Loaded` what the state then
holds, `RowOf` and `MetaOf` what an apply writes; `Tick`, `Sync`, `Send`, `Deliver`
and `Apply` are the lock sections in which an engine uses them, `Change` is the
application, `Forget` the end of a program whose state file is lost.

**SqliteFiles** (`adapter.rs`). `state[d]` holds the three entries of a database,
`file` and `wal` what is on disk. `Update` decides between page delta and new main
file; `Tick`, `Send` and `Deliver` are the three uses of the adapter.

**Linking** (`sync.rs`, `engine.rs`). `link[d]` is the request of d and the thread
that answers it, step by step; `pin`, `key`, `cert` and `served` are the allowlist,
the handler's key, its certificate and the one the listener still presents.

**KeyStorage** (`keystore.rs`). Three items as files, each replaced by write, sync
and rename through one temporary file; processes load or make keys and may be
killed, lose power or find the store locked in between.

**CliFiles** (`libresync-cli`). A command is a process with a copy of the
configuration; `config`, `state`, `snaps` and `pid` are the files it loads and
saves; the listener and the watch are processes that keep their copies. Rotation
of the key is one action per file it seals. Nothing is replaced by a rename:
`Kill`, and `Stop` of the listener, may fall inside the write of the configuration,
the state, a snapshot or the pid file and leave it cut short, which is the key `Cut`
that opens nothing.

**Companion** (`companion.rs`). `registry`, `file` and `disk` are the list
of spaces in memory, as written and as a power failure leaves it; `phase` and
`peers` are the sessions; commands are split where a kill can come between. A
`Backup` may end with the key made, with the file written and any part of what
retention removes gone, oldest names first (`Remains`), or reported.

**FfiEngine**, **FfiSessions** (`libresync-ffi/src/lib.rs`, `managed.rs`). A
handle, its tasks and the host's call contend for one engine; the sessions of the
managed interface are numbered, looked up and used by several threads.

**MCHosts**, **MCProgress** and **MCStorage** put components next to each other
that share neither state nor messages in the code, to be checked by one run: the
variable `part` says which of them moves. **Bounds** holds the scopes of the
modules that take one. **MCDeltaSync**, **MCManagedExchange**, **MCSecurePairing**
and the other modules named MC... only bound the module they extend.
**DeltaSyncProofs**, **BackgroundEngineProofs**, **ManagedLifecycleProofs**,
**SecurePairingProofs**, **ManagedExchangeProofs**, **StorageProofs** and
**DataProofs** (about the parts of MCStorage: what a device stores, and the data
that devices exchange) and **HostProofs** (about the parts of MCHosts) hold the
theorems of section 4.

The modules abstract each other: what ManagedLifecycle calls `Publish` is a step
of ManagedExchange; that a ManagedExchange step is durable when its message
leaves is what SessionJournal establishes (`AcknowledgedDurable`); what EngineSync
sends in one message DeltaSync negotiates; Companion's sessions are those of
ManagedLifecycle, with start and stop as one step.

Definitions with a comment "Mutant" or "A mutant" are the code with a plausible
mistake. No specification uses them: `PROJECT.json` names the definition each would
replace and the property that fails then.

## 3. What the runs check

| Run | Instance | Shows |
|---|---|---|
| `delta` | 3 devices, one of them protocol 1, 1 key; either versions are relayed among all three, one exchange at a time, or two devices edit twice with two exchanges at once and lose their state once (800,000 states) | `CursorSound`, `ExcludedHeld`, and that every step is one of Replicas (`Implements`) |
| `delta_field_exclusion` | 2 devices, field-level merge | violated, see section 6 |
| `engine_reverts` | 3 devices, the first refreshing with both others, one edit | violated, see section 6 |
| `hosts` | the event queue with 2 emitters and two draining consumers, or one each of three kinds; an engine handle with 2 background syncs and up to 2 engines; 2 threads and 3 sessions (180,000 states) | `EventsTaken`; `CancelTruthful`, `EverythingAnnounced`; `ContextReleasedLast`, `ClosedEnds` |
| `background` | 2 application threads, 2 commands out of sync, start and stop | `OnlyAskedCancelled`, `TaskFinishes`, `ShutdownReturns` |
| `lifecycle` | 2 application threads with all calls, scheduler and 1 worker, 1 peer, 2 generations, the journal refusing every mutate from any point on (875,000 states) | `StopCancelsAll`, `FencedStaysOut`, `StopReturns` |
| `exchange` | 2 devices in one of four scopes: one edits twice and the other acknowledges late; both edit twice; two exchanges at once; a removal and a repair (1.9 million states) | `PendingTruthful`, `AppliedTruthful`, `UpToDateTruthful`, `ConsentRespected` |
| `exchange_settles` | 2 devices that edit once, one application | `Settles` |
| `progress` | 2 devices with 2 edits and 1 lost state each; one enrollment with 2 faults, or two, crossed or one after the other, with 1 fault; two engines with JSON, watched or logical files whose users edit once or twice, with lost connections, crashes and either side or both syncing (160,000 states) | `Convergence`; `Reconciles`; `FilesAgree`, `LogicalNeverReverts` |
| `storage` | the journal (2 processes of 2 threads), the command line (5 commands alone and killed anywhere, also inside their writes; 5 that start and stop the listener, killed as well; 4 beside a watch), the companion (2 spaces, 4 commands, 2 faults, a clock that is set back), key stores (2 processes, 3 faults), linking (3 devices, 2 links), records (2 devices, every policy but `SetUnion` of maps), mapped tables (one row of 2 devices, 3 edits, a lost state), databases (2 pages, 2 edits) (1.95 million states) | `AcknowledgedDurable`, `VisibleDurable`, `PreparedIsFenced`; `KeyOpens`, `StoredIsKept` (with `RowsForward` of MappedTable); `AsRegistered`, `RemovedStays`, `BackupKept`; `KeptAlone`; `LinkedCanSync`; `SettledAgree` (with `RowsAgree` of MappedTable); `WholeDatabase` |
| `pairing` | five scopes: faults; three devices; contention with faults; removals and repairs between two inviters; removals during repairs (1.2 million states) | `KeysAgree`, `InviterFirst`, `SingleUse`, `Recoverable`, `RemovalSticks` |
| `pairing_repaired` | 2 devices, 3 invitations, one removal by hand | violated, see section 6 |

Some properties hold under a condition that their definition states, because
without it the code does not keep them; section 6 says what happens then:

- `Convergence` and `FilesAgree`: devices may differ for ever where a recreated
  state, or an engine that died before its save, has drawn a clock again
  (`ClockReused`).
- `StopCancelsAll`: where the journal refused the mutate of a stop and still says
  Running, the scheduler, which looks at its cancel flag before it registers, may
  have one operation live while it is joined.
- `Reconciles`: a joiner that belongs to another group by then (`GroupConflict`)
  does not complete its enrollment.
- `KeyOpens` and `StoredIsKept`: one process at a time; a change of the key and the
  configuration are not cut short (`disturbed`), and a file cut short in its own
  write by a kill is not opened by anything (`Cut`); a row is not written again by
  the application once the adapter knows it.
- `KeptAlone`: one process, no power failure. `LinkedCanSync`: no two links at once.
- `AsRegistered`: device commands do not overlap the manager's.
- `UpToDateTruthful`: exchanges follow each other (`OneAtATime`); and not for a
  record of a third device that came through the peer itself.
- `SettledAgree`: an operation is imported under one clock; no `SetUnion` maps; the
  items of a list, not their order.
- `WholeDatabase`: one writer, and no loop beside a log.

Why the bounds are enough. The properties relate two devices, or a device and a
relay, about one key, record or invitation; keys do not influence each other
except through the sequence counter, and two edits of one key already give every
order of two sequence numbers about a cursor. Three devices are needed only for
relayed versions (`delta`, `engine_reverts`), for a second group or a second
claimant (`pairing`) and for a link that takes a key away from another (`storage`).
Two exchanges at once cover crossing and repeated ones: a third shares no state
with the first two but through what those wrote. Two invitations are needed for
enrollments that cross and for a newer one beside the recovery of an earlier one;
they come with one fault, one of them alone with two. For files, five commands are
enough to store, change the key, be killed, recover and look; two faults are
enough for one during the recovery from another; two pages are enough for one to
be of another version than the other. The bounds that cap counters are
`MaxCounter` and `MaxEpoch` (edits, lost states), `MaxEvents`, `MaxTicket`,
`MaxGeneration`, `MaxRev`, `MaxMeta`, `MaxKey`, `MaxLinks`, `MaxCert`, `MaxEdit`,
`MaxId`, and the fields of `Scopes`; each stands in the guard of the action that
would exceed it. `MCDeltaSync` adds a constraint, `Scope`, so the proofs, which do
not have it, are what covers the combinations it cuts off.

`SYMMETRY` is used for `pairing` alone: devices and invitations are
interchangeable there, and its temporal property is a box-action formula, whose
truth at a step does not depend on names. In `progress` nothing tells the devices
and invitations of SecurePairing apart either, so `Reconciles` looks at one joiner
and one invitation, which may be the earlier or the later, the one or the other of
two that cross: what holds of one of each holds of all. In DeltaSync, EngineSync and
ManagedExchange device ids are ordered (they break ties between clocks), so there
is none.

Deadlock is checked for `delta`, `exchange` and `exchange_settles`. In the others
the bounded application has nothing left to call, and the system rightly waits.

### Fairness

- *DeltaSync* (in `progress`): strong fairness of starting and continuing an
  exchange between each two devices. The auto-refresh loop contacts known peers
  again and again, whatever happened before, and a connection is not lost every
  time. No edit, reset or lost state is ever forced.
- *EngineSync* (in `progress`, and for `engine_reverts`): weak fairness of a sync
  that is under way and of the watch loop, strong fairness of a refresh turn with
  each peer, for the same reason. Losses and crashes are bounded by the scope,
  users are not obliged to edit.
- *SecurePairing* (in `progress`): workers and timers run; strong fairness of the
  recovery of a preparation, which the scheduler tries at every pass but not beside
  a call under way with that invitation. Users go on inviting while there are
  invitations, and in `pairing_repaired` repairing.
- *EventNotifier*, *BackgroundEngine*, *FfiSessions*: weak fairness of threads that
  can run. The application is not obliged to call anything, nor an engine to emit.
- *FfiEngine*: tasks that can run do; strong fairness of a task that waits for the
  engine's mutex, which other tasks and the host take again and again.
- *ManagedLifecycle*: threads that can run do; strong fairness of a thread
  asking for the lifecycle mutex, since the code's mutex is not fair and a weaker
  assumption would let a thread wait for it forever. An exchange ends by its
  timeouts.
- *ManagedExchange*: the scheduler goes on contacting peers; from some point on
  connections are not lost; users answer previews and resume peers they paused;
  applications process their inbox. The second and third are the premises of
  "eventually": without them the code promises nothing.

## 4. What is proved

Proofs hold for any number of devices, keys, processes and threads and any bound.

**DeltaSyncProofs.** `TypeCorrect` (both appliers) and, under
`Applier = "lww"`, `Inductive`, `CursorsAreSound`, `ExcludedIsHeld`,
`CounterStaysAhead` and `NeverRegresses`. `CursorSound` is not inductive: whether
a cursor that is stored next is sound depends on the message in flight, on what
its sender has since written, and on what its receiver has merged from others.
`IInv` therefore says what each message promises (`MessageSound`): a delta from
p to q with cursor c is such that, once q has merged the batch, everything p has
at or before c, and everything p received from q, is held by q; the sender still
holds the batch; cursors were handed out in this epoch or an earlier one. The
argument is monotonicity: under last-writer-wins a device's versions only grow
(`NeverRegresses`), so what a peer covers it goes on covering; a version written
later gets a sequence number after every cursor handed out before; and a version
whose origin is q came in a message from q, who still holds it. With the field-level applier the last step
is false, which is what `delta_field_exclusion` shows; hence the assumption.
`ImplementsReplicas` is the refinement: each action is a `Write`, `Learn`, `Send` or
`Lose` of Replicas or changes nothing there. The facts it needs from `IInv` are that
a message never carries a version its sender has not held, and that the counter is
at or ahead of every clock a device holds, which makes a write supersede.

**StorageProofs, journal.** All five invariants of the journal, for any number of
processes, threads and mutations: `JournalTypeCorrect`, `AcknowledgedIsDurable`,
`VisibleIsDurable`, `UncertainIsFenced`, `IdentityKept`. The invariant adds that
only the holder of the lease has a journal in memory, at least as new as what
anybody has been told (`Owner`; the others are `Shut`); it is being recovered
before any thread runs (`Starting`) or open with its contents on disk (`Up`); then
either nothing is being saved (`AtRest`) or one thread alone is changing it, and
only while storage is certain (`Changing`); and how far a save has come
determines what is cached and what is durable (`Progress`).

**BackgroundEngineProofs.** `BackgroundType`, `OnlyAskedIsCancelled`, `CancelIsKept`
and `JoinIsTheEnd`, for any number of application threads and commands. What is
cancelled is looked up by ticket in a set and a slot that are locked apart, so the
invariant has to say that a drawn ticket is in one place only (`EachOnce`): with
the thread that submits it, once in the channel, with the engine thread, or
finished. Then a late cancel cannot reach the command that runs now (`AskedFirst`).
`ShutdownLast` says that nothing comes behind `Shutdown` in the channel, because
the sender was taken before; `LoopFits` what each place of the loop implies.

**ManagedLifecycleProofs.** `LifecycleType`, `StopCancels`, `StopIsQuiet`,
`PhaseIsTruthful` and `RemovalFences`, for any number of peers, callers, workers and
generations. `OneHolder` is the mutual exclusion of lifecycle calls; `HolderFits`
says, per place of the call that holds the lock, how far the generation, the
operations and the runtime have been taken down; `ThreadsFit` which threads may be
at work and who has an operation registered. `StopCancelsAll` is not inductive
without them: that nothing registers behind the scan follows from the order of
stop, which fences the journal first, then the registry, and only then cancels.
Where the journal refused to be fenced the registry alone keeps sockets out, and
one operation of the scheduler is left (`StopCancels`); the phase then says Running
without a runtime (`PhaseIsTruthful`). `RemovalFences` is `FencedStaysOut`: an
exchange bound to a generation that a pause, a removal or a stop has ended is
`outdated`, its generation behind the journal's (`FencedFits`), and `check` refuses
it however late its thread comes.

**SecurePairingProofs.** `PairingType`, `GroupKeysAgree`, `InviterCommitsFirst`,
`InvitationIsSpent`, `JoinerCanRecover` and the action property `RemovalIsFinal`, for
any number of devices and invitations. The two sides of an enrollment commit apart
and either may fail in between, so the invariant follows what each message under
way proves: `Issued` and `Connected` tie hosts, joiners and recoveries to one
invitation and its issuer, `UsedUp` and `Approved` say which device an invitation
may still enroll, `PreparedFirst` that a joiner has journaled its preparation before
its inviter may commit, `KeyFits` which group key each holds by then, and
`Consented` that whoever may enroll a removed peer was asked to.

**ManagedExchangeProofs.** `ExchangeType`, `PendingIsTruthful`, `AppliedIsTruthful`,
`UpToDateIsTruthful` and the action property `ConsentIsRespected`, for any number of devices, records and
connections, overlapping as they like. `PendingTruthful` depends on receipts that
may be arbitrarily old, in a peer's entry, in a message, in a preview waiting for the user
or in an inbox the application has captured. The invariant says what each of
them promises about the journals and the applications as they are now:
`StoreHolds`, `EntriesHold`, `MessagesHold`, `InboxesHold`. The argument is that a journal only
moves to later records and sequence numbers (`Onward`), along which every such
promise is kept; that a batch was cut at the sender's revision (`Offered`), so that
merging it makes its receipt true (`Reached`); and that the proof in a receipt ties
it to one enrollment, so that what is left from before a repair proves nothing.
`UpToDateIsTruthful` needs two more invariants. `ConfirmFits`, kept while at most one
exchange is open: what is stored is never ahead of the batch under way, so that
`HandleAck`, which compares with that batch alone, sets up_to_date only when all
that is stored is applied. `AuthorsFit`, kept always: whoever wrote a record has it
or a later one in journal and application, so that a record a peer is not sent
because it came from the peer is in the peer's application if the peer wrote it.

**StorageProofs, linking.** `LinkingInductive`, `LinkedDevicesSync` and `NewestLinkWins`, for any number of
devices, links and certificates, under the hypothesis that no device takes part in
two links at once; without it the code does not keep them (section 6). What a
request and the listener's thread have read stays current until the link ends
(`Current`): the listener has pinned the caller since the confirmation, both have
the caller's key since `set_app_key`, so the answer never replaces that key.

**StorageProofs, companion.** `CompanionInductive`, `RemovalStays` and `OneBackupKey` hold for
any spaces, devices and commands, whatever overlaps, fails, is killed or loses
power. `FileFits` says that the registry in memory is the file unless a commit is in
doubt, so the next command never writes back an entry that another took out;
`OpFits` what is durable by the time a command touches the session; `RemovedFits`
that after a removal only device commands hold the session, which `Add` cannot
reopen under the same id; `KeysFit` that the one key of a space's backups is in the
key store or is the one it lost. `RunsAsRegistered` and `PausesLast` need in addition
that device commands do not overlap the manager's (`Apart`; `companion_pause` shows
why), and say with `RunsFit` which command the running of an unlisted session is
due to. `LastBackupKept` holds wherever a retention ends or fails and wherever the
clock is set back to: what `Remains` may take away is older than all that is left,
so while fewer than `Retain` later names are there, the backup last reported is.
Device commands may still overlap each other, and kills may come between any two
steps.

**StorageProofs, key storage.** `KeysInductive` and `KeysKeptAlone`, for any number of
processes, loads and keys, under the hypothesis of `KeptAlone` (one process at a
time, the power lasts). A process may be killed at every step: `FilesFit` says which
items can be there without the others, `WorkFits` what a load that is under
way has read or made, and that this is what the files hold until it returns it.

**DataProofs, records.** `MergeInductive`, `NothingIsRefused`, `RecordsGoForward`
and the first half of `SettledThingsAgree`, for any devices and records and
every policy the module has. That settled devices agree is not inductive: what a
batch under way will do is as much a part of it as what a journal holds. So the
invariant speaks of every record that a journal or a batch holds (`KnownRecord`):
its clock was drawn from a counter that has gone on (`ClocksFit`), one clock names
one record (`NamesFit`), a strict Momentum operation has one content and its
tombstone a later clock (`OperationsFit`), and a record that lacks its second field
has the value it was made with (`SecondsFit`). From there, two devices
that each hold nothing earlier than the other hold the same. For lists this is
said of the items alone: `Union` keeps the places a device has given, so two devices
that have exchanged everything may still order one list differently, as
`docs/LOGICAL.md` 115 says.

**DataProofs, mapped tables.** `TableInductive` and the second half of
`SettledThingsAgree`, for any devices, edits and lost states: a record that is not
empty, and the sidecar row and the batch made from it, have a clock from
`Bootstrap` on, so that an apply writes the row unless the table shows it already,
and two tables whose records agree show the same row. `RowsGoForward` is the action
property `RowsForward`, where the application edits no row the adapter knows. Its
invariant `RowsFit` speaks of every record that a state, a table or a batch holds: an
edit has one clock, and a later one than the edits it was made on (`ClockFits`),
also after a lost state, because an edit is made on what the state holds, and a
state that lost everything holds nothing; and a sync that has loaded holds nothing
behind the table it will write, unless the row was inserted since (`SyncFits`).

**DataProofs, databases.** `DatabaseInductive` and `DatabasesStayWhole`
(`WholeDatabase`), for any devices, pages and edits, under two hypotheses: one device
writes the database, and no engine loop runs beside a log. Neither can be dropped:
`sqlite_watch` shows the second, and of two devices that write at once TLC soon finds
the main file of the one with the page delta of the other, whose clock is later. The states of one writer are ordered, so `DatabaseInv` says that each state that is
anywhere is one the writer had; that the main file, the page delta and the log of a
state are parts of one saved version; and that who is behind has a file that is not
older than the base of the next delta, so that the delta rebuilds the version it was
cut from.

**StorageProofs, command line.** `CliInductive`, `TheKeyOpens` and `WhatIsStoredStays`, for any number of
processes, snapshots, backup directories and keys, under the hypotheses of the
properties (one command at a time, no key change cut short or stepped in by another;
for the snapshots, one directory). `KeyOpens` itself is broken in the middle of a
rotation and restored by its last step, so `CliFits` says what holds in between: the
copies of the configuration in the processes, the listener and the watch have the key
and the directory of the file (`Copied`); a rotation that has sealed the state has each
snapshot either under the new key or still to do under the old one (`Resealed`), but for those that a
kill has cut short, which no key opens; and
beside a listener only `listen`, `watch` and `stop` run, none of which reads a key
that another changes (`Beside`). `WhatIsStoredStays` is `StoredIsKept`: a command that
will save the state has opened all of it (`Carries`), a rotation because the key of
its copy opens it. A write of the state that is killed leaves nothing to keep: no
later command opens it, and `rotate` puts a new one in its place. It excludes `watch` (`NoWatch`), which starts a listener and
goes on beside it: when that listener ends, the watch may save over it with what it
had opened before. Its part about mapped tables is `RowsGoForward`.

**HostProofs.** `ContextLast` and `CancelFinds`, for any threads, sessions, handles,
repositories, syncs and tickets. For the first, a number is given out once
(`NumbersUnique`), and whatever call is under way with a number, or registered under it,
has a live context (`KeptFits`): the last of them is who releases it. For the
second, a sync that can still be stopped is in the table that `cancel` looks in
(`KnownFits`), whichever handle started it.

Each invariant was checked with TLC on the instances of its runs before it was
proved. Constants have the assumptions their modules state: device ids, tickets
and bounds are numbers, sets of devices are not assumed finite unless a cardinality
is taken (`IsFiniteSet(Key)` in ManagedExchange).

Model-checked only:

- everything temporal under fairness: the provers have neither liveness under
  fairness nor ENABLED;
- the properties of EventNotifier and EngineSync.

Some modules state more than a run lists: `TypeOK`, `ClockNamesOneEdit` (without
crashes), `QuietFileIsCurrent`, `OneByte` and `NoLostWake`. They hold on the
instances of the runs and are the material of inductive invariants for the proofs that are left.

## 5. Assumptions and omissions

Random identifiers do not collide; TLS, the sealed blobs, the PAKE and the MACs
do what they promise; a mutex excludes; `rename` is atomic and a synced directory
survives. The command line's files are overwritten in place and may be cut short by
a kill, but where several of its processes run at once (the scope beside a watch) a
reader never meets a file in the middle of another's write.

What each module leaves out of the code it models:

- *DeltaSync*: compaction of entries while they are exchanged (RecordMerge has it
  on its own), and a state file rolled back to an older copy.
- *EngineSync*: several adapters of one engine (their keys differ), and the choice
  of peers by discovery. A crash loses what was not saved: after one an edit may
  legitimately be read again, so `NeverReverts` speaks of steps without one.
- *SqliteFiles*: a batch is merged and written in one step; the shared-memory file
  is treated like the log; the content of pages is the edit that wrote them.
- *MappedTable*: one id, one column with the last writer, one mapping; the encodings
  of columns; the unmapped table, whose rows are records as they are. A batch that
  is under way when its sender or receiver ends is lost with its connection.
- *RecordMerge*: `Custom` policies, which are application code, schema evolution,
  and fields whose value changes its type.
- *CliFiles*: commands that only print, discovery and export of keys; sealing is
  the name of the key. A sync in progress is one step (EngineSync has its parts).
- *Companion*: windows and menus; a session's start and stop are one step each.
- *FfiEngine*, *FfiSessions*: conversion of strings and JSON, and JNI's copies.
- *ManagedExchange*, *SessionJournal*: sizes of batches and blobs, recovery
  snapshots.

Not modelled at all:

- *Limits and compaction of managed data*: checks of single values.
- *Discovery*: threads of the mDNS library; addresses are inputs.
- *Cryptography and device identity*: pure functions; their guarantees are the
  assumptions above.
- *Errors and library surface, Swift and Kotlin bindings, demos, scripts*: no
  protocol of their own.

## 6. Where code and documentation disagree

Three runs look for a violation and find it.

- `delta_field_exclusion`. `state.rs` 162-164: "Versions received from
  `exclude_origin` are skipped because that peer already holds them." With the
  field-level applier a listener that edits a record between its export and its
  merge stores the merged record, its own edit included, as received from the
  client, and never sends it the edit.
- `engine_reverts`. `docs/ARCHITECTURE.md` 8: "Sync is deterministic:
  last-writer-wins with Lamport clocks per entry". `Engine::sync` reads the file
  into the state, exchanges, and writes the state to the file under separate
  locks, and so do the listener and the refresh loop. When a remote edit has been
  merged and not yet written, another of them reads the file as it was, takes the
  difference for a local edit and gives it a later clock: the remote edit is taken
  back although its writer was the last. A `logical` file carries clocks and is
  safe from this (`LogicalNeverReverts`).
- `pairing_repaired`. `session/mod.rs` 557, of a removed peer: "A fresh invitation
  and explicit repair are required." Repairing removes the peer first, and an
  invitation's host refuses a removed device, so when both sides have removed
  each other no sequence of invitations and repairs enrolls them again.

Further configurations, kept to reproduce observations made while modelling; each
ends in a counterexample:

| Configuration | Module | Statement | What happens |
|---|---|---|---|
| `background_cancel` | BackgroundEngine | `CancelReaches`: cancel reaches a queued or running command | between the engine's look at the cancelled set and its publication of the token (engine.rs:1296) it reaches neither |
| `lifecycle_pause` | ManagedLifecycle | `PauseSticks`: a paused peer stays paused | a failed attempt that began before sets it to Waiting (network.rs:164) |
| `exchange_overlaps` | MCManagedExchange | `UpToDateConfirmed`: "Up to date — device confirmed applied changes" (bindings/swift/Sources/LibreSync/SessionModel.swift:299) | the proof of an earlier batch arrives after a later batch was stored: the state is set by comparing what was applied with the receipt of that earlier batch (network.rs:768), while records of the later one are not applied yet |
| `exchange_recovers` | MCManagedExchange | `Recovers`: stale processing proofs "do not prevent recovery" (docs/MANAGED-SESSION.md:53) | an inbox captured before a repair is acknowledged after it with the same sequence, and the new enrollment's acknowledgement is then never written (mod.rs:963) |
| `delta_reused` | DeltaSync | `SameEverywhere`: "Deterministic convergence" (RESEARCH.md:64) | a state that is made anew counts from zero again and draws a clock that already names another content; `apply_entry` refuses equal clocks in both directions (state.rs:105), so the devices stay different |
| `engine_reused` | MCEngine | `SameFiles`: the files come to show the same | the same of an engine that dies after a sync sent its edit and before the state was saved (state.rs:263): it reads another edit under the clock it has used |
| `pairing_crossed` | MCSecurePairing | `StartupReconciles`: "Startup reconciles interrupted authenticated enrollment" (docs/MANAGED-SESSION.md:21) | two devices join each other's invitation at once: both inviters commit under their own key, both joiners find that they belong to another group (session/pairing.rs:152), and every recovery finds it again, without any fault; both hold each other as active under different keys, with a preparation that never ends |
| `cli_unlink` | MCStorage | `UnlinkSticks`: an unlinked device "must re-link before any refresh" (SECURITY.md:82) | a watch that started before saves its copy of the configuration, the device included |
| `companion_pause` | MCStorage | `PauseSustained`: "pause/close sustain suspension" (docs/SDK.md:18) | a device command that took the running session before the pause restarts it after it |
| `linking_crossed` | Linking | `NewestWins`: "the newest linking wins" (SECURITY.md:50) | two devices that link with each other at once each adopt the other's key |
| `mapped_edits` | MCStorage | `EditsSurvive`: a field whose value differs from the stored version is a change (docs/LOGICAL.md:59) | a row the application updates still has its old clock in the sidecar table, so the load ignores it and the next apply writes the old content back; a row it deletes comes back |
| `sqlite_watch` | SqliteFiles | `WholeDatabase`: main file and log of one version (docs/ARCHITECTURE.md:84) | a sync loads the log into the state behind the loop's cache; the next tick writes that log back over a main file that holds a later checkpoint |

Observations without a configuration:

- `engine.rs` 1434: "Queued commands are dropped" (`QueuedDropped` of
  BackgroundEngine), yet commands queued before `Shutdown` are run first.
- `companion.rs`: when the clock has been set back, the name of the copy just
  written sorts first and it is removed, although `alwaysOn/README.md` 47 says
  "retains the latest five"; hence "later names" in `BackupKept`. And what retention
  has removed stays removed when the backup is refused afterwards (companion.rs
  541-545).
- `session/network.rs` 333: a stop whose mutate is refused goes on: the runtime is
  gone and the journal still says Running.
- `session/network.rs` 974: `remove_peer` and `pause_peer` read whether the session
  runs before they commit, and start it again if it did: a pause or shutdown of
  another thread in between is undone by that start.
- `libresync-cli`, `save_config`: a kill inside the write leaves a configuration
  that cannot be parsed, with the only copy of the key gone; hence `disturbed` in
  `KeyOpens`.
- `backup.rs` 69: a snapshot cut short by a kill makes `list_snapshots` fail from
  then on, so `prune` does, and the next `rotate` has sealed the state under a new
  key before it finds out: that key is in no file.
- `logical.rs` 387: a list that two devices
  appended to may keep a different order on each (`docs/LOGICAL.md` 115 says so).
- `libresync-ffi` `lib.rs` 193: freeing a handle while a task runs is safe, but a
  handle made before that task ended (`HastyScopes`) loads the state first and saves
  it over what the task stored (`SavedIsKept` of FfiEngine).
- `docs/LOGICAL.md` 47: "deterministic across devices", but in a `SetUnion` map
  (`MapScopes`) each side keeps its own value of an entry that both have set
  (`AlwaysAgree` of RecordMerge).

- `session/mod.rs`, `snapshot`: with three devices a device can merge from a peer a record of
  the third that the peer's application has not taken up yet. `pending` leaves out what came from the
  peer, so the peer stays "up to date"; hence `Relayed` in `UpToDateConfirmed`.
- `keystore.rs`: two processes that find no certificate each store one with its
  private key, item by item, and a pair that does not match may stay; hence "one
  process at a time" in `KeptAlone`.
- `session/adapter.rs`: an operation imported again under a later clock than a
  deletion of it stays where it was imported, and deleted where it was deleted;
  hence the condition in `SettledAgree`.
- `sqlite_logical.rs`: a row without a sidecar row has the clock 0/bootstrap on
  every device; where two devices had each inserted the same id, the tables
  may swap their rows at an exchange and are then not `Settled`.
- `SqliteFiles`: with two writers (`Writers = {1, 2}`, `Modes = {"watched"}`) the main
  file of one device's edit and the page delta of another's are merged each by its
  own clock, and the pages of two databases meet; hence "one writer" in
  `WholeDatabase` of section 3.
- `SqliteFileAdapter`: a file that was only cut off at the end of a page has an empty
  delta, and is restored to its old length; and devices with different page delta
  settings can put each other's pages back.

## 7. Plan

Done: DeltaSync with its proofs and its refinement of Replicas; BackgroundEngine,
ManagedLifecycle, ManagedExchange, SessionJournal, SecurePairing, Linking,
Companion, KeyStorage, RecordMerge, MappedTable, CliFiles, FfiEngine, FfiSessions
and SqliteFiles with their proofs; EventNotifier and EngineSync, checked.

Open:

1. Proofs about EngineSync (`LogicalNeverReverts` and the files it keeps) and
   EventNotifier.
2. Compaction inside an exchange, and a state file that is rolled back.
