----------------------------- MODULE MCStorage ------------------------------
(***************************************************************************)
(* What a device keeps and with whom it agrees on it, checked together:    *)
(* the session journal, the command line's files, the companion manager's  *)
(* registry and backups, the key stores, legacy links, the merge of records,*)
(* mapped tables and SQLite files.                                         *)
(***************************************************************************)
EXTENDS SessionJournal, Bounds

CONSTANTS
  Parts,                                      \* the parts that are looked at
  CliDevice, CliProc, CliDir, CliBounds,      \* of CliFiles
  Space, Peer, Task, Retain, ManagerScopes,   \* of Companion
  KeyProc, MaxKey, KeyBounds,                 \* of KeyStorage
  LinkDevice, LinksOverlap, MaxLinks, MaxCert,  \* of Linking
  MergeDevice, RecordId, MergeBounds,         \* of RecordMerge
  TableDevice, TableBounds,                   \* of MappedTable
  SqliteDevice, SqliteWriters, SqliteModes, MaxPages, MaxEdit   \* of SqliteFiles

VARIABLES
  part,  \* the part whose behaviour this is; the others do nothing
  cli_scope, cli_config, cli_state, cli_snaps, cli_pid, cli_proc, cli_listener,
  cli_entered, cli_fresh, cli_removed, cli_disturbed,
  companion_scope, companion_file, companion_disk, companion_up, companion_fenced,
  companion_registry, companion_open, companion_phase, companion_peers,
  companion_op, companion_task, companion_store, companion_lost, companion_saves,
  companion_clock, companion_spent, companion_faults, companion_keys,
  companion_told, companion_promised,
  keys_scope, keys_file, keys_disk, keys_tmp, keys_proc, keys_made, keys_faults,
  keys_used,
  linking_key, linking_cert, linking_served, linking_pin, linking_link,
  linking_last, linking_links,
  merge_scope, merge_held, merge_counter, merge_air,
  table_scope, table_row, table_meta, table_rec, table_counter, table_air,
  table_syncing, table_past, table_lost,
  sqlite_mode, sqlite_file, sqlite_wal, sqlite_state, sqlite_cache, sqlite_air,
  sqlite_saved

C == INSTANCE CliFiles WITH
  Device <- CliDevice, Proc <- CliProc, Dir <- CliDir, Scopes <- CliBounds,
  scope <- cli_scope, config <- cli_config, state <- cli_state, snaps <- cli_snaps,
  pid <- cli_pid, proc <- cli_proc, listener <- cli_listener,
  entered <- cli_entered, fresh <- cli_fresh,
  removed <- cli_removed, disturbed <- cli_disturbed
cli_vars ==
  <<cli_scope, cli_config, cli_state, cli_snaps, cli_pid, cli_proc, cli_listener,
  cli_entered, cli_fresh, cli_removed, cli_disturbed>>

M == INSTANCE Companion WITH
  Scopes <- ManagerScopes, scope <- companion_scope, file <- companion_file,
  disk <- companion_disk, up <- companion_up, fenced <- companion_fenced,
  registry <- companion_registry, open <- companion_open, phase <- companion_phase,
  peers <- companion_peers, op <- companion_op, task <- companion_task,
  store <- companion_store, lost <- companion_lost, saves <- companion_saves,
  clock <- companion_clock, spent <- companion_spent, faults <- companion_faults,
  keys <- companion_keys, told <- companion_told, promised <- companion_promised
companion_vars ==
  <<companion_scope, companion_file, companion_disk, companion_up,
  companion_fenced, companion_registry, companion_open, companion_phase,
  companion_peers, companion_op, companion_task, companion_store, companion_lost,
  companion_saves, companion_clock, companion_spent, companion_faults,
  companion_keys, companion_told, companion_promised>>

K == INSTANCE KeyStorage WITH
  Proc <- KeyProc, Scopes <- KeyBounds, scope <- keys_scope,
  file <- keys_file, disk <- keys_disk, tmp <- keys_tmp, proc <- keys_proc,
  made <- keys_made, faults <- keys_faults, used <- keys_used
keys_vars ==
  <<keys_scope, keys_file, keys_disk, keys_tmp, keys_proc, keys_made, keys_faults,
  keys_used>>

L == INSTANCE Linking WITH
  Device <- LinkDevice, Overlap <- LinksOverlap,
  key <- linking_key, cert <- linking_cert, served <- linking_served,
  pin <- linking_pin, link <- linking_link, last <- linking_last,
  links <- linking_links
linking_vars ==
  <<linking_key, linking_cert, linking_served, linking_pin, linking_link,
  linking_last, linking_links>>

R == INSTANCE RecordMerge WITH
  Device <- MergeDevice, Id <- RecordId, Scopes <- MergeBounds,
  scope <- merge_scope, held <- merge_held, counter <- merge_counter,
  air <- merge_air
merge_vars ==
  <<merge_scope, merge_held, merge_counter, merge_air>>

T == INSTANCE MappedTable WITH
  Device <- TableDevice, Scopes <- TableBounds, scope <- table_scope, row <- table_row,
  meta <- table_meta, rec <- table_rec, counter <- table_counter, air <- table_air,
  syncing <- table_syncing, past <- table_past, lost <- table_lost
table_vars ==
  <<table_scope, table_row, table_meta, table_rec, table_counter, table_air,
  table_syncing, table_past, table_lost>>

Q == INSTANCE SqliteFiles WITH
  Device <- SqliteDevice, Writers <- SqliteWriters, Modes <- SqliteModes,
  mode <- sqlite_mode, file <- sqlite_file, wal <- sqlite_wal,
  state <- sqlite_state, cache <- sqlite_cache, air <- sqlite_air,
  saved <- sqlite_saved
sqlite_vars ==
  <<sqlite_mode, sqlite_file, sqlite_wal, sqlite_state, sqlite_cache, sqlite_air,
  sqlite_saved>>

ASSUME MCStorageConstants ==
  /\ Parts \subseteq {"journal", "cli", "companion", "keys", "linking", "merge", "table",
                     "sqlite"}
  /\ C!CliAssumption
  /\ M!CompanionAssumption
  /\ K!KeyStorageAssumption
  /\ L!LinkingAssumption
  /\ R!MergeAssumption
  /\ T!MappedTableAssumption
  /\ Q!SqliteAssumption

all == <<part, vars, cli_vars, companion_vars, keys_vars, linking_vars, merge_vars,
         table_vars, sqlite_vars>>

\* A part that is not looked at stays in one of its initial states.
StorageInit ==
  /\ part \in Parts
  /\ Init
  /\ C!Init /\ (part = "cli" \/ cli_scope = CHOOSE c \in CliBounds : TRUE)
  /\ M!Init
  /\ K!Init /\ (part = "keys" \/ keys_scope = CHOOSE c \in KeyBounds : TRUE)
  /\ L!Init
  /\ R!Init /\ (part = "merge" \/ merge_scope = CHOOSE c \in MergeBounds : TRUE)
  /\ T!Init
  /\ Q!Init /\ (part = "sqlite" \/ sqlite_mode = CHOOSE m \in SqliteModes : TRUE)

\* Only that part moves.
StorageNext ==
  \/ /\ part = "journal" /\ Next
     /\ UNCHANGED <<part, cli_vars, companion_vars, keys_vars, linking_vars,
                   merge_vars, table_vars, sqlite_vars>>
  \/ /\ part = "cli" /\ C!Next
     /\ UNCHANGED <<part, vars, companion_vars, keys_vars, linking_vars,
                   merge_vars, table_vars, sqlite_vars>>
  \/ /\ part = "companion" /\ M!Next
     /\ UNCHANGED <<part, vars, cli_vars, keys_vars, linking_vars, merge_vars,
                   table_vars, sqlite_vars>>
  \/ /\ part = "keys" /\ K!Next
     /\ UNCHANGED <<part, vars, cli_vars, companion_vars, linking_vars,
                   merge_vars, table_vars, sqlite_vars>>
  \/ /\ part = "linking" /\ L!Next
     /\ UNCHANGED <<part, vars, cli_vars, companion_vars, keys_vars, merge_vars,
                   table_vars, sqlite_vars>>
  \/ /\ part = "merge" /\ R!Next
     /\ UNCHANGED <<part, vars, cli_vars, companion_vars, keys_vars,
                   linking_vars, table_vars, sqlite_vars>>
  \/ /\ part = "table" /\ T!Next
     /\ UNCHANGED <<part, vars, cli_vars, companion_vars, keys_vars,
                   linking_vars, merge_vars, sqlite_vars>>
  \/ /\ part = "sqlite" /\ Q!Next
     /\ UNCHANGED <<part, vars, cli_vars, companion_vars, keys_vars,
                   linking_vars, merge_vars, table_vars>>

StorageSpec == StorageInit /\ [][StorageNext]_all

-----------------------------------------------------------------------------
(* Properties, each stated in the module of its part.                      *)

\* The configured key opens the state and the snapshots.
KeyOpens == part = "cli" => C!KeyOpens

\* What one command has stored, no later one drops; what a table shows is not
\* written over with what it was made from.
StoredIsKept == C!StoredIsKept /\ T!RowsForward

\* Only sessions run that a restart would run.
AsRegistered == part = "companion" => M!AsRegistered

\* A removal that was reported stays.
RemovedStays == part = "companion" => M!RemovedStays

\* The last backup reported as taken is kept.
BackupKept == part = "companion" => M!BackupKept

\* One process at a time is handed one key, and matching pairs.
KeptAlone == part = "keys" => K!KeptAlone

\* Devices that linked last with each other can sync.
LinkedCanSync == part = "linking" => L!LinkedCanSync

\* No merge leaves two devices, or their tables, apart for good.
SettledAgree == /\ part = "merge" => R!SettledAgree
                /\ part = "table" => T!RowsAgree

\* A database is one its user saved.
WholeDatabase == part = "sqlite" => Q!WholeDatabase

-----------------------------------------------------------------------------
(* What the code does not keep, each with the behaviours that show it.     *)

\* An unlinked device stays out of the configuration.
UnlinkSticks == part = "cli" => C!UnlinkSticks

\* A space that was paused stays paused.
PauseSustained == part = "companion" => M!PauseSustained

\* What the application writes in a table's row stays.
EditsSurvive == T!EditsSurvive
=============================================================================
