------------------------------ MODULE CliFiles ------------------------------
(***************************************************************************)
(* The command line interface (crates/libresync-cli/src/main.rs): every    *)
(* command is a process that loads the configuration file, works on its    *)
(* copy and saves it whole, as it does with the encrypted state file.  The *)
(* background listener and `watch` keep their copy for as long as they     *)
(* run.  Nothing locks the files, and each is overwritten in place: a      *)
(* process that is killed leaves what it was writing cut short.            *)
(***************************************************************************)
EXTENDS Integers, FiniteSets

CONSTANTS Device,   \* the devices this one may link with
          Proc,     \* commands that may run at the same time
          Dir,      \* backup directories
          Scopes    \* bounds of the behaviours:
                    \*   ops       the commands users enter
                    \*   alone     one process at a time, the listener included
                    \*   kills     processes may be killed anywhere
                    \*   commands  how many are entered
                    \*   events    how often peers sync or link

CliAssumption ==
  /\ Dir # {}
  /\ \A s \in Scopes : s.alone \in BOOLEAN /\ s.kills \in BOOLEAN
                       /\ s.commands \in Nat /\ s.events \in Nat

None == "none"
Cut == 0  \* stands for the key of a file that was cut short: no key opens it
NoState == [key |-> Cut, marks |-> {}]
Adapter == {"file", "other"}

VARIABLES
  scope,
  config,     \* the configuration file
  state,      \* the state file: the key it is sealed with, what was stored in it
  snaps,      \* the snapshot files: [id, dir, adapter, key]
  pid,        \* the pid file; 0: there is none
  proc,       \* proc[p]: the command process p runs
  listener,   \* the listener process: its pid (0: it is not running) and copies
  entered,    \* commands entered so far
  fresh,      \* keys, marks, ids and pids drawn so far
  removed,    \* history: devices unlinked, and not linked again since
  disturbed   \* history: a key change or the configuration was cut short, or a
              \* key came from a peer

files == <<config, state, snaps, pid>>
vars == <<scope, files, proc, listener, entered, fresh, removed, disturbed>>

Default == CHOOSE d \in Dir : TRUE

\* init_config
NewConfig(k) ==
  [key |-> k, keys |-> k, devices |-> {}, adapters |-> {}, auto |-> "off",
   enabled |-> FALSE, restore |-> FALSE, dir |-> None]
NoConfig == NewConfig(Cut)

Resting == [op |-> None, pc |-> None, arg |-> None, cfg |-> NewConfig(0), marks |-> {},
            key |-> 0, todo |-> {}]
Down == [pid |-> 0, cfg |-> NewConfig(0), marks |-> {}, key |-> 0, auto |-> FALSE]

Init ==
  /\ scope \in Scopes
  /\ config = NewConfig(1)
  /\ state = [key |-> 1, marks |-> {}]
  /\ snaps = {}
  /\ pid = 0
  /\ proc = [p \in Proc |-> Resting]
  /\ listener = Down
  /\ entered = 0 /\ fresh = 1
  /\ removed = {}
  /\ disturbed = FALSE

-----------------------------------------------------------------------------
(* A command begins: load_config, and ensure_backup_dir for the backups.   *)

Backups == {"snapshot", "restore", "prune"}

\* Auto-approval may have expired, which load_config saves.
Loaded(c) == {c} \cup (IF c.auto = "timed" THEN {[c EXCEPT !.auto = "off"]} ELSE {})

Arguments(op) ==
  CASE op \in {"link", "unlink", "refresh", "address"} -> Device
    [] op \in {"select", "snapshot", "restore", "prune"} -> Adapter
    [] op = "configure" -> Dir
    [] op \in {"rotate", "keys"} -> {"keep", "clear"}
    [] op = "approve" -> {"off", "timed", "on"}
    [] op = "listen" -> {"ask", "auto"}
    [] OTHER -> {None}

Running == {p \in Proc : proc[p].op # None}

\* Only init does without a configuration that can be parsed.
MayBegin(p, op) ==
  /\ op \in scope.ops /\ (op = "init" \/ config.key # Cut)
  /\ proc[p].op = None
  /\ entered < scope.commands
  /\ scope.alone => Running = {} /\ (listener.pid # 0 => op \in {"stop", "listen"})

Begin(p, op, arg) ==
  /\ arg \in Arguments(op) /\ MayBegin(p, op)
  /\ entered' = entered + 1
  /\ \E c \in IF op = "init" THEN {config} ELSE Loaded(config) :
       LET d == IF op \in Backups /\ c.dir = None THEN [c EXCEPT !.dir = Default] ELSE c
       IN  /\ config' = d
           /\ proc' = [proc EXCEPT ![p] =
                [Resting EXCEPT !.op = op, !.arg = arg, !.cfg = d,
                                !.pc = IF op = "watch" THEN "begun" ELSE "loaded"]]
  /\ UNCHANGED <<scope, state, snaps, pid, listener, fresh, removed, disturbed>>

\* Killed inside that save.
KillBegun(p, op) ==
  /\ MayBegin(p, op) /\ op # "init"
  /\ scope.kills
  /\ config.auto = "timed" \/ (op \in Backups /\ config.dir = None)
  /\ entered' = entered + 1
  /\ config' = NoConfig /\ disturbed' = TRUE
  /\ UNCHANGED <<scope, state, snaps, pid, proc, listener, fresh, removed>>

At(p, pc, ops) == proc[p].pc = pc /\ proc[p].op \in ops
Cfg(p) == proc[p].cfg
Arg(p) == proc[p].arg
Ends(p) == proc' = [proc EXCEPT ![p] = Resting]
\* A refresh that fails ends its command; watch prints the error and goes on.
Fails(p) ==
  proc' = [proc EXCEPT ![p] = IF @.op = "watch" THEN [@ EXCEPT !.pc = "loaded"] ELSE Resting]

-----------------------------------------------------------------------------
(* Commands that only change the configuration.                            *)

SelectFile(c, a) == [c EXCEPT !.adapters = @ \cup {a}]
ConfigureBackups(c, d) == [c EXCEPT !.enabled = TRUE, !.restore = TRUE, !.dir = d]
SetAutoApprove(c, mode) == [c EXCEPT !.auto = mode]
RotateDeviceKeys(c, others) ==
  [c EXCEPT !.keys = fresh + 1, !.devices = IF others = "clear" THEN {} ELSE @]

SetDeviceAddress(c) == c    \* addresses and secrets are not told apart
SetPairingSecret(c) == c

Configure(p) ==
  /\ At(p, "loaded", {"select", "configure", "approve", "keys", "address", "secret"})
  /\ proc[p].op = "address" => Arg(p) \in Cfg(p).devices
  /\ config' = CASE proc[p].op = "select"    -> SelectFile(Cfg(p), Arg(p))
                 [] proc[p].op = "configure" -> ConfigureBackups(Cfg(p), Arg(p))
                 [] proc[p].op = "approve"   -> SetAutoApprove(Cfg(p), Arg(p))
                 [] proc[p].op = "keys"      -> RotateDeviceKeys(Cfg(p), Arg(p))
                 [] proc[p].op = "address"   -> SetDeviceAddress(Cfg(p))
                 [] proc[p].op = "secret"    -> SetPairingSecret(Cfg(p))
  /\ fresh' = IF proc[p].op = "keys" THEN fresh + 1 ELSE fresh
  /\ Ends(p)
  /\ UNCHANGED <<scope, state, snaps, pid, listener, entered, removed, disturbed>>

\* link: the other device has answered, and the user confirms or not.
Link(p) ==
  /\ At(p, "loaded", {"link"})
  /\ \E yes \in BOOLEAN :
       IF yes
       THEN /\ config' = [Cfg(p) EXCEPT !.devices = @ \cup {Arg(p)}]
            /\ removed' = removed \ {Arg(p)}
       ELSE UNCHANGED <<config, removed>>
  /\ Ends(p)
  /\ UNCHANGED <<scope, state, snaps, pid, listener, entered, fresh, disturbed>>

\* unlink: a device that is linked, and the user confirms.
Unlink(p) ==
  /\ At(p, "loaded", {"unlink"})
  /\ IF Arg(p) \in Cfg(p).devices
     THEN /\ config' = [Cfg(p) EXCEPT !.devices = @ \ {Arg(p)}]
          /\ removed' = removed \cup {Arg(p)}
     ELSE UNCHANGED <<config, removed>>
  /\ Ends(p)
  /\ UNCHANGED <<scope, state, snaps, pid, listener, entered, fresh, disturbed>>

-----------------------------------------------------------------------------
(* refresh and watch: load_or_init_state, sync_now per adapter, save both. *)

Refreshing == {"refresh", "watch"}

\* Who may be contacted: StaticHandler allows what the copy lists.
Contacts(p) == Cfg(p).devices # {} /\ (proc[p].op = "refresh" => Arg(p) \in Cfg(p).devices)

\* load_or_init_state under key k: the state it returns, and saves again, or
\* NoState for an error.
Opened(k) == IF state.key = k THEN state ELSE NoState

MayOpen(p) ==
  /\ At(p, "loaded", Refreshing \cup {"snapshot", "restore"})
  /\ proc[p].op \in Refreshing => Contacts(p) /\ Cfg(p).adapters # {}
  /\ proc[p].op \in Backups => Cfg(p).enabled /\ Arg(p) \in Cfg(p).adapters

OpenState(p) ==
  /\ MayOpen(p)
  /\ LET o == Opened(Cfg(p).key)
     IN  IF o = NoState
         THEN Fails(p) /\ UNCHANGED state
         ELSE /\ state' = o
              /\ proc' = [proc EXCEPT ![p].pc = "opened", ![p].marks = o.marks,
                     ![p].todo = IF proc[p].op \in Refreshing THEN Cfg(p).adapters ELSE {}]
  /\ UNCHANGED <<scope, config, snaps, pid, listener, entered, fresh, removed, disturbed>>

\* One adapter is synchronized; what arrives is merged in memory.
Sync(p) ==
  /\ At(p, "opened", Refreshing)
  /\ fresh < scope.events
  /\ \E a \in proc[p].todo :
       proc' = [proc EXCEPT ![p].todo = @ \ {a}, ![p].marks = @ \cup {fresh + 1}]
  /\ fresh' = fresh + 1
  /\ UNCHANGED <<scope, files, listener, entered, removed, disturbed>>

\* An adapter fails, or the device cannot be reached: nothing is saved.
SyncFails(p) ==
  /\ At(p, "opened", Refreshing)
  /\ proc[p].todo # {}
  /\ Fails(p)
  /\ UNCHANGED <<scope, files, listener, entered, fresh, removed, disturbed>>

MaySave(p) ==
  \/ At(p, "opened", Refreshing) /\ proc[p].todo = {}
  \/ At(p, "applied", {"snapshot", "restore"})

SaveState(p) ==
  /\ MaySave(p)
  /\ state' = [key |-> Cfg(p).key, marks |-> proc[p].marks]
  /\ IF proc[p].op \in Refreshing THEN proc' = [proc EXCEPT ![p].pc = "stored"] ELSE Ends(p)
  /\ UNCHANGED <<scope, config, snaps, pid, listener, entered, fresh, removed, disturbed>>

\* upsert_device: the device's address and fingerprint; it was in the copy.
SaveConfig(p) ==
  /\ At(p, "stored", Refreshing)
  /\ config' = Cfg(p)
  /\ Fails(p)
  /\ UNCHANGED <<scope, state, snaps, pid, listener, entered, fresh, removed, disturbed>>

\* list_snapshots parses every snapshot of an adapter, or fails.
Legible(dir, adapter) == \A s \in snaps : s.dir = dir /\ s.adapter = adapter => s.key # Cut

\* BackupManager::restore_snapshot finds a snapshot and opens it.
Restorable(p) ==
  {s \in snaps : s.dir = Cfg(p).dir /\ s.adapter = Arg(p) /\ s.key = Cfg(p).key}

\* What is not possible with this configuration ends with an error.
Refused(p) ==
  /\ \/ At(p, "loaded", {"address"}) /\ Arg(p) \notin Cfg(p).devices
     \/ At(p, "loaded", {"refresh"}) /\ ~(Contacts(p) /\ Cfg(p).adapters # {})
     \/ At(p, "loaded", Backups) /\ ~(Cfg(p).enabled /\ Arg(p) \in Cfg(p).adapters)
     \/ At(p, "loaded", {"prune"}) /\ ~Legible(Cfg(p).dir, Arg(p))
     \/ At(p, "opened", {"restore"}) /\ Restorable(p) = {}
  /\ Ends(p)
  /\ UNCHANGED <<scope, files, listener, entered, fresh, removed, disturbed>>

-----------------------------------------------------------------------------
(* Backups.                                                                *)

\* BackupManager::create_snapshot, sealed with the key of the copy.
Created(p) ==
  [id |-> fresh + 1, dir |-> Cfg(p).dir, adapter |-> Arg(p), key |-> Cfg(p).key]

Snapshot(p) ==
  /\ At(p, "opened", {"snapshot"})
  /\ snaps' = snaps \cup {Created(p)}
  /\ fresh' = fresh + 1
  /\ proc' = [proc EXCEPT ![p].pc = "applied"]
  /\ UNCHANGED <<scope, config, state, pid, listener, entered, removed, disturbed>>

\* restore_snapshot: its entries get new clocks, which is what is marked.
Restore(p) ==
  /\ At(p, "opened", {"restore"})
  /\ Cfg(p).restore
  /\ Restorable(p) # {}
  /\ fresh' = fresh + 1
  /\ proc' = [proc EXCEPT ![p].pc = "applied", ![p].marks = @ \cup {fresh + 1}]
  /\ UNCHANGED <<scope, files, listener, entered, removed, disturbed>>

\* BackupManager::plan_prune: all but the newest ones, by age or by number.
Planned(mine, keep) == {s \in mine : Cardinality({t \in mine : t.id > s.id}) >= keep}

\* prune_snapshots: the oldest of an adapter.
Prune(p) ==
  /\ At(p, "loaded", {"prune"})
  /\ Cfg(p).enabled /\ Legible(Cfg(p).dir, Arg(p))
  /\ LET mine == {s \in snaps : s.dir = Cfg(p).dir /\ s.adapter = Arg(p)}
     IN  \E keep \in 0 .. 1 :
           snaps' = snaps \ Planned(mine, keep)
  /\ Ends(p)
  /\ UNCHANGED <<scope, config, state, pid, listener, entered, fresh, removed, disturbed>>

-----------------------------------------------------------------------------
(* rotate_app_key and import_app_key: the state is sealed anew, then the   *)
(* snapshots of the default adapter, then the configuration gets the key.  *)

\* A mutant: the new key comes with a new state.
RotateAnew(p) ==
  /\ At(p, "loaded", {"rotate"})
  /\ state' = [key |-> fresh + 1, marks |-> {}]
  /\ fresh' = fresh + 1
  /\ proc' = [proc EXCEPT ![p].pc = "sealing", ![p].key = fresh + 1]
  /\ UNCHANGED <<scope, config, snaps, pid, listener, entered, removed, disturbed>>

\* A state that the old key does not open gives way to a new one.
RotateState(p) ==
  /\ At(p, "loaded", {"rotate"})
  /\ state' = [key |-> fresh + 1, marks |-> Opened(Cfg(p).key).marks]
  /\ fresh' = fresh + 1
  /\ proc' = [proc EXCEPT ![p].pc = "sealing", ![p].key = fresh + 1,
       ![p].todo = IF ~Cfg(p).enabled THEN {}
                   ELSE {s.id : s \in {t \in snaps : t.dir = Cfg(p).dir /\ t.adapter = "file"}}]
  /\ UNCHANGED <<scope, config, snaps, pid, listener, entered, removed, disturbed>>

\* BackupManager::reencrypt_snapshots, one of them.
Reencrypted(found, key) == {[s EXCEPT !.key = key] : s \in found}

\* One snapshot; one that the old key does not open, that is gone, or that is cut
\* short, which list_snapshots meets before the first, ends the command, with the
\* state sealed and the configuration not.
Reseal(p) ==
  /\ At(p, "sealing", {"rotate"})
  /\ \E i \in proc[p].todo :
       LET found == {s \in snaps : s.id = i /\ s.key = Cfg(p).key}
       IN  IF found = {} \/ ~Legible(Cfg(p).dir, "file")
           THEN /\ Ends(p)
                /\ disturbed' = TRUE
                /\ UNCHANGED snaps
           ELSE /\ snaps' = (snaps \ found) \cup Reencrypted(found, proc[p].key)
                /\ proc' = [proc EXCEPT ![p].todo = @ \ {i}]
                /\ UNCHANGED disturbed
  /\ UNCHANGED <<scope, config, state, pid, listener, entered, fresh, removed>>

\* A mutant: the configuration keeps its key.
RotateForgets(p) ==
  /\ At(p, "sealing", {"rotate"})
  /\ proc[p].todo = {}
  /\ config' = [Cfg(p) EXCEPT !.devices = IF Arg(p) = "clear" THEN {} ELSE @]
  /\ Ends(p)
  /\ UNCHANGED <<scope, state, snaps, pid, listener, entered, fresh, removed, disturbed>>

RotateConfig(p) ==
  /\ At(p, "sealing", {"rotate"})
  /\ proc[p].todo = {}
  /\ config' = [Cfg(p) EXCEPT !.key = proc[p].key,
                              !.devices = IF Arg(p) = "clear" THEN {} ELSE @]
  /\ Ends(p)
  /\ UNCHANGED <<scope, state, snaps, pid, listener, entered, fresh, removed, disturbed>>

\* init --force: a new configuration, then an empty state under its key.
InitConfig(p) ==
  /\ At(p, "loaded", {"init"})
  /\ config' = NewConfig(fresh + 1)
  /\ fresh' = fresh + 1
  /\ proc' = [proc EXCEPT ![p].pc = "opened", ![p].cfg = NewConfig(fresh + 1)]
  /\ disturbed' = TRUE
  /\ UNCHANGED <<scope, state, snaps, pid, listener, entered, removed>>

InitState(p) ==
  /\ At(p, "opened", {"init"})
  /\ state' = [key |-> Cfg(p).key, marks |-> {}]
  /\ Ends(p)
  /\ UNCHANGED <<scope, config, snaps, pid, listener, entered, fresh, removed, disturbed>>

-----------------------------------------------------------------------------
(* The background listener.                                                *)

Up == listener.pid # 0

\* spawn_background_listener writes the pid of the child, which ends at once if
\* another has the port or the state does not open.
SpawnChild(auto) ==
  /\ fresh' = fresh + 1
  /\ LET o == Opened(config.key)
     IN  listener' = IF Up \/ o = NoState THEN listener
                     ELSE [pid |-> fresh + 1, cfg |-> config, marks |-> o.marks,
                           key |-> config.key, auto |-> auto]

Spawn(auto) == SpawnChild(auto) /\ pid' = fresh + 1

Listen(p) ==
  /\ At(p, "loaded", {"listen"})
  /\ Spawn(Arg(p) = "auto")
  /\ Ends(p)
  /\ UNCHANGED <<scope, config, state, snaps, entered, removed, disturbed>>

\* ensure_listener_running: watch starts one unless somebody has the port, or
\* it was told not to.
EnsureListener(p) ==
  /\ At(p, "begun", {"watch"})
  /\ \/ ~Up /\ Spawn(config.auto # "off")
     \/ UNCHANGED <<fresh, pid, listener>>
  /\ proc' = [proc EXCEPT ![p].pc = "loaded"]
  /\ UNCHANGED <<scope, config, state, snaps, entered, removed, disturbed>>

\* watch is interrupted between two refreshes.
Interrupted(p) ==
  /\ At(p, "loaded", {"watch"})
  /\ Ends(p)
  /\ UNCHANGED <<scope, files, listener, entered, fresh, removed, disturbed>>

\* stop_listener kills the process the pid file names, if it runs, also in the
\* middle of a save.
Stop(p) ==
  /\ At(p, "loaded", {"stop"})
  /\ IF Up /\ pid = listener.pid
     THEN /\ listener' = Down
          /\ \/ UNCHANGED <<config, state>>
             \/ config' = NoConfig /\ UNCHANGED state
             \/ state' = NoState /\ UNCHANGED config
     ELSE UNCHANGED <<listener, config, state>>
  /\ pid' = 0
  /\ disturbed' = (disturbed \/ config'.key = Cut)
  /\ Ends(p)
  /\ UNCHANGED <<scope, snaps, entered, fresh, removed>>

\* ConfigHandler: a link request that the user, or auto-approval, accepts, and
\* set_app_key if it came with a key of its own.
Approve(d, k) ==
  /\ Up /\ fresh < scope.events
  /\ k \in {listener.cfg.key, fresh + 1}
  /\ LET c == [listener.cfg EXCEPT !.devices = @ \cup {d}, !.key = k]
     IN  listener' = [listener EXCEPT !.cfg = c] /\ config' = c
  /\ fresh' = fresh + 1
  /\ removed' = removed \ {d}
  /\ disturbed' = (disturbed \/ k # listener.cfg.key)
  /\ UNCHANGED <<scope, state, snaps, pid, proc, entered>>

\* auto_approve_devices: with auto-approval the listener links with what it
\* discovers, if that device accepts it, and takes the key of the answer.
AutoLink(d, k) ==
  /\ Up /\ fresh < scope.events
  /\ listener.auto \/ listener.cfg.auto # "off"
  /\ d \notin listener.cfg.devices
  /\ k \in {listener.cfg.key, fresh + 1}
  /\ LET c == [listener.cfg EXCEPT !.devices = @ \cup {d}, !.key = k]
     IN  listener' = [listener EXCEPT !.cfg = c] /\ config' = c
  /\ fresh' = fresh + 1
  /\ removed' = removed \ {d}
  /\ disturbed' = (disturbed \/ k # listener.cfg.key)
  /\ UNCHANGED <<scope, state, snaps, pid, proc, entered>>

\* auto_approve_state: auto-approval has expired.
Expire ==
  /\ Up /\ listener.cfg.auto = "timed"
  /\ LET c == [listener.cfg EXCEPT !.auto = "off"]
     IN  listener' = [listener EXCEPT !.cfg = c] /\ config' = c
  /\ UNCHANGED <<scope, state, snaps, pid, proc, entered, fresh, removed, disturbed>>

\* A device that the listener's copy lists synchronizes.
Serve ==
  /\ Up /\ listener.cfg.devices # {} /\ fresh < scope.events
  /\ fresh' = fresh + 1
  /\ listener' = [listener EXCEPT !.marks = @ \cup {fresh + 1}]
  /\ UNCHANGED <<scope, files, proc, entered, removed, disturbed>>

\* Engine::watch saves with the key it was started with.
WatchSave ==
  /\ Up /\ listener.cfg.adapters # {}
  /\ state' = [key |-> listener.key, marks |-> listener.marks]
  /\ UNCHANGED <<scope, config, snaps, pid, proc, listener, entered, fresh, removed, disturbed>>

\* Interrupted or after its time: the state is saved under the copy's key.
Exit ==
  /\ Up
  /\ state' = [key |-> listener.cfg.key, marks |-> listener.marks]
  /\ listener' = Down
  /\ UNCHANGED <<scope, config, snaps, pid, proc, entered, fresh, removed, disturbed>>

-----------------------------------------------------------------------------
(* A command is killed.  fs::write empties a file before it fills it.      *)

WritesConfig(p) ==
  \/ At(p, "loaded", {"select", "configure", "approve", "keys", "secret", "link", "init"})
  \/ At(p, "loaded", {"address", "unlink"}) /\ Arg(p) \in Cfg(p).devices
  \/ At(p, "stored", Refreshing)
  \/ At(p, "sealing", {"rotate"}) /\ proc[p].todo = {}

WritesState(p) ==
  \/ MayOpen(p) /\ Opened(Cfg(p).key) # NoState
  \/ MaySave(p)
  \/ At(p, "loaded", {"rotate"})
  \/ At(p, "opened", {"init"})

\* A new snapshot, or one that is sealed anew.
CutSnapshot(p) ==
  \/ /\ At(p, "opened", {"snapshot"})
     /\ snaps' = snaps \cup {[Created(p) EXCEPT !.key = Cut]}
     /\ fresh' = fresh + 1
  \/ /\ At(p, "sealing", {"rotate"}) /\ Legible(Cfg(p).dir, "file")
     /\ \E s \in snaps :
          /\ s.id \in proc[p].todo /\ s.key = Cfg(p).key
          /\ snaps' = (snaps \ {s}) \cup {[s EXCEPT !.key = Cut]}
     /\ UNCHANGED fresh

\* The listener is started, and the pid file is as it was or empty.
CutPid(p) ==
  /\ \/ At(p, "loaded", {"listen"}) /\ SpawnChild(Arg(p) = "auto")
     \/ At(p, "begun", {"watch"}) /\ ~Up /\ SpawnChild(config.auto # "off")
  /\ pid' \in {pid, 0}

Kill(p) ==
  /\ scope.kills /\ p \in Running
  /\ Ends(p)
  /\ \/ UNCHANGED <<files, listener, fresh>>
     \/ WritesConfig(p) /\ config' = NoConfig /\ UNCHANGED <<state, snaps, pid, listener, fresh>>
     \/ WritesState(p) /\ state' = NoState /\ UNCHANGED <<config, snaps, pid, listener, fresh>>
     \/ CutSnapshot(p) /\ UNCHANGED <<config, state, pid, listener>>
     \/ CutPid(p) /\ UNCHANGED <<config, state, snaps>>
  /\ disturbed' = (disturbed \/ At(p, "sealing", {"rotate"}) \/ config'.key = Cut)
  /\ UNCHANGED <<scope, entered, removed>>

Command(p) ==
  \/ Configure(p) \/ Link(p) \/ Unlink(p)
  \/ OpenState(p) \/ Sync(p) \/ SyncFails(p) \/ SaveState(p) \/ SaveConfig(p) \/ Refused(p)
  \/ Snapshot(p) \/ Restore(p) \/ Prune(p)
  \/ RotateState(p) \/ Reseal(p) \/ RotateConfig(p) \/ InitConfig(p) \/ InitState(p)
  \/ Listen(p) \/ EnsureListener(p) \/ Interrupted(p) \/ Stop(p)

Ops == {"select", "configure", "approve", "keys", "address", "secret", "link", "unlink",
        "refresh", "watch",
        "snapshot", "restore", "prune", "rotate", "init", "listen", "stop"}

Next ==
  \/ \E p \in Proc : Command(p) \/ Kill(p)
                     \/ \E op \in Ops : \/ KillBegun(p, op)
                                        \/ \E arg \in Arguments(op) : Begin(p, op, arg)
  \/ \E d \in Device : \E k \in {listener.cfg.key, fresh + 1} : Approve(d, k) \/ AutoLink(d, k)
  \/ Expire \/ Serve \/ WatchSave \/ Exit

Spec == Init /\ [][Next]_vars

-----------------------------------------------------------------------------
(* Properties.                                                             *)

\* SECURITY.md "encrypts sync payloads and state/backup storage": with one
\* process at a time the configured key opens the state and the snapshots of the
\* default adapter, but for the files whose own write was killed, unless a key
\* change or the configuration was cut short, or a peer brought a key.
KeyOpens ==
  scope.alone /\ ~disturbed /\ (\A d, e \in Dir : d = e) /\ Running = {} =>
    /\ state.key \in {Cut, config.key}
    /\ \A s \in snaps : s.adapter = "file" => s.key \in {Cut, config.key}

\* What one command has stored in the state, no later one drops, unless it is
\* killed inside its own write of the state.
StoredIsKept ==
  [][scope.alone /\ ~disturbed' /\ ~Up /\ state.key # Cut /\ state'.key # Cut =>
       state.marks \subseteq state'.marks]_vars

\* SECURITY.md "it must re-link before any refresh".
UnlinkSticks == removed \cap config.devices = {}
=============================================================================
