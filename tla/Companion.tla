----------------------------- MODULE Companion -----------------------------
(***************************************************************************)
(* The companion manager (companion.rs) as the tray application            *)
(* and the daemon drive it: one registry file of application spaces, one   *)
(* session per space, backups sealed under a key of the key store.  The    *)
(* commands of the manager take its lock; a command on a device of a space *)
(* takes the session out of the manager and works on it without the lock.  *)
(* The process may be killed and the power may fail anywhere.              *)
(***************************************************************************)
EXTENDS Integers, FiniteSets

CONSTANTS Space,    \* the random identifiers of spaces
          Peer,     \* devices enrolled in a space
          Task,     \* device commands that may be under way together
          Retain,   \* retain_backups
          Scopes    \* bounds of the behaviours:
                    \*   overlap  device commands run beside the manager's
                    \*   back     the clock may be set back
                    \*   ops      commands entered
                    \*   faults   kills, power failures and failing steps

CompanionAssumption ==
  /\ "none" \notin Space
  /\ Retain \in 1 .. 20
  /\ \A c \in Scopes : c.overlap \in BOOLEAN /\ c.back \in BOOLEAN
                       /\ c.ops \in Nat /\ c.faults \in Nat

VARIABLES
  scope,
  file,      \* the registry as spaces.json shows it
  disk,      \* the registry a power failure leaves at the least
  up, fenced,
  registry,  \* the registry in memory
  open,      \* the sessions the manager owns
  phase,     \* phase[s]: what the session object of s does; "none": there is none
  peers,     \* peers[s]: devices trusted by s, in its own journal
  op,        \* the manager's command under way: [kind, space, pc, todo]
  task,      \* task[t]: a device command: [space, pc, running]
  store,     \* store[s]: the backup key in the key store; 0: absent
  lost,      \* lost[s]: a key that disappeared from the key store
  saves,     \* saves[s]: the backups [time, key] of s
  clock,
  spent, faults, keys,
  told,      \* history: what the last command on s that succeeded promised
  promised   \* history: the last backup of s reported as taken; time 0: none

registers == <<file, disk, registry>>
sessions == <<open, phase, peers>>
backups == <<store, lost, saves, clock, keys, promised>>
vars == <<scope, registers, up, fenced, sessions, op, task, backups, spent, faults, told>>

NoOp == [kind |-> "none", space |-> "none", pc |-> "none", todo |-> {}]
NoTask == [space |-> "none", pc |-> "none", running |-> FALSE]
Empty == [s \in Space |-> "absent"]

\* Registries, commands of the manager and of devices, backups.
Listing == [Space -> {"absent", "on", "paused"}]
OpState == [kind : {"add", "pause", "resume", "remove"}, space : Space,
            pc : {"persist", "pause", "resume", "remove", "stop"}, todo : SUBSET Peer]
TaskState == [space : Space, pc : {"read", "stop", "start"}, running : BOOLEAN]
Save == [time : Nat, key : Nat]

Init ==
  /\ scope \in Scopes
  /\ file = Empty /\ disk = Empty /\ registry = Empty
  /\ up = FALSE /\ fenced = FALSE
  /\ open = {} /\ phase = [s \in Space |-> "none"] /\ peers = [s \in Space |-> {}]
  /\ op = NoOp /\ task = [t \in Task |-> NoTask]
  /\ store = [s \in Space |-> 0] /\ lost = [s \in Space |-> 0]
  /\ saves = [s \in Space |-> {}]
  /\ clock = 1
  /\ spent = 0 /\ faults = 0 /\ keys = 0
  /\ told = [s \in Space |-> "nothing"]
  /\ promised = [s \in Space |-> [time |-> 0, key |-> 0]]

\* A step that may fail, within the bound; ok says whether it did its work.
Outcome(ok) ==
  /\ ok \/ faults < scope.faults
  /\ faults' = IF ok THEN faults ELSE faults + 1

Held(s) == \E t \in Task : task[t].space = s
\* A session nobody owns any more is dropped, which shuts it down.
Dropped(s, owners) == IF s \in owners \/ Held(s) THEN "stopped" ELSE "none"

-----------------------------------------------------------------------------
(* open_with_catalog: under the lease; a space that cannot be opened stops *)
(* every one opened before it.                                             *)

Open ==
  /\ ~up
  /\ \E ok \in BOOLEAN :
       /\ Outcome(ok)
       /\ up' = ok
       /\ registry' = IF ok THEN file ELSE registry
       /\ open' = IF ok THEN {s \in Space : file[s] # "absent"} ELSE {}
       /\ phase' = [s \in Space |->
            CASE ok /\ file[s] = "on" -> "running"
              [] ok /\ file[s] = "paused" -> "paused"
              [] OTHER -> "none"]
  /\ fenced' = FALSE
  /\ UNCHANGED <<scope, file, disk, peers, op, task, backups, spent, told>>

\* A manager's command begins: it takes the lock and finds the session.
Command(kind, s) ==
  /\ up /\ op = NoOp
  /\ spent < scope.ops
  /\ scope.overlap \/ \A t \in Task : task[t] = NoTask
  /\ spent' = spent + 1
  /\ op' = [kind |-> kind, space |-> s, pc |-> "persist", todo |-> {}]

\* add_app: the session is opened and started before the registry knows it.
Add(s) ==
  /\ Command("add", s)
  /\ registry[s] = "absent" /\ told[s] = "nothing" /\ phase[s] = "none"
  /\ file[s] = "absent" /\ disk[s] = "absent"
  /\ phase' = [phase EXCEPT ![s] = "running"]
  /\ UNCHANGED <<scope, registers, up, fenced, open, peers, task, backups, faults, told>>

Change(kind, s) ==
  /\ kind \in {"pause", "resume", "remove"}
  /\ Command(kind, s)
  /\ ~fenced /\ s \in open
  /\ UNCHANGED <<scope, registers, up, fenced, sessions, task, backups, faults, told>>

Candidate ==
  [registry EXCEPT ![op.space] =
     CASE op.kind \in {"add", "resume"} -> "on"
       [] op.kind = "pause" -> "paused"
       [] op.kind = "remove" -> "absent"]

\* Mutants: an uncertain commit that only raises the fence; a commit that does
\* not wait for the directory.
UncertainRuns ==
  /\ op.pc = "persist" /\ ~fenced
  /\ Outcome(FALSE)
  /\ file' = Candidate
  /\ fenced' = TRUE
  /\ told' = [told EXCEPT ![op.space] = "unknown"]
  /\ op' = NoOp
  /\ UNCHANGED <<scope, disk, registry, up, open, phase, peers, task, backups, spent>>
PersistUnsynced ==
  /\ op.pc = "persist" /\ ~fenced
  /\ file' = Candidate /\ registry' = Candidate
  /\ IF op.kind = "add"
     THEN open' = open \cup {op.space} /\ op' = NoOp
     ELSE open' = open /\ op' = [op EXCEPT !.pc = op.kind, !.todo = peers[op.space]]
  /\ told' = [told EXCEPT ![op.space] = IF op.kind = "add" THEN "on" ELSE "unknown"]
  /\ UNCHANGED <<scope, disk, up, fenced, phase, peers, task, backups, spent, faults>>

\* persist_registry fails before the rename, or the manager is fenced.
PersistFails ==
  /\ op.pc = "persist"
  /\ IF fenced THEN faults' = faults ELSE Outcome(FALSE)
  /\ phase' = IF op.kind = "add" THEN [phase EXCEPT ![op.space] = "none"] ELSE phase
  /\ op' = NoOp
  /\ UNCHANGED <<scope, registers, up, fenced, open, peers, task, backups, spent, told>>

\* atomic renames the file and cannot make the rename durable.
PersistUncertain ==
  /\ op.pc = "persist" /\ ~fenced
  /\ Outcome(FALSE)
  /\ file' = Candidate
  /\ fenced' = TRUE
  /\ phase' = [s \in Space |->
       IF s \in open THEN "stopped" ELSE IF s = op.space THEN "none" ELSE phase[s]]
  /\ told' = [told EXCEPT ![op.space] = "unknown"]
  /\ op' = NoOp
  /\ UNCHANGED <<scope, disk, registry, up, open, peers, task, backups, spent>>

Persist ==
  /\ op.pc = "persist" /\ ~fenced
  /\ file' = Candidate /\ disk' = Candidate /\ registry' = Candidate
  /\ IF op.kind = "add"
     THEN /\ open' = open \cup {op.space}
          /\ told' = [told EXCEPT ![op.space] = "on"]
          /\ op' = NoOp
     ELSE /\ told' = [told EXCEPT ![op.space] = "unknown"]
          /\ op' = [op EXCEPT !.pc = op.kind, !.todo = peers[op.space]]
          /\ UNCHANGED open
  /\ UNCHANGED <<scope, up, fenced, phase, peers, task, backups, spent, faults>>

-----------------------------------------------------------------------------
(* What follows the registry: the session itself.                          *)

\* Stopping a session ends its workers even when its journal cannot be written.
Pause ==
  /\ op.pc = "pause"
  /\ \E ok \in BOOLEAN :
       /\ Outcome(ok)
       /\ told' = IF ok THEN [told EXCEPT ![op.space] = "paused"] ELSE told
  /\ phase' = [phase EXCEPT ![op.space] = "paused"]
  /\ op' = NoOp
  /\ UNCHANGED <<scope, registers, up, fenced, open, peers, task, backups, spent>>

Resume ==
  /\ op.pc = "resume"
  /\ \E ok \in BOOLEAN :
       /\ Outcome(ok)
       /\ phase' = IF ok THEN [phase EXCEPT ![op.space] = "running"] ELSE phase
       /\ told' = IF ok THEN [told EXCEPT ![op.space] = "on"] ELSE told
  /\ op' = NoOp
  /\ UNCHANGED <<scope, registers, up, fenced, open, peers, task, backups, spent>>

\* remove revokes the devices it found one by one, each with a restart of the
\* session, and gives up at the first that fails.
Revoke(p) ==
  /\ op.pc = "remove" /\ p \in op.todo
  /\ \E ok \in BOOLEAN :
       /\ Outcome(ok)
       /\ peers' = IF ok THEN [peers EXCEPT ![op.space] = @ \ {p}] ELSE peers
       /\ op' = IF ok THEN [op EXCEPT !.todo = @ \ {p}] ELSE [op EXCEPT !.pc = "stop"]
  /\ UNCHANGED <<scope, registers, up, fenced, open, phase, task, backups, spent, told>>

Remove ==
  /\ \/ op.pc = "remove" /\ op.todo = {}
     \/ op.pc = "stop"
  /\ open' = open \ {op.space}
  /\ phase' = [phase EXCEPT ![op.space] = Dropped(op.space, open')]
  /\ told' = [told EXCEPT ![op.space] = IF op.pc = "remove" THEN "removed" ELSE "unknown"]
  /\ op' = NoOp
  /\ UNCHANGED <<scope, registers, up, fenced, peers, task, backups, spent, faults>>

\* A device enrols with a running session (SecurePairing).
Enrol(s, p) ==
  /\ phase[s] = "running" /\ s \in open /\ p \notin peers[s]
  /\ peers' = [peers EXCEPT ![s] = @ \cup {p}]
  /\ UNCHANGED <<scope, registers, up, fenced, open, phase, op, task, backups, spent, faults,
                 told>>

-----------------------------------------------------------------------------
(* peer_action and connect_invitation with a repair: remove_peer and       *)
(* pause_peer of the session, in three steps, none under the lock.         *)

Grab(t, s) ==
  /\ up /\ op = NoOp /\ ~fenced
  /\ task[t] = NoTask /\ s \in open
  /\ spent < scope.ops
  /\ spent' = spent + 1
  /\ task' = [task EXCEPT ![t] = [space |-> s, pc |-> "read", running |-> FALSE]]
  /\ UNCHANGED <<scope, registers, up, fenced, sessions, op, backups, faults, told>>

ReadPhase(t) ==
  /\ task[t].pc = "read"
  /\ task' = [task EXCEPT ![t].pc = "stop", ![t].running = phase[task[t].space] = "running"]
  /\ UNCHANGED <<scope, registers, up, fenced, sessions, op, backups, spent, faults, told>>

StopSession(t) ==
  LET s == task[t].space IN
  /\ task[t].pc = "stop"
  /\ \E gone \in SUBSET peers[s] :
       /\ Cardinality(gone) <= 1     \* pause_peer keeps the device
       /\ peers' = [peers EXCEPT ![s] = @ \ gone]
  /\ phase' = [phase EXCEPT ![s] = "stopped"]
  /\ task' = [task EXCEPT ![t].pc = "start"]
  /\ UNCHANGED <<scope, registers, up, fenced, open, op, backups, spent, faults, told>>

RestartSession(t) ==
  LET s == task[t].space
      shared == s \in open \/ \E u \in Task \ {t} : task[u].space = s
  IN
  /\ task[t].pc = "start"
  /\ \E ok \in BOOLEAN :
       /\ Outcome(ok)
       /\ phase' = [phase EXCEPT ![s] =
            IF ~shared THEN "none" ELSE IF ok /\ task[t].running THEN "running" ELSE @]
  /\ task' = [task EXCEPT ![t] = NoTask]
  /\ UNCHANGED <<scope, registers, up, fenced, open, peers, op, backups, spent, told>>

-----------------------------------------------------------------------------
(* Backups.                                                                *)

\* Mutant: the newest names go first.
KeptOldest(names) ==
  {x \in names : Cardinality({y \in names : y.time < x.time}) < Retain}

\* The names are the times: the oldest beyond the retention go.
Kept(names) ==
  {x \in names : Cardinality({y \in names : y.time > x.time}) < Retain}

\* What is left when retention ends anywhere: the older names go first.
Remains(names) ==
  {left \in SUBSET names :
     /\ Kept(names) \subseteq left
     /\ \A x \in left, y \in names : y.time > x.time => y \in left}

\* The key of a backup: none while there are backups whose key is missing.
BackupKey(s) ==
  IF store[s] # 0 THEN {store[s]} ELSE IF saves[s] = {} THEN {keys + 1} ELSE {}

\* How far a backup gets: the key alone, the file and a part of what retention
\* removes, or all of it, which alone is reported.
Backup(s) ==
  /\ up /\ op = NoOp /\ ~fenced /\ s \in open
  /\ spent < scope.ops /\ spent' = spent + 1
  /\ \A x \in saves[s] : x.time # clock
  /\ \E k \in BackupKey(s), far \in {"key", "file", "all"} :
       LET new == [time |-> clock, key |-> k]
           names == saves[s] \cup {new}
       IN
       /\ Outcome(far = "all")
       /\ store' = [store EXCEPT ![s] = k]
       /\ keys' = IF k > keys THEN k ELSE keys
       /\ \E left \in (CASE far = "key" -> {saves[s]}
                         [] far = "file" -> Remains(names)
                         [] far = "all" -> {Kept(names)}) :
            saves' = [saves EXCEPT ![s] = left]
       /\ promised' = IF far = "all" THEN [promised EXCEPT ![s] = new] ELSE promised
  /\ UNCHANGED <<scope, registers, up, fenced, sessions, op, task, lost, clock, told>>

\* The key store is the operating system's: an item may go, and be put back.
KeyGoes(s) ==
  /\ store[s] # 0
  /\ Outcome(FALSE)
  /\ store' = [store EXCEPT ![s] = 0]
  /\ lost' = [lost EXCEPT ![s] = store[s]]
  /\ UNCHANGED <<scope, registers, up, fenced, sessions, op, task, saves, clock, keys, promised,
                 spent, told>>

KeyReturns(s) ==
  /\ store[s] = 0 /\ lost[s] # 0
  /\ store' = [store EXCEPT ![s] = lost[s]]
  /\ lost' = [lost EXCEPT ![s] = 0]
  /\ UNCHANGED <<scope, registers, up, fenced, sessions, op, task, saves, clock, keys, promised,
                 spent, faults, told>>

\* Time passes; it stays below the number of commands, which bound it.
Tick ==
  /\ \/ clock <= scope.ops /\ clock' = clock + 1
     \/ scope.back /\ clock > 1 /\ clock' = clock - 1
  /\ UNCHANGED <<scope, registers, up, fenced, sessions, op, task, store, lost, saves, keys,
                 promised, spent, faults, told>>

-----------------------------------------------------------------------------
(* The end of the process: the tray quits, it is killed, the power fails.  *)

Ended ==
  /\ up
  /\ up' = FALSE /\ fenced' = FALSE
  /\ open' = {} /\ phase' = [s \in Space |-> "none"]
  /\ op' = NoOp /\ task' = [t \in Task |-> NoTask]
  /\ UNCHANGED <<scope, registry, peers, backups, spent, told>>

\* "quit" takes the lock, so it waits for the command under way.
Quit ==
  /\ op = NoOp
  /\ Ended
  /\ UNCHANGED <<file, disk, faults>>

Kill ==
  /\ Ended /\ Outcome(FALSE)
  /\ UNCHANGED <<file, disk>>

PowerFails ==
  /\ Ended /\ Outcome(FALSE)
  /\ file' \in {file, disk} /\ disk' = file'

Next ==
  \/ Open \/ PersistFails \/ PersistUncertain \/ Persist \/ Pause \/ Resume \/ Remove
  \/ \E s \in Space :
       \/ Add(s) \/ Backup(s) \/ KeyGoes(s) \/ KeyReturns(s)
       \/ \E kind \in {"pause", "resume", "remove"} : Change(kind, s)
       \/ \E p \in Peer : Enrol(s, p)
       \/ \E t \in Task : Grab(t, s)
  \/ \E p \in Peer : Revoke(p)
  \/ \E t \in Task : ReadPhase(t) \/ StopSession(t) \/ RestartSession(t)
  \/ Tick \/ Quit \/ Kill \/ PowerFails

Spec == Init /\ [][Next]_vars

-----------------------------------------------------------------------------
(* Properties.                                                             *)

\* The state is well typed; a command under way has a space.
TypeOK ==
  /\ scope \in Scopes
  /\ file \in Listing /\ disk \in Listing /\ registry \in Listing
  /\ up \in BOOLEAN /\ fenced \in BOOLEAN
  /\ open \in SUBSET Space
  /\ phase \in [Space -> {"none", "running", "paused", "stopped"}]
  /\ peers \in [Space -> SUBSET Peer]
  /\ op = NoOp \/ op \in OpState
  /\ task \in [Task -> {NoTask} \cup TaskState]
  /\ store \in [Space -> Nat] /\ lost \in [Space -> Nat] /\ keys \in Nat
  /\ saves \in [Space -> SUBSET Save] /\ promised \in [Space -> Save]
  /\ clock \in Nat /\ spent \in Nat /\ faults \in Nat
  /\ told \in [Space -> {"nothing", "on", "paused", "removed", "unknown"}]

AtRest == up /\ op = NoOp /\ \A t \in Task : task[t] = NoTask

\* What runs between two commands is what a restart would run: a session runs
\* only for a space that the registry file shows and shows unpaused, and none
\* once the durability of that file is in doubt.  add_app starts a session
\* before the registry is written, remove and pause stop it after.
AsRegistered ==
  AtRest => \A s \in Space :
    phase[s] = "running" => s \in open /\ file[s] = "on" /\ ~fenced

\* A removal that was reported stays: the space is in no copy of the registry
\* a power failure can bring back, and its session ends with the last command
\* that still holds it.
RemovedStays ==
  \A s \in Space : told[s] = "removed" =>
    /\ file[s] = "absent" /\ disk[s] = "absent"
    /\ phase[s] # "none" => Held(s)

\* A space that was reported paused does not run until it is resumed, whatever
\* is killed or loses power: the registry is durable before the session stops,
\* and open starts only what is not paused.
PauseSustained ==
  \A s \in Space : told[s] = "paused" => phase[s] # "running"

\* All backups of a space open with one key: while there are backups, a key
\* that the key store does not show is never replaced by a new one.
OneKey ==
  \A s \in Space : \A x, y \in saves[s] : x.key = y.key

\* The last backup that was reported as taken is there, or as many others as are
\* retained have a later name: also when later backups failed at any point after
\* retention had begun, or the clock was set back.
BackupKept ==
  \A s \in Space :
    \/ promised[s].time = 0
    \/ promised[s] \in saves[s]
    \/ Cardinality({x \in saves[s] : x.time > promised[s].time}) >= Retain
=============================================================================
