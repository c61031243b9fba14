----------------------------- MODULE KeyStorage -----------------------------
(***************************************************************************)
(* The key stores (keystore.rs): an application key and a device's         *)
(* certificate and private key, each a named item that is loaded, or made  *)
(* and stored when the store says it is absent.  The items are files here: *)
(* a fixed temporary file is written, synced and renamed, and the          *)
(* directory is not synced.  The command line stores (secret-tool,         *)
(* security) differ in how they tell an absent item from a locked store.   *)
(***************************************************************************)
EXTENDS Integers, FiniteSets

CONSTANTS Proc,    \* processes that use the store
          MaxKey,  \* keys made
          Scopes   \* bounds of the behaviours:
                   \*   alone   one process at a time
                   \*   power   the power may fail
                   \*   faults  kills, power failures and locked stores

KeyStorageAssumption ==
  \A c \in Scopes : c.alone \in BOOLEAN /\ c.power \in BOOLEAN /\ c.faults \in Nat

Item == {"app", "cert", "key"}
Absent == 0
Torn == -1

VARIABLES
  scope,
  file,    \* file[i]: what a reader finds under the name of i
  disk,    \* disk[i]: what a power failure may bring back
  tmp,     \* tmp[i]: the temporary file of i
  proc,    \* proc[p]: [pc, what, item, cert, new, at]: at names the file the
           \*          temporary one it opened has become
  made, faults,
  used     \* history: what was handed out: [what, cert, key]

vars == <<scope, file, disk, tmp, proc, made, faults, used>>

Resting == [pc |-> "idle", what |-> "app", item |-> "app", cert |-> Absent,
            new |-> 0, at |-> "tmp"]

Init ==
  /\ scope \in Scopes
  /\ file = [i \in Item |-> Absent] /\ disk = [i \in Item |-> Absent]
  /\ tmp = [i \in Item |-> Absent]
  /\ proc = [p \in Proc |-> Resting]
  /\ made = 0 /\ faults = 0
  /\ used = {}

Goes(p, pc) == proc' = [proc EXCEPT ![p].pc = pc]
Rests(p) == proc' = [proc EXCEPT ![p] = Resting]

\* load_or_create_app_key, load_or_create_device_keys
Begin(p, what) ==
  /\ proc[p].pc = "idle"
  /\ scope.alone => \A q \in Proc : proc[q].pc = "idle"
  /\ proc' = [proc EXCEPT ![p] = [Resting EXCEPT
       !.what = what, !.pc = IF what = "app" THEN "app?" ELSE "cert?"]]
  /\ UNCHANGED <<scope, file, disk, tmp, made, faults, used>>

HandsOut(p, cert, key) ==
  /\ used' = used \cup {[what |-> proc[p].what, cert |-> cert, key |-> key]}
  /\ proc' = [proc EXCEPT ![p] = Resting]

\* What get answers: the item, or absent for the store's own "no such item".
\* Mutant: any failure is an absent item.
FoundLoosely(i) == {file[i]} \cup (IF faults < scope.faults THEN {Absent} ELSE {})
Found(i) == {file[i]}

\* A locked, denied or failing store is an error, and nothing is made.
Locked(p) ==
  /\ proc[p].pc \in {"app?", "cert?", "key?"}
  /\ faults < scope.faults /\ faults' = faults + 1
  /\ Rests(p)
  /\ UNCHANGED <<scope, file, disk, tmp, made, used>>

\* A key of another length is refused; a certificate or private key is not.
GetApp(p) ==
  /\ proc[p].pc = "app?"
  /\ \E value \in Found("app") :
       CASE value = Absent -> Goes(p, "make") /\ UNCHANGED used
         [] value = Torn -> Rests(p) /\ UNCHANGED used
         [] OTHER -> HandsOut(p, value, value)
  /\ UNCHANGED <<scope, file, disk, tmp, made, faults>>

\* device_keys: the pair when both items are there.
GetCert(p) ==
  /\ proc[p].pc = "cert?"
  /\ \E value \in Found("cert") :
       proc' = [proc EXCEPT ![p].pc = "key?", ![p].cert = value]
  /\ UNCHANGED <<scope, file, disk, tmp, made, faults, used>>

GetKey(p) ==
  /\ proc[p].pc = "key?"
  /\ \E value \in Found("key") :
       IF value = Absent \/ proc[p].cert = Absent
       THEN Goes(p, "make") /\ UNCHANGED used
       ELSE HandsOut(p, proc[p].cert, value)
  /\ UNCHANGED <<scope, file, disk, tmp, made, faults>>

FirstItem(what) == IF what = "app" THEN "app" ELSE "cert"

\* AppKey::generate, DeviceKeys::generate
Make(p) ==
  /\ proc[p].pc = "make" /\ made < MaxKey
  /\ made' = made + 1
  /\ proc' = [proc EXCEPT ![p].new = made', ![p].pc = "open",
                          ![p].item = FirstItem(proc[p].what)]
  /\ UNCHANGED <<scope, file, disk, tmp, faults, used>>

\* FileKeyStore::set: the temporary file is opened and truncated ...
Truncate(p) ==
  /\ proc[p].pc = "open"
  /\ tmp' = [tmp EXCEPT ![proc[p].item] = Torn]
  /\ proc' = [proc EXCEPT ![p].pc = "write", ![p].at = "tmp"]
  /\ UNCHANGED <<scope, file, disk, made, faults, used>>

\* ... written and synced, where another writer may have renamed it ...
Fill(p) ==
  LET i == proc[p].item IN
  /\ proc[p].pc = "write"
  /\ tmp' = IF proc[p].at = "tmp" THEN [tmp EXCEPT ![i] = proc[p].new] ELSE tmp
  /\ file' = IF proc[p].at = "file" THEN [file EXCEPT ![i] = proc[p].new] ELSE file
  /\ Goes(p, "rename")
  /\ UNCHANGED <<scope, disk, made, faults, used>>

\* ... and renamed, in vain when another writer has renamed it away.
Renamed(i) ==
  [q \in Proc |->
     IF proc[q].pc = "write" /\ proc[q].item = i
     THEN [proc[q] EXCEPT !.at = IF @ = "tmp" THEN "file" ELSE "lost"]
     ELSE proc[q]]

Rename(p) ==
  LET i == proc[p].item IN
  /\ proc[p].pc = "rename"
  /\ \/ /\ tmp[i] = Absent
        /\ Rests(p)
        /\ UNCHANGED <<file, tmp, used>>
     \/ /\ tmp[i] # Absent
        /\ file' = [file EXCEPT ![i] = tmp[i]]
        /\ tmp' = [tmp EXCEPT ![i] = Absent]
        /\ IF i = "cert"
           THEN /\ proc' = [Renamed(i) EXCEPT ![p].pc = "open", ![p].item = "key"]
                /\ UNCHANGED used
           ELSE /\ proc' = [Renamed(i) EXCEPT ![p] = Resting]
                /\ used' = used \cup {[what |-> proc[p].what, cert |-> proc[p].new,
                                       key |-> proc[p].new]}
  /\ UNCHANGED <<scope, disk, made, faults>>

Kill(p) ==
  /\ proc[p].pc # "idle"
  /\ faults < scope.faults /\ faults' = faults + 1
  /\ Rests(p)
  /\ UNCHANGED <<scope, file, disk, tmp, made, used>>

\* The directory reaches the disk some time after the rename.
Settles(i) ==
  /\ disk[i] # file[i]
  /\ disk' = [disk EXCEPT ![i] = file[i]]
  /\ UNCHANGED <<scope, file, tmp, proc, made, faults, used>>

PowerFails ==
  /\ scope.power
  /\ faults < scope.faults /\ faults' = faults + 1
  /\ file' = disk
  /\ tmp' = [i \in Item |-> Absent]
  /\ proc' = [p \in Proc |-> Resting]
  /\ UNCHANGED <<scope, disk, made, used>>

Next ==
  \/ \E p \in Proc :
       \/ \E what \in {"app", "device"} : Begin(p, what)
       \/ Locked(p) \/ GetApp(p) \/ GetCert(p) \/ GetKey(p) \/ Make(p) \/ Kill(p)
       \/ Truncate(p) \/ Fill(p) \/ Rename(p)
  \/ \E i \in Item : Settles(i)
  \/ PowerFails

Spec == Init /\ [][Next]_vars

-----------------------------------------------------------------------------
(* Properties.                                                             *)

\* Whoever asks for a key gets the one that was handed out before, so what is
\* sealed with it opens and peers that pinned the certificate know the device
\* (load_or_create_app_key, load_or_create_device_keys).
KeyKept == \A x, y \in used : x.what = y.what => x = y

\* A certificate is handed out with the private key it was made with, whatever
\* was cut short between the two stores of a pair (set_device_keys).
PairMatches == \A x \in used : x.cert = x.key /\ x.cert # Torn

\* Both hold for one process at a time, killed or refused at any step, while the
\* directory keeps what was renamed into it.
KeptAlone == (scope.alone /\ ~scope.power) => (KeyKept /\ PairMatches)
=============================================================================
