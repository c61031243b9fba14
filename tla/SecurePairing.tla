---------------------------- MODULE SecurePairing ----------------------------
(***************************************************************************)
(* Secure enrollment of managed Sessions (crates/libresync/src/pairing.rs  *)
(* link_secure, accept_secure, recovery, PairingManager and                *)
(* session/pairing.rs Handler): an inviter commits first, under the lock   *)
(* of its invitations; the joiner has journaled a preparation before and   *)
(* commits after it, or recovers from its preparation later.               *)
(*                                                                         *)
(* The PAKE is assumed to do its job: who completes it knew the secret.    *)
(* Challenge and confirmation are one step of each side.  A connection     *)
(* may break, and either side may time out, between any two messages.      *)
(***************************************************************************)
EXTENDS FiniteSets, Integers

CONSTANTS
  Device,
  Invitation,  \* invitation ids; an id nobody refers to any more is reused
  Scopes       \* bounds of the behaviours, each of which keeps to one of them:
               \*   devices, inviters, invitations  how many there are
               \*   attempts  claims of one invitation (5 in the code)
               \*   faults    broken connections, time-outs, crashes
               \*   calls     removals and shutdowns by users
               \*   repairs   TRUE: users repair, as often as they like

Nobody == "nobody"
None == "none"

ASSUME PairingConstants ==
  /\ Scopes \subseteq [devices : Nat, inviters : Nat, invitations : Nat, attempts : Nat,
                      faults : Nat, calls : Nat, repairs : BOOLEAN]
  /\ Nobody \notin Device
  /\ None \notin Invitation

VARIABLES
  scope,    \* the bounds of this behaviour, and who takes part
  life,     \* life[d]: where start and stop are
  key,      \* key[d]: group_key, named by the device that generated it
  peers,    \* peers[d][p]: "absent", "active" or "revoked"
  journal,  \* journal[d][p]: invitation of the enrollment of p
  prepared, \* prepared[d]: preparations
  inv,      \* inv[i]: what its issuer's manager holds
  host,     \* host[i]: the inbound worker that has claimed i
  join,     \* join[d][i]: the connect call of d for i
  rec,      \* rec[d][i]: recovery by d of its preparation i
  wants,    \* wants[d]: the invitation that repair_peer is to use
  faults, calls,
  approved, \* history: the enrollments inviters have committed
  consent   \* history: consent[d][p], d may take p back

trust == <<key, peers, journal, prepared>>
vars == <<scope, life, trust, inv, host, join, rec, wants, faults, calls, approved, consent>>

HostIdle == [pc |-> "idle", peer |-> Nobody, up |-> FALSE, fenced |-> FALSE,
             in |-> None, key |-> Nobody]
JoinIdle == [pc |-> "idle", up |-> FALSE, fenced |-> FALSE, repair |-> FALSE,
             in |-> None, key |-> Nobody]
RecIdle == [pc |-> "idle", fenced |-> FALSE, key |-> Nobody]
Unissued == [by |-> Nobody, state |-> "free", attempts |-> 0, expired |-> FALSE]

Life == {"running", "removed", "fenced", "closed", "stopped"}
InvState == [by : Device \cup {Nobody}, state : {"free", "open", "claimed", "gone"},
             attempts : Nat, expired : BOOLEAN]
HostState ==
  [pc : {"idle", "challenged", "ready", "committing", "accepted"},
   peer : Device \cup {Nobody}, up : BOOLEAN, fenced : BOOLEAN,
   in : {None, "confirm", "prepared", "commit"}, key : Device \cup {Nobody}]
JoinState ==
  [pc : {"idle", "hello", "confirmed", "prepared", "committed"},
   up : BOOLEAN, fenced : BOOLEAN, repair : BOOLEAN,
   in : {None, "challenge", "ready", "accepted", "complete"}, key : Device \cup {Nobody}]
RecState == [pc : {"idle", "asked", "checked", "answered"}, fenced : BOOLEAN,
             key : Device \cup {Nobody}]

TypeOK ==
  /\ scope \in [devices : SUBSET Device, inviters : SUBSET Device, invitations : SUBSET Invitation,
               attempts : Nat, faults : Nat, calls : Nat, repairs : BOOLEAN]
  /\ life \in [Device -> Life]
  /\ key \in [Device -> Device]
  /\ peers \in [Device -> [Device -> {"absent", "active", "revoked"}]]
  /\ journal \in [Device -> [Device -> Invitation \cup {None}]]
  /\ prepared \in [Device -> SUBSET Invitation]
  /\ inv \in [Invitation -> InvState]
  /\ \A i \in Invitation : inv[i].attempts <= scope.attempts
  /\ host \in [Invitation -> HostState]
  /\ join \in [Device -> [Invitation -> JoinState]]
  /\ rec \in [Device -> [Invitation -> RecState]]
  /\ wants \in [Device -> Invitation \cup {None}]
  /\ faults \in 0 .. scope.faults
  /\ calls \in 0 .. scope.calls
  /\ approved \subseteq Invitation \X Device
  /\ consent \in [Device -> [Device -> BOOLEAN]]

\* Nothing is under way.
Quiet ==
  /\ \E b \in Scopes, D \in SUBSET Device, I \in SUBSET Invitation : \E H \in SUBSET D :
       /\ Cardinality(D) = b.devices
       /\ Cardinality(H) = b.inviters
       /\ Cardinality(I) = b.invitations
       /\ scope = [b EXCEPT !.devices = D, !.inviters = H, !.invitations = I]
  /\ life = [d \in Device |-> "running"]
  /\ prepared = [d \in Device |-> {}]
  /\ host = [i \in Invitation |-> HostIdle]
  /\ join = [d \in Device |-> [i \in Invitation |-> JoinIdle]]
  /\ rec = [d \in Device |-> [i \in Invitation |-> RecIdle]]
  /\ wants = [d \in Device |-> None]
  /\ faults = 0
  /\ calls = 0
  /\ consent = [d \in Device |-> [p \in Device |-> FALSE]]

Init ==
  /\ Quiet
  /\ key = [d \in Device |-> d]
  /\ peers = [d \in Device |-> [p \in Device |-> "absent"]]
  /\ journal = [d \in Device |-> [p \in Device |-> None]]
  /\ inv = [i \in Invitation |-> Unissued]
  /\ approved = {}

Running(d) == life[d] \in {"running", "removed"}
By(i) == inv[i].by

-----------------------------------------------------------------------------
(* Ends of connections *)

\* Inbound workers H and connect calls J end.  The other side may still read
\* what was sent to it, but can send nothing more.
Ended(H, J) ==
  /\ host' = [i \in Invitation |->
       IF i \in H THEN HostIdle
       ELSE [host[i] EXCEPT !.up = @ /\ <<host[i].peer, i>> \notin J]]
  /\ join' = [d \in Device |-> [i \in Invitation |->
       IF <<d, i>> \in J THEN JoinIdle
       ELSE [join[d][i] EXCEPT !.up = @ /\ ~(i \in H /\ host[i].up /\ host[i].peer = d)]]]

\* Handlers of d carry the generation they were made in.
Fenced(d) ==
  /\ host' = [i \in Invitation |->
       IF By(i) = d /\ host[i].pc # "idle" THEN [host[i] EXCEPT !.fenced = TRUE] ELSE host[i]]
  /\ join' = [join EXCEPT ![d] = [i \in Invitation |->
       IF @[i].pc # "idle" THEN [@[i] EXCEPT !.fenced = TRUE] ELSE @[i]]]
  /\ rec' = [rec EXCEPT ![d] = [i \in Invitation |->
       IF @[i].pc # "idle" THEN [@[i] EXCEPT !.fenced = TRUE] ELSE @[i]]]

\* Threads of d that recover, or answer a recovery, are gone.
RecoveriesEnd(d) ==
  rec' = [j \in Device |-> [i \in Invitation |->
    IF j = d \/ (By(i) = d /\ rec[j][i].pc \in {"asked", "checked"})
    THEN RecIdle ELSE rec[j][i]]]

Sent(i, m, k) ==
  join' = IF host[i].up
          THEN [join EXCEPT ![host[i].peer][i].in = m, ![host[i].peer][i].key = k]
          ELSE join

-----------------------------------------------------------------------------
(* Handler: validate and commit_secure_pairing *)

Valid(d, p, fenced, repair) ==
  /\ Running(d) /\ ~fenced
  /\ peers[d][p] = "revoked" => repair

\* Mutant of SameGroup: the peer that is being enrolled is not counted.
AnyGroup(d, k) == k # key[d] => Cardinality({p \in Device : peers[d][p] = "active"}) <= 1

\* An enrolled group does not change its key.
SameGroup(d, k) == k # key[d] => \A p \in Device : peers[d][p] # "active"

CommitAt(d, p, i, k) ==
  /\ key' = [key EXCEPT ![d] = k]
  /\ peers' = [peers EXCEPT ![d][p] = "active"]
  /\ journal' = [journal EXCEPT ![d][p] = i]
  /\ prepared' = [prepared EXCEPT ![d] = @ \ {i}]

-----------------------------------------------------------------------------
(* The inviter *)

\* No commit is under way: it holds the lock of the invitations of d.
Unlocked(d) == \A i \in Invitation : By(i) = d => host[i].pc # "committing"

Invite(d, i) ==
  /\ d \in scope.inviters /\ i \in scope.invitations
  /\ Running(d)
  /\ inv[i].state = "free"
  /\ Unlocked(d)
  /\ inv' = [inv EXCEPT ![i] = [by |-> d, state |-> "open", attempts |-> 0, expired |-> FALSE]]
  /\ UNCHANGED <<life, trust, host, join, rec, wants, faults, calls, approved, consent, scope>>

Exhausted(i) == inv[i].state = "open" /\ inv[i].attempts = scope.attempts

\* Some claim has not seen its end yet.
InUse(i) ==
  host[i].pc = "accepted" \/ \E d \in Device : join[d][i].pc \in {"confirmed", "prepared"}

\* Within five minutes of its creation; a fault while it could still be used.
Expire(i) ==
  /\ inv[i].state \in {"open", "claimed"} \/ InUse(i)
  /\ ~inv[i].expired
  /\ \/ Exhausted(i) /\ faults' = faults
     \/ ~Exhausted(i) /\ faults < scope.faults /\ faults' = faults + 1
  /\ inv' = [inv EXCEPT ![i].expired = TRUE]
  /\ UNCHANGED <<life, trust, host, join, rec, wants, calls, approved, consent, scope>>

Claimable(i) ==
  /\ inv[i].state = "open"
  /\ inv[i].attempts < scope.attempts
  /\ ~inv[i].expired

\* A worker that ends gives its claim back.
Released(i) == IF inv[i].state = "claimed" THEN [inv EXCEPT ![i].state = "open"] ELSE inv

\* PairHello: the invitation is claimed and the challenge sent.
Claim(i, j) ==
  LET d == By(i) IN
  /\ host[i].pc = "idle"
  /\ join[j][i].pc = "hello" /\ join[j][i].up /\ join[j][i].in = None
  /\ Claimable(i) /\ Running(d) /\ Unlocked(d)
  /\ inv' = [inv EXCEPT ![i].state = "claimed", ![i].attempts = @ + 1]
  /\ host' = [host EXCEPT ![i] = [HostIdle EXCEPT !.pc = "challenged", !.peer = j, !.up = TRUE]]
  /\ join' = [join EXCEPT ![j][i].in = "challenge"]
  /\ UNCHANGED <<life, trust, rec, wants, faults, calls, approved, consent, scope>>

\* PairConfirm, PairReady
Ready(i) ==
  /\ host[i].pc = "challenged"
  /\ host[i].in = "confirm"
  /\ ~inv[i].expired
  /\ host' = [host EXCEPT ![i].pc = "ready", ![i].in = None]
  /\ Sent(i, "ready", Nobody)
  /\ UNCHANGED <<life, trust, inv, rec, wants, faults, calls, approved, consent, scope>>

\* PairPrepared: the manager's lock is taken and the group key read.
LockManager(i) ==
  /\ host[i].pc = "ready"
  /\ host[i].in = "prepared"
  /\ Unlocked(By(i))
  /\ inv[i].state = "claimed" /\ ~inv[i].expired
  /\ host' = [host EXCEPT ![i].pc = "committing", ![i].in = None, ![i].key = key[By(i)]]
  /\ UNCHANGED <<life, trust, inv, join, rec, wants, faults, calls, approved, consent, scope>>

\* Mutant of HostCommit: the invitation stays.
HostCommitKeepsOpen(i) ==
  LET d == By(i) j == host[i].peer IN
  /\ host[i].pc = "committing"
  /\ Valid(d, j, host[i].fenced, FALSE) /\ SameGroup(d, host[i].key)
  /\ CommitAt(d, j, i, host[i].key)
  /\ approved' = approved \cup {<<i, j>>}
  /\ host' = [host EXCEPT ![i].pc = "accepted"]
  /\ Sent(i, "accepted", host[i].key)
  /\ UNCHANGED <<life, inv, rec, wants, faults, calls, consent, scope>>

\* The enrollment is durable, the invitation consumed, the key released.
HostCommit(i) ==
  LET d == By(i) j == host[i].peer IN
  /\ host[i].pc = "committing"
  /\ Valid(d, j, host[i].fenced, FALSE) /\ SameGroup(d, host[i].key)
  /\ CommitAt(d, j, i, host[i].key)
  /\ approved' = approved \cup {<<i, j>>}
  /\ inv' = [inv EXCEPT ![i].state = "gone"]
  /\ host' = [host EXCEPT ![i].pc = "accepted"]
  /\ Sent(i, "accepted", host[i].key)
  /\ UNCHANGED <<life, rec, wants, faults, calls, consent, scope>>

\* recover_secure_pairing, on the side of the inviter
Enrolled(d, p, i) == journal[d][p] = i /\ peers[d][p] = "active"

\* PairCommit, PairComplete
HostComplete(i) ==
  LET d == By(i) IN
  /\ host[i].pc = "accepted"
  /\ host[i].in = "commit"
  /\ ~inv[i].expired
  /\ Running(d) /\ ~host[i].fenced /\ Enrolled(d, host[i].peer, i)
  /\ host' = [host EXCEPT ![i] = HostIdle]
  /\ join' = IF host[i].up
             THEN [join EXCEPT ![host[i].peer][i].in = "complete", ![host[i].peer][i].up = FALSE]
             ELSE join
  /\ inv' = Released(i)
  /\ UNCHANGED <<life, trust, rec, wants, faults, calls, approved, consent, scope>>

\* What the inviter cannot go on with.
HostRefuses(i) ==
  LET d == By(i) IN
  \/ host[i].pc # "committing" /\ ~host[i].up /\ host[i].in = None
  \/ host[i].fenced
  \/ host[i].pc \in {"challenged", "ready"} /\ (inv[i].expired \/ inv[i].state = "gone")
  \/ host[i].pc = "committing" /\
       ~(Valid(d, host[i].peer, FALSE, FALSE) /\ SameGroup(d, host[i].key))
  \/ host[i].pc = "accepted" /\ inv[i].expired
  \/ host[i].pc = "accepted" /\ ~Enrolled(d, host[i].peer, i)

\* The worker ends with an error and releases its claim.
HostFails(i) ==
  /\ host[i].pc # "idle"
  /\ \/ HostRefuses(i) /\ faults' = faults
     \/ host[i].pc # "committing" /\ faults < scope.faults /\ faults' = faults + 1
  /\ Ended({i}, {})
  /\ inv' = Released(i)
  /\ UNCHANGED <<life, trust, rec, wants, calls, approved, consent, scope>>

-----------------------------------------------------------------------------
(* The joiner *)

Connects(j, i, repair) ==
  /\ j \in scope.devices
  /\ Running(j)
  /\ By(i) \notin {j, Nobody}
  /\ join[j][i].pc = "idle"
  /\ join' = [join EXCEPT ![j][i] =
       [JoinIdle EXCEPT !.pc = "hello", !.up = TRUE, !.repair = repair]]
  /\ host' = [host EXCEPT ![i].up = @ /\ host[i].peer # j]

Connect(j, i) ==
  /\ Connects(j, i, FALSE)
  /\ ~Enrolled(j, By(i), i)
  /\ UNCHANGED <<life, trust, inv, rec, wants, faults, calls, approved, consent, scope>>

Confirm(j, i) ==
  /\ join[j][i].pc = "hello"
  /\ join[j][i].in = "challenge"
  /\ join' = [join EXCEPT ![j][i].pc = "confirmed", ![j][i].in = None]
  /\ host' = IF join[j][i].up THEN [host EXCEPT ![i].in = "confirm"] ELSE host
  /\ UNCHANGED <<life, trust, inv, rec, wants, faults, calls, approved, consent, scope>>

\* Mutant of Prepare: the proof is sent, the preparation is not journaled.
PrepareInMemory(j, i) ==
  /\ join[j][i].pc = "confirmed"
  /\ join[j][i].in = "ready"
  /\ Valid(j, By(i), join[j][i].fenced, join[j][i].repair)
  /\ ~inv[i].expired
  /\ join' = [join EXCEPT ![j][i].pc = "prepared", ![j][i].in = None]
  /\ host' = IF join[j][i].up THEN [host EXCEPT ![i].in = "prepared"] ELSE host
  /\ UNCHANGED <<life, trust, inv, rec, wants, faults, calls, approved, consent, scope>>

\* The preparation is durable before the proof of it is sent.
Prepare(j, i) ==
  /\ join[j][i].pc = "confirmed"
  /\ join[j][i].in = "ready"
  /\ Valid(j, By(i), join[j][i].fenced, join[j][i].repair)
  /\ prepared' = [prepared EXCEPT ![j] = @ \cup {i}]
  /\ IF inv[i].expired
     THEN Ended({}, {<<j, i>>})
     ELSE /\ join' = [join EXCEPT ![j][i].pc = "prepared", ![j][i].in = None]
          /\ host' = IF join[j][i].up THEN [host EXCEPT ![i].in = "prepared"] ELSE host
  /\ UNCHANGED <<life, key, peers, journal, inv, rec, wants, faults, calls, approved, consent, scope>>

\* PairAccepted: the joiner enrolls the inviter with the key it received.
JoinCommit(j, i) ==
  LET c == join[j][i] IN
  /\ c.pc = "prepared"
  /\ c.in = "accepted"
  /\ ~inv[i].expired
  /\ Valid(j, By(i), c.fenced, c.repair) /\ SameGroup(j, c.key)
  /\ CommitAt(j, By(i), i, c.key)
  /\ join' = [join EXCEPT ![j][i].pc = "committed", ![j][i].in = None]
  /\ host' = IF c.up THEN [host EXCEPT ![i].in = "commit"] ELSE host
  /\ UNCHANGED <<life, inv, rec, wants, faults, calls, approved, consent, scope>>

\* PairComplete: the call returns the outcome.
JoinComplete(j, i) ==
  /\ join[j][i].pc = "committed"
  /\ join[j][i].in = "complete"
  /\ Ended({}, {<<j, i>>})
  /\ UNCHANGED <<life, trust, inv, rec, wants, faults, calls, approved, consent, scope>>

\* What the joiner cannot go on with.
JoinRefuses(j, i) ==
  LET c == join[j][i] IN
  \/ ~c.up /\ c.in = None
  \/ c.fenced
  \/ /\ c.pc = "hello" /\ c.in = None
     /\ ~(host[i].pc = "idle" /\ Claimable(i) /\ Running(By(i)))
  \/ c.in = "ready" /\ ~Valid(j, By(i), FALSE, c.repair)
  \/ c.in = "accepted" /\
       (inv[i].expired \/ ~(Valid(j, By(i), FALSE, c.repair) /\ SameGroup(j, c.key)))

JoinFails(j, i) ==
  /\ join[j][i].pc # "idle"
  /\ \/ JoinRefuses(j, i) /\ faults' = faults
     \/ faults < scope.faults /\ faults' = faults + 1
  /\ Ended({}, {<<j, i>>})
  /\ UNCHANGED <<life, trust, inv, rec, wants, calls, approved, consent, scope>>

\* The connection breaks and loses the message under way.
Cut(i) ==
  /\ host[i].up
  /\ faults < scope.faults
  /\ faults' = faults + 1
  /\ host' = [host EXCEPT ![i].up = FALSE, ![i].in = None]
  /\ join' = [join EXCEPT ![host[i].peer][i].up = FALSE, ![host[i].peer][i].in = None]
  /\ UNCHANGED <<life, trust, inv, rec, wants, calls, approved, consent, scope>>

-----------------------------------------------------------------------------
(* Recovery of a preparation *)

\* recover_pending passes over the pairings that are active when it starts.
Recover(j, i) ==
  /\ i \in prepared[j]
  /\ Running(j) /\ Running(By(i))
  /\ join[j][i].pc = "idle"
  /\ rec[j][i].pc = "idle"
  /\ rec' = [rec EXCEPT ![j][i] = [RecIdle EXCEPT !.pc = "asked"]]
  /\ UNCHANGED <<life, trust, inv, host, join, wants, faults, calls, approved, consent, scope>>

\* Mutant of RecoverCheck: the journal is not consulted.
RecoverUnchecked(j, i) ==
  /\ rec[j][i].pc = "asked"
  /\ Running(By(i))
  /\ rec' = [rec EXCEPT ![j][i].pc = "checked"]
  /\ UNCHANGED <<life, trust, inv, host, join, wants, faults, calls, approved, consent, scope>>

\* Mutant of RecoverCheck: only for invitations the manager still holds.
RecoverWhileOpen(j, i) ==
  /\ inv[i].state # "gone"
  /\ rec[j][i].pc = "asked"
  /\ Running(By(i)) /\ Enrolled(By(i), j, i)
  /\ rec' = [rec EXCEPT ![j][i].pc = "checked"]
  /\ UNCHANGED <<life, trust, inv, host, join, wants, faults, calls, approved, consent, scope>>

\* The inviter finds the enrollment, then reads its key.
RecoverCheck(j, i) ==
  /\ rec[j][i].pc = "asked"
  /\ Running(By(i)) /\ Enrolled(By(i), j, i)
  /\ rec' = [rec EXCEPT ![j][i].pc = "checked"]
  /\ UNCHANGED <<life, trust, inv, host, join, wants, faults, calls, approved, consent, scope>>

RecoverKey(j, i) ==
  /\ rec[j][i].pc = "checked"
  /\ rec' = [rec EXCEPT ![j][i].pc = "answered", ![j][i].key = key[By(i)]]
  /\ UNCHANGED <<life, trust, inv, host, join, wants, faults, calls, approved, consent, scope>>

RecoverCommit(j, i) ==
  /\ rec[j][i].pc = "answered"
  /\ Valid(j, By(i), rec[j][i].fenced, FALSE) /\ SameGroup(j, rec[j][i].key)
  /\ CommitAt(j, By(i), i, rec[j][i].key)
  /\ rec' = [rec EXCEPT ![j][i] = RecIdle]
  /\ UNCHANGED <<life, inv, host, join, wants, faults, calls, approved, consent, scope>>

RecoverFails(j, i) ==
  LET r == rec[j][i] IN
  /\ r.pc # "idle"
  /\ \/ /\ \/ r.pc = "asked" /\ ~(Running(By(i)) /\ Enrolled(By(i), j, i))
           \/ r.pc = "answered" /\
                ~(Valid(j, By(i), r.fenced, FALSE) /\ SameGroup(j, r.key))
        /\ faults' = faults
     \/ faults < scope.faults /\ faults' = faults + 1
  /\ rec' = [rec EXCEPT ![j][i] = RecIdle]
  /\ UNCHANGED <<life, trust, inv, host, join, wants, calls, approved, consent, scope>>

-----------------------------------------------------------------------------
(* Removal, repair, shutdown, crash *)

\* A session that runs is stopped and started again afterwards.
Removes(d, p) ==
  /\ life[d] \in {"running", "stopped"}
  /\ peers[d][p] # "absent"
  /\ peers' = [peers EXCEPT ![d][p] = "revoked"]
  /\ journal' = [journal EXCEPT ![d][p] = None]
  /\ prepared' = [prepared EXCEPT ![d] = {i \in @ : By(i) # p}]
  /\ consent' = [consent EXCEPT ![d][p] = FALSE]
  /\ life' = [life EXCEPT ![d] = IF @ = "running" THEN "removed" ELSE @]
  /\ UNCHANGED <<key, inv, approved>>

\* Mutant of RemovePeer: the generation is left alone.
RemoveUnfenced(d, p) ==
  /\ calls < scope.calls
  /\ calls' = calls + 1
  /\ Removes(d, p)
  /\ UNCHANGED <<host, join, rec, wants, faults, scope>>

\* remove_peer: the durable part; shutdown and start follow.
RemovePeer(d, p) ==
  /\ calls < scope.calls
  /\ calls' = calls + 1
  /\ Removes(d, p)
  /\ Fenced(d)
  /\ UNCHANGED <<wants, faults, scope>>

\* Users repair what does not exchange any more.
Broken(d, p) == peers[d][p] = "revoked" \/ peers[p][d] = "revoked"

\* repair_peer: the removal of a peer, then connect with its fresh invitation.
RepairPeer(d, i) ==
  /\ scope.repairs /\ life[d] = "running"
  /\ Claimable(i) /\ By(i) # d
  /\ wants[d] = None
  /\ \A k \in Invitation : join[d][k].pc = "idle"
  /\ Broken(d, By(i))
  /\ Removes(d, By(i))
  /\ Fenced(d)
  /\ wants' = [wants EXCEPT ![d] = i]
  /\ UNCHANGED <<faults, calls, scope>>

RepairConnect(d) ==
  LET i == wants[d] IN
  /\ i # None
  /\ life[d] = "running"
  /\ Connects(d, i, TRUE)
  /\ wants' = [wants EXCEPT ![d] = None]
  /\ consent' = [consent EXCEPT ![d][By(i)] = TRUE]
  /\ UNCHANGED <<life, trust, inv, rec, faults, calls, approved, scope>>

\* close_pairing: the user closes the invitations of d, claimed or not.
ClosePairing(d) ==
  /\ d \in scope.devices
  /\ life[d] \in {"running", "removed", "stopped"}
  /\ calls < scope.calls
  /\ calls' = calls + 1
  /\ Unlocked(d)
  /\ inv' = [i \in Invitation |->
       IF By(i) = d /\ inv[i].state # "free" THEN [inv[i] EXCEPT !.state = "gone"] ELSE inv[i]]
  /\ UNCHANGED <<life, trust, host, join, rec, wants, faults, approved, consent, scope>>

\* stop: the phase changes under a new generation,
StopFence(d) ==
  /\ d \in scope.devices
  /\ \/ life[d] = "removed" /\ calls' = calls
     \/ life[d] = "running" /\ calls < scope.calls /\ calls' = calls + 1
  /\ life' = [life EXCEPT ![d] = "fenced"]
  /\ Fenced(d)
  /\ UNCHANGED <<trust, inv, wants, faults, approved, consent, scope>>

\* the invitations are closed,
StopClose(d) ==
  /\ life[d] = "fenced"
  /\ Unlocked(d)
  /\ life' = [life EXCEPT ![d] = "closed"]
  /\ inv' = [i \in Invitation |->
       IF By(i) = d /\ inv[i].state # "free" THEN [inv[i] EXCEPT !.state = "gone"] ELSE inv[i]]
  /\ UNCHANGED <<trust, host, join, rec, wants, faults, calls, approved, consent, scope>>

\* and the inbound workers and recoveries of d are cancelled and joined.
StopJoin(d) ==
  /\ life[d] = "closed"
  /\ life' = [life EXCEPT ![d] = "stopped"]
  /\ Ended({i \in Invitation : By(i) = d /\ host[i].pc # "idle"}, {})
  /\ RecoveriesEnd(d)
  /\ UNCHANGED <<trust, inv, wants, faults, calls, approved, consent, scope>>

Start(d) ==
  /\ life[d] = "stopped"
  /\ life' = [life EXCEPT ![d] = "running"]
  /\ UNCHANGED <<trust, inv, host, join, rec, wants, faults, calls, approved, consent, scope>>

\* The process dies; what it had journaled is all that is left.
Crash(d) ==
  /\ d \in scope.devices
  /\ faults < scope.faults
  /\ faults' = faults + 1
  /\ life' = [life EXCEPT ![d] = "stopped"]
  /\ inv' = [i \in Invitation |->
       IF By(i) = d /\ inv[i].state # "free" THEN [inv[i] EXCEPT !.state = "gone"] ELSE inv[i]]
  /\ Ended({i \in Invitation : By(i) = d /\ host[i].pc # "idle"},
           {<<d, i>> : i \in {k \in Invitation : join[d][k].pc # "idle"}})
  /\ RecoveriesEnd(d)
  /\ wants' = [wants EXCEPT ![d] = None]
  /\ UNCHANGED <<trust, calls, approved, consent, scope>>

\* Ids are random: one that is forgotten everywhere is like new.  Creation drops
\* the invitations that have expired.
Recycle(i) ==
  /\ inv[i].state = "gone" \/ (inv[i].state = "open" /\ inv[i].expired)
  /\ host[i].pc = "idle"
  /\ \A d \in Device :
       /\ join[d][i].pc = "idle" /\ rec[d][i].pc = "idle"
       /\ i \notin prepared[d] /\ wants[d] # i
       /\ \A p \in Device : journal[d][p] # i
  /\ inv' = [inv EXCEPT ![i] = Unissued]
  /\ approved' = {e \in approved : e[1] # i}
  /\ UNCHANGED <<life, trust, host, join, rec, wants, faults, calls, consent, scope>>

-----------------------------------------------------------------------------

HostStep(i) == Ready(i) \/ LockManager(i) \/ HostCommit(i) \/ HostComplete(i) \/ HostFails(i)

JoinStep(j, i) ==
  Confirm(j, i) \/ Prepare(j, i) \/ JoinCommit(j, i) \/ JoinComplete(j, i) \/ JoinFails(j, i)

RecoverStep(j, i) ==
  Recover(j, i) \/ RecoverCheck(j, i) \/ RecoverKey(j, i) \/ RecoverCommit(j, i)
  \/ RecoverFails(j, i)

StopStep(d) == StopClose(d) \/ StopJoin(d) \/ Start(d) \/ RepairConnect(d)

Next ==
  \/ \E i \in Invitation : HostStep(i) \/ Expire(i) \/ Cut(i) \/ Recycle(i)
  \/ \E d \in Device, i \in Invitation :
       \/ Invite(d, i) \/ Claim(i, d) \/ Connect(d, i) \/ JoinStep(d, i)
       \/ RecoverStep(d, i) \/ RepairPeer(d, i)
  \/ \E d \in Device : StopStep(d) \/ StopFence(d) \/ ClosePairing(d) \/ Crash(d)
  \/ \E d \in Device, p \in Device : RemovePeer(d, p)

Spec == Init /\ [][Next]_vars

\* A user who invites waits for that invitation to be used or to expire, and the
\* ids are drawn in an order of their own.
InviteNext(d, i) ==
  /\ \A k \in scope.invitations : inv[k].state # "claimed" /\ ~Claimable(k)
  /\ Invite(d, i)
  /\ i = CHOOSE k \in scope.invitations : inv[k].state = "free"

\* Users who have lost an enrollment invite and repair, workers and timers run
\* and stop as they do when nothing fails.  A pass of the recovery takes every
\* preparation with no call under way, and calls do not return just for it.
Fairness ==
  /\ \A i \in Invitation : WF_vars(HostStep(i)) /\ WF_vars(Recycle(i))
                             /\ WF_vars(Exhausted(i) /\ Expire(i))
  /\ \A d \in Device : WF_vars(StopStep(d) \/ (life[d] = "removed" /\ StopFence(d)))
  /\ \A d \in Device, i \in Invitation :
       /\ WF_vars(Claim(i, d)) /\ WF_vars(JoinStep(d, i))
       /\ WF_vars(RecoverStep(d, i)) /\ SF_vars(Recover(d, i))
  /\ \A d \in Device :
       /\ SF_vars(\E i \in Invitation : RepairPeer(d, i))
       /\ WF_vars(\E i \in Invitation : InviteNext(d, i))

FairSpec == Spec /\ Fairness

\* After an enrollment that went well, with no connections but repairs and
\* nobody closing invitations:
EnrolledInit ==
  LET i == CHOOSE i \in Invitation : TRUE IN
  Quiet /\ \E h \in scope.devices : \E j \in scope.devices \ {h} :
    /\ key = [d \in Device |-> IF d = j THEN h ELSE d]
    /\ peers = [d \in Device |-> [p \in Device |->
         IF <<d, p>> \in {<<h, j>>, <<j, h>>} THEN "active" ELSE "absent"]]
    /\ journal = [d \in Device |-> [p \in Device |->
         IF <<d, p>> \in {<<h, j>>, <<j, h>>} THEN i ELSE None]]
    /\ inv = [[k \in Invitation |-> Unissued] EXCEPT ![i] = [by |-> h, state |-> "gone", attempts |-> 1, expired |-> FALSE]]
    /\ approved = {<<i, j>>}

RepairNext ==
  \/ \E i \in Invitation : HostStep(i) \/ Expire(i) \/ Cut(i) \/ Recycle(i)
  \/ \E d \in Device, i \in Invitation :
       InviteNext(d, i) \/ Claim(i, d) \/ JoinStep(d, i) \/ RecoverStep(d, i) \/ RepairPeer(d, i)
  \/ \E d \in Device : StopStep(d) \/ StopFence(d) \/ Crash(d)
  \/ \E d \in Device, p \in Device : RemovePeer(d, p)

RepairSpec == EnrolledInit /\ [][RepairNext]_vars /\ Fairness

-----------------------------------------------------------------------------
(* Properties *)

\* The journal of each names the same enrollment.
Mutual(d, p) ==
  /\ peers[d][p] = "active" /\ peers[p][d] = "active"
  /\ journal[d][p] = journal[p][d]

\* PROTOCOL.md "refusing silent replacement of an existing group key": devices
\* that share an enrollment share the key that their batches are encrypted
\* with, whatever other groups they were in and whatever was interrupted.
KeysAgree == \A d \in Device, p \in Device : d # p /\ Mutual(d, p) => key[d] = key[p]

\* The joiner enrolls an inviter only after the inviter has durably enrolled
\* the joiner by the same invitation, by recovery too.
InviterFirst ==
  \A j \in Device, h \in Device :
    LET i == journal[j][h] IN
    i # None /\ By(i) # j => <<i, j>> \in approved

\* "Invitations ... are single-use": one enrolls one device, however many
\* connect with it at once and however their attempts end.
SingleUse == \A e \in approved, f \in approved : e[1] = f[1] => e = f

\* remove_peer "durably revokes": nothing that was under way, no recovery and
\* no invitation brings a removed peer back, only an explicit repair since.
RemovalSticks ==
  [][\A d \in Device, p \in Device :
       peers[d][p] = "revoked" /\ peers'[d][p] = "active" => consent[d][p]]_vars

\* "Startup reconciles interrupted authenticated enrollment": the inviter never
\* holds an enrollment that its device has neither committed nor journaled.
Recoverable ==
  \A i \in Invitation, j \in Device :
    By(i) # Nobody /\ Enrolled(By(i), j, i) =>
      i \in prepared[j] \/ peers[j][By(i)] # "absent"

\* Two that invite each other at once have both committed, each with its own
\* key; neither can take over the other's (GroupConflict, session/pairing.rs:152),
\* now or in a recovery.
GroupConflict(j, i) ==
  By(i) \in Device /\ ~SameGroup(j, key[By(i)])

\* An interrupted pairing is completed: while the inviter keeps the enrollment
\* that a joiner has prepared, the joiner enrolls it or removes the inviter,
\* unless it belongs to another group.
ReconcilesAt(i, j) ==
  (i \in prepared[j] /\ Enrolled(By(i), j, i))
    ~> (\/ i \notin prepared[j] \/ ~Enrolled(By(i), j, i)
        \/ peers[j][By(i)] = "revoked" \/ GroupConflict(j, i))

Reconciles == \A i \in Invitation, j \in Device : ReconcilesAt(i, j)

\* docs/MANAGED-SESSION.md: "Startup reconciles interrupted authenticated
\* enrollment."  Crossed enrollments refute it, without any fault.
StartupReconciles ==
  \A i \in Invitation, j \in Device :
    (i \in prepared[j] /\ Enrolled(By(i), j, i))
      ~> (\/ i \notin prepared[j] \/ ~Enrolled(By(i), j, i)
          \/ peers[j][By(i)] = "revoked")

\* session/mod.rs:557, of a removed peer: "A fresh invitation and explicit
\* repair are required."  So when both sides have removed each other, users who
\* keep on inviting and repairing enroll them again.
Repaired ==
  \A d \in Device, p \in Device :
    (peers[d][p] = "revoked" /\ peers[p][d] = "revoked")
      ~> (peers[d][p] = "active" /\ peers[p][d] = "active")
=============================================================================
