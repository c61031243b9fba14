------------------------- MODULE SecurePairingProofs -------------------------
(***************************************************************************)
(* What an enrollment keeps through broken connections, crashes, removals  *)
(* and recoveries, for any number of devices and invitations.              *)
(***************************************************************************)
EXTENDS SecurePairing, TLAPS

-----------------------------------------------------------------------------
(* The inductive invariant *)

\* Whatever refers to an invitation is of another device than its issuer, and
\* an id that is free is referred to by nothing.
Issued ==
  /\ \A i \in Invitation : inv[i].state = "free" <=> By(i) = Nobody
  /\ \A i \in Invitation : host[i].pc # "idle" =>
       host[i].peer \in Device /\ By(i) \notin {host[i].peer, Nobody}
  /\ \A j \in Device, i \in Invitation :
       join[j][i].pc # "idle" \/ rec[j][i].pc # "idle" \/ i \in prepared[j] =>
         By(i) \notin {j, Nobody}

\* The two ends of a connection know each other.
Connected ==
  /\ \A i \in Invitation :
       /\ host[i].pc = "idle" => ~host[i].up /\ host[i].in = None
       /\ host[i].up => join[host[i].peer][i].pc # "idle"
  /\ \A j \in Device, i \in Invitation :
       /\ join[j][i].pc = "idle" => ~join[j][i].up /\ join[j][i].in = None
       /\ join[j][i].up /\ (join[j][i].pc # "hello" \/ join[j][i].in # None) =>
            host[i].up /\ host[i].peer = j

\* An approved invitation is used up, and a commit has its invitation claimed.
UsedUp ==
  /\ \A e \in approved : inv[e[1]].state = "gone"
  /\ \A i \in Invitation : host[i].pc = "committing" => inv[i].state = "claimed"

\* A journaled enrollment is one its inviter has approved for the other side,
\* and only an approved joiner gets a key.
Approved ==
  /\ \A d, p \in Device : journal[d][p] # None =>
       LET i == journal[d][p] IN
       \/ By(i) = d /\ <<i, p>> \in approved
       \/ By(i) = p /\ p # d /\ <<i, d>> \in approved
  /\ \A d, p \in Device : peers[d][p] = "active" => journal[d][p] # None
  /\ \A j \in Device, i \in Invitation :
       join[j][i].in = "accepted" \/ rec[j][i].pc \in {"checked", "answered"} =>
         <<i, j>> \in approved

\* The preparation of j for i is journaled, or has had its effect.
Prepares(j, i) == i \in prepared[j] \/ peers[j][By(i)] # "absent"

PreparedFirst ==
  \A i \in Invitation :
    host[i].in = "prepared" \/ host[i].pc = "committing" => Prepares(host[i].peer, i)

\* A repair that may still commit was asked for since the removal.
Consented ==
  \A j \in Device, i \in Invitation :
    join[j][i].pc # "idle" /\ join[j][i].repair /\ ~join[j][i].fenced =>
      consent[j][By(i)]

\* A key under way is the inviter's, as long as the enrollment stands.
KeyFits ==
  /\ \A i \in Invitation : host[i].pc = "committing" => host[i].key \in Device
  /\ \A j \in Device, i \in Invitation :
       /\ join[j][i].in = "accepted" => join[j][i].key \in Device
       /\ rec[j][i].pc = "answered" => rec[j][i].key \in Device
       /\ By(i) # Nobody /\ Enrolled(By(i), j, i) =>
            /\ join[j][i].in = "accepted" => join[j][i].key = key[By(i)]
            /\ rec[j][i].pc = "answered" => rec[j][i].key = key[By(i)]

IInv ==
  /\ TypeOK
  /\ Issued
  /\ Connected
  /\ UsedUp
  /\ Approved
  /\ PreparedFirst
  /\ Consented
  /\ KeyFits
  /\ KeysAgree
  /\ SingleUse
  /\ Recoverable

-----------------------------------------------------------------------------
(* Frames *)

SameIssuers ==
  \A i \in Invitation : inv'[i].by = inv[i].by /\ (inv'[i].state = "free" <=> inv[i].state = "free")

\* No step turns up at a new place: what refers to an invitation did before.
LEMMA IssuedKept ==
  ASSUME TypeOK, Issued, SameIssuers,
         \A i \in Invitation : host'[i].pc # "idle" =>
           host[i].pc # "idle" /\ host'[i].peer = host[i].peer,
         \A j \in Device, i \in Invitation :
           join'[j][i].pc # "idle" \/ rec'[j][i].pc # "idle" \/ i \in prepared'[j] =>
             join[j][i].pc # "idle" \/ rec[j][i].pc # "idle" \/ i \in prepared[j]
  PROVE  Issued'
BY DEF Issued, SameIssuers, By

TrustStays ==
  /\ UNCHANGED <<key, peers, journal, approved>>
  /\ \A j \in Device : prepared[j] \subseteq prepared'[j]
  /\ \A i \in Invitation : inv[i].state = "gone" => inv'[i].state = "gone"

\* What a worker commits on, a call has received or a recovery has learned is
\* warranted by what is durable.
HostsWarranted ==
  \A i \in Invitation :
    /\ host'[i].pc = "committing" => inv'[i].state = "claimed" /\ host'[i].key \in Device
    /\ host'[i].in = "prepared" \/ host'[i].pc = "committing" =>
         i \in prepared'[host'[i].peer] \/ peers[host'[i].peer][By(i)] # "absent"
JoinsWarranted ==
  \A j \in Device, i \in Invitation :
    /\ join'[j][i].in = "accepted" =>
         join[j][i].in = "accepted" /\ join'[j][i].key = join[j][i].key
    /\ join'[j][i].pc # "idle" /\ join'[j][i].repair /\ ~join'[j][i].fenced =>
         consent'[j][By(i)]
RecsWarranted ==
  \A j \in Device, i \in Invitation :
    /\ rec'[j][i].pc \in {"checked", "answered"} => <<i, j>> \in approved
    /\ rec'[j][i].pc = "answered" =>
         \/ rec[j][i].pc = "answered" /\ rec'[j][i].key = rec[j][i].key
         \/ rec'[j][i].key = key[By(i)] /\ key[By(i)] \in Device

\* While trust stays as it is, only the messages under way have to be looked at.
LEMMA TrustKept ==
  ASSUME IInv, SameIssuers, TrustStays, HostsWarranted, JoinsWarranted, RecsWarranted
  PROVE  /\ UsedUp' /\ Approved' /\ PreparedFirst' /\ Consented'
         /\ KeyFits' /\ KeysAgree' /\ SingleUse' /\ Recoverable'
<1>1. \A i \in Invitation : By(i)' = By(i)
  BY DEF SameIssuers, By
<1>2. UsedUp'
  BY DEF IInv, TypeOK, UsedUp, TrustStays, HostsWarranted
<1>3. Approved'
  <2>1. \A d, p \in Device : journal[d][p] \in Invitation \cup {None}
    BY DEF IInv, TypeOK
  <2>2. \A d, p \in Device : journal[d][p] # None =>
          By(journal[d][p])' = By(journal[d][p])
    BY <1>1, <2>1 DEF TrustStays
  <2>3. \A j \in Device, i \in Invitation :
          join'[j][i].in = "accepted" \/ rec'[j][i].pc \in {"checked", "answered"} =>
            <<i, j>> \in approved
    BY DEF IInv, Approved, JoinsWarranted, RecsWarranted
  <2> QED
    BY <2>2, <2>3 DEF IInv, Approved, TrustStays
<1>4. PreparedFirst'
  BY <1>1 DEF PreparedFirst, Prepares, TrustStays, HostsWarranted
<1>5. Consented'
  BY <1>1 DEF Consented, JoinsWarranted
<1>6. KeyFits'
  <2>1. \A j \in Device, i \in Invitation :
          Enrolled(By(i), j, i)' <=> Enrolled(By(i), j, i)
    BY <1>1 DEF Enrolled, TrustStays
  <2>2. ASSUME NEW j \in Device, NEW i \in Invitation, join'[j][i].in = "accepted"
        PROVE  /\ join'[j][i].key \in Device
               /\ By(i) # Nobody /\ Enrolled(By(i), j, i) => join'[j][i].key = key[By(i)]
    BY <2>2 DEF IInv, KeyFits, JoinsWarranted
  <2>3. ASSUME NEW j \in Device, NEW i \in Invitation, rec'[j][i].pc = "answered"
        PROVE  /\ rec'[j][i].key \in Device
               /\ By(i) # Nobody /\ Enrolled(By(i), j, i) => rec'[j][i].key = key[By(i)]
    BY <2>3 DEF IInv, KeyFits, RecsWarranted
  <2> QED
    BY <1>1, <2>1, <2>2, <2>3 DEF KeyFits, TrustStays, HostsWarranted
<1>7. KeysAgree' /\ SingleUse'
  BY DEF IInv, KeysAgree, SingleUse, Mutual, TrustStays
<1>8. Recoverable'
  BY <1>1 DEF IInv, Recoverable, Enrolled, TrustStays
<1> QED
  BY <1>2, <1>3, <1>4, <1>5, <1>6, <1>7, <1>8

\* Workers, connect calls and recoveries that only end, lose a message or are
\* fenced.
HostFades ==
  \A i \in Invitation :
    \/ host'[i].pc = "idle" /\ host'[i].in = None
    \/ /\ host'[i].pc = host[i].pc /\ host'[i].peer = host[i].peer
       /\ host'[i].key = host[i].key /\ host'[i].in \in {host[i].in, None}
JoinFades ==
  \A j \in Device, i \in Invitation :
    \/ join'[j][i].pc = "idle" /\ join'[j][i].in = None
    \/ /\ join'[j][i].pc = join[j][i].pc /\ join'[j][i].repair = join[j][i].repair
       /\ join'[j][i].key = join[j][i].key /\ join'[j][i].in \in {join[j][i].in, None}
       /\ join[j][i].fenced => join'[j][i].fenced
RecFades ==
  \A j \in Device, i \in Invitation :
    \/ rec'[j][i].pc = "idle"
    \/ rec'[j][i].pc = rec[j][i].pc /\ rec'[j][i].key = rec[j][i].key
Fades == HostFades /\ JoinFades /\ RecFades

\* What only fades needs no warrant.
LEMMA FadingKeeps ==
  ASSUME IInv, SameIssuers, Fades,
         UNCHANGED <<key, peers, journal, approved, consent>>,
         \A j \in Device : prepared[j] \subseteq prepared'[j],
         \A j \in Device, i \in Invitation :
           i \in prepared'[j] => i \in prepared[j] \/ join[j][i].pc # "idle",
         \A i \in Invitation : inv[i].state = "gone" => inv'[i].state = "gone",
         \A i \in Invitation : host'[i].pc = "committing" => inv'[i].state = "claimed"
  PROVE  /\ Issued'
         /\ UsedUp' /\ Approved' /\ PreparedFirst' /\ Consented'
         /\ KeyFits' /\ KeysAgree' /\ SingleUse' /\ Recoverable'
<1>1. Issued'
  BY IssuedKept DEF IInv, Fades, HostFades, JoinFades, RecFades
<1>2. HostsWarranted
  <2>1. \A i \in Invitation : host'[i].pc = "committing" => host'[i].key \in Device
    BY DEF IInv, KeyFits, Fades, HostFades
  <2>2. \A i \in Invitation : host'[i].in = "prepared" \/ host'[i].pc = "committing" =>
          i \in prepared'[host'[i].peer] \/ peers[host'[i].peer][By(i)] # "absent"
    <3>1. \A i \in Invitation : host[i].in = "prepared" \/ host[i].pc = "committing" =>
            host[i].peer \in Device /\ Prepares(host[i].peer, i)
      BY DEF IInv, Connected, Issued, PreparedFirst, None
    <3> QED
      BY <3>1 DEF Prepares, Fades, HostFades, None
  <2> QED
    BY <2>1, <2>2 DEF HostsWarranted
<1>3. JoinsWarranted
  <2>1. \A j \in Device, i \in Invitation : join'[j][i].in = "accepted" =>
          join[j][i].in = "accepted" /\ join'[j][i].key = join[j][i].key
    BY DEF Fades, JoinFades, None
  <2>2. \A j \in Device, i \in Invitation :
          join'[j][i].pc # "idle" /\ join'[j][i].repair /\ ~join'[j][i].fenced =>
            consent'[j][By(i)]
    BY DEF IInv, Consented, Fades, JoinFades
  <2> QED
    BY <2>1, <2>2 DEF JoinsWarranted
<1>4. RecsWarranted
  BY DEF IInv, Approved, Fades, RecFades, RecsWarranted
<1>5. TrustStays
  BY DEF TrustStays
<1> QED
  BY <1>1, <1>2, <1>3, <1>4, <1>5, TrustKept

\* Idle states are states.
LEMMA IdleStates ==
  /\ HostIdle \in HostState /\ HostIdle.pc = "idle" /\ ~HostIdle.up /\ HostIdle.in = None
  /\ JoinIdle \in JoinState /\ JoinIdle.pc = "idle" /\ ~JoinIdle.up /\ JoinIdle.in = None
  /\ RecIdle \in RecState /\ RecIdle.pc = "idle"
  /\ Unissued \in InvState /\ Unissued.by = Nobody /\ Unissued.state = "free"
  /\ Unissued.attempts = 0
<1>1. HostIdle \in HostState /\ HostIdle.pc = "idle" /\ ~HostIdle.up /\ HostIdle.in = None
  BY DEF HostIdle, HostState
<1>2. JoinIdle \in JoinState /\ JoinIdle.pc = "idle" /\ ~JoinIdle.up /\ JoinIdle.in = None
  BY DEF JoinIdle, JoinState
<1>3. RecIdle \in RecState /\ RecIdle.pc = "idle"
  BY DEF RecIdle, RecState
<1>4. /\ Unissued \in InvState /\ Unissued.by = Nobody /\ Unissued.state = "free"
      /\ Unissued.attempts = 0
  BY DEF Unissued, InvState
<1> QED
  BY <1>1, <1>2, <1>3, <1>4

\* Workers and connect calls that end leave the others connected as they were.
LEMMA EndingFades ==
  ASSUME TypeOK, Issued, Connected, NEW H \in SUBSET Invitation, NEW J, Ended(H, J)
  PROVE  /\ host' \in [Invitation -> HostState]
         /\ join' \in [Device -> [Invitation -> JoinState]]
         /\ HostFades /\ JoinFades /\ Connected'
         /\ \A i \in H : host'[i].pc = "idle"
         /\ \A i \in Invitation \ H : host'[i].pc = host[i].pc
<1>1. ASSUME NEW i \in Invitation
      PROVE  /\ host'[i] \in HostState
             /\ i \in H => host'[i] = HostIdle
             /\ i \notin H =>
                  /\ host'[i].pc = host[i].pc /\ host'[i].peer = host[i].peer
                  /\ host'[i].key = host[i].key /\ host'[i].in = host[i].in
                  /\ host'[i].up <=> host[i].up /\ <<host[i].peer, i>> \notin J
  <2>1. host[i] \in HostState
    BY DEF TypeOK
  <2>2. CASE i \in H
    BY <2>2, IdleStates DEF Ended
  <2>3. CASE i \notin H
    <3>1. host'[i] = [host[i] EXCEPT !.up = host[i].up /\ <<host[i].peer, i>> \notin J]
      BY <2>3 DEF Ended
    <3>2. (host[i].up /\ <<host[i].peer, i>> \notin J) \in BOOLEAN
      OBVIOUS
    <3> QED
      BY <2>1, <2>3, <3>1, <3>2 DEF HostState
  <2> QED
    BY <2>2, <2>3
<1>2. ASSUME NEW j \in Device, NEW i \in Invitation
      PROVE  /\ join'[j][i] \in JoinState
             /\ <<j, i>> \in J => join'[j][i] = JoinIdle
             /\ <<j, i>> \notin J =>
                  /\ join'[j][i].pc = join[j][i].pc /\ join'[j][i].in = join[j][i].in
                  /\ join'[j][i].key = join[j][i].key
                  /\ join'[j][i].repair = join[j][i].repair
                  /\ join'[j][i].fenced = join[j][i].fenced
                  /\ join'[j][i].up <=>
                       join[j][i].up /\ ~(i \in H /\ host[i].up /\ host[i].peer = j)
  <2>1. join[j][i] \in JoinState
    BY DEF TypeOK
  <2>2. CASE <<j, i>> \in J
    BY <2>2, IdleStates DEF Ended
  <2>3. CASE <<j, i>> \notin J
    <3>1. join'[j][i] = [join[j][i] EXCEPT !.up =
            join[j][i].up /\ ~(i \in H /\ host[i].up /\ host[i].peer = j)]
      BY <2>3 DEF Ended
    <3>2. (join[j][i].up /\ ~(i \in H /\ host[i].up /\ host[i].peer = j)) \in BOOLEAN
      OBVIOUS
    <3> QED
      BY <2>1, <2>3, <3>1, <3>2 DEF JoinState
  <2> QED
    BY <2>2, <2>3
<1>3. host' \in [Invitation -> HostState]
  BY <1>1 DEF Ended
<1>4. join' \in [Device -> [Invitation -> JoinState]]
  BY <1>2 DEF Ended
<1>5. HostFades /\ JoinFades
  <2>1. HostFades
    BY <1>1, IdleStates DEF HostFades
  <2>2. ASSUME NEW j \in Device, NEW i \in Invitation
        PROVE  \/ join'[j][i].pc = "idle" /\ join'[j][i].in = None
               \/ /\ join'[j][i].pc = join[j][i].pc
                  /\ join'[j][i].repair = join[j][i].repair
                  /\ join'[j][i].key = join[j][i].key
                  /\ join'[j][i].in \in {join[j][i].in, None}
                  /\ join[j][i].fenced => join'[j][i].fenced
    <3>1. CASE <<j, i>> \in J
      BY <1>2, <3>1, IdleStates
    <3>2. CASE <<j, i>> \notin J
      BY <1>2, <3>2
    <3> QED
      BY <3>1, <3>2
  <2> QED
    BY <2>1, <2>2 DEF JoinFades
<1>6. Connected'
  <2>1. ASSUME NEW i \in Invitation
        PROVE  /\ host'[i].pc = "idle" => ~host'[i].up /\ host'[i].in = None
               /\ host'[i].up => join'[host'[i].peer][i].pc # "idle"
    <3>1. CASE i \in H
      BY <1>1, <3>1, IdleStates
    <3>2. CASE i \notin H
      <4>1. host'[i].pc = "idle" => ~host'[i].up /\ host'[i].in = None
        <5>1. host[i].pc = "idle" => ~host[i].up /\ host[i].in = None
          BY DEF Connected
        <5>2. /\ host'[i].pc = host[i].pc /\ host'[i].in = host[i].in
              /\ host'[i].up => host[i].up
          BY <1>1, <3>2
        <5> QED
          BY <5>1, <5>2
      <4>2. ASSUME host'[i].up PROVE join'[host'[i].peer][i].pc # "idle"
        <5>1. host[i].up /\ <<host[i].peer, i>> \notin J /\ host'[i].peer = host[i].peer
          BY <1>1, <3>2, <4>2
        <5>2. host[i].peer \in Device
          BY <5>1 DEF Connected, Issued
        <5> QED
          BY <1>2, <5>1, <5>2 DEF Connected
      <4> QED
        BY <4>1, <4>2
    <3> QED
      BY <3>1, <3>2
  <2>2. ASSUME NEW j \in Device, NEW i \in Invitation
        PROVE  /\ join'[j][i].pc = "idle" => ~join'[j][i].up /\ join'[j][i].in = None
               /\ join'[j][i].up /\ (join'[j][i].pc # "hello" \/ join'[j][i].in # None) =>
                    host'[i].up /\ host'[i].peer = j
    <3>1. CASE <<j, i>> \in J
      BY <1>2, <3>1, IdleStates
    <3>2. CASE <<j, i>> \notin J
      <4>1. join'[j][i].pc = "idle" => ~join'[j][i].up /\ join'[j][i].in = None
        BY <1>2, <3>2 DEF Connected
      <4>2. ASSUME join'[j][i].up, join'[j][i].pc # "hello" \/ join'[j][i].in # None
            PROVE  host'[i].up /\ host'[i].peer = j
        <5>1. host[i].up /\ host[i].peer = j
          BY <1>2, <3>2, <4>2 DEF Connected
        <5>2. i \notin H
          BY <1>2, <3>2, <4>2, <5>1
        <5> QED
          BY <1>1, <3>2, <5>1, <5>2
      <4> QED
        BY <4>1, <4>2
    <3> QED
      BY <3>1, <3>2
  <2> QED
    BY <2>1, <2>2 DEF Connected
<1> QED
  BY <1>1, <1>3, <1>4, <1>5, <1>6, IdleStates

\* A fence leaves everything else of the handlers of d as it is.
LEMMA FencingFades ==
  ASSUME TypeOK, Issued, Connected, NEW d \in Device, Fenced(d)
  PROVE  /\ host' \in [Invitation -> HostState]
         /\ join' \in [Device -> [Invitation -> JoinState]]
         /\ rec' \in [Device -> [Invitation -> RecState]]
         /\ HostFades /\ JoinFades /\ RecFades /\ Connected'
         /\ \A i \in Invitation : host'[i].pc = host[i].pc
         /\ \A i \in Invitation : join'[d][i].pc # "idle" => join'[d][i].fenced
         /\ \A j \in Device \ {d} : join'[j] = join[j]
<1>1. ASSUME NEW i \in Invitation
      PROVE  /\ host'[i] \in HostState
             /\ host'[i].pc = host[i].pc /\ host'[i].peer = host[i].peer
             /\ host'[i].key = host[i].key /\ host'[i].in = host[i].in
             /\ host'[i].up = host[i].up
  <2>1. host[i] \in HostState
    BY DEF TypeOK
  <2>2. host'[i] \in {[host[i] EXCEPT !.fenced = TRUE], host[i]}
    BY DEF Fenced
  <2> QED
    BY <2>1, <2>2 DEF HostState
<1>2. ASSUME NEW i \in Invitation
      PROVE  /\ join'[d][i] \in JoinState
             /\ join'[d][i].pc = join[d][i].pc /\ join'[d][i].in = join[d][i].in
             /\ join'[d][i].key = join[d][i].key /\ join'[d][i].repair = join[d][i].repair
             /\ join'[d][i].up = join[d][i].up
             /\ join[d][i].fenced \/ join[d][i].pc # "idle" => join'[d][i].fenced
  <2>1. join[d][i] \in JoinState
    BY DEF TypeOK
  <2>2. join'[d][i] = IF join[d][i].pc # "idle" THEN [join[d][i] EXCEPT !.fenced = TRUE]
                      ELSE join[d][i]
    BY DEF Fenced, TypeOK
  <2> QED
    BY <2>1, <2>2, ZenonT(30) DEF JoinState
<1>3. \A j \in Device \ {d} : join'[j] = join[j] /\ rec'[j] = rec[j]
  BY DEF Fenced, TypeOK
<1>4. ASSUME NEW i \in Invitation
      PROVE  /\ rec'[d][i] \in RecState
             /\ rec'[d][i].pc = rec[d][i].pc /\ rec'[d][i].key = rec[d][i].key
  <2>1. rec[d][i] \in RecState
    BY DEF TypeOK
  <2>2. rec'[d][i] = IF rec[d][i].pc # "idle" THEN [rec[d][i] EXCEPT !.fenced = TRUE]
                      ELSE rec[d][i]
    BY DEF Fenced, TypeOK
  <2> QED
    BY <2>1, <2>2 DEF RecState
<1>5. host' \in [Invitation -> HostState]
  BY <1>1 DEF Fenced
<1>6. join' \in [Device -> [Invitation -> JoinState]]
  <2>1. join'[d] \in [Invitation -> JoinState]
    BY <1>2 DEF Fenced, TypeOK
  <2> QED
    BY <2>1 DEF Fenced, TypeOK
<1>7. rec' \in [Device -> [Invitation -> RecState]]
  <2>1. rec'[d] \in [Invitation -> RecState]
    BY <1>4 DEF Fenced, TypeOK
  <2> QED
    BY <2>1 DEF Fenced, TypeOK
<1>8. HostFades /\ JoinFades /\ RecFades
  BY <1>1, <1>2, <1>3, <1>4 DEF HostFades, JoinFades, RecFades
<1>9. \A j \in Device, i \in Invitation :
        /\ join'[j][i].pc = join[j][i].pc /\ join'[j][i].in = join[j][i].in
        /\ join'[j][i].up = join[j][i].up
  BY <1>2, <1>3
<1>10. Connected'
  <2>1. \A i \in Invitation : host[i].up => host[i].peer \in Device
    BY DEF Connected, Issued
  <2> QED
    BY <1>1, <1>9, <2>1 DEF Connected
<1> QED
  BY <1>1, <1>2, <1>3, <1>5, <1>6, <1>7, <1>8, <1>10

\* Recoveries that end fade.
LEMMA RecoveriesFade ==
  ASSUME TypeOK, NEW d \in Device, RecoveriesEnd(d)
  PROVE  rec' \in [Device -> [Invitation -> RecState]] /\ RecFades
<1>1. \A j \in Device, i \in Invitation :
        rec'[j][i] \in RecState /\ rec'[j][i] \in {RecIdle, rec[j][i]}
  BY IdleStates DEF TypeOK, RecoveriesEnd
<1>2. rec' \in [Device -> [Invitation -> RecState]]
  BY <1>1 DEF RecoveriesEnd
<1> QED
  BY <1>1, <1>2, IdleStates DEF RecFades

\* A claim that is given back can be made again.
LEMMA ReleasedState ==
  ASSUME TypeOK, NEW i \in Invitation, inv' = Released(i)
  PROVE  /\ inv' \in [Invitation -> InvState]
         /\ \A k \in Invitation :
              /\ inv'[k].by = inv[k].by /\ inv'[k].attempts = inv[k].attempts
              /\ inv'[k].state = inv[k].state
                 \/ (k = i /\ inv[k].state = "claimed" /\ inv'[k].state = "open")
         /\ SameIssuers
<1>1. inv[i] \in InvState
  BY DEF TypeOK
<1>2. CASE inv[i].state = "claimed"
  <2>1. inv' = [inv EXCEPT ![i] = [inv[i] EXCEPT !.state = "open"]]
    BY <1>2 DEF Released
  <2>2. PICK r \in InvState : /\ r.by = inv[i].by /\ r.attempts = inv[i].attempts
                              /\ r.state = "open"
                              /\ inv' = [inv EXCEPT ![i] = r]
    BY <1>1, <2>1 DEF InvState
  <2>3. \A k \in Invitation : k # i => inv'[k] = inv[k]
    BY <2>2 DEF TypeOK
  <2>4. inv'[i] = r /\ inv' \in [Invitation -> InvState]
    BY <2>2 DEF TypeOK
  <2> QED
    BY <1>2, <2>2, <2>3, <2>4 DEF SameIssuers
<1>3. CASE inv[i].state # "claimed"
  BY <1>3 DEF Released, TypeOK, SameIssuers
<1> QED
  BY <1>2, <1>3

\* So are the invitations of a device that shuts down, which are used up.
LEMMA ClosedState ==
  ASSUME TypeOK, NEW d \in Device,
         inv' = [i \in Invitation |->
           IF By(i) = d /\ inv[i].state # "free" THEN [inv[i] EXCEPT !.state = "gone"]
           ELSE inv[i]]
  PROVE  /\ inv' \in [Invitation -> InvState]
         /\ \A k \in Invitation :
              /\ inv'[k].by = inv[k].by /\ inv'[k].attempts = inv[k].attempts
              /\ inv'[k].state = inv[k].state
                 \/ (By(k) = d /\ inv[k].state # "free" /\ inv'[k].state = "gone")
         /\ SameIssuers
<1>1. ASSUME NEW k \in Invitation
      PROVE  /\ inv'[k] \in InvState
             /\ inv'[k].by = inv[k].by /\ inv'[k].attempts = inv[k].attempts
             /\ inv'[k].state = inv[k].state
                \/ (By(k) = d /\ inv[k].state # "free" /\ inv'[k].state = "gone")
  <2>1. inv[k] \in InvState
    BY DEF TypeOK
  <2> QED
    BY <2>1 DEF InvState
<1>2. SameIssuers
  BY <1>1 DEF SameIssuers
<1> QED
  BY <1>1, <1>2

-----------------------------------------------------------------------------
(* Steps that end, lose or fence *)

\* An invitation expires.
LEMMA ExpireKeeps ==
  ASSUME IInv, NEW i \in Invitation, Expire(i)
  PROVE  IInv'
<1>1. inv[i] \in InvState
  BY DEF IInv, TypeOK
<1>2. inv' = [inv EXCEPT ![i] = [inv[i] EXCEPT !.expired = TRUE]]
  BY DEF Expire
<1>3. PICK r \in InvState : /\ r.by = inv[i].by /\ r.attempts = inv[i].attempts
                            /\ r.state = inv[i].state
                            /\ inv' = [inv EXCEPT ![i] = r]
  BY <1>1, <1>2 DEF InvState
<1>4. /\ inv' \in [Invitation -> InvState]
      /\ \A k \in Invitation : /\ inv'[k].by = inv[k].by /\ inv'[k].state = inv[k].state
                               /\ inv'[k].attempts = inv[k].attempts
  BY <1>1, <1>3 DEF IInv, TypeOK
<1>5. TypeOK'
  <2>1. faults' \in 0 .. scope.faults
    BY DEF IInv, TypeOK, Expire
  <2> QED
    BY <1>4, <2>1 DEF IInv, TypeOK, Expire, trust
<1>6. SameIssuers /\ Fades
  BY <1>4 DEF SameIssuers, Fades, HostFades, JoinFades, RecFades, Expire, trust
<1>7. Connected'
  BY DEF IInv, Connected, Expire, trust
<1>8. \A k \in Invitation : host'[k].pc = "committing" => inv'[k].state = "claimed"
  BY <1>4 DEF IInv, UsedUp, Expire
<1> QED
  BY <1>4, <1>5, <1>6, <1>7, <1>8, FadingKeeps DEF IInv, Expire, trust

\* An inbound worker that fails gives its claim back.
LEMMA HostFailsKeeps ==
  ASSUME IInv, NEW i \in Invitation, HostFails(i)
  PROVE  IInv'
<1>1. /\ host' \in [Invitation -> HostState]
      /\ join' \in [Device -> [Invitation -> JoinState]]
      /\ HostFades /\ JoinFades /\ Connected'
      /\ \A k \in {i} : host'[k].pc = "idle"
      /\ \A k \in Invitation \ {i} : host'[k].pc = host[k].pc
  BY EndingFades DEF IInv, HostFails
<1>2. /\ inv' \in [Invitation -> InvState]
      /\ \A k \in Invitation :
           /\ inv'[k].by = inv[k].by /\ inv'[k].attempts = inv[k].attempts
           /\ inv'[k].state = inv[k].state
              \/ (k = i /\ inv[k].state = "claimed" /\ inv'[k].state = "open")
      /\ SameIssuers
  BY ReleasedState DEF IInv, HostFails
<1>3. TypeOK'
  <2>1. faults' \in 0 .. scope.faults
    BY DEF IInv, TypeOK, HostFails
  <2> QED
    BY <1>1, <1>2, <2>1 DEF IInv, TypeOK, HostFails, trust
<1>4. Fades
  BY <1>1 DEF Fades, RecFades, HostFails
<1>5. \A k \in Invitation : inv[k].state = "gone" => inv'[k].state = "gone"
  BY <1>2
<1>6. \A k \in Invitation : host'[k].pc = "committing" => inv'[k].state = "claimed"
  BY <1>1, <1>2 DEF IInv, UsedUp
<1> QED
  BY <1>1, <1>2, <1>3, <1>4, <1>5, <1>6, FadingKeeps DEF IInv, HostFails, trust

\* A connect call ends, with its outcome or with an error.
LEMMA JoinEndsKeeps ==
  ASSUME IInv, NEW j \in Device, NEW i \in Invitation, JoinComplete(j, i) \/ JoinFails(j, i)
  PROVE  IInv'
<1>1. /\ Ended({}, {<<j, i>>})
      /\ UNCHANGED <<life, trust, inv, rec, wants, calls, approved, consent, scope>>
      /\ faults' \in 0 .. scope.faults
  BY DEF IInv, TypeOK, JoinComplete, JoinFails
<1>2. /\ host' \in [Invitation -> HostState]
      /\ join' \in [Device -> [Invitation -> JoinState]]
      /\ HostFades /\ JoinFades /\ Connected'
      /\ \A k \in Invitation : host'[k].pc = host[k].pc
  <2>1. /\ host' \in [Invitation -> HostState]
        /\ join' \in [Device -> [Invitation -> JoinState]]
        /\ HostFades /\ JoinFades /\ Connected'
        /\ \A k \in Invitation \ {} : host'[k].pc = host[k].pc
    BY <1>1, {} \in SUBSET Invitation, EndingFades DEF IInv
  <2> QED
    BY <2>1
<1>3. TypeOK'
  BY <1>1, <1>2 DEF IInv, TypeOK, trust
<1>4. Fades /\ SameIssuers
  BY <1>1, <1>2 DEF Fades, RecFades, SameIssuers
<1>5. \A k \in Invitation : host'[k].pc = "committing" => inv'[k].state = "claimed"
  BY <1>1, <1>2 DEF IInv, UsedUp
<1> QED
  BY <1>1, <1>2, <1>3, <1>4, <1>5, FadingKeeps DEF IInv, trust

\* The connection breaks, and both ends lose what was under way.
LEMMA CutKeeps ==
  ASSUME IInv, NEW i \in Invitation, Cut(i)
  PROVE  IInv'
<1>1. PICK j \in Device : j = host[i].peer
  BY DEF IInv, Connected, Issued, Cut
<1>2. PICK h \in HostState :
        /\ h.pc = host[i].pc /\ h.peer = host[i].peer /\ h.key = host[i].key
        /\ h.in = None /\ ~h.up
        /\ host' = [host EXCEPT ![i] = h]
  <2>1. host' = [host EXCEPT ![i] = [host[i] EXCEPT !.up = FALSE, !.in = None]]
    BY DEF Cut
  <2>2. host[i] \in HostState
    BY DEF IInv, TypeOK
  <2> QED
    BY <2>1, <2>2 DEF HostState
<1>3. PICK c \in JoinState :
        /\ c.pc = join[j][i].pc /\ c.repair = join[j][i].repair /\ c.key = join[j][i].key
        /\ c.fenced = join[j][i].fenced /\ c.in = None /\ ~c.up
        /\ join' = [join EXCEPT ![j] = [join[j] EXCEPT ![i] = c]]
  <2>1. join' = [join EXCEPT ![j] =
          [join[j] EXCEPT ![i] = [join[j][i] EXCEPT !.up = FALSE, !.in = None]]]
    BY <1>1 DEF Cut
  <2>2. join[j][i] \in JoinState
    BY DEF IInv, TypeOK
  <2> QED
    BY <2>1, <2>2 DEF JoinState
<1>4. /\ host' \in [Invitation -> HostState] /\ host'[i] = h
      /\ \A k \in Invitation : k # i => host'[k] = host[k]
  BY <1>2 DEF IInv, TypeOK
<1>5. /\ join' \in [Device -> [Invitation -> JoinState]] /\ join'[j][i] = c
      /\ \A d \in Device, k \in Invitation : d # j \/ k # i => join'[d][k] = join[d][k]
  BY <1>3 DEF IInv, TypeOK
<1>6. TypeOK'
  <2>1. faults' \in 0 .. scope.faults
    BY DEF IInv, TypeOK, Cut
  <2> QED
    BY <1>4, <1>5, <2>1 DEF IInv, TypeOK, Cut, trust
<1>7. Fades /\ SameIssuers
  <2>1. HostFades
    BY <1>2, <1>4 DEF HostFades
  <2>2. JoinFades
    BY <1>3, <1>5 DEF JoinFades
  <2> QED
    BY <2>1, <2>2 DEF Fades, RecFades, SameIssuers, Cut
<1>8. Connected'
  <2>1. \A k \in Invitation : host[k].up => host[k].peer \in Device
    BY DEF IInv, Connected, Issued
  <2>2. \A k \in Invitation :
          /\ host'[k].pc = "idle" => ~host'[k].up /\ host'[k].in = None
          /\ host'[k].up => join'[host'[k].peer][k].pc # "idle"
    BY <1>2, <1>3, <1>4, <1>5, <2>1 DEF IInv, Connected
  <2>3. \A d \in Device, k \in Invitation :
          /\ join'[d][k].pc = "idle" => ~join'[d][k].up /\ join'[d][k].in = None
          /\ join'[d][k].up /\ (join'[d][k].pc # "hello" \/ join'[d][k].in # None) =>
               host'[k].up /\ host'[k].peer = d
    BY <1>1, <1>2, <1>3, <1>4, <1>5, SMTT(30) DEF IInv, Connected
  <2> QED
    BY <2>2, <2>3 DEF Connected
<1>9. \A k \in Invitation : host'[k].pc = "committing" => inv'[k].state = "claimed"
  BY <1>2, <1>4 DEF IInv, UsedUp, Cut
<1> QED
  BY <1>6, <1>7, <1>8, <1>9, FadingKeeps DEF IInv, Cut, trust

\* A recovery ends.
LEMMA RecoverFailsKeeps ==
  ASSUME IInv, NEW j \in Device, NEW i \in Invitation, RecoverFails(j, i)
  PROVE  IInv'
<1>1. /\ rec' \in [Device -> [Invitation -> RecState]] /\ rec'[j][i] = RecIdle
      /\ \A d \in Device, k \in Invitation : d # j \/ k # i => rec'[d][k] = rec[d][k]
  BY IdleStates DEF IInv, TypeOK, RecoverFails
<1>2. TypeOK'
  <2>1. \/ faults' = faults
        \/ faults < scope.faults /\ faults' = faults + 1
    BY DEF RecoverFails
  <2>2. scope.faults \in Nat /\ faults \in 0 .. scope.faults
    BY DEF IInv, TypeOK
  <2>3. faults' \in 0 .. scope.faults
    BY <2>1, <2>2
  <2> QED
    BY <1>1, <2>3 DEF IInv, TypeOK, RecoverFails, trust
<1>3. Fades /\ SameIssuers
  <2>1. RecFades
    BY <1>1, IdleStates DEF RecFades
  <2> QED
    BY <2>1 DEF Fades, HostFades, JoinFades, SameIssuers, RecoverFails
<1>4. Connected'
  BY DEF IInv, Connected, RecoverFails
<1>5. \A k \in Invitation : host'[k].pc = "committing" => inv'[k].state = "claimed"
  BY DEF IInv, UsedUp, RecoverFails
<1> QED
  BY <1>2, <1>3, <1>4, <1>5, FadingKeeps DEF IInv, RecoverFails, trust

\* stop fences the handlers of its device.
LEMMA StopFenceKeeps ==
  ASSUME IInv, NEW d \in Device, StopFence(d)
  PROVE  IInv'
<1>1. /\ host' \in [Invitation -> HostState]
      /\ join' \in [Device -> [Invitation -> JoinState]]
      /\ rec' \in [Device -> [Invitation -> RecState]]
      /\ HostFades /\ JoinFades /\ RecFades /\ Connected'
      /\ \A i \in Invitation : host'[i].pc = host[i].pc
  BY FencingFades DEF IInv, StopFence
<1>2. TypeOK'
  <2>1. calls' \in 0 .. scope.calls /\ life' \in [Device -> Life]
    BY DEF IInv, TypeOK, StopFence, Life
  <2> QED
    BY <1>1, <2>1 DEF IInv, TypeOK, StopFence, trust
<1>3. SameIssuers
  BY DEF SameIssuers, StopFence
<1>4. \A k \in Invitation : host'[k].pc = "committing" => inv'[k].state = "claimed"
  BY <1>1 DEF IInv, UsedUp, StopFence
<1> QED
  BY <1>1, <1>2, <1>3, <1>4, FadingKeeps DEF IInv, Fades, StopFence, trust

\* The invitations are closed while no commit is under way.
LEMMA StopCloseKeeps ==
  ASSUME IInv, NEW d \in Device, StopClose(d)
  PROVE  IInv'
<1>1. /\ inv' \in [Invitation -> InvState]
      /\ \A k \in Invitation :
           /\ inv'[k].by = inv[k].by /\ inv'[k].attempts = inv[k].attempts
           /\ inv'[k].state = inv[k].state
              \/ (By(k) = d /\ inv[k].state # "free" /\ inv'[k].state = "gone")
      /\ SameIssuers
  BY ClosedState DEF IInv, StopClose
<1>2. TypeOK'
  <2>1. life' \in [Device -> Life]
    BY DEF IInv, TypeOK, StopClose, Life
  <2> QED
    BY <1>1, <2>1 DEF IInv, TypeOK, StopClose, trust
<1>3. Fades /\ Connected'
  BY DEF IInv, Fades, HostFades, JoinFades, RecFades, Connected, StopClose
<1>4. \A k \in Invitation : host'[k].pc = "committing" => inv'[k].state = "claimed"
  BY <1>1 DEF IInv, UsedUp, Unlocked, StopClose
<1>5. \A k \in Invitation : inv[k].state = "gone" => inv'[k].state = "gone"
  BY <1>1
<1> QED
  BY <1>1, <1>2, <1>3, <1>4, <1>5, FadingKeeps DEF IInv, StopClose, trust

\* The same, by a user.
LEMMA ClosePairingKeeps ==
  ASSUME IInv, NEW d \in Device, ClosePairing(d)
  PROVE  IInv'
<1>1. /\ inv' \in [Invitation -> InvState]
      /\ \A k \in Invitation :
           /\ inv'[k].by = inv[k].by /\ inv'[k].attempts = inv[k].attempts
           /\ inv'[k].state = inv[k].state
              \/ (By(k) = d /\ inv[k].state # "free" /\ inv'[k].state = "gone")
      /\ SameIssuers
  BY ClosedState DEF IInv, ClosePairing
<1>2. TypeOK'
  <2>1. calls' \in 0 .. scope.calls
    BY DEF IInv, TypeOK, ClosePairing
  <2> QED
    BY <1>1, <2>1 DEF IInv, TypeOK, ClosePairing, trust
<1>3. Fades /\ Connected'
  BY DEF IInv, Fades, HostFades, JoinFades, RecFades, Connected, ClosePairing
<1>4. \A k \in Invitation : host'[k].pc = "committing" => inv'[k].state = "claimed"
  BY <1>1 DEF IInv, UsedUp, Unlocked, ClosePairing
<1>5. \A k \in Invitation : inv[k].state = "gone" => inv'[k].state = "gone"
  BY <1>1
<1> QED
  BY <1>1, <1>2, <1>3, <1>4, <1>5, FadingKeeps DEF IInv, ClosePairing, trust

\* Workers and recoveries of the device end.
LEMMA StopJoinKeeps ==
  ASSUME IInv, NEW d \in Device, StopJoin(d)
  PROVE  IInv'
<1> PICK H \in SUBSET Invitation : H = {i \in Invitation : By(i) = d /\ host[i].pc # "idle"}
  OBVIOUS
<1>1. /\ host' \in [Invitation -> HostState]
      /\ join' \in [Device -> [Invitation -> JoinState]]
      /\ HostFades /\ JoinFades /\ Connected'
      /\ \A i \in H : host'[i].pc = "idle"
      /\ \A i \in Invitation \ H : host'[i].pc = host[i].pc
  BY EndingFades DEF IInv, StopJoin
<1>2. rec' \in [Device -> [Invitation -> RecState]] /\ RecFades
  BY RecoveriesFade DEF IInv, StopJoin
<1>3. TypeOK'
  <2>1. life' \in [Device -> Life]
    BY DEF IInv, TypeOK, StopJoin, Life
  <2> QED
    BY <1>1, <1>2, <2>1 DEF IInv, TypeOK, StopJoin, trust
<1>4. SameIssuers
  BY DEF SameIssuers, StopJoin
<1>5. \A k \in Invitation : host'[k].pc = "committing" => inv'[k].state = "claimed"
  BY <1>1 DEF IInv, UsedUp, StopJoin
<1> QED
  BY <1>1, <1>2, <1>3, <1>4, <1>5, FadingKeeps DEF IInv, Fades, StopJoin, trust

\* start changes nothing that is under way.
LEMMA StartKeeps ==
  ASSUME IInv, NEW d \in Device, Start(d)
  PROVE  IInv'
<1>1. TypeOK'
  <2>1. life' \in [Device -> Life]
    BY DEF IInv, TypeOK, Start, Life
  <2> QED
    BY <2>1 DEF IInv, TypeOK, Start, trust
<1>2. SameIssuers /\ Fades /\ Connected'
  BY DEF IInv, SameIssuers, Fades, HostFades, JoinFades, RecFades, Connected, Start
<1>3. \A k \in Invitation : host'[k].pc = "committing" => inv'[k].state = "claimed"
  BY DEF IInv, UsedUp, Start
<1> QED
  BY <1>1, <1>2, <1>3, FadingKeeps DEF IInv, Start, trust

\* A crash ends everything its device was doing and closes its invitations.
LEMMA CrashKeeps ==
  ASSUME IInv, NEW d \in Device, Crash(d)
  PROVE  IInv'
<1> PICK H \in SUBSET Invitation : H = {i \in Invitation : By(i) = d /\ host[i].pc # "idle"}
  OBVIOUS
<1>1. /\ host' \in [Invitation -> HostState]
      /\ join' \in [Device -> [Invitation -> JoinState]]
      /\ HostFades /\ JoinFades /\ Connected'
      /\ \A i \in H : host'[i].pc = "idle"
      /\ \A i \in Invitation \ H : host'[i].pc = host[i].pc
  BY EndingFades DEF IInv, Crash
<1>2. rec' \in [Device -> [Invitation -> RecState]] /\ RecFades
  BY RecoveriesFade DEF IInv, Crash
<1>3. /\ inv' \in [Invitation -> InvState]
      /\ \A k \in Invitation :
           /\ inv'[k].by = inv[k].by /\ inv'[k].attempts = inv[k].attempts
           /\ inv'[k].state = inv[k].state
              \/ (By(k) = d /\ inv[k].state # "free" /\ inv'[k].state = "gone")
      /\ SameIssuers
  BY ClosedState DEF IInv, Crash
<1>4. TypeOK'
  <2>1. /\ life' \in [Device -> Life] /\ faults' \in 0 .. scope.faults
        /\ wants' \in [Device -> Invitation \cup {None}]
    BY DEF IInv, TypeOK, Crash, Life
  <2> QED
    BY <1>1, <1>2, <1>3, <2>1 DEF IInv, TypeOK, Crash, trust
<1>5. \A k \in Invitation : host'[k].pc = "committing" => inv'[k].state = "claimed"
  <2>1. ASSUME NEW k \in Invitation, host'[k].pc = "committing" PROVE inv'[k].state = "claimed"
    <3>1. k \notin H /\ host[k].pc = "committing" /\ By(k) # d
      BY <1>1, <2>1
    <3> QED
      BY <1>3, <3>1 DEF IInv, UsedUp
  <2> QED
    BY <2>1
<1>6. \A k \in Invitation : inv[k].state = "gone" => inv'[k].state = "gone"
  BY <1>3
<1> QED
  BY <1>1, <1>2, <1>3, <1>4, <1>5, <1>6, FadingKeeps DEF IInv, Fades, Crash, trust

-----------------------------------------------------------------------------
(* Messages *)

\* One inbound worker changes.
LEMMA HostMoves ==
  ASSUME TypeOK, NEW i \in Invitation, NEW h \in HostState, host' = [host EXCEPT ![i] = h]
  PROVE  /\ host' \in [Invitation -> HostState] /\ host'[i] = h
         /\ \A k \in Invitation : k # i => host'[k] = host[k]
BY DEF TypeOK

\* One connect call changes.
LEMMA JoinMoves ==
  ASSUME TypeOK, NEW j \in Device, NEW i \in Invitation, NEW c \in JoinState,
         join' = [join EXCEPT ![j] = [join[j] EXCEPT ![i] = c]]
  PROVE  /\ join' \in [Device -> [Invitation -> JoinState]] /\ join'[j][i] = c
         /\ \A d \in Device, k \in Invitation : d # j \/ k # i => join'[d][k] = join[d][k]
BY DEF TypeOK

\* One recovery changes.
LEMMA RecMoves ==
  ASSUME TypeOK, NEW j \in Device, NEW i \in Invitation, NEW r \in RecState,
         rec' = [rec EXCEPT ![j] = [rec[j] EXCEPT ![i] = r]]
  PROVE  /\ rec' \in [Device -> [Invitation -> RecState]] /\ rec'[j][i] = r
         /\ \A d \in Device, k \in Invitation : d # j \/ k # i => rec'[d][k] = rec[d][k]
BY DEF TypeOK

\* A message reaches the joiner if the connection is up, and is lost otherwise.
LEMMA SentReaches ==
  ASSUME TypeOK, Issued, Connected, NEW i \in Invitation,
         NEW m \in {"ready", "accepted"}, NEW k \in Device \cup {Nobody}, Sent(i, m, k)
  PROVE  /\ join' \in [Device -> [Invitation -> JoinState]]
         /\ \A d \in Device, n \in Invitation :
              /\ join'[d][n].pc = join[d][n].pc /\ join'[d][n].up = join[d][n].up
              /\ join'[d][n].repair = join[d][n].repair
              /\ join'[d][n].fenced = join[d][n].fenced
              /\ \/ join'[d][n].in = join[d][n].in /\ join'[d][n].key = join[d][n].key
                 \/ /\ n = i /\ host[i].up /\ host[i].peer = d
                    /\ join'[d][n].in = m /\ join'[d][n].key = k
<1>1. CASE ~host[i].up
  BY <1>1 DEF Sent, TypeOK
<1>2. CASE host[i].up
  <2>1. PICK j \in Device : j = host[i].peer
    BY <1>2 DEF Issued, Connected
  <2>2. join' = [join EXCEPT ![j] =
          [join[j] EXCEPT ![i] = [join[j][i] EXCEPT !.in = m, !.key = k]]]
    BY <1>2, <2>1 DEF Sent, TypeOK
  <2>3. join[j][i] \in JoinState
    BY DEF TypeOK
  <2>4. PICK c \in JoinState :
          /\ c.pc = join[j][i].pc /\ c.up = join[j][i].up /\ c.repair = join[j][i].repair
          /\ c.fenced = join[j][i].fenced /\ c.in = m /\ c.key = k
          /\ join' = [join EXCEPT ![j] = [join[j] EXCEPT ![i] = c]]
    BY <2>2, <2>3 DEF JoinState
  <2>5. /\ join' \in [Device -> [Invitation -> JoinState]] /\ join'[j][i] = c
        /\ \A d \in Device, n \in Invitation : d # j \/ n # i => join'[d][n] = join[d][n]
    BY <2>4, JoinMoves, ZenonT(30)
  <2>6. ASSUME NEW d \in Device, NEW n \in Invitation
        PROVE  /\ join'[d][n].pc = join[d][n].pc /\ join'[d][n].up = join[d][n].up
               /\ join'[d][n].repair = join[d][n].repair
               /\ join'[d][n].fenced = join[d][n].fenced
               /\ \/ join'[d][n].in = join[d][n].in /\ join'[d][n].key = join[d][n].key
                  \/ /\ n = i /\ host[i].up /\ host[i].peer = d
                     /\ join'[d][n].in = m /\ join'[d][n].key = k
    <3>1. CASE d = j /\ n = i
      BY <1>2, <2>1, <2>4, <2>5, <3>1, SMTT(30)
    <3>2. CASE d # j \/ n # i
      BY <2>5, <3>2
    <3> QED  BY <3>1, <3>2
  <2> QED  BY <2>5, <2>6
<1> QED
  BY <1>1, <1>2

\* PairHello: the inviter answers whoever has come first.
LEMMA ClaimKeeps ==
  ASSUME IInv, NEW i \in Invitation, NEW j \in Device, Claim(i, j)
  PROVE  IInv'
<1>1. PICK h \in HostState :
        /\ h.pc = "challenged" /\ h.peer = j /\ h.up /\ h.in = None
        /\ host' = [host EXCEPT ![i] = h]
  <2>1. host' = [host EXCEPT ![i] = [HostIdle EXCEPT !.pc = "challenged", !.peer = j, !.up = TRUE]]
    BY DEF Claim
  <2> QED
    BY <2>1 DEF HostIdle, HostState
<1>2. PICK c \in JoinState :
        /\ c.pc = "hello" /\ c.up /\ c.in = "challenge" /\ c.key = join[j][i].key
        /\ c.repair = join[j][i].repair /\ c.fenced = join[j][i].fenced
        /\ join' = [join EXCEPT ![j] = [join[j] EXCEPT ![i] = c]]
  <2>1. join' = [join EXCEPT ![j] = [join[j] EXCEPT ![i] = [join[j][i] EXCEPT !.in = "challenge"]]]
    BY DEF Claim
  <2>2. join[j][i] \in JoinState /\ join[j][i].pc = "hello" /\ join[j][i].up
    BY DEF IInv, TypeOK, Claim
  <2> QED
    BY <2>1, <2>2 DEF JoinState
<1>3. /\ host' \in [Invitation -> HostState] /\ host'[i] = h
      /\ \A k \in Invitation : k # i => host'[k] = host[k]
  BY <1>1, HostMoves DEF IInv
<1>4. /\ join' \in [Device -> [Invitation -> JoinState]] /\ join'[j][i] = c
      /\ \A d \in Device, k \in Invitation : d # j \/ k # i => join'[d][k] = join[d][k]
  <2>1. TypeOK
    BY DEF IInv
  <2>2. join' = [join EXCEPT ![j] = [join[j] EXCEPT ![i] = c]]
    BY <1>2
  <2> QED
    BY <2>1, <2>2, JoinMoves, ZenonT(30)
<1>5. /\ inv' \in [Invitation -> InvState]
      /\ \A k \in Invitation : inv'[k].attempts <= scope.attempts
      /\ \A k \in Invitation : inv'[k].by = inv[k].by
      /\ \A k \in Invitation : inv'[k].state = inv[k].state
           \/ (k = i /\ inv[k].state = "open" /\ inv'[k].state = "claimed")
  <2>1. inv[i] \in InvState /\ inv[i].state = "open" /\ inv[i].attempts < scope.attempts
    BY DEF IInv, TypeOK, Claim, Claimable
  <2>2. scope.attempts \in Nat
    BY DEF IInv, TypeOK
  <2>3. PICK r \in InvState :
          /\ r.by = inv[i].by /\ r.state = "claimed" /\ r.attempts <= scope.attempts
          /\ inv' = [inv EXCEPT ![i] = r]
    <3>1. inv' = [inv EXCEPT ![i] =
            [inv[i] EXCEPT !.state = "claimed", !.attempts = inv[i].attempts + 1]]
      BY DEF Claim
    <3>2. inv[i].attempts \in Nat
      BY <2>1 DEF InvState
    <3>3. PICK n \in Nat : n = inv[i].attempts + 1 /\ n <= scope.attempts
      BY <2>1, <2>2, <3>2
    <3>4. inv' = [inv EXCEPT ![i] = [inv[i] EXCEPT !.state = "claimed", !.attempts = n]]
      BY <3>1, <3>3
    <3> QED
      BY <2>1, <3>3, <3>4 DEF InvState
  <2>4. /\ inv' \in [Invitation -> InvState] /\ inv'[i] = r
        /\ \A k \in Invitation : k # i => inv'[k] = inv[k]
    BY <2>3 DEF IInv, TypeOK
  <2> QED
    BY <2>1, <2>3, <2>4 DEF IInv, TypeOK
<1>6. TypeOK'
  BY <1>3, <1>4, <1>5 DEF IInv, TypeOK, Claim, trust
<1>7. SameIssuers
  BY <1>5 DEF SameIssuers
<1>8. host[i].pc = "idle" /\ ~host[i].up
  BY DEF IInv, Connected, Claim
<1>9. Issued'
  <2>1. By(i) \notin {j, Nobody}
    BY DEF IInv, Issued, Claim
  <2>2. \A k \in Invitation : By(k)' = By(k)
    BY <1>5 DEF By
  <2> QED
    BY <1>1, <1>2, <1>3, <1>4, <1>5, <2>1, <2>2 DEF IInv, Issued, Claim, trust
<1>10. Connected'
  <2>1. ASSUME NEW k \in Invitation
        PROVE  /\ host'[k].pc = "idle" => ~host'[k].up /\ host'[k].in = None
               /\ host'[k].up => join'[host'[k].peer][k].pc # "idle"
    BY <1>1, <1>2, <1>3, <1>4 DEF IInv, Connected, Issued
  <2>2. ASSUME NEW d \in Device, NEW k \in Invitation
        PROVE  /\ join'[d][k].pc = "idle" => ~join'[d][k].up /\ join'[d][k].in = None
               /\ join'[d][k].up /\ (join'[d][k].pc # "hello" \/ join'[d][k].in # None) =>
                    host'[k].up /\ host'[k].peer = d
    BY <1>1, <1>2, <1>3, <1>4, <1>8 DEF IInv, Connected
  <2> QED
    BY <2>1, <2>2 DEF Connected
<1>11. HostsWarranted
  <2>1. ASSUME NEW k \in Invitation,
               host'[k].in = "prepared" \/ host'[k].pc = "committing"
        PROVE  k # i /\ host'[k] = host[k] /\ inv'[k].state = inv[k].state
    BY <1>1, <1>3, <1>5, <2>1 DEF None
  <2>2. prepared' = prepared
    BY DEF Claim, trust
  <2> QED
    BY <2>1, <2>2 DEF IInv, UsedUp, KeyFits, PreparedFirst, Prepares, HostsWarranted
<1>12. JoinsWarranted
  <2>1. \A d \in Device, k \in Invitation : join'[d][k].in = "accepted" =>
          join[d][k].in = "accepted" /\ join'[d][k].key = join[d][k].key
    BY <1>2, <1>4
  <2>2. \A d \in Device, k \in Invitation :
          join'[d][k].pc # "idle" /\ join'[d][k].repair /\ ~join'[d][k].fenced =>
            consent[d][By(k)]
    BY <1>2, <1>4 DEF IInv, Consented, Claim
  <2>3. consent' = consent
    BY DEF Claim
  <2> QED
    BY <2>1, <2>2, <2>3 DEF JoinsWarranted
<1>13. RecsWarranted
  BY DEF IInv, Approved, RecsWarranted, Claim
<1>14. TrustStays
  BY <1>5 DEF TrustStays, Claim, trust
<1>15. /\ UsedUp' /\ Approved' /\ PreparedFirst' /\ Consented'
       /\ KeyFits' /\ KeysAgree' /\ SingleUse' /\ Recoverable'
  BY <1>7, <1>11, <1>12, <1>13, <1>14, TrustKept
<1> QED
  BY <1>6, <1>9, <1>10, <1>15 DEF IInv

\* PairReady is sent to the joiner that has confirmed.
LEMMA ReadyKeeps ==
  ASSUME IInv, NEW i \in Invitation, Ready(i)
  PROVE  IInv'
<1>1. PICK h \in HostState :
        /\ h.pc = "ready" /\ h.peer = host[i].peer /\ h.up = host[i].up /\ h.in = None
        /\ host' = [host EXCEPT ![i] = h]
  <2>1. host' = [host EXCEPT ![i] = [host[i] EXCEPT !.pc = "ready", !.in = None]]
    BY DEF Ready
  <2>2. host[i] \in HostState
    BY DEF IInv, TypeOK
  <2> QED
    BY <2>1, <2>2 DEF HostState
<1>2. /\ host' \in [Invitation -> HostState] /\ host'[i] = h
      /\ \A k \in Invitation : k # i => host'[k] = host[k]
  BY <1>1, HostMoves DEF IInv
<1>3. /\ join' \in [Device -> [Invitation -> JoinState]]
      /\ \A d \in Device, n \in Invitation :
           /\ join'[d][n].pc = join[d][n].pc /\ join'[d][n].up = join[d][n].up
           /\ join'[d][n].repair = join[d][n].repair
           /\ join'[d][n].fenced = join[d][n].fenced
           /\ \/ join'[d][n].in = join[d][n].in /\ join'[d][n].key = join[d][n].key
              \/ /\ n = i /\ host[i].up /\ host[i].peer = d
                 /\ join'[d][n].in = "ready" /\ join'[d][n].key = Nobody
  BY SentReaches DEF IInv, Ready
<1>4. TypeOK'
  BY <1>2, <1>3 DEF IInv, TypeOK, Ready, trust
<1>5. SameIssuers
  BY DEF SameIssuers, Ready
<1>6. Issued'
  BY <1>1, <1>2, <1>3, <1>5, IssuedKept DEF IInv, Ready, trust
<1>7. Connected'
  <2>1. \A k \in Invitation : host[k].up => host[k].peer \in Device
    BY DEF IInv, Connected, Issued
  <2>2. \A k \in Invitation :
          /\ host'[k].pc = "idle" => ~host'[k].up /\ host'[k].in = None
          /\ host'[k].up => join'[host'[k].peer][k].pc # "idle"
    BY <1>1, <1>2, <1>3, <2>1 DEF IInv, Connected
  <2>3. \A d \in Device, k \in Invitation :
          /\ join'[d][k].pc = "idle" => ~join'[d][k].up /\ join'[d][k].in = None
          /\ join'[d][k].up /\ (join'[d][k].pc # "hello" \/ join'[d][k].in # None) =>
               host'[k].up /\ host'[k].peer = d
    BY <1>1, <1>2, <1>3 DEF IInv, Connected
  <2> QED
    BY <2>2, <2>3 DEF Connected
<1>8. HostsWarranted
  <2>1. ASSUME NEW k \in Invitation,
               host'[k].in = "prepared" \/ host'[k].pc = "committing"
        PROVE  k # i /\ host'[k] = host[k]
    BY <1>1, <1>2, <2>1 DEF None
  <2>2. prepared' = prepared /\ inv' = inv
    BY DEF Ready, trust
  <2> QED
    BY <2>1, <2>2 DEF IInv, UsedUp, KeyFits, PreparedFirst, Prepares, HostsWarranted
<1>9. JoinsWarranted
  <2>1. \A d \in Device, k \in Invitation : join'[d][k].in = "accepted" =>
          join[d][k].in = "accepted" /\ join'[d][k].key = join[d][k].key
    BY <1>3
  <2>2. \A d \in Device, k \in Invitation :
          join'[d][k].pc # "idle" /\ join'[d][k].repair /\ ~join'[d][k].fenced =>
            consent[d][By(k)]
    BY <1>3 DEF IInv, Consented
  <2>3. consent' = consent
    BY DEF Ready
  <2> QED
    BY <2>1, <2>2, <2>3 DEF JoinsWarranted
<1>10. RecsWarranted
  BY DEF IInv, Approved, RecsWarranted, Ready
<1>11. TrustStays
  BY DEF TrustStays, Ready, trust
<1>12. /\ UsedUp' /\ Approved' /\ PreparedFirst' /\ Consented'
       /\ KeyFits' /\ KeysAgree' /\ SingleUse' /\ Recoverable'
  BY <1>5, <1>8, <1>9, <1>10, <1>11, TrustKept
<1> QED
  BY <1>4, <1>6, <1>7, <1>12 DEF IInv

\* The inviter starts its commit for a joiner that has prepared.
LEMMA LockKeeps ==
  ASSUME IInv, NEW i \in Invitation, LockManager(i)
  PROVE  IInv'
<1>1. By(i) \in Device /\ key[By(i)] \in Device
  BY DEF IInv, TypeOK, Issued, LockManager, By, InvState
<1>2. PICK h \in HostState :
        /\ h.pc = "committing" /\ h.peer = host[i].peer /\ h.up = host[i].up
        /\ h.in = None /\ h.key = key[By(i)]
        /\ host' = [host EXCEPT ![i] = h]
  <2>1. host' = [host EXCEPT ![i] =
          [host[i] EXCEPT !.pc = "committing", !.in = None, !.key = key[By(i)]]]
    BY DEF LockManager
  <2>2. host[i] \in HostState
    BY DEF IInv, TypeOK
  <2> QED
    BY <1>1, <2>1, <2>2 DEF HostState
<1>3. /\ host' \in [Invitation -> HostState] /\ host'[i] = h
      /\ \A k \in Invitation : k # i => host'[k] = host[k]
  BY <1>2, HostMoves DEF IInv
<1>4. TypeOK'
  BY <1>3 DEF IInv, TypeOK, LockManager, trust
<1>5. SameIssuers
  BY DEF SameIssuers, LockManager
<1>6. Issued'
  BY <1>2, <1>3, <1>5, IssuedKept DEF IInv, LockManager, trust
<1>7. Connected'
  BY <1>2, <1>3, SMTT(30) DEF IInv, Connected, LockManager
<1>8. HostsWarranted
  <2>1. prepared' = prepared /\ inv' = inv /\ inv[i].state = "claimed" /\ host[i].in = "prepared"
    BY DEF LockManager, trust
  <2> QED
    BY <1>1, <1>2, <1>3, <2>1 DEF IInv, UsedUp, KeyFits, PreparedFirst, Prepares, HostsWarranted
<1>9. JoinsWarranted
  BY DEF IInv, Consented, JoinsWarranted, LockManager
<1>10. RecsWarranted
  BY DEF IInv, Approved, RecsWarranted, LockManager
<1>11. TrustStays
  BY DEF TrustStays, LockManager, trust
<1>12. /\ UsedUp' /\ Approved' /\ PreparedFirst' /\ Consented'
       /\ KeyFits' /\ KeysAgree' /\ SingleUse' /\ Recoverable'
  BY <1>5, <1>8, <1>9, <1>10, <1>11, TrustKept
<1> QED
  BY <1>4, <1>6, <1>7, <1>12 DEF IInv

\* PairComplete ends the inviter's worker, and its connection with it.
LEMMA HostCompleteKeeps ==
  ASSUME IInv, NEW i \in Invitation, HostComplete(i)
  PROVE  IInv'
<1>1. /\ host' \in [Invitation -> HostState] /\ host'[i] = HostIdle
      /\ \A k \in Invitation : k # i => host'[k] = host[k]
  BY IdleStates, HostMoves DEF IInv, HostComplete
<1>2. /\ join' \in [Device -> [Invitation -> JoinState]]
      /\ \A d \in Device, n \in Invitation :
           /\ join'[d][n].pc = join[d][n].pc
           /\ join'[d][n].repair = join[d][n].repair
           /\ join'[d][n].fenced = join[d][n].fenced
           /\ \/ join'[d][n] = join[d][n] /\ ~(n = i /\ host[i].up /\ host[i].peer = d)
              \/ /\ n = i /\ host[i].up /\ host[i].peer = d
                 /\ join'[d][n].in = "complete" /\ ~join'[d][n].up
  <2>1. CASE ~host[i].up
    BY <2>1 DEF HostComplete, IInv, TypeOK
  <2>2. CASE host[i].up
    <3>1. PICK j \in Device : j = host[i].peer
      BY <2>2 DEF IInv, Issued, Connected
    <3>2. join' = [join EXCEPT ![j] =
            [join[j] EXCEPT ![i] = [join[j][i] EXCEPT !.in = "complete", !.up = FALSE]]]
      BY <2>2, <3>1 DEF HostComplete
    <3>3. join[j][i] \in JoinState
      BY DEF IInv, TypeOK
    <3>4. PICK c \in JoinState :
            /\ c.pc = join[j][i].pc /\ ~c.up /\ c.repair = join[j][i].repair
            /\ c.fenced = join[j][i].fenced /\ c.in = "complete"
            /\ join' = [join EXCEPT ![j] = [join[j] EXCEPT ![i] = c]]
      BY <3>2, <3>3 DEF JoinState
    <3>5. /\ join' \in [Device -> [Invitation -> JoinState]] /\ join'[j][i] = c
          /\ \A d \in Device, n \in Invitation : d # j \/ n # i => join'[d][n] = join[d][n]
      BY <3>4 DEF IInv, TypeOK
    <3>6. ASSUME NEW d \in Device, NEW n \in Invitation
          PROVE  /\ join'[d][n].pc = join[d][n].pc
                 /\ join'[d][n].repair = join[d][n].repair
                 /\ join'[d][n].fenced = join[d][n].fenced
                 /\ \/ /\ join'[d][n] = join[d][n]
                       /\ ~(n = i /\ host[i].up /\ host[i].peer = d)
                    \/ /\ n = i /\ host[i].up /\ host[i].peer = d
                       /\ join'[d][n].in = "complete" /\ ~join'[d][n].up
      <4>1. CASE d = j /\ n = i
        BY <2>2, <3>1, <3>4, <3>5, <4>1, SMTT(30)
      <4>2. CASE d # j \/ n # i
        BY <3>1, <3>5, <4>2
      <4> QED  BY <4>1, <4>2
    <3> QED  BY <3>5, <3>6
  <2> QED
    BY <2>1, <2>2
<1>3. /\ inv' \in [Invitation -> InvState]
      /\ \A k \in Invitation :
           /\ inv'[k].by = inv[k].by /\ inv'[k].attempts = inv[k].attempts
           /\ inv'[k].state = inv[k].state
              \/ (k = i /\ inv[k].state = "claimed" /\ inv'[k].state = "open")
      /\ SameIssuers
  BY ReleasedState DEF IInv, HostComplete
<1>4. TypeOK'
  BY <1>1, <1>2, <1>3, ZenonT(30) DEF IInv, TypeOK, HostComplete, trust
<1>5. Issued'
  BY <1>1, <1>2, <1>3, IdleStates, IssuedKept, ZenonT(30) DEF IInv, HostComplete, trust
<1>6. Connected'
  <2>1. \A k \in Invitation : host[k].up => host[k].peer \in Device
    BY DEF IInv, Connected, Issued
  <2>2. \A k \in Invitation :
          /\ host'[k].pc = "idle" => ~host'[k].up /\ host'[k].in = None
          /\ host'[k].up => join'[host'[k].peer][k].pc # "idle"
    BY <1>1, <1>2, <2>1, IdleStates DEF IInv, Connected
  <2>3. ASSUME NEW d \in Device, NEW k \in Invitation
        PROVE  /\ join'[d][k].pc = "idle" => ~join'[d][k].up /\ join'[d][k].in = None
               /\ join'[d][k].up /\ (join'[d][k].pc # "hello" \/ join'[d][k].in # None) =>
                    host'[k].up /\ host'[k].peer = d
    <3>1. join[host[i].peer][i].pc # "idle" \/ ~host[i].up
      BY DEF IInv, Connected
    <3> QED
      BY <1>1, <1>2, <3>1 DEF IInv, Connected
  <2> QED
    BY <2>2, <2>3 DEF Connected
<1>7. HostsWarranted
  <2>1. ASSUME NEW k \in Invitation,
               host'[k].in = "prepared" \/ host'[k].pc = "committing"
        PROVE  k # i /\ host'[k] = host[k] /\ inv'[k].state = inv[k].state
    BY <1>1, <1>3, <2>1, IdleStates DEF None
  <2>2. prepared' = prepared
    BY DEF HostComplete, trust
  <2> QED
    BY <2>1, <2>2 DEF IInv, UsedUp, KeyFits, PreparedFirst, Prepares, HostsWarranted
<1>8. JoinsWarranted
  <2>1. \A d \in Device, k \in Invitation : join'[d][k].in = "accepted" =>
          join[d][k].in = "accepted" /\ join'[d][k].key = join[d][k].key
    BY <1>2
  <2>2. \A d \in Device, k \in Invitation :
          join'[d][k].pc # "idle" /\ join'[d][k].repair /\ ~join'[d][k].fenced =>
            consent[d][By(k)]
    BY <1>2 DEF IInv, Consented
  <2>3. consent' = consent
    BY DEF HostComplete
  <2> QED
    BY <2>1, <2>2, <2>3 DEF JoinsWarranted
<1>9. RecsWarranted
  BY DEF IInv, Approved, RecsWarranted, HostComplete
<1>10. TrustStays
  BY <1>3 DEF TrustStays, HostComplete, trust
<1>11. /\ UsedUp' /\ Approved' /\ PreparedFirst' /\ Consented'
       /\ KeyFits' /\ KeysAgree' /\ SingleUse' /\ Recoverable'
  BY <1>3, <1>7, <1>8, <1>9, <1>10, TrustKept
<1> QED
  BY <1>4, <1>5, <1>6, <1>11 DEF IInv

\* A connect call starts a connection of its own.
LEMMA ConnectsKeeps ==
  ASSUME IInv, NEW j \in Device, NEW i \in Invitation, NEW repair \in BOOLEAN,
         Connects(j, i, repair),
         UNCHANGED <<life, trust, inv, rec, faults, calls, approved, scope>>,
         wants' \in [Device -> Invitation \cup {None}],
         consent' \in [Device -> [Device -> BOOLEAN]],
         \A d, p \in Device : consent[d][p] => consent'[d][p],
         repair => consent'[j][By(i)]
  PROVE  IInv'
<1>1. host' \in [Invitation -> HostState] /\ HostFades
      /\ \A k \in Invitation :
           /\ host'[k].pc = host[k].pc /\ host'[k].peer = host[k].peer
           /\ host'[k].in = host[k].in /\ host'[k].key = host[k].key
           /\ host'[k].up <=> host[k].up /\ (k # i \/ host[k].peer # j)
  <2>1. host[i] \in HostState
    BY DEF IInv, TypeOK
  <2>2. host' = [host EXCEPT ![i] = [host[i] EXCEPT !.up = host[i].up /\ host[i].peer # j]]
    BY DEF Connects
  <2>3. (host[i].up /\ host[i].peer # j) \in BOOLEAN
    OBVIOUS
  <2>4. PICK h \in HostState :
          /\ h.pc = host[i].pc /\ h.peer = host[i].peer /\ h.in = host[i].in
          /\ h.key = host[i].key
          /\ h.up <=> host[i].up /\ host[i].peer # j
          /\ host' = [host EXCEPT ![i] = h]
    BY <2>1, <2>2, <2>3 DEF HostState
  <2>5. /\ host' \in [Invitation -> HostState] /\ host'[i] = h
        /\ \A k \in Invitation : k # i => host'[k] = host[k]
    BY <2>4, HostMoves DEF IInv
  <2> QED
    BY <2>4, <2>5 DEF HostFades
<1>2. PICK c \in JoinState :
        /\ c.pc = "hello" /\ c.up /\ c.in = None /\ c.repair = repair
        /\ join' = [join EXCEPT ![j] = [join[j] EXCEPT ![i] = c]]
  <2>1. join' = [join EXCEPT ![j] = [join[j] EXCEPT ![i] =
          [JoinIdle EXCEPT !.pc = "hello", !.up = TRUE, !.repair = repair]]]
    BY DEF Connects
  <2> QED
    BY <2>1 DEF JoinIdle, JoinState
<1>3. /\ join' \in [Device -> [Invitation -> JoinState]] /\ join'[j][i] = c
      /\ \A d \in Device, k \in Invitation : d # j \/ k # i => join'[d][k] = join[d][k]
  BY <1>2 DEF IInv, TypeOK
<1>4. TypeOK'
  BY <1>1, <1>3 DEF IInv, TypeOK, trust
<1>5. SameIssuers
  BY DEF SameIssuers
<1>6. By(i) \notin {j, Nobody} /\ join[j][i].pc = "idle"
  BY DEF Connects
<1>7. Issued'
  <2>1. \A k \in Invitation : By(k)' = By(k)
    BY DEF By
  <2> QED
    BY <1>1, <1>2, <1>3, <1>6, <2>1 DEF IInv, Issued, trust
<1>8. Connected'
  <2>1. \A k \in Invitation : host[k].up => host[k].peer \in Device
    BY DEF IInv, Connected, Issued
  <2>2. \A k \in Invitation :
          /\ host'[k].pc = "idle" => ~host'[k].up /\ host'[k].in = None
          /\ host'[k].up => join'[host'[k].peer][k].pc # "idle"
    BY <1>1, <1>2, <1>3, <2>1, SMTT(30) DEF IInv, Connected
  <2>3. \A d \in Device, k \in Invitation :
          /\ join'[d][k].pc = "idle" => ~join'[d][k].up /\ join'[d][k].in = None
          /\ join'[d][k].up /\ (join'[d][k].pc # "hello" \/ join'[d][k].in # None) =>
               host'[k].up /\ host'[k].peer = d
    BY <1>1, <1>2, <1>3, SMTT(30) DEF IInv, Connected
  <2> QED
    BY <2>2, <2>3 DEF Connected
<1>9. HostsWarranted
  <2>1. /\ UsedUp /\ KeyFits /\ PreparedFirst
        /\ prepared' = prepared /\ inv' = inv
    BY DEF IInv, trust
  <2> QED
    BY <1>1, <2>1 DEF UsedUp, KeyFits, PreparedFirst, Prepares, HostsWarranted
<1>10. JoinsWarranted
  <2>1. ASSUME NEW d \in Device, NEW k \in Invitation, d # j \/ k # i,
               join'[d][k].pc # "idle" /\ join'[d][k].repair /\ ~join'[d][k].fenced
        PROVE  consent'[d][By(k)]
    <3>1. consent[d][By(k)] /\ By(k) \in Device
      BY <1>3, <2>1 DEF IInv, TypeOK, Issued, Consented, By, InvState
    <3> QED
      BY <3>1
  <2>2. \A d \in Device, k \in Invitation : join'[d][k].in = "accepted" =>
          join[d][k].in = "accepted" /\ join'[d][k].key = join[d][k].key
    BY <1>2, <1>3 DEF None
  <2> QED
    BY <1>2, <1>3, <2>1, <2>2 DEF JoinsWarranted
<1>11. RecsWarranted
  BY DEF IInv, Approved, RecsWarranted
<1>12. TrustStays
  BY DEF TrustStays, trust
<1>13. /\ UsedUp' /\ Approved' /\ PreparedFirst' /\ Consented'
       /\ KeyFits' /\ KeysAgree' /\ SingleUse' /\ Recoverable'
  BY <1>5, <1>9, <1>10, <1>11, <1>12, TrustKept
<1> QED
  BY <1>4, <1>7, <1>8, <1>13 DEF IInv

\* connect needs no consent, for it repairs nothing.
LEMMA ConnectKeeps ==
  ASSUME IInv, NEW j \in Device, NEW i \in Invitation, Connect(j, i)
  PROVE  IInv'
<1>1. /\ Connects(j, i, FALSE) /\ FALSE \in BOOLEAN
      /\ UNCHANGED <<life, trust, inv, rec, wants, faults, calls, approved, consent, scope>>
  BY DEF Connect
<1>2. /\ wants' \in [Device -> Invitation \cup {None}]
      /\ consent' \in [Device -> [Device -> BOOLEAN]]
  BY <1>1 DEF IInv, TypeOK
<1> QED
  BY <1>1, <1>2, ConnectsKeeps

\* repair_peer connects after its removal, and that is the consent.
LEMMA RepairConnectKeeps ==
  ASSUME IInv, NEW d \in Device, RepairConnect(d)
  PROVE  IInv'
<1>1. PICK i \in Invitation : i = wants[d]
  BY DEF IInv, TypeOK, RepairConnect
<1>2. /\ Connects(d, i, TRUE) /\ TRUE \in BOOLEAN
      /\ UNCHANGED <<life, trust, inv, rec, faults, calls, approved, scope>>
      /\ consent' = [consent EXCEPT ![d] = [consent[d] EXCEPT ![By(i)] = TRUE]]
      /\ wants' = [wants EXCEPT ![d] = None]
  BY <1>1 DEF RepairConnect
<1>3. By(i) \in Device
  BY <1>2 DEF IInv, TypeOK, Connects, By, InvState
<1>4. /\ wants' \in [Device -> Invitation \cup {None}]
      /\ consent' \in [Device -> [Device -> BOOLEAN]]
      /\ consent'[d][By(i)]
      /\ \A e, p \in Device : consent[e][p] => consent'[e][p]
  BY <1>2, <1>3 DEF IInv, TypeOK
<1> QED
  BY <1>2, <1>4, ConnectsKeeps

\* PairConfirm goes to the worker that sent the challenge.
LEMMA ConfirmKeeps ==
  ASSUME IInv, NEW j \in Device, NEW i \in Invitation, Confirm(j, i)
  PROVE  IInv'
<1>1. PICK c \in JoinState :
        /\ c.pc = "confirmed" /\ c.up = join[j][i].up /\ c.in = None
        /\ c.repair = join[j][i].repair /\ c.fenced = join[j][i].fenced
        /\ join' = [join EXCEPT ![j] = [join[j] EXCEPT ![i] = c]]
  <2>1. join' = [join EXCEPT ![j] =
          [join[j] EXCEPT ![i] = [join[j][i] EXCEPT !.pc = "confirmed", !.in = None]]]
    BY DEF Confirm
  <2>2. join[j][i] \in JoinState
    BY DEF IInv, TypeOK
  <2> QED
    BY <2>1, <2>2 DEF JoinState
<1>2. /\ join' \in [Device -> [Invitation -> JoinState]] /\ join'[j][i] = c
      /\ \A d \in Device, k \in Invitation : d # j \/ k # i => join'[d][k] = join[d][k]
  BY <1>1 DEF IInv, TypeOK
<1>3. /\ join[j][i].pc = "hello" /\ join[j][i].in = "challenge"
      /\ join[j][i].up => host[i].up /\ host[i].peer = j /\ host[i].pc # "idle"
  BY DEF IInv, Connected, Confirm, None
<1>4. /\ host' \in [Invitation -> HostState]
      /\ \A k \in Invitation :
           /\ host'[k].pc = host[k].pc /\ host'[k].peer = host[k].peer
           /\ host'[k].up = host[k].up /\ host'[k].key = host[k].key
           /\ \/ host'[k].in = host[k].in
              \/ k = i /\ join[j][i].up /\ host'[k].in = "confirm"
  <2>1. CASE ~join[j][i].up
    BY <2>1 DEF IInv, TypeOK, Confirm
  <2>2. CASE join[j][i].up
    <3>1. host' = [host EXCEPT ![i] = [host[i] EXCEPT !.in = "confirm"]]
      BY <2>2 DEF Confirm
    <3>2. host[i] \in HostState
      BY DEF IInv, TypeOK
    <3>3. PICK h \in HostState :
            /\ h.pc = host[i].pc /\ h.peer = host[i].peer /\ h.up = host[i].up
            /\ h.key = host[i].key /\ h.in = "confirm"
            /\ host' = [host EXCEPT ![i] = h]
      BY <3>1, <3>2 DEF HostState
    <3>4. /\ host' \in [Invitation -> HostState] /\ host'[i] = h
          /\ \A k \in Invitation : k # i => host'[k] = host[k]
      BY <3>3, HostMoves DEF IInv
    <3> QED
      BY <2>2, <3>3, <3>4
  <2> QED
    BY <2>1, <2>2
<1>5. TypeOK'
  BY <1>2, <1>4 DEF IInv, TypeOK, Confirm, trust
<1>6. SameIssuers
  BY DEF SameIssuers, Confirm
<1>7. Issued'
  BY <1>1, <1>2, <1>3, <1>4, <1>6, IssuedKept DEF IInv, Confirm, trust
<1>8. Connected'
  <2>1. \A k \in Invitation : host[k].up => host[k].peer \in Device
    BY DEF IInv, Connected, Issued
  <2>2. \A k \in Invitation :
          /\ host'[k].pc = "idle" => ~host'[k].up /\ host'[k].in = None
          /\ host'[k].up => join'[host'[k].peer][k].pc # "idle"
    BY <1>1, <1>2, <1>3, <1>4, <2>1 DEF IInv, Connected
  <2>3. \A d \in Device, k \in Invitation :
          /\ join'[d][k].pc = "idle" => ~join'[d][k].up /\ join'[d][k].in = None
          /\ join'[d][k].up /\ (join'[d][k].pc # "hello" \/ join'[d][k].in # None) =>
               host'[k].up /\ host'[k].peer = d
    BY <1>1, <1>2, <1>3, <1>4 DEF IInv, Connected
  <2> QED
    BY <2>2, <2>3 DEF Connected
<1>9. HostsWarranted
  <2>1. \A k \in Invitation : host'[k].in = "prepared" => host[k].in = "prepared"
    BY <1>4
  <2>2. prepared' = prepared /\ inv' = inv
    BY DEF Confirm, trust
  <2> QED
    BY <1>4, <2>1, <2>2 DEF IInv, UsedUp, KeyFits, PreparedFirst, Prepares, HostsWarranted
<1>10. JoinsWarranted
  <2>1. \A d \in Device, k \in Invitation : join'[d][k].in = "accepted" =>
          join[d][k].in = "accepted" /\ join'[d][k].key = join[d][k].key
    BY <1>1, <1>2, <1>3 DEF None
  <2>2. \A d \in Device, k \in Invitation :
          join'[d][k].pc # "idle" /\ join'[d][k].repair /\ ~join'[d][k].fenced =>
            consent[d][By(k)]
    BY <1>1, <1>2, <1>3 DEF IInv, Consented
  <2>3. consent' = consent
    BY DEF Confirm
  <2> QED
    BY <2>1, <2>2, <2>3 DEF JoinsWarranted
<1>11. RecsWarranted
  BY DEF IInv, Approved, RecsWarranted, Confirm
<1>12. TrustStays
  BY DEF TrustStays, Confirm, trust
<1>13. /\ UsedUp' /\ Approved' /\ PreparedFirst' /\ Consented'
       /\ KeyFits' /\ KeysAgree' /\ SingleUse' /\ Recoverable'
  BY <1>6, <1>9, <1>10, <1>11, <1>12, TrustKept
<1> QED
  BY <1>5, <1>7, <1>8, <1>13 DEF IInv

\* The preparation is journaled before the proof of it is under way.
LEMMA PrepareKeeps ==
  ASSUME IInv, NEW j \in Device, NEW i \in Invitation, Prepare(j, i)
  PROVE  IInv'
<1>1. /\ prepared' \in [Device -> SUBSET Invitation] /\ i \in prepared'[j]
      /\ \A d \in Device : prepared[d] \subseteq prepared'[d]
      /\ \A d \in Device, k \in Invitation :
           k \in prepared'[d] => k \in prepared[d] \/ join[d][k].pc # "idle"
  BY DEF IInv, TypeOK, Prepare
<1>2. SameIssuers /\ TrustStays
  BY <1>1 DEF SameIssuers, TrustStays, Prepare
<1>3. RecsWarranted
  BY DEF IInv, Approved, RecsWarranted, Prepare
<1>4. CASE inv[i].expired
  <2>1. Ended({}, {<<j, i>>})
    BY <1>4 DEF Prepare
  <2>2. /\ host' \in [Invitation -> HostState]
        /\ join' \in [Device -> [Invitation -> JoinState]]
        /\ HostFades /\ JoinFades /\ Connected'
        /\ \A k \in Invitation \ {} : host'[k].pc = host[k].pc
    BY <2>1, {} \in SUBSET Invitation, EndingFades DEF IInv
  <2>3. TypeOK'
    BY <1>1, <2>2 DEF IInv, TypeOK, Prepare
  <2>4. Fades
    BY <2>2 DEF Fades, RecFades, Prepare
  <2>5. \A k \in Invitation : host'[k].pc = "committing" => inv'[k].state = "claimed"
    BY <2>2 DEF IInv, UsedUp, Prepare
  <2> QED
    BY <1>1, <1>2, <2>2, <2>3, <2>4, <2>5, FadingKeeps DEF IInv, Prepare
<1>5. CASE ~inv[i].expired
  <2>1. PICK c \in JoinState :
          /\ c.pc = "prepared" /\ c.up = join[j][i].up /\ c.in = None
          /\ c.repair = join[j][i].repair /\ c.fenced = join[j][i].fenced
          /\ join' = [join EXCEPT ![j] = [join[j] EXCEPT ![i] = c]]
    <3>1. join' = [join EXCEPT ![j] =
            [join[j] EXCEPT ![i] = [join[j][i] EXCEPT !.pc = "prepared", !.in = None]]]
      BY <1>5, ZenonT(30) DEF Prepare
    <3>2. join[j][i] \in JoinState
      BY DEF IInv, TypeOK
    <3> QED
      BY <3>1, <3>2 DEF JoinState
  <2>2. /\ join' \in [Device -> [Invitation -> JoinState]] /\ join'[j][i] = c
        /\ \A d \in Device, k \in Invitation : d # j \/ k # i => join'[d][k] = join[d][k]
    BY <2>1 DEF IInv, TypeOK
  <2>3. /\ join[j][i].pc = "confirmed" /\ join[j][i].in = "ready"
        /\ join[j][i].up => host[i].up /\ host[i].peer = j /\ host[i].pc # "idle"
    BY DEF IInv, Connected, Prepare, None
  <2>4. /\ host' \in [Invitation -> HostState]
        /\ \A k \in Invitation :
             /\ host'[k].pc = host[k].pc /\ host'[k].peer = host[k].peer
             /\ host'[k].up = host[k].up /\ host'[k].key = host[k].key
             /\ \/ host'[k].in = host[k].in
                \/ k = i /\ join[j][i].up /\ host'[k].in = "prepared"
    <3>1. CASE ~join[j][i].up
      BY <1>5, <3>1 DEF IInv, TypeOK, Prepare
    <3>2. CASE join[j][i].up
      <4>1. host' = [host EXCEPT ![i] = [host[i] EXCEPT !.in = "prepared"]]
        BY <1>5, <3>2 DEF Prepare
      <4>2. host[i] \in HostState
        BY DEF IInv, TypeOK
      <4>3. PICK h \in HostState :
              /\ h.pc = host[i].pc /\ h.peer = host[i].peer /\ h.up = host[i].up
              /\ h.key = host[i].key /\ h.in = "prepared"
              /\ host' = [host EXCEPT ![i] = h]
        BY <4>1, <4>2 DEF HostState
      <4>4. /\ host' \in [Invitation -> HostState] /\ host'[i] = h
            /\ \A k \in Invitation : k # i => host'[k] = host[k]
        BY <4>3, HostMoves DEF IInv
      <4> QED
        BY <3>2, <4>3, <4>4
    <3> QED
      BY <3>1, <3>2
  <2>5. TypeOK'
    BY <1>1, <2>2, <2>4 DEF IInv, TypeOK, Prepare
  <2>6. Issued'
    BY <1>1, <1>2, <2>1, <2>2, <2>3, <2>4, IssuedKept DEF IInv, Prepare
  <2>7. Connected'
    <3>1. \A k \in Invitation : host[k].up => host[k].peer \in Device
      BY DEF IInv, Connected, Issued
    <3>2. \A k \in Invitation :
            /\ host'[k].pc = "idle" => ~host'[k].up /\ host'[k].in = None
            /\ host'[k].up => join'[host'[k].peer][k].pc # "idle"
      BY <2>1, <2>2, <2>3, <2>4, <3>1 DEF IInv, Connected
    <3>3. \A d \in Device, k \in Invitation :
            /\ join'[d][k].pc = "idle" => ~join'[d][k].up /\ join'[d][k].in = None
            /\ join'[d][k].up /\ (join'[d][k].pc # "hello" \/ join'[d][k].in # None) =>
                 host'[k].up /\ host'[k].peer = d
      BY <2>1, <2>2, <2>3, <2>4 DEF IInv, Connected
    <3> QED
      BY <3>2, <3>3 DEF Connected
  <2>8. HostsWarranted
    <3>1. UsedUp /\ KeyFits /\ PreparedFirst /\ inv' = inv
      BY DEF IInv, Prepare
    <3>2. \A k \in Invitation : host[k].pc # "idle" => host[k].peer \in Device
      BY DEF IInv, Issued
    <3>3. ASSUME NEW k \in Invitation, host'[k].pc = "committing"
          PROVE  inv'[k].state = "claimed" /\ host'[k].key \in Device
      BY <2>4, <3>1, <3>3 DEF UsedUp, KeyFits
    <3>4. ASSUME NEW k \in Invitation, host'[k].in = "prepared" \/ host'[k].pc = "committing"
          PROVE  k \in prepared'[host'[k].peer] \/ peers[host'[k].peer][By(k)] # "absent"
      <4>1. CASE host[k].in = "prepared" \/ host[k].pc = "committing"
        <5>1. host[k].pc # "idle"
          BY <4>1 DEF IInv, Connected, None
        <5> QED
          BY <1>1, <2>4, <3>1, <3>2, <4>1, <5>1 DEF PreparedFirst, Prepares
      <4>2. CASE ~(host[k].in = "prepared" \/ host[k].pc = "committing")
        BY <1>1, <2>3, <2>4, <3>4, <4>2
      <4> QED
        BY <4>1, <4>2
    <3> QED
      BY <3>3, <3>4 DEF HostsWarranted
  <2>9. JoinsWarranted
    <3>1. \A d \in Device, k \in Invitation : join'[d][k].in = "accepted" =>
            join[d][k].in = "accepted" /\ join'[d][k].key = join[d][k].key
      BY <2>1, <2>2 DEF None
    <3>2. \A d \in Device, k \in Invitation :
            join'[d][k].pc # "idle" /\ join'[d][k].repair /\ ~join'[d][k].fenced =>
              consent[d][By(k)]
      BY <2>1, <2>2, <2>3 DEF IInv, Consented
    <3>3. consent' = consent
      BY DEF Prepare
    <3> QED
      BY <3>1, <3>2, <3>3 DEF JoinsWarranted
  <2>10. /\ UsedUp' /\ Approved' /\ PreparedFirst' /\ Consented'
         /\ KeyFits' /\ KeysAgree' /\ SingleUse' /\ Recoverable'
    BY <1>2, <1>3, <2>8, <2>9, TrustKept
  <2> QED
    BY <2>5, <2>6, <2>7, <2>10 DEF IInv
<1> QED
  BY <1>4, <1>5

\* An enrollment of the inviter is one it has approved.
LEMMA EnrolledApproved ==
  ASSUME IInv, NEW j \in Device, NEW i \in Invitation, By(i) \in Device, By(i) # j,
         Enrolled(By(i), j, i)
  PROVE  <<i, j>> \in approved
<1>1. journal[By(i)][j] = i /\ journal[By(i)][j] # None
  BY PairingConstants DEF Enrolled
<1> QED
  BY <1>1 DEF IInv, Approved

\* A recovery asks, and learns of an enrollment and then of its key.
LEMMA RecoveryKeeps ==
  ASSUME IInv, NEW j \in Device, NEW i \in Invitation,
         Recover(j, i) \/ RecoverCheck(j, i) \/ RecoverKey(j, i)
  PROVE  IInv'
<1>1. /\ UNCHANGED <<life, trust, inv, host, join, wants, faults, calls, approved, consent, scope>>
      /\ rec[j][i].pc # "idle" \/ i \in prepared[j]
  BY DEF Recover, RecoverCheck, RecoverKey
<1>2. By(i) \in Device /\ By(i) \notin {j, Nobody} /\ key[By(i)] \in Device
  BY <1>1 DEF IInv, TypeOK, Issued, By, InvState
<1>3. rec[j][i] \in RecState
  BY DEF IInv, TypeOK
<1>4. PICK r \in RecState :
        /\ rec' = [rec EXCEPT ![j] = [rec[j] EXCEPT ![i] = r]]
        /\ r.pc \in {"checked", "answered"} => <<i, j>> \in approved
        /\ r.pc = "answered" => r.key = key[By(i)]
  <2>1. CASE Recover(j, i)
    <3>1. rec' = [rec EXCEPT ![j] = [rec[j] EXCEPT ![i] = [RecIdle EXCEPT !.pc = "asked"]]]
      BY <2>1 DEF Recover
    <3>2. [RecIdle EXCEPT !.pc = "asked"] \in RecState
      BY DEF RecIdle, RecState
    <3>3. [RecIdle EXCEPT !.pc = "asked"].pc = "asked"
      BY DEF RecIdle
    <3> QED
      BY <3>1, <3>2, <3>3
  <2>2. CASE RecoverCheck(j, i)
    <3>1. rec' = [rec EXCEPT ![j] = [rec[j] EXCEPT ![i] = [rec[j][i] EXCEPT !.pc = "checked"]]]
      BY <2>2 DEF RecoverCheck
    <3>2. <<i, j>> \in approved
      BY <1>2, <2>2, EnrolledApproved DEF RecoverCheck
    <3>3. /\ [rec[j][i] EXCEPT !.pc = "checked"] \in RecState
          /\ [rec[j][i] EXCEPT !.pc = "checked"].pc = "checked"
      BY <1>3 DEF RecState
    <3> QED
      BY <3>1, <3>2, <3>3
  <2>3. CASE RecoverKey(j, i)
    <3>1. rec' = [rec EXCEPT ![j] = [rec[j] EXCEPT ![i] =
            [rec[j][i] EXCEPT !.pc = "answered", !.key = key[By(i)]]]]
      BY <2>3 DEF RecoverKey
    <3>2. <<i, j>> \in approved
      BY <2>3 DEF IInv, Approved, RecoverKey
    <3>3. /\ [rec[j][i] EXCEPT !.pc = "answered", !.key = key[By(i)]] \in RecState
          /\ [rec[j][i] EXCEPT !.pc = "answered", !.key = key[By(i)]].key = key[By(i)]
      BY <1>2, <1>3 DEF RecState
    <3> QED
      BY <3>1, <3>2, <3>3
  <2> QED
    BY <2>1, <2>2, <2>3
<1>5. /\ rec' \in [Device -> [Invitation -> RecState]] /\ rec'[j][i] = r
      /\ \A d \in Device, k \in Invitation : d # j \/ k # i => rec'[d][k] = rec[d][k]
  BY <1>4 DEF IInv, TypeOK
<1>6. TypeOK'
  BY <1>1, <1>5 DEF IInv, TypeOK, trust
<1>7. SameIssuers /\ TrustStays
  BY <1>1 DEF SameIssuers, TrustStays, trust
<1>8. Issued'
  <2>1. \A k \in Invitation : By(k)' = By(k)
    BY <1>7 DEF SameIssuers, By
  <2>2. Issued /\ host' = host /\ join' = join /\ prepared' = prepared /\ inv' = inv
    BY <1>1 DEF IInv, trust
  <2> QED
    BY <1>2, <1>5, <2>1, <2>2 DEF Issued
<1>9. Connected'
  BY <1>1 DEF IInv, Connected
<1>10. HostsWarranted /\ JoinsWarranted
  <2>1. HostsWarranted
    BY <1>1 DEF IInv, UsedUp, KeyFits, PreparedFirst, Prepares, HostsWarranted, trust
  <2>2. JoinsWarranted
    BY <1>1 DEF IInv, Consented, JoinsWarranted
  <2> QED
    BY <2>1, <2>2
<1>11. RecsWarranted
  <2>1. \A d \in Device, k \in Invitation :
          rec[d][k].pc \in {"checked", "answered"} => <<k, d>> \in approved
    BY DEF IInv, Approved
  <2> QED
    BY <1>2, <1>4, <1>5, <2>1 DEF RecsWarranted
<1>12. /\ UsedUp' /\ Approved' /\ PreparedFirst' /\ Consented'
       /\ KeyFits' /\ KeysAgree' /\ SingleUse' /\ Recoverable'
  BY <1>7, <1>10, <1>11, TrustKept
<1> QED
  BY <1>6, <1>8, <1>9, <1>12 DEF IInv

-----------------------------------------------------------------------------
(* Commits *)

\* What a commit writes, and that a group with peers keeps its key.
LEMMA CommitWrites ==
  ASSUME TypeOK, NEW d \in Device, NEW p \in Device, NEW i \in Invitation, NEW k \in Device,
         CommitAt(d, p, i, k), SameGroup(d, k)
  PROVE  /\ key' \in [Device -> Device]
         /\ peers' \in [Device -> [Device -> {"absent", "active", "revoked"}]]
         /\ journal' \in [Device -> [Device -> Invitation \cup {None}]]
         /\ prepared' \in [Device -> SUBSET Invitation]
         /\ key'[d] = k
         /\ \A e \in Device : e # d => key'[e] = key[e]
         /\ \A e, q \in Device : peers[e][q] = "active" => key'[e] = key[e]
         /\ peers'[d][p] = "active" /\ journal'[d][p] = i
         /\ \A e, q \in Device : e # d \/ q # p =>
              peers'[e][q] = peers[e][q] /\ journal'[e][q] = journal[e][q]
         /\ \A e, q \in Device : peers[e][q] # "absent" => peers'[e][q] # "absent"
         /\ \A e \in Device, n \in Invitation :
              n \in prepared'[e] <=> n \in prepared[e] /\ (e # d \/ n # i)
<1>1. /\ key' = [key EXCEPT ![d] = k]
      /\ peers' = [peers EXCEPT ![d] = [peers[d] EXCEPT ![p] = "active"]]
      /\ journal' = [journal EXCEPT ![d] = [journal[d] EXCEPT ![p] = i]]
      /\ prepared' = [prepared EXCEPT ![d] = prepared[d] \ {i}]
  BY DEF CommitAt
<1>2. /\ key' \in [Device -> Device] /\ key'[d] = k
      /\ \A e \in Device : e # d => key'[e] = key[e]
  BY <1>1 DEF TypeOK
<1>3. /\ peers' \in [Device -> [Device -> {"absent", "active", "revoked"}]]
      /\ peers'[d][p] = "active"
      /\ \A e, q \in Device : e # d \/ q # p => peers'[e][q] = peers[e][q]
  BY <1>1 DEF TypeOK
<1>4. /\ journal' \in [Device -> [Device -> Invitation \cup {None}]]
      /\ journal'[d][p] = i
      /\ \A e, q \in Device : e # d \/ q # p => journal'[e][q] = journal[e][q]
  BY <1>1 DEF TypeOK
<1>5. /\ prepared' \in [Device -> SUBSET Invitation]
      /\ \A e \in Device, n \in Invitation :
           n \in prepared'[e] <=> n \in prepared[e] /\ (e # d \/ n # i)
  BY <1>1 DEF TypeOK
<1>6. \A e, q \in Device : peers[e][q] = "active" => key'[e] = key[e]
  BY <1>2 DEF SameGroup
<1> QED
  BY <1>2, <1>3, <1>4, <1>5, <1>6

\* A journaled enrollment is approved for one of its two sides.
LEMMA JournalApproved ==
  ASSUME IInv, NEW d \in Device, NEW p \in Device, NEW i \in Invitation, journal[d][p] = i
  PROVE  \/ By(i) = d /\ <<i, p>> \in approved
         \/ By(i) = p /\ p # d /\ <<i, d>> \in approved
<1>1. journal[d][p] # None
  BY PairingConstants
<1> QED
  BY <1>1 DEF IInv, Approved

\* The inviter commits: the invitation was nobody's, and is the joiner's now.
LEMMA HostCommitKeeps ==
  ASSUME IInv, NEW i \in Invitation, HostCommit(i)
  PROVE  IInv'
<1>1. PICK d \in Device, j \in Device, k \in Device :
        /\ d = By(i) /\ j = host[i].peer /\ k = host[i].key /\ d # j
        /\ CommitAt(d, j, i, k) /\ SameGroup(d, k) /\ Sent(i, "accepted", k)
        /\ host[i].pc = "committing" /\ inv[i].state = "claimed"
        /\ Prepares(j, i)
        /\ approved' = approved \cup {<<i, j>>}
  <2>1. host[i].pc = "committing"
    BY DEF HostCommit
  <2>2. host[i].peer \in Device /\ By(i) \in Device /\ By(i) # host[i].peer
    BY <2>1 DEF IInv, TypeOK, Issued, By, InvState
  <2>3. host[i].key \in Device /\ inv[i].state = "claimed" /\ Prepares(host[i].peer, i)
    BY <2>1 DEF IInv, KeyFits, UsedUp, PreparedFirst
  <2>4. /\ CommitAt(By(i), host[i].peer, i, host[i].key)
        /\ SameGroup(By(i), host[i].key) /\ Sent(i, "accepted", host[i].key)
        /\ approved' = approved \cup {<<i, host[i].peer>>}
    BY DEF HostCommit
  <2> QED
    BY <2>1, <2>2, <2>3, <2>4
<1>2. \A x \in Device : <<i, x>> \notin approved
  BY <1>1 DEF IInv, UsedUp
<1>3. /\ key' \in [Device -> Device]
      /\ peers' \in [Device -> [Device -> {"absent", "active", "revoked"}]]
      /\ journal' \in [Device -> [Device -> Invitation \cup {None}]]
      /\ prepared' \in [Device -> SUBSET Invitation]
      /\ key'[d] = k
      /\ \A e \in Device : e # d => key'[e] = key[e]
      /\ \A e, q \in Device : peers[e][q] = "active" => key'[e] = key[e]
      /\ peers'[d][j] = "active" /\ journal'[d][j] = i
      /\ \A e, q \in Device : e # d \/ q # j =>
           peers'[e][q] = peers[e][q] /\ journal'[e][q] = journal[e][q]
      /\ \A e, q \in Device : peers[e][q] # "absent" => peers'[e][q] # "absent"
      /\ \A e \in Device, n \in Invitation :
           n \in prepared'[e] <=> n \in prepared[e] /\ (e # d \/ n # i)
  <2>1. TypeOK
    BY DEF IInv
  <2> QED
    BY <1>1, <2>1, CommitWrites
<1>4. \A e \in Device, n \in Invitation : n \in prepared'[e] <=> n \in prepared[e]
  <2>1. i \notin prepared[d]
    BY <1>1 DEF IInv, Issued
  <2> QED
    BY <1>3, <2>1
<1>5. PICK h \in HostState :
        /\ h.pc = "accepted" /\ h.peer = host[i].peer /\ h.up = host[i].up
        /\ h.in = host[i].in /\ host' = [host EXCEPT ![i] = h]
  <2>1. host' = [host EXCEPT ![i] = [host[i] EXCEPT !.pc = "accepted"]]
    BY DEF HostCommit
  <2>2. host[i] \in HostState
    BY DEF IInv, TypeOK
  <2> QED
    BY <2>1, <2>2 DEF HostState
<1>6. /\ host' \in [Invitation -> HostState] /\ host'[i] = h
      /\ \A n \in Invitation : n # i => host'[n] = host[n]
  BY <1>5, HostMoves DEF IInv
<1>7. /\ join' \in [Device -> [Invitation -> JoinState]]
      /\ \A x \in Device, n \in Invitation :
           /\ join'[x][n].pc = join[x][n].pc /\ join'[x][n].up = join[x][n].up
           /\ join'[x][n].repair = join[x][n].repair
           /\ join'[x][n].fenced = join[x][n].fenced
           /\ \/ join'[x][n].in = join[x][n].in /\ join'[x][n].key = join[x][n].key
              \/ /\ n = i /\ host[i].up /\ host[i].peer = x
                 /\ join'[x][n].in = "accepted" /\ join'[x][n].key = k
  BY <1>1, SentReaches DEF IInv
<1>8. /\ inv' \in [Invitation -> InvState]
      /\ inv'[i].state = "gone"
      /\ \A n \in Invitation :
           /\ inv'[n].by = inv[n].by /\ inv'[n].attempts = inv[n].attempts
           /\ n # i => inv'[n].state = inv[n].state
  <2>1. inv' = [inv EXCEPT ![i] = [inv[i] EXCEPT !.state = "gone"]]
    BY DEF HostCommit
  <2>2. inv[i] \in InvState
    BY DEF IInv, TypeOK
  <2>3. PICK r \in InvState :
          /\ r.by = inv[i].by /\ r.attempts = inv[i].attempts /\ r.state = "gone"
          /\ inv' = [inv EXCEPT ![i] = r]
    BY <2>1, <2>2 DEF InvState
  <2> QED
    BY <2>3 DEF IInv, TypeOK
<1>9. UNCHANGED <<life, rec, wants, faults, calls, consent, scope>>
  BY DEF HostCommit
<1>10. \A n \in Invitation : By(n)' = By(n)
  BY <1>8 DEF By
<1>11. TypeOK'
  <2>1. approved' \subseteq Invitation \X Device
    BY <1>1 DEF IInv, TypeOK
  <2> QED
    BY <1>3, <1>6, <1>7, <1>8, <1>9, <2>1 DEF IInv, TypeOK
<1>12. Issued'
  <2>1. SameIssuers
    BY <1>1, <1>8 DEF SameIssuers
  <2> QED
    BY <1>1, <1>4, <1>5, <1>6, <1>7, <1>9, <2>1, IssuedKept DEF IInv
<1>13. Connected'
  <2>1. \A n \in Invitation : host[n].up => host[n].peer \in Device
    BY DEF IInv, Connected, Issued
  <2>2. \A n \in Invitation :
          /\ host'[n].pc = "idle" => ~host'[n].up /\ host'[n].in = None
          /\ host'[n].up => join'[host'[n].peer][n].pc # "idle"
    <3> SUFFICES ASSUME NEW n \in Invitation
                 PROVE  /\ host'[n].pc = "idle" => ~host'[n].up /\ host'[n].in = None
                        /\ host'[n].up => join'[host'[n].peer][n].pc # "idle"
      OBVIOUS
    <3>1. /\ host[n].pc = "idle" => ~host[n].up /\ host[n].in = None
          /\ host[n].up => join[host[n].peer][n].pc # "idle"
      BY DEF IInv, Connected
    <3>2. host[n].up => join'[host[n].peer][n].pc = join[host[n].peer][n].pc
      BY <1>7, <2>1
    <3>3. CASE n = i
      BY <1>5, <1>6, <3>1, <3>2, <3>3
    <3>4. CASE n # i
      BY <1>6, <3>1, <3>2, <3>4
    <3> QED
      BY <3>3, <3>4
  <2>3. ASSUME NEW x \in Device, NEW n \in Invitation
        PROVE  /\ join'[x][n].pc = "idle" => ~join'[x][n].up /\ join'[x][n].in = None
               /\ join'[x][n].up /\ (join'[x][n].pc # "hello" \/ join'[x][n].in # None) =>
                    host'[n].up /\ host'[n].peer = x
    <3>1. host'[n].up = host[n].up /\ host'[n].peer = host[n].peer
      BY <1>5, <1>6
    <3>2. CASE n = i /\ host[i].up /\ host[i].peer = x
      <4>1. join[x][n].pc # "idle"
        BY <3>2 DEF IInv, Connected
      <4> QED
        BY <1>7, <3>1, <3>2, <4>1
    <3>3. CASE ~(n = i /\ host[i].up /\ host[i].peer = x)
      <4>1. join'[x][n].in = join[x][n].in
        BY <1>7, <3>3
      <4>2. /\ join[x][n].pc = "idle" => ~join[x][n].up /\ join[x][n].in = None
            /\ join[x][n].up /\ (join[x][n].pc # "hello" \/ join[x][n].in # None) =>
                 host[n].up /\ host[n].peer = x
        BY DEF IInv, Connected
      <4> QED
        BY <1>7, <3>1, <4>1, <4>2
    <3> QED
      BY <3>2, <3>3
  <2> QED
    BY <2>2, <2>3 DEF Connected
<1>14. UsedUp'
  <2>1. \A e \in approved' : inv'[e[1]].state = "gone"
    <3>1. ASSUME NEW e \in approved' PROVE inv'[e[1]].state = "gone"
      <4>1. CASE e = <<i, j>>
        BY <1>8, <4>1
      <4>2. CASE e \in approved
        <5>1. e[1] \in Invitation /\ inv[e[1]].state = "gone"
          BY <4>2 DEF IInv, TypeOK, UsedUp
        <5> QED
          BY <1>8, <5>1
      <4> QED
        BY <1>1, <4>1, <4>2
    <3> QED
      BY <3>1
  <2>2. \A n \in Invitation : host'[n].pc = "committing" => inv'[n].state = "claimed"
    BY <1>5, <1>6, <1>8 DEF IInv, UsedUp
  <2> QED
    BY <2>1, <2>2 DEF UsedUp
<1>15. Approved'
  <2>1. ASSUME NEW e \in Device, NEW p \in Device, journal'[e][p] # None,
               NEW n, n = journal'[e][p]
        PROVE  \/ By(n)' = e /\ <<n, p>> \in approved'
               \/ By(n)' = p /\ p # e /\ <<n, e>> \in approved'
    <3>1. n \in Invitation
      BY <1>3, <2>1
    <3>2. CASE e = d /\ p = j
      BY <1>1, <1>3, <1>10, <2>1, <3>2
    <3>3. CASE e # d \/ p # j
      <4>1. n = journal[e][p] /\ journal[e][p] # None
        BY <1>3, <2>1, <3>3
      <4>2. \/ By(n) = e /\ <<n, p>> \in approved
            \/ By(n) = p /\ p # e /\ <<n, e>> \in approved
        BY <4>1 DEF IInv, Approved
      <4> QED
        BY <1>1, <1>10, <3>1, <4>2
    <3> QED
      BY <3>2, <3>3
  <2>2. \A e, p \in Device : peers'[e][p] = "active" => journal'[e][p] # None
    <3>1. i # None
      BY PairingConstants
    <3>2. \A e, p \in Device : peers[e][p] = "active" => journal[e][p] # None
      BY DEF IInv, Approved
    <3>3. ASSUME NEW e \in Device, NEW p \in Device, peers'[e][p] = "active"
          PROVE  journal'[e][p] # None
      <4>1. CASE e = d /\ p = j
        BY <1>3, <3>1, <4>1
      <4>2. CASE e # d \/ p # j
        <5>1. peers'[e][p] = peers[e][p] /\ journal'[e][p] = journal[e][p]
          BY <1>3, <4>2
        <5> QED
          BY <3>2, <3>3, <5>1
      <4> QED
        BY <4>1, <4>2
    <3> QED
      BY <3>3
  <2>3. \A x \in Device, n \in Invitation :
          join'[x][n].in = "accepted" \/ rec'[x][n].pc \in {"checked", "answered"} =>
            <<n, x>> \in approved'
    <3>1. \A x \in Device, n \in Invitation :
            join[x][n].in = "accepted" \/ rec[x][n].pc \in {"checked", "answered"} =>
              <<n, x>> \in approved
      BY DEF IInv, Approved
    <3> QED
      BY <1>1, <1>7, <1>9, <3>1, SMTT(30)
  <2> QED
    BY <2>1, <2>2, <2>3 DEF Approved
<1>16. \A x \in Device, n \in Invitation : Prepares(x, n) => Prepares(x, n)'
  <2>1. \A n \in Invitation : By(n) \in Device \cup {Nobody}
    BY DEF IInv, TypeOK, By, InvState
  <2>2. \A x \in Device, n \in Invitation :
          n \in prepared[x] \/ (By(n) \in Device /\ peers[x][By(n)] # "absent") =>
            Prepares(x, n)'
    BY <1>3, <1>4, <1>10 DEF Prepares
  <2>3. \A x \in Device : peers'[x] = peers[x] \/ x = d
    BY <1>1 DEF CommitAt
  <2>4. ASSUME NEW x \in Device, NEW n \in Invitation, Prepares(x, n), By(n) = Nobody
        PROVE  Prepares(x, n)'
    <3>1. Nobody # j
      BY PairingConstants
    <3>2. peers'[x][Nobody] = peers[x][Nobody]
      BY <1>1, <3>1 DEF CommitAt, IInv, TypeOK
    <3> QED
      BY <1>4, <1>10, <2>4, <3>2 DEF Prepares
  <2> QED
    BY <2>1, <2>2, <2>4 DEF Prepares
<1>17. PreparedFirst'
  <2>1. \A n \in Invitation : host'[n].in = "prepared" \/ host'[n].pc = "committing" =>
          host'[n].peer \in Device /\ Prepares(host'[n].peer, n)
    <3>1. \A n \in Invitation : host[n].in = "prepared" \/ host[n].pc = "committing" =>
            host[n].peer \in Device /\ Prepares(host[n].peer, n)
      BY DEF IInv, Connected, Issued, PreparedFirst, None
    <3> QED
      BY <1>1, <1>5, <1>6, <3>1
  <2> QED
    BY <1>16, <2>1 DEF PreparedFirst
<1>18. Consented'
  BY <1>7, <1>9, <1>10 DEF IInv, Consented
<1>19. \A n \in Invitation, x \in Device :
         (Enrolled(By(n), x, n)' /\ By(n) # Nobody) =>
           \/ n = i /\ x = j
           \/ Enrolled(By(n), x, n) /\ By(n) \in Device /\ key'[By(n)] = key[By(n)]
  <2>1. \A n \in Invitation : By(n) \in Device \cup {Nobody}
    BY DEF IInv, TypeOK, By, InvState
  <2> QED
    BY <1>1, <1>3, <1>10, <2>1 DEF Enrolled
<1>20. KeyFits'
  <2>1. \A n \in Invitation : host'[n].pc = "committing" => host'[n].key \in Device
    BY <1>5, <1>6 DEF IInv, KeyFits
  <2>2. \A x \in Device, n \in Invitation :
          /\ join'[x][n].in = "accepted" => join'[x][n].key \in Device
          /\ rec'[x][n].pc = "answered" => rec'[x][n].key \in Device
    BY <1>7, <1>9, SMTT(30) DEF IInv, KeyFits
  <2>3. ASSUME NEW x \in Device, NEW n \in Invitation,
               By(n)' # Nobody, Enrolled(By(n), x, n)'
        PROVE  /\ join'[x][n].in = "accepted" => join'[x][n].key = key'[By(n)']
               /\ rec'[x][n].pc = "answered" => rec'[x][n].key = key'[By(n)']
    <3>1. \A y \in Device : join[y][i].in # "accepted" /\ rec[y][i].pc # "answered"
      BY <1>2 DEF IInv, Approved
    <3>2. CASE n = i /\ x = j
      <4>1. key'[By(n)'] = k
        BY <1>1, <1>3, <1>10, <3>2
      <4>2. join'[x][n].in = "accepted" => join'[x][n].key = k
        BY <1>7, <3>1, <3>2
      <4>3. rec'[x][n].pc # "answered"
        BY <1>9, <3>1, <3>2
      <4> QED
        BY <4>1, <4>2, <4>3
    <3>3. CASE Enrolled(By(n), x, n) /\ By(n) \in Device /\ key'[By(n)] = key[By(n)]
      <4>1. By(n) # Nobody
        BY <1>10, <2>3
      <4>2. /\ join[x][n].in = "accepted" => join[x][n].key = key[By(n)]
            /\ rec[x][n].pc = "answered" => rec[x][n].key = key[By(n)]
        BY <3>3, <4>1 DEF IInv, KeyFits
      <4> QED
        BY <1>1, <1>3, <1>7, <1>9, <1>10, <3>1, <3>2, <3>3, <4>2
    <3> QED
      BY <1>10, <1>19, <2>3, <3>2, <3>3
  <2> QED
    BY <2>1, <2>2, <2>3 DEF KeyFits
<1>21. KeysAgree'
  <2>1. ASSUME NEW a \in Device, NEW b \in Device, a # b, Mutual(a, b)'
        PROVE  key'[a] = key'[b]
    <3>1. ~(a = d /\ b = j) /\ ~(a = j /\ b = d)
      <4>1. ASSUME journal[j][d] = i PROVE FALSE
        <5>1. \/ By(i) = j /\ <<i, d>> \in approved
              \/ By(i) = d /\ d # j /\ <<i, j>> \in approved
          BY <4>1, JournalApproved
        <5> QED
          BY <1>1, <1>2, <5>1
      <4> QED
        BY <1>1, <1>3, <2>1, <4>1 DEF Mutual
    <3>2. Mutual(a, b)
      BY <1>3, <2>1, <3>1 DEF Mutual
    <3> QED
      <4>1. key[a] = key[b]
        BY <2>1, <3>2 DEF IInv, KeysAgree
      <4> QED
        BY <1>3, <3>2, <4>1 DEF Mutual
  <2> QED
    BY <2>1 DEF KeysAgree
<1>22. SingleUse'
  <2>1. ASSUME NEW e \in approved', NEW f \in approved', e[1] = f[1] PROVE e = f
    <3>1. \A g \in approved : g[1] # i
      <4>1. \A g \in approved : inv[g[1]].state = "gone"
        BY DEF IInv, UsedUp
      <4> QED
        BY <1>1, <4>1
    <3>2. CASE e = <<i, j>>
      BY <1>1, <2>1, <3>1, <3>2
    <3>3. CASE f = <<i, j>>
      BY <1>1, <2>1, <3>1, <3>3
    <3>4. CASE e \in approved /\ f \in approved
      BY <2>1, <3>4 DEF IInv, SingleUse
    <3> QED
      BY <1>1, <3>2, <3>3, <3>4
  <2> QED
    BY <2>1 DEF SingleUse
<1>23. Recoverable'
  <2>1. ASSUME NEW n \in Invitation, NEW x \in Device,
               By(n)' # Nobody, Enrolled(By(n), x, n)'
        PROVE  Prepares(x, n)'
    <3>1. CASE n = i /\ x = j
      BY <1>1, <1>16, <3>1
    <3>2. CASE Enrolled(By(n), x, n)
      BY <1>10, <1>16, <2>1, <3>2 DEF IInv, Recoverable, Prepares
    <3> QED
      BY <1>10, <1>19, <2>1, <3>1, <3>2
  <2> QED
    BY <2>1 DEF Recoverable, Prepares
<1> QED
  BY <1>11, <1>12, <1>13, <1>14, <1>15, <1>17, <1>18, <1>20, <1>21, <1>22, <1>23 DEF IInv

\* A joiner commits what its inviter has approved, with the key it was given.
LEMMA JoinerCommits ==
  ASSUME IInv, NEW j \in Device, NEW i \in Invitation, NEW h \in Device, NEW k \in Device,
         h = By(i), h # j, SameGroup(j, k), CommitAt(j, h, i, k),
         <<i, j>> \in approved, Enrolled(h, j, i) => k = key[h],
         UNCHANGED <<inv, approved, consent>>, JoinsWarranted, RecFades,
         \A n \in Invitation :
           /\ host'[n].pc = host[n].pc /\ host'[n].peer = host[n].peer
           /\ host'[n].key = host[n].key
           /\ host'[n].in = "prepared" => host[n].in = "prepared"
  PROVE  /\ UsedUp' /\ Approved' /\ PreparedFirst' /\ Consented'
         /\ KeyFits' /\ KeysAgree' /\ SingleUse' /\ Recoverable'
<1>1. /\ key'[j] = k
      /\ \A e \in Device : e # j => key'[e] = key[e]
      /\ \A e, q \in Device : peers[e][q] = "active" => key'[e] = key[e]
      /\ peers'[j][h] = "active" /\ journal'[j][h] = i
      /\ \A e, q \in Device : e # j \/ q # h =>
           peers'[e][q] = peers[e][q] /\ journal'[e][q] = journal[e][q]
      /\ \A e, q \in Device : peers[e][q] # "absent" => peers'[e][q] # "absent"
      /\ \A e \in Device, n \in Invitation :
           n \in prepared'[e] <=> n \in prepared[e] /\ (e # j \/ n # i)
  <2>1. TypeOK
    BY DEF IInv
  <2> QED
    BY <2>1, CommitWrites
<1>2. \A n \in Invitation : By(n)' = By(n)
  BY DEF By
<1>3. \A n \in Invitation : By(n) \in Device \cup {Nobody}
  BY DEF IInv, TypeOK, By, InvState
<1>4. UsedUp'
  BY DEF IInv, UsedUp
<1>5. Approved'
  <2>1. ASSUME NEW e \in Device, NEW p \in Device, journal'[e][p] # None,
               NEW n, n = journal'[e][p]
        PROVE  \/ By(n)' = e /\ <<n, p>> \in approved'
               \/ By(n)' = p /\ p # e /\ <<n, e>> \in approved'
    <3>1. CASE e = j /\ p = h
      BY <1>1, <1>2, <2>1, <3>1
    <3>2. CASE e # j \/ p # h
      <4>1. n = journal[e][p] /\ n \in Invitation
        BY <1>1, <2>1, <3>2 DEF IInv, TypeOK
      <4>2. \/ By(n) = e /\ <<n, p>> \in approved
            \/ By(n) = p /\ p # e /\ <<n, e>> \in approved
        BY <4>1, JournalApproved
      <4> QED
        BY <1>2, <4>1, <4>2
    <3> QED
      BY <3>1, <3>2
  <2>2. ASSUME NEW e \in Device, NEW p \in Device, peers'[e][p] = "active"
        PROVE  journal'[e][p] # None
    <3>1. CASE e = j /\ p = h
      BY <1>1, <3>1, PairingConstants
    <3>2. CASE e # j \/ p # h
      <4>1. peers'[e][p] = peers[e][p] /\ journal'[e][p] = journal[e][p]
        BY <1>1, <3>2
      <4> QED
        BY <2>2, <4>1 DEF IInv, Approved
    <3> QED
      BY <3>1, <3>2
  <2>3. \A x \in Device, n \in Invitation :
          join'[x][n].in = "accepted" \/ rec'[x][n].pc \in {"checked", "answered"} =>
            <<n, x>> \in approved'
    <3>1. \A x \in Device, n \in Invitation :
            join[x][n].in = "accepted" \/ rec[x][n].pc \in {"checked", "answered"} =>
              <<n, x>> \in approved
      BY DEF IInv, Approved
    <3> QED
      BY <3>1 DEF JoinsWarranted, RecFades
  <2> QED
    BY <2>1, <2>2, <2>3 DEF Approved
<1>6. \A x \in Device, n \in Invitation : By(n) # Nobody /\ Prepares(x, n) => Prepares(x, n)'
  BY <1>1, <1>2, <1>3 DEF Prepares
<1>7. PreparedFirst'
  <2>1. \A n \in Invitation : host'[n].in = "prepared" \/ host'[n].pc = "committing" =>
          /\ host'[n].peer \in Device /\ Prepares(host'[n].peer, n)
          /\ By(n) # Nobody
    BY DEF IInv, Connected, Issued, PreparedFirst, None
  <2> QED
    BY <1>6, <2>1 DEF PreparedFirst
<1>8. Consented'
  BY <1>2 DEF JoinsWarranted, Consented
<1>9. \A n \in Invitation, x \in Device :
        (Enrolled(By(n), x, n)' /\ By(n) # Nobody) =>
          Enrolled(By(n), x, n) /\ By(n) \in Device /\ key'[By(n)] = key[By(n)]
  BY <1>1, <1>2, <1>3 DEF Enrolled
<1>10. KeyFits'
  <2>1. \A n \in Invitation : host'[n].pc = "committing" => host'[n].key \in Device
    BY DEF IInv, KeyFits
  <2>2. ASSUME NEW x \in Device, NEW n \in Invitation
        PROVE  /\ join'[x][n].in = "accepted" =>
                    join[x][n].in = "accepted" /\ join'[x][n].key = join[x][n].key
               /\ rec'[x][n].pc = "answered" =>
                    rec[x][n].pc = "answered" /\ rec'[x][n].key = rec[x][n].key
    BY DEF JoinsWarranted, RecFades
  <2>3. \A x \in Device, n \in Invitation :
          /\ join'[x][n].in = "accepted" => join'[x][n].key \in Device
          /\ rec'[x][n].pc = "answered" => rec'[x][n].key \in Device
    BY <2>2 DEF IInv, KeyFits
  <2>4. ASSUME NEW x \in Device, NEW n \in Invitation,
               By(n)' # Nobody, Enrolled(By(n), x, n)'
        PROVE  /\ join'[x][n].in = "accepted" => join'[x][n].key = key'[By(n)']
               /\ rec'[x][n].pc = "answered" => rec'[x][n].key = key'[By(n)']
    <3>1. /\ Enrolled(By(n), x, n) /\ By(n) # Nobody /\ By(n)' = By(n)
          /\ key'[By(n)] = key[By(n)]
      BY <1>2, <1>9, <2>4
    <3>2. /\ join[x][n].in = "accepted" => join[x][n].key = key[By(n)]
          /\ rec[x][n].pc = "answered" => rec[x][n].key = key[By(n)]
      BY <3>1 DEF IInv, KeyFits
    <3> QED
      BY <2>2, <3>1, <3>2
  <2> QED
    BY <2>1, <2>3, <2>4 DEF KeyFits
<1>11. KeysAgree'
  <2>1. ASSUME NEW a \in Device, NEW b \in Device, a # b, Mutual(a, b)'
        PROVE  key'[a] = key'[b]
    <3>1. CASE (a = j /\ b = h) \/ (a = h /\ b = j)
      <4>1. Enrolled(h, j, i)
        BY <1>1, <2>1, <3>1 DEF Mutual, Enrolled
      <4> QED
        BY <1>1, <3>1, <4>1
    <3>2. CASE ~((a = j /\ b = h) \/ (a = h /\ b = j))
      <4>1. Mutual(a, b)
        BY <1>1, <2>1, <3>2 DEF Mutual
      <4>2. key[a] = key[b]
        BY <2>1, <4>1 DEF IInv, KeysAgree
      <4> QED
        BY <1>1, <4>1, <4>2 DEF Mutual
    <3> QED
      BY <3>1, <3>2
  <2> QED
    BY <2>1 DEF KeysAgree
<1>12. SingleUse'
  BY DEF IInv, SingleUse
<1>13. Recoverable'
  <2>1. ASSUME NEW n \in Invitation, NEW x \in Device,
               By(n)' # Nobody, Enrolled(By(n), x, n)'
        PROVE  Prepares(x, n)'
    <3>1. Enrolled(By(n), x, n) /\ By(n) # Nobody
      BY <1>2, <1>9, <2>1
    <3> QED
      BY <1>6, <3>1 DEF IInv, Recoverable, Prepares
  <2> QED
    BY <2>1 DEF Recoverable, Prepares
<1> QED
  BY <1>4, <1>5, <1>7, <1>8, <1>10, <1>11, <1>12, <1>13

\* The connect call commits once it has the key.
LEMMA JoinCommitKeeps ==
  ASSUME IInv, NEW j \in Device, NEW i \in Invitation, JoinCommit(j, i)
  PROVE  IInv'
<1>1. PICK h \in Device, k \in Device :
        /\ h = By(i) /\ h # j /\ k = join[j][i].key
        /\ CommitAt(j, h, i, k) /\ SameGroup(j, k)
        /\ <<i, j>> \in approved
        /\ Enrolled(h, j, i) => k = key[h]
        /\ join[j][i].pc = "prepared" /\ join[j][i].in = "accepted"
  <2>1. /\ join[j][i].pc = "prepared" /\ join[j][i].in = "accepted"
        /\ CommitAt(j, By(i), i, join[j][i].key) /\ SameGroup(j, join[j][i].key)
    BY DEF JoinCommit
  <2>2. By(i) \in Device /\ By(i) \notin {j, Nobody}
    BY <2>1 DEF IInv, TypeOK, Issued, By, InvState
  <2>3. <<i, j>> \in approved
    BY <2>1 DEF IInv, Approved
  <2>4. /\ join[j][i].key \in Device
        /\ Enrolled(By(i), j, i) => join[j][i].key = key[By(i)]
    BY <2>1, <2>2 DEF IInv, KeyFits
  <2> QED
    BY <2>1, <2>2, <2>3, <2>4
<1>2. /\ key' \in [Device -> Device]
      /\ peers' \in [Device -> [Device -> {"absent", "active", "revoked"}]]
      /\ journal' \in [Device -> [Device -> Invitation \cup {None}]]
      /\ prepared' \in [Device -> SUBSET Invitation]
      /\ \A e \in Device, n \in Invitation :
           n \in prepared'[e] <=> n \in prepared[e] /\ (e # j \/ n # i)
  <2>1. TypeOK
    BY DEF IInv
  <2> QED
    BY <1>1, <2>1, CommitWrites
<1>3. PICK c \in JoinState :
        /\ c.pc = "committed" /\ c.up = join[j][i].up /\ c.in = None
        /\ c.repair = join[j][i].repair /\ c.fenced = join[j][i].fenced
        /\ join' = [join EXCEPT ![j] = [join[j] EXCEPT ![i] = c]]
  <2>1. join' = [join EXCEPT ![j] =
          [join[j] EXCEPT ![i] = [join[j][i] EXCEPT !.pc = "committed", !.in = None]]]
    BY DEF JoinCommit
  <2>2. join[j][i] \in JoinState
    BY DEF IInv, TypeOK
  <2> QED
    BY <2>1, <2>2 DEF JoinState
<1>4. /\ join' \in [Device -> [Invitation -> JoinState]] /\ join'[j][i] = c
      /\ \A d \in Device, n \in Invitation : d # j \/ n # i => join'[d][n] = join[d][n]
  BY <1>3 DEF IInv, TypeOK
<1>5. join[j][i].up => host[i].up /\ host[i].peer = j /\ host[i].pc # "idle"
  BY <1>1 DEF IInv, Connected, None
<1>6. /\ host' \in [Invitation -> HostState]
      /\ \A n \in Invitation :
           /\ host'[n].pc = host[n].pc /\ host'[n].peer = host[n].peer
           /\ host'[n].up = host[n].up /\ host'[n].key = host[n].key
           /\ host'[n].in = host[n].in
              \/ (n = i /\ join[j][i].up /\ host'[n].in = "commit")
  <2>1. CASE ~join[j][i].up
    BY <2>1 DEF IInv, TypeOK, JoinCommit
  <2>2. CASE join[j][i].up
    <3>1. host' = [host EXCEPT ![i] = [host[i] EXCEPT !.in = "commit"]]
      BY <2>2 DEF JoinCommit
    <3>2. host[i] \in HostState
      BY DEF IInv, TypeOK
    <3>3. PICK r \in HostState :
            /\ r.pc = host[i].pc /\ r.peer = host[i].peer /\ r.up = host[i].up
            /\ r.key = host[i].key /\ r.in = "commit"
            /\ host' = [host EXCEPT ![i] = r]
      BY <3>1, <3>2 DEF HostState
    <3>4. /\ host' \in [Invitation -> HostState] /\ host'[i] = r
          /\ \A n \in Invitation : n # i => host'[n] = host[n]
      BY <3>3, HostMoves DEF IInv
    <3> QED
      BY <2>2, <3>3, <3>4
  <2> QED
    BY <2>1, <2>2
<1>7. UNCHANGED <<life, inv, rec, wants, faults, calls, approved, consent, scope>>
  BY DEF JoinCommit
<1>8. TypeOK'
  BY <1>2, <1>4, <1>6, <1>7 DEF IInv, TypeOK
<1>9. Issued'
  <2>1. SameIssuers
    BY <1>7 DEF SameIssuers
  <2> QED
    BY <1>1, <1>2, <1>3, <1>4, <1>6, <1>7, <2>1, IssuedKept DEF IInv
<1>10. Connected'
  <2>1. \A n \in Invitation : host[n].up => host[n].peer \in Device
    BY DEF IInv, Connected, Issued
  <2>2. \A n \in Invitation :
          /\ host'[n].pc = "idle" => ~host'[n].up /\ host'[n].in = None
          /\ host'[n].up => join'[host'[n].peer][n].pc # "idle"
    BY <1>3, <1>4, <1>5, <1>6, <2>1 DEF IInv, Connected
  <2>3. \A d \in Device, n \in Invitation :
          /\ join'[d][n].pc = "idle" => ~join'[d][n].up /\ join'[d][n].in = None
          /\ join'[d][n].up /\ (join'[d][n].pc # "hello" \/ join'[d][n].in # None) =>
               host'[n].up /\ host'[n].peer = d
    BY <1>3, <1>4, <1>5, <1>6 DEF IInv, Connected
  <2> QED
    BY <2>2, <2>3 DEF Connected
<1>11. JoinsWarranted
  <2>1. \A d \in Device, n \in Invitation : join'[d][n].in = "accepted" =>
          join[d][n].in = "accepted" /\ join'[d][n].key = join[d][n].key
    BY <1>3, <1>4 DEF None
  <2>2. \A d \in Device, n \in Invitation :
          join'[d][n].pc # "idle" /\ join'[d][n].repair /\ ~join'[d][n].fenced =>
            consent[d][By(n)]
    BY <1>1, <1>3, <1>4 DEF IInv, Consented
  <2> QED
    BY <1>7, <2>1, <2>2 DEF JoinsWarranted
<1>12. RecFades
  BY <1>7 DEF RecFades
<1>13. \A n \in Invitation :
         /\ host'[n].pc = host[n].pc /\ host'[n].peer = host[n].peer
         /\ host'[n].key = host[n].key
         /\ host'[n].in = "prepared" => host[n].in = "prepared"
  BY <1>6
<1>14. /\ UsedUp' /\ Approved' /\ PreparedFirst' /\ Consented'
       /\ KeyFits' /\ KeysAgree' /\ SingleUse' /\ Recoverable'
  BY <1>1, <1>7, <1>11, <1>12, <1>13, JoinerCommits
<1> QED
  BY <1>8, <1>9, <1>10, <1>14 DEF IInv

\* A recovery commits once it has the key.
LEMMA RecoverCommitKeeps ==
  ASSUME IInv, NEW j \in Device, NEW i \in Invitation, RecoverCommit(j, i)
  PROVE  IInv'
<1>1. PICK h \in Device, k \in Device :
        /\ h = By(i) /\ h # j /\ k = rec[j][i].key
        /\ CommitAt(j, h, i, k) /\ SameGroup(j, k)
        /\ <<i, j>> \in approved
        /\ Enrolled(h, j, i) => k = key[h]
  <2>1. /\ rec[j][i].pc = "answered"
        /\ CommitAt(j, By(i), i, rec[j][i].key) /\ SameGroup(j, rec[j][i].key)
    BY DEF RecoverCommit
  <2>2. By(i) \in Device /\ By(i) \notin {j, Nobody}
    BY <2>1 DEF IInv, TypeOK, Issued, By, InvState
  <2>3. <<i, j>> \in approved
    BY <2>1 DEF IInv, Approved
  <2>4. /\ rec[j][i].key \in Device
        /\ Enrolled(By(i), j, i) => rec[j][i].key = key[By(i)]
    BY <2>1, <2>2 DEF IInv, KeyFits
  <2> QED
    BY <2>1, <2>2, <2>3, <2>4
<1>2. /\ key' \in [Device -> Device]
      /\ peers' \in [Device -> [Device -> {"absent", "active", "revoked"}]]
      /\ journal' \in [Device -> [Device -> Invitation \cup {None}]]
      /\ prepared' \in [Device -> SUBSET Invitation]
      /\ \A e \in Device, n \in Invitation :
           n \in prepared'[e] <=> n \in prepared[e] /\ (e # j \/ n # i)
  <2>1. TypeOK
    BY DEF IInv
  <2> QED
    BY <1>1, <2>1, CommitWrites
<1>3. /\ rec' \in [Device -> [Invitation -> RecState]] /\ rec'[j][i] = RecIdle
      /\ \A d \in Device, n \in Invitation : d # j \/ n # i => rec'[d][n] = rec[d][n]
  BY IdleStates DEF IInv, TypeOK, RecoverCommit
<1>4. UNCHANGED <<life, inv, host, join, wants, faults, calls, approved, consent, scope>>
  BY DEF RecoverCommit
<1>5. RecFades
  BY <1>3, IdleStates DEF RecFades
<1>6. TypeOK'
  BY <1>2, <1>3, <1>4 DEF IInv, TypeOK
<1>7. Issued'
  <2>1. SameIssuers
    BY <1>4 DEF SameIssuers
  <2> QED
    BY <1>2, <1>4, <1>5, <2>1, IssuedKept DEF IInv, RecFades
<1>8. Connected'
  BY <1>4 DEF IInv, Connected
<1>9. JoinsWarranted
  BY <1>4 DEF IInv, Consented, JoinsWarranted
<1>10. \A n \in Invitation :
         /\ host'[n].pc = host[n].pc /\ host'[n].peer = host[n].peer
         /\ host'[n].key = host[n].key
         /\ host'[n].in = "prepared" => host[n].in = "prepared"
  BY <1>4
<1>11. /\ UsedUp' /\ Approved' /\ PreparedFirst' /\ Consented'
       /\ KeyFits' /\ KeysAgree' /\ SingleUse' /\ Recoverable'
  BY <1>1, <1>4, <1>5, <1>9, <1>10, JoinerCommits
<1> QED
  BY <1>6, <1>7, <1>8, <1>11 DEF IInv

-----------------------------------------------------------------------------
(* Removals, and ids that come into use and go out of it *)

\* A removal forgets the enrollment of a peer, and fences what could renew it.
LEMMA RemovalKeeps ==
  ASSUME IInv, NEW d \in Device, NEW p \in Device, Removes(d, p), Fenced(d),
         wants' \in [Device -> Invitation \cup {None}], calls' \in 0 .. scope.calls,
         UNCHANGED <<faults, scope>>
  PROVE  IInv'
<1>1. /\ peers' = [peers EXCEPT ![d] = [peers[d] EXCEPT ![p] = "revoked"]]
      /\ journal' = [journal EXCEPT ![d] = [journal[d] EXCEPT ![p] = None]]
      /\ prepared' = [prepared EXCEPT ![d] = {i \in prepared[d] : By(i) # p}]
      /\ consent' = [consent EXCEPT ![d] = [consent[d] EXCEPT ![p] = FALSE]]
      /\ life' = [life EXCEPT ![d] = IF life[d] = "running" THEN "removed" ELSE life[d]]
      /\ UNCHANGED <<key, inv, approved>>
  BY DEF Removes
<1>2. /\ peers' \in [Device -> [Device -> {"absent", "active", "revoked"}]]
      /\ peers'[d][p] = "revoked"
      /\ \A e, q \in Device : e # d \/ q # p => peers'[e][q] = peers[e][q]
  BY <1>1 DEF IInv, TypeOK
<1>3. /\ journal' \in [Device -> [Device -> Invitation \cup {None}]]
      /\ journal'[d][p] = None
      /\ \A e, q \in Device : e # d \/ q # p => journal'[e][q] = journal[e][q]
  BY <1>1 DEF IInv, TypeOK
<1>4. /\ prepared' \in [Device -> SUBSET Invitation]
      /\ \A e \in Device, n \in Invitation :
           n \in prepared'[e] <=> n \in prepared[e] /\ (e # d \/ By(n) # p)
  BY <1>1 DEF IInv, TypeOK
<1>5. /\ consent' \in [Device -> [Device -> BOOLEAN]] /\ life' \in [Device -> Life]
      /\ \A e \in Device : e # d => consent'[e] = consent[e]
  BY <1>1 DEF IInv, TypeOK, Life
<1>6. /\ host' \in [Invitation -> HostState]
      /\ join' \in [Device -> [Invitation -> JoinState]]
      /\ rec' \in [Device -> [Invitation -> RecState]]
      /\ HostFades /\ JoinFades /\ RecFades /\ Connected'
      /\ \A i \in Invitation : host'[i].pc = host[i].pc
      /\ \A i \in Invitation : join'[d][i].pc # "idle" => join'[d][i].fenced
      /\ \A j \in Device \ {d} : join'[j] = join[j]
  BY FencingFades DEF IInv
<1>7. /\ \A n \in Invitation : By(n)' = By(n) /\ By(n) \in Device \cup {Nobody}
      /\ SameIssuers
  BY <1>1 DEF IInv, TypeOK, SameIssuers, By, InvState
<1>8. TypeOK'
  BY <1>1, <1>2, <1>3, <1>4, <1>5, <1>6 DEF IInv, TypeOK
<1>9. Issued'
  BY <1>4, <1>6, <1>7, IssuedKept DEF IInv, HostFades, JoinFades, RecFades
<1>10. UsedUp'
  BY <1>1, <1>6 DEF IInv, UsedUp
<1>11. Approved'
  <2>1. ASSUME NEW e \in Device, NEW q \in Device, journal'[e][q] # None,
               NEW n, n = journal'[e][q]
        PROVE  \/ By(n)' = e /\ <<n, q>> \in approved'
               \/ By(n)' = q /\ q # e /\ <<n, e>> \in approved'
    <3>1. n = journal[e][q] /\ n \in Invitation
      BY <1>3, <2>1
    <3>2. \/ By(n) = e /\ <<n, q>> \in approved
          \/ By(n) = q /\ q # e /\ <<n, e>> \in approved
      BY <3>1, JournalApproved
    <3> QED
      BY <1>1, <1>7, <3>1, <3>2
  <2>2. ASSUME NEW e \in Device, NEW q \in Device, peers'[e][q] = "active"
        PROVE  journal'[e][q] # None
    <3>1. peers'[e][q] = peers[e][q] /\ journal'[e][q] = journal[e][q]
      BY <1>2, <1>3, <2>2
    <3> QED
      BY <2>2, <3>1 DEF IInv, Approved
  <2>3. \A x \in Device, n \in Invitation :
          join'[x][n].in = "accepted" \/ rec'[x][n].pc \in {"checked", "answered"} =>
            <<n, x>> \in approved'
    <3>1. \A x \in Device, n \in Invitation :
            join[x][n].in = "accepted" \/ rec[x][n].pc \in {"checked", "answered"} =>
              <<n, x>> \in approved
      BY DEF IInv, Approved
    <3> QED
      BY <1>1, <1>6, <3>1, ZenonT(30) DEF JoinFades, RecFades, None
  <2> QED
    BY <2>1, <2>2, <2>3 DEF Approved
<1>12. \A x \in Device, n \in Invitation : By(n) # Nobody /\ Prepares(x, n) => Prepares(x, n)'
  BY <1>2, <1>4, <1>7 DEF Prepares
<1>13. PreparedFirst'
  <2>1. \A n \in Invitation : host[n].in = "prepared" \/ host[n].pc = "committing" =>
          /\ host[n].peer \in Device /\ Prepares(host[n].peer, n)
          /\ By(n) # Nobody
    BY DEF IInv, Connected, Issued, PreparedFirst, None
  <2>2. \A n \in Invitation : host'[n].in = "prepared" \/ host'[n].pc = "committing" =>
          /\ host'[n].peer \in Device /\ Prepares(host'[n].peer, n)
          /\ By(n) # Nobody
    BY <1>6, <2>1 DEF HostFades, None
  <2> QED
    BY <1>12, <2>2 DEF PreparedFirst
<1>14. Consented'
  <2>1. ASSUME NEW x \in Device, NEW n \in Invitation,
               join'[x][n].pc # "idle", join'[x][n].repair, ~join'[x][n].fenced
        PROVE  consent'[x][By(n)']
    <3>1. x # d /\ join'[x] = join[x] /\ consent'[x] = consent[x]
      BY <1>5, <1>6, <2>1
    <3> QED
      BY <1>7, <2>1, <3>1 DEF IInv, Consented
  <2> QED
    BY <2>1 DEF Consented
<1>15. \A n \in Invitation, x \in Device :
         (Enrolled(By(n), x, n)' /\ By(n) # Nobody) => Enrolled(By(n), x, n)
  BY <1>2, <1>7, <1>3 DEF Enrolled
<1>16. KeyFits'
  <2>1. \A n \in Invitation : host'[n].pc = "committing" => host'[n].key \in Device
    BY <1>6 DEF IInv, KeyFits, HostFades
  <2>2. ASSUME NEW x \in Device, NEW n \in Invitation
        PROVE  /\ join'[x][n].in = "accepted" =>
                    join[x][n].in = "accepted" /\ join'[x][n].key = join[x][n].key
               /\ rec'[x][n].pc = "answered" =>
                    rec[x][n].pc = "answered" /\ rec'[x][n].key = rec[x][n].key
    BY <1>6 DEF JoinFades, RecFades, None
  <2>3. \A x \in Device, n \in Invitation :
          /\ join'[x][n].in = "accepted" => join'[x][n].key \in Device
          /\ rec'[x][n].pc = "answered" => rec'[x][n].key \in Device
    BY <2>2 DEF IInv, KeyFits
  <2>4. ASSUME NEW x \in Device, NEW n \in Invitation,
               By(n)' # Nobody, Enrolled(By(n), x, n)'
        PROVE  /\ join'[x][n].in = "accepted" => join'[x][n].key = key'[By(n)']
               /\ rec'[x][n].pc = "answered" => rec'[x][n].key = key'[By(n)']
    <3>1. Enrolled(By(n), x, n) /\ By(n) # Nobody /\ By(n)' = By(n) /\ key' = key
      BY <1>1, <1>7, <1>15, <2>4
    <3>2. /\ join[x][n].in = "accepted" => join[x][n].key = key[By(n)]
          /\ rec[x][n].pc = "answered" => rec[x][n].key = key[By(n)]
      BY <3>1 DEF IInv, KeyFits
    <3> QED
      BY <2>2, <3>1, <3>2
  <2> QED
    BY <2>1, <2>3, <2>4 DEF KeyFits
<1>17. KeysAgree'
  <2>1. ASSUME NEW a \in Device, NEW b \in Device, a # b, Mutual(a, b)'
        PROVE  key'[a] = key'[b]
    <3>1. Mutual(a, b)
      BY <1>2, <1>3, <2>1 DEF Mutual
    <3> QED
      BY <1>1, <2>1, <3>1 DEF IInv, KeysAgree
  <2> QED
    BY <2>1 DEF KeysAgree
<1>18. SingleUse'
  BY <1>1 DEF IInv, SingleUse
<1>19. Recoverable'
  <2>1. ASSUME NEW n \in Invitation, NEW x \in Device,
               By(n)' # Nobody, Enrolled(By(n), x, n)'
        PROVE  Prepares(x, n)'
    <3>1. Enrolled(By(n), x, n) /\ By(n) # Nobody
      BY <1>7, <1>15, <2>1
    <3> QED
      BY <1>12, <3>1 DEF IInv, Recoverable, Prepares
  <2> QED
    BY <2>1 DEF Recoverable, Prepares
<1> QED
  BY <1>6, <1>8, <1>9, <1>10, <1>11, <1>13, <1>14, <1>16, <1>17, <1>18, <1>19 DEF IInv

\* Users remove, or repair what their peer has removed.
LEMMA RemoveKeeps ==
  ASSUME IInv, NEW d \in Device, NEW p \in Device, NEW i \in Invitation,
         RemovePeer(d, p) \/ RepairPeer(d, i)
  PROVE  IInv'
<1>1. CASE RemovePeer(d, p)
  <2>1. wants' \in [Device -> Invitation \cup {None}] /\ calls' \in 0 .. scope.calls
    BY <1>1 DEF IInv, TypeOK, RemovePeer
  <2> QED
    BY <1>1, <2>1, RemovalKeeps DEF RemovePeer
<1>2. CASE RepairPeer(d, i)
  <2>1. By(i) \in Device
    BY <1>2 DEF IInv, TypeOK, Issued, RepairPeer, Claimable, By, InvState
  <2>2. wants' \in [Device -> Invitation \cup {None}] /\ calls' \in 0 .. scope.calls
    BY <1>2 DEF IInv, TypeOK, RepairPeer
  <2> QED
    BY <1>2, <2>1, <2>2, RemovalKeeps DEF RepairPeer
<1> QED
  BY <1>1, <1>2

\* Nothing depends on an id that nothing refers to.
LEMMA ReissueKeeps ==
  ASSUME IInv, NEW i \in Invitation, NEW r \in InvState, inv' = [inv EXCEPT ![i] = r],
         r.attempts = 0, r.state = "free" <=> r.by = Nobody,
         host[i].pc = "idle",
         \A d \in Device : join[d][i].pc = "idle" /\ rec[d][i].pc = "idle" /\ i \notin prepared[d],
         \A d, p \in Device : journal[d][p] # i,
         approved' = {e \in approved : e[1] # i},
         UNCHANGED <<life, trust, host, join, rec, wants, faults, calls, consent, scope>>
  PROVE  IInv'
<1>1. /\ inv' \in [Invitation -> InvState] /\ inv'[i] = r
      /\ \A n \in Invitation : n # i => inv'[n] = inv[n] /\ By(n)' = By(n)
  BY DEF IInv, TypeOK, By
<1>2. UNCHANGED <<key, peers, journal, prepared>>
  BY DEF trust
<1>3. TypeOK'
  <2>1. \A n \in Invitation : inv'[n].attempts <= scope.attempts
    BY <1>1 DEF IInv, TypeOK
  <2>2. approved' \subseteq Invitation \X Device
    BY DEF IInv, TypeOK
  <2> QED
    BY <1>1, <1>2, <2>1, <2>2 DEF IInv, TypeOK
<1>4. Issued'
  <2>1. \A n \in Invitation : inv'[n].state = "free" <=> By(n)' = Nobody
    BY <1>1 DEF IInv, Issued, By
  <2>2. \A n \in Invitation : host'[n].pc # "idle" =>
          host'[n].peer \in Device /\ By(n)' \notin {host'[n].peer, Nobody}
    BY <1>1 DEF IInv, Issued
  <2>3. \A j \in Device, n \in Invitation :
          join'[j][n].pc # "idle" \/ rec'[j][n].pc # "idle" \/ n \in prepared'[j] =>
            By(n)' \notin {j, Nobody}
    BY <1>1, <1>2 DEF IInv, Issued
  <2> QED
    BY <2>1, <2>2, <2>3 DEF Issued
<1>5. Connected'
  BY DEF IInv, Connected
<1>6. UsedUp'
  <2>1. ASSUME NEW e \in approved' PROVE inv'[e[1]].state = "gone"
    <3>1. e[1] \in Invitation /\ e[1] # i /\ inv[e[1]].state = "gone"
      BY DEF IInv, TypeOK, UsedUp
    <3> QED
      BY <1>1, <3>1
  <2>2. \A n \in Invitation : host'[n].pc = "committing" => inv'[n].state = "claimed"
    BY <1>1 DEF IInv, UsedUp
  <2> QED
    BY <2>1, <2>2 DEF UsedUp
<1>7. \A n \in Invitation, x \in Device : n # i /\ <<n, x>> \in approved => <<n, x>> \in approved'
  OBVIOUS
<1>8. Approved'
  <2>1. ASSUME NEW e \in Device, NEW q \in Device, journal'[e][q] # None,
               NEW n, n = journal'[e][q]
        PROVE  \/ By(n)' = e /\ <<n, q>> \in approved'
               \/ By(n)' = q /\ q # e /\ <<n, e>> \in approved'
    <3>1. n = journal[e][q] /\ n \in Invitation /\ n # i
      BY <1>2, <2>1 DEF IInv, TypeOK
    <3>2. \/ By(n) = e /\ <<n, q>> \in approved
          \/ By(n) = q /\ q # e /\ <<n, e>> \in approved
      BY <3>1, JournalApproved
    <3> QED
      BY <1>1, <1>7, <3>1, <3>2
  <2>2. \A e, q \in Device : peers'[e][q] = "active" => journal'[e][q] # None
    <3>1. \A e, q \in Device : peers[e][q] = "active" => journal[e][q] # None
      BY DEF IInv, Approved
    <3> QED
      BY <1>2, <3>1
  <2>3. \A x \in Device, n \in Invitation :
          join'[x][n].in = "accepted" \/ rec'[x][n].pc \in {"checked", "answered"} =>
            <<n, x>> \in approved'
    <3>1. \A x \in Device, n \in Invitation :
            join[x][n].in = "accepted" \/ rec[x][n].pc \in {"checked", "answered"} =>
              <<n, x>> \in approved /\ n # i
      BY DEF IInv, Approved, Connected, None
    <3> QED
      BY <1>7, <3>1
  <2> QED
    BY <2>1, <2>2, <2>3 DEF Approved
<1>9. \A x \in Device, n \in Invitation : n # i /\ Prepares(x, n) => Prepares(x, n)'
  BY <1>1, <1>2 DEF Prepares
<1>10. PreparedFirst'
  <2>1. \A n \in Invitation : host[n].in = "prepared" \/ host[n].pc = "committing" =>
          host[n].peer \in Device /\ Prepares(host[n].peer, n) /\ n # i
    BY DEF IInv, Connected, Issued, PreparedFirst, None
  <2> QED
    BY <1>9, <2>1 DEF PreparedFirst
<1>11. Consented'
  BY <1>1 DEF IInv, Consented
<1>12. \A n \in Invitation, x \in Device :
         Enrolled(By(n), x, n)' /\ By(n)' \in Device => n # i /\ Enrolled(By(n), x, n)
  BY <1>1, <1>2 DEF Enrolled
<1>13. \A n \in Invitation : By(n)' \in Device \cup {Nobody}
  BY <1>1 DEF By, InvState
<1>14. KeyFits'
  <2>1. \A n \in Invitation : host'[n].pc = "committing" => host'[n].key \in Device
    BY DEF IInv, KeyFits
  <2>2. \A x \in Device, n \in Invitation :
          /\ join'[x][n].in = "accepted" => join'[x][n].key \in Device
          /\ rec'[x][n].pc = "answered" => rec'[x][n].key \in Device
    BY DEF IInv, KeyFits
  <2>3. ASSUME NEW x \in Device, NEW n \in Invitation,
               By(n)' # Nobody, Enrolled(By(n), x, n)'
        PROVE  /\ join'[x][n].in = "accepted" => join'[x][n].key = key'[By(n)']
               /\ rec'[x][n].pc = "answered" => rec'[x][n].key = key'[By(n)']
    <3>1. Enrolled(By(n), x, n) /\ By(n) # Nobody /\ By(n)' = By(n)
      BY <1>1, <1>12, <1>13, <2>3
    <3>2. /\ join[x][n].in = "accepted" => join[x][n].key = key[By(n)]
          /\ rec[x][n].pc = "answered" => rec[x][n].key = key[By(n)]
      BY <3>1 DEF IInv, KeyFits
    <3> QED
      BY <1>2, <3>1, <3>2
  <2> QED
    BY <2>1, <2>2, <2>3 DEF KeyFits
<1>15. KeysAgree' /\ SingleUse'
  <2>1. KeysAgree'
    BY <1>2 DEF IInv, KeysAgree, Mutual
  <2>2. SingleUse'
    BY DEF IInv, SingleUse
  <2> QED
    BY <2>1, <2>2
<1>16. Recoverable'
  <2>1. ASSUME NEW n \in Invitation, NEW x \in Device,
               By(n)' # Nobody, Enrolled(By(n), x, n)'
        PROVE  Prepares(x, n)'
    <3>1. Enrolled(By(n), x, n) /\ By(n) # Nobody /\ n # i
      BY <1>1, <1>12, <1>13, <2>1
    <3> QED
      BY <1>9, <3>1 DEF IInv, Recoverable, Prepares
  <2> QED
    BY <2>1 DEF Recoverable, Prepares
<1> QED
  BY <1>3, <1>4, <1>5, <1>6, <1>8, <1>10, <1>11, <1>14, <1>15, <1>16 DEF IInv

\* A fresh invitation has an id that is free.
LEMMA InviteKeeps ==
  ASSUME IInv, NEW d \in Device, NEW i \in Invitation, Invite(d, i)
  PROVE  IInv'
<1>1. By(i) = Nobody /\ inv[i].state = "free"
  BY DEF IInv, Issued, Invite
<1>2. PICK r \in InvState :
        /\ r.by = d /\ r.state = "open" /\ r.attempts = 0 /\ inv' = [inv EXCEPT ![i] = r]
  BY DEF Invite, InvState
<1>3. d # Nobody
  BY PairingConstants
<1>4. /\ host[i].pc = "idle"
      /\ \A e \in Device : join[e][i].pc = "idle" /\ rec[e][i].pc = "idle" /\ i \notin prepared[e]
  BY <1>1 DEF IInv, Issued
<1>5. \A e, p \in Device : journal[e][p] # i
  <2>1. ASSUME NEW e \in Device, NEW p \in Device, journal[e][p] = i PROVE FALSE
    <3>1. By(i) = e \/ By(i) = p
      BY <2>1, JournalApproved
    <3> QED
      BY <1>1, <3>1, PairingConstants
  <2> QED
    BY <2>1
<1>6. approved' = {e \in approved : e[1] # i}
  <2>1. \A e \in approved : e[1] # i
    BY <1>1 DEF IInv, UsedUp
  <2>2. approved' = approved
    BY DEF Invite
  <2> QED
    BY <2>1, <2>2
<1> QED
  BY <1>2, <1>3, <1>4, <1>5, <1>6, ReissueKeeps DEF Invite

\* An id is free again once everything has forgotten it.
LEMMA RecycleKeeps ==
  ASSUME IInv, NEW i \in Invitation, Recycle(i)
  PROVE  IInv'
BY IdleStates, ReissueKeeps DEF Recycle

-----------------------------------------------------------------------------
(* The invariant is inductive *)

\* Before anything is enrolled there is nothing to keep.
LEMMA InitKeeps ==
  ASSUME Init
  PROVE  IInv
<1>1. \A i \in Invitation : inv[i] = Unissued /\ host[i] = HostIdle /\ By(i) = Nobody
  BY DEF Init, Quiet, By, Unissued
<1>2. \A j \in Device, i \in Invitation :
        join[j][i] = JoinIdle /\ rec[j][i] = RecIdle /\ i \notin prepared[j]
  BY DEF Init, Quiet
<1>3. \A d, p \in Device : journal[d][p] = None /\ peers[d][p] = "absent"
  BY DEF Init
<1>4. scope \in [devices : SUBSET Device, inviters : SUBSET Device,
                 invitations : SUBSET Invitation,
                 attempts : Nat, faults : Nat, calls : Nat, repairs : BOOLEAN]
  <2>1. PICK b \in Scopes, D \in SUBSET Device, I \in SUBSET Invitation :
          \E H \in SUBSET D :
            scope = [b EXCEPT !.devices = D, !.inviters = H, !.invitations = I]
    BY DEF Init, Quiet
  <2>2. PICK H \in SUBSET D :
          scope = [b EXCEPT !.devices = D, !.inviters = H, !.invitations = I]
    BY <2>1
  <2>3. b \in [devices : Nat, inviters : Nat, invitations : Nat, attempts : Nat,
               faults : Nat, calls : Nat, repairs : BOOLEAN]
    BY PairingConstants
  <2> QED
    BY <2>2, <2>3
<1>5. TypeOK
  <2>1. /\ scope.faults \in Nat /\ scope.calls \in Nat /\ scope.attempts \in Nat
        /\ 0 \in 0 .. scope.faults /\ 0 \in 0 .. scope.calls
    BY <1>4
  <2>2. /\ faults \in 0 .. scope.faults /\ calls \in 0 .. scope.calls
        /\ \A i \in Invitation : inv[i].attempts <= scope.attempts
    BY <1>1, <2>1, IdleStates DEF Init, Quiet
  <2>3. /\ inv \in [Invitation -> InvState] /\ host \in [Invitation -> HostState]
        /\ join \in [Device -> [Invitation -> JoinState]]
        /\ rec \in [Device -> [Invitation -> RecState]]
    BY IdleStates DEF Init, Quiet
  <2>4. /\ life \in [Device -> Life] /\ key \in [Device -> Device]
        /\ peers \in [Device -> [Device -> {"absent", "active", "revoked"}]]
        /\ journal \in [Device -> [Device -> Invitation \cup {None}]]
        /\ prepared \in [Device -> SUBSET Invitation]
        /\ wants \in [Device -> Invitation \cup {None}]
        /\ approved \subseteq Invitation \X Device
        /\ consent \in [Device -> [Device -> BOOLEAN]]
    BY DEF Init, Quiet, Life
  <2> QED
    BY <1>4, <2>2, <2>3, <2>4 DEF TypeOK
<1>6. Issued /\ Connected
  BY <1>1, <1>2, IdleStates DEF Issued, Connected
<1>7. UsedUp /\ PreparedFirst /\ Consented
  BY <1>1, <1>2, IdleStates DEF Init, UsedUp, PreparedFirst, Consented, None
<1>8. Approved
  BY <1>2, <1>3, IdleStates DEF Approved, None
<1>9. KeyFits
  BY <1>1, <1>2, IdleStates DEF KeyFits, None
<1>10. KeysAgree /\ SingleUse /\ Recoverable
  BY <1>1, <1>3 DEF Init, KeysAgree, SingleUse, Recoverable, Mutual
<1> QED
  BY <1>5, <1>6, <1>7, <1>8, <1>9, <1>10 DEF IInv

\* Every step keeps the invariant.
LEMMA NextKeeps ==
  ASSUME IInv, [Next]_vars
  PROVE  IInv'
<1>1. ASSUME NEW i \in Invitation, HostStep(i) PROVE IInv'
  BY <1>1, ReadyKeeps, LockKeeps, HostCommitKeeps, HostCompleteKeeps, HostFailsKeeps DEF HostStep
<1>2. ASSUME NEW i \in Invitation, Expire(i) \/ Cut(i) \/ Recycle(i) PROVE IInv'
  BY <1>2, ExpireKeeps, CutKeeps, RecycleKeeps
<1>3. ASSUME NEW d \in Device, NEW i \in Invitation,
             Invite(d, i) \/ Claim(i, d) \/ Connect(d, i) \/ RepairPeer(d, i)
      PROVE  IInv'
  BY <1>3, InviteKeeps, ClaimKeeps, ConnectKeeps, RemoveKeeps
<1>4. ASSUME NEW d \in Device, NEW i \in Invitation, JoinStep(d, i) PROVE IInv'
  BY <1>4, ConfirmKeeps, PrepareKeeps, JoinCommitKeeps, JoinEndsKeeps DEF JoinStep
<1>5. ASSUME NEW d \in Device, NEW i \in Invitation, RecoverStep(d, i) PROVE IInv'
  BY <1>5, RecoveryKeeps, RecoverCommitKeeps, RecoverFailsKeeps DEF RecoverStep
<1>6. ASSUME NEW d \in Device, StopStep(d) \/ StopFence(d) \/ ClosePairing(d) \/ Crash(d)
      PROVE  IInv'
  BY <1>6, ClosePairingKeeps, StopCloseKeeps, StopJoinKeeps, StartKeeps, RepairConnectKeeps, StopFenceKeeps,
     CrashKeeps DEF StopStep
<1>7. ASSUME NEW d \in Device, NEW p \in Device, RemovePeer(d, p) PROVE IInv'
  <2>1. CASE \E i \in Invitation : TRUE
    BY <1>7, <2>1, RemoveKeeps
  <2>2. CASE ~\E i \in Invitation : TRUE
    <3>1. wants' \in [Device -> Invitation \cup {None}] /\ calls' \in 0 .. scope.calls
      BY <1>7 DEF IInv, TypeOK, RemovePeer
    <3> QED
      BY <1>7, <3>1, RemovalKeeps DEF RemovePeer
  <2> QED
    BY <2>1, <2>2
<1>8. CASE UNCHANGED vars
  BY <1>8, SMTT(30)
     DEF vars, trust, IInv, TypeOK, Issued, Connected, UsedUp, Approved, PreparedFirst,
     Prepares, Consented, KeyFits, KeysAgree, SingleUse, Recoverable, Enrolled, Mutual, By
<1> QED
  BY <1>1, <1>2, <1>3, <1>4, <1>5, <1>6, <1>7, <1>8 DEF Next

\* The invariant of enrollment, for any number of devices and invitations.
THEOREM PairingInductive == Spec => []IInv
<1>1. Init => IInv
  BY InitKeeps
<1>2. IInv /\ [Next]_vars => IInv'
  BY NextKeeps
<1> QED
  BY <1>1, <1>2, PTL DEF Spec

-----------------------------------------------------------------------------
(* What it says of the program *)

\* Invitations, connections and journals are what the handlers take them for.
THEOREM PairingType == Spec => []TypeOK
<1>1. IInv => TypeOK
  BY DEF IInv
<1> QED
  BY <1>1, PairingInductive, PTL

\* commit_secure_pairing never leaves two devices that are enrolled with each
\* other by the same invitation with different group keys.
THEOREM GroupKeysAgree == Spec => []KeysAgree
<1>1. IInv => KeysAgree
  BY DEF IInv
<1> QED
  BY <1>1, PairingInductive, PTL

\* A joiner, in connect or in recovery, commits after its inviter only.
THEOREM InviterCommitsFirst == Spec => []InviterFirst
<1>1. IInv => InviterFirst
  BY DEF IInv, Approved, InviterFirst
<1> QED
  BY <1>1, PairingInductive, PTL

\* An invitation enrolls one device.
THEOREM InvitationIsSpent == Spec => []SingleUse
<1>1. IInv => SingleUse
  BY DEF IInv
<1> QED
  BY <1>1, PairingInductive, PTL

\* The inviter's device can always recover what the inviter holds of it.
THEOREM JoinerCanRecover == Spec => []Recoverable
<1>1. IInv => Recoverable
  BY DEF IInv
<1> QED
  BY <1>1, PairingInductive, PTL

\* A commit makes one peer active.
LEMMA CommitIsOfOne ==
  ASSUME TypeOK, NEW d \in Device, NEW p \in Device, NEW i, NEW k, CommitAt(d, p, i, k),
         NEW e \in Device, NEW q \in Device, peers'[e][q] # peers[e][q]
  PROVE  e = d /\ q = p
<1>1. peers' = [peers EXCEPT ![d] = [peers[d] EXCEPT ![p] = "active"]]
  BY DEF CommitAt
<1> QED
  BY <1>1 DEF TypeOK

\* A removed peer comes back by an explicit repair since its removal only.
THEOREM RemovalIsFinal == Spec => RemovalSticks
<1> DEFINE Sticks == \A d \in Device, p \in Device :
      peers[d][p] = "revoked" /\ peers'[d][p] = "active" => consent[d][p]
<1>1. IInv /\ [Next]_vars => [Sticks]_vars
  <2> SUFFICES ASSUME IInv, Next, NEW d \in Device, NEW p \in Device,
                      peers[d][p] = "revoked", peers'[d][p] = "active"
               PROVE  consent[d][p]
    BY DEF Sticks
  <2>1. peers' # peers
    OBVIOUS
  <2>2. ASSUME NEW i \in Invitation, HostStep(i) PROVE FALSE
    <3>1. HostCommit(i)
      BY <2>1, <2>2 DEF HostStep, Ready, LockManager, HostComplete, HostFails, trust
    <3>2. By(i) \in Device /\ host[i].peer \in Device
      BY <3>1 DEF IInv, TypeOK, Issued, HostCommit, By, InvState
    <3>3. /\ CommitAt(By(i), host[i].peer, i, host[i].key)
          /\ Valid(By(i), host[i].peer, host[i].fenced, FALSE)
      BY <3>1 DEF HostCommit
    <3>4. d = By(i) /\ p = host[i].peer
      BY <3>2, <3>3, CommitIsOfOne DEF IInv
    <3> QED
      BY <3>3, <3>4 DEF Valid
  <2>3. ASSUME NEW j \in Device, NEW i \in Invitation, JoinStep(j, i) PROVE consent[d][p]
    <3>1. JoinCommit(j, i)
      BY <2>1, <2>3 DEF JoinStep, Confirm, Prepare, JoinComplete, JoinFails, trust
    <3>2. join[j][i].pc = "prepared" /\ By(i) \in Device
      BY <3>1 DEF IInv, TypeOK, Issued, JoinCommit, By, InvState
    <3>3. /\ CommitAt(j, By(i), i, join[j][i].key)
          /\ Valid(j, By(i), join[j][i].fenced, join[j][i].repair)
      BY <3>1 DEF JoinCommit
    <3>4. d = j /\ p = By(i) /\ join[j][i].repair /\ ~join[j][i].fenced
      BY <3>2, <3>3, CommitIsOfOne DEF IInv, Valid
    <3> QED
      BY <3>2, <3>4 DEF IInv, Consented
  <2>4. ASSUME NEW j \in Device, NEW i \in Invitation, RecoverStep(j, i) PROVE FALSE
    <3>1. RecoverCommit(j, i)
      BY <2>1, <2>4 DEF RecoverStep, Recover, RecoverCheck, RecoverKey, RecoverFails, trust
    <3>2. By(i) \in Device
      BY <3>1 DEF IInv, TypeOK, Issued, RecoverCommit, By, InvState
    <3>3. /\ CommitAt(j, By(i), i, rec[j][i].key)
          /\ Valid(j, By(i), rec[j][i].fenced, FALSE)
      BY <3>1 DEF RecoverCommit
    <3>4. d = j /\ p = By(i)
      BY <3>2, <3>3, CommitIsOfOne DEF IInv
    <3> QED
      BY <3>3, <3>4 DEF Valid
  <2>5. ASSUME NEW e \in Device, NEW q \in Device, Removes(e, q) PROVE FALSE
    <3>1. peers' = [peers EXCEPT ![e] = [peers[e] EXCEPT ![q] = "revoked"]]
      BY <2>5 DEF Removes
    <3>2. peers'[d][p] \in {peers[d][p], "revoked"}
      BY <3>1 DEF IInv, TypeOK
    <3> QED
      BY <3>2
  <2>6. ASSUME NEW e \in Device, NEW i \in Invitation, RepairPeer(e, i) PROVE FALSE
    <3>1. By(i) \in Device
      BY <2>6 DEF IInv, TypeOK, Issued, RepairPeer, Claimable, By, InvState
    <3> QED
      BY <2>5, <2>6, <3>1 DEF RepairPeer
  <2>7. ASSUME NEW e \in Device, NEW q \in Device, RemovePeer(e, q) PROVE FALSE
    BY <2>5, <2>7 DEF RemovePeer
  <2>8. ASSUME NEW i \in Invitation, Expire(i) \/ Cut(i) \/ Recycle(i) PROVE FALSE
    BY <2>1, <2>8 DEF Expire, Cut, Recycle, trust
  <2>9. ASSUME NEW e \in Device, NEW i \in Invitation,
               Invite(e, i) \/ Claim(i, e) \/ Connect(e, i)
        PROVE  FALSE
    BY <2>1, <2>9 DEF Invite, Claim, Connect, trust
  <2>10. ASSUME NEW e \in Device, StopStep(e) \/ StopFence(e) \/ ClosePairing(e) \/ Crash(e)
         PROVE  FALSE
    BY <2>1, <2>10 DEF ClosePairing, StopStep, StopClose, StopJoin, Start, RepairConnect, StopFence, Crash, trust
  <2> QED
    BY <2>2, <2>3, <2>4, <2>6, <2>7, <2>8, <2>9, <2>10 DEF Next
<1> QED
  BY <1>1, PairingInductive, PTL DEF Spec, RemovalSticks

=============================================================================
