------------------------------ MODULE Linking ------------------------------
(***************************************************************************)
(* Legacy linking, sync.rs (link_with_device_using, handle_connection) and *)
(* engine.rs (request_link): devices exchange and pin certificates on      *)
(* first use and settle on one app key, and from then on accept an         *)
(* exchange only if both pins and the keys match.                          *)
(*                                                                         *)
(* A listener serves every connection on a thread of its own and keeps the *)
(* certificate it was started with.  Connections break anywhere; users     *)
(* confirm or decline, unlink and replace certificates.                    *)
(***************************************************************************)
EXTENDS Integers, FiniteSets

CONSTANTS Device,   \* devices; a device's first app key and certificate are its own
          Overlap,  \* whether a device takes part in two links at once
          MaxLinks, \* bound on the link requests
          MaxCert   \* bound on the certificates

LinkingAssumption ==
  Device \subseteq Nat \ {0} /\ Overlap \in BOOLEAN /\ MaxLinks \in Nat /\ MaxCert \in Nat

VARIABLES
  key,        \* key[d]: the app key of d's DeviceHandler
  cert,       \* cert[d]: the certificate of its device keys
  served,     \* served[d]: the certificate its listener presents
  pin,        \* pin[d][p]: the fingerprint d allows for p, 0: not linked
  link,       \* link[d]: d's link request, its thread and the listener's
  last,       \* history: the device whose link with d was completed last, 0 if d has
              \* changed certificates or taken part in another link since
  links       \* link requests so far

vars == <<key, cert, served, pin, link, last, links>>

Idle == [pc |-> "idle", to |-> 0, mine |-> 0, mycert |-> 0, theirs |-> 0, answer |-> 0,
         shown |-> 0, gone |-> FALSE]

\* States of a link request.
LinkState ==
  [pc : {"idle", "asked", "accepted", "approved", "adopted", "answered", "learned"},
   to : Device \cup {0}, mine : Device \cup {0}, mycert : Nat,
   theirs : Device \cup {0}, answer : Device \cup {0}, shown : Nat, gone : BOOLEAN]

Init ==
  /\ key = [d \in Device |-> d]
  /\ cert = [d \in Device |-> 1] /\ served = cert
  /\ pin = [d \in Device |-> [p \in Device |-> 0]]
  /\ link = [d \in Device |-> Idle]
  /\ last = [d \in Device |-> 0]
  /\ links = 0

Busy == {d \in Device : link[d].pc # "idle"}
Engaged == Busy \cup {link[d].to : d \in Busy}

-----------------------------------------------------------------------------
(* The requesting device.                                                  *)

\* Engine::request_link reads its own key and certificate and connects.
RequestLink(a, b) ==
  /\ a # b /\ link[a] = Idle /\ links < MaxLinks
  /\ links' = links + 1
  /\ Overlap \/ {a, b} \cap Engaged = {}
  /\ link' = [link EXCEPT ![a] = [Idle EXCEPT !.pc = "asked", !.to = b, !.mine = key[a],
                                              !.mycert = cert[a]]]
  /\ UNCHANGED <<key, cert, served, pin, last>>

\* The answer's key is adopted if it differs from the one sent.
LearnKey(a) ==
  /\ link[a].pc = "answered"
  /\ key' = IF link[a].answer # link[a].mine
            THEN [key EXCEPT ![a] = link[a].answer] ELSE key
  /\ link' = [link EXCEPT ![a].pc = "learned"]
  /\ UNCHANGED <<cert, served, pin, last, links>>

\* The application pins the fingerprint it was shown, or its user declines.
Pin(a) ==
  LET b == link[a].to
  IN  /\ link[a].pc = "learned"
      /\ \/ /\ pin' = [pin EXCEPT ![a][b] = link[a].shown]
            /\ last' = [last EXCEPT ![a] = b, ![b] = a]
         \/ UNCHANGED <<pin, last>>
      /\ link' = [link EXCEPT ![a] = Idle]
      /\ UNCHANGED <<key, cert, served, links>>

\* The connection breaks.  A listener at work does not notice before it answers;
\* the caller tries again after that.
Lose(a) ==
  /\ link[a].pc \in {"asked", "accepted", "approved", "adopted", "answered"} /\ ~link[a].gone
  /\ link' = [link EXCEPT ![a] = IF link[a].pc \in {"asked", "answered"} THEN Idle
                                  ELSE [link[a] EXCEPT !.gone = TRUE]]
  /\ UNCHANGED <<key, cert, served, pin, last, links>>

-----------------------------------------------------------------------------
(* The listener's thread for that connection.                              *)

\* handle_connection reads the app key before the request arrives.
Accept(a) ==
  LET b == link[a].to
  IN  /\ link[a].pc = "asked"
      /\ link' = [link EXCEPT ![a].pc = "accepted", ![a].theirs = key[b],
                              ![a].shown = served[b]]
      /\ UNCHANGED <<key, cert, served, pin, last, links>>

\* The user confirms and the handler pins the caller.
Approve(a) ==
  LET b == link[a].to
  IN  /\ link[a].pc = "accepted"
      /\ pin' = [pin EXCEPT ![b][a] = link[a].mycert]
      /\ last' = [last EXCEPT ![b] = 0]
      /\ link' = [link EXCEPT ![a].pc = "approved"]
      /\ UNCHANGED <<key, cert, served, links>>

\* Legacy links are off, another app, a wrong pairing secret, or the user says no.
Reject(a) ==
  /\ link[a].pc = "accepted"
  /\ link' = [link EXCEPT ![a] = Idle]
  /\ UNCHANGED <<key, cert, served, pin, last, links>>

\* set_app_key if the request's key is not the one read at the start.
Adopt(a) ==
  /\ link[a].pc = "approved"
  /\ key' = IF link[a].mine # link[a].theirs
            THEN [key EXCEPT ![link[a].to] = link[a].mine] ELSE key
  /\ link' = [link EXCEPT ![a].pc = "adopted"]
  /\ UNCHANGED <<cert, served, pin, last, links>>

\* A mutant: the answer is the key read at the start.
RespondStale(a) ==
  /\ link[a].pc = "adopted"
  /\ link' = [link EXCEPT ![a] = IF link[a].gone THEN Idle
       ELSE [link[a] EXCEPT !.pc = "answered", !.answer = link[a].theirs]]
  /\ UNCHANGED <<key, cert, served, pin, last, links>>

\* The answer carries the key the handler has by now.
Respond(a) ==
  /\ link[a].pc = "adopted"
  /\ link' = [link EXCEPT ![a] = IF link[a].gone THEN Idle
       ELSE [link[a] EXCEPT !.pc = "answered", !.answer = key[link[a].to]]]
  /\ UNCHANGED <<key, cert, served, pin, last, links>>

-----------------------------------------------------------------------------
(* Users.                                                                  *)

Unlink(a, b) ==
  /\ pin[a][b] # 0 /\ (Overlap \/ a \notin Engaged)
  /\ pin' = [pin EXCEPT ![a][b] = 0]
  /\ last' = [last EXCEPT ![a] = 0]
  /\ UNCHANGED <<key, cert, served, link, links>>

\* Device keys are replaced; the listener presents the old certificate until it
\* is started again.
Regenerate(d) ==
  /\ cert[d] < MaxCert /\ (Overlap \/ d \notin Engaged)
  /\ cert' = [cert EXCEPT ![d] = @ + 1]
  /\ last' = [last EXCEPT ![d] = 0]
  /\ UNCHANGED <<key, served, pin, link, links>>

Restart(d) ==
  /\ served[d] # cert[d] /\ (Overlap \/ d \notin Engaged)
  /\ served' = [served EXCEPT ![d] = cert[d]]
  /\ last' = [last EXCEPT ![d] = 0]
  /\ UNCHANGED <<key, cert, pin, link, links>>

Next ==
  \/ \E a, b \in Device : RequestLink(a, b) \/ Unlink(a, b)
  \/ \E a \in Device :
       \/ Accept(a) \/ Approve(a) \/ Reject(a) \/ Adopt(a) \/ Respond(a)
       \/ LearnKey(a) \/ Pin(a) \/ Lose(a) \/ Regenerate(a) \/ Restart(a)

Spec == Init /\ [][Next]_vars

-----------------------------------------------------------------------------
(* Properties.                                                             *)

\* The state is well typed, and a key is always some device's first key.
TypeOK ==
  /\ key \in [Device -> Device]
  /\ cert \in [Device -> Nat] /\ served \in [Device -> Nat]
  /\ pin \in [Device -> [Device -> Nat]]
  /\ link \in [Device -> LinkState]
  /\ \A a \in Device : link[a].pc # "idle" => link[a].to \in Device
  /\ last \in [Device -> Device \cup {0}]
  /\ links \in 0 .. MaxLinks

\* PinnedServerVerifier: the certificate b's listener presents is the pinned one.
ClientAccepts(a, b) == pin[a][b] = served[b]

\* handle_connection: the certificate that came with a's hello is allowed.
ListenerAccepts(a, b) == pin[b][a] = cert[a]

\* run_sync: a connects to b, both accept, and one key opens what is sent.
CanSync(a, b) == ClientAccepts(a, b) /\ ListenerAccepts(a, b) /\ key[a] = key[b]

\* SECURITY.md "the newest linking wins": two devices whose latest link was with
\* each other, and that are not linking now, have one app key.
NewestWins ==
  \A a, b \in Device \ Engaged :
    a # b /\ last[a] = b /\ last[b] = a => key[a] = key[b]

\* Whatever breaks or is declined, two devices that linked last with each other,
\* kept the certificates they did so with and serve with them, can sync, provided
\* no two of these happen at once.
LinkedCanSync ==
  \A a, b \in Device \ Engaged :
    a # b /\ last[a] = b /\ last[b] = a /\ served[a] = cert[a] /\ served[b] = cert[b] =>
      CanSync(a, b)
=============================================================================
