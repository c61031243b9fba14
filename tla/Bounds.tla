------------------------------- MODULE Bounds -------------------------------
(***************************************************************************)
(* Bounds of the behaviours TLC explores, for the modules whose behaviours *)
(* keep to one of several Scopes; their fields are explained there.        *)
(***************************************************************************)
EXTENDS Integers

(* EngineSync *)
Pair(kind, clients, editors, crashes, losses, maxEdit) ==
  [kind |-> kind, clients |-> clients, editors |-> editors, crashes |-> crashes,
   losses |-> losses, maxEdit |-> maxEdit]

\* Two users edit once and twice while one device, or both, contact the other,
\* exchanges are lost and processes die.
EngineScopes ==
  {Pair("json", {1}, {1, 2}, 0, 2, 2), Pair("json", {1, 2}, {1, 2}, 0, 0, 1),
   Pair("json", {1}, {1, 2}, 1, 1, 2),
   Pair("watched", {1}, {1, 2}, 0, 0, 2), Pair("watched", {1}, {1, 2}, 1, 1, 1),
   Pair("logical", {1}, {1, 2}, 0, 2, 1), Pair("logical", {1}, {1, 2}, 2, 0, 1)}

\* One device refreshes with two others, one of which has an edit for it.
RefreshScopes == {Pair("json", {1}, {2}, 0, 0, 1)}

(* FfiEngine *)
Host(adopts, hasty, reopens, lists) ==
  [adopts |-> adopts, hasty |-> hasty, reopens |-> reopens, marks |-> 2, lists |-> lists]

FfiScopes ==
  {Host(FALSE, FALSE, 2, FALSE), Host(FALSE, TRUE, 2, FALSE), Host(TRUE, FALSE, 1, TRUE)}
\* A handle is created while a task of the one freed before still runs.
HastyScopes == {Host(FALSE, TRUE, 2, FALSE)}

(* CliFiles *)
Commands(ops, alone, kills, commands, events) ==
  [ops |-> ops, alone |-> alone, kills |-> kills, commands |-> commands, events |-> events]

\* One process at a time changes keys and files, killed anywhere ...
Serial == Commands({"select", "configure", "link", "refresh", "snapshot", "restore", "prune",
                    "rotate", "keys", "init"}, TRUE, TRUE, 5, 6)
\* ... or starts and stops the listener ...
Listening == Commands({"select", "approve", "refresh", "rotate", "listen", "stop"},
                      TRUE, TRUE, 5, 4)
\* ... or commands run beside a watch, which saves its copy of the configuration.
Watching == Commands({"select", "link", "unlink", "address", "secret", "watch"},
                     FALSE, FALSE, 4, 2)

CliScopes == {Serial, Listening, Watching}
WatchScopes == {Watching}

(* Companion *)
Manager(overlap, back, ops, failing) ==
  [overlap |-> overlap, back |-> back, ops |-> ops, faults |-> failing]

\* Commands one after the other, with faults and a clock that is set back: what
\* the manager guarantees.
SerialScopes == {Manager(FALSE, TRUE, 4, 2)}
\* A device command beside the manager's, nothing failing.
OverlapScopes == {Manager(TRUE, FALSE, 3, 0)}
(* RecordMerge *)
Policy(policy, strict, field, ids, last) ==
  [policy |-> policy, strict |-> strict, field |-> field, ids |-> ids, last |-> last]

\* Two records of a managed session, one logical record.
Loose == Policy("momentum", FALSE, "none", {1, 2}, 2)
MergeScopes == {Policy("records", TRUE, "none", {1, 2}, 2),
                Policy("momentum", TRUE, "none", {1, 2}, 2), Loose}
               \cup {Policy("fields", TRUE, "last", {1}, 3)}
               \cup {Policy("fields", TRUE, f, {1}, 2) : f \in {"list", "counter"}}
\* Two devices set an entry of a map.
MapScopes == {Policy("fields", TRUE, "map", {1}, 2)}

(* KeyStorage *)
Keys(alone, power, failing) == [alone |-> alone, power |-> power, faults |-> failing]

\* One process at a time, with faults; together; with a power failure.
KeyScopes == {Keys(TRUE, FALSE, 3), Keys(TRUE, TRUE, 2), Keys(FALSE, FALSE, 0)}

(* MappedTable *)
Table(sql, again, api, edits, losses) ==
  [sql |-> sql, again |-> again, api |-> api, edits |-> edits, losses |-> losses]

\* Both applications insert the row, and it is set and deleted in the state.
TableScopes == {Table({1, 2}, FALSE, {1}, 3, 1)}
\* The application updates its row.
RowScopes == {Table({1}, TRUE, {}, 2, 0)}
=============================================================================
