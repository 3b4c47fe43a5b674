----------------------------- MODULE MCIdentity -----------------------------
(* Identity for TLC.  All commands at once are too many: a behaviour takes *)
(* one of the scenes, which says which commands are sent and how far ids,  *)
(* versions and the clock go.  A scene restricts the callers only.         *)
EXTENDS Identity, TLC

VARIABLE scene

Scene(ops, s, ch, t, version, time) ==
  [ops |-> ops, sessions |-> s, challenges |-> ch, tickets |-> t,
   version |-> version, time |-> time]

Scenes == {
  \* a new password against logins, resets and sessions in flight
  Scene({"register", "login", "request_reset", "reset", "change", "logout_all"}, 1, 3, 0, 3, 1),
  \* a changed password that is used at once
  Scene({"register", "verify", "login", "request_reset", "change"}, 1, 2, 0, 3, 1),
  \* challenges that replace, expire and race their own use
  Scene({"register", "request_verification", "verify", "request_reset", "reset"}, 0, 3, 0, 2, 1),
  \* activity, idle and absolute deadlines
  Scene({"register", "verify", "login", "logout", "logout_all"}, 1, 1, 0, 2, 3),
  \* WebSocket tickets against both ways to end a session
  Scene({"register", "verify", "login", "logout_all", "ticket", "upgrade"}, 1, 1, 1, 2, 1),
  Scene({"register", "verify", "login", "logout", "ticket", "upgrade"}, 2, 1, 1, 2, 0)}

Within ==
  /\ \A r \in Requests : cmd[r].op \in scene.ops \cup {"none"}
  /\ Cardinality({s \in Sessions : sessions[s] # NoSession}) <= scene.sessions
  /\ Cardinality({ch \in Challenges : challenges[ch] # NoChallenge}) <= scene.challenges
  /\ Cardinality({t \in Tickets : tickets[t] # NoTicket}) <= scene.tickets
  /\ \/ scene.version = MaxVersion
     \/ account.version <= scene.version /\ account.epoch <= scene.version
  /\ clock <= scene.time

MCInit == Init /\ scene \in Scenes
MCNext == UNCHANGED scene /\ Next /\ Within'
MCSpec == MCInit /\ [][MCNext]_<<vars, scene>>

IdSymmetry == Permutations(Sessions) \cup Permutations(Challenges)
                \cup Permutations(Tickets) \cup Permutations(Requests)
=============================================================================
