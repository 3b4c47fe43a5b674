--------------------------- MODULE MCOrganizations ---------------------------
(* Organizations for TLC.  A behaviour takes one scene, which says which   *)
(* commands are sent and how many people, organisations and instants there *)
(* are; it restricts the callers only.                                     *)
EXTENDS Organizations, TLC

VARIABLE scene

Scene(ops, people, requests, orgs, time, eligibility) ==
    [ops |-> ops, people |-> people, requests |-> requests, orgs |-> orgs, time |-> time,
     eligibility |-> eligibility]

Scenes == {
    \* invitations: two for one person, expiry, clocks read out of order
    Scene({"create", "invite", "accept"}, 2, 2, 1, 1, FALSE),
    \* identity suspends people meanwhile
    Scene({"create", "invite", "accept"}, 2, 1, 1, 0, TRUE),
    \* owners and admins who change each other
    Scene({"create", "invite", "accept", "change"}, 3, 2, 1, 0, FALSE),
    \* lists of organisations, some created in the same instant
    Scene({"create"}, 1, 1, 3, 1, FALSE)}

People ==
    {p \in Principals :
        \/ \E o \in Orgs : IsMember(o, p)
        \/ \E i \in Invitations : p \in {invitation[i].inviter, invitation[i].invitee}
        \/ \E r \in Requests : p \in {tx[r].actor, tx[r].subject}}

Within ==
    /\ \A r \in Requests : tx[r].op \in scene.ops \cup {"none"}
    /\ Cardinality({r \in Requests : tx[r] # Idle}) <= scene.requests
    /\ Cardinality(People) <= scene.people
    /\ \A o \in Orgs : o > scene.orgs => \A r \in Requests : tx[r].org # o
    /\ clock <= scene.time
    /\ scene.eligibility \/ active = Principals

MCInit == Init /\ scene \in Scenes
MCNext == UNCHANGED scene /\ Next /\ Within'
MCSpec == MCInit /\ [][MCNext]_<<vars, scene>>

Symmetry == Permutations(Principals) \cup Permutations(Invitations)
              \cup Permutations(Requests)
=============================================================================
