---------------------------- MODULE Organizations ----------------------------
(***************************************************************************)
(* domains/org: organisations, memberships and invitations in PostgreSQL,  *)
(* and the requests that create, invite, accept and change roles.  A       *)
(* request reads the clock and checks its input, then runs one READ        *)
(* COMMITTED transaction.  Its statements interleave with those of other   *)
(* requests: SELECT ... FOR UPDATE waits for the row and keeps it to the   *)
(* end of the transaction, SELECT EXISTS and the unique indexes see what   *)
(* has committed.  The last write and the commit are one action, for no    *)
(* statement that waits lies between them.                                 *)
(*                                                                         *)
(* A membership row is one entry of role, so the unique index over         *)
(* organisation and principal is in the type.                              *)
(***************************************************************************)
EXTENDS Integers, FiniteSets

CONSTANTS
    Principals, Invitations, Requests,
    Orgs,         \* organisation ids, which are ordered
    NoId,
    Ops,          \* the commands that requests may be
    Ttl,          \* the lifetime of an invitation: seven days
    MaxTime       \* bound: the clock stops here

ASSUME OrgAssumption ==
    /\ Orgs \subseteq Nat
    /\ Ttl \in Nat \ {0} /\ MaxTime \in Nat
    /\ NoId \notin Principals \cup Invitations \cup Orgs

Roles == {"owner", "admin", "member"}
Invitable == {"admin", "member"}
Statuses == {"none", "pending", "accepted", "revoked"}

VARIABLES
    created,      \* created[o]: when o was created, -1 if it was not
    role,         \* role[o][p]: the role of p in o, or "none"
    invitation,   \* the invitation rows
    active,       \* the principals that identity reports as eligible
    tx,           \* what each request is doing
    reply,        \* the outcome of the last command of each request
    clock         \* the wall clock

tables == <<created, role, invitation>>
vars == <<tables, active, tx, reply, clock>>

Invitation(o, inviter, invitee, as, status, at) ==
    [org |-> o, inviter |-> inviter, invitee |-> invitee, role |-> as,
     status |-> status, created |-> at, expires |-> at + Ttl, resolved |-> -1]

NoInvitation == Invitation(NoId, NoId, NoId, "member", "none", 0)

\* actor is who asks; subject is the owner to be, the invitee or the target.
Command(op, stage, o, actor, subject, as, id) ==
    [op |-> op, stage |-> stage, now |-> clock, org |-> o, actor |-> actor,
     subject |-> subject, role |-> as, id |-> id]

Idle == [op |-> "none", stage |-> "idle", now |-> 0, org |-> NoId, actor |-> NoId,
         subject |-> NoId, role |-> "member", id |-> NoId]

Init ==
    /\ created = [o \in Orgs |-> -1]
    /\ role = [o \in Orgs |-> [p \in Principals |-> "none"]]
    /\ invitation = [i \in Invitations |-> NoInvitation]
    /\ active = Principals
    /\ tx = [r \in Requests |-> Idle]
    /\ reply = [r \in Requests |-> "none"]
    /\ clock = 0

IsMember(o, p) == role[o][p] # "none"

(* Invitation::restore accepts an invitation.                              *)
ValidInvitation(i) ==
    /\ i.inviter # i.invitee /\ i.role \in Invitable
    /\ i.created >= 0 /\ i.expires > i.created
    /\ i.status = "pending" <=> i.resolved = -1
    /\ i.status # "pending" => i.resolved >= i.created

-----------------------------------------------------------------------------
(* Row locks.  Holds is what the transaction of r has locked, Wants the    *)
(* row its next statement locks; a row that is not there locks nothing.    *)
HoldsActors(r) ==
    IF tx[r].op \in {"invite", "change"} /\ tx[r].stage \in {"check", "insert", "target"}
    THEN {<<tx[r].org, tx[r].actor>>} ELSE {}

HoldsInvitations(r) ==
    IF tx[r].op = "accept" /\ tx[r].stage \in {"check", "insert"}
    THEN {<<tx[r].id>>} ELSE {}

Holds(r) == HoldsActors(r) \cup HoldsInvitations(r)

MembershipRow(o, p) == IF IsMember(o, p) THEN {<<o, p>>} ELSE {}

Wants(r) ==
    CASE tx[r].stage = "actor" -> MembershipRow(tx[r].org, tx[r].actor)
      [] tx[r].stage = "target" -> MembershipRow(tx[r].org, tx[r].subject)
      [] tx[r].stage = "invitation" -> {<<tx[r].id>>}
      [] OTHER -> {}

WaitsFor(r, q) == q # r /\ Wants(r) \cap Holds(q) # {}

Granted(r) == \A q \in Requests : ~WaitsFor(r, q)

(* Mutant: waits without looking for a cycle.                              *)
NeverDeadlocked(r) == FALSE

(* r is on a cycle of the waits-for graph.                                 *)
Deadlocked(r) ==
    \E knot \in SUBSET Requests :
        /\ r \in knot
        /\ \A q \in knot : /\ \E p \in knot : WaitsFor(q, p)
                           /\ \E p \in knot : WaitsFor(p, q)

-----------------------------------------------------------------------------
Start(r, command) ==
    /\ tx[r] = Idle
    /\ command.op \in Ops
    /\ tx' = [tx EXCEPT ![r] = command]
    /\ reply' = [reply EXCEPT ![r] = "none"]
    /\ UNCHANGED <<tables, active, clock>>

Advance(r, stage) ==
    /\ tx' = [tx EXCEPT ![r].stage = stage]
    /\ UNCHANGED <<tables, reply, active, clock>>

(* The transaction ends and its locks are released.                        *)
Finish(r, outcome) ==
    /\ tx' = [tx EXCEPT ![r] = Idle]
    /\ reply' = [reply EXCEPT ![r] = outcome]
    /\ UNCHANGED <<active, clock>>

(* A commit that wrote may also be reported as uncertain.                  *)
Commit(r, outcome) == \E report \in {outcome, "uncertain"} : Finish(r, report)

Refuse(r, outcome) == Finish(r, outcome) /\ UNCHANGED tables

-----------------------------------------------------------------------------
(* CreateOrganization: eligibility is read before the transaction; the     *)
(* organisation and its owner are inserted together.                       *)
StartCreate(r, o, p) ==
    /\ p \in active
    /\ Start(r, Command("create", "insert", o, p, p, "owner", NoId))

InsertOrganization(r) ==
    /\ tx[r].op = "create"
    /\ IF created[tx[r].org] # -1
       THEN Refuse(r, "organization_exists")
       ELSE /\ created' = [created EXCEPT ![tx[r].org] = tx[r].now]
            /\ role' = [role EXCEPT ![tx[r].org][tx[r].subject] = "owner"]
            /\ Commit(r, "created")
            /\ UNCHANGED invitation

-----------------------------------------------------------------------------
(* membership_role: the actor's membership is read and locked first.  An   *)
(* owner may grant admin or member, an admin only member.                  *)
Authorized(actor, as) ==
    actor \in {"owner", "admin"} /\ ~(actor = "admin" /\ as = "admin")

LockActor(r) ==
    /\ tx[r].stage = "actor"
    /\ Granted(r)
    /\ IF Authorized(role[tx[r].org][tx[r].actor], tx[r].role)
       THEN Advance(r, IF tx[r].op = "invite" THEN "check" ELSE "target")
       ELSE Refuse(r, "membership_forbidden")

StartInvite(r, o, actor, p, as, i) ==
    /\ actor # p /\ p \in active
    /\ invitation[i] = NoInvitation
    /\ \A q \in Requests : tx[q].op = "invite" => tx[q].id # i
    /\ Start(r, Command("invite", "actor", o, actor, p, as, i))

(* SELECT EXISTS locks nothing.                                            *)
CheckMember(r) ==
    /\ tx[r].stage = "check"
    /\ IF IsMember(tx[r].org, tx[r].subject)
       THEN Refuse(r, "member_exists")
       ELSE Advance(r, "insert")

Pending(o, p) ==
    {i \in Invitations : /\ invitation[i].org = o /\ invitation[i].invitee = p
                         /\ invitation[i].status = "pending"}

Conflicts(r) == Pending(tx[r].org, tx[r].subject) # {}

InsertInvitation(r) ==
    /\ tx[r].op = "invite" /\ tx[r].stage = "insert"
    /\ IF Conflicts(r)
       THEN Refuse(r, "invitation_exists")
       ELSE /\ invitation' = [invitation EXCEPT ![tx[r].id] =
                   Invitation(tx[r].org, tx[r].actor, tx[r].subject, tx[r].role,
                              "pending", tx[r].now)]
            /\ Commit(r, "invited")
            /\ UNCHANGED <<created, role>>

-----------------------------------------------------------------------------
(* AcceptInvitation: the row of the invitation is locked, checked in the   *)
(* order of the code, and an expired one is revoked.                       *)
StartAccept(r, p, i) ==
    Start(r, Command("accept", "invitation", NoId, p, p, "member", i))

Resolved(i, status, now) == [invitation[i] EXCEPT !.status = status, !.resolved = now]

LockInvitation(r) ==
    LET i == invitation[tx[r].id]
    IN  /\ tx[r].stage = "invitation"
        /\ Granted(r)
        /\ \/ i.status = "none" /\ Refuse(r, "invitation_not_found")
           \/ /\ i.status # "none" /\ i.invitee # tx[r].subject
              /\ Refuse(r, "invitation_principal_mismatch")
           \/ /\ i.invitee = tx[r].subject /\ i.status = "accepted"
              /\ Refuse(r, "invitation_already_accepted")
           \/ /\ i.invitee = tx[r].subject /\ i.status = "revoked"
              /\ Refuse(r, "invitation_expired")
           \/ /\ i.invitee = tx[r].subject /\ i.status = "pending"
              /\ tx[r].now >= i.expires
              /\ invitation' = [invitation EXCEPT ![tx[r].id] =
                                    Resolved(tx[r].id, "revoked", tx[r].now)]
              /\ Commit(r, "invitation_expired")
              /\ UNCHANGED <<created, role>>
           \/ /\ i.invitee = tx[r].subject /\ i.status = "pending"
              /\ tx[r].now < i.expires
              /\ tx' = [tx EXCEPT ![r].stage = "check", ![r].org = i.org]
              /\ UNCHANGED <<tables, reply, active, clock>>

(* ON CONFLICT DO NOTHING, then Invitation::accept, which a clock before   *)
(* the invitation's creation fails.                                        *)
InsertMembership(r) ==
    LET i == invitation[tx[r].id]
    IN  /\ tx[r].op = "accept" /\ tx[r].stage = "insert"
        /\ IF IsMember(i.org, i.invitee) \/ tx[r].now < i.created
           THEN Refuse(r, IF IsMember(i.org, i.invitee) THEN "member_exists" ELSE "invalid_record")
           ELSE /\ role' = [role EXCEPT ![i.org][i.invitee] = i.role]
                /\ invitation' = [invitation EXCEPT ![tx[r].id] =
                                      Resolved(tx[r].id, "accepted", tx[r].now)]
                /\ Commit(r, "accepted")
                /\ UNCHANGED created

-----------------------------------------------------------------------------
(* ChangeMembershipRole: the target's row is locked while the actor's is   *)
(* held.                                                                   *)
StartChange(r, o, actor, p, as) ==
    /\ actor # p
    /\ Start(r, Command("change", "actor", o, actor, p, as, NoId))

(* Mutant: an owner may be changed.                                        *)
Unprotected(as) == FALSE

(* RoleChangeOutcome::OwnerTarget.                                         *)
IsProtected(as) == as = "owner"

LockTarget(r) ==
    LET target == role[tx[r].org][tx[r].subject]
    IN  /\ tx[r].stage = "target"
        /\ Granted(r)
        /\ \/ target = "none" /\ Refuse(r, "membership_not_found")
           \/ IsProtected(target) /\ Refuse(r, "role_transition_invalid")
           \/ ~IsProtected(target) /\ target = tx[r].role /\ Refuse(r, "role_unchanged")
           \/ /\ ~IsProtected(target) /\ target \notin {"none", tx[r].role}
              /\ role' = [role EXCEPT ![tx[r].org][tx[r].subject] = tx[r].role]
              /\ Commit(r, "changed")
              /\ UNCHANGED <<created, invitation>>

-----------------------------------------------------------------------------
(* A timeout, a failed statement or a failed commit rolls back.            *)
GiveUp(r) == tx[r] # Idle /\ Refuse(r, "failed")

(* PostgreSQL aborts a transaction of a deadlock.                          *)
AbortDeadlock(r) == Deadlocked(r) /\ Refuse(r, "failed")

(* Identity suspends or reinstates a principal.                            *)
Eligibility(p) ==
    /\ active' = (active \ {p}) \cup ({p} \ active)
    /\ UNCHANGED <<tables, tx, reply, clock>>

Tick == clock < MaxTime /\ clock' = clock + 1 /\ UNCHANGED <<tables, active, tx, reply>>

Begin(r) ==
    \/ \E o \in Orgs, p \in Principals : StartCreate(r, o, p)
    \/ \E i \in Invitations, p \in Principals : StartAccept(r, p, i)
    \/ \E o \in Orgs, a, p \in Principals, as \in Invitable :
          \/ StartChange(r, o, a, p, as)
          \/ \E i \in Invitations : StartInvite(r, o, a, p, as, i)

Step(r) == \/ InsertOrganization(r) \/ LockActor(r) \/ CheckMember(r)
           \/ InsertInvitation(r) \/ LockInvitation(r) \/ InsertMembership(r)
           \/ LockTarget(r)

Next ==
    \/ \E r \in Requests : Begin(r) \/ Step(r) \/ GiveUp(r) \/ AbortDeadlock(r)
    \/ \E p \in Principals : Eligibility(p)
    \/ Tick

Spec == Init /\ [][Next]_vars

(* A statement that can run does, PostgreSQL queues those that wait for a  *)
(* row, hence SF, and looks for deadlocks.                                 *)
FairSpec ==
    Spec /\ \A r \in Requests : /\ SF_vars(Step(r))
                                /\ WF_vars(AbortDeadlock(r))

-----------------------------------------------------------------------------
(* list_for_principal: the newest organisations of p, ids break ties.      *)
Mine(p) == {o \in Orgs : created[o] # -1 /\ IsMember(o, p)}

Newer(o, q) == created[o] > created[q] \/ (created[o] = created[q] /\ o > q)

Page(p, limit) == {o \in Mine(p) : Cardinality({q \in Mine(p) : Newer(q, o)}) < limit}

-----------------------------------------------------------------------------
(* PROPERTIES                                                              *)

(* Rows satisfy the domain's rules and the schema's checks.                *)
TypeOK ==
    /\ created \in [Orgs -> -1..MaxTime]
    /\ role \in [Orgs -> [Principals -> Roles \cup {"none"}]]
    /\ \A i \in Invitations : invitation[i] # NoInvitation => ValidInvitation(invitation[i])
    /\ active \subseteq Principals /\ clock \in 0..MaxTime
    /\ \A r \in Requests : tx[r] = Idle \/ tx[r].op \in Ops

(* However role changes and acceptances interleave, an organisation has    *)
(* exactly one owner from its creation on, and nobody belongs to one that  *)
(* was not created (create_organization, OwnerTarget).                     *)
OneOwner ==
    \A o \in Orgs :
        Cardinality({p \in Principals : role[o][p] = "owner"})
            = (IF created[o] = -1 THEN 0 ELSE 1)

(* n2f_org_invitations_pending_target: two invitations of one principal to *)
(* one organisation are never pending together, whoever creates them.      *)
OnePending == \A o \in Orgs, p \in Principals : Cardinality(Pending(o, p)) <= 1

(* At every limit a page has as many organisations as there are, up to the *)
(* limit: the order of list_for_principal leaves no ties.                  *)
PagesAreFull ==
    \A p \in Principals, limit \in 1..3 :
        Cardinality(Page(p, limit)) =
            (IF Cardinality(Mine(p)) < limit THEN Cardinality(Mine(p)) ELSE limit)

(* The authority checked at the start of a transaction still holds when it *)
(* commits: a role is changed, or an invitation created, only while its    *)
(* actor has the role that permits it, although other requests change      *)
(* roles at the same time (the lock of membership_role).                   *)
HasAuthority(o, as) ==
    \E r \in Requests : /\ tx[r].op \in {"invite", "change"} /\ tx'[r] = Idle
                        /\ tx[r].org = o /\ tx[r].role = as
                        /\ Authorized(role[o][tx[r].actor], as)

ActsWithAuthority ==
  /\ \A o \in Orgs, p \in Principals :
       (IsMember(o, p) /\ role'[o][p] # role[o][p]) => HasAuthority(o, role'[o][p])
  /\ \A i \in Invitations :
       (invitation[i] = NoInvitation /\ invitation'[i] # NoInvitation)
           => HasAuthority(invitation'[i].org, invitation'[i].role)

AuthorityAtCommit == [][ActsWithAuthority]_vars

(* Somebody becomes a member with the creation of the organisation or with *)
(* the acceptance of an invitation, at its role and inside its lifetime,   *)
(* and no acceptance is without a membership; an invitation that was       *)
(* accepted or revoked stays so, whatever retries follow                   *)
(* (accept_invitation, S08).                                               *)
Accepts(i, o, p) ==
    /\ invitation[i].status = "pending" /\ invitation'[i].status = "accepted"
    /\ invitation[i].org = o /\ invitation[i].invitee = p
    /\ invitation[i].created <= invitation'[i].resolved
    /\ invitation'[i].resolved < invitation[i].expires

GrantsMembership ==
  /\ \A o \in Orgs, p \in Principals :
       (~IsMember(o, p) /\ role'[o][p] # "none") =>
           \/ created[o] = -1 /\ role'[o][p] = "owner"
           \/ \E i \in Invitations : Accepts(i, o, p) /\ role'[o][p] = invitation[i].role
  /\ \A i \in Invitations :
       (invitation'[i].status = "accepted" /\ invitation[i].status # "accepted") =>
           ~IsMember(invitation[i].org, invitation[i].invitee)
  /\ \A i \in Invitations :
       invitation[i].status \in {"accepted", "revoked"} => invitation'[i] = invitation[i]

MembershipIsGranted == [][GrantsMembership]_vars

(* Every request ends, those that lock each other's rows too               *)
(* (change_membership_role under PostgreSQL's deadlock detection).         *)
RequestsEnd == \A r \in Requests : []<>(tx[r] = Idle)

(* What requests build one row at a time is an organisation: one owner, at *)
(* most one invitation for anybody, and pages of the list that miss none   *)
(* (create_organization, create_invitation, list_for_principal).           *)
OrganizationsAreSound == TypeOK /\ OneOwner /\ OnePending /\ PagesAreFull
=============================================================================
