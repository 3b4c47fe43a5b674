------------------------ MODULE OrganizationsProofs -------------------------
(***************************************************************************)
(* Proofs about Organizations, for any principals, organisations,          *)
(* invitations and requests, any lifetime of an invitation and any clock.  *)
(***************************************************************************)
EXTENDS Organizations, FiniteSetTheorems, WellFoundedInduction, TLAPS

(* What a command of each kind carries, from stage to stage.               *)
Commands ==
  [op : {"create", "invite", "accept", "change", "none"},
   stage : {"idle", "insert", "actor", "check", "target", "invitation"},
   now : 0..MaxTime, org : Orgs \cup {NoId}, actor : Principals \cup {NoId},
   subject : Principals \cup {NoId}, role : Roles, id : Invitations \cup {NoId}]
Creates(t) == /\ t.op = "create" /\ t.stage = "insert" /\ t.org \in Orgs
              /\ t.subject \in Principals
Acts(t) == /\ t.org \in Orgs /\ t.actor \in Principals /\ t.subject \in Principals
           /\ t.actor # t.subject /\ t.role \in Invitable
Invites(t) == /\ t.op = "invite" /\ t.stage \in {"actor", "check", "insert"} /\ Acts(t)
              /\ t.id \in Invitations
Accepting(t) == /\ t.op = "accept" /\ t.stage \in {"invitation", "check", "insert"}
                /\ t.subject \in Principals /\ t.id \in Invitations
Changes(t) == t.op = "change" /\ t.stage \in {"actor", "target"} /\ Acts(t)
Shaped(t) == t = Idle \/ (t.op \in Ops /\ (Creates(t) \/ Invites(t) \/ Accepting(t) \/ Changes(t)))
CommandsAreShaped ==
  /\ tx \in [Requests -> Commands]
  /\ \A r \in Requests : Shaped(tx[r])

(* The rows, one at a time.                                                *)
Rows ==
  [org : Orgs \cup {NoId}, inviter : Principals \cup {NoId}, invitee : Principals \cup {NoId},
   role : Invitable, status : Statuses, created : Int, expires : Int, resolved : Int]
Written(i) == /\ i.status # "none" /\ ValidInvitation(i)
              /\ i.org \in Orgs /\ i.inviter \in Principals /\ i.invitee \in Principals
RowsAreValid ==
  /\ created \in [Orgs -> -1..MaxTime] /\ role \in [Orgs -> [Principals -> Roles \cup {"none"}]]
  /\ invitation \in [Invitations -> Rows]
  /\ \A i \in Invitations : invitation[i] = NoInvitation \/ Written(invitation[i])
  /\ active \subseteq Principals /\ clock \in 0..MaxTime

(* The rows, together.                                                     *)
OwnersAreAlone ==
  /\ \A o \in Orgs : \/ created[o] = -1 /\ \A p \in Principals : role[o][p] = "none"
                     \/ /\ created[o] # -1
                        /\ \E p \in Principals : \A q \in Principals : role[o][q] = "owner" <=> q = p
  /\ IsFiniteSet({o \in Orgs : created[o] # -1})
InvitationsAreApart ==
  /\ \A i \in Invitations : invitation[i] # NoInvitation => created[invitation[i].org] # -1
  /\ \A i, j \in Invitations :
        (/\ invitation[i].status = "pending" /\ invitation[j].status = "pending"
         /\ invitation[i].org = invitation[j].org /\ invitation[i].invitee = invitation[j].invitee)
        => i = j

(* What a request knows because of the rows it has locked.                 *)
Trusted(t) == t.op \in {"invite", "change"} /\ t.stage \in {"check", "insert", "target"}
Holding(t) == t.op = "accept" /\ t.stage \in {"check", "insert"}
ActorsKeepTheirRole ==
  \A r \in Requests : Trusted(tx[r]) => Authorized(role[tx[r].org][tx[r].actor], tx[r].role)
IdsAreFresh ==
  \A r \in Requests : tx[r].op = "invite" =>
    /\ invitation[tx[r].id] = NoInvitation
    /\ \A q \in Requests : tx[q].op = "invite" /\ tx[q].id = tx[r].id => q = r
AcceptedArePending ==
  \A r \in Requests : Holding(tx[r]) =>
    /\ invitation[tx[r].id].status = "pending" /\ invitation[tx[r].id].org = tx[r].org
    /\ invitation[tx[r].id].invitee = tx[r].subject /\ tx[r].now < invitation[tx[r].id].expires
    /\ \A q \in Requests : Holding(tx[q]) /\ tx[q].id = tx[r].id => q = r

OrgInv == /\ CommandsAreShaped /\ RowsAreValid /\ OwnersAreAlone /\ InvitationsAreApart
          /\ ActorsKeepTheirRole /\ IdsAreFresh /\ AcceptedArePending
LEMMA IdleIsNothing ==
  /\ Idle \in Commands /\ Shaped(Idle) /\ Idle.op = "none" /\ ~Trusted(Idle) /\ ~Holding(Idle)
BY OrgAssumption DEF Idle, Commands, Shaped, Trusted, Holding, Roles

LEMMA NoInvitationIsNothing ==
  NoInvitation \in Rows /\ NoInvitation.status = "none"
BY OrgAssumption DEF NoInvitation, Invitation, Rows, Statuses, Invitable

(* One request changes at a time.                                          *)
LEMMA OneRequest ==
  ASSUME CommandsAreShaped, NEW r \in Requests, NEW t \in Commands, Shaped(t),
         tx' = [tx EXCEPT ![r] = t]
  PROVE  /\ CommandsAreShaped' /\ tx'[r] = t
         /\ \A q \in Requests : q # r => tx'[q] = tx[q]
BY DEF CommandsAreShaped

(* A transaction that ends leaves nothing held.                            *)
LEMMA Ends ==
  ASSUME CommandsAreShaped, NEW r \in Requests, tx' = [tx EXCEPT ![r] = Idle]
  PROVE  /\ CommandsAreShaped' /\ tx'[r] = Idle
         /\ tx'[r].op = "none" /\ ~Trusted(tx'[r]) /\ ~Holding(tx'[r])
         /\ \A q \in Requests : q # r => tx'[q] = tx[q]
BY IdleIsNothing, OneRequest

LEMMA RefuseKeeps ==
  ASSUME OrgInv, NEW r \in Requests, NEW outcome, Refuse(r, outcome)
  PROVE  OrgInv'
<1>1. /\ tx' = [tx EXCEPT ![r] = Idle]
      /\ UNCHANGED <<created, role, invitation, active, clock>>
  BY DEF Refuse, Finish, tables
<1>2. /\ CommandsAreShaped' /\ tx'[r].op = "none" /\ ~Trusted(tx'[r]) /\ ~Holding(tx'[r])
      /\ \A q \in Requests : q # r => tx'[q] = tx[q]
  BY <1>1, Ends DEF OrgInv
<1>3. RowsAreValid' /\ OwnersAreAlone' /\ InvitationsAreApart'
  BY <1>1 DEF OrgInv, RowsAreValid, OwnersAreAlone, InvitationsAreApart
<1>4. ActorsKeepTheirRole'
  BY <1>1, <1>2 DEF OrgInv, ActorsKeepTheirRole
<1>5. IdsAreFresh' /\ AcceptedArePending'
  BY <1>1, <1>2 DEF OrgInv, IdsAreFresh, AcceptedArePending
<1>. QED  BY <1>2, <1>3, <1>4, <1>5 DEF OrgInv

LEMMA OrgInit ==
  ASSUME Init
  PROVE  OrgInv
<1>1. CommandsAreShaped
  BY IdleIsNothing DEF Init, CommandsAreShaped
<1>2. RowsAreValid
  BY OrgAssumption, NoInvitationIsNothing DEF Init, RowsAreValid
<1>3. {o \in Orgs : created[o] # -1} = {}
  BY DEF Init
<1>4. OwnersAreAlone
  BY <1>3, FS_EmptySet DEF Init, OwnersAreAlone
<1>5. InvitationsAreApart
  BY NoInvitationIsNothing DEF Init, InvitationsAreApart
<1>6. ActorsKeepTheirRole /\ IdsAreFresh /\ AcceptedArePending
  BY IdleIsNothing DEF Init, ActorsKeepTheirRole, IdsAreFresh, AcceptedArePending
<1>. QED  BY <1>1, <1>2, <1>4, <1>5, <1>6 DEF OrgInv

(* A command begins with nothing locked.                                   *)
LEMMA BeginKeeps ==
  ASSUME OrgInv, NEW r \in Requests, Begin(r)
  PROVE  OrgInv'
<1>1. ASSUME NEW t \in Commands, Start(r, t), Shaped(t), ~Trusted(t), ~Holding(t),
             t.op = "invite" => /\ invitation[t.id] = NoInvitation
                                /\ \A q \in Requests : tx[q].op = "invite" => tx[q].id # t.id
      PROVE  OrgInv'
  <2>1. tx' = [tx EXCEPT ![r] = t] /\ UNCHANGED <<created, role, invitation, active, clock>>
    BY <1>1 DEF Start, tables
  <2>2. /\ CommandsAreShaped' /\ tx'[r] = t
        /\ \A q \in Requests : q # r => tx'[q] = tx[q]
    BY <1>1, <2>1, OneRequest DEF OrgInv
  <2>3. RowsAreValid' /\ OwnersAreAlone' /\ InvitationsAreApart'
    BY <2>1 DEF OrgInv, RowsAreValid, OwnersAreAlone, InvitationsAreApart
  <2>4. ActorsKeepTheirRole'
    BY <1>1, <2>1, <2>2 DEF OrgInv, ActorsKeepTheirRole
  <2>5. IdsAreFresh'
    BY <1>1, <2>1, <2>2 DEF OrgInv, IdsAreFresh
  <2>6. AcceptedArePending'
    BY <1>1, <2>1, <2>2 DEF OrgInv, AcceptedArePending
  <2>. QED  BY <2>2, <2>3, <2>4, <2>5, <2>6 DEF OrgInv
<1>2. clock \in 0..MaxTime /\ active \subseteq Principals
  BY DEF OrgInv, RowsAreValid
<1>3. ASSUME NEW o \in Orgs, NEW q \in Principals, StartCreate(r, o, q)
      PROVE  OrgInv'
  <2>. DEFINE t == Command("create", "insert", o, q, q, "owner", NoId)
  <2>1. t \in Commands /\ Shaped(t) /\ ~Trusted(t) /\ ~Holding(t) /\ t.op = "create"
    BY <1>2, <1>3 DEF Command, Commands, Shaped, Creates, Trusted, Holding, Roles, StartCreate, Start
  <2>. QED  BY <1>1, <1>3, <2>1 DEF StartCreate
<1>4. ASSUME NEW i \in Invitations, NEW q \in Principals, StartAccept(r, q, i)
      PROVE  OrgInv'
  <2>. DEFINE t == Command("accept", "invitation", NoId, q, q, "member", i)
  <2>1. t \in Commands /\ Shaped(t) /\ ~Trusted(t) /\ ~Holding(t) /\ t.op = "accept"
    BY <1>2, <1>4 DEF Command, Commands, Shaped, Accepting, Trusted, Holding, Roles, StartAccept, Start
  <2>. QED  BY <1>1, <1>4, <2>1 DEF StartAccept
<1>5. ASSUME NEW o \in Orgs, NEW a \in Principals, NEW q \in Principals, NEW as \in Invitable,
             StartChange(r, o, a, q, as)
      PROVE  OrgInv'
  <2>. DEFINE t == Command("change", "actor", o, a, q, as, NoId)
  <2>1. t \in Commands /\ Shaped(t) /\ ~Trusted(t) /\ ~Holding(t) /\ t.op = "change"
    BY <1>2, <1>5 DEF Command, Commands, Shaped, Changes, Acts, Trusted, Holding, Roles, Invitable,
       StartChange, Start
  <2>. QED  BY <1>1, <1>5, <2>1 DEF StartChange
<1>6. ASSUME NEW o \in Orgs, NEW a \in Principals, NEW q \in Principals, NEW as \in Invitable,
             NEW i \in Invitations, StartInvite(r, o, a, q, as, i)
      PROVE  OrgInv'
  <2>. DEFINE t == Command("invite", "actor", o, a, q, as, i)
  <2>1. /\ t \in Commands /\ Shaped(t) /\ ~Trusted(t) /\ ~Holding(t) /\ t.id = i
    BY <1>2, <1>6 DEF Command, Commands, Shaped, Invites, Acts, Trusted, Holding, Roles, Invitable,
       StartInvite, Start
  <2>. QED  BY <1>1, <1>6, <2>1 DEF StartInvite
<1>. QED  BY <1>3, <1>4, <1>5, <1>6 DEF Begin

(* A transaction goes on to a stage of its command.                        *)
LEMMA GoesOn ==
  ASSUME OrgInv, NEW r \in Requests, NEW stage, NEW o, NEW t,
         t = [tx[r] EXCEPT !.stage = stage, !.org = o], tx' = [tx EXCEPT ![r] = t], Shaped(t),
         stage \in {"check", "insert", "target"}, o \in Orgs, tx[r] # Idle,
         UNCHANGED <<created, role, invitation, active, clock>>,
         Trusted(t) => Authorized(role[o][tx[r].actor], tx[r].role),
         Holding(t) => /\ invitation[tx[r].id].status = "pending" /\ invitation[tx[r].id].org = o
                       /\ invitation[tx[r].id].invitee = tx[r].subject
                       /\ tx[r].now < invitation[tx[r].id].expires
                       /\ \A q \in Requests : q # r /\ Holding(tx[q]) => tx[q].id # tx[r].id
  PROVE  OrgInv'
<1>1. tx[r] \in Commands
  BY DEF OrgInv, CommandsAreShaped
<1>2. /\ t \in Commands /\ t.stage = stage /\ t.org = o /\ t.op = tx[r].op /\ t.now = tx[r].now
      /\ t.actor = tx[r].actor /\ t.subject = tx[r].subject /\ t.role = tx[r].role /\ t.id = tx[r].id
  BY <1>1 DEF Commands
<1>3. /\ CommandsAreShaped' /\ tx'[r] = t
      /\ \A q \in Requests : q # r => tx'[q] = tx[q]
  BY <1>2, OneRequest DEF OrgInv
<1>4. RowsAreValid' /\ OwnersAreAlone' /\ InvitationsAreApart'
  BY DEF OrgInv, RowsAreValid, OwnersAreAlone, InvitationsAreApart
<1>5. ActorsKeepTheirRole'
  BY <1>2, <1>3 DEF OrgInv, ActorsKeepTheirRole
<1>6. IdsAreFresh'
  BY <1>2, <1>3 DEF OrgInv, IdsAreFresh
<1>7. AcceptedArePending'
  BY <1>2, <1>3 DEF OrgInv, AcceptedArePending
<1>. QED  BY <1>3, <1>4, <1>5, <1>6, <1>7 DEF OrgInv

LEMMA LockActorKeeps ==
  ASSUME OrgInv, NEW r \in Requests, LockActor(r)
  PROVE  OrgInv'
<1>1. CASE Authorized(role[tx[r].org][tx[r].actor], tx[r].role)
  <2>. DEFINE stage == IF tx[r].op = "invite" THEN "check" ELSE "target"
              t == [tx[r] EXCEPT !.stage = stage, !.org = tx[r].org]
  <2>1. Advance(r, stage) /\ tx[r].stage = "actor"
    BY <1>1 DEF LockActor
  <2>2. tx[r] \in Commands /\ Shaped(tx[r]) /\ tx \in [Requests -> Commands]
    BY DEF OrgInv, CommandsAreShaped
  <2>3. /\ tx[r].op \in {"invite", "change"} /\ tx[r].op \in Ops /\ Acts(tx[r])
        /\ tx[r].op = "invite" => tx[r].id \in Invitations
        /\ tx[r] # Idle
    BY <2>1, <2>2 DEF Shaped, Idle, Creates, Invites, Accepting, Changes
  <2>4. t = [tx[r] EXCEPT !.stage = stage]
    BY <2>2 DEF Commands
  <2>5. /\ tx' = [tx EXCEPT ![r] = t] /\ UNCHANGED <<created, role, invitation, active, clock>>
    BY <2>1, <2>2, <2>4 DEF Advance, tables
  <2>6. Shaped(t) /\ ~Holding(t)
    BY <2>2, <2>3, <2>4 DEF Commands, Shaped, Acts, Invites, Changes, Holding
  <2>. HIDE DEF t, stage
  <2>7. stage \in {"check", "insert", "target"} /\ tx[r].org \in Orgs
    BY <2>3 DEF stage, Acts
  <2>. QED  BY <1>1, <2>3, <2>5, <2>6, <2>7, GoesOn DEF t
<1>2. CASE ~Authorized(role[tx[r].org][tx[r].actor], tx[r].role)
  BY <1>2, RefuseKeeps DEF LockActor
<1>. QED  BY <1>1, <1>2

LEMMA CheckMemberKeeps ==
  ASSUME OrgInv, NEW r \in Requests, CheckMember(r)
  PROVE  OrgInv'
<1>1. CASE ~IsMember(tx[r].org, tx[r].subject)
  <2>. DEFINE t == [tx[r] EXCEPT !.stage = "insert", !.org = tx[r].org]
  <2>1. Advance(r, "insert") /\ tx[r].stage = "check"
    BY <1>1 DEF CheckMember
  <2>2. tx[r] \in Commands /\ Shaped(tx[r]) /\ tx \in [Requests -> Commands]
    BY DEF OrgInv, CommandsAreShaped
  <2>3. Invites(tx[r]) \/ Accepting(tx[r])
    BY <2>1, <2>2 DEF Shaped, Idle, Creates, Changes
  <2>4. Trusted(tx[r]) \/ Holding(tx[r])
    BY <2>1, <2>3 DEF Trusted, Holding, Invites, Accepting
  <2>5. t = [tx[r] EXCEPT !.stage = "insert"]
    BY <2>2 DEF Commands
  <2>6. /\ tx' = [tx EXCEPT ![r] = t] /\ UNCHANGED <<created, role, invitation, active, clock>>
    BY <2>1, <2>2, <2>5 DEF Advance, tables
  <2>7. Shaped(t) /\ tx[r] # Idle
    BY <2>1, <2>2, <2>3, <2>5 DEF Commands, Shaped, Acts, Invites, Accepting, Idle
  <2>8. (Trusted(t) => Trusted(tx[r])) /\ (Holding(t) => Holding(tx[r]))
    BY <2>1, <2>2, <2>5 DEF Commands, Trusted, Holding
  <2>9. tx[r].org \in Orgs
    <3>1. CASE Invites(tx[r])
      BY <3>1 DEF Invites, Acts
    <3>2. CASE Accepting(tx[r])
      <4>1. Holding(tx[r]) /\ tx[r].id \in Invitations
        BY <2>1, <3>2 DEF Accepting, Holding
      <4>2. /\ invitation[tx[r].id].org = tx[r].org /\ invitation[tx[r].id].status = "pending"
            /\ invitation[tx[r].id] = NoInvitation \/ Written(invitation[tx[r].id])
        BY <4>1 DEF OrgInv, AcceptedArePending, RowsAreValid
      <4>. QED  BY <4>2, NoInvitationIsNothing DEF Written
    <3>. QED  BY <2>3, <3>1, <3>2
  <2>. HIDE DEF t
  <2>10. Trusted(t) => Authorized(role[tx[r].org][tx[r].actor], tx[r].role)
    BY <2>8 DEF OrgInv, ActorsKeepTheirRole
  <2>11. Holding(t) => /\ invitation[tx[r].id].status = "pending"
                       /\ invitation[tx[r].id].org = tx[r].org
                       /\ invitation[tx[r].id].invitee = tx[r].subject
                       /\ tx[r].now < invitation[tx[r].id].expires
                       /\ \A q \in Requests : q # r /\ Holding(tx[q]) => tx[q].id # tx[r].id
    BY <2>8 DEF OrgInv, AcceptedArePending
  <2>. QED  BY <2>6, <2>7, <2>9, <2>10, <2>11, GoesOn DEF t
<1>2. CASE IsMember(tx[r].org, tx[r].subject)
  BY <1>2, RefuseKeeps DEF CheckMember
<1>. QED  BY <1>1, <1>2

(* The writes.  Each ends its transaction.                                 *)
LEMMA Commits ==
  ASSUME OrgInv, NEW r \in Requests, NEW outcome, Commit(r, outcome)
  PROVE  /\ CommandsAreShaped' /\ UNCHANGED <<active, clock>>
         /\ tx'[r] = Idle /\ tx'[r].op = "none" /\ ~Trusted(tx'[r]) /\ ~Holding(tx'[r])
         /\ \A q \in Requests : q # r => tx'[q] = tx[q]
<1>1. tx' = [tx EXCEPT ![r] = Idle] /\ UNCHANGED <<active, clock>>
  BY DEF Commit, Finish
<1>. QED  BY <1>1, Ends DEF OrgInv

(* What the row of a request that was trusted with it says.                *)
LEMMA WhatIsHeld ==
  ASSUME OrgInv, NEW r \in Requests
  PROVE  /\ tx[r] \in Commands /\ Shaped(tx[r])
         /\ Trusted(tx[r]) =>
              /\ Acts(tx[r]) /\ Authorized(role[tx[r].org][tx[r].actor], tx[r].role)
              /\ IsMember(tx[r].org, tx[r].actor) /\ created[tx[r].org] # -1
         /\ Holding(tx[r]) =>
              /\ tx[r].id \in Invitations /\ Written(invitation[tx[r].id])
              /\ created[invitation[tx[r].id].org] # -1
<1>1. tx[r] \in Commands /\ Shaped(tx[r])
  BY DEF OrgInv, CommandsAreShaped
<1>2. ASSUME Trusted(tx[r])
      PROVE  /\ Acts(tx[r]) /\ Authorized(role[tx[r].org][tx[r].actor], tx[r].role)
             /\ IsMember(tx[r].org, tx[r].actor) /\ created[tx[r].org] # -1
  <2>1. Acts(tx[r])
    BY <1>1, <1>2 DEF Trusted, Shaped, Idle, Creates, Invites, Accepting, Changes
  <2>2. Authorized(role[tx[r].org][tx[r].actor], tx[r].role)
    BY <1>2 DEF OrgInv, ActorsKeepTheirRole
  <2>3. IsMember(tx[r].org, tx[r].actor)
    BY <2>2 DEF Authorized, IsMember
  <2>4. created[tx[r].org] # -1
    BY <2>1, <2>3 DEF OrgInv, OwnersAreAlone, Acts, IsMember
  <2>. QED  BY <2>1, <2>2, <2>3, <2>4
<1>3. ASSUME Holding(tx[r])
      PROVE  /\ tx[r].id \in Invitations /\ Written(invitation[tx[r].id])
             /\ created[invitation[tx[r].id].org] # -1
  <2>1. tx[r].id \in Invitations
    BY <1>1, <1>3 DEF Holding, Shaped, Idle, Creates, Invites, Accepting, Changes
  <2>2. invitation[tx[r].id].status = "pending"
    BY <1>3 DEF OrgInv, AcceptedArePending
  <2>3. invitation[tx[r].id] # NoInvitation
    BY <2>2, NoInvitationIsNothing
  <2>. QED  BY <2>1, <2>3 DEF OrgInv, RowsAreValid, InvitationsAreApart
<1>. QED  BY <1>1, <1>2, <1>3

LEMMA InsertOrganizationKeeps ==
  ASSUME OrgInv, NEW r \in Requests, InsertOrganization(r)
  PROVE  OrgInv'
<1>1. CASE created[tx[r].org] = -1
  <2>. DEFINE o == tx[r].org
              s == tx[r].subject
  <2>1. /\ tx[r].op = "create" /\ created' = [created EXCEPT ![o] = tx[r].now]
        /\ role' = [role EXCEPT ![o][s] = "owner"] /\ Commit(r, "created") /\ invitation' = invitation
    BY <1>1 DEF InsertOrganization
  <2>2. o \in Orgs /\ s \in Principals /\ tx[r].now \in 0..MaxTime
    BY <2>1, WhatIsHeld DEF Commands, Shaped, Idle, Creates, Invites, Accepting, Changes
  <2>3. /\ CommandsAreShaped' /\ UNCHANGED <<active, clock>> /\ tx'[r].op = "none"
        /\ ~Trusted(tx'[r]) /\ ~Holding(tx'[r]) /\ \A q \in Requests : q # r => tx'[q] = tx[q]
    BY <2>1, Commits
  <2>. HIDE DEF o, s
  <2>4. RowsAreValid'
    BY <2>1, <2>2, <2>3 DEF OrgInv, RowsAreValid, Roles
  <2>5. OwnersAreAlone'
    <3>1. created[o] = -1
      BY <1>1 DEF o
    <3>2. {x \in Orgs : created'[x] # -1} = {x \in Orgs : created[x] # -1} \cup {o}
      BY <2>1, <2>2 DEF OrgInv, RowsAreValid
    <3>3. IsFiniteSet({x \in Orgs : created'[x] # -1})
      BY <3>2, FS_AddElement DEF OrgInv, OwnersAreAlone
    <3>4. \A p \in Principals : role'[o][p] = "owner" <=> p = s
      BY <2>1, <2>2, <3>1 DEF OrgInv, OwnersAreAlone, RowsAreValid
    <3>5. created'[o] # -1
      BY <2>1, <2>2 DEF OrgInv, RowsAreValid
    <3>6. \A x \in Orgs : x # o => created'[x] = created[x] /\ role'[x] = role[x]
      BY <2>1, <2>2 DEF OrgInv, RowsAreValid
    <3>. QED  BY <2>2, <3>3, <3>4, <3>5, <3>6 DEF OrgInv, OwnersAreAlone
  <2>6. InvitationsAreApart'
    BY <1>1, <2>1, <2>2 DEF OrgInv, InvitationsAreApart, RowsAreValid, Written
  <2>7. ActorsKeepTheirRole'
    <3>1. ASSUME NEW q \in Requests, Trusted(tx'[q])
          PROVE  Authorized(role'[tx'[q].org][tx'[q].actor], tx'[q].role)
      <4>1. q # r /\ tx'[q] = tx[q]
        BY <2>3, <3>1
      <4>2. Authorized(role[tx[q].org][tx[q].actor], tx[q].role) /\ tx[q].org # o /\ tx[q].org \in Orgs
        BY <1>1, <3>1, <4>1, WhatIsHeld DEF o, Acts
      <4>3. role'[tx[q].org] = role[tx[q].org]
        BY <2>1, <2>2, <4>2 DEF OrgInv, RowsAreValid
      <4>. QED  BY <4>1, <4>2, <4>3
    <3>. QED  BY <3>1 DEF ActorsKeepTheirRole
  <2>8. IdsAreFresh'
    BY <2>1, <2>3 DEF OrgInv, IdsAreFresh
  <2>9. AcceptedArePending'
    BY <2>1, <2>3 DEF OrgInv, AcceptedArePending
  <2>. QED  BY <2>3, <2>4, <2>5, <2>6, <2>7, <2>8, <2>9 DEF OrgInv
<1>2. CASE created[tx[r].org] # -1
  BY <1>2, RefuseKeeps DEF InsertOrganization
<1>. QED  BY <1>1, <1>2

LEMMA InsertInvitationKeeps ==
  ASSUME OrgInv, NEW r \in Requests, InsertInvitation(r)
  PROVE  OrgInv'
<1>1. CASE ~Conflicts(r)
  <2>. DEFINE n == tx[r].id
              i == Invitation(tx[r].org, tx[r].actor, tx[r].subject, tx[r].role, "pending", tx[r].now)
  <2>1. /\ tx[r].op = "invite" /\ tx[r].stage = "insert" /\ invitation' = [invitation EXCEPT ![n] = i]
        /\ Commit(r, "invited") /\ UNCHANGED <<created, role>>
    BY <1>1 DEF InsertInvitation
  <2>2. /\ Trusted(tx[r]) /\ Acts(tx[r]) /\ created[tx[r].org] # -1 /\ tx[r] \in Commands
        /\ n \in Invitations
    BY <2>1, WhatIsHeld DEF Trusted, Shaped, Idle, Creates, Invites, Accepting, Changes
  <2>3. /\ CommandsAreShaped' /\ UNCHANGED <<active, clock>> /\ tx'[r].op = "none"
        /\ ~Trusted(tx'[r]) /\ ~Holding(tx'[r]) /\ \A q \in Requests : q # r => tx'[q] = tx[q]
    BY <2>1, Commits
  <2>4. invitation[n] = NoInvitation
    BY <2>1, <2>2 DEF OrgInv, IdsAreFresh
  <2>5. /\ i \in Rows /\ Written(i) /\ i.status = "pending" /\ i.org = tx[r].org
        /\ i.invitee = tx[r].subject
    BY <2>2, OrgAssumption DEF Commands, Acts, Invitation, Rows, Written, ValidInvitation, Invitable, Statuses
  <2>6. \A k \in Invitations : ~(/\ invitation[k].status = "pending" /\ invitation[k].org = i.org
                                 /\ invitation[k].invitee = i.invitee)
    BY <1>1, <2>5 DEF Conflicts, Pending
  <2>. HIDE DEF n, i
  <2>7. invitation'[n] = i /\ \A k \in Invitations : k # n => invitation'[k] = invitation[k]
    BY <2>1, <2>2 DEF OrgInv, RowsAreValid
  <2>8. RowsAreValid'
    BY <2>1, <2>2, <2>3, <2>5, <2>7 DEF OrgInv, RowsAreValid
  <2>9. OwnersAreAlone'
    BY <2>1 DEF OrgInv, OwnersAreAlone
  <2>10. InvitationsAreApart'
    BY <2>1, <2>2, <2>5, <2>6, <2>7 DEF OrgInv, InvitationsAreApart
  <2>11. ActorsKeepTheirRole'
    BY <2>1, <2>3 DEF OrgInv, ActorsKeepTheirRole
  <2>12. IdsAreFresh'
    <3>1. ASSUME NEW q \in Requests, tx'[q].op = "invite"
          PROVE  /\ invitation'[tx'[q].id] = NoInvitation
                 /\ \A k \in Requests : tx'[k].op = "invite" /\ tx'[k].id = tx'[q].id => k = q
      <4>1. q # r /\ tx'[q] = tx[q]
        BY <2>3, <3>1
      <4>2. tx[q].id # n /\ invitation[tx[q].id] = NoInvitation
        BY <2>1, <3>1, <4>1 DEF OrgInv, IdsAreFresh, n
      <4>3. tx[q].id \in Invitations
        BY <3>1, <4>1, WhatIsHeld DEF Shaped, Idle, Creates, Invites, Accepting, Changes
      <4>4. \A k \in Requests : tx'[k].op = "invite" /\ tx'[k].id = tx'[q].id => k = q
        BY <2>3, <3>1, <4>1 DEF OrgInv, IdsAreFresh
      <4>. QED  BY <2>7, <4>1, <4>2, <4>3, <4>4
    <3>. QED  BY <3>1 DEF IdsAreFresh
  <2>13. AcceptedArePending'
    <3>1. ASSUME NEW q \in Requests, Holding(tx'[q])
          PROVE  q # r /\ tx'[q] = tx[q] /\ invitation'[tx[q].id] = invitation[tx[q].id]
      <4>1. q # r /\ tx'[q] = tx[q]
        BY <2>3, <3>1
      <4>2. invitation[tx[q].id].status = "pending" /\ tx[q].id \in Invitations
        BY <3>1, <4>1, WhatIsHeld DEF OrgInv, AcceptedArePending
      <4>. QED  BY <2>4, <2>7, <4>1, <4>2, NoInvitationIsNothing
    <3>. QED  BY <3>1 DEF OrgInv, AcceptedArePending
  <2>. QED  BY <2>3, <2>8, <2>9, <2>10, <2>11, <2>12, <2>13 DEF OrgInv
<1>2. CASE Conflicts(r)
  BY <1>2, RefuseKeeps DEF InsertInvitation
<1>. QED  BY <1>1, <1>2

(* An invitation that is resolved was pending and is what it was.          *)
Resolving(r, n, to, now) ==
  /\ \E outcome : Commit(r, outcome)
  /\ now \in 0..MaxTime /\ to \in {"accepted", "revoked"}
  /\ invitation[n].status = "pending" /\ invitation[n].created <= now
  /\ \A q \in Requests : q # r /\ Holding(tx[q]) => tx[q].id # n
  /\ invitation' = [invitation EXCEPT ![n] = Resolved(n, to, now)]
  /\ UNCHANGED created

LEMMA ApartStays ==
  ASSUME InvitationsAreApart, UNCHANGED created,
         \A k \in Invitations :
            /\ invitation'[k].status = "pending" => invitation'[k] = invitation[k]
            /\ invitation'[k].org = invitation[k].org
            /\ invitation'[k] # NoInvitation => invitation[k] # NoInvitation
  PROVE  InvitationsAreApart'
BY DEF InvitationsAreApart

LEMMA Resolves ==
  ASSUME OrgInv, NEW r \in Requests, NEW n \in Invitations, NEW to, NEW now,
         Resolving(r, n, to, now)
  PROVE  /\ CommandsAreShaped' /\ InvitationsAreApart' /\ IdsAreFresh' /\ AcceptedArePending'
         /\ UNCHANGED <<active, clock>> /\ invitation' \in [Invitations -> Rows]
         /\ \A k \in Invitations : invitation'[k] = NoInvitation \/ Written(invitation'[k])
<1>. DEFINE i == invitation[n]
            j == Resolved(n, to, now)
<1>. USE DEF Resolving
<1>1. /\ CommandsAreShaped' /\ UNCHANGED <<active, clock>> /\ tx'[r].op = "none"
      /\ ~Trusted(tx'[r]) /\ ~Holding(tx'[r]) /\ \A q \in Requests : q # r => tx'[q] = tx[q]
  BY Commits
<1>2. i \in Rows /\ Written(i)
  BY NoInvitationIsNothing DEF OrgInv, RowsAreValid
<1>3. /\ j \in Rows /\ Written(j) /\ j.status = to /\ j.org = i.org /\ j.invitee = i.invitee
  <2>1. j = [i EXCEPT !.status = to, !.resolved = now]
    BY DEF Resolved
  <2>. HIDE DEF i, j
  <2>2. j \in Rows /\ j.status = to /\ j.org = i.org /\ j.invitee = i.invitee
    <3>1. now \in Int /\ to \in Statuses
      BY OrgAssumption DEF Statuses
    <3>. QED  BY <1>2, <2>1, <3>1 DEF Rows
  <2>3. /\ j.inviter = i.inviter /\ j.role = i.role /\ j.created = i.created /\ j.expires = i.expires
        /\ j.resolved = now
    BY <1>2, <2>1 DEF Rows
  <2>4. i.created <= now
    BY DEF i
  <2>5. ValidInvitation(j)
    BY <1>2, <2>2, <2>3, <2>4, OrgAssumption DEF Written, ValidInvitation, Rows
  <2>. QED  BY <1>2, <2>2, <2>3, <2>5 DEF Written
<1>. HIDE DEF i, j
<1>4. /\ invitation'[n] = j /\ invitation' \in [Invitations -> Rows]
      /\ \A k \in Invitations : k # n => invitation'[k] = invitation[k]
  BY <1>3 DEF OrgInv, RowsAreValid, j
<1>5. \A k \in Invitations : invitation'[k] = NoInvitation \/ Written(invitation'[k])
  BY <1>3, <1>4 DEF OrgInv, RowsAreValid
<1>6. InvitationsAreApart'
  <2>1. \A k \in Invitations :
            /\ invitation'[k].status = "pending" => invitation'[k] = invitation[k]
            /\ invitation'[k].org = invitation[k].org
            /\ invitation'[k] # NoInvitation => invitation[k] # NoInvitation
    BY <1>3, <1>4, NoInvitationIsNothing DEF i
  <2>. QED  BY <2>1, ApartStays DEF OrgInv
<1>7. IdsAreFresh'
  <2>1. ASSUME NEW q \in Requests, tx'[q].op = "invite"
        PROVE  /\ invitation'[tx'[q].id] = NoInvitation
               /\ \A k \in Requests : tx'[k].op = "invite" /\ tx'[k].id = tx'[q].id => k = q
    <3>1. q # r /\ tx'[q] = tx[q]
      BY <1>1, <2>1
    <3>2. tx[q].id \in Invitations /\ invitation[tx[q].id] = NoInvitation
      BY <2>1, <3>1, WhatIsHeld DEF OrgInv, IdsAreFresh, Shaped, Idle, Creates, Invites, Accepting, Changes
    <3>3. tx[q].id # n
      BY <3>2, NoInvitationIsNothing
    <3>4. \A k \in Requests : tx'[k].op = "invite" /\ tx'[k].id = tx'[q].id => k = q
      BY <1>1, <2>1, <3>1 DEF OrgInv, IdsAreFresh
    <3>. QED  BY <1>4, <3>1, <3>2, <3>3, <3>4
  <2>. QED  BY <2>1 DEF IdsAreFresh
<1>8. AcceptedArePending'
  <2>1. ASSUME NEW q \in Requests, Holding(tx'[q])
        PROVE  /\ invitation'[tx'[q].id].status = "pending" /\ invitation'[tx'[q].id].org = tx'[q].org
               /\ invitation'[tx'[q].id].invitee = tx'[q].subject
               /\ tx'[q].now < invitation'[tx'[q].id].expires
               /\ \A k \in Requests : Holding(tx'[k]) /\ tx'[k].id = tx'[q].id => k = q
    <3>1. q # r /\ tx'[q] = tx[q]
      BY <1>1, <2>1
    <3>2. tx[q].id \in Invitations /\ tx[q].id # n
      BY <2>1, <3>1, WhatIsHeld
    <3>3. invitation'[tx'[q].id] = invitation[tx[q].id]
      BY <1>4, <3>1, <3>2
    <3>4. \A k \in Requests : Holding(tx'[k]) /\ tx'[k].id = tx'[q].id => k = q
      BY <1>1, <2>1, <3>1 DEF OrgInv, AcceptedArePending
    <3>. QED  BY <2>1, <3>1, <3>3, <3>4 DEF OrgInv, AcceptedArePending
  <2>. QED  BY <2>1 DEF AcceptedArePending
<1>. QED  BY <1>1, <1>4, <1>5, <1>6, <1>7, <1>8

LEMMA LockInvitationKeeps ==
  ASSUME OrgInv, NEW r \in Requests, LockInvitation(r)
  PROVE  OrgInv'
<1>. DEFINE n == tx[r].id
            i == invitation[n]
<1>1. tx[r] \in Commands /\ Accepting(tx[r]) /\ tx[r].op \in Ops /\ tx[r].stage = "invitation" /\ tx[r] # Idle
  BY WhatIsHeld DEF LockInvitation, Shaped, Idle, Creates, Invites, Accepting, Changes, Acts
<1>2. ASSUME NEW q \in Requests, q # r, Holding(tx[q])
      PROVE  tx[q].id # n
  <2>1. ~WaitsFor(r, q)
    BY <1>2 DEF LockInvitation, Granted
  <2>2. Wants(r) = {<<n>>}
    BY <1>1 DEF Wants
  <2>3. <<tx[q].id>> \in Holds(q)
    BY <1>2 DEF Holding, Holds, HoldsInvitations
  <2>. QED  BY <1>2, <2>1, <2>2, <2>3 DEF WaitsFor
<1>3. CASE \E outcome : Refuse(r, outcome)
  BY <1>3, RefuseKeeps
<1>4. ASSUME i.invitee = tx[r].subject, i.status = "pending", i.expires <= tx[r].now,
             invitation' = [invitation EXCEPT ![n] = Resolved(n, "revoked", tx[r].now)],
             Commit(r, "invitation_expired"), UNCHANGED <<created, role>>
      PROVE  OrgInv'
  <2>1. n \in Invitations /\ tx[r].now \in 0..MaxTime
    BY <1>1 DEF Commands, Accepting
  <2>2. i \in Rows /\ Written(i)
    BY <1>4, <2>1, NoInvitationIsNothing DEF OrgInv, RowsAreValid
  <2>3. i.created <= tx[r].now
    BY <1>4, <2>1, <2>2 DEF Rows, Written, ValidInvitation
  <2>4. /\ CommandsAreShaped' /\ InvitationsAreApart' /\ IdsAreFresh' /\ AcceptedArePending'
        /\ UNCHANGED <<active, clock>> /\ invitation' \in [Invitations -> Rows]
        /\ \A k \in Invitations : invitation'[k] = NoInvitation \/ Written(invitation'[k])
    <3>1. Resolving(r, n, "revoked", tx[r].now)
      BY <1>2, <1>4, <2>1, <2>3 DEF Resolving
    <3>. QED  BY <2>1, <3>1, Resolves
  <2>. HIDE DEF n, i
  <2>5. RowsAreValid' /\ OwnersAreAlone'
    BY <1>4, <2>4 DEF OrgInv, RowsAreValid, OwnersAreAlone
  <2>6. ActorsKeepTheirRole'
    <3>1. ~Trusted(tx'[r]) /\ \A q \in Requests : q # r => tx'[q] = tx[q]
      BY <1>4, Commits
    <3>. QED  BY <1>4, <3>1 DEF OrgInv, ActorsKeepTheirRole
  <2>. QED  BY <2>4, <2>5, <2>6 DEF OrgInv
<1>5. ASSUME i.invitee = tx[r].subject, i.status = "pending", tx[r].now < i.expires,
             tx' = [tx EXCEPT ![r].stage = "check", ![r].org = i.org],
             UNCHANGED <<tables, reply, active, clock>>
      PROVE  OrgInv'
  <2>. DEFINE t == [tx[r] EXCEPT !.stage = "check", !.org = i.org]
  <2>1. tx' = [tx EXCEPT ![r] = t] /\ UNCHANGED <<created, role, invitation, active, clock>>
    BY <1>1, <1>5 DEF OrgInv, CommandsAreShaped, tables
  <2>2. n \in Invitations
    BY <1>1 DEF Accepting
  <2>3. i.org \in Orgs
    BY <1>5, <2>2, NoInvitationIsNothing DEF OrgInv, RowsAreValid, Written
  <2>4. Shaped(t) /\ ~Trusted(t)
    BY <1>1, <2>3 DEF Commands, Shaped, Accepting, Trusted
  <2>. HIDE DEF t, n, i
  <2>5. \A q \in Requests : q # r /\ Holding(tx[q]) => tx[q].id # tx[r].id
    BY <1>2 DEF n
  <2>. QED  BY <1>1, <1>5, <2>1, <2>3, <2>4, <2>5, GoesOn DEF t, n, i
<1>. QED  BY <1>3, <1>4, <1>5 DEF LockInvitation

LEMMA InsertMembershipKeeps ==
  ASSUME OrgInv, NEW r \in Requests, InsertMembership(r)
  PROVE  OrgInv'
<1>. DEFINE n == tx[r].id
            i == invitation[n]
<1>1. CASE ~(IsMember(i.org, i.invitee) \/ tx[r].now < i.created)
  <2>1. /\ tx[r].op = "accept" /\ tx[r].stage = "insert" /\ ~IsMember(i.org, i.invitee)
        /\ ~(tx[r].now < i.created) /\ role' = [role EXCEPT ![i.org][i.invitee] = i.role]
        /\ invitation' = [invitation EXCEPT ![n] = Resolved(n, "accepted", tx[r].now)]
        /\ Commit(r, "accepted") /\ UNCHANGED created
    BY <1>1 DEF InsertMembership
  <2>2. /\ Holding(tx[r]) /\ n \in Invitations /\ Written(i) /\ tx[r].now \in 0..MaxTime
        /\ created[i.org] # -1 /\ i \in Rows
    BY <2>1, WhatIsHeld DEF Holding, Commands, OrgInv, RowsAreValid
  <2>3. i.status = "pending" /\ \A q \in Requests : q # r /\ Holding(tx[q]) => tx[q].id # n
    BY <2>2 DEF OrgInv, AcceptedArePending
  <2>4. i.created \in Int /\ i.role \in Invitable /\ i.org \in Orgs /\ i.invitee \in Principals
    BY <2>2 DEF Rows, Written
  <2>5. i.created <= tx[r].now
    BY <2>1, <2>2, <2>4
  <2>. HIDE DEF n, i
  <2>6. /\ CommandsAreShaped' /\ InvitationsAreApart' /\ IdsAreFresh' /\ AcceptedArePending'
        /\ UNCHANGED <<active, clock>> /\ invitation' \in [Invitations -> Rows]
        /\ \A k \in Invitations : invitation'[k] = NoInvitation \/ Written(invitation'[k])
    <3>1. Resolving(r, n, "accepted", tx[r].now)
      BY <2>1, <2>2, <2>3, <2>5 DEF Resolving, i
    <3>. QED  BY <2>2, <3>1, Resolves
  <2>7. RowsAreValid'
    BY <2>1, <2>4, <2>6 DEF OrgInv, RowsAreValid, Invitable, Roles
  <2>8. \A o \in Orgs, p \in Principals :
           /\ role'[o][p] = "owner" <=> role[o][p] = "owner"
           /\ created[o] = -1 => role'[o][p] = role[o][p]
           /\ IsMember(o, p) => role'[o][p] = role[o][p]
    BY <2>1, <2>2, <2>4 DEF OrgInv, RowsAreValid, Invitable, IsMember
  <2>9. OwnersAreAlone'
    BY <2>1, <2>8 DEF OrgInv, OwnersAreAlone
  <2>10. ActorsKeepTheirRole'
    <3>1. ~Trusted(tx'[r]) /\ \A q \in Requests : q # r => tx'[q] = tx[q]
      BY <2>1, Commits
    <3>2. ASSUME NEW q \in Requests, Trusted(tx'[q])
          PROVE  Authorized(role'[tx'[q].org][tx'[q].actor], tx'[q].role)
      <4>1. q # r /\ tx'[q] = tx[q]
        BY <3>1, <3>2
      <4>2. /\ Acts(tx[q]) /\ IsMember(tx[q].org, tx[q].actor)
            /\ Authorized(role[tx[q].org][tx[q].actor], tx[q].role)
        BY <3>2, <4>1, WhatIsHeld
      <4>3. role'[tx[q].org][tx[q].actor] = role[tx[q].org][tx[q].actor]
        BY <2>8, <4>2 DEF Acts
      <4>. QED  BY <4>1, <4>2, <4>3
    <3>. QED  BY <3>2 DEF ActorsKeepTheirRole
  <2>. QED  BY <2>6, <2>7, <2>9, <2>10 DEF OrgInv
<1>2. CASE IsMember(i.org, i.invitee) \/ tx[r].now < i.created
  BY <1>2, RefuseKeeps DEF InsertMembership
<1>. QED  BY <1>1, <1>2

LEMMA LockTargetKeeps ==
  ASSUME OrgInv, NEW r \in Requests, LockTarget(r)
  PROVE  OrgInv'
<1>. DEFINE o == tx[r].org
            s == tx[r].subject
            target == role[o][s]
<1>1. CASE \E outcome : Refuse(r, outcome)
  BY <1>1, RefuseKeeps
<1>2. ASSUME ~IsProtected(target), target \notin {"none", tx[r].role},
             role' = [role EXCEPT ![o][s] = tx[r].role], Commit(r, "changed"),
             UNCHANGED <<created, invitation>>
      PROVE  OrgInv'
  <2>1. Trusted(tx[r]) /\ Acts(tx[r]) /\ tx[r].stage = "target" /\ created[o] # -1
    <3>1. tx[r].stage = "target"
      BY DEF LockTarget
    <3>2. Changes(tx[r])
      BY <3>1, WhatIsHeld DEF Shaped, Idle, Creates, Invites, Accepting
    <3>3. Trusted(tx[r])
      BY <3>1, <3>2 DEF Changes, Trusted
    <3>. QED  BY <3>1, <3>3, WhatIsHeld
  <2>2. o \in Orgs /\ s \in Principals /\ tx[r].role \in Invitable /\ target # "owner" /\ target # "none"
    BY <1>2, <2>1 DEF Acts, IsProtected
  <2>3. /\ CommandsAreShaped' /\ UNCHANGED <<active, clock>> /\ tx'[r].op = "none"
        /\ ~Trusted(tx'[r]) /\ ~Holding(tx'[r]) /\ \A q \in Requests : q # r => tx'[q] = tx[q]
    BY <1>2, Commits
  <2>4. ASSUME NEW q \in Requests, q # r, Trusted(tx[q])
        PROVE  <<tx[q].org, tx[q].actor>> # <<o, s>>
    <3>1. ~WaitsFor(r, q)
      BY <2>4 DEF LockTarget, Granted
    <3>2. Wants(r) = {<<o, s>>}
      BY <2>1, <2>2 DEF Wants, MembershipRow, IsMember
    <3>3. <<tx[q].org, tx[q].actor>> \in Holds(q)
      BY <2>4 DEF Trusted, Holds, HoldsActors
    <3>. QED  BY <2>4, <3>1, <3>2, <3>3 DEF WaitsFor
  <2>. HIDE DEF o, s
  <2>5. RowsAreValid'
    BY <1>2, <2>2, <2>3 DEF OrgInv, RowsAreValid, Invitable, Roles
  <2>6. \A x \in Orgs, p \in Principals :
           /\ role'[x][p] = "owner" <=> role[x][p] = "owner"
           /\ <<x, p>> # <<o, s>> => role'[x][p] = role[x][p]
           /\ created[x] = -1 => role'[x][p] = role[x][p]
    BY <1>2, <2>1, <2>2 DEF OrgInv, RowsAreValid, Invitable
  <2>7. OwnersAreAlone'
    BY <1>2, <2>6 DEF OrgInv, OwnersAreAlone
  <2>8. InvitationsAreApart'
    BY <1>2 DEF OrgInv, InvitationsAreApart
  <2>9. ActorsKeepTheirRole'
    <3>1. ASSUME NEW q \in Requests, Trusted(tx'[q])
          PROVE  Authorized(role'[tx'[q].org][tx'[q].actor], tx'[q].role)
      <4>1. q # r /\ tx'[q] = tx[q]
        BY <2>3, <3>1
      <4>2. /\ Acts(tx[q]) /\ Authorized(role[tx[q].org][tx[q].actor], tx[q].role)
            /\ <<tx[q].org, tx[q].actor>> # <<o, s>>
        BY <2>4, <3>1, <4>1, WhatIsHeld
      <4>3. role'[tx[q].org][tx[q].actor] = role[tx[q].org][tx[q].actor]
        BY <2>6, <4>2 DEF Acts
      <4>. QED  BY <4>1, <4>2, <4>3
    <3>. QED  BY <3>1 DEF ActorsKeepTheirRole
  <2>10. IdsAreFresh'
    BY <1>2, <2>3 DEF OrgInv, IdsAreFresh
  <2>11. AcceptedArePending'
    BY <1>2, <2>3 DEF OrgInv, AcceptedArePending
  <2>. QED  BY <2>3, <2>5, <2>7, <2>8, <2>9, <2>10, <2>11 DEF OrgInv
<1>. QED  BY <1>1, <1>2 DEF LockTarget

LEMMA OrgNext ==
  ASSUME OrgInv, [Next]_vars
  PROVE  OrgInv'
<1>1. CASE UNCHANGED vars
  BY <1>1 DEF vars, tables, OrgInv, CommandsAreShaped, RowsAreValid, OwnersAreAlone,
     InvitationsAreApart, ActorsKeepTheirRole, IdsAreFresh, AcceptedArePending
<1>2. ASSUME NEW r \in Requests, Begin(r) \/ Step(r) \/ GiveUp(r) \/ AbortDeadlock(r)
      PROVE  OrgInv'
  BY <1>2, BeginKeeps, LockActorKeeps, CheckMemberKeeps, InsertOrganizationKeeps,
     InsertInvitationKeeps, LockInvitationKeeps, InsertMembershipKeeps, LockTargetKeeps,
     RefuseKeeps DEF Step, GiveUp, AbortDeadlock
<1>3. ASSUME (\E p \in Principals : Eligibility(p)) \/ Tick
      PROVE  OrgInv'
  <2>1. UNCHANGED <<created, role, invitation, tx>>
    BY <1>3 DEF Eligibility, Tick, tables
  <2>2. active' \subseteq Principals /\ clock' \in 0..MaxTime
    BY <1>3, OrgAssumption DEF Eligibility, Tick, OrgInv, RowsAreValid
  <2>. QED
    BY <2>1, <2>2 DEF OrgInv, CommandsAreShaped, RowsAreValid, OwnersAreAlone,
       InvitationsAreApart, ActorsKeepTheirRole, IdsAreFresh, AcceptedArePending
<1>. QED  BY <1>1, <1>2, <1>3 DEF Next

LEMMA OrgInvariant == Spec => []OrgInv
<1>1. Init => OrgInv
  BY OrgInit
<1>2. OrgInv /\ [Next]_vars => OrgInv'
  BY OrgNext
<1>. QED  BY <1>1, <1>2, PTL DEF Spec
-----------------------------------------------------------------------------
(* The list of organisations.  A set of numbers has a least one, so a      *)
(* finite set of organisations has one that none of it is newer than.      *)
LEMMA Least ==
  ASSUME NEW T \in SUBSET Nat, T # {}
  PROVE  \E x \in T : \A y \in T : x <= y
<1>1. PICK x \in T : \A y \in T : <<y, x>> \notin OpToRel(<, Nat)
  BY NatLessThanWellFounded, WFMin
<1>2. \A y \in T : ~(y < x)
  BY <1>1 DEF OpToRel
<1>. QED  BY <1>2

Newers(x, S) == {q \in S : Newer(q, x)}

LEMMA NewerIsAnOrder ==
  ASSUME RowsAreValid, NEW x \in Orgs, NEW y \in Orgs, NEW z \in Orgs
  PROVE  /\ ~Newer(x, x) /\ (Newer(x, y) /\ Newer(y, z) => Newer(x, z))
         /\ (Newer(x, y) \/ Newer(y, x) \/ x = y)
<1>1. created[x] \in Int /\ created[y] \in Int /\ created[z] \in Int
  BY OrgAssumption DEF RowsAreValid
<1>2. x \in Nat /\ y \in Nat /\ z \in Nat
  BY OrgAssumption
<1>. QED  BY <1>1, <1>2 DEF Newer

LEMMA FewerAreNewer ==
  ASSUME RowsAreValid, NEW S \in SUBSET Orgs, IsFiniteSet(S), NEW x \in S, NEW y \in S, Newer(y, x)
  PROVE  /\ Cardinality(Newers(x, S)) \in Nat /\ Cardinality(Newers(y, S)) \in Nat
         /\ Cardinality(Newers(y, S)) < Cardinality(Newers(x, S))
<1>1. Newers(y, S) \subseteq Newers(x, S) /\ y \in Newers(x, S) /\ y \notin Newers(y, S)
  BY NewerIsAnOrder DEF Newers
<1>2. IsFiniteSet(Newers(x, S)) /\ IsFiniteSet(Newers(y, S))
  BY FS_Subset DEF Newers
<1>. QED  BY <1>1, <1>2, FS_Subset, FS_CardinalityType

LEMMA Newest ==
  ASSUME RowsAreValid, NEW S \in SUBSET Orgs, IsFiniteSet(S), S # {}
  PROVE  \E x \in S : \A y \in S : ~Newer(y, x)
<1>. DEFINE n(x) == Cardinality(Newers(x, S))
            T == {n(x) : x \in S}
<1>1. \A x \in S : n(x) \in Nat
  BY FS_Subset, FS_CardinalityType DEF Newers
<1>2. T \in SUBSET Nat /\ T # {}
  BY <1>1
<1>3. PICK t \in T : \A u \in T : t <= u
  BY <1>2, Least
<1>4. PICK x \in S : t = n(x)
  BY <1>3
<1>5. ASSUME NEW y \in S, Newer(y, x)
      PROVE  FALSE
  <2>1. n(x) \in Nat /\ n(y) \in Nat /\ n(y) < n(x)
    BY <1>5, FewerAreNewer
  <2>2. n(x) <= n(y)
    BY <1>3, <1>4
  <2>. HIDE DEF n
  <2>. QED  BY <2>1, <2>2
<1>. QED  BY <1>5

(* A page that may have one more has the newest of those it lacked.        *)
LEMMA PageGrows ==
  ASSUME RowsAreValid, NEW p, NEW k \in Nat, IsFiniteSet(Mine(p)),
         Cardinality(Page(p, k)) = IF Cardinality(Mine(p)) < k THEN Cardinality(Mine(p)) ELSE k
  PROVE  Cardinality(Page(p, k+1))
           = IF Cardinality(Mine(p)) < k+1 THEN Cardinality(Mine(p)) ELSE k+1
<1>. DEFINE S == Mine(p)
            P == Page(p, k)
            n(x) == Cardinality(Newers(x, S))
<1>1. S \in SUBSET Orgs /\ IsFiniteSet(S) /\ Cardinality(S) \in Nat
  BY FS_CardinalityType DEF Mine
<1>2. \A j : Page(p, j) = {x \in S : n(x) < j}
  BY DEF Page, Newers
<1>3. P \subseteq S /\ IsFiniteSet(P) /\ Cardinality(P) \in Nat /\ Cardinality(P) <= Cardinality(S)
  BY <1>1, <1>2, FS_Subset, FS_CardinalityType
<1>4. \A x \in S : n(x) \in Nat
  BY <1>1, FS_Subset, FS_CardinalityType DEF Newers
<1>. HIDE DEF S, n
<1>5. CASE P = S
  <2>1. Page(p, k+1) = S
    <3>1. \A x \in S : n(x) < k
      BY <1>2, <1>5
    <3>2. \A x \in S : n(x) < k+1
      BY <1>4, <3>1
    <3>. QED  BY <1>2, <3>2
  <2>2. Cardinality(S) <= k
    BY <1>1, <1>5 DEF S
  <2>. QED  BY <1>1, <2>1, <2>2 DEF S
<1>6. CASE P # S
  <2>. DEFINE R == S \ P
  <2>1. R # {} /\ R \in SUBSET Orgs /\ IsFiniteSet(R)
    BY <1>1, <1>3, <1>6, FS_Subset
  <2>2. PICK m \in R : \A y \in R : ~Newer(y, m)
    BY <2>1, Newest
  <2>3. m \in S /\ m \in Orgs /\ n(m) \in Nat /\ ~(n(m) < k)
    BY <1>1, <1>2, <1>4, <2>2
  <2>4. ASSUME NEW x \in P
        PROVE  Newer(x, m)
    <3>1. x \in S /\ x \in Orgs /\ n(x) < k /\ n(x) \in Nat /\ x # m
      BY <1>1, <1>2, <1>3, <1>4, <2>2, <2>4
    <3>2. Newer(m, x) => n(m) < n(x)
      BY <1>1, <2>3, <3>1, FewerAreNewer DEF n
    <3>3. ~Newer(m, x)
      BY <2>3, <3>1, <3>2
    <3>. QED  BY <2>3, <3>1, <3>3, NewerIsAnOrder
  <2>5. Newers(m, S) = P
    BY <1>3, <2>2, <2>4 DEF Newers
  <2>6. n(m) = Cardinality(P) /\ Cardinality(P) < Cardinality(S)
    BY <1>1, <1>3, <1>6, <2>5, FS_Subset DEF n
  <2>7. Cardinality(P) = k /\ k < Cardinality(S)
    <3>1. Cardinality(P) = IF Cardinality(S) < k THEN Cardinality(S) ELSE k
      BY DEF S
    <3>. QED  BY <1>1, <1>3, <2>6, <3>1
  <2>8. ASSUME NEW x \in R, x # m
        PROVE  ~(n(x) < k+1)
    <3>1. x \in S /\ x \in Orgs /\ n(x) \in Nat
      BY <1>1, <1>4, <2>8
    <3>2. Newer(m, x)
      BY <2>2, <2>3, <2>8, <3>1, NewerIsAnOrder
    <3>3. n(m) < n(x)
      BY <1>1, <2>3, <3>1, <3>2, FewerAreNewer DEF n
    <3>. QED  BY <2>3, <2>6, <2>7, <3>1, <3>3
  <2>9. Page(p, k+1) = P \cup {m}
    <3>1. \A x \in P : n(x) < k+1 /\ x \in S
      BY <1>2, <1>3, <1>4
    <3>2. n(m) < k+1
      BY <2>3, <2>6, <2>7
    <3>. HIDE DEF P
    <3>. QED  BY <1>2, <2>3, <2>8, <3>1, <3>2
  <2>10. Cardinality(Page(p, k+1)) = k+1
    BY <1>3, <2>2, <2>7, <2>9, FS_AddElement
  <2>. QED  BY <1>1, <2>7, <2>10 DEF S
<1>. QED  BY <1>5, <1>6

LEMMA PagesFill ==
  ASSUME RowsAreValid, NEW p, IsFiniteSet(Mine(p))
  PROVE  \A limit \in 1..3 : Cardinality(Page(p, limit)) =
            (IF Cardinality(Mine(p)) < limit THEN Cardinality(Mine(p)) ELSE limit)
<1>1. Cardinality(Mine(p)) \in Nat
  BY FS_CardinalityType
<1>2. \A x \in Mine(p) : Cardinality({q \in Mine(p) : Newer(q, x)}) \in Nat
  BY FS_Subset, FS_CardinalityType
<1>3. Page(p, 0) = {}
  BY <1>2 DEF Page
<1>4. Cardinality(Page(p, 0)) = IF Cardinality(Mine(p)) < 0 THEN Cardinality(Mine(p)) ELSE 0
  BY <1>1, <1>3, FS_EmptySet
<1>5. Cardinality(Page(p, 1)) = IF Cardinality(Mine(p)) < 1 THEN Cardinality(Mine(p)) ELSE 1
  BY <1>4, PageGrows, 0+1 = 1
<1>6. Cardinality(Page(p, 2)) = IF Cardinality(Mine(p)) < 2 THEN Cardinality(Mine(p)) ELSE 2
  BY <1>5, PageGrows, 1+1 = 2
<1>7. Cardinality(Page(p, 3)) = IF Cardinality(Mine(p)) < 3 THEN Cardinality(Mine(p)) ELSE 3
  BY <1>6, PageGrows, 2+1 = 3
<1>. QED  BY <1>5, <1>6, <1>7
-----------------------------------------------------------------------------
(* A set with at most one element.                                         *)
LEMMA AtMostOne ==
  ASSUME NEW S, \A x, y \in S : x = y
  PROVE  Cardinality(S) <= 1
<1>1. CASE S = {}
  BY <1>1, FS_EmptySet
<1>2. CASE S # {}
  <2>1. PICK x : S = {x}
    BY <1>2
  <2>. QED  BY <2>1, FS_Singleton
<1>. QED  BY <1>1, <1>2

(* Every reachable organisation has one owner from its creation on, nobody *)
(* has two invitations to one pending, and the pages of the list miss      *)
(* none: for any people, organisations, requests and clock.                *)
THEOREM EveryOrganizationIsSound == Spec => []OrganizationsAreSound
<1>1. ASSUME OrgInv
      PROVE  OrganizationsAreSound
  <2>. USE <1>1 DEF OrgInv
  <2>1. TypeOK
    BY DEF RowsAreValid, CommandsAreShaped, Shaped, Written, TypeOK
  <2>2. OneOwner
    <3>1. ASSUME NEW o \in Orgs
          PROVE  Cardinality({p \in Principals : role[o][p] = "owner"})
                   = (IF created[o] = -1 THEN 0 ELSE 1)
      <4>1. CASE created[o] = -1
        <5>1. {p \in Principals : role[o][p] = "owner"} = {}
          BY <4>1 DEF OwnersAreAlone
        <5>. QED  BY <4>1, <5>1, FS_EmptySet
      <4>2. CASE created[o] # -1
        <5>1. PICK p \in Principals : \A q \in Principals : role[o][q] = "owner" <=> q = p
          BY <4>2 DEF OwnersAreAlone
        <5>2. {q \in Principals : role[o][q] = "owner"} = {p}
          BY <5>1
        <5>. QED  BY <4>2, <5>2, FS_Singleton
      <4>. QED  BY <4>1, <4>2
    <3>. QED  BY <3>1 DEF OneOwner
  <2>3. OnePending
    <3>1. \A o \in Orgs, p \in Principals : \A i, j \in Pending(o, p) : i = j
      BY DEF InvitationsAreApart, Pending
    <3>. QED  BY <3>1, AtMostOne DEF OnePending
  <2>4. PagesAreFull
    <3>1. \A p : IsFiniteSet(Mine(p))
      <4>1. \A p : Mine(p) \subseteq {o \in Orgs : created[o] # -1}
        BY DEF Mine
      <4>. QED  BY <4>1, FS_Subset DEF OwnersAreAlone
    <3>. QED  BY <3>1, PagesFill DEF PagesAreFull
  <2>. QED  BY <2>1, <2>2, <2>3, <2>4 DEF OrganizationsAreSound
<1>. QED  BY <1>1, OrgInvariant, PTL
-----------------------------------------------------------------------------
(* What each step writes.  WhatCreates and the others name it for a step   *)
(* that writes; the rest leave the tables alone.                           *)
WhatCreates(r) ==
  /\ tx[r].org \in Orgs /\ tx[r].subject \in Principals /\ created[tx[r].org] = -1
  /\ role' = [role EXCEPT ![tx[r].org][tx[r].subject] = "owner"] /\ UNCHANGED invitation
WhatInvites(r) ==
  /\ tx[r].id \in Invitations /\ invitation[tx[r].id] = NoInvitation
  /\ tx[r].op = "invite" /\ tx'[r] = Idle
  /\ Authorized(role[tx[r].org][tx[r].actor], tx[r].role)
  /\ invitation' = [invitation EXCEPT ![tx[r].id] =
         Invitation(tx[r].org, tx[r].actor, tx[r].subject, tx[r].role, "pending", tx[r].now)]
  /\ UNCHANGED <<created, role>>
WhatRevokes(r) ==
  /\ tx[r].id \in Invitations /\ invitation[tx[r].id].status = "pending"
  /\ invitation' = [invitation EXCEPT ![tx[r].id] = Resolved(tx[r].id, "revoked", tx[r].now)]
  /\ UNCHANGED <<created, role>>
WhatAccepts(r) ==
  LET i == invitation[tx[r].id]
  IN  /\ tx[r].id \in Invitations /\ i.status = "pending" /\ Written(i)
      /\ ~IsMember(i.org, i.invitee) /\ i.created <= tx[r].now /\ tx[r].now < i.expires
      /\ role' = [role EXCEPT ![i.org][i.invitee] = i.role]
      /\ invitation' = [invitation EXCEPT ![tx[r].id] = Resolved(tx[r].id, "accepted", tx[r].now)]
WhatChanges(r) ==
  /\ tx[r].org \in Orgs /\ tx[r].subject \in Principals
  /\ tx[r].op = "change" /\ tx'[r] = Idle /\ IsMember(tx[r].org, tx[r].subject)
  /\ Authorized(role[tx[r].org][tx[r].actor], tx[r].role)
  /\ role' = [role EXCEPT ![tx[r].org][tx[r].subject] = tx[r].role] /\ UNCHANGED invitation

LEMMA WhatIsWritten ==
  ASSUME OrgInv, [Next]_vars
  PROVE  \/ UNCHANGED tables
         \/ \E r \in Requests : \/ WhatCreates(r) \/ WhatInvites(r) \/ WhatRevokes(r)
                                \/ WhatAccepts(r) \/ WhatChanges(r)
<1>1. ASSUME NEW r \in Requests, InsertOrganization(r)
      PROVE  UNCHANGED tables \/ WhatCreates(r)
  <2>1. tx[r].op = "create"
    BY <1>1 DEF InsertOrganization
  <2>2. tx[r].org \in Orgs /\ tx[r].subject \in Principals
    BY <2>1, WhatIsHeld DEF Shaped, Idle, Creates, Invites, Accepting, Changes
  <2>. QED  BY <1>1, <2>2 DEF InsertOrganization, WhatCreates, Refuse
<1>2. ASSUME NEW r \in Requests, InsertInvitation(r)
      PROVE  UNCHANGED tables \/ WhatInvites(r)
  <2>1. tx[r].op = "invite" /\ tx[r].stage = "insert"
    BY <1>2 DEF InsertInvitation
  <2>2. tx[r].id \in Invitations /\ invitation[tx[r].id] = NoInvitation
    BY <2>1, WhatIsHeld DEF OrgInv, IdsAreFresh, Shaped, Idle, Creates, Invites, Accepting, Changes
  <2>3. Authorized(role[tx[r].org][tx[r].actor], tx[r].role)
    BY <2>1, WhatIsHeld DEF Trusted
  <2>. QED  BY <1>2, <2>1, <2>2, <2>3, Commits DEF InsertInvitation, WhatInvites, Refuse
<1>3. ASSUME NEW r \in Requests, LockInvitation(r)
      PROVE  UNCHANGED tables \/ WhatRevokes(r)
  <2>1. tx[r].stage = "invitation"
    BY <1>3 DEF LockInvitation
  <2>2. tx[r].id \in Invitations
    BY <2>1, WhatIsHeld DEF Shaped, Idle, Creates, Invites, Accepting, Changes
  <2>. QED  BY <1>3, <2>2 DEF LockInvitation, WhatRevokes, Refuse
<1>4. ASSUME NEW r \in Requests, InsertMembership(r)
      PROVE  UNCHANGED tables \/ WhatAccepts(r)
  <2>. DEFINE i == invitation[tx[r].id]
  <2>1. Holding(tx[r])
    BY <1>4 DEF InsertMembership, Holding
  <2>2. /\ tx[r].id \in Invitations /\ Written(i) /\ i.status = "pending"
        /\ tx[r].now < i.expires /\ tx[r].now \in 0..MaxTime /\ i \in Rows
    BY <2>1, WhatIsHeld DEF OrgInv, AcceptedArePending, RowsAreValid, Commands
  <2>3. ~(tx[r].now < i.created) => i.created <= tx[r].now
    BY <2>2 DEF Rows
  <2>. QED  BY <1>4, <2>2, <2>3 DEF InsertMembership, WhatAccepts, Refuse
<1>5. ASSUME NEW r \in Requests, LockTarget(r)
      PROVE  UNCHANGED tables \/ WhatChanges(r)
  <2>1. tx[r].stage = "target"
    BY <1>5 DEF LockTarget
  <2>2. tx[r].op = "change" /\ tx[r].org \in Orgs /\ tx[r].subject \in Principals
    BY <2>1, WhatIsHeld DEF Shaped, Idle, Creates, Invites, Accepting, Changes, Acts
  <2>3. Authorized(role[tx[r].org][tx[r].actor], tx[r].role)
    BY <2>1, <2>2, WhatIsHeld DEF Trusted
  <2>. QED  BY <1>5, <2>2, <2>3, Commits DEF LockTarget, WhatChanges, IsMember, Refuse
<1>6. ASSUME NEW r \in Requests, \/ Begin(r) \/ LockActor(r) \/ CheckMember(r)
                                 \/ GiveUp(r) \/ AbortDeadlock(r)
      PROVE  UNCHANGED tables
  BY <1>6 DEF Begin, StartCreate, StartAccept, StartChange, StartInvite, Start, LockActor,
     CheckMember, GiveUp, AbortDeadlock, Refuse, Advance
<1>7. ASSUME (\E p \in Principals : Eligibility(p)) \/ Tick \/ UNCHANGED vars
      PROVE  UNCHANGED tables
  BY <1>7 DEF Eligibility, Tick, vars
<1>. QED  BY <1>1, <1>2, <1>3, <1>4, <1>5, <1>6, <1>7 DEF Next, Step

(* Nobody becomes a member otherwise than by creating the organisation or  *)
(* by an invitation that is accepted inside its lifetime, and an accepted  *)
(* or revoked invitation stays so, whatever requests interleave.           *)
THEOREM MembersAreInvited == Spec => MembershipIsGranted
<1>1. ASSUME OrgInv, [Next]_vars
      PROVE  GrantsMembership
  <2>1. role \in [Orgs -> [Principals -> Roles \cup {"none"}]] /\ invitation \in [Invitations -> Rows]
    BY <1>1 DEF OrgInv, RowsAreValid
  <2>2. CASE UNCHANGED tables
    BY <2>2 DEF tables, GrantsMembership, IsMember
  <2>3. ASSUME NEW r \in Requests, WhatCreates(r)
        PROVE  GrantsMembership
    BY <2>1, <2>3 DEF WhatCreates, GrantsMembership, IsMember
  <2>4. ASSUME NEW r \in Requests, WhatInvites(r)
        PROVE  GrantsMembership
    BY <2>1, <2>4, NoInvitationIsNothing DEF WhatInvites, GrantsMembership, IsMember, Invitation
  <2>5. ASSUME NEW r \in Requests, WhatRevokes(r)
        PROVE  GrantsMembership
    BY <2>1, <2>5 DEF WhatRevokes, GrantsMembership, IsMember, Resolved, Rows
  <2>6. ASSUME NEW r \in Requests, WhatAccepts(r)
        PROVE  GrantsMembership
    <3>. DEFINE n == tx[r].id
                i == invitation[n]
    <3>1. /\ n \in Invitations /\ i \in Rows /\ i.org \in Orgs /\ i.invitee \in Principals
          /\ i.status = "pending" /\ ~IsMember(i.org, i.invitee)
          /\ role' = [role EXCEPT ![i.org][i.invitee] = i.role]
          /\ invitation' = [invitation EXCEPT ![n] = Resolved(n, "accepted", tx[r].now)]
      BY <2>1, <2>6 DEF WhatAccepts, Written
    <3>2. /\ invitation'[n].status = "accepted" /\ invitation'[n].resolved = tx[r].now
          /\ \A k \in Invitations : k # n => invitation'[k] = invitation[k]
      BY <2>1, <3>1 DEF Resolved, Rows
    <3>3. Accepts(n, i.org, i.invitee)
      BY <2>6, <3>2 DEF WhatAccepts, Accepts
    <3>. HIDE DEF n, i
    <3>4. role'[i.org][i.invitee] = i.role
      BY <2>1, <3>1
    <3>5. \A o \in Orgs, p \in Principals :
             role'[o][p] # role[o][p] => o = i.org /\ p = i.invitee
      BY <2>1, <3>1
    <3>6. \A o \in Orgs, p \in Principals :
             (~IsMember(o, p) /\ role'[o][p] # "none") =>
                \E k \in Invitations : Accepts(k, o, p) /\ role'[o][p] = invitation[k].role
      BY <3>1, <3>3, <3>4, <3>5 DEF IsMember, i
    <3>. QED  BY <3>1, <3>2, <3>6 DEF GrantsMembership, i
  <2>7. ASSUME NEW r \in Requests, WhatChanges(r)
        PROVE  GrantsMembership
    BY <2>1, <2>7 DEF WhatChanges, GrantsMembership, IsMember
  <2>. QED  BY <1>1, <2>2, <2>3, <2>4, <2>5, <2>6, <2>7, WhatIsWritten
<1>. QED  BY <1>1, OrgInvariant, PTL DEF Spec, MembershipIsGranted

(* A role is changed, and an invitation created, by somebody who has the   *)
(* authority at that moment: the lock on the actor's row keeps what the    *)
(* transaction read first.                                                 *)
THEOREM AuthorityLasts == Spec => AuthorityAtCommit
<1>1. ASSUME OrgInv, [Next]_vars
      PROVE  ActsWithAuthority
  <2>1. role \in [Orgs -> [Principals -> Roles \cup {"none"}]] /\ invitation \in [Invitations -> Rows]
    BY <1>1 DEF OrgInv, RowsAreValid
  <2>2. CASE UNCHANGED tables
    BY <2>2 DEF tables, ActsWithAuthority
  <2>3. ASSUME NEW r \in Requests, WhatCreates(r)
        PROVE  ActsWithAuthority
    <3>1. \A p \in Principals : ~IsMember(tx[r].org, p)
      BY <1>1, <2>3 DEF WhatCreates, OrgInv, OwnersAreAlone, IsMember
    <3>. QED  BY <2>1, <2>3, <3>1 DEF WhatCreates, ActsWithAuthority
  <2>4. ASSUME NEW r \in Requests, WhatInvites(r)
        PROVE  ActsWithAuthority
    <3>1. HasAuthority(tx[r].org, tx[r].role)
      BY <2>4 DEF WhatInvites, HasAuthority
    <3>. QED  BY <2>1, <2>4, <3>1 DEF WhatInvites, ActsWithAuthority, Invitation
  <2>5. ASSUME NEW r \in Requests, WhatRevokes(r)
        PROVE  ActsWithAuthority
    BY <2>1, <2>5, NoInvitationIsNothing DEF WhatRevokes, ActsWithAuthority
  <2>6. ASSUME NEW r \in Requests, WhatAccepts(r)
        PROVE  ActsWithAuthority
    BY <2>1, <2>6, NoInvitationIsNothing DEF WhatAccepts, Written, ActsWithAuthority, IsMember
  <2>7. ASSUME NEW r \in Requests, WhatChanges(r)
        PROVE  ActsWithAuthority
    <3>1. HasAuthority(tx[r].org, tx[r].role)
      BY <2>7 DEF WhatChanges, HasAuthority
    <3>. QED  BY <2>1, <2>7, <3>1 DEF WhatChanges, ActsWithAuthority
  <2>. QED  BY <1>1, <2>2, <2>3, <2>4, <2>5, <2>6, <2>7, WhatIsWritten
<1>. QED  BY <1>1, OrgInvariant, PTL DEF Spec, AuthorityAtCommit
=============================================================================
