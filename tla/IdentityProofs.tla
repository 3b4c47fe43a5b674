--------------------------- MODULE IdentityProofs ---------------------------
(***************************************************************************)
(* Safety of the identity module for any numbers of requests, sessions,    *)
(* challenges, tickets and versions, any lifetimes and any clock.          *)
(***************************************************************************)
EXTENDS Identity, FiniteSetTheorems, TLAPS

-----------------------------------------------------------------------------
(* The inductive invariant.  First what the tables satisfy whatever the    *)
(* commands do.                                                            *)

\* An account exists completely or not at all.
AccountOK ==
    IF account.status = "absent"
    THEN account = NoAccount
    ELSE account.version > 0 /\ account.epoch > 0

\* No session is ahead of the account; one that is level with it was opened
\* with its password.
SessionsOK ==
    \A s \in Sessions :
        /\ sessions[s].epoch = 0 => sessions[s] = NoSession
        /\ sessions[s].epoch <= account.epoch
        /\ sessions[s].epoch = account.epoch =>
              sessions[s].proof = account.version
        /\ sessions[s].epoch # 0 =>
              /\ sessions[s].seen < sessions[s].absolute
              /\ sessions[s].idle <= sessions[s].absolute

ChallengesOK ==
    /\ \A ch \in Challenges :
          /\ challenges[ch].version = 0 => challenges[ch] = NoChallenge
          /\ challenges[ch].version <= account.version
          /\ challenges[ch].used <= 1
          /\ Outstanding(ch) => challenges[ch].version = account.version
    /\ \A c1, c2 \in Challenges :
          /\ Outstanding(c1)
          /\ Outstanding(c2)
          /\ challenges[c1].purpose = challenges[c2].purpose
          => c1 = c2

TicketsOK ==
    \A t \in Tickets :
        /\ tickets[t].used <= 1
        /\ tickets[t].used = 0 => tickets[t].socket = NoId
        /\ tickets[t] # NoTicket => tickets[t].session \in Sessions

StoreOK ==
    /\ AccountsTypeOK
    /\ AccountOK
    /\ SessionsOK
    /\ ChallengesOK
    /\ TicketsOK
    /\ VerifiedByChallenge

\* What a request holds names rows that exist; a snapshot it read is of an
\* account that exists, and what it saw verified stays verified.
CommandOK(c) ==
    /\ c.op \in {"verify", "reset"} => c.token \in Challenges
    /\ c.stage = "resolve" => c.op \in Authenticated
    /\ c.op \in Authenticated =>
          c.session \in Sessions /\ sessions[c.session].epoch # 0
    /\ c.op = "upgrade" =>
          c.token \in Tickets /\ tickets[c.token] # NoTicket
    /\ /\ c.op \in {"request_verification", "request_reset"}
       /\ c.stage \in {"stamp", "commit"}
       => c.version # 0
    /\ c.verified => account.verified

CommandsOK == \A r \in Requests : CommandOK(cmd[r])

Inv == TypeOK /\ StoreOK /\ CommandsOK

-----------------------------------------------------------------------------
(* What a step does to the store: nothing, or one transaction whose        *)
(* arguments are known well enough.                                        *)
StoreStep ==
    \/ UNCHANGED accountVars
    \/ \E now \in Nat, ch \in Challenges : Register(ch, now)
    \/ \E now \in Nat, s \in Sessions, v, e \in 0..MaxVersion :
          CommitLogin(s, v, e, now)
    \/ \E now \in Nat, s \in Sessions :
          Admit(s, now) \/ Latch(s, now) \/ RevokeSession(s, now)
    \/ account.epoch # 0 /\ RevokeAll(account.epoch)
    \/ \E now \in Nat, t \in Tickets, s \in Sessions, e \in 0..MaxVersion :
          IssueTicket(t, s, e, now)
    \/ \E now \in Nat, t \in Tickets :
          \/ ConsumeTicket(t, now, NoId)
          \/ ConsumeTicket(t, now, tickets[t].session)
    \/ \E now \in Nat, ch \in Challenges, p \in Purposes, v \in Versions :
          IssueChallenge(ch, p, v, now)
    \/ \E now \in Nat, ch \in Challenges, v \in 0..MaxVersion :
          VerifyEmail(ch, v, now)
    \/ \E now \in Nat, v, e \in 0..MaxVersion :
          account.epoch # 0 /\ ChangePassword(v, e, now)
    \/ \E now \in Nat, ch \in Challenges, v, e \in 0..MaxVersion,
          setVerified \in BOOLEAN :
          /\ setVerified \/ account.verified
          /\ ResetPassword(ch, v, e, now, setVerified)
    \/ Suspend
    \/ Activate

(* Every step of the commands is such a step of the store.                 *)
LEMMA StoreMoves ==
    ASSUME TypeOK, StoreOK, CommandsOK, [Next]_vars
    PROVE  StoreStep
<1> USE DEF TypeOK
<1>1. CASE UNCHANGED vars
  BY <1>1 DEF vars, StoreStep
<1>2. CASE Tick
  BY <1>2 DEF Tick, StoreStep
<1>3. CASE Operator
  BY <1>3 DEF Operator, StoreStep
<1>4. ASSUME NEW r \in Requests, Request(r)
      PROVE  StoreStep
  <2>1. cmd[r] \in Command /\ CommandOK(cmd[r])
    BY DEF CommandsOK
  <2>2. CASE Resolve(r) \/ ResolveLatches(r)
    <3>1. cmd[r].session \in Sessions /\ cmd[r].now \in Nat
      BY <2>1, <2>2 DEF Resolve, ResolveLatches, Command, CommandOK
    <3> QED
      BY <2>2, <3>1 DEF Resolve, ResolveLatches, StoreStep
  <2>3. CASE Commit(r)
    <3> DEFINE c == cmd[r]
    <3>1. c.now \in Nat /\ c.version \in 0..MaxVersion /\ c.epoch \in 0..MaxVersion
          /\ c.verified \in BOOLEAN
      BY <2>1 DEF Command
    <3>2. CASE c.op = "register"
      BY <2>3, <3>1, <3>2 DEF Commit, StoreStep
    <3>3. CASE c.op = "login"
      BY <2>3, <3>1, <3>3 DEF Commit, StoreStep
    <3>4. CASE c.op \in {"request_verification", "request_reset"}
      BY <2>1, <2>3, <3>1, <3>4
      DEF Commit, StoreStep, CommandOK, PurposeOf, Purposes, Versions
    <3>5. CASE c.op = "verify"
      BY <2>1, <2>3, <3>1, <3>5 DEF Commit, StoreStep, CommandOK
    <3>6. CASE c.op = "reset"
      BY <2>1, <2>3, <3>1, <3>6 DEF Commit, StoreStep, CommandOK
    <3>7. CASE c.op \in Authenticated
      <4>1. c.session \in Sessions /\ account.epoch # 0
        BY <2>1, <3>7, AccountAssumption
        DEF CommandOK, StoreOK, SessionsOK, AccountsTypeOK, Account, Session
      <4>2. CASE c.op = "change"
        BY <2>3, <3>1, <4>1, <4>2 DEF Commit, StoreStep
      <4>3. CASE c.op = "logout"
        BY <2>3, <3>1, <4>1, <4>3 DEF Commit, StoreStep
      <4>4. CASE c.op = "logout_all"
        BY <2>3, <4>1, <4>4 DEF Commit, StoreStep, RevokeAll
      <4>5. CASE c.op = "ticket"
        BY <2>3, <3>1, <4>1, <4>5 DEF Commit, StoreStep
      <4>6. CASE c.op = "upgrade"
        <5>1. c.token \in Tickets
          BY <2>1, <4>6 DEF CommandOK
        <5> QED
          BY <2>3, <3>1, <4>6, <5>1 DEF Commit, StoreStep, SocketFor
      <4> QED
        BY <3>7, <4>2, <4>3, <4>4, <4>5, <4>6 DEF Authenticated
    <3> QED
      BY <2>3, <3>2, <3>3, <3>4, <3>5, <3>6, <3>7 DEF Commit, Authenticated
  <2>4. CASE UNCHANGED accountVars
    BY <2>4 DEF StoreStep
  <2> QED
    BY <1>4, <2>2, <2>3, <2>4
    DEF Request, StartRegister, StartLogin, StartRequest, StartRedeem,
        StartAuthenticated, Start, FindLogin, FindChange, FindRequest,
        FindChallenge, Stamp, Fail, GiveUp
<1> QED
  BY <1>1, <1>2, <1>3, <1>4 DEF Next

-----------------------------------------------------------------------------
(* The rows a transaction writes have the types of their tables.           *)
LEMMA NewRows ==
    ASSUME AccountsTypeOK
    PROVE  /\ \A p \in Purposes, v \in Versions, now \in Nat :
                 NewChallenge(p, v, now) \in Challenge
           /\ \A ps \in SUBSET Purposes :
                 Invalidated(challenges, ps) \in [Challenges -> Challenge]
           /\ \A ch \in Challenges : Consumed(ch) \in [Challenges -> Challenge]
<1> USE DEF AccountsTypeOK
<1>1. ASSUME NEW p \in Purposes, NEW v \in Versions, NEW now \in Nat
      PROVE  NewChallenge(p, v, now) \in Challenge
  BY <1>1, AccountAssumption DEF NewChallenge, Challenge, Versions
<1>2. ASSUME NEW ps \in SUBSET Purposes
      PROVE  Invalidated(challenges, ps) \in [Challenges -> Challenge]
  <2>1. \A ch \in Challenges :
           [challenges[ch] EXCEPT !.invalidated = TRUE] \in Challenge
    BY DEF Challenge
  <2> QED
    BY <2>1 DEF Invalidated
<1>3. ASSUME NEW ch \in Challenges
      PROVE  Consumed(ch) \in [Challenges -> Challenge]
  <2>1. [challenges[ch] EXCEPT !.used = @ + 1] \in Challenge
    BY DEF Challenge
  <2> QED
    BY <2>1 DEF Consumed
<1> QED
  BY <1>1, <1>2, <1>3

(* Every step of the store keeps the types of its tables.                  *)
LEMMA StoreTypes ==
    ASSUME AccountsTypeOK, StoreStep
    PROVE  AccountsTypeOK'
<1> USE DEF AccountsTypeOK
<1>1. CASE UNCHANGED accountVars
  BY <1>1 DEF accountVars
<1>2. ASSUME NEW now \in Nat, NEW ch \in Challenges, Register(ch, now)
      PROVE  AccountsTypeOK'
  <2>1. NewChallenge("verification", 1, now) \in Challenge
    BY NewRows, AccountAssumption DEF Purposes, Versions
  <2>2. account' \in Account
    BY <1>2, AccountAssumption DEF Register, Account
  <2> QED
    BY <1>2, <2>1, <2>2 DEF Register
<1>3. ASSUME NEW now \in Nat, NEW s \in Sessions, NEW v \in 0..MaxVersion,
             NEW e \in 0..MaxVersion, CommitLogin(s, v, e, now)
      PROVE  AccountsTypeOK'
  BY <1>3, AccountAssumption DEF CommitLogin, Session
<1>4. ASSUME NEW now \in Nat, NEW s \in Sessions,
             Admit(s, now) \/ Latch(s, now) \/ RevokeSession(s, now)
      PROVE  AccountsTypeOK'
  <2>1. CASE Admit(s, now)
    <3>1. now + IdleTtl \in Nat /\ sessions[s] \in Session
      BY AccountAssumption
    <3>2. Touched(s, now) \in Session
      BY <3>1 DEF Touched, Session
    <3> QED
      BY <1>4, <2>1, <3>2 DEF Admit
  <2>2. CASE Latch(s, now) \/ RevokeSession(s, now)
    BY <1>4, <2>2 DEF Latch, RevokeSession, Session
  <2> QED
    BY <1>4, <2>1, <2>2
<1>5. CASE RevokeAll(account.epoch) \/ Suspend
  <2>1. account.epoch + 1 \in 0..MaxVersion
    BY <1>5, AccountAssumption DEF RevokeAll, Suspend, Account
  <2> QED
    BY <1>5, <2>1 DEF RevokeAll, Suspend, Account
<1>6. ASSUME NEW now \in Nat, NEW t \in Tickets, NEW s \in Sessions,
             NEW e \in 0..MaxVersion, IssueTicket(t, s, e, now)
      PROVE  AccountsTypeOK'
  BY <1>6, AccountAssumption DEF IssueTicket, Ticket
<1>7. ASSUME NEW now \in Nat, NEW t \in Tickets,
             \/ ConsumeTicket(t, now, NoId)
             \/ ConsumeTicket(t, now, tickets[t].session)
      PROVE  AccountsTypeOK'
  BY <1>7 DEF ConsumeTicket, Ticket
<1>8. ASSUME NEW now \in Nat, NEW ch \in Challenges, NEW p \in Purposes,
             NEW v \in Versions, IssueChallenge(ch, p, v, now)
      PROVE  AccountsTypeOK'
  <2>1. /\ NewChallenge(p, v, now) \in Challenge
        /\ Invalidated(challenges, {p}) \in [Challenges -> Challenge]
    BY NewRows
  <2> QED
    BY <1>8, <2>1 DEF IssueChallenge
<1>9. ASSUME NEW now \in Nat, NEW ch \in Challenges, NEW v \in 0..MaxVersion,
             VerifyEmail(ch, v, now)
      PROVE  AccountsTypeOK'
  <2>1. Consumed(ch) \in [Challenges -> Challenge]
    BY NewRows
  <2>2. account' \in Account
    BY <1>9 DEF VerifyEmail, Account
  <2> QED
    BY <1>9, <2>1, <2>2 DEF VerifyEmail
<1>10. ASSUME NEW setVerified \in BOOLEAN, NEW v, NEW e, ReplaceGuard(v, e)
       PROVE  Replaced(setVerified) \in Account
  <2>1. /\ account.epoch + 1 \in 0..MaxVersion
        /\ account.version + 1 \in 0..MaxVersion
    BY <1>10, AccountAssumption DEF ReplaceGuard, Account
  <2> QED
    BY <2>1 DEF Replaced, Account
<1>11. ASSUME NEW now \in Nat, NEW v \in 0..MaxVersion, NEW e \in 0..MaxVersion,
              ChangePassword(v, e, now)
       PROVE  AccountsTypeOK'
  <2>1. Invalidated(challenges, Purposes) \in [Challenges -> Challenge]
    BY NewRows
  <2> QED
    BY <1>10, <1>11, <2>1 DEF ChangePassword
<1>12. ASSUME NEW now \in Nat, NEW ch \in Challenges, NEW v \in 0..MaxVersion,
              NEW e \in 0..MaxVersion, NEW setVerified \in BOOLEAN,
              ResetPassword(ch, v, e, now, setVerified)
       PROVE  AccountsTypeOK'
  <2>1. Invalidated(challenges, Purposes) \in [Challenges -> Challenge]
    BY NewRows
  <2>2. [challenges[ch] EXCEPT !.used = @ + 1] \in Challenge
    BY DEF Challenge
  <2> QED
    BY <1>10, <1>12, <2>1, <2>2 DEF ResetPassword
<1>13. CASE Activate
  BY <1>13 DEF Activate, Account
<1> QED
  BY <1>1, <1>2, <1>3, <1>4, <1>5, <1>6, <1>7, <1>8, <1>9, <1>11, <1>12, <1>13
  DEF StoreStep

-----------------------------------------------------------------------------
(* What the transactions are to each row, in terms of what they change.    *)

\* The account moves on: version, epoch or both are new.
MovesOn ==
    /\ account'.epoch = account.epoch + 1
    /\ account'.version >= account.version
    /\ account'.status # "absent"
    /\ account.status # "absent"

\* It stays at its version and epoch.
Stays ==
    /\ account'.epoch = account.epoch
    /\ account'.version = account.version
    /\ account'.status = "absent" => account' = account
    /\ account.status = "absent" => account' = account

(* Every transaction registers the account, moves it on or leaves version  *)
(* and epoch alone.                                                        *)
LEMMA AccountMoves ==
    ASSUME StoreOK, StoreStep
    PROVE  \/ \E now \in Nat, ch \in Challenges : Register(ch, now)
           \/ MovesOn /\ UNCHANGED sessions
           \/ Stays
<1> USE DEF StoreOK, AccountsTypeOK, AccountOK
<1>1. CASE RevokeAll(account.epoch) /\ account.epoch # 0
  <2>1. account.status # "absent" /\ account \in Account
    BY <1>1 DEF NoAccount
  <2>2. /\ account' = [account EXCEPT !.epoch = account.epoch + 1]
        /\ UNCHANGED sessions
    BY <1>1 DEF RevokeAll
  <2> QED
    BY <2>1, <2>2 DEF MovesOn, Account
<1>2. CASE Suspend
  BY <1>2 DEF Suspend, MovesOn, Account
<1>3. CASE Activate
  BY <1>3 DEF Activate, Stays, Account
<1>4. ASSUME NEW now, NEW v, NEW e, account.epoch # 0, ChangePassword(v, e, now)
      PROVE  MovesOn /\ UNCHANGED sessions
  BY <1>4 DEF ChangePassword, Replaced, MovesOn, Account, NoAccount
<1>5. ASSUME NEW now, NEW ch \in Challenges, NEW v, NEW e, NEW setVerified,
             ResetPassword(ch, v, e, now, setVerified)
      PROVE  MovesOn /\ UNCHANGED sessions
  <2>1. account.version # 0
    BY <1>5 DEF ResetPassword, Consumable, Outstanding, ChallengesOK, Challenge,
                Account
  <2> QED
    BY <1>5, <2>1 DEF ResetPassword, Replaced, MovesOn, Account, NoAccount
<1>6. ASSUME NEW now, NEW ch \in Challenges, NEW v, VerifyEmail(ch, v, now)
      PROVE  Stays
  <2>1. account.version # 0
    BY <1>6 DEF VerifyEmail, Consumable, Outstanding, ChallengesOK, Challenge,
                Account
  <2> QED
    BY <1>6, <2>1 DEF VerifyEmail, Stays, Account, NoAccount
<1>7. CASE UNCHANGED account
  BY <1>7 DEF Stays
<1> QED
  BY <1>1, <1>2, <1>3, <1>4, <1>5, <1>6, <1>7
  DEF StoreStep, accountVars, CommitLogin, Admit, Latch, RevokeSession,
      IssueTicket, ConsumeTicket, IssueChallenge

(* An account exists completely or not at all.                             *)
LEMMA AccountStep ==
    ASSUME StoreOK, StoreStep
    PROVE  AccountOK'
<1> USE DEF StoreOK, AccountsTypeOK, AccountOK
<1>1. CASE \E now \in Nat, ch \in Challenges : Register(ch, now)
  BY <1>1 DEF Register
<1>2. CASE MovesOn
  <2>1. account \in Account /\ account' \in Account
    BY StoreTypes
  <2> QED
    BY <1>2, <2>1 DEF MovesOn, Account
<1>3. CASE Stays
  BY <1>3 DEF Stays
<1> QED
  BY <1>1, <1>2, <1>3, AccountMoves

SessionOK(s) ==
    /\ sessions[s].epoch = 0 => sessions[s] = NoSession
    /\ sessions[s].epoch <= account.epoch
    /\ sessions[s].epoch = account.epoch => sessions[s].proof = account.version
    /\ sessions[s].epoch # 0 =>
          /\ sessions[s].seen < sessions[s].absolute
          /\ sessions[s].idle <= sessions[s].absolute

(* A session is never ahead of its account, and level with it only if it   *)
(* was opened with its password.                                           *)
LEMMA SessionsStep ==
    ASSUME StoreOK, StoreStep
    PROVE  SessionsOK'
<1> USE DEF StoreOK, AccountsTypeOK
<1> SUFFICES ASSUME NEW x \in Sessions
             PROVE  SessionOK(x)'
  BY DEF SessionsOK, SessionOK
<1>1. SessionOK(x) /\ sessions[x] \in Session /\ account \in Account
  BY DEF SessionsOK, SessionOK
<1>2. CASE \E now \in Nat, ch \in Challenges : Register(ch, now)
  <2>1. sessions[x] = NoSession /\ UNCHANGED sessions /\ account'.epoch = 1
    BY <1>1, <1>2 DEF Register, AccountOK, NoAccount, SessionOK, Session
  <2> QED
    BY <2>1 DEF SessionOK, NoSession
<1>3. CASE MovesOn /\ UNCHANGED sessions
  BY <1>1, <1>3 DEF MovesOn, SessionOK, Session, Account
<1>4. CASE Stays
  <2>1. CASE sessions'[x] = sessions[x]
    BY <1>1, <1>4, <2>1 DEF Stays, SessionOK
  <2>2. ASSUME NEW now \in Nat, NEW v, NEW e, CommitLogin(x, v, e, now)
        PROVE  SessionOK(x)'
    <3>1. account.epoch > 0
      BY <2>2 DEF CommitLogin, Admissible, AccountOK
    <3>2. /\ now < now + AbsoluteTtl
          /\ now + IdleTtl <= now + AbsoluteTtl
      BY AccountAssumption
    <3> QED
      BY <1>1, <2>2, <3>1, <3>2 DEF CommitLogin, SessionOK, Account
  <2>3. ASSUME NEW now \in Nat, Admit(x, now)
        PROVE  SessionOK(x)'
    <3>1. /\ now < sessions[x].absolute
          /\ sessions[x].epoch # 0
      BY <1>1, <2>3 DEF Admit, Usable, Expired, Session
    <3>2. now + IdleTtl \in Nat
      BY AccountAssumption
    <3> QED
      BY <1>1, <2>3, <3>1, <3>2 DEF Admit, Touched, SessionOK, Session
  <2>4. ASSUME NEW now \in Nat, Latch(x, now) \/ RevokeSession(x, now)
        PROVE  SessionOK(x)'
    BY <1>1, <2>4 DEF Latch, RevokeSession, SessionOK, Session
  <2>5. \/ sessions'[x] = sessions[x]
        \/ \E now \in Nat, v, e \in 0..MaxVersion : CommitLogin(x, v, e, now)
        \/ \E now \in Nat :
              Admit(x, now) \/ Latch(x, now) \/ RevokeSession(x, now)
    BY DEF StoreStep, accountVars, Register, CommitLogin, Admit, Latch,
           RevokeSession, RevokeAll, IssueTicket, ConsumeTicket, IssueChallenge,
           VerifyEmail, ChangePassword, ResetPassword, Suspend, Activate
  <2> QED
    BY <2>1, <2>2, <2>3, <2>4, <2>5
<1> QED
  BY <1>2, <1>3, <1>4, AccountMoves

-----------------------------------------------------------------------------
ChallengeOK(ch) ==
    /\ challenges[ch].version = 0 => challenges[ch] = NoChallenge
    /\ challenges[ch].version <= account.version
    /\ challenges[ch].used <= 1
    /\ Outstanding(ch) => challenges[ch].version = account.version

Distinct(c1, c2) ==
    /\ Outstanding(c1)
    /\ Outstanding(c2)
    /\ challenges[c1].purpose = challenges[c2].purpose
    => c1 = c2

(* What a transaction that withdraws some purposes does to a row it does   *)
(* not store or consume itself.                                            *)
Withdraws(purposes, ch) ==
    challenges'[ch] = IF ch \in OfPurpose(purposes)
                      THEN [challenges[ch] EXCEPT !.invalidated = TRUE]
                      ELSE challenges[ch]

(* Such a row can be used afterwards only if it could before and has       *)
(* another purpose.                                                        *)
LEMMA Withdrawn ==
    ASSUME AccountsTypeOK, NEW purposes, NEW ch \in Challenges,
           Withdraws(purposes, ch)
    PROVE  /\ challenges'[ch].version = challenges[ch].version
           /\ challenges'[ch].used = challenges[ch].used
           /\ challenges'[ch].purpose = challenges[ch].purpose
           /\ Outstanding(ch)' <=>
                 Outstanding(ch) /\ challenges[ch].purpose \notin purposes
           /\ ~Outstanding(ch) => challenges'[ch] = challenges[ch]
<1>1. challenges[ch] \in Challenge
  BY DEF AccountsTypeOK
<1>2. CASE ch \in OfPurpose(purposes)
  <2>1. challenges'[ch] = [challenges[ch] EXCEPT !.invalidated = TRUE]
    BY <1>2 DEF Withdraws
  <2>2. Outstanding(ch) /\ challenges[ch].purpose \in purposes
    BY <1>2 DEF OfPurpose
  <2> QED
    BY <1>1, <2>1, <2>2 DEF Outstanding, Challenge
<1>3. CASE ch \notin OfPurpose(purposes)
  <2>1. challenges'[ch] = challenges[ch]
    BY <1>3 DEF Withdraws
  <2>2. Outstanding(ch) => challenges[ch].purpose \notin purposes
    BY <1>3 DEF OfPurpose
  <2> QED
    BY <2>1, <2>2 DEF Outstanding
<1> QED
  BY <1>2, <1>3

(* A row stays as it should be when every purpose is withdrawn with the    *)
(* password it was for.                                                    *)
LEMMA RowKept ==
    ASSUME AccountsTypeOK, AccountsTypeOK', NEW purposes,
           NEW ch \in Challenges, ChallengeOK(ch), Withdraws(purposes, ch),
           account'.version >= account.version,
           account'.version # account.version => Purposes \subseteq purposes
    PROVE  ChallengeOK(ch)'
<1>1. /\ challenges[ch] \in Challenge
      /\ account \in Account /\ account' \in Account
  BY DEF AccountsTypeOK
<1>2. /\ challenges'[ch].version = challenges[ch].version
      /\ challenges'[ch].used = challenges[ch].used
      /\ Outstanding(ch)' <=>
            Outstanding(ch) /\ challenges[ch].purpose \notin purposes
      /\ ~Outstanding(ch) => challenges'[ch] = challenges[ch]
  BY Withdrawn
<1>3. Outstanding(ch)' => account'.version = account.version
  BY <1>1, <1>2 DEF Challenge
<1>4. challenges'[ch].version <= account'.version
  BY <1>1, <1>2 DEF ChallengeOK, Account, Challenge
<1>5. challenges'[ch].version = 0 => challenges'[ch] = NoChallenge
  BY <1>2 DEF ChallengeOK, Outstanding
<1> QED
  BY <1>2, <1>3, <1>4, <1>5 DEF ChallengeOK

(* Whatever a transaction stores, at most one challenge of a purpose can   *)
(* be used, only with the current password, and at most once.              *)
LEMMA ChallengesStep ==
    ASSUME StoreOK, StoreStep
    PROVE  ChallengesOK'
<1> DEFINE Wanted == /\ \A ch \in Challenges : ChallengeOK(ch)'
                     /\ \A c1, c2 \in Challenges : Distinct(c1, c2)'
<1>1. \A ch \in Challenges : ChallengeOK(ch) /\ challenges[ch] \in Challenge
  BY DEF StoreOK, AccountsTypeOK, ChallengesOK, ChallengeOK
<1>2. \A c1, c2 \in Challenges : Distinct(c1, c2)
  BY DEF StoreOK, ChallengesOK, Distinct
<1>3. AccountsTypeOK /\ AccountsTypeOK'
  BY StoreTypes DEF StoreOK
<1>4. /\ account \in Account /\ account' \in Account
      /\ challenges \in [Challenges -> Challenge]
      /\ challenges' \in [Challenges -> Challenge]
  BY <1>3 DEF AccountsTypeOK
<1>5. SUFFICES Wanted
  BY DEF ChallengesOK, ChallengeOK, Distinct
<1>6. ASSUME UNCHANGED challenges,
             \/ RevokeAll(account.epoch)
             \/ Suspend
             \/ Activate
             \/ UNCHANGED account
      PROVE  Wanted
  <2>1. account'.version = account.version
    BY <1>4, <1>6 DEF RevokeAll, Suspend, Activate, Account
  <2> QED
    BY <1>1, <1>2, <1>6, <2>1 DEF ChallengeOK, Distinct, Outstanding
<1>7. ASSUME NEW purposes, NEW one \in Challenges,
             \A ch \in Challenges \ {one} : Withdraws(purposes, ch),
             ChallengeOK(one)',
             Outstanding(one)' => challenges'[one].purpose \in purposes,
             account'.version >= account.version,
             account'.version # account.version => Purposes \subseteq purposes
      PROVE  Wanted
  <2>1. ASSUME NEW ch \in Challenges \ {one}
        PROVE  /\ ChallengeOK(ch)'
               /\ Outstanding(ch)' =>
                     /\ Outstanding(ch)
                     /\ challenges[ch].purpose \notin purposes
               /\ challenges'[ch].purpose = challenges[ch].purpose
    BY <1>1, <1>3, <1>7, Withdrawn, RowKept
  <2> QED
    BY <1>2, <1>7, <2>1 DEF Distinct
<1>8. ASSUME NEW now \in Nat, NEW one \in Challenges, Register(one, now)
      PROVE  Wanted
  <2>1. account.version = 0 /\ account'.version = 1
    BY <1>8 DEF Register, StoreOK, AccountOK, NoAccount
  <2>2. ASSUME NEW ch \in Challenges
        PROVE  challenges[ch] = NoChallenge
    <3>1. challenges[ch].version \in 0..MaxVersion
      BY <1>1 DEF Challenge
    <3> QED
      BY <1>1, <2>1, <3>1 DEF ChallengeOK
  <2>3. challenges' = [challenges EXCEPT ![one] =
                          NewChallenge("verification", 1, now)]
    BY <1>8 DEF Register
  <2>4. \A ch \in Challenges \ {one} : Withdraws(Purposes, ch)
    BY <1>4, <2>2, <2>3 DEF Withdraws, OfPurpose, Outstanding, NoChallenge
  <2>5. ChallengeOK(one)' /\ challenges'[one].purpose \in Purposes
    BY <1>4, <2>1, <2>3 DEF ChallengeOK, Outstanding, NewChallenge, Purposes
  <2> QED
    BY <1>7, <2>1, <2>4, <2>5
<1>9. ASSUME NEW now \in Nat, NEW one \in Challenges, NEW p \in Purposes,
             NEW v \in Versions, IssueChallenge(one, p, v, now)
      PROVE  Wanted
  <2>1. challenges' = [Invalidated(challenges, {p}) EXCEPT ![one] =
                          NewChallenge(p, v, now)]
    BY <1>9 DEF IssueChallenge
  <2>2. \A ch \in Challenges \ {one} : Withdraws({p}, ch)
    BY <2>1 DEF Withdraws, Invalidated
  <2>3. challenges'[one] = NewChallenge(p, v, now)
    BY <2>1 DEF Invalidated
  <2>4. account' = account /\ account.version = v /\ v \in Nat /\ v # 0
    BY <1>9, AccountAssumption DEF IssueChallenge, Versions
  <2>5. ChallengeOK(one)' /\ challenges'[one].purpose = p
    BY <2>3, <2>4 DEF ChallengeOK, Outstanding, NewChallenge
  <2> QED
    BY <1>7, <2>2, <2>4, <2>5
<1>10. ASSUME NEW now \in Nat, NEW one \in Challenges, NEW v,
              VerifyEmail(one, v, now)
       PROVE  Wanted
  <2>1. challenges' = [challenges EXCEPT ![one] =
                          [challenges[one] EXCEPT !.used = @ + 1]]
    BY <1>4, <1>10 DEF VerifyEmail, Consumed
  <2>2. \A ch \in Challenges \ {one} : Withdraws({}, ch)
    BY <1>4, <2>1 DEF Withdraws, OfPurpose
  <2>3. Outstanding(one) /\ account'.version = account.version
    BY <1>4, <1>10 DEF VerifyEmail, Consumable, Account
  <2>4. ChallengeOK(one)' /\ ~Outstanding(one)'
    BY <1>1, <1>4, <2>1, <2>3 DEF ChallengeOK, Outstanding, Challenge
  <2> QED
    BY <1>4, <1>7, <2>2, <2>3, <2>4 DEF Account
<1>11. ASSUME NEW now \in Nat, NEW v, NEW e, ChangePassword(v, e, now)
       PROVE  Wanted
  <2>1. \A ch \in Challenges : Withdraws(Purposes, ch)
    BY <1>11 DEF ChangePassword, Withdraws, Invalidated
  <2>2. account'.version = account.version + 1
    BY <1>4, <1>11 DEF ChangePassword, Replaced, Account
  <2>3. \A ch \in Challenges : ChallengeOK(ch)'
    BY <1>1, <1>3, <1>4, <2>1, <2>2, RowKept DEF Account
  <2>4. \A ch \in Challenges : ~Outstanding(ch)'
    BY <1>1, <1>3, <2>1, Withdrawn DEF Challenge
  <2> QED
    BY <2>3, <2>4 DEF Distinct
<1>12. ASSUME NEW now \in Nat, NEW one \in Challenges, NEW v, NEW e,
              NEW setVerified, ResetPassword(one, v, e, now, setVerified)
       PROVE  Wanted
  <2>1. challenges' = [Invalidated(challenges, Purposes) EXCEPT ![one] =
                          [challenges[one] EXCEPT !.used = @ + 1]]
    BY <1>12 DEF ResetPassword
  <2>2. \A ch \in Challenges \ {one} : Withdraws(Purposes, ch)
    BY <2>1 DEF Withdraws, Invalidated
  <2>3. Outstanding(one) /\ account'.version = account.version + 1
    BY <1>4, <1>12 DEF ResetPassword, Consumable, Replaced, Account
  <2>4. challenges'[one] = [challenges[one] EXCEPT !.used = @ + 1]
    BY <2>1 DEF Invalidated
  <2>5. ChallengeOK(one)' /\ ~Outstanding(one)'
    BY <1>1, <1>4, <2>3, <2>4 DEF ChallengeOK, Outstanding, Challenge, Account
  <2> QED
    BY <1>4, <1>7, <2>2, <2>3, <2>5 DEF Account
<1> QED
  BY <1>6, <1>8, <1>9, <1>10, <1>11, <1>12
  DEF StoreStep, accountVars, CommitLogin, Admit, Latch, RevokeSession,
      RevokeAll, IssueTicket, ConsumeTicket, Suspend, Activate

-----------------------------------------------------------------------------
(* Consuming is counted at most once, and a socket is only ever admitted   *)
(* by the commit that consumes its ticket.                                 *)
LEMMA TicketsStep ==
    ASSUME StoreOK, StoreStep
    PROVE  TicketsOK'
<1> USE DEF StoreOK, AccountsTypeOK
<1>1. CASE UNCHANGED tickets
  BY <1>1 DEF TicketsOK
<1>2. ASSUME NEW now, NEW t \in Tickets, NEW s \in Sessions, NEW e,
             IssueTicket(t, s, e, now)
      PROVE  TicketsOK'
  BY <1>2 DEF IssueTicket, TicketsOK
<1>3. ASSUME NEW now, NEW t \in Tickets, NEW socket, ConsumeTicket(t, now, socket)
      PROVE  TicketsOK'
  <2>1. tickets[t].used = 0 /\ tickets[t].session \in Sessions
    BY <1>3 DEF ConsumeTicket, Redeemable, TicketsOK
  <2>2. /\ tickets'[t].used = 1
        /\ tickets'[t].session = tickets[t].session
    BY <1>3, <2>1 DEF ConsumeTicket, Ticket
  <2>3. \A x \in Tickets \ {t} : tickets'[x] = tickets[x]
    BY <1>3 DEF ConsumeTicket
  <2> QED
    BY <2>1, <2>2, <2>3 DEF TicketsOK
<1> QED
  BY <1>1, <1>2, <1>3
  DEF StoreStep, accountVars, Register, CommitLogin, Admit, Latch,
      RevokeSession, RevokeAll, IssueChallenge, VerifyEmail, ChangePassword,
      ResetPassword, Suspend, Activate

(* Only using a mailed challenge verifies the address.                     *)
LEMMA VerifiedStep ==
    ASSUME StoreOK, StoreStep
    PROVE  VerifiedByChallenge'
<1>1. /\ account \in Account
      /\ challenges \in [Challenges -> Challenge]
      /\ AccountsTypeOK
  BY DEF StoreOK, AccountsTypeOK
<1>2. \A ch \in Challenges : ChallengeOK(ch) /\ challenges[ch] \in Challenge
  BY <1>1 DEF StoreOK, ChallengesOK, ChallengeOK
<1>3. VerifiedByChallenge
  BY DEF StoreOK
<1>4. ASSUME account'.verified = account.verified,
             \A ch \in Challenges : challenges'[ch].used = challenges[ch].used
      PROVE  VerifiedByChallenge'
  BY <1>3, <1>4 DEF VerifiedByChallenge
<1>5. ASSUME account'.verified = TRUE, NEW one \in Challenges,
             challenges'[one].used = 1
      PROVE  VerifiedByChallenge'
  BY <1>5 DEF VerifiedByChallenge
<1>6. ASSUME NEW now \in Nat, NEW one \in Challenges, Register(one, now)
      PROVE  VerifiedByChallenge'
  <2>1. account'.verified = account.verified
    <3>1. account = NoAccount
      BY <1>6 DEF Register, StoreOK, AccountOK
    <3>2. account.verified = FALSE
      BY <3>1 DEF NoAccount
    <3>3. account'.verified = FALSE
      BY <1>6 DEF Register
    <3> QED
      BY <3>2, <3>3
  <2>2. \A ch \in Challenges : challenges'[ch].used = challenges[ch].used
    BY <1>1, <1>6 DEF Register, NewChallenge, NoChallenge
  <2> QED
    BY <1>4, <2>1, <2>2
<1>7. ASSUME NEW now \in Nat, NEW one \in Challenges, NEW p \in Purposes,
             NEW v \in Versions, IssueChallenge(one, p, v, now)
      PROVE  VerifiedByChallenge'
  <2>1. \A ch \in Challenges \ {one} : Withdraws({p}, ch)
    BY <1>7 DEF IssueChallenge, Withdraws, Invalidated
  <2>2. challenges'[one].used = 0 /\ challenges[one].used = 0
    BY <1>7 DEF IssueChallenge, Invalidated, NewChallenge, NoChallenge
  <2>3. \A ch \in Challenges : challenges'[ch].used = challenges[ch].used
    BY <1>1, <2>1, <2>2, Withdrawn
  <2>4. account' = account
    BY <1>7 DEF IssueChallenge
  <2> QED
    BY <1>4, <2>3, <2>4
<1>8. ASSUME NEW now \in Nat, NEW one \in Challenges, NEW v,
             VerifyEmail(one, v, now)
      PROVE  VerifiedByChallenge'
  <2>1. challenges'[one].used = 1
    BY <1>1, <1>2, <1>8
    DEF VerifyEmail, Consumed, Consumable, Outstanding, Challenge
  <2> QED
    BY <1>1, <1>5, <1>8, <2>1 DEF VerifyEmail, Account
<1>9. ASSUME NEW now \in Nat, NEW v, NEW e, ChangePassword(v, e, now)
      PROVE  VerifiedByChallenge'
  <2>1. \A ch \in Challenges : Withdraws(Purposes, ch)
    BY <1>9 DEF ChangePassword, Withdraws, Invalidated
  <2>2. account'.verified = account.verified
    BY <1>1, <1>9 DEF ChangePassword, Replaced, Account
  <2> QED
    BY <1>1, <1>4, <2>1, <2>2, Withdrawn
<1>10. ASSUME NEW now \in Nat, NEW one \in Challenges, NEW v, NEW e,
              NEW setVerified \in BOOLEAN, setVerified \/ account.verified,
              ResetPassword(one, v, e, now, setVerified)
       PROVE  VerifiedByChallenge'
  <2>1. challenges'[one] = [challenges[one] EXCEPT !.used = @ + 1]
    BY <1>1, <1>10 DEF ResetPassword, Invalidated
  <2>2. challenges[one].used = 0
    BY <1>10 DEF ResetPassword, Consumable, Outstanding
  <2>3. challenges'[one].used = 1
    BY <1>2, <2>1, <2>2 DEF Challenge
  <2>4. account'.verified = TRUE
    BY <1>1, <1>10 DEF ResetPassword, Replaced, Account
  <2> QED
    BY <1>5, <2>3, <2>4
<1>11. ASSUME UNCHANGED challenges,
              \/ RevokeAll(account.epoch)
              \/ Suspend
              \/ Activate
              \/ UNCHANGED account
       PROVE  VerifiedByChallenge'
  <2>1. account'.verified = account.verified
    BY <1>1, <1>11 DEF RevokeAll, Suspend, Activate, Account
  <2> QED
    BY <1>4, <1>11, <2>1
<1> QED
  BY <1>6, <1>7, <1>8, <1>9, <1>10, <1>11
  DEF StoreStep, accountVars, CommitLogin, Admit, Latch, RevokeSession,
      RevokeAll, IssueTicket, ConsumeTicket, Suspend, Activate

(* The invariant of the store.                                             *)
LEMMA StoreKeeps ==
    ASSUME StoreOK, StoreStep
    PROVE  StoreOK'
<1>1. AccountsTypeOK'
  BY StoreTypes DEF StoreOK
<1>2. AccountOK' /\ SessionsOK' /\ ChallengesOK' /\ TicketsOK'
      /\ VerifiedByChallenge'
  BY AccountStep, SessionsStep, ChallengesStep, TicketsStep, VerifiedStep
<1> QED
  BY <1>1, <1>2 DEF StoreOK

(* What a request relies on between its steps stays true: rows do not go   *)
(* away, and an address once verified stays verified.                      *)
LEMMA StoreGrows ==
    ASSUME StoreOK, StoreStep
    PROVE  /\ account.verified => account'.verified
           /\ \A s \in Sessions :
                 sessions[s].epoch # 0 => sessions'[s].epoch # 0
           /\ \A t \in Tickets :
                 tickets[t] # NoTicket => tickets'[t] # NoTicket
<1>1. /\ account \in Account
      /\ sessions \in [Sessions -> Session]
      /\ tickets \in [Tickets -> Ticket]
  BY DEF StoreOK, AccountsTypeOK
<1>2. ASSUME account.verified
      PROVE  account'.verified
  <2>1. account.status # "absent"
    BY <1>2 DEF StoreOK, AccountOK, NoAccount
  <2>2. CASE \E b \in BOOLEAN : account' = Replaced(b)
    BY <1>1, <1>2, <2>2 DEF Replaced, Account
  <2>3. CASE RevokeAll(account.epoch) \/ Suspend \/ Activate
    BY <1>1, <1>2, <2>3 DEF RevokeAll, Suspend, Activate, Account
  <2>4. CASE account' = [account EXCEPT !.verified = TRUE]
    BY <1>1, <2>4 DEF Account
  <2>5. CASE account' = account
    BY <1>2, <2>5
  <2> QED
    BY <2>1, <2>2, <2>3, <2>4, <2>5
    DEF StoreStep, accountVars, Register, CommitLogin, Admit, Latch,
        RevokeSession, IssueTicket, ConsumeTicket, IssueChallenge,
        VerifyEmail, ChangePassword, ResetPassword
<1>3. ASSUME NEW s \in Sessions, sessions[s].epoch # 0
      PROVE  sessions'[s].epoch # 0
  <2>1. /\ sessions[s] # NoSession
        /\ \A now : Touched(s, now).epoch = sessions[s].epoch
    BY <1>1, <1>3 DEF NoSession, Touched, Session
  <2> QED
    BY <1>1, <1>3, <2>1
    DEF StoreStep, accountVars, Register, CommitLogin, Admit, Latch,
        RevokeSession, RevokeAll, IssueTicket, ConsumeTicket, IssueChallenge,
        VerifyEmail, ChangePassword, ResetPassword, Suspend, Activate, Session
<1>4. ASSUME NEW t \in Tickets, tickets[t] # NoTicket
      PROVE  tickets'[t] # NoTicket
  <2>1. ASSUME NEW now, NEW x \in Tickets, NEW socket,
               ConsumeTicket(x, now, socket)
        PROVE  tickets'[t] # NoTicket
    <3>1. tickets'[x].used = 1
      BY <1>1, <2>1 DEF ConsumeTicket, Redeemable, Ticket
    <3>2. x # t => tickets'[t] = tickets[t]
      BY <1>1, <2>1 DEF ConsumeTicket
    <3> QED
      BY <1>4, <3>1, <3>2 DEF NoTicket
  <2> QED
    BY <1>1, <1>4, <2>1
    DEF StoreStep, accountVars, Register, CommitLogin, Admit, Latch,
        RevokeSession, RevokeAll, IssueTicket, IssueChallenge, VerifyEmail,
        ChangePassword, ResetPassword, Suspend, Activate
<1> QED
  BY <1>2, <1>3, <1>4

-----------------------------------------------------------------------------
(* A request that has just started has the type of a command.              *)
LEMMA BegunType ==
    ASSUME NEW op \in Commands \cup {"none"}, NEW stage \in Stages,
           NEW now \in Nat, NEW s \in Sessions \cup {NoId},
           NEW token \in Challenges \cup Tickets \cup {NoId}
    PROVE  Begun(op, stage, now, s, token) \in Command
<1>1. 0 \in 0..MaxVersion
  BY AccountAssumption
<1> QED
  BY <1>1 DEF Begun, Command

(* Every command keeps what it relies on, whatever the others do.          *)
LEMMA CommandsStep ==
    ASSUME Inv, [Next]_vars
    PROVE  CommandsOK' /\ TypeOK'
<1>1. StoreOK /\ StoreStep /\ StoreOK'
  BY StoreMoves, StoreKeeps DEF Inv
<1>2. /\ account.verified => account'.verified
      /\ \A s \in Sessions : sessions[s].epoch # 0 => sessions'[s].epoch # 0
      /\ \A t \in Tickets : tickets[t] # NoTicket => tickets'[t] # NoTicket
  BY <1>1, StoreGrows
<1>3. /\ cmd \in [Requests -> Command]
      /\ clock \in 0..MaxTime /\ clock \in Nat
      /\ account \in Account
      /\ \A q \in Requests : CommandOK(cmd[q]) /\ cmd[q] \in Command
  BY CommandAssumption DEF Inv, TypeOK, AccountsTypeOK, CommandsOK
<1>4. \A c : CommandOK(c) => CommandOK(c)'
  BY <1>2, <1>1
  DEF CommandOK
<1>5. ASSUME UNCHANGED cmd, clock' \in 0..MaxTime
      PROVE  CommandsOK' /\ TypeOK'
  BY <1>1, <1>3, <1>4, <1>5 DEF CommandsOK, TypeOK, StoreOK
<1>6. ASSUME NEW r \in Requests, UNCHANGED clock, NEW c \in Command,
             cmd' = [cmd EXCEPT ![r] = c], CommandOK(c) \/ CommandOK(c)'
      PROVE  CommandsOK' /\ TypeOK'
  BY <1>1, <1>3, <1>4, <1>6 DEF CommandsOK, TypeOK, StoreOK
<1>7. CASE UNCHANGED vars
  BY <1>3, <1>5, <1>7 DEF vars
<1>8. CASE Tick
  <2>1. clock + 1 \in 0..MaxTime
    BY <1>3, <1>8, CommandAssumption DEF Tick
  <2> QED
    BY <1>5, <1>8, <2>1 DEF Tick
<1>9. CASE Operator
  BY <1>3, <1>5, <1>9 DEF Operator
<1>10. ASSUME NEW r \in Requests, Request(r)
       PROVE  CommandsOK' /\ TypeOK'
  <2> DEFINE c == cmd[r]
  <2>1. /\ c \in Command /\ CommandOK(c)
        /\ account.version \in 0..MaxVersion /\ account.epoch \in 0..MaxVersion
        /\ account.verified \in BOOLEAN
    BY <1>3 DEF Account
  <2>2. CASE Finish(r) /\ UNCHANGED clock
    <3>1. NoCommand \in Command /\ CommandOK(NoCommand)
      BY AccountAssumption
      DEF NoCommand, Begun, Command, CommandOK, Stages, Authenticated
    <3> QED
      BY <1>6, <2>2, <3>1 DEF Finish
  <2>3. ASSUME NEW new \in Command, Start(r, new), CommandOK(new)
        PROVE  CommandsOK' /\ TypeOK'
    BY <1>6, <2>3 DEF Start
  <2>4. CASE \/ StartRegister(r)
             \/ StartLogin(r)
             \/ StartRequest(r, "request_verification")
             \/ StartRequest(r, "request_reset")
    <3>1. ASSUME NEW op \in {"register", "login", "request_verification",
                             "request_reset"},
                 NEW stage \in {"commit", "find"}, NEW now \in Nat,
                 op = "register" \/ stage = "find",
                 Start(r, Begun(op, stage, now, NoId, NoId))
          PROVE  CommandsOK' /\ TypeOK'
      <4>1. Begun(op, stage, now, NoId, NoId) \in Command
        BY <3>1, BegunType DEF Commands, Stages
      <4>2. CommandOK(Begun(op, stage, now, NoId, NoId))
        BY <3>1 DEF Begun, CommandOK, Authenticated
      <4> QED
        BY <2>3, <3>1, <4>1, <4>2
    <3> QED
      BY <1>3, <2>4, <3>1 DEF StartRegister, StartLogin, StartRequest
  <2>5. ASSUME NEW op \in {"verify", "reset"}, NEW ch \in Challenges,
               StartRedeem(r, op, ch)
        PROVE  CommandsOK' /\ TypeOK'
    <3>1. Begun(op, "find", 0, NoId, ch) \in Command
      BY <2>5, BegunType DEF Commands, Stages
    <3>2. CommandOK(Begun(op, "find", 0, NoId, ch))
      BY <2>5 DEF Begun, CommandOK, Authenticated
    <3> QED
      BY <2>3, <2>5, <3>1, <3>2 DEF StartRedeem
  <2>6. ASSUME NEW op \in Authenticated, NEW s \in Sessions,
               StartAuthenticated(r, op, s)
        PROVE  CommandsOK' /\ TypeOK'
    <3>1. PICK token \in Presented(op) :
             Start(r, Begun(op, "resolve", clock, s, token))
      BY <2>6 DEF StartAuthenticated
    <3>2. sessions[s].epoch # 0
      BY <1>1, <2>6 DEF StartAuthenticated, StoreOK, SessionsOK
    <3>3. /\ token \in Tickets \cup {NoId}
          /\ op = "upgrade" => token \in Tickets /\ tickets[token] # NoTicket
      BY <3>1 DEF Presented
    <3>4. Begun(op, "resolve", clock, s, token) \in Command
      BY <1>3, <2>6, <3>3, BegunType DEF Commands, Stages, Authenticated
    <3>5. CommandOK(Begun(op, "resolve", clock, s, token))
      BY <2>6, <3>2, <3>3 DEF Begun, CommandOK, Authenticated
    <3> QED
      BY <2>3, <3>1, <3>4, <3>5
  <2>7. ASSUME NEW new, cmd' = [cmd EXCEPT ![r] = new], UNCHANGED clock,
               new \in Command, new.op = c.op, new.token = c.token,
               new.session = c.session, new.stage # "resolve",
               new.verified => c.verified \/ account.verified,
               \/ c.op \notin {"request_verification", "request_reset"}
               \/ new.stage \notin {"stamp", "commit"}
               \/ new.version # 0
        PROVE  CommandsOK' /\ TypeOK'
    <3>1. CommandOK(new)
      BY <2>1, <2>7 DEF CommandOK
    <3> QED
      BY <1>6, <2>7, <3>1
  <2>8. CASE Resolve(r)
    <3> DEFINE new == [c EXCEPT !.stage = "stamp", !.epoch = account.epoch]
    <3>1. cmd' = [cmd EXCEPT ![r] = new] /\ UNCHANGED clock
      BY <1>3, <2>8 DEF Resolve
    <3>2. c.op \in Authenticated
      BY <2>1, <2>8 DEF Resolve, CommandOK
    <3>3. new \in Command
      BY <2>1 DEF Command, Stages
    <3>8. /\ new.op = c.op /\ new.token = c.token /\ new.session = c.session
          /\ new.verified = c.verified
          /\ new.stage = "stamp"
      BY <2>1 DEF Command
    <3> HIDE DEF new
    <3> QED
      BY <2>7, <3>1, <3>2, <3>3, <3>8 DEF Authenticated
  <2>9. CASE FindLogin(r)
    <3> DEFINE new == [c EXCEPT !.stage = "commit", !.version = account.version,
                                !.epoch = account.epoch]
    <3>1. cmd' = [cmd EXCEPT ![r] = new] /\ UNCHANGED clock /\ c.op = "login"
      BY <1>3, <2>9 DEF FindLogin, At
    <3>2. new \in Command
      BY <2>1 DEF Command, Stages
    <3>8. /\ new.op = c.op /\ new.token = c.token /\ new.session = c.session
          /\ new.verified = c.verified
          /\ new.stage = "commit"
      BY <2>1 DEF Command
    <3> HIDE DEF new
    <3> QED
      BY <2>7, <3>1, <3>2, <3>8
  <2>10. CASE FindChange(r)
    <3> DEFINE new == [c EXCEPT !.stage = "commit", !.version = account.version]
    <3>1. cmd' = [cmd EXCEPT ![r] = new] /\ UNCHANGED clock /\ c.op = "change"
      BY <1>3, <2>10 DEF FindChange, At
    <3>2. new \in Command
      BY <2>1 DEF Command, Stages
    <3>8. /\ new.op = c.op /\ new.token = c.token /\ new.session = c.session
          /\ new.verified = c.verified
          /\ new.stage = "commit"
      BY <2>1 DEF Command
    <3> HIDE DEF new
    <3> QED
      BY <2>7, <3>1, <3>2, <3>8
  <2>11. CASE FindRequest(r)
    <3> DEFINE new == [c EXCEPT !.stage = "stamp", !.version = account.version]
    <3>1. cmd' = [cmd EXCEPT ![r] = new] /\ UNCHANGED clock
      BY <1>3, <2>11 DEF FindRequest
    <3>2. new \in Command
      BY <2>1 DEF Command, Stages
    <3>3. account.version # 0
      BY <1>1, <2>1, <2>11 DEF FindRequest, StoreOK, AccountOK
    <3>8. /\ new.op = c.op /\ new.token = c.token /\ new.session = c.session
          /\ new.verified = c.verified
          /\ new.stage = "stamp"
          /\ new.version = account.version
      BY <2>1 DEF Command
    <3> HIDE DEF new
    <3> QED
      BY <2>7, <3>1, <3>2, <3>3, <3>8
  <2>12. CASE FindChallenge(r)
    <3> DEFINE new == [c EXCEPT !.stage = "stamp", !.version = account.version,
                                !.epoch = account.epoch,
                                !.verified = account.verified]
    <3>1. /\ cmd' = [cmd EXCEPT ![r] = new] /\ UNCHANGED clock
          /\ c.op \in {"verify", "reset"}
      BY <1>3, <2>12 DEF FindChallenge
    <3>2. new \in Command
      BY <2>1 DEF Command, Stages
    <3>8. /\ new.op = c.op /\ new.token = c.token /\ new.session = c.session
          /\ new.verified = account.verified
          /\ new.stage = "stamp"
      BY <2>1 DEF Command
    <3> HIDE DEF new
    <3> QED
      BY <2>7, <3>1, <3>2, <3>8
  <2>13. CASE Stamp(r)
    <3> DEFINE new == [c EXCEPT !.now = clock,
                                !.stage = IF c.op = "change" THEN "find"
                                                             ELSE "commit"]
    <3>1. /\ cmd' = [cmd EXCEPT ![r] = new] /\ UNCHANGED clock
          /\ c.stage = "stamp"
      BY <1>3, <2>13 DEF Stamp
    <3>2. new \in Command
      BY <1>3, <2>1 DEF Command, Stages
    <3>3. \/ c.op \notin {"request_verification", "request_reset"}
          \/ new.version # 0
      BY <2>1, <3>1 DEF CommandOK, Command
    <3>8. /\ new.op = c.op /\ new.token = c.token /\ new.session = c.session
          /\ new.verified = c.verified
          /\ new.stage \in {"find", "commit"} /\ new.version = c.version
      BY <2>1 DEF Command
    <3> HIDE DEF new
    <3> QED
      BY <2>7, <3>1, <3>2, <3>3, <3>8
  <2>14. CASE Fail(r)
    <3> DEFINE new == [c EXCEPT !.stage = "failed"]
    <3>1. cmd' = [cmd EXCEPT ![r] = new] /\ UNCHANGED clock
      BY <1>3, <2>14 DEF Fail
    <3>2. new \in Command
      BY <2>1 DEF Command, Stages
    <3>8. /\ new.op = c.op /\ new.token = c.token /\ new.session = c.session
          /\ new.verified = c.verified
          /\ new.stage = "failed"
      BY <2>1 DEF Command
    <3> HIDE DEF new
    <3> QED
      BY <2>7, <3>1, <3>2, <3>8
  <2>15. CASE ResolveLatches(r) \/ Commit(r) \/ GiveUp(r)
    BY <2>2, <2>15 DEF ResolveLatches, Commit, GiveUp
  <2> QED
    BY <1>10, <2>4, <2>5, <2>6, <2>8, <2>9, <2>10, <2>11, <2>12, <2>13, <2>14,
       <2>15
    DEF Request
<1> QED
  BY <1>7, <1>8, <1>9, <1>10 DEF Next

-----------------------------------------------------------------------------
(* The invariant is inductive.                                             *)
THEOREM Invariance == Spec => []Inv
<1>1. Init => Inv
  <2> SUFFICES ASSUME Init
               PROVE  Inv
    OBVIOUS
  <2> USE DEF Init, AccountsInit
  <2>1. 0 \in 0..MaxVersion /\ 0 \in 0..MaxTime
    BY AccountAssumption, CommandAssumption
  <2>2. AccountsTypeOK
    <3>1. NoAccount \in Account
      BY <2>1 DEF NoAccount, Account
    <3>2. NoSession \in Session
      BY <2>1 DEF NoSession, Session
    <3>3. NoChallenge \in Challenge
      BY <2>1 DEF NoChallenge, Challenge, Purposes
    <3>4. NoTicket \in Ticket
      BY DEF NoTicket, Ticket
    <3> QED
      BY <3>1, <3>2, <3>3, <3>4 DEF AccountsTypeOK
  <2>3. AccountOK /\ SessionsOK
    BY AccountAssumption DEF AccountOK, SessionsOK, NoAccount, NoSession
  <2>4. ChallengesOK /\ TicketsOK
    BY AccountAssumption
    DEF ChallengesOK, TicketsOK, NoAccount, NoChallenge, NoTicket, Outstanding
  <2>5. VerifiedByChallenge
    BY DEF VerifiedByChallenge, NoAccount, NoChallenge
  <2>6. NoCommand \in Command /\ CommandOK(NoCommand)
    BY BegunType
    DEF NoCommand, Begun, Commands, Stages, CommandOK, Authenticated
  <2> QED
    BY <2>1, <2>2, <2>3, <2>4, <2>5, <2>6
    DEF Inv, TypeOK, StoreOK, CommandsOK
<1>2. Inv /\ [Next]_vars => Inv'
  <2> SUFFICES ASSUME Inv, [Next]_vars
               PROVE  Inv'
    OBVIOUS
  <2>1. StoreOK'
    BY StoreMoves, StoreKeeps DEF Inv
  <2> QED
    BY <2>1, CommandsStep DEF Inv
<1> QED
  BY <1>1, <1>2, PTL DEF Spec

(* Every value has its type: no command leaves the domain of a column.     *)
THEOREM TypesHold == Spec => []TypeOK
<1>1. Inv => TypeOK
  BY DEF Inv
<1> QED
  BY <1>1, Invariance, PTL

(* A session that the current epoch admits was opened with the current     *)
(* password, whatever changed while its login hashed.                      *)
THEOREM SessionsAreCurrentHolds == Spec => []SessionsAreCurrent
<1>1. Inv => SessionsAreCurrent
  BY DEF Inv, StoreOK, SessionsOK, SessionsAreCurrent
<1> QED
  BY <1>1, Invariance, PTL

(* At most one challenge of a purpose is outstanding, and only for the     *)
(* current password.                                                       *)
THEOREM ChallengesAreCurrentHolds == Spec => []ChallengesAreCurrent
<1>1. ASSUME Inv
      PROVE  ChallengesAreCurrent
  <2>1. ASSUME NEW p \in Purposes
        PROVE  Cardinality(OfPurpose({p})) <= 1
    <3>1. CASE OfPurpose({p}) = {}
      BY <3>1, FS_EmptySet
    <3>2. ASSUME NEW c \in OfPurpose({p})
          PROVE  Cardinality(OfPurpose({p})) <= 1
      <4>1. OfPurpose({p}) = {c}
        BY <1>1, <3>2 DEF Inv, StoreOK, ChallengesOK, OfPurpose
      <4>2. Cardinality({c}) = 1
        BY FS_Singleton
      <4> QED
        BY <4>1, <4>2
    <3> QED
      BY <3>1, <3>2
  <2> QED
    BY <1>1, <2>1 DEF Inv, StoreOK, ChallengesOK, ChallengesAreCurrent
<1>2. Inv => ChallengesAreCurrent
  BY <1>1
<1> QED
  BY <1>2, Invariance, PTL

(* No challenge and no ticket is consumed by two commits.                  *)
THEOREM UsedOnceHolds == Spec => []UsedOnce
<1>1. Inv => UsedOnce
  BY DEF Inv, StoreOK, ChallengesOK, TicketsOK, UsedOnce
<1> QED
  BY <1>1, Invariance, PTL

(* The address is verified exactly when a challenge mailed to it was used. *)
THEOREM VerifiedByChallengeHolds == Spec => []VerifiedByChallenge
<1>1. Inv => VerifiedByChallenge
  BY DEF Inv, StoreOK
<1> QED
  BY <1>1, Invariance, PTL

(* Activity never moves back or past the absolute deadline, and a revoked  *)
(* session stays as it is.                                                 *)
THEOREM ActivityMovesForwardHolds == Spec => ActivityMovesForward
<1> DEFINE Forward(s) ==
      sessions[s] # NoSession =>
         /\ sessions'[s].seen >= sessions[s].seen
         /\ sessions'[s].seen < sessions'[s].absolute
         /\ sessions'[s].idle <= sessions'[s].absolute
         /\ sessions[s].revoked => sessions'[s] = sessions[s]
<1>1. ASSUME Inv, [Next]_vars, NEW s \in Sessions, sessions[s] # NoSession
      PROVE  Forward(s)
  <2>1. StoreOK /\ StoreStep /\ StoreOK'
    BY <1>1, StoreMoves, StoreKeeps DEF Inv
  <2>2. /\ sessions \in [Sessions -> Session]
        /\ sessions[s] \in Session /\ sessions[s].epoch # 0
        /\ sessions[s].seen < sessions[s].absolute
        /\ sessions[s].idle <= sessions[s].absolute
    BY <1>1, <2>1 DEF StoreOK, AccountsTypeOK, SessionsOK
  <2>3. /\ sessions'[s].epoch # 0
        /\ sessions'[s].seen < sessions'[s].absolute
        /\ sessions'[s].idle <= sessions'[s].absolute
    BY <2>1, <2>2, StoreGrows DEF StoreOK, SessionsOK
  <2>4. CASE sessions'[s] = sessions[s]
    BY <2>2, <2>3, <2>4 DEF Session
  <2>5. CASE sessions'[s] = [sessions[s] EXCEPT !.revoked = TRUE]
             /\ ~sessions[s].revoked
    BY <2>2, <2>3, <2>5 DEF Session
  <2>6. ASSUME NEW now \in Nat, Usable(s, now), sessions'[s] = Touched(s, now)
        PROVE  Forward(s)
    <3>1. sessions'[s].seen = now
      BY <2>2, <2>6 DEF Touched, Session
    <3>2. now >= sessions[s].seen /\ ~sessions[s].revoked
      BY <2>6 DEF Usable
    <3> QED
      BY <2>3, <3>1, <3>2
  <2> DEFINE Moved ==
        \/ sessions'[s] = sessions[s]
        \/ /\ sessions'[s] = [sessions[s] EXCEPT !.revoked = TRUE]
           /\ ~sessions[s].revoked
        \/ \E now \in Nat : Usable(s, now) /\ sessions'[s] = Touched(s, now)
  <2>7. Moved
    <3>1. ASSUME NEW now \in Nat, NEW x \in Sessions,
                 \/ Admit(x, now)
                 \/ Latch(x, now)
                 \/ RevokeSession(x, now)
          PROVE  Moved
      BY <2>2, <3>1 DEF Admit, Latch, RevokeSession
    <3>2. ASSUME NEW now \in Nat, NEW x \in Sessions, NEW v, NEW e,
                 CommitLogin(x, v, e, now)
          PROVE  sessions'[s] = sessions[s]
      BY <1>1, <2>2, <3>2 DEF CommitLogin
    <3> QED
      BY <2>1, <3>1, <3>2
      DEF StoreStep, accountVars, Register, RevokeAll, IssueTicket,
          ConsumeTicket, IssueChallenge, VerifyEmail, ChangePassword,
          ResetPassword, Suspend, Activate
  <2> QED
    BY <2>4, <2>5, <2>6, <2>7
<1>2. Inv /\ [Next]_vars => [\A s \in Sessions : Forward(s)]_vars
  BY <1>1
<1> QED
  BY Invariance, <1>2, PTL DEF Spec, ActivityMovesForward

-----------------------------------------------------------------------------
(* The promise.  Its variables, as the store has them.                     *)
OpenNow == {s \in Sessions : IsOpen(s)}
PastNow == {s \in Sessions : sessions[s].epoch # 0 /\ ~IsOpen(s)}
PendingNow == {<<challenges[ch].purpose, ch>> : ch \in OfPurpose(Purposes)}
AskedNow == {ch \in Challenges : challenges[ch].version # 0}
SocketsNow == {<<t, tickets[t].socket>> :
                  t \in {x \in Tickets : tickets[x].socket # NoId}}

(* Sessions stay as they are at an unchanged epoch, and are all closed by  *)
(* a new one.                                                              *)
LEMMA SessionViews ==
    ASSUME StoreOK, UNCHANGED sessions
    PROVE  /\ account'.epoch = account.epoch =>
                 OpenNow' = OpenNow /\ PastNow' = PastNow
           /\ account'.epoch = account.epoch + 1 =>
                 OpenNow' = {} /\ PastNow' = PastNow \cup OpenNow
<1>0. account.epoch \in Nat
  BY AccountAssumption DEF StoreOK, AccountsTypeOK, Account
<1>1. CASE account'.epoch = account.epoch
  <2>1. \A s \in Sessions : IsOpen(s)' <=> IsOpen(s)
    BY <1>1 DEF IsOpen
  <2> QED
    BY <1>0, <1>1, <2>1 DEF OpenNow, PastNow, IsOpen
<1>2. CASE account'.epoch = account.epoch + 1
  <2>1. ASSUME NEW s \in Sessions
        PROVE  /\ ~IsOpen(s)'
               /\ IsOpen(s) => sessions[s].epoch # 0
    <3>1. /\ sessions[s].epoch <= account.epoch
          /\ sessions[s] \in Session /\ account \in Account
      BY DEF StoreOK, SessionsOK, AccountsTypeOK
    <3> QED
      BY <1>2, <3>1 DEF IsOpen, Session, Account
  <2> QED
    BY <2>1 DEF OpenNow, PastNow, IsOpen
<1> QED
  BY <1>1, <1>2

(* A session that is opened, touched or closed; the others stay.           *)
LEMMA SessionViewsOne ==
    ASSUME StoreOK, UNCHANGED account, NEW s \in Sessions, NEW new \in Session,
           sessions' = [sessions EXCEPT ![s] = new]
    PROVE  /\ /\ new.epoch = sessions[s].epoch
              /\ new.revoked = sessions[s].revoked
              => OpenNow' = OpenNow /\ PastNow' = PastNow
           /\ new.epoch = sessions[s].epoch /\ new.revoked
              => /\ OpenNow' = OpenNow \ {s}
                 /\ PastNow' = PastNow \cup (OpenNow \cap {s})
           /\ /\ sessions[s].epoch = 0
              /\ new.epoch = account.epoch
              /\ new.epoch # 0
              /\ ~new.revoked
              => /\ OpenNow' = OpenNow \cup {s} /\ PastNow' = PastNow
                 /\ s \notin OpenNow \cup PastNow
<1>1. sessions \in [Sessions -> Session]
  BY DEF StoreOK, AccountsTypeOK
<1>2. \A x \in Sessions : x # s =>
         sessions'[x] = sessions[x] /\ (IsOpen(x)' <=> IsOpen(x))
  BY <1>1 DEF IsOpen
<1>3. /\ sessions'[s] = new
      /\ IsOpen(s)' <=> /\ new.epoch # 0
                        /\ ~new.revoked
                        /\ new.epoch = account.epoch
  BY <1>1 DEF IsOpen
<1> QED
  BY <1>2, <1>3 DEF OpenNow, PastNow, IsOpen

(* The challenges that may be used are the outstanding ones.               *)
LEMMA PendingIs ==
    ASSUME AccountsTypeOK
    PROVE  \A x : x \in PendingNow <=>
              \E ch \in Challenges :
                 Outstanding(ch) /\ x = <<challenges[ch].purpose, ch>>
<1>1. \A ch \in Challenges : challenges[ch].purpose \in Purposes
  BY DEF AccountsTypeOK, Challenge
<1> QED
  BY <1>1 DEF PendingNow, OfPurpose

(* A challenge is stored in the place of those of its purpose.             *)
LEMMA PendingAsked ==
    ASSUME AccountsTypeOK, AccountsTypeOK', NEW one \in Challenges,
           NEW p \in Purposes, NEW v, NEW now, v # 0,
           challenges[one] = NoChallenge,
           challenges'[one] = NewChallenge(p, v, now),
           \A ch \in Challenges \ {one} : Withdraws({p}, ch)
    PROVE  /\ one \notin AskedNow
           /\ AskedNow' = AskedNow \cup {one}
           /\ PendingNow' = {x \in PendingNow : x[1] # p} \cup {<<p, one>>}
<1>1. /\ challenges[one].version = 0 /\ ~Outstanding(one)
      /\ challenges'[one].version # 0 /\ Outstanding(one)'
      /\ challenges'[one].purpose = p
  BY DEF Outstanding, NoChallenge, NewChallenge
<1>2. \A ch \in Challenges \ {one} :
         /\ challenges'[ch].version = challenges[ch].version
         /\ challenges'[ch].purpose = challenges[ch].purpose
         /\ Outstanding(ch)' <=>
               Outstanding(ch) /\ challenges[ch].purpose \notin {p}
  BY Withdrawn
<1>3. one \notin AskedNow /\ AskedNow' = AskedNow \cup {one}
  BY <1>1, <1>2 DEF AskedNow
<1>4. \A x : x \in PendingNow' <=>
         \E ch \in Challenges :
            Outstanding(ch)' /\ x = <<challenges'[ch].purpose, ch>>
  BY DEF PendingNow, OfPurpose, AccountsTypeOK, Challenge
<1>5. \A x : x \in PendingNow' <=>
         x \in {y \in PendingNow : y[1] # p} \cup {<<p, one>>}
  BY <1>1, <1>2, <1>4, PendingIs
<1> QED
  BY <1>3, <1>5

(* Every purpose is withdrawn: nothing may be used.                        *)
LEMMA PendingWithdrawn ==
    ASSUME AccountsTypeOK, NEW ones \in SUBSET Challenges,
           \A ch \in ones : /\ ~Outstanding(ch)'
                            /\ challenges'[ch].version = challenges[ch].version,
           \A ch \in Challenges \ ones : Withdraws(Purposes, ch)
    PROVE  PendingNow' = {} /\ AskedNow' = AskedNow
<1>1. \A ch \in Challenges \ ones :
         /\ challenges'[ch].version = challenges[ch].version
         /\ challenges[ch].purpose \in Purposes
         /\ Outstanding(ch)' => challenges[ch].purpose \notin Purposes
  BY Withdrawn DEF AccountsTypeOK, Challenge
<1>2. \A ch \in Challenges : ~Outstanding(ch)'
  BY <1>1
<1> QED
  BY <1>1, <1>2 DEF PendingNow, AskedNow, OfPurpose

(* A challenge is used, and no other is touched.                           *)
LEMMA PendingUsed ==
    ASSUME AccountsTypeOK, AccountsTypeOK', NEW one \in Challenges,
           Outstanding(one), challenges' = Consumed(one)
    PROVE  /\ <<challenges[one].purpose, one>> \in PendingNow
           /\ PendingNow' = PendingNow \ {<<challenges[one].purpose, one>>}
           /\ AskedNow' = AskedNow
<1>1. \A ch \in Challenges : challenges[ch] \in Challenge
  BY DEF AccountsTypeOK
<1>2. /\ \A ch \in Challenges \ {one} : challenges'[ch] = challenges[ch]
      /\ challenges'[one] = [challenges[one] EXCEPT !.used = @ + 1]
  BY DEF Consumed, AccountsTypeOK
<1>3. /\ ~Outstanding(one)'
      /\ challenges'[one].version = challenges[one].version
  BY <1>1, <1>2 DEF Outstanding, Challenge
<1>4. \A ch \in Challenges \ {one} : Outstanding(ch)' <=> Outstanding(ch)
  BY <1>2 DEF Outstanding
<1>5. \A x : x \in PendingNow' <=>
         \E ch \in Challenges :
            Outstanding(ch)' /\ x = <<challenges'[ch].purpose, ch>>
  BY DEF PendingNow, OfPurpose, AccountsTypeOK, Challenge
<1>6. \A x : x \in PendingNow' <=>
         x \in PendingNow \ {<<challenges[one].purpose, one>>}
  BY <1>2, <1>3, <1>4, <1>5, PendingIs
<1> QED
  BY <1>2, <1>3, <1>6, PendingIs DEF AskedNow

(* Issuing a ticket and refusing its socket admit nobody; a socket is      *)
(* admitted with a ticket that never had one.                              *)
LEMMA SocketViews ==
    ASSUME AccountsTypeOK, TicketsOK, NEW t \in Tickets, NEW now
    PROVE  /\ \A s, e : IssueTicket(t, s, e, now) => SocketsNow' = SocketsNow
           /\ ConsumeTicket(t, now, NoId) => SocketsNow' = SocketsNow
           /\ \A s \in Sessions :
                 ConsumeTicket(t, now, s) =>
                    /\ \A x \in Sessions : <<t, x>> \notin SocketsNow
                    /\ SocketsNow' = SocketsNow \cup {<<t, s>>}
<1>1. tickets \in [Tickets -> Ticket]
  BY DEF AccountsTypeOK
<1>2. \A x : x \in SocketsNow <=>
         \E k \in Tickets :
            tickets[k].socket # NoId /\ x = <<k, tickets[k].socket>>
  BY DEF SocketsNow
<1>3. \A x : x \in SocketsNow' <=>
         \E k \in Tickets :
            tickets'[k].socket # NoId /\ x = <<k, tickets'[k].socket>>
  BY DEF SocketsNow
<1>4. ASSUME tickets[t].socket = NoId, tickets'[t].socket = NoId,
             \A k \in Tickets \ {t} : tickets'[k] = tickets[k]
      PROVE  SocketsNow' = SocketsNow
  <2>1. \A x : x \in SocketsNow' <=> x \in SocketsNow
    BY <1>2, <1>3, <1>4
  <2> QED
    BY <2>1 DEF SocketsNow
<1>5. ASSUME NEW s, NEW e, IssueTicket(t, s, e, now)
      PROVE  SocketsNow' = SocketsNow
  BY <1>1, <1>4, <1>5 DEF IssueTicket, NoTicket
<1>6. ASSUME NEW s, ConsumeTicket(t, now, s)
      PROVE  /\ tickets[t].socket = NoId
             /\ tickets'[t].socket = s
             /\ \A k \in Tickets \ {t} : tickets'[k] = tickets[k]
  BY <1>1, <1>6 DEF ConsumeTicket, Redeemable, TicketsOK, Ticket
<1>7. ASSUME NEW s \in Sessions, ConsumeTicket(t, now, s)
      PROVE  /\ \A x \in Sessions : <<t, x>> \notin SocketsNow
             /\ SocketsNow' = SocketsNow \cup {<<t, s>>}
  <2>1. s # NoId
    BY AccountAssumption
  <2>2. \A x \in Sessions : <<t, x>> \notin SocketsNow
    BY <1>2, <1>6, <1>7
  <2>3. \A x : x \in SocketsNow' <=> x \in SocketsNow \cup {<<t, s>>}
    BY <1>2, <1>3, <1>6, <1>7, <2>1
  <2> QED
    BY <2>2, <2>3
<1> QED
  BY <1>4, <1>5, <1>6, <1>7

(* Every step of the commands is a step of the promise, or none.           *)
LEMMA PromiseStep ==
    ASSUME Inv, [Next]_vars
    PROVE  [Promise!PromiseNext]_(Promise!promiseVars)
<1> DEFINE Step == [Promise!PromiseNext]_(Promise!promiseVars)
           Active == account.status = "active"
<1> SUFFICES Step
  OBVIOUS
<1>1. /\ StoreOK /\ StoreStep
      /\ AccountsTypeOK /\ AccountsTypeOK'
      /\ account \in Account /\ account' \in Account
      /\ sessions \in [Sessions -> Session]
      /\ challenges \in [Challenges -> Challenge]
      /\ TicketsOK
  BY StoreMoves, StoreKeeps DEF Inv, StoreOK, AccountsTypeOK
<1>2. UNCHANGED challenges => PendingNow' = PendingNow /\ AskedNow' = AskedNow
  BY DEF PendingNow, AskedNow, OfPurpose, Outstanding
<1>3. UNCHANGED tickets => SocketsNow' = SocketsNow
  BY DEF SocketsNow
<1>4. /\ UNCHANGED <<sessions, account>> =>
            OpenNow' = OpenNow /\ PastNow' = PastNow
      /\ UNCHANGED account =>
            UNCHANGED <<Active, account.version, account.verified>>
  BY <1>1, SessionViews
<1>5. CASE UNCHANGED accountVars
  BY <1>2, <1>3, <1>4, <1>5
  DEF accountVars, Promise!promiseVars, OpenNow, PastNow, PendingNow, AskedNow,
      SocketsNow
<1>6. ASSUME NEW now \in Nat, NEW ch \in Challenges, Register(ch, now)
      PROVE  Step
  <2>1. account = NoAccount /\ account'.epoch = account.epoch + 1
    BY <1>1, <1>6 DEF Register, StoreOK, AccountOK, NoAccount
  <2>2. OpenNow' = OpenNow /\ PastNow' = PastNow
    <3>1. \A s \in Sessions : sessions[s].epoch = 0
      BY <1>1, <2>1 DEF StoreOK, SessionsOK, NoAccount, Session
    <3> QED
      BY <1>6, <3>1 DEF Register, OpenNow, PastNow, IsOpen
  <2>3. \A x \in Challenges : ~Outstanding(x)
    BY <1>1, <2>1 DEF StoreOK, ChallengesOK, NoAccount, Outstanding, Challenge
  <2>4. /\ challenges'[ch] = NewChallenge("verification", 1, now)
        /\ challenges[ch] = NoChallenge
    BY <1>1, <1>6 DEF Register
  <2>5. \A x \in Challenges \ {ch} : Withdraws({"verification"}, x)
    BY <1>1, <1>6, <2>3 DEF Register, Withdraws, OfPurpose
  <2>6. /\ ch \notin AskedNow
        /\ AskedNow' = AskedNow \cup {ch}
        /\ PendingNow' = {x \in PendingNow : x[1] # "verification"}
                            \cup {<<"verification", ch>>}
    BY <1>1, <2>4, <2>5, PendingAsked DEF Purposes
  <2>7. /\ account.version = 0 /\ account'.version = 1
        /\ Active' /\ account'.verified = account.verified
        /\ SocketsNow' = SocketsNow
    BY <1>3, <1>6, <2>1 DEF Register, NoAccount
  <2>8. Promise!Enrol(ch)
    BY <2>2, <2>6, <2>7
    DEF Promise!Enrol, Promise!Pending, OpenNow, PastNow, PendingNow, AskedNow,
        SocketsNow
  <2> QED
    BY <2>8 DEF Promise!PromiseNext
<1>7. ASSUME NEW now \in Nat, NEW s \in Sessions, NEW v, NEW e,
             CommitLogin(s, v, e, now)
      PROVE  Step
  <2> DEFINE new == [epoch |-> e, proof |-> v, seen |-> now,
                     idle |-> now + IdleTtl, absolute |-> now + AbsoluteTtl,
                     revoked |-> FALSE]
  <2>1. /\ sessions' = [sessions EXCEPT ![s] = new]
        /\ e = account.epoch /\ v = account.version
        /\ Active /\ account.verified
        /\ UNCHANGED <<account, challenges, tickets>>
        /\ sessions[s].epoch = 0
    BY <1>7 DEF CommitLogin, Admissible, NoSession
  <2>2. new \in Session /\ new.epoch # 0
    BY <1>1, <2>1, AccountAssumption
    DEF Session, Account, StoreOK, AccountOK
  <2>3. /\ OpenNow' = OpenNow \cup {s} /\ PastNow' = PastNow
        /\ s \notin OpenNow \cup PastNow
    BY <1>1, <2>1, <2>2, SessionViewsOne
  <2>4. Promise!Open(s)
    BY <1>2, <1>3, <2>1, <2>3
    DEF Promise!Open, OpenNow, PastNow, PendingNow, AskedNow, SocketsNow
  <2> QED
    BY <2>4 DEF Promise!PromiseNext
<1>8. ASSUME NEW now \in Nat, NEW s \in Sessions, Admit(s, now)
      PROVE  Step
  <2>1. /\ sessions' = [sessions EXCEPT ![s] = Touched(s, now)]
        /\ UNCHANGED <<account, challenges, tickets>>
    BY <1>8 DEF Admit
  <2>2. sessions'[s] \in Session /\ sessions'[s] = Touched(s, now)
    BY <1>1, <2>1 DEF AccountsTypeOK
  <2>3. /\ Touched(s, now).epoch = sessions[s].epoch
        /\ Touched(s, now).revoked = sessions[s].revoked
    BY <1>1 DEF Touched, Session
  <2>4. OpenNow' = OpenNow /\ PastNow' = PastNow
    BY <1>1, <2>1, <2>2, <2>3, SessionViewsOne
  <2> QED
    BY <1>2, <1>3, <2>1, <2>4
    DEF Promise!promiseVars, OpenNow, PastNow, PendingNow, AskedNow, SocketsNow
<1>9. ASSUME NEW now \in Nat, NEW s \in Sessions,
             Latch(s, now) \/ RevokeSession(s, now)
      PROVE  Step
  <2> DEFINE new == [sessions[s] EXCEPT !.revoked = TRUE]
  <2>1. /\ sessions' = [sessions EXCEPT ![s] = new]
        /\ UNCHANGED <<account, challenges, tickets>>
    BY <1>1, <1>9 DEF Latch, RevokeSession
  <2>2. new \in Session /\ new.epoch = sessions[s].epoch /\ new.revoked
    BY <1>1 DEF Session
  <2>3. /\ OpenNow' = OpenNow \ {s}
        /\ PastNow' = PastNow \cup (OpenNow \cap {s})
    <3> HIDE DEF new
    <3> QED
      BY <1>1, <2>1, <2>2, SessionViewsOne
  <2>4. Promise!Close(s)
    BY <1>2, <1>3, <2>1, <2>3
    DEF Promise!Close, OpenNow, PastNow, PendingNow, AskedNow, SocketsNow
  <2> QED
    BY <2>4 DEF Promise!PromiseNext
<1>10. CASE account.epoch # 0 /\ RevokeAll(account.epoch)
  <2>1. /\ account' = [account EXCEPT !.epoch = account.epoch + 1]
        /\ UNCHANGED <<sessions, challenges, tickets>>
    BY <1>10 DEF RevokeAll
  <2>2. /\ account'.epoch = account.epoch + 1
        /\ account'.status = account.status
        /\ account'.version = account.version
        /\ account'.verified = account.verified
    BY <1>1, <2>1 DEF Account
  <2>3. OpenNow' = {} /\ PastNow' = PastNow \cup OpenNow
    BY <1>1, <2>1, <2>2, SessionViews
  <2>4. Promise!LogoutAll
    BY <1>2, <1>3, <2>1, <2>2, <2>3
    DEF Promise!LogoutAll, Promise!CloseAll, OpenNow, PastNow, PendingNow,
        AskedNow, SocketsNow
  <2> QED
    BY <2>4 DEF Promise!PromiseNext
<1>11. ASSUME NEW now \in Nat, NEW t \in Tickets,
              \/ \E s \in Sessions, e \in 0..MaxVersion :
                    IssueTicket(t, s, e, now)
              \/ ConsumeTicket(t, now, NoId)
       PROVE  Step
  <2>1. UNCHANGED <<account, sessions, challenges>>
    BY <1>11 DEF IssueTicket, ConsumeTicket
  <2>2. SocketsNow' = SocketsNow
    BY <1>1, <1>11, SocketViews
  <2> QED
    BY <1>2, <1>4, <2>1, <2>2
    DEF Promise!promiseVars, OpenNow, PastNow, PendingNow, AskedNow, SocketsNow
<1>12. ASSUME NEW now \in Nat, NEW t \in Tickets, NEW s \in Sessions,
              s = tickets[t].session, ConsumeTicket(t, now, s)
       PROVE  Step
  <2>1. /\ UNCHANGED <<account, sessions, challenges>>
        /\ Active /\ s \in OpenNow
    BY <1>12 DEF ConsumeTicket, Admissible, Usable, OpenNow, IsOpen
  <2>2. /\ \A x \in Sessions : <<t, x>> \notin SocketsNow
        /\ SocketsNow' = SocketsNow \cup {<<t, s>>}
    BY <1>1, <1>12, SocketViews
  <2>3. Promise!Upgrade(t, s)
    BY <1>2, <1>4, <2>1, <2>2
    DEF Promise!Upgrade, OpenNow, PastNow, PendingNow, AskedNow, SocketsNow
  <2> QED
    BY <2>3 DEF Promise!PromiseNext
<1>13. ASSUME NEW now \in Nat, NEW ch \in Challenges, NEW p \in Purposes,
              NEW v \in Versions, IssueChallenge(ch, p, v, now)
       PROVE  Step
  <2>1. /\ UNCHANGED <<account, sessions, tickets>>
        /\ account.version # 0 /\ v # 0
        /\ challenges[ch] = NoChallenge
    BY <1>13, AccountAssumption DEF IssueChallenge, Versions
  <2>2. /\ challenges'[ch] = NewChallenge(p, v, now)
        /\ \A x \in Challenges \ {ch} : Withdraws({p}, x)
    BY <1>13 DEF IssueChallenge, Withdraws, Invalidated
  <2>3. /\ ch \notin AskedNow
        /\ AskedNow' = AskedNow \cup {ch}
        /\ PendingNow' = {x \in PendingNow : x[1] # p} \cup {<<p, ch>>}
    <3>1. AccountsTypeOK /\ AccountsTypeOK'
      BY <1>1
    <3> QED
      BY <2>1, <2>2, <3>1, PendingAsked
  <2>4. Promise!Ask(p, ch)
    BY <1>3, <1>4, <2>1, <2>3
    DEF Promise!Ask, Promise!Pending, OpenNow, PastNow, PendingNow, AskedNow,
        SocketsNow
  <2> QED
    BY <2>4 DEF Promise!PromiseNext, Purposes
<1>14. ASSUME NEW now \in Nat, NEW ch \in Challenges, NEW v,
              VerifyEmail(ch, v, now)
       PROVE  Step
  <2>1. /\ account' = [account EXCEPT !.verified = TRUE]
        /\ UNCHANGED <<sessions, tickets>>
        /\ Outstanding(ch) /\ challenges[ch].purpose = "verification"
        /\ challenges' = Consumed(ch)
    BY <1>14 DEF VerifyEmail, Consumable
  <2>2. /\ account'.epoch = account.epoch
        /\ account'.status = account.status
        /\ account'.version = account.version
        /\ account'.verified = TRUE
    BY <1>1, <2>1 DEF Account
  <2>3. OpenNow' = OpenNow /\ PastNow' = PastNow
    BY <1>1, <2>1, <2>2, SessionViews
  <2>4. /\ <<"verification", ch>> \in PendingNow
        /\ PendingNow' = PendingNow \ {<<"verification", ch>>}
        /\ AskedNow' = AskedNow
    BY <1>1, <2>1, PendingUsed
  <2>5. Promise!Verify(ch)
    BY <1>3, <2>1, <2>2, <2>3, <2>4
    DEF Promise!Verify, OpenNow, PastNow, PendingNow, AskedNow, SocketsNow
  <2> QED
    BY <2>5 DEF Promise!PromiseNext
<1>15. ASSUME NEW b \in BOOLEAN, account' = Replaced(b), UNCHANGED sessions
       PROVE  /\ account'.version = account.version + 1
              /\ account'.status = account.status
              /\ account'.verified = (account.verified \/ b)
              /\ OpenNow' = {} /\ PastNow' = PastNow \cup OpenNow
  <2>1. /\ account'.version = account.version + 1
        /\ account'.epoch = account.epoch + 1
        /\ account'.status = account.status
        /\ account'.verified = (account.verified \/ b)
    BY <1>1, <1>15 DEF Replaced, Account
  <2> QED
    BY <1>1, <1>15, <2>1, SessionViews
<1>16. ASSUME NEW now \in Nat, NEW v, NEW e,
              account.epoch # 0 /\ ChangePassword(v, e, now)
       PROVE  Step
  <2>1. /\ account' = Replaced(FALSE)
        /\ UNCHANGED <<sessions, tickets>>
        /\ \A x \in Challenges : Withdraws(Purposes, x)
    BY <1>16 DEF ChangePassword, Withdraws, Invalidated
  <2>2. account.version # 0
    BY <1>1, <1>16 DEF StoreOK, AccountOK, NoAccount
  <2>3. PendingNow' = {} /\ AskedNow' = AskedNow
    <3>1. /\ {} \in SUBSET Challenges
          /\ \A x \in Challenges \ {} : Withdraws(Purposes, x)
      BY <2>1
    <3> QED
      BY <1>1, <3>1, PendingWithdrawn
  <2>4. account'.verified = account.verified
    BY <1>1, <1>15, <2>1 DEF Account
  <2>5. Promise!Change
    BY <1>3, <1>15, <2>1, <2>2, <2>3, <2>4
    DEF Promise!Change, Promise!CloseAll, OpenNow, PastNow, PendingNow,
        AskedNow, SocketsNow
  <2> QED
    BY <2>5 DEF Promise!PromiseNext
<1>17. ASSUME NEW now \in Nat, NEW ch \in Challenges, NEW v, NEW e,
              NEW b \in BOOLEAN, b \/ account.verified,
              ResetPassword(ch, v, e, now, b)
       PROVE  Step
  <2>1. /\ account' = Replaced(b)
        /\ UNCHANGED <<sessions, tickets>>
        /\ Outstanding(ch) /\ challenges[ch].purpose = "reset"
        /\ \A x \in Challenges \ {ch} : Withdraws(Purposes, x)
        /\ challenges'[ch] = [challenges[ch] EXCEPT !.used = @ + 1]
    BY <1>17 DEF ResetPassword, Consumable, Withdraws, Invalidated
  <2>2. ~Outstanding(ch)' /\ challenges'[ch].version = challenges[ch].version
    BY <1>1, <2>1 DEF Outstanding, Challenge
  <2>3. PendingNow' = {} /\ AskedNow' = AskedNow
    BY <1>1, <2>1, <2>2, PendingWithdrawn
  <2>4. <<"reset", ch>> \in PendingNow
    BY <1>1, <2>1, PendingIs
  <2>5. account'.verified = TRUE
    BY <1>1, <1>15, <1>17, <2>1 DEF Account
  <2>6. Promise!Recover(ch)
    BY <1>3, <1>15, <2>1, <2>3, <2>4, <2>5
    DEF Promise!Recover, Promise!CloseAll, OpenNow, PastNow, PendingNow,
        AskedNow, SocketsNow
  <2> QED
    BY <2>6 DEF Promise!PromiseNext
<1>18. CASE Suspend
  <2>1. /\ account' = [account EXCEPT !.status = "suspended", !.epoch = @ + 1]
        /\ UNCHANGED <<sessions, challenges, tickets>> /\ Active
    BY <1>18 DEF Suspend
  <2>2. /\ account'.epoch = account.epoch + 1
        /\ account'.status = "suspended"
        /\ account'.version = account.version
        /\ account'.verified = account.verified
    BY <1>1, <2>1 DEF Account
  <2>3. OpenNow' = {} /\ PastNow' = PastNow \cup OpenNow
    BY <1>1, <2>1, <2>2, SessionViews
  <2>4. Promise!Suspended
    BY <1>2, <1>3, <2>1, <2>2, <2>3
    DEF Promise!Suspended, Promise!CloseAll, OpenNow, PastNow, PendingNow,
        AskedNow, SocketsNow
  <2> QED
    BY <2>4 DEF Promise!PromiseNext
<1>19. CASE Activate
  <2>1. /\ account' = [account EXCEPT !.status = "active"]
        /\ UNCHANGED <<sessions, challenges, tickets>> /\ ~Active
        /\ account.version # 0
    BY <1>1, <1>19 DEF Activate, StoreOK, AccountOK
  <2>2. /\ account'.epoch = account.epoch
        /\ account'.status = "active"
        /\ account'.version = account.version
        /\ account'.verified = account.verified
    BY <1>1, <2>1 DEF Account
  <2>3. OpenNow' = OpenNow /\ PastNow' = PastNow
    BY <1>1, <2>1, <2>2, SessionViews
  <2>4. Promise!Reinstated
    BY <1>2, <1>3, <2>1, <2>2, <2>3
    DEF Promise!Reinstated, OpenNow, PastNow, PendingNow, AskedNow, SocketsNow
  <2> QED
    BY <2>4 DEF Promise!PromiseNext
<1>20. ASSUME NEW now \in Nat, NEW t \in Tickets,
              ConsumeTicket(t, now, tickets[t].session)
       PROVE  Step
  <2>1. tickets[t].session \in Sessions
    BY <1>1, <1>20 DEF ConsumeTicket, TicketsOK
  <2> QED
    BY <1>12, <1>20, <2>1
<1> HIDE DEF Step
<1> QED
  BY <1>1, <1>5, <1>6, <1>7, <1>8, <1>9, <1>10, <1>11, <1>13, <1>14, <1>16,
     <1>17, <1>18, <1>19, <1>20
  DEF StoreStep

(* The commands, with their snapshots, epochs and clocks, implement        *)
(* AccountPromise, in which each of them is one step.                      *)
THEOREM KeepsPromiseHolds == Spec => KeepsPromise
<1>1. Init => Promise!PromiseInit
  BY DEF Init, AccountsInit, NoAccount, NoSession, NoChallenge, NoTicket,
         IsOpen, OfPurpose, Outstanding, Promise!PromiseInit
<1>2. Inv /\ [Next]_vars => [Promise!PromiseNext]_(Promise!promiseVars)
  BY PromiseStep
<1> QED
  BY Invariance, <1>1, <1>2, PTL DEF Spec, KeepsPromise, Promise!PromiseSpec
=============================================================================
