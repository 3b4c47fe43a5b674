------------------------------ MODULE Accounts ------------------------------
(***************************************************************************)
(* The identity store of domains/identity/infra/postgres, for one e-mail   *)
(* address: its principal, credential and auth state, the sessions, the    *)
(* challenges and the WebSocket upgrade tickets of that principal.         *)
(*                                                                         *)
(* Every mutation first locks the auth state of the one principal it is    *)
(* about, so mutations of one account are atomic and accounts do not       *)
(* interact: the model has one account, and one action per transaction.    *)
(* Times are arguments, as they are in the code, and any number may be     *)
(* passed.  A transaction that reports stale, absent or rejected changes   *)
(* nothing and is no action, with the one exception of Latch.              *)
(***************************************************************************)
EXTENDS Integers, FiniteSets

CONSTANTS
    Sessions,         \* session ids
    Challenges,       \* challenge ids
    Tickets,          \* upgrade ticket ids
    NoId,             \* no session
    MaxVersion,       \* the largest password version and auth epoch
    VerificationTtl, ResetTtl, AbsoluteTtl, IdleTtl, TicketTtl

ASSUME AccountAssumption ==
    /\ NoId \notin Sessions
    /\ MaxVersion \in Nat \ {0}
    /\ {VerificationTtl, ResetTtl, AbsoluteTtl, IdleTtl, TicketTtl}
          \subseteq Nat \ {0}
    /\ IdleTtl <= AbsoluteTtl

VARIABLES
    account,      \* the rows of principals, credentials and auth_states
    sessions,     \* the table n2f_identity_sessions
    challenges,   \* the table n2f_identity_challenges
    tickets       \* the table n2f_identity_upgrade_tickets

accountVars == <<account, sessions, challenges, tickets>>

Versions == 1..MaxVersion
Purposes == {"verification", "reset"}

\* verified is  verified_at_ms IS NOT NULL;  a password is its version.
Account == [status   : {"absent", "active", "suspended"},
            verified : BOOLEAN,
            version  : 0..MaxVersion,
            epoch    : 0..MaxVersion]

NoAccount == [status |-> "absent", verified |-> FALSE,
              version |-> 0, epoch |-> 0]

\* proof is the password version the login had verified (no column of it);
\* revoked is  revoked_at_ms IS NOT NULL;  epoch 0 is a row that is not there.
Session == [epoch : 0..MaxVersion, proof : 0..MaxVersion, seen : Nat,
            idle : Nat, absolute : Nat, revoked : BOOLEAN]

NoSession == [epoch |-> 0, proof |-> 0, seen |-> 0, idle |-> 0,
              absolute |-> 0, revoked |-> FALSE]

\* used counts the commits that consumed the row (the column is NULL while it
\* is 0);  version 0 is a row that is not there.
Challenge == [purpose : Purposes, version : 0..MaxVersion, issued : Nat,
              expires : Nat, used : Nat, invalidated : BOOLEAN]

NoChallenge == [purpose |-> "reset", version |-> 0, issued |-> 0,
                expires |-> 0, used |-> 0, invalidated |-> FALSE]

\* socket is the session whose WebSocket was admitted with the ticket (no
\* column of it).
Ticket == [session : Sessions \cup {NoId}, issued : Nat, expires : Nat,
           used : Nat, socket : Sessions \cup {NoId}]

NoTicket == [session |-> NoId, issued |-> 0, expires |-> 0, used |-> 0,
             socket |-> NoId]

AccountsInit ==
    /\ account = NoAccount
    /\ sessions = [s \in Sessions |-> NoSession]
    /\ challenges = [ch \in Challenges |-> NoChallenge]
    /\ tickets = [t \in Tickets |-> NoTicket]

-----------------------------------------------------------------------------
(* Fault: the time of the last activity is not looked at.                  *)
UsableBackward(s, now) ==
    /\ sessions[s].epoch # 0
    /\ ~sessions[s].revoked
    /\ now < sessions[s].idle /\ now < sessions[s].absolute

(* Session::check.                                                         *)
Expired(s, now) == now >= sessions[s].idle \/ now >= sessions[s].absolute

Usable(s, now) ==
    /\ sessions[s].epoch # 0
    /\ ~sessions[s].revoked
    /\ now >= sessions[s].seen
    /\ ~Expired(s, now)

(* What CommitLogin, resolve and the ticket operations recheck.            *)
Admissible == account.status = "active" /\ account.verified

Outstanding(ch) ==
    /\ challenges[ch].version # 0
    /\ challenges[ch].used = 0
    /\ ~challenges[ch].invalidated

OfPurpose(purposes) ==
    {ch \in Challenges : Outstanding(ch) /\ challenges[ch].purpose \in purposes}

(* invalidate_outstanding at a time.  A CHECK constraint refuses a time    *)
(* before the issue of a challenge: the statement, and with it the whole   *)
(* transaction, fails unless InOrder holds.                                *)
InOrder(purposes, at) ==
    \A ch \in OfPurpose(purposes) : at >= challenges[ch].issued

Invalidated(table, purposes) ==
    [ch \in Challenges |-> IF ch \in OfPurpose(purposes)
                           THEN [table[ch] EXCEPT !.invalidated = TRUE]
                           ELSE table[ch]]

NewChallenge(purpose, version, now) ==
    [purpose |-> purpose, version |-> version, issued |-> now,
     expires |-> now + (IF purpose = "reset" THEN ResetTtl
                                             ELSE VerificationTtl),
     used |-> 0, invalidated |-> FALSE]

-----------------------------------------------------------------------------
(* register: one committed registration per address, the UNIQUE constraint *)
(* on canonical_email turns every other one into duplicate_email.          *)
Register(ch, now) ==
    /\ account.status = "absent"
    /\ challenges[ch] = NoChallenge
    /\ account' = [status |-> "active", verified |-> FALSE,
                   version |-> 1, epoch |-> 1]
    /\ challenges' = [challenges EXCEPT ![ch] =
                        NewChallenge("verification", 1, now)]
    /\ UNCHANGED <<sessions, tickets>>

(* Fault: the session is inserted without the recheck.                     *)
CommitLoginUnguarded(s, version, epoch, now) ==
    /\ sessions[s] = NoSession
    /\ sessions' = [sessions EXCEPT ![s] =
                      [epoch |-> epoch, proof |-> version, seen |-> now,
                       idle |-> now + IdleTtl, absolute |-> now + AbsoluteTtl,
                       revoked |-> FALSE]]
    /\ UNCHANGED <<account, challenges, tickets>>

(* commit_login, with the version and epoch the command had read.          *)
CommitLogin(s, version, epoch, now) ==
    /\ sessions[s] = NoSession
    /\ Admissible
    /\ account.version = version
    /\ account.epoch = epoch
    /\ sessions' = [sessions EXCEPT ![s] =
                      [epoch |-> epoch, proof |-> version, seen |-> now,
                       idle |-> now + IdleTtl, absolute |-> now + AbsoluteTtl,
                       revoked |-> FALSE]]
    /\ UNCHANGED <<account, challenges, tickets>>

-----------------------------------------------------------------------------
(* Session::touch.                                                         *)
Touched(s, now) ==
    [sessions[s] EXCEPT !.seen = now,
                        !.idle = IF now + IdleTtl < sessions[s].absolute
                                 THEN now + IdleTtl ELSE sessions[s].absolute]

(* resolve, admitted: the session is touched.                              *)
Admit(s, now) ==
    /\ Usable(s, now)
    /\ Admissible
    /\ sessions[s].epoch = account.epoch
    /\ sessions' = [sessions EXCEPT ![s] = Touched(s, now)]
    /\ UNCHANGED <<account, challenges, tickets>>

(* resolve, rejected for an expiry it is the first to see: revoked_at_ms.  *)
Latch(s, now) ==
    /\ sessions[s].epoch # 0
    /\ ~sessions[s].revoked
    /\ now >= sessions[s].seen
    /\ Expired(s, now)
    /\ sessions' = [sessions EXCEPT ![s].revoked = TRUE]
    /\ UNCHANGED <<account, challenges, tickets>>

(* revoke_session, revoked.  Session::revoke refuses a time before the     *)
(* last activity, which fails the transaction.                             *)
RevokeSession(s, now) ==
    /\ sessions[s].epoch # 0
    /\ ~sessions[s].revoked
    /\ now >= sessions[s].seen
    /\ sessions' = [sessions EXCEPT ![s].revoked = TRUE]
    /\ UNCHANGED <<account, challenges, tickets>>

(* revoke_all.                                                             *)
RevokeAll(epoch) ==
    /\ account.epoch = epoch
    /\ epoch < MaxVersion
    /\ account' = [account EXCEPT !.epoch = epoch + 1]
    /\ UNCHANGED <<sessions, challenges, tickets>>

-----------------------------------------------------------------------------
(* issue_upgrade_ticket and consume_upgrade_ticket.                        *)
IssueTicket(t, s, epoch, now) ==
    /\ tickets[t] = NoTicket
    /\ Admissible
    /\ account.epoch = epoch
    /\ Usable(s, now)
    /\ sessions[s].epoch = epoch
    /\ tickets' = [tickets EXCEPT ![t] =
                     [session |-> s, issued |-> now,
                      expires |-> now + TicketTtl, used |-> 0,
                      socket |-> NoId]]
    /\ UNCHANGED <<account, sessions, challenges>>

(* UpgradeTicket::consume, and the guard of the update.                    *)
Redeemable(t, now) ==
    /\ tickets[t].used = 0
    /\ tickets[t].issued <= now
    /\ now < tickets[t].expires

(* socket is what the caller makes of the admission it gets.               *)
ConsumeTicket(t, now, socket) ==
    /\ tickets[t] # NoTicket
    /\ Admissible
    /\ Usable(tickets[t].session, now)
    /\ sessions[tickets[t].session].epoch = account.epoch
    /\ Redeemable(t, now)
    /\ tickets' = [tickets EXCEPT ![t].used = @ + 1, ![t].socket = socket]
    /\ UNCHANGED <<account, sessions, challenges>>

-----------------------------------------------------------------------------
(* Fault: the version is not compared.                                     *)
IssueChallengeUnguarded(ch, purpose, version, now) ==
    /\ challenges[ch] = NoChallenge
    /\ InOrder({purpose}, now)
    /\ challenges' = [Invalidated(challenges, {purpose}) EXCEPT ![ch] =
                        NewChallenge(purpose, version, now)]
    /\ UNCHANGED <<account, sessions, tickets>>

(* issue_challenge.                                                        *)
IssueChallenge(ch, purpose, version, now) ==
    /\ challenges[ch] = NoChallenge
    /\ account.version = version
    /\ InOrder({purpose}, now)
    /\ challenges' = [Invalidated(challenges, {purpose}) EXCEPT ![ch] =
                        NewChallenge(purpose, version, now)]
    /\ UNCHANGED <<account, sessions, tickets>>

(* Fault: the update drops  consumed_at_ms IS NULL.                        *)
ConsumableAgain(ch, purpose, now) ==
    /\ ~challenges[ch].invalidated
    /\ challenges[ch].purpose = purpose
    /\ challenges[ch].issued <= now
    /\ now < challenges[ch].expires

(* consume_challenge: the WHERE clause of its update.                      *)
Consumable(ch, purpose, now) ==
    /\ Outstanding(ch)
    /\ challenges[ch].purpose = purpose
    /\ challenges[ch].issued <= now
    /\ now < challenges[ch].expires

Consumed(ch) == [challenges EXCEPT ![ch].used = @ + 1]

(* verify_email.                                                           *)
VerifyEmail(ch, version, now) ==
    /\ account.version = version
    /\ Consumable(ch, "verification", now)
    /\ challenges' = Consumed(ch)
    /\ account' = [account EXCEPT !.verified = TRUE]
    /\ UNCHANGED <<sessions, tickets>>

(* Faults: the epoch stays; set_verified is ignored.                       *)
ReplacedKeepsEpoch(setVerified) ==
    [account EXCEPT !.version = @ + 1, !.verified = @ \/ setVerified]
ReplacedUnverified(setVerified) ==
    [account EXCEPT !.version = @ + 1, !.epoch = @ + 1]

(* replace_password: version, epoch and verification of the account.       *)
Replaced(setVerified) ==
    [account EXCEPT !.version = @ + 1, !.epoch = @ + 1,
                    !.verified = @ \/ setVerified]

(* Fault: exhaustion is not checked.                                       *)
ReplaceGuardUnbounded(version, epoch) ==
    account.version = version /\ account.epoch = epoch

(* The version and epoch guard of change_password and reset_password; at   *)
(* the largest version or epoch they are refused as exhausted.             *)
ReplaceGuard(version, epoch) ==
    /\ account.version = version
    /\ account.epoch = epoch
    /\ version < MaxVersion
    /\ epoch < MaxVersion

ChangePassword(version, epoch, now) ==
    /\ ReplaceGuard(version, epoch)
    /\ InOrder(Purposes, now)
    /\ account' = Replaced(FALSE)
    /\ challenges' = Invalidated(challenges, Purposes)
    /\ UNCHANGED <<sessions, tickets>>

(* The challenge is consumed before the others are invalidated.            *)
ResetPassword(ch, version, epoch, now, setVerified) ==
    /\ ReplaceGuard(version, epoch)
    /\ Consumable(ch, "reset", now)
    /\ InOrder(Purposes, now)
    /\ account' = Replaced(setVerified)
    /\ challenges' = [Invalidated(challenges, Purposes) EXCEPT ![ch] =
                        [challenges[ch] EXCEPT !.used = @ + 1]]
    /\ UNCHANGED <<sessions, tickets>>

-----------------------------------------------------------------------------
(* External: the operator suspends or reinstates the principal, which no   *)
(* operation of the program does.  A suspension is taken to move the epoch *)
(* on, as the contract (A14) asks of whoever writes one.                   *)
Suspend ==
    /\ account.status = "active"
    /\ account.epoch < MaxVersion
    /\ account' = [account EXCEPT !.status = "suspended", !.epoch = @ + 1]
    /\ UNCHANGED <<sessions, challenges, tickets>>

Activate ==
    /\ account.status = "suspended"
    /\ account' = [account EXCEPT !.status = "active"]
    /\ UNCHANGED <<sessions, challenges, tickets>>

-----------------------------------------------------------------------------
AccountsTypeOK ==
    /\ account \in Account
    /\ sessions \in [Sessions -> Session]
    /\ challenges \in [Challenges -> Challenge]
    /\ tickets \in [Tickets -> Ticket]
=============================================================================
