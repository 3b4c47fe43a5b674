------------------------------ MODULE Identity ------------------------------
(***************************************************************************)
(* The commands of domains/identity/app over the store of Accounts.  A     *)
(* command reads the clock and a snapshot, works for a long time outside   *)
(* any transaction (password hashing, the limiter, mail) and commits with  *)
(* the versions it read.  Commands of any number of requests interleave    *)
(* between these points, and each may be given up at any of them.          *)
(*                                                                         *)
(* What a password or token proves is abstract: a command that needs the   *)
(* current password is one whose verification matched the hash it read,    *)
(* any stored token may be presented at any time, and a request that is    *)
(* refused for its input is not started.                                   *)
(***************************************************************************)
EXTENDS Accounts

CONSTANTS
    Requests,     \* requests in flight
    Ops,          \* the commands that requests may be
    MaxTime       \* bound: the clock stops here

Commands == {"register", "login", "request_verification", "request_reset",
             "verify", "reset", "logout", "logout_all", "change", "ticket",
             "upgrade"}

\* Commands of an authenticated caller resolve a session first.
Authenticated == {"logout", "logout_all", "change", "ticket", "upgrade"}

ASSUME CommandAssumption == Ops \subseteq Commands /\ MaxTime \in Nat

VARIABLES
    clock,        \* the wall clock
    cmd           \* what each request has read so far

vars == <<accountVars, clock, cmd>>

Stages == {"idle", "resolve", "find", "stamp", "commit", "failed"}

\* now is the last reading of the clock; session and epoch are the caller;
\* token is the challenge or ticket that was presented; version, epoch and
\* verified are the snapshot that was found.
Command == [op       : Commands \cup {"none"},
            stage    : Stages,
            now      : Nat,
            session  : Sessions \cup {NoId},
            token    : Challenges \cup Tickets \cup {NoId},
            version  : 0..MaxVersion,
            epoch    : 0..MaxVersion,
            verified : BOOLEAN]

\* A command that has found nothing yet.
Begun(op, stage, now, s, token) ==
    [op |-> op, stage |-> stage, now |-> now, session |-> s, token |-> token,
     version |-> 0, epoch |-> 0, verified |-> FALSE]

NoCommand == Begun("none", "idle", 0, NoId, NoId)

Init ==
    /\ AccountsInit
    /\ clock = 0
    /\ cmd = [r \in Requests |-> NoCommand]

PurposeOf(op) ==
    IF op \in {"verify", "request_verification"} THEN "verification" ELSE "reset"

At(r, op, stage) == cmd[r].op = op /\ cmd[r].stage = stage

Finish(r) == cmd' = [cmd EXCEPT ![r] = NoCommand]

-----------------------------------------------------------------------------
(* A request starts.  Login and register read the clock first, so do the   *)
(* commands that resolve a session; the others find first.                 *)
Start(r, command) ==
    /\ cmd[r] = NoCommand
    /\ command.op \in Ops
    /\ cmd' = [cmd EXCEPT ![r] = command]
    /\ UNCHANGED <<accountVars, clock>>

StartRegister(r) == Start(r, Begun("register", "commit", clock, NoId, NoId))

StartLogin(r) == Start(r, Begun("login", "find", clock, NoId, NoId))

StartRequest(r, op) == Start(r, Begun(op, "find", 0, NoId, NoId))

StartRedeem(r, op, ch) ==
    /\ challenges[ch].version # 0
    /\ challenges[ch].purpose = PurposeOf(op)
    /\ Start(r, Begun(op, "find", 0, NoId, ch))

(* An upgrade presents a session and a ticket.                             *)
Presented(op) ==
    IF op = "upgrade" THEN {t \in Tickets : tickets[t] # NoTicket} ELSE {NoId}

StartAuthenticated(r, op, s) ==
    /\ sessions[s] # NoSession
    /\ \E token \in Presented(op) :
          Start(r, Begun(op, "resolve", clock, s, token))

-----------------------------------------------------------------------------
(* Authenticate::authenticate: one transaction; the caller carries the     *)
(* epoch it was admitted with.                                             *)
Resolve(r) ==
    /\ cmd[r].stage = "resolve"
    /\ Admit(cmd[r].session, cmd[r].now)
    /\ cmd' = [cmd EXCEPT ![r].stage = "stamp", ![r].epoch = account.epoch]
    /\ UNCHANGED clock

ResolveLatches(r) ==
    /\ cmd[r].stage = "resolve"
    /\ Latch(cmd[r].session, cmd[r].now)
    /\ Finish(r)
    /\ UNCHANGED clock

-----------------------------------------------------------------------------
(* The snapshot reads, and the checks that follow them before the slow     *)
(* work.  A command whose checks fail is given up.                         *)
FindLogin(r) ==
    /\ At(r, "login", "find")
    /\ Admissible
    /\ cmd' = [cmd EXCEPT ![r].stage = "commit", ![r].version = account.version,
                          ![r].epoch = account.epoch]
    /\ UNCHANGED <<accountVars, clock>>

FindChange(r) ==
    /\ At(r, "change", "find")
    /\ account.epoch = cmd[r].epoch
    /\ account.status = "active"
    /\ cmd' = [cmd EXCEPT ![r].stage = "commit", ![r].version = account.version]
    /\ UNCHANGED <<accountVars, clock>>

FindRequest(r) ==
    /\ cmd[r].op \in {"request_verification", "request_reset"}
    /\ cmd[r].stage = "find"
    /\ account.status = "active"
    /\ cmd[r].op = "request_verification" => ~account.verified
    /\ cmd' = [cmd EXCEPT ![r].stage = "stamp", ![r].version = account.version]
    /\ UNCHANGED <<accountVars, clock>>

FindChallenge(r) ==
    /\ cmd[r].op \in {"verify", "reset"}
    /\ cmd[r].stage = "find"
    /\ account.status = "active"
    /\ Outstanding(cmd[r].token)
    /\ challenges[cmd[r].token].version = account.version
    /\ cmd' = [cmd EXCEPT ![r].stage = "stamp", ![r].version = account.version,
                          ![r].epoch = account.epoch,
                          ![r].verified = account.verified]
    /\ UNCHANGED <<accountVars, clock>>

(* The clock reading that follows a find or a resolve.  A challenge that   *)
(* is not current at that reading is refused here (Challenge::consume).    *)
Stamp(r) ==
    /\ cmd[r].stage = "stamp"
    /\ cmd[r].op \in {"verify", "reset"} =>
          /\ challenges[cmd[r].token].issued <= clock
          /\ clock < challenges[cmd[r].token].expires
    /\ cmd' = [cmd EXCEPT ![r].now = clock,
                          ![r].stage = IF cmd[r].op = "change"
                                       THEN "find" ELSE "commit"]
    /\ UNCHANGED <<accountVars, clock>>

-----------------------------------------------------------------------------
(* authorize_websocket refuses a ticket of another session than the one it *)
(* resolved, after consuming it.                                           *)
SocketFor(c) ==
    IF /\ tickets[c.token].session = c.session
       /\ sessions[c.session].epoch = c.epoch
    THEN c.session ELSE NoId

(* The commits.                                                            *)
Commit(r) ==
    /\ cmd[r].stage = "commit"
    /\ LET c == cmd[r] IN
       \/ /\ c.op = "register"
          /\ \E ch \in Challenges : Register(ch, c.now)
       \/ /\ c.op = "login"
          /\ \E s \in Sessions : CommitLogin(s, c.version, c.epoch, c.now)
       \/ /\ c.op \in {"request_verification", "request_reset"}
          /\ \E ch \in Challenges :
                IssueChallenge(ch, PurposeOf(c.op), c.version, c.now)
       \/ c.op = "verify" /\ VerifyEmail(c.token, c.version, c.now)
       \/ /\ c.op = "reset"
          /\ ResetPassword(c.token, c.version, c.epoch, c.now, ~c.verified)
       \/ c.op = "change" /\ ChangePassword(c.version, c.epoch, c.now)
       \/ c.op = "logout" /\ RevokeSession(c.session, c.now)
       \/ c.op = "logout_all" /\ RevokeAll(c.epoch)
       \/ /\ c.op = "ticket"
          /\ \E t \in Tickets : IssueTicket(t, c.session, c.epoch, c.now)
       \/ /\ c.op = "upgrade"
          /\ ConsumeTicket(c.token, c.now, SocketFor(c))
    /\ Finish(r)
    /\ UNCHANGED clock

(* The commits that fail although every guard the contract names is met:   *)
(* Session::revoke at a time before the last activity (invalid), and the   *)
(* CHECK constraint on invalidated_at_ms (an internal error).              *)
Fail(r) ==
    /\ cmd[r].stage = "commit"
    /\ LET c == cmd[r] IN
       \/ /\ c.op = "logout"
          /\ ~sessions[c.session].revoked
          /\ c.now < sessions[c.session].seen
       \/ /\ c.op = "change"
          /\ ReplaceGuard(c.version, c.epoch)
          /\ ~InOrder(Purposes, c.now)
       \/ /\ c.op \in {"request_verification", "request_reset"}
          /\ account.version = c.version
          /\ ~InOrder({PurposeOf(c.op)}, c.now)
       \/ /\ c.op = "reset"
          /\ ReplaceGuard(c.version, c.epoch)
          /\ Consumable(c.token, "reset", c.now)
          /\ ~InOrder(Purposes, c.now)
    /\ cmd' = [cmd EXCEPT ![r].stage = "failed"]
    /\ UNCHANGED <<accountVars, clock>>

(* A request ends without effect at any point: refused, stale, timed out,  *)
(* cancelled, a dependency that failed, or the end of the process.         *)
GiveUp(r) ==
    /\ cmd[r] # NoCommand
    /\ Finish(r)
    /\ UNCHANGED <<accountVars, clock>>

Tick ==
    /\ clock < MaxTime
    /\ clock' = clock + 1
    /\ UNCHANGED <<accountVars, cmd>>

Operator ==
    /\ Suspend \/ Activate
    /\ UNCHANGED <<clock, cmd>>

Request(r) ==
    \/ StartRegister(r)
    \/ StartLogin(r)
    \/ StartRequest(r, "request_verification")
    \/ StartRequest(r, "request_reset")
    \/ \E op \in {"verify", "reset"}, ch \in Challenges :
          StartRedeem(r, op, ch)
    \/ \E op \in Authenticated, s \in Sessions : StartAuthenticated(r, op, s)
    \/ Resolve(r)
    \/ ResolveLatches(r)
    \/ FindLogin(r)
    \/ FindChange(r)
    \/ FindRequest(r)
    \/ FindChallenge(r)
    \/ Stamp(r)
    \/ Commit(r)
    \/ Fail(r)
    \/ GiveUp(r)

Next == (\E r \in Requests : Request(r)) \/ Tick \/ Operator

Spec == Init /\ [][Next]_vars

-----------------------------------------------------------------------------
TypeOK ==
    /\ AccountsTypeOK
    /\ clock \in 0..MaxTime
    /\ cmd \in [Requests -> Command]

(* A session that the current epoch admits was opened by a login that      *)
(* verified the current password: a change or reset that commits while a   *)
(* login still hashes wins (commit_login, replace_password).               *)
SessionsAreCurrent ==
    \A s \in Sessions :
        sessions[s].epoch = account.epoch => sessions[s].proof = account.version

(* At most one challenge of a purpose can be used, and only with the       *)
(* password version the account has: issuing one withdraws the one before, *)
(* and a new password withdraws all, whatever was in flight.               *)
ChallengesAreCurrent ==
    /\ \A p \in Purposes : Cardinality(OfPurpose({p})) <= 1
    /\ \A ch \in Challenges :
          Outstanding(ch) => challenges[ch].version = account.version

(* However many requests present it at once, a challenge or a ticket is    *)
(* consumed by at most one commit.                                         *)
UsedOnce ==
    /\ \A ch \in Challenges : challenges[ch].used <= 1
    /\ \A t \in Tickets : tickets[t].used <= 1

(* The address counts as verified exactly when somebody used a challenge   *)
(* that was mailed to it, for verification or for a reset.                 *)
VerifiedByChallenge ==
    account.verified <=> \E ch \in Challenges : challenges[ch].used > 0

(* Stored activity never moves backwards and never past the absolute       *)
(* deadline, although requests reach the store in another order than they  *)
(* read the clock; a revoked session is not touched.                       *)
ActivityMovesForward ==
    [][\A s \in Sessions :
          sessions[s] # NoSession =>
             /\ sessions'[s].seen >= sessions[s].seen
             /\ sessions'[s].seen < sessions'[s].absolute
             /\ sessions'[s].idle <= sessions'[s].absolute
             /\ sessions[s].revoked => sessions'[s] = sessions[s]]_vars

(* The commands keep the promise of AccountPromise.                        *)
IsOpen(s) ==
    /\ sessions[s].epoch # 0
    /\ ~sessions[s].revoked
    /\ sessions[s].epoch = account.epoch

Promise == INSTANCE AccountPromise WITH
    active   <- account.status = "active",
    password <- account.version,
    verified <- account.verified,
    open     <- {s \in Sessions : IsOpen(s)},
    past     <- {s \in Sessions : sessions[s].epoch # 0 /\ ~IsOpen(s)},
    pending  <- {<<challenges[ch].purpose, ch>> : ch \in OfPurpose(Purposes)},
    asked    <- {ch \in Challenges : challenges[ch].version # 0},
    sockets  <- {<<t, tickets[t].socket>> :
                    t \in {x \in Tickets : tickets[x].socket # NoId}}

KeepsPromise == Promise!PromiseSpec

(* The contract of the application, U17: "Principal status is enforced by  *)
(* the store recheck, which reports an inactive principal as stale in      *)
(* every mutation."  (issue_challenge and verify_email do not recheck it.) *)
InactiveIsStale ==
    [][account.status = "suspended" /\ account'.status = "suspended" =>
          /\ account' = account
          /\ challenges' = challenges
          /\ tickets' = tickets]_vars

(* U09: "Logout(authenticated principal) -> done"; a session that is       *)
(* already inactive or absent is done too.                                 *)
LogoutIsDone ==
    \A r \in Requests : cmd[r].op = "logout" => cmd[r].stage # "failed"

(* S13: "version or epoch differs -> stale", and otherwise the password is *)
(* changed.                                                                *)
ChangeIsDecided ==
    \A r \in Requests : cmd[r].op = "change" => cmd[r].stage # "failed"
=============================================================================
