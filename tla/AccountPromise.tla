--------------------------- MODULE AccountPromise ---------------------------
(***************************************************************************)
(* What the identity module promises of one account, as if every command   *)
(* were a single step: there are no snapshots, epochs, versions of rows or *)
(* clocks.  A session is open from its login until it is closed, alone or  *)
(* with all others, and never again.  A new password closes every session  *)
(* and withdraws every challenge; a challenge replaces the one before it;  *)
(* a challenge or an upgrade ticket is used once.                          *)
(***************************************************************************)
EXTENDS Integers

CONSTANTS Sessions, Challenges, Tickets

VARIABLES
    active,       \* the principal may log in
    password,     \* how many passwords the account has had
    verified,     \* control of the mailbox was shown
    open,         \* the sessions that are open
    past,         \* the sessions that were
    pending,      \* challenges that may be used, with their purpose
    asked,        \* every challenge there was
    sockets       \* upgrade tickets that were used, with their session

promiseVars == <<active, password, verified, open, past, pending, asked, sockets>>

PromiseInit ==
    /\ active = FALSE
    /\ password = 0
    /\ verified = FALSE
    /\ open = {}
    /\ past = {}
    /\ pending = {}
    /\ asked = {}
    /\ sockets = {}

CloseAll ==
    /\ open' = {}
    /\ past' = past \cup open

Pending(purpose, ch) ==
    /\ ch \notin asked
    /\ pending' = {p \in pending : p[1] # purpose} \cup {<<purpose, ch>>}
    /\ asked' = asked \cup {ch}

Enrol(ch) ==
    /\ password = 0
    /\ password' = 1
    /\ active' = TRUE
    /\ Pending("verification", ch)
    /\ UNCHANGED <<verified, open, past, sockets>>

Ask(purpose, ch) ==
    /\ password # 0
    /\ Pending(purpose, ch)
    /\ UNCHANGED <<active, password, verified, open, past, sockets>>

Verify(ch) ==
    /\ <<"verification", ch>> \in pending
    /\ pending' = pending \ {<<"verification", ch>>}
    /\ verified' = TRUE
    /\ UNCHANGED <<active, password, open, past, asked, sockets>>

Change ==
    /\ password # 0
    /\ password' = password + 1
    /\ pending' = {}
    /\ CloseAll
    /\ UNCHANGED <<active, verified, asked, sockets>>

Recover(ch) ==
    /\ <<"reset", ch>> \in pending
    /\ password' = password + 1
    /\ verified' = TRUE
    /\ pending' = {}
    /\ CloseAll
    /\ UNCHANGED <<active, asked, sockets>>

Open(s) ==
    /\ active
    /\ verified
    /\ s \notin open \cup past
    /\ open' = open \cup {s}
    /\ UNCHANGED <<active, password, verified, past, pending, asked, sockets>>

Close(s) ==
    /\ open' = open \ {s}
    /\ past' = past \cup (open \cap {s})
    /\ UNCHANGED <<active, password, verified, pending, asked, sockets>>

LogoutAll ==
    /\ CloseAll
    /\ UNCHANGED <<active, password, verified, pending, asked, sockets>>

Upgrade(t, s) ==
    /\ active
    /\ s \in open
    /\ \A x \in Sessions : <<t, x>> \notin sockets
    /\ sockets' = sockets \cup {<<t, s>>}
    /\ UNCHANGED <<active, password, verified, open, past, pending, asked>>

Suspended ==
    /\ active
    /\ active' = FALSE
    /\ CloseAll
    /\ UNCHANGED <<password, verified, pending, asked, sockets>>

Reinstated ==
    /\ ~active
    /\ password # 0
    /\ active' = TRUE
    /\ UNCHANGED <<password, verified, open, past, pending, asked, sockets>>

PromiseNext ==
    \/ \E ch \in Challenges :
          \/ Enrol(ch)
          \/ \E purpose \in {"verification", "reset"} : Ask(purpose, ch)
          \/ Verify(ch)
          \/ Recover(ch)
    \/ Change
    \/ \E s \in Sessions : Open(s) \/ Close(s) \/ \E t \in Tickets : Upgrade(t, s)
    \/ LogoutAll
    \/ Suspended
    \/ Reinstated

PromiseSpec == PromiseInit /\ [][PromiseNext]_promiseVars
=============================================================================
