------------------------------- MODULE Mailing -------------------------------
(***************************************************************************)
(* Registrations and challenge requests of one address, from the store's   *)
(* commit to the mail: register and request_challenge of                   *)
(* identity/app/command.rs, Mailer of identity/infra/smtp and              *)
(* UndeliveredMail of identity/infra/local.                                *)
(*                                                                         *)
(* A token is the request that made it.  What the account looks like to    *)
(* other commands is the subject of Accounts; here it exists or not, is    *)
(* verified, suspended or neither, and has the version of its password.  A *)
(* challenge is live until it is used, another replaces it, its time is    *)
(* over, or the password is replaced.                                      *)
(***************************************************************************)
EXTENDS Naturals, FiniteSets

CONSTANTS Requests,
          Changes    \* how often the password is replaced, at most

MailingAssumption == Changes \in Nat

VARIABLES
  smtp,        \* a mail host is configured; without one nothing is delivered
  account,     \* "none", "unverified", "verified", "suspended"
  password,    \* credential.password_version
  stored,      \* the committed challenges: [token, purpose, state]
  stage,       \* where a request is
  asked,       \* what it asks for
  found,       \* the version of the password that it has read
  answer,      \* what it told its caller: issued, and whether the mail was delivered
  sent,        \* history: how often it gave its message to a mail server
  wire,        \* the messages a server has and has not decided on
  reply,       \* the server's answer to a request
  inbox        \* the messages a server accepted

vars == <<smtp, account, password, stored, stage, asked, found, answer, sent, wire, reply,
          inbox>>

Kinds == {"register", "verification", "reset"}
States == {"live", "used", "replaced", "expired", "revoked"}
Purpose(kind) == IF kind = "reset" THEN "reset" ELSE "verification"
NoAnswer == [issued |-> FALSE, delivered |-> FALSE]

Message(r) == [token |-> r, purpose |-> Purpose(asked[r])]

Init == /\ smtp \in BOOLEAN
        /\ account \in {"none", "unverified", "verified", "suspended"}
        /\ password = 0 /\ stored = {}
        /\ stage = [r \in Requests |-> "idle"]
        /\ asked = [r \in Requests |-> "register"]
        /\ found = [r \in Requests |-> 0]
        /\ answer = [r \in Requests |-> NoAnswer]
        /\ sent = [r \in Requests |-> 0]
        /\ wire = {}
        /\ reply = [r \in Requests |-> "none"]
        /\ inbox = {}

Go(r, to) == stage' = [stage EXCEPT ![r] = to]
Answer(r, issued, delivered) ==
  /\ Go(r, "answered")
  /\ answer' = [answer EXCEPT ![r] = [issued |-> issued, delivered |-> delivered]]

Unmailed == UNCHANGED <<smtp, sent, wire, reply, inbox>>

Ask(r, kind) == /\ stage[r] = "idle"
                /\ asked' = [asked EXCEPT ![r] = kind]
                /\ Go(r, IF kind = "register" THEN "committing" ELSE "finding")
                /\ Unmailed /\ UNCHANGED <<account, password, stored, found, answer>>

\* An address nobody registered, one whose owner is suspended, or one that needs
\* no verification, is answered like any other.
Wanted(kind) == /\ account \notin {"none", "suspended"}
                /\ kind = "verification" => account # "verified"

Find(r) == /\ stage[r] = "finding"
           /\ \/ /\ Wanted(asked[r])
                 /\ Go(r, "committing")
                 /\ found' = [found EXCEPT ![r] = password]
                 /\ UNCHANGED answer
              \/ /\ ~Wanted(asked[r])
                 /\ Answer(r, FALSE, FALSE)
                 /\ UNCHANGED found
           /\ Unmailed /\ UNCHANGED <<account, password, stored, asked>>

\* The row of r, which ends the live one of the same purpose.
WithReplaced(r) ==
  { IF c.purpose = Purpose(asked[r]) /\ c.state = "live"
    THEN [c EXCEPT !.state = "replaced"] ELSE c : c \in stored }
    \cup {[token |-> r, purpose |-> Purpose(asked[r]), state |-> "live"]}

Insert(r) == /\ stored' = WithReplaced(r)
             /\ account' = IF asked[r] = "register" THEN "unverified" ELSE account

Duplicate(r) == asked[r] = "register" /\ account # "none"
\* Commit::Stale: the password was replaced since the request has read it.
Stale(r) == asked[r] # "register" /\ found[r] # password

\* Only a commit that is known sends mail.
Commit(r) == /\ stage[r] = "committing" /\ ~Duplicate(r) /\ ~Stale(r)
             /\ Insert(r)
             /\ Go(r, "sending")
             /\ Unmailed /\ UNCHANGED <<password, asked, found, answer>>

\* A registration of a known address, and a challenge for a password that was
\* replaced meanwhile, are answered like any other and send nothing.
Ignore(r) == /\ stage[r] = "committing"
             /\ Duplicate(r) \/ Stale(r)
             /\ Answer(r, FALSE, FALSE)
             /\ Unmailed /\ UNCHANGED <<account, password, stored, asked, found>>

\* Mutant: the commit may have happened, so the mail is sent.
FailedButSends(r) == Go(r, "sending")
Failed(r) == Go(r, "failed")

\* The transaction fails, or its commit is of unknown outcome.
Break(r) == /\ stage[r] = "committing"
            /\ \/ ~Duplicate(r) /\ ~Stale(r) /\ Insert(r)
               \/ UNCHANGED <<account, stored>>
            /\ Failed(r)
            /\ Unmailed /\ UNCHANGED <<password, asked, found, answer>>

-------------------------------------------------------------------------------

\* UndeliveredMail counts, and says that nothing was delivered.
Undelivered(r) == /\ stage[r] = "sending" /\ ~smtp
                  /\ Answer(r, TRUE, FALSE)
                  /\ Unmailed /\ UNCHANGED <<account, password, stored, asked, found>>

\* Mailer::attempt: connect, authenticate, and give the message to the server.
Submit(r) == /\ stage[r] = "sending" /\ smtp
             /\ sent' = [sent EXCEPT ![r] = @ + 1]
             /\ wire' = wire \cup {Message(r)}
             /\ Go(r, "waiting")
             /\ UNCHANGED <<smtp, account, password, stored, asked, found, answer, reply, inbox>>

\* No connection, no TLS, a refused sender or recipient: nothing was submitted.
Refused(r) == /\ stage[r] = "sending" /\ smtp
              /\ Answer(r, TRUE, FALSE)
              /\ Unmailed /\ UNCHANGED <<account, password, stored, asked, found>>

\* The server decides on a message it has, whether or not somebody still waits
\* for its answer, and need not decide at all.
Server(m) == /\ m \in wire
             /\ wire' = wire \ {m}
             /\ \/ inbox' = inbox \cup {m} /\ reply' = [reply EXCEPT ![m.token] = "250"]
                \/ reply' = [reply EXCEPT ![m.token] = "5xx"] /\ UNCHANGED inbox
             /\ UNCHANGED <<smtp, account, password, stored, stage, asked, found, answer, sent>>

Delivered(r) == reply[r] = "250"

Replied(r) == /\ stage[r] = "waiting" /\ reply[r] # "none"
              /\ Answer(r, TRUE, Delivered(r))
              /\ Unmailed /\ UNCHANGED <<account, password, stored, asked, found>>

\* Mailer::deliver: the budget of the attempt is used up, connect included, or
\* the connection is lost.
TimeUp(r) == Answer(r, TRUE, FALSE)

Expires(r) == stage[r] \in {"sending", "waiting"} /\ smtp

Timeout(r) == /\ Expires(r)
              /\ TimeUp(r)
              /\ Unmailed /\ UNCHANGED <<account, password, stored, asked, found>>

\* The request is dropped by its own timeout, its caller or a shutdown.
Drop(r) == /\ stage[r] \in {"finding", "committing", "sending", "waiting"}
           /\ Go(r, "dropped")
           /\ Unmailed /\ UNCHANGED <<account, password, stored, asked, found, answer>>

-------------------------------------------------------------------------------

\* How a challenge ends.
Now(c, state) == [c EXCEPT !.state = state]
Others == Unmailed /\ UNCHANGED <<stage, asked, found, answer>>

\* Other requests, those of somebody who read the mail.
Verify(m) ==
  /\ m.purpose = "verification"
  /\ \E c \in stored : /\ c.state = "live" /\ c.token = m.token
                       /\ stored' = (stored \ {c}) \cup {Now(c, "used")}
  /\ account' = "verified"
  /\ Others /\ UNCHANGED password

\* replace_password: a new version, and whatever is outstanding, for any purpose,
\* is invalidated.
Revoked(cs) == { IF c.state = "live" THEN Now(c, "revoked") ELSE c : c \in cs }
Replace(cs) == /\ password < Changes /\ password' = password + 1
               /\ account' = "verified"
               /\ stored' = Revoked(cs)

Reset(m) ==
  /\ m.purpose = "reset"
  /\ \E c \in stored : /\ c.state = "live" /\ c.token = m.token
                       /\ Replace((stored \ {c}) \cup {Now(c, "used")})
  /\ Others

\* change_password, in a session of the owner, who is verified.
Change == account = "verified" /\ Replace(stored) /\ Others

Expire(c) == /\ c.state = "live"
             /\ stored' = (stored \ {c}) \cup {Now(c, "expired")}
             /\ Others /\ UNCHANGED <<account, password>>

Next == \/ \E r \in Requests :
             \/ \E kind \in Kinds : Ask(r, kind)
             \/ Find(r) \/ Commit(r) \/ Ignore(r) \/ Break(r)
             \/ Undelivered(r) \/ Submit(r) \/ Refused(r) \/ Replied(r)
             \/ Timeout(r) \/ Drop(r)
        \/ \E m \in wire : Server(m)
        \/ \E m \in inbox : Verify(m) \/ Reset(m)
        \/ \E c \in stored : Expire(c)
        \/ Change

\* A query and a transaction end by their own budget, and a timer fires.  The
\* mail server promises nothing.
Fairness == \A r \in Requests :
  /\ WF_vars(Find(r)) /\ WF_vars(Commit(r) \/ Ignore(r) \/ Break(r))
  /\ WF_vars(Undelivered(r)) /\ WF_vars(Timeout(r))

Spec == Init /\ [][Next]_vars /\ Fairness

-------------------------------------------------------------------------------

TypeOK ==
  /\ account \in {"none", "unverified", "verified", "suspended"}
  /\ password \in 0..Changes /\ found \in [Requests -> 0..Changes]
  /\ stored \subseteq [token : Requests, purpose : {"verification", "reset"}, state : States]
  /\ stage \in [Requests -> {"idle", "finding", "committing", "sending", "waiting",
                             "answered", "failed", "dropped"}]
  /\ wire \cup inbox \subseteq [token : Requests, purpose : {"verification", "reset"}]
  /\ \A p \in {"verification", "reset"} :
       Cardinality({c \in stored : c.purpose = p /\ c.state = "live"}) <= 1

\* register, request_challenge: nobody is mailed a token that the store does not
\* have, or has for another purpose, whatever becomes of the commit, the request
\* or the connection.  Registering an address again mails nothing.
MailMeansCommitted ==
  \A m \in wire \cup inbox : \E c \in stored : c.token = m.token /\ c.purpose = m.purpose

\* Mailer::deliver: a mail is reported delivered only when the server has
\* accepted it after DATA.
DeliveredWasAccepted ==
  \A r \in Requests : answer[r].delivered => \E m \in inbox : m.token = r

\* Mailer never retries: however an attempt ends, a message is submitted once.
NeverTwice == \A r \in Requests : sent[r] <= 1

\* issue_challenge: a link that works belongs to the current password, although
\* its request has read the account in another transaction than the one that
\* stores it.  What is mailed after a change is not a way back.
LiveIsCurrent == \A c \in stored : c.state = "live" => found[c.token] = password

\* A link that worked stops working only because it was used, by whoever has the
\* mail; because its time is over; because the password was replaced; or because a
\* newer link of its purpose works instead, which somebody asked for: registering
\* the address again does not take it away.  What has ended does not come back.
LinkLasts ==
  [][\A c \in stored : c \notin stored' =>
       /\ c.state = "live"
       /\ \/ /\ Now(c, "used") \in stored' /\ account' = "verified"
             /\ [token |-> c.token, purpose |-> c.purpose] \in inbox
          \/ Now(c, "expired") \in stored'
          \/ Now(c, "revoked") \in stored' /\ password' # password
          \/ /\ Now(c, "replaced") \in stored'
             /\ \E d \in stored' : /\ d.state = "live" /\ d.purpose = c.purpose
                                   /\ asked[d.token] # "register"]_vars

\* Mailer::deliver: a request is answered although a mail server accepts the
\* connection and never says anything.
StallingServerIsLeft ==
  \A r \in Requests : []<>(stage[r] \notin {"sending", "waiting"})
===============================================================================
