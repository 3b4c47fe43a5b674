------------------------------ MODULE MCServer ------------------------------
(* The server, the sockets, the organisations and a browser for TLC.  They *)
(* share no state, so a behaviour is one of `part`, and the others stay in *)
(* one of their initial states: every step is a step of Server, or of a    *)
(* component that is here for its liveness.                                *)
EXTENDS Server, TLC

CONSTANTS Parts,   \* the parts this run looks at
          NoId
VARIABLE part

\* An admitted GET and POST on one template, a plain PUT on another.
TwoTemplates == {[path |-> "/me", method |-> "GET", admission |-> TRUE],
                 [path |-> "/me", method |-> "POST", admission |-> TRUE],
                 [path |-> "/in", method |-> "PUT", admission |-> FALSE]}
AllRequests == [path : {"/me", "/in", "/gone"}, method : {"GET", "HEAD", "POST", "PUT", "BREW"},
                body : {"none", "json", "large", "other"}, cookies : BOOLEAN]
SomeResponses ==
  [status : {200, 204, 303, 418}, body : BOOLEAN, header : BOOLEAN,
   cookie : {[text |-> TRUE, host |-> TRUE, secure |-> secure, root |-> TRUE] :
               secure \in BOOLEAN}]

VARIABLES socket, permits, told, pong, valid, silent, sent, closed, closing
sockets == <<socket, permits, told, pong, valid, silent, sent, closed, closing>>
Sck == INSTANCE Sockets WITH Conns <- {"c1"}, Slots <- 1, stage <- socket

VARIABLES created, role, invitation, active, tx, outcome, clock
organizations == <<created, role, invitation, active, tx, outcome, clock>>
Org == INSTANCE Organizations WITH
         Principals <- {"p1", "p2"}, Invitations <- {"i1"}, Requests <- {"r1", "r2"},
         Orgs <- {1}, NoId <- NoId, Ops <- {"create", "invite", "accept", "change"},
         Ttl <- 1, MaxTime <- 0, reply <- outcome

VARIABLES status, seen, jar, token, req, now, faults
browser == <<status, seen, jar, token, req, now, faults>>
Adm == INSTANCE Admissions WITH
         Tabs <- {"t1"}, Sessions <- {"s1", "s2"}, Owner <- "s1" :> "alice" @@ "s2" :> "bob",
         Used <- {"csrf", "login"}, Copies <- {1, 2}, Origins <- {"app"}, Ttl <- 1,
         Second <- 1, RetryTimes <- {}, Nonces <- 1..10, MaxTime <- 2, Faults <- 1,
         held <- token

ASSUME PartsAssumption == Sck!SocketsAssumption /\ Adm!AdmissionsAssumption
-----------------------------------------------------------------------------
(* A part that rests has one initial state.                                *)
Resting ==
  /\ part # "process"  => config = CHOOSE c \in Prc!Configs : ~c.audit /\ c.transport = "postgres"
  /\ part # "mail"     => smtp = TRUE /\ account = "none"
  /\ part # "browser"  =>
       /\ status = [s \in {"s1", "s2"} |-> "unissued"]
       /\ jar = [session |-> Adm!None, csrf |-> Adm!NoToken, expires |-> 0]

\* Without an audit worker the transport makes no difference.
MCInit == /\ part \in Parts /\ Resting /\ Init /\ Sck!Init /\ Org!Init /\ Adm!Init
          /\ config.audit \/ config.transport = "postgres"

(* Requests for organisations are sent one by one, until two change roles, *)
(* and identity suspends nobody.                                           *)
OverlapToChange ==
  /\ active = {"p1", "p2"}
  /\ \/ \E r \in {"r1", "r2"} : tx[r] = Org!Idle
     \/ \A r \in {"r1", "r2"} : tx[r].op = "change"

(* The part that runs changes nothing of the others.                       *)
Others ==
  /\ UNCHANGED part
  /\ part # "process" => UNCHANGED process
  /\ part # "exchange" => UNCHANGED exchange
  /\ part # "log" => UNCHANGED log
  /\ part # "hashing" => UNCHANGED hashing
  /\ part # "mail" => UNCHANGED mail
  /\ part # "sockets" => UNCHANGED sockets
  /\ part # "organizations" => UNCHANGED organizations
  /\ part # "browser" => UNCHANGED browser

MCNext ==
  /\ Others
  /\ \/ part = "process"  /\ ProcessStep
     \/ part = "exchange" /\ ExchangeStep
     \/ part = "log"      /\ LogStep
     \/ part = "hashing"  /\ HashingStep
     \/ part = "mail"     /\ MailStep
     \/ part = "sockets"  /\ Sck!Next
     \/ part = "organizations" /\ Org!Next /\ OverlapToChange'
     \* With one tab nobody overtakes a request, and what another device ends
     \* ends as it does here.
     \/ part = "browser"  /\ Adm!Next /\ (now' > now => req["t1"].stage = "idle")
                          /\ "outdated" \notin {status'["s1"], status'["s2"]}

(* The fairness of each module.  A behaviour has one part, so actions of   *)
(* different parts share a condition.                                      *)
Weak(i) ==
  (CASE part = "process"  -> (CASE i = 1 -> Prc!Startup [] i = 2 -> Prc!Bind
                               [] i = 3 -> Prc!Shutdown
                               [] i = 4 -> \E c \in Conns : Prc!WorkEnds(c) [] OTHER -> FALSE)
    [] part = "exchange" -> (CASE i = 1 -> Htt!BodyTimeout      [] i = 2 -> Htt!ParseCookies
                               [] i = 3 -> Htt!AdmissionTimeout [] i = 4 -> Htt!OpenScope
                               [] i = 5 -> Htt!HandlerTimeout   [] i = 6 -> Htt!Reply
                               [] OTHER -> FALSE)
    [] part = "sockets"  -> (CASE i = 1 -> Sck!Signal [] i = 2 -> Sck!Serve("c1")
                               [] OTHER -> FALSE)
    [] part = "log"      -> (CASE i = 1 -> Log!WorkerStep [] i = 2 -> Log!EmitStep("e1")
                               [] i = 3 -> Log!EmitStep("e2") [] OTHER -> FALSE)
    [] part = "hashing"  -> (CASE i = 1 -> Hsh!Admission("a") [] i = 2 -> Hsh!Finish("a")
                               [] i = 3 -> Hsh!Admission("b") [] i = 4 -> Hsh!Finish("b")
                               [] i = 5 -> Hsh!Admission("c") [] i = 6 -> Hsh!Finish("c")
                               [] OTHER -> FALSE)
    [] part = "mail"     -> (LET r == IF i <= 4 THEN "r1" ELSE "r2" IN
                             CASE i % 4 = 1 -> Mai!Find(r) [] i % 4 = 2 -> Mai!Undelivered(r)
                               [] i % 4 = 3 -> Mai!Commit(r) \/ Mai!Ignore(r) \/ Mai!Break(r)
                               [] i % 4 = 0 -> Mai!Timeout(r))
    [] part = "organizations" -> (CASE i = 1 -> Org!AbortDeadlock("r1")
                                    [] i = 2 -> Org!AbortDeadlock("r2") [] OTHER -> FALSE)
    [] part = "browser"  -> (CASE i = 1 -> Adm!Admit("t1") [] i = 2 -> Adm!Handle("t1")
                               [] i = 3 -> Adm!Receive("t1") [] OTHER -> FALSE)
    [] OTHER -> FALSE) /\ Others
Strong(i) ==
  (CASE part = "sockets"  -> (CASE i = 1 -> Sck!Stop("c1") [] i = 2 -> Sck!Beat("c1"))
    [] part = "organizations" -> (CASE i = 1 -> Org!Step("r1") [] i = 2 -> Org!Step("r2"))
    [] part = "browser"  -> (CASE i = 1 -> Adm!Send("t1", "csrf") [] i = 2 -> Adm!Send("t1", "login"))
    [] OTHER -> FALSE) /\ Others

vars == <<part, server, sockets, organizations, browser>>
MCSpec == /\ MCInit /\ [][MCNext]_vars
          /\ \A i \in 1..8 : WF_vars(Weak(i))
          /\ \A i \in 1..2 : SF_vars(Strong(i))
-----------------------------------------------------------------------------
(* The safety properties are those of Server.                              *)

(* Every request gets its end, whoever stalls: a peer, an admission or a   *)
(* handler (handle), other callers of the hasher (Hasher), the mail server *)
(* (Mailer), or a request that waits for the rows it holds                 *)
(* (change_membership_role).                                               *)
RequestsEnd == /\ Htt!Answered /\ Hsh!CallersLeaveTheQueue
               /\ Mai!StallingServerIsLeft /\ Org!RequestsEnd
(* What is told to stop stops: the process, whatever its connections do    *)
(* (run_http), the sockets (Server::close) and the log worker (Delivery).  *)
ShutdownEnds == Prc!Exits /\ Sck!CloseEndsAll /\ Log!WorkerEnds
(* A socket whose session is over, or whose peer is silent, ends (upgrade).*)
ConnectionsEnd == Sck!RevokedEnds /\ Sck!SilentIsCut
(* A user who keeps trying gets a login past the admission, however stale  *)
(* the cookies are (login, admit).                                         *)
LoginIsReachable ==
  []<>(part = "browser" => req["t1"].op = "login" /\ req["t1"].stage = "admitted")
=============================================================================
