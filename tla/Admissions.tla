----------------------------- MODULE Admissions -----------------------------
(***************************************************************************)
(* Browser sessions over HTTP (domains/identity/transport/http): the       *)
(* cookies a browser keeps, the admission of each route (session, origin   *)
(* and CSRF context), and the handlers' effects on sessions and cookies.   *)
(* The tabs of one browser share its cookies; their requests overlap and   *)
(* their answers arrive in any order, or never.  The store of sessions is  *)
(* Identity's; here a session is live, has ended by itself (logged out,    *)
(* expired, its owner suspended), or is outdated: the epoch of its owner   *)
(* has moved on.  The clock is read before the store is awaited, so what   *)
(* the store is asked with may be a time that has passed.                  *)
(***************************************************************************)
EXTENDS Integers, Sequences, FiniteSets

CONSTANTS Tabs, Sessions,
          Owner,       \* Owner[s]: the principal whose login makes s
          Used,        \* the routes that the tabs use
          Copies,      \* how often a cookie name may be sent
          Origins,     \* origins a page may have; "app" is the allowed one
          Ttl,         \* AUTH_CSRF_TTL_MS
          Second,      \* units of time in one second
          RetryTimes,  \* retry_after_ms of rate limit refusals
          Nonces,      \* bound on the tokens that exist at one time
          MaxTime,     \* bound: the clock stops here
          Faults       \* bound on failures of a dependency and on lost answers

(* The routes and their modes; the organisation routes take the session    *)
(* admissions of this transport from the root.                             *)
ModeOf == [csrf |-> "csrf_issue", register |-> "anonymous_post",
           verification_request |-> "anonymous_post", verify |-> "anonymous_post",
           login |-> "anonymous_post", session |-> "session_get",
           websocket_ticket |-> "session_post", logout |-> "optional_post",
           logout_all |-> "session_post", change |-> "session_post",
           reset_request |-> "anonymous_post", reset |-> "anonymous_post",
           org_list |-> "session_get", org_write |-> "session_post"]
Posts == DOMAIN ModeOf \ {"csrf", "session", "org_list"}

None      == "none"
Anonymous == "anonymous"

(* There are always more nonces than tokens that a tab or a request holds. *)
AdmissionsAssumption ==
  /\ Used \subseteq DOMAIN ModeOf /\ Copies \subseteq {1, 2} /\ "app" \in Origins
  /\ Ttl \in Nat \ {0} /\ Second \in Nat \ {0} /\ RetryTimes \subseteq Nat
  /\ MaxTime \in Nat /\ Faults \in Nat
  /\ {None, Anonymous, "rejected", "keep", "clear"} \cap Sessions = {}
  /\ IsFiniteSet(Tabs) /\ IsFiniteSet(Nonces)
  /\ Cardinality(Nonces) > 4 * Cardinality(Tabs) + 1

VARIABLES status,   \* status[s]: "unissued", "live", "ended" or "outdated"
          seen,     \* seen[s]: last_seen_at_ms, the reading it was last touched with
          jar,      \* the browser's cookies: [session, csrf, expires], expires that of csrf
          held,     \* held[t]: the token the script of tab t holds
          req,      \* req[t]: the request of tab t and where it is
          now,
          faults    \* faults left
vars == <<status, seen, jar, held, req, now, faults>>

Tokens  == [nonce : Nonces, issued : 0..MaxTime, binding : Sessions \cup {Anonymous}]
NoToken == [nonce |-> 0, issued |-> 0, binding |-> None]
Dropped == [NoToken EXCEPT !.binding = "clear"]   \* in an answer: the cookie is cleared
(* An answer: what it says, the cookies it sets and the token it hands out.*)
Nothing == [kind |-> None, session |-> "keep", csrf |-> NoToken, token |-> NoToken,
            limit |-> 0, retry |-> 0]
(* A request; `since` is the earliest time its next step may have read.    *)
Idle == [stage |-> "idle", op |-> None, origin |-> None, since |-> 0, session |-> <<>>,
         csrf |-> NoToken, header |-> NoToken, acts |-> None, answer |-> Nothing]

Init ==
  /\ status \in [Sessions -> {"unissued", "ended"}]
  /\ \E s \in Sessions \cup {None} :     \* a cookie kept from an earlier visit
       /\ s # None => status[s] = "ended"
       /\ jar = [session |-> s, csrf |-> NoToken, expires |-> 0]
  /\ seen = [s \in Sessions |-> 0]
  /\ held = [t \in Tabs |-> NoToken] /\ req = [t \in Tabs |-> Idle]
  /\ now = 0 /\ faults = Faults

Mode(t)    == ModeOf[req[t].op]
Step(t, r) == req' = [req EXCEPT ![t] = r]

(* A browser sends the cookies it has; a cookie name may come twice, from  *)
(* two paths.                                                              *)
Send(t, op) ==
  /\ req[t].stage = "idle"
  /\ \E o \in Origins, n \in Copies :
       Step(t, [Idle EXCEPT
         !.stage = "sent", !.op = op, !.origin = o, !.since = now,
         !.session = IF jar.session = None THEN <<>> ELSE [i \in 1..n |-> jar.session],
         !.csrf = IF now < jar.expires THEN jar.csrf ELSE NoToken,
         !.header = held[t]])
  /\ UNCHANGED <<status, seen, jar, held, now, faults>>

(* Max-Age is in whole seconds. *)
MaxAge == Second * (Ttl \div Second)

RetryAfter(ms) == IF (ms + Second - 1) \div Second > 1 THEN (ms + Second - 1) \div Second ELSE 1

(* `refuse` of admit and `known` of the handlers. *)
ClearsNothing(kind) == "keep"   \* mutant
Clears(kind)  == IF kind = "session_rejected" THEN "clear" ELSE "keep"
Refused(kind) == [Nothing EXCEPT !.kind = kind, !.session = Clears(kind)]
Limited(ms)   == [Nothing EXCEPT !.kind = "rate_limited", !.limit = ms, !.retry = RetryAfter(ms)]
Answered(t, a) == [Idle EXCEPT !.stage = "answered", !.op = req[t].op,
                               !.session = req[t].session, !.answer = a]

(* What resolve and the store's commits ask of a session: it is live, and  *)
(* was not used at a later time than the one they were given.              *)
Readings(t)     == req[t].since .. now
Usable(s, read) == status[s] = "live" /\ read >= seen[s]
(* presented_session and the anonymous routes' tolerance of a stale one.   *)
Tolerant(t) == Mode(t) \in {"csrf_issue", "anonymous_post"}
Presented(t, read) ==
  CASE req[t].session = <<>> -> None
    [] Len(req[t].session) > 1 -> "rejected"
    [] OTHER -> IF Usable(req[t].session[1], read) THEN req[t].session[1]
                ELSE IF Tolerant(t) THEN None ELSE "rejected"

OriginOk(t) == req[t].origin = "app"
Binding(s) == IF s = None THEN Anonymous ELSE s
CsrfOkUnbound(t, s) ==               \* mutant: the binding is not verified
  /\ req[t].csrf # NoToken /\ req[t].header = req[t].csrf
  /\ req[t].csrf.issued <= now /\ now - req[t].csrf.issued <= Ttl
CsrfOk(t, s) ==
  /\ req[t].csrf # NoToken /\ req[t].header = req[t].csrf
  /\ req[t].csrf.issued <= now /\ now - req[t].csrf.issued <= Ttl
  /\ req[t].csrf.binding = Binding(s)
Unsafe(t) == Mode(t) \in {"anonymous_post", "optional_post", "session_post"}

(* The whole of `admit`.  A session that is resolved is touched, whatever  *)
(* is refused after that.                                                  *)
Admit(t) ==
  /\ req[t].stage = "sent"
  /\ \E read \in Readings(t) : LET s == Presented(t, read) IN
     /\ Step(t, IF s = "rejected" \/ (s = None /\ Mode(t) \in {"session_get", "session_post"})
                  THEN Answered(t, Refused("session_rejected"))
                ELSE IF Unsafe(t) /\ ~OriginOk(t) THEN Answered(t, Refused("origin_rejected"))
                ELSE IF Unsafe(t) /\ ~CsrfOk(t, s) THEN Answered(t, Refused("csrf_rejected"))
                ELSE [req[t] EXCEPT !.stage = "admitted", !.acts = s, !.since = now])
     /\ seen' = IF s \in Sessions THEN [seen EXCEPT ![s] = read] ELSE seen
  /\ UNCHANGED <<status, jar, held, now, faults>>

(* A dependency fails: in the admission, or in the handler before it has   *)
(* changed anything.  After the change it leaves what a lost answer leaves.*)
Fail(t) ==
  /\ req[t].stage \in {"sent", "admitted"} /\ faults > 0 /\ faults' = faults - 1
  /\ Len(req[t].session) <= 1
  /\ req[t].stage = "sent" => req[t].session # <<>>
  /\ Step(t, Answered(t, Refused("unavailable")))
  /\ UNCHANGED <<status, seen, jar, held, now>>

(* issue_csrf: a token that differs from every other. *)
Around == {jar.csrf} \cup {held[t] : t \in Tabs}
          \cup UNION {{req[t].csrf, req[t].header, req[t].answer.csrf} : t \in Tabs}
Issued(s) == [nonce |-> CHOOSE n \in Nonces : \A k \in Around : k.nonce # n,
              issued |-> now, binding |-> Binding(s)]
Handing(kind, set, token, shown) ==
  [Nothing EXCEPT !.kind = kind, !.session = set, !.csrf = token,
                  !.token = IF shown THEN token ELSE NoToken]
Ended(gone) == [s \in Sessions |-> IF s \in gone /\ status[s] = "live" THEN "ended" ELSE status[s]]
(* The epoch of p moves on: no session issued before is of the new one.    *)
Outdated(p) == [s \in Sessions |->
                  IF Owner[s] = p /\ status[s] # "unissued" THEN "outdated" ELSE status[s]]

At(t, op) == req[t].stage = "admitted" /\ req[t].op = op
Csrf(t) ==
  /\ At(t, "csrf") /\ Step(t, Answered(t, Handing("ok", "keep", Issued(req[t].acts), TRUE)))
  /\ UNCHANGED <<status, seen, jar, held, now, faults>>
Login(t) ==
  /\ At(t, "login")
  /\ \/ \E s \in Sessions, read \in Readings(t) :
          /\ status[s] = "unissued" /\ status' = [status EXCEPT ![s] = "live"]
          /\ seen' = [seen EXCEPT ![s] = read]
          /\ Step(t, Answered(t, Handing("ok", s, Issued(s), TRUE)))
     \/ /\ \/ Step(t, Answered(t, Refused("credentials_rejected")))
           \/ \E ms \in RetryTimes : Step(t, Answered(t, Limited(ms)))
        /\ UNCHANGED <<status, seen>>
  /\ UNCHANGED <<jar, held, now, faults>>
(* Session::revoke refuses a time before the last use of a session that is *)
(* not revoked yet.                                                        *)
Logout(t) ==
  /\ At(t, "logout")
  /\ LET s == req[t].acts IN
     \/ /\ s # None /\ status[s] = "live" => \E read \in Readings(t) : read >= seen[s]
        /\ status' = Ended({s})
        /\ Step(t, Answered(t, Handing("ok", "clear", Issued(None), FALSE)))
     \/ /\ s # None /\ (\E read \in Readings(t) : read < seen[s])
        /\ Step(t, Answered(t, Refused("invalid"))) /\ UNCHANGED status
  /\ UNCHANGED <<seen, jar, held, now, faults>>
(* logout_all and change commit under the epoch the session was resolved   *)
(* with; the change looks at the account before that, too, and may be      *)
(* refused for other reasons.                                              *)
EndAll(t) ==
  /\ \E op \in {"logout_all", "change"} : At(t, op)
  /\ LET s == req[t].acts IN
     \/ /\ status[s] # "outdated" /\ status' = Outdated(Owner[s])
        /\ Step(t, Answered(t, Handing("ok", "clear", Dropped, FALSE)))
     \/ /\ status[s] = "outdated" \/ req[t].op = "change"
        /\ Step(t, Answered(t, Refused("conflict"))) /\ UNCHANGED status
     \/ /\ req[t].op = "change" /\ status[s] # "live"
        /\ Step(t, Answered(t, Refused("session_rejected"))) /\ UNCHANGED status
  /\ UNCHANGED <<seen, jar, held, now, faults>>
(* The token of the body names an account, not the session of the cookie.  *)
Reset(t) ==
  /\ At(t, "reset")
  /\ \/ /\ \E p \in {Owner[s] : s \in Sessions} : status' = Outdated(p)
        /\ Step(t, Answered(t, Handing("ok", "clear", NoToken, FALSE)))
     \/ Step(t, Answered(t, Refused("challenge_rejected"))) /\ UNCHANGED status
  /\ UNCHANGED <<seen, jar, held, now, faults>>
(* A ticket is stored for a session that is still usable. *)
Ticket(t) ==
  /\ At(t, "websocket_ticket")
  /\ \E read \in Readings(t) :
       Step(t, Answered(t, IF Usable(req[t].acts, read) THEN [Nothing EXCEPT !.kind = "ok"]
                           ELSE Refused("session_rejected")))
  /\ UNCHANGED <<status, seen, jar, held, now, faults>>
(* The other routes answer without touching a session or a cookie. *)
Other(t) ==
  /\ \E op \in DOMAIN ModeOf \ {"csrf", "login", "logout", "logout_all", "change", "reset",
                                "websocket_ticket"} : At(t, op)
  /\ Step(t, Answered(t, [Nothing EXCEPT !.kind = "ok"]))
  /\ UNCHANGED <<status, seen, jar, held, now, faults>>
Handle(t) == \/ Csrf(t) \/ Login(t) \/ Logout(t) \/ EndAll(t) \/ Reset(t)
             \/ Ticket(t) \/ Other(t)

(* The browser stores the cookies of an answer, the script its token.      *)
Receive(t) ==
  /\ req[t].stage = "answered"
  /\ LET a == req[t].answer IN
     /\ jar' = [session |-> CASE a.session = "keep" -> jar.session
                              [] a.session = "clear" -> None [] OTHER -> a.session,
                csrf    |-> CASE a.csrf = NoToken -> jar.csrf
                              [] a.csrf = Dropped -> NoToken [] OTHER -> a.csrf,
                expires |-> CASE a.csrf = NoToken -> jar.expires
                              [] a.csrf = Dropped -> 0 [] OTHER -> now + MaxAge]
     /\ held' = [held EXCEPT ![t] = IF a.token = NoToken THEN @ ELSE a.token]
  /\ Step(t, Idle) /\ UNCHANGED <<status, seen, now, faults>>
Lose(t) ==
  /\ req[t].stage # "idle" /\ faults > 0 /\ faults' = faults - 1
  /\ Step(t, Idle) /\ UNCHANGED <<status, seen, jar, held, now>>

(* A session ends for reasons of its own: it expires, or its principal is  *)
(* suspended.  On another device its owner logs out everywhere, or gets    *)
(* another password.                                                       *)
End(s) ==
  /\ status[s] = "live" /\ status' = Ended({s})
  /\ UNCHANGED <<seen, jar, held, req, now, faults>>
MoveOn(p) ==
  /\ status' = Outdated(p)
  /\ UNCHANGED <<seen, jar, held, req, now, faults>>
Tick == now < MaxTime /\ now' = now + 1 /\ UNCHANGED <<status, seen, jar, held, req, faults>>

(* What one tab does with some of the routes, and what happens elsewhere.  *)
Browse(t, ops) == \/ \E op \in ops : Send(t, op)
                  \/ Admit(t) \/ Fail(t) \/ Handle(t) \/ Receive(t) \/ Lose(t)
Elsewhere == \/ \E s \in Sessions : End(s)
             \/ \E p \in {Owner[s] : s \in Sessions} : MoveOn(p)
             \/ Tick
Next == (\E t \in Tabs : Browse(t, Used)) \/ Elsewhere
Spec == Init /\ [][Next]_vars

(* The server answers what it received, the network delivers what is not   *)
(* lost, and a user keeps trying: fetches contexts and logs in.            *)
FairSpec ==
  Spec /\ \A t \in Tabs : /\ WF_vars(Admit(t)) /\ WF_vars(Handle(t)) /\ WF_vars(Receive(t))
                          /\ \A op \in Used : SF_vars(Send(t, op))
-----------------------------------------------------------------------------
Kinds == {None, "ok", "session_rejected", "origin_rejected", "csrf_rejected", "unavailable",
          "credentials_rejected", "rate_limited", "conflict", "challenge_rejected", "invalid"}
(* The type invariant. *)
TypeOK ==
  /\ status \in [Sessions -> {"unissued", "live", "ended", "outdated"}]
  /\ seen \in [Sessions -> 0..MaxTime]
  /\ jar.session \in Sessions \cup {None} /\ jar.csrf \in Tokens \cup {NoToken}
  /\ jar.expires \in 0..(MaxTime + Ttl)
  /\ held \in [Tabs -> Tokens \cup {NoToken}]
  /\ \A t \in Tabs : /\ req[t].stage \in {"idle", "sent", "admitted", "answered"}
                     /\ req[t].op \in Used \cup {None}
                     /\ req[t].since \in 0..now
                     /\ req[t].acts \in Sessions \cup {None}
                     /\ req[t].answer.kind \in Kinds
                     /\ req[t].answer.session \in Sessions \cup {"keep", "clear"}
                     /\ req[t].answer.token \in Tokens \cup {NoToken}
  /\ now \in 0..MaxTime /\ faults \in 0..Faults

(* R05, R06: whatever the tabs did before, a POST that reaches a handler   *)
(* came from an allowed page and carries, in the cookie and the header, a  *)
(* token that was issued for the very session it acts with.                *)
PostIsGuarded ==
  \A t \in Tabs : req[t].stage = "admitted" /\ req[t].op \in Posts =>
    /\ req[t].origin = "app"
    /\ req[t].header = req[t].csrf
    /\ req[t].csrf.binding = (IF req[t].acts = None THEN Anonymous ELSE req[t].acts)

(* Another request of the browser used the session at a later time than    *)
(* the earliest that this one, still under way, may have read.             *)
Overtaken(t, s) == req[t].since < seen[s]

(* R06, the other way: a page that sends the token it was last given, with *)
(* the same token still in its cookie, is refused only when the token's    *)
(* lifetime is over, when the session it was issued for is over, when a    *)
(* request with a later reading of the clock overtook this one, or when    *)
(* the browser has changed its session since.                              *)
RefusalIsExplained ==
  [][\A t \in Tabs :
       req[t].stage = "sent" /\ req'[t].stage = "answered" /\ req'[t].answer.kind = "csrf_rejected"
         /\ req[t].csrf # NoToken /\ req[t].header = req[t].csrf
       => LET token == req[t].csrf IN
          \/ now - token.issued > Ttl
          \/ token.binding # Anonymous /\ status[token.binding] \in {"ended", "outdated"}
          \/ token.binding # Anonymous /\ req[t].session # <<token.binding>>
          \/ token.binding # Anonymous /\ Overtaken(t, token.binding)
          \/ token.binding = Anonymous /\ req[t].session # <<>>
               /\ status[req[t].session[1]] = "live"]_vars

(* R03, R07, R11: an answer clears the session cookie that its request     *)
(* presented, once, only when that session is over, when the browser's     *)
(* other requests overtook this one, or when a reset names an account.     *)
ClearedSessionIsOver ==
  [][\A t \in Tabs : LET s == req[t].session[1] IN
       req[t].stage \in {"sent", "admitted"} /\ req'[t].stage = "answered"
         /\ req'[t].answer.session = "clear" /\ Len(req[t].session) = 1 /\ req[t].op # "reset"
       => status'[s] \in {"ended", "outdated"} \/ Overtaken(t, s)]_vars

(* R04: the browser keeps the CSRF cookie for the whole seconds of its     *)
(* token's lifetime, however late the answer came that set it.             *)
CookieLastsAsLongAsToken ==
  jar.csrf # NoToken /\ now - jar.csrf.issued < MaxAge => now < jar.expires

(* R08: a client that waits for Retry-After seconds has waited long enough,*)
(* and one second less would not do.                                       *)
RetryAfterIsEnough ==
  \A t \in Tabs : LET a == req[t].answer IN
    a.kind = "rate_limited" => /\ a.retry * Second >= a.limit
                               /\ (a.retry - 1) * Second < a.limit \/ a.retry = 1

(* However stale the cookies of a browser are, and however often its       *)
(* session ends, a user who keeps trying gets a login past the admission.  *)
LoginIsReachable == []<>(\E t \in Tabs : req[t].op = "login" /\ req[t].stage = "admitted")
=============================================================================
