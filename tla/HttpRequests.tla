---------------------------- MODULE HttpRequests ----------------------------
(***************************************************************************)
(* One exchange of the HTTP server (shared/http/axum): routing, the body,  *)
(* the cookies, admission, the scope, the handler, the response, and the   *)
(* single completion record.  The future of `handle` may be dropped at     *)
(* each of its awaits (the peer closed, the connection task was aborted),  *)
(* and the response body may be dropped before or after it was read.       *)
(***************************************************************************)
EXTENDS Naturals, Sequences, FiniteSets

CONSTANTS Routes,     \* registered routes: [path, method, admission]
          Requests,   \* requests: [path, method, body, cookies]
          Responses   \* what a handler may return: [status, body, header, cookie]

KnownMethods == {"GET", "POST", "PUT", "DELETE", "PATCH", "OPTIONS", "CONNECT", "TRACE"}
RoutesAssumption ==
  /\ \A r \in Routes : /\ r.method \in KnownMethods
                       /\ \A q \in Routes : r.path = q.path /\ r.method = q.method => r = q
  /\ \A r \in Responses : r.status \in Nat /\ r.body \in BOOLEAN

Kinds == {"invalid", "not_found", "conflict", "unauthenticated", "forbidden",
          "rate_limited", "unavailable", "timeout", "canceled", "internal"}
None == "none"

VARIABLES request,      \* the request, NoRequest before it arrives
          stage,        \* where `handle` is; the awaits are the Awaits below
          failure,      \* Info.failure: [type, kind, refused], or NoFailure
          protocol,     \* the status override of a protocol failure, 0 if none
          admission,    \* "unasked", "anonymous", "authenticated" or "refused"
          scope,        \* the initiator the scope was opened with, or None
          reply,        \* what the handler returned, or NoReply
          guard,        \* Guard: [status, termination], status 0 when unknown
          response,     \* [status, body, own, allow] as returned to hyper
          unread,       \* the response body has not reached its end
          record        \* the completions observed
vars == <<request, stage, failure, protocol, admission, scope, reply, guard,
          response, unread, record>>

Awaits == {"body", "admission", "handler"}

Failure(type, kind) == [type |-> type, kind |-> kind, refused |-> FALSE]
NoFailure           == Failure(None, None)
Refusal(kind)       == [type |-> "owner", kind |-> kind, refused |-> TRUE]
InvalidResponse     == Failure("http.invalid_response", "internal")
InvalidCookie       == Failure("http.invalid_cookie", "invalid")
Unknown             == Failure("unknown", "internal")

NoRequest  == [path |-> None, method |-> None, body |-> None, cookies |-> FALSE]
NoReply    == [status |-> 0, body |-> FALSE, header |-> FALSE, cookie |-> None]
NoResponse == [status |-> 0, body |-> FALSE, own |-> FALSE, allow |-> {}]

(* HEAD is served by the GET route; a path names the template. *)
IsHead        == request.method = "HEAD"
Wanted(req)   == IF req.method = "HEAD" THEN "GET" ELSE req.method
Registered(p) == {r.method : r \in {q \in Routes : q.path = p}}
Matched(req)  == {r \in Routes : r.path = req.path /\ r.method = Wanted(req)}
Admits        == \E r \in Matched(request) : r.admission
(* A method outside the known set is recorded as "_OTHER". *)
NormalizedMethod(method) ==
  IF method \in KnownMethods \cup {"HEAD"} THEN method ELSE "_OTHER"
(* The Allow header of a 405. *)
AllowSet(p) == Registered(p) \cup IF "GET" \in Registered(p) THEN {"HEAD"} ELSE {}

(* A cookie serializes when its text does and `__Host-` keeps its promise. *)
Serializes(c) == c.text /\ (c.host => c.secure /\ c.root)
ValidShape(r) == /\ r.status \in {200, 201, 202, 204, 303}
                 /\ ~(r.status = 204 /\ r.body)
                 /\ r.header
Validates(r) == ValidShape(r) /\ Serializes(r.cookie)
(* The error of a value that does not validate: of a cookie it is the one  *)
(* that a malformed Cookie header of a request has.                        *)
Rejection(r) == IF ValidShape(r) THEN InvalidCookie ELSE InvalidResponse

StatusOf(kind) ==
  CASE kind = "invalid" -> 400         [] kind = "unauthenticated" -> 401
    [] kind = "forbidden" -> 403       [] kind = "not_found" -> 404
    [] kind = "conflict" -> 409        [] kind = "rate_limited" -> 429
    [] kind = "internal" -> 500        [] OTHER -> 503

(* classify_completion; None when the facts are refused. *)
Classify(status, kind, termination) ==
  IF termination = "response_completed" /\ status = 0 THEN None
  ELSE IF termination = "peer_closed" THEN "canceled"
  ELSE IF termination = "deadline" \/ kind = "timeout" THEN "timed_out"
  ELSE IF kind = "canceled" THEN "canceled"
  ELSE IF kind \in {"internal", "unavailable"} THEN "failed"
  ELSE IF kind # None \/ status \in 400..499 THEN "refused"
  ELSE IF status >= 500 THEN "failed"
  ELSE "success"

(* Guard::finish and Active::finish: refused facts record nothing, and the *)
(* first accepted facts win.                                               *)
Finished(g) ==
  LET outcome == Classify(g.status, failure.kind, g.termination)
  IN IF outcome = None \/ record # <<>> THEN record
     ELSE Append(record, [method |-> NormalizedMethod(request.method), outcome |-> outcome,
                          status |-> g.status, termination |-> g.termination])
-----------------------------------------------------------------------------
Init == /\ request = NoRequest /\ stage = "idle" /\ failure = NoFailure /\ protocol = 0
        /\ admission = "unasked" /\ scope = None /\ reply = NoReply
        /\ guard = [status |-> 0, termination |-> "peer_closed"]
        /\ response = NoResponse /\ unread = FALSE /\ record = <<>>

Fail(f, code) == failure' = f /\ protocol' = code
GoOn(to) == stage' = to

(* Routing, up to the await on the body of a request that has one. *)
Arrive ==
  /\ stage = "idle"
  /\ \E req \in Requests :
       /\ request' = req
       /\ IF Registered(req.path) = {} THEN Fail(Failure("http.not_found", "not_found"), 0)
          ELSE IF Matched(req) = {}
          THEN Fail(Failure("http.method_not_allowed", "invalid"), 405)
          ELSE IF req.body = "other"
          THEN Fail(Failure("http.unsupported_media_type", "invalid"), 415)
          ELSE UNCHANGED <<failure, protocol>>
       /\ GoOn(IF failure' = NoFailure /\ req.body # "none" THEN "body" ELSE "cookies")
  /\ UNCHANGED <<admission, scope, reply, guard, response, unread, record>>

(* to_bytes under one second: complete, over the limit, or late. *)
ReadBody ==
  /\ stage = "body" /\ GoOn("cookies")
  /\ \/ request.body = "json" /\ UNCHANGED <<failure, protocol, guard>>
     \/ /\ request.body = "large" /\ Fail(Failure("http.body_too_large", "invalid"), 413)
        /\ UNCHANGED guard
  /\ UNCHANGED <<request, admission, scope, reply, response, unread, record>>
BodyTimeout ==
  /\ stage = "body" /\ GoOn("cookies")
  /\ Fail(Failure("http.request_timeout", "invalid"), 408)
  /\ guard' = [guard EXCEPT !.termination = "deadline"]
  /\ UNCHANGED <<request, admission, scope, reply, response, unread, record>>

ParseCookies ==
  /\ stage = "cookies"
  /\ failure' = IF failure = NoFailure /\ ~request.cookies
                THEN InvalidCookie ELSE failure
  /\ GoOn(IF failure' = NoFailure /\ Admits THEN "admission" ELSE "open")
  /\ UNCHANGED <<request, protocol, admission, scope, reply, guard, response, unread, record>>

(* The outcomes of the route's admission, run once, under the timeout.     *)
Admit ==
  /\ stage = "admission" /\ GoOn("open")
  /\ \/ admission' = "anonymous" /\ UNCHANGED failure
     \/ admission' = "authenticated" /\ UNCHANGED failure
     \/ /\ admission' = "refused"                          \* by Attribution::new
        /\ failure' = Failure("provenance.invalid", "invalid")
     \/ /\ admission' = "refused"
        /\ \E kind \in Kinds : failure' = Refusal(kind)
     \/ /\ admission' = "refused"                          \* by Refusal::validate
        /\ failure' \in {InvalidResponse, InvalidCookie}
  /\ UNCHANGED <<request, protocol, scope, reply, guard, response, unread, record>>
AdmissionTimeout ==
  /\ stage = "admission" /\ GoOn("open")
  /\ failure' = Failure("http.timeout", "timeout")
  /\ guard' = [guard EXCEPT !.termination = "deadline"]
  /\ UNCHANGED <<request, protocol, admission, scope, reply, response, unread, record>>
(* A panic of admission is not caught: the task unwinds and drops the guard. *)
AdmissionPanics ==
  /\ stage = "admission" /\ GoOn("over") /\ record' = Finished(guard)
  /\ UNCHANGED <<request, failure, protocol, admission, scope, reply, guard, response, unread>>

(* The scope opens for failed requests too, so that the problem can name it. *)
Initiator == IF admission = "authenticated" THEN "user" ELSE "anonymous"
OpenScope ==
  /\ stage = "open"
  /\ \/ scope' = Initiator /\ UNCHANGED failure
     \/ /\ UNCHANGED scope
        /\ failure' = IF failure = NoFailure THEN Failure("scope", "internal") ELSE failure
  /\ GoOn(IF failure' = NoFailure THEN "handler" ELSE "reply")
  /\ UNCHANGED <<request, protocol, admission, reply, guard, response, unread, record>>

(* The handler's future, with its panics caught, under the timeout.  Its   *)
(* own refusal, when invalid, is always InvalidResponse.                   *)
Handle ==
  /\ stage = "handler" /\ GoOn("reply")
  /\ \/ \E r \in Responses :
          IF Validates(r) THEN reply' = r /\ UNCHANGED failure
          ELSE failure' = Rejection(r) /\ UNCHANGED reply
     \/ /\ UNCHANGED reply
        /\ \/ \E kind \in Kinds : failure' \in {Failure("owner", kind), Refusal(kind)}
           \/ failure' \in {Unknown, InvalidResponse}
  /\ UNCHANGED <<request, protocol, admission, scope, guard, response, unread, record>>
HandlerTimeout ==
  /\ stage = "handler" /\ GoOn("reply")
  /\ failure' = Failure("http.timeout", "timeout")
  /\ guard' = [guard EXCEPT !.termination = "deadline"]
  /\ UNCHANGED <<request, protocol, admission, scope, reply, response, unread, record>>

(* The value of the response: the handler's, or the problem of the failure. *)
Projected ==
  IF failure = NoFailure
  THEN [status |-> reply.status, body |-> reply.body, own |-> TRUE, allow |-> {}]
  ELSE [status |-> IF protocol # 0 THEN protocol ELSE StatusOf(failure.kind),
        body |-> TRUE, own |-> failure.refused,
        allow |-> IF protocol = 405 THEN AllowSet(request.path) ELSE {}]
ReplyPlanned ==   \* mutant: the planned status counts as committed
  /\ stage = "reply" /\ GoOn("sending")
  /\ response' = Projected /\ unread' = (Projected.body /\ ~IsHead)
  /\ guard' = [status |-> Projected.status,
               termination |-> IF guard.termination = "deadline" THEN "deadline"
                               ELSE "response_completed"]
  /\ UNCHANGED <<request, failure, protocol, admission, scope, reply, record>>
Reply ==
  /\ stage = "reply" /\ GoOn("sending")
  /\ response' = Projected
  /\ unread' = (Projected.body /\ ~IsHead)
  /\ guard' = [status |-> IF unread' THEN 0 ELSE Projected.status,
               termination |-> IF guard.termination = "deadline" THEN "deadline"
                               ELSE "response_completed"]
  /\ UNCHANGED <<request, failure, protocol, admission, scope, reply, record>>

(* ObservedBody::poll_frame: the body is one frame, or empty. *)
PollFrame ==
  /\ stage = "sending"
  /\ guard' = [guard EXCEPT !.status = response.status]
  /\ unread' = FALSE
  /\ record' = Finished(guard')
  /\ UNCHANGED <<request, stage, failure, protocol, admission, scope, reply, response>>
(* Drop of ObservedBody: an unread body means that the peer went away. *)
DropBody ==
  /\ stage = "sending" /\ GoOn("over")
  /\ guard' = IF unread THEN [guard EXCEPT !.termination = "peer_closed"] ELSE guard
  /\ record' = Finished(guard')
  /\ UNCHANGED <<request, failure, protocol, admission, scope, reply, response, unread>>
(* The future of `handle` is dropped at one of its awaits. *)
DropRequest ==
  /\ stage \in Awaits /\ GoOn("over")
  /\ record' = Finished(guard)
  /\ UNCHANGED <<request, failure, protocol, admission, scope, reply, guard, response, unread>>

Next == \/ Arrive \/ ReadBody \/ BodyTimeout \/ ParseCookies
        \/ Admit \/ AdmissionTimeout \/ AdmissionPanics \/ OpenScope
        \/ Handle \/ HandlerTimeout \/ Reply
        \/ PollFrame \/ DropBody \/ DropRequest

(* A runnable task runs and a timer fires; nothing obliges a body to       *)
(* arrive, an admission or a handler to return, or a peer to read.         *)
Fairness == /\ WF_vars(BodyTimeout) /\ WF_vars(ParseCookies)
            /\ WF_vars(AdmissionTimeout) /\ WF_vars(OpenScope)
            /\ WF_vars(HandlerTimeout) /\ WF_vars(Reply)
Spec == Init /\ [][Next]_vars
FairSpec == Spec /\ Fairness
-----------------------------------------------------------------------------
Statuses == {0, 405, 408, 413, 415} \cup {StatusOf(k) : k \in Kinds}
            \cup {r.status : r \in Responses}
Failures == [type : {"owner", "unknown", "scope", "provenance.invalid", "http.not_found",
                     "http.method_not_allowed", "http.unsupported_media_type",
                     "http.body_too_large", "http.request_timeout", "http.invalid_cookie",
                     "http.timeout", "http.invalid_response"},
             kind : Kinds, refused : BOOLEAN]

(* The type invariant of the exchange. *)
TypeOK ==
  /\ request \in Requests \cup {NoRequest}
  /\ stage \in Awaits \cup {"idle", "cookies", "open", "reply", "sending", "over"}
  /\ failure \in Failures \cup {NoFailure}
  /\ protocol \in {0, 405, 408, 413, 415}
  /\ admission \in {"unasked", "anonymous", "authenticated", "refused"}
  /\ scope \in {None, "anonymous", "user"}
  /\ reply \in Responses \cup {NoReply}
  /\ guard \in [status : Statuses,
                termination : {"peer_closed", "deadline", "response_completed"}]
  /\ response \in [status : Statuses, body : BOOLEAN, own : BOOLEAN,
                   allow : SUBSET (KnownMethods \cup {"HEAD"})]
  /\ unread \in BOOLEAN
  /\ record \in {<<>>} \cup
       {<<r>> : r \in [method : KnownMethods \cup {"HEAD", "_OTHER"},
          outcome : {"success", "refused", "failed", "canceled", "timed_out"},
          status : Statuses,
          termination : {"peer_closed", "deadline", "response_completed"}]}

(* However the exchange ends (answered, dropped at an await, dropped while *)
(* the body was being sent, unwound by a panic) it is recorded exactly     *)
(* once: never twice, and not lost because its facts were refused (H06).   *)
ObservedOnce == Len(record) = 1 \/ (record = <<>> /\ stage # "over")

(* The record tells what happened: a status only if that response was      *)
(* committed, a completion only if its body was handed over, a success     *)
(* only for a request without failure, a deadline only for a timeout.      *)
RecordedAsSent ==
  \A i \in DOMAIN record : LET r == record[i] IN
    /\ r.status # 0 => ~unread /\ r.status = response.status
    /\ r.termination = "response_completed" => r.status # 0
    /\ r.outcome = "success" => failure = NoFailure /\ reply # NoReply /\ r.status < 400
    /\ r.termination = "deadline" => failure.type \in {"http.timeout", "http.request_timeout"}

(* The status that is sent is the one of the failure that stopped the      *)
(* request: a protocol status only for its own refusal, and only an owner's*)
(* value or refusal keeps headers and cookies.                             *)
ProblemOfFailure ==
  response # NoResponse =>
    /\ (response.status = 405) <=> (failure.type = "http.method_not_allowed")
    /\ (response.status = 408) <=> (failure.type = "http.request_timeout")
    /\ (response.status = 413) <=> (failure.type = "http.body_too_large")
    /\ (response.status = 415) <=> (failure.type = "http.unsupported_media_type")
    /\ response.own => failure = NoFailure \/ failure.refused

(* A handler runs for a matched route whose body and cookies were accepted *)
(* and whose admission let the request in, inside a scope opened for the   *)
(* very actor that admission established (H17).                            *)
HandlerIsAdmitted ==
  stage = "handler" \/ reply # NoReply =>
    /\ Matched(request) # {}
    /\ request.cookies /\ request.body \notin {"large", "other"}
    /\ (\E r \in Matched(request) : r.admission) => admission \in {"anonymous", "authenticated"}
    /\ scope = Initiator

(* The failure that stopped a request is the one that is answered and      *)
(* recorded: no later step replaces it.                                    *)
FirstFailureWins == [][failure # NoFailure => failure' = failure]_vars

(* Every request is answered or dropped, whatever the peer, the admission  *)
(* and the handler do.                                                     *)
Answered == []<>(stage \in {"idle", "sending", "over"})

(* One exchange has one account of it: what the failure or the handler     *)
(* decided is what is sent, what was sent is what is recorded, and it is   *)
(* recorded once, at whatever point the exchange ends.                     *)
ExchangeIsTold == /\ TypeOK /\ HandlerIsAdmitted /\ ProblemOfFailure
                  /\ RecordedAsSent /\ ObservedOnce
=============================================================================
