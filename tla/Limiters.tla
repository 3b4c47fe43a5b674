------------------------------- MODULE Limiters -------------------------------
(***************************************************************************)
(* The attempt limiters of domains/identity: infra/local keeps fixed       *)
(* windows in a bounded map of one process, infra/redis the same windows   *)
(* in Redis, shared by processes whose clocks differ.  An attempt reads    *)
(* the clock first, and counts in all of its buckets later, under the      *)
(* mutex of the map or in one script.                                      *)
(***************************************************************************)
EXTENDS Integers, FiniteSets, Sequences

CONSTANTS
    Keys,         \* keyed digests of operation and subject, or source
    Attempts,     \* what may be attempted: sequences of one or two buckets
    Window,       \* the length of every window
    MaxCount,     \* the count saturates here: u32::MAX
    MaxKeys,      \* the bound on stored windows
    Requests,
    Skew,         \* how far ahead the clock of each request's process is
    MaxSkew,      \* and of any
    MaxDelay,     \* bound: an attempt counts at most so long after its reading
    MaxLog,       \* bound on the permits of one instant
    MaxTime       \* bound: the clock stops here

\* A count that saturates at its limit would never be over it: the limits of
\* LimiterConfig::defaults are 3 to 100.
LimiterAssumption ==
    /\ IsFiniteSet(Keys) /\ MaxCount \in Nat
    /\ Attempts \subseteq Seq([key : Keys, attempts : 1..(MaxCount - 1)])
    /\ \A a \in Attempts : Len(a) \in 1..2
    /\ Window \in Nat \ {0} /\ MaxKeys \in Nat \ {0}
    /\ MaxSkew \in Nat /\ Skew \in [Requests -> 0..MaxSkew]
    /\ MaxDelay \in Nat /\ MaxLog \in Nat \ {0} /\ MaxTime \in Nat

VARIABLES
    adapter,      \* "local" or "redis", as AUTH_LIMITER says when the server starts
    window,       \* window[k]: the window of k
    asked,        \* the attempt of each request and the clock it has read
    answer,       \* what the last step told a request
    clock,        \* the time
    permits       \* history: permits[k]: when the permits of k were given

vars == <<adapter, window, asked, answer, clock, permits>>

\* end is when the window ends by the clock that opened it.
NoWindow == [end |-> 0, count |-> 0]
NotAsked == [buckets |-> <<>>, now |-> 0, at |-> 0]
NoAnswer == [to |-> {}, kind |-> "none", retry |-> 0]

Init ==
    /\ adapter \in {"local", "redis"}
    /\ window = [k \in Keys |-> NoWindow]
    /\ asked = [r \in Requests |-> NotAsked]
    /\ answer = NoAnswer
    /\ clock = 0
    /\ permits = [k \in Keys |-> <<>>]

KeysOf(buckets) == {buckets[i].key : i \in 1..Len(buckets)}

Stored(w) == {k \in Keys : w[k] # NoWindow}

Live(w, now) == {k \in Keys : w[k].end > now}

Evicted(w, now) == [k \in Keys |-> IF k \in Live(w, now) THEN w[k] ELSE NoWindow]

Greater(a, b) == IF a > b THEN a ELSE b

-----------------------------------------------------------------------------
(* Counting in one bucket.  acc is the windows, the retry-after so far,    *)
(* -1 while nothing is over its limit, and whether the store was full.     *)
Acc(w) == [w |-> w, retry |-> -1, full |-> FALSE]

(* Mutant: every attempt opens its window again.                           *)
CountedAfresh(acc, b, now) ==
    [acc EXCEPT !.w[b.key] = [end |-> now + Window, count |-> 1]]

Counted(acc, b, now) ==
    LET old == IF acc.w[b.key].end > now THEN acc.w[b.key]
                                         ELSE [end |-> now + Window, count |-> 0]
        new == [old EXCEPT !.count = IF @ < MaxCount THEN @ + 1 ELSE @]
    IN  [acc EXCEPT !.w[b.key] = new,
                    !.retry = IF new.count > b.attempts
                              THEN Greater(@, new.end - now) ELSE @]

(* Limiter::count: lapsed windows are evicted only when a new key finds no *)
(* room; an attempt that finds none has already counted in its first       *)
(* bucket.                                                                 *)
HasRoom(w) == Cardinality(Stored(w)) < MaxKeys

CountLocal(acc, b, now) ==
    LET fits(w) == b.key \in Stored(w) \/ HasRoom(w)
        kept == IF fits(acc.w) THEN acc.w ELSE Evicted(acc.w, now)
    IN  IF acc.full THEN acc
        ELSE IF fits(kept) THEN Counted([acc EXCEPT !.w = kept], b, now)
        ELSE [acc EXCEPT !.w = kept, !.full = TRUE]

AdmitLocal(w, buckets, now) ==
    LET first == CountLocal(Acc(w), buckets[1], now)
    IN  IF Len(buckets) = 1 THEN first ELSE CountLocal(first, buckets[2], now)

(* SCRIPT: evict, refuse if the new keys do not fit, then count.           *)
AdmitRedis(w, buckets, now) ==
    LET kept  == Evicted(w, now)
        first == Counted(Acc(kept), buckets[1], now)
    IN  IF Cardinality(Stored(kept) \cup KeysOf(buckets)) > MaxKeys
        THEN [Acc(kept) EXCEPT !.full = TRUE]
        ELSE IF Len(buckets) = 1 THEN first ELSE Counted(first, buckets[2], now)

Admit(w, buckets, now) ==
    IF adapter = "local" THEN AdmitLocal(w, buckets, now) ELSE AdmitRedis(w, buckets, now)

-----------------------------------------------------------------------------
\* The windows of the process itself are read by no other clock.
Ahead(r) == IF adapter = "local" THEN 0 ELSE Skew[r]

Ask(r, buckets) ==
    /\ asked[r] = NotAsked
    /\ asked' = [asked EXCEPT ![r] = [buckets |-> buckets, now |-> clock + Ahead(r),
                                      at |-> clock]]
    /\ answer' = NoAnswer
    /\ UNCHANGED <<adapter, window, clock, permits>>

Answered(r, kind, retry) ==
    /\ answer' = [to |-> {r}, kind |-> kind, retry |-> retry]
    /\ asked' = [asked EXCEPT ![r] = NotAsked]
    /\ UNCHANGED <<adapter, clock>>

\* Fewer than MaxLog permits of k at this instant.
MayLog(k) ==
    LET n == Len(permits[k])
    IN  n >= MaxLog => permits[k][n + 1 - MaxLog] # clock

Count(r) ==
    LET got == Admit(window, asked[r].buckets, asked[r].now)
    IN  /\ asked[r] # NotAsked
        /\ window' = got.w
        /\ \/ /\ got.full
              /\ Answered(r, "full", 0)
              /\ UNCHANGED permits
           \/ /\ ~got.full /\ got.retry # -1
              /\ Answered(r, "refused", got.retry)
              /\ UNCHANGED permits
           \/ /\ ~got.full /\ got.retry = -1
              /\ \A k \in KeysOf(asked[r].buckets) : MayLog(k)
              /\ Answered(r, "permitted", 0)
              /\ permits' = [k \in Keys |-> IF k \in KeysOf(asked[r].buckets)
                                            THEN Append(permits[k], clock)
                                            ELSE permits[k]]

(* Redis is not reached, or its reply is lost after the script ran.  The   *)
(* caller is told that the limiter is unavailable.                         *)
Unavailable(r) ==
    /\ adapter = "redis"
    /\ asked[r] # NotAsked
    /\ window' \in {window, Admit(window, asked[r].buckets, asked[r].now).w}
    /\ Answered(r, "unavailable", 0)
    /\ UNCHANGED permits

Tick ==
    /\ clock < MaxTime
    /\ \A r \in Requests : asked[r] # NotAsked => clock < asked[r].at + MaxDelay
    /\ clock' = clock + 1
    /\ answer' = NoAnswer
    /\ UNCHANGED <<adapter, window, asked, permits>>

Next ==
    \/ \E r \in Requests : \/ \E a \in Attempts : Ask(r, a)
                           \/ Count(r) \/ Unavailable(r)
    \/ Tick

Spec == Init /\ [][Next]_vars

-----------------------------------------------------------------------------
(* PROPERTIES                                                              *)

(* The store never grows past max_keys (L03, R03).                         *)
TypeOK ==
    /\ \A k \in Keys : window[k].end >= 0 /\ window[k].count >= 0
    /\ Cardinality(Stored(window)) <= MaxKeys
    /\ answer.retry >= 0

\* No attempt allows k more than n.
Limits(k, n) ==
    \A a \in Attempts : \A i \in 1..Len(a) : a[i].key = k => a[i].attempts <= n

Span == Window - MaxDelay - (IF adapter = "local" THEN 0 ELSE MaxSkew)

(* Fixed windows, evictions, full stores, delays between clock and mutex   *)
(* and clocks that differ included: in a span of time shorter than the     *)
(* window by the delay and the skew there are never more permits of one    *)
(* subject or source than twice its limit, the end of one window and the   *)
(* start of the next (admit_now, SCRIPT): a permit and the one of that     *)
(* many later are at least that span apart.                                *)
PermitsAreBounded ==
    \A k \in Keys : \A n \in 1..MaxCount :
        Limits(k, n) =>
            \A i \in 1..(Len(permits[k]) - 2 * n) :
                permits[k][i + 2 * n] - permits[k][i] >= Span

(* "Store full" is answered only when that many windows are live at the    *)
(* time of the attempt: lapsed ones never shut anybody out (L03, R03).     *)
FullMeansLiveNow ==
    \A r \in Requests :
        (answer'.to = {r} /\ answer'.kind = "full") =>
            Cardinality(Live(window, asked[r].now) \cup KeysOf(asked[r].buckets)) > MaxKeys
FullMeansLive == [][FullMeansLiveNow]_vars

(* An attempt refused in any bucket has been counted in all of them, and   *)
(* once the retry-after it was told has passed every window that refused   *)
(* it is over (L01, R01).                                                  *)
RefusalIsHonestNow ==
    \A r \in Requests :
        (answer'.to = {r} /\ answer'.kind = "refused") =>
            LET b == asked[r].buckets
            IN  \A i \in 1..Len(b) :
                   /\ \/ window'[b[i].key].count = MaxCount
                      \/ b[i].key \notin Live(window, asked[r].now)
                      \/ window'[b[i].key].count > window[b[i].key].count
                   /\ window'[b[i].key].count > b[i].attempts =>
                          window'[b[i].key].end <= asked[r].now + answer'.retry
RefusalIsHonest == [][RefusalIsHonestNow]_vars
=============================================================================
