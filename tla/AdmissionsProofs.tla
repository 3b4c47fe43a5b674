-------------------------- MODULE AdmissionsProofs --------------------------
(***************************************************************************)
(* Proofs about what is let in.  A browser's requests (identity/transport/ *)
(* http), for any tabs, sessions, routes, origins and lifetimes: what      *)
(* admission lets through, what it refuses and what the browser is told.   *)
(* The attempt limiters (identity/infra/local and redis), for any limits,  *)
(* windows, stores, delays and clocks: how many attempts are permitted.    *)
(***************************************************************************)
EXTENDS Services, FiniteSetTheorems, FunctionTheorems, SequenceTheorems, TLAPS

(***************************************************************************)
(* A nonce that no token has.                                              *)
(***************************************************************************)
LEMMA ImageIsSmall ==
  ASSUME NEW S, IsFiniteSet(S), NEW f, f = [x \in S |-> f[x]]
  PROVE  /\ IsFiniteSet({f[x] : x \in S})
         /\ Cardinality({f[x] : x \in S}) \in Nat
         /\ Cardinality({f[x] : x \in S}) <= Cardinality(S)
<1>. DEFINE T == {f[x] : x \in S}
<1>1. f \in Surjection(S, T)
  BY DEF Surjection
<1>. QED  BY <1>1, FS_Surjection, FS_CardinalityType

LEMMA UnionIsSmall ==
  ASSUME NEW S, IsFiniteSet(S), NEW T, IsFiniteSet(T)
  PROVE  /\ IsFiniteSet(S \cup T) /\ Cardinality(S \cup T) \in Nat
         /\ Cardinality(S \cup T) <= Cardinality(S) + Cardinality(T)
<1>1. IsFiniteSet(S \cap T) /\ Cardinality(S \cap T) \in Nat
  BY FS_Intersection, FS_CardinalityType
<1>2. /\ IsFiniteSet(S \cup T)
      /\ Cardinality(S \cup T) = Cardinality(S) + Cardinality(T) - Cardinality(S \cap T)
  BY FS_Union
<1>3. Cardinality(S \cup T) \in Nat /\ Cardinality(S) \in Nat /\ Cardinality(T) \in Nat
  BY <1>2, FS_CardinalityType
<1>. QED  BY <1>1, <1>2, <1>3

LEMMA ANonceIsFree ==
  \E n \in Nonces : \A k \in Adm!Around : k.nonce # n
<1>. DEFINE Shown(f) == {f[t] : t \in Tabs}
            c == [t \in Tabs |-> req[t].csrf.nonce]
            h == [t \in Tabs |-> req[t].header.nonce]
            a == [t \in Tabs |-> req[t].answer.csrf.nonce]
            p == [t \in Tabs |-> token[t].nonce]
            n == Cardinality(Tabs)
            U == (({jar.csrf.nonce} \cup Shown(p)) \cup Shown(c)) \cup (Shown(h) \cup Shown(a))
<1>1. IsFiniteSet(Tabs) /\ IsFiniteSet(Nonces) /\ n \in Nat /\ Cardinality(Nonces) > 4 * n + 1
  <2>1. \A S : Adm!Cardinality(S) = Cardinality(S)
    BY DEF Adm!Cardinality, Cardinality
  <2>2. \A S : Adm!IsFiniteSet(S) <=> IsFiniteSet(S)
    BY DEF Adm!IsFiniteSet, IsFiniteSet
  <2>3. IsFiniteSet(Tabs) /\ IsFiniteSet(Nonces) /\ Cardinality(Nonces) > 4 * n + 1
    BY <2>1, <2>2, ServicesAssumption DEF Adm!AdmissionsAssumption
  <2>. QED  BY <2>3, FS_CardinalityType
<1>2. \A k \in Adm!Around : k.nonce \in U
  BY DEF Adm!Around
<1>3. /\ IsFiniteSet(Shown(c)) /\ Cardinality(Shown(c)) \in Nat /\ Cardinality(Shown(c)) <= n
      /\ IsFiniteSet(Shown(h)) /\ Cardinality(Shown(h)) \in Nat /\ Cardinality(Shown(h)) <= n
      /\ IsFiniteSet(Shown(a)) /\ Cardinality(Shown(a)) \in Nat /\ Cardinality(Shown(a)) <= n
      /\ IsFiniteSet(Shown(p)) /\ Cardinality(Shown(p)) \in Nat /\ Cardinality(Shown(p)) <= n
  <2>1. ASSUME NEW f, f = [x \in Tabs |-> f[x]]
        PROVE  IsFiniteSet(Shown(f)) /\ Cardinality(Shown(f)) \in Nat /\ Cardinality(Shown(f)) <= n
    BY <1>1, <2>1, ImageIsSmall
  <2>. QED  BY <2>1
<1>4. IsFiniteSet(U) /\ Cardinality(U) \in Nat /\ Cardinality(U) <= 4 * n + 1
  <2>. DEFINE A == {jar.csrf.nonce}
              B == A \cup Shown(p)
              C == B \cup Shown(c)
              D == Shown(h) \cup Shown(a)
  <2>. HIDE DEF Shown, n
  <2>1. IsFiniteSet(A) /\ Cardinality(A) = 1
    BY FS_Singleton
  <2>. HIDE DEF A
  <2>2. IsFiniteSet(B) /\ Cardinality(B) \in Nat /\ Cardinality(B) <= 1 + n
    <3>1. /\ IsFiniteSet(B) /\ Cardinality(B) \in Nat
          /\ Cardinality(B) <= Cardinality(A) + Cardinality(Shown(p))
      BY <1>3, <2>1, UnionIsSmall
    <3>. HIDE DEF B
    <3>. QED  BY <1>1, <1>3, <2>1, <3>1
  <2>. HIDE DEF B
  <2>3. IsFiniteSet(C) /\ Cardinality(C) \in Nat /\ Cardinality(C) <= 1 + n + n
    <3>1. /\ IsFiniteSet(C) /\ Cardinality(C) \in Nat
          /\ Cardinality(C) <= Cardinality(B) + Cardinality(Shown(c))
      BY <1>3, <2>2, UnionIsSmall
    <3>. HIDE DEF C
    <3>. QED  BY <1>1, <1>3, <2>2, <3>1
  <2>4. IsFiniteSet(D) /\ Cardinality(D) \in Nat /\ Cardinality(D) <= n + n
    <3>1. /\ IsFiniteSet(D) /\ Cardinality(D) \in Nat
          /\ Cardinality(D) <= Cardinality(Shown(h)) + Cardinality(Shown(a))
      BY <1>3, UnionIsSmall
    <3>. HIDE DEF D
    <3>. QED  BY <1>1, <1>3, <3>1
  <2>. HIDE DEF C, D
  <2>5. IsFiniteSet(C \cup D) /\ Cardinality(C \cup D) \in Nat /\ Cardinality(C \cup D) <= 4 * n + 1
    <3>1. /\ IsFiniteSet(C \cup D) /\ Cardinality(C \cup D) \in Nat
          /\ Cardinality(C \cup D) <= Cardinality(C) + Cardinality(D)
      BY <2>3, <2>4, UnionIsSmall
    <3>. QED  BY <1>1, <2>3, <2>4, <3>1
  <2>. QED  BY <2>5 DEF A, B, C, D
<1>. HIDE DEF U
<1>5. PICK m \in Nonces : m \notin U
  <2>. SUFFICES ASSUME Nonces \subseteq U
                PROVE  FALSE
    OBVIOUS
  <2>1. Cardinality(Nonces) <= Cardinality(U) /\ Cardinality(Nonces) \in Nat
    BY <1>1, <1>4, FS_Subset, FS_CardinalityType
  <2>. QED  BY <1>1, <1>4, <2>1
<1>. QED  BY <1>2, <1>5
(***************************************************************************)
(* The inductive invariant: what is true of a request, of the cookies and  *)
(* of the tabs' tokens.                                                    *)
(***************************************************************************)
Answers  == [kind : Adm!Kinds, session : Sessions \cup {"keep", "clear"},
             csrf : Adm!Tokens \cup {Adm!NoToken, Adm!Dropped},
             token : Adm!Tokens \cup {Adm!NoToken}, limit : Nat, retry : Nat]
Exchanges == [stage : {"idle", "sent", "admitted", "answered"}, op : Used \cup {Adm!None},
             origin : Origins \cup {Adm!None}, since : 0..LastTime, session : Seq(Sessions),
             csrf : Adm!Tokens \cup {Adm!NoToken}, header : Adm!Tokens \cup {Adm!NoToken},
             acts : Sessions \cup {Adm!None}, answer : Answers]
Over     == {"ended", "outdated"}
Statuses == {"unissued", "live"} \cup Over

(* What admission has established of a request. *)
Guarded(r) ==
  /\ Len(r.session) <= 1
  /\ r.acts # Adm!None => Len(r.session) = 1 /\ r.acts = r.session[1]
  /\ r.acts = Adm!None => \/ Len(r.session) = 0
                          \/ Adm!ModeOf[r.op] \in {"csrf_issue", "anonymous_post"}
  /\ Adm!ModeOf[r.op] \in {"session_get", "session_post"} => r.acts # Adm!None
  /\ r.op \in Adm!Posts => /\ r.origin = "app"
                           /\ r.header = r.csrf
                           /\ r.csrf.binding = Adm!Binding(r.acts)

(* A wait in whole seconds that is enough, and the least such. *)
Enough(a) == /\ a.retry * Second >= a.limit
             /\ (a.retry - 1) * Second < a.limit \/ a.retry = 1

(* A request, whose sessions were issued and whose tokens exist at time n. *)
Sound(r, st, n) ==
  /\ r \in Exchanges
  /\ r.stage # "idle" => r.op \in Used
  /\ \A i \in 1..Len(r.session) : st[r.session[i]] # "unissued"
  /\ r.since <= n /\ r.csrf.issued <= n /\ r.answer.csrf.issued <= n
  /\ r.answer.session \in Sessions => st[r.answer.session] # "unissued"
  /\ r.stage = "admitted" => Guarded(r)
  /\ r.answer.kind = "rate_limited" => Enough(r.answer)

JarSound(j, st, n) ==
  /\ j \in [session : Sessions \cup {Adm!None}, csrf : Adm!Tokens \cup {Adm!NoToken},
            expires : 0..(LastTime + Ttl)]
  /\ j.session # Adm!None => st[j.session] # "unissued"
  /\ j.csrf # Adm!NoToken => j.csrf.issued <= n /\ j.csrf.issued + Adm!MaxAge <= j.expires

BrowserInv ==
  /\ status \in [Sessions -> Statuses] /\ lastSeen \in [Sessions -> 0..LastTime]
  /\ time \in 0..LastTime /\ faults \in 0..Faults
  /\ token \in [Tabs -> Adm!Tokens \cup {Adm!NoToken}]
  /\ JarSound(jar, status, time)
  /\ req \in [Tabs -> Exchanges] /\ \A t \in Tabs : Sound(req[t], status, time)

(***************************************************************************)
(* The constants, the tokens and the waits.                                *)
(***************************************************************************)
LEMMA BrowserConstants ==
  /\ Used \subseteq DOMAIN Adm!ModeOf /\ Copies \subseteq {1, 2} /\ "app" \in Origins
  /\ Ttl \in Nat \ {0} /\ Second \in Nat \ {0} /\ RetryTimes \subseteq Nat
  /\ LastTime \in Nat /\ Faults \in Nat
  /\ Adm!None \notin Sessions /\ Adm!Anonymous \notin Sessions
  /\ "rejected" \notin Sessions /\ "keep" \notin Sessions /\ "clear" \notin Sessions
BY ServicesAssumption DEF Adm!AdmissionsAssumption

LEMMA MaxAgeIsShort == Adm!MaxAge \in Nat /\ Adm!MaxAge <= Ttl
BY BrowserConstants DEF Adm!MaxAge

LEMMA RetryIsEnough ==
  ASSUME NEW ms \in Nat
  PROVE  /\ Adm!RetryAfter(ms) \in Nat
         /\ Adm!RetryAfter(ms) * Second >= ms
         /\ (Adm!RetryAfter(ms) - 1) * Second < ms \/ Adm!RetryAfter(ms) = 1
<1>. DEFINE q == (ms + Second - 1) \div Second
<1>1. Second \in Nat \ {0}
  BY BrowserConstants
<1>2. q \in Nat /\ q * Second <= ms + Second - 1 /\ ms + Second - 1 < (q + 1) * Second
  BY <1>1
<1>. HIDE DEF q
<1>3. CASE q > 1
  <2>1. Adm!RetryAfter(ms) = q
    BY <1>3 DEF q, Adm!RetryAfter
  <2>. QED  BY <1>1, <1>2, <2>1
<1>4. CASE ~(q > 1)
  <2>1. Adm!RetryAfter(ms) = 1
    BY <1>4 DEF q, Adm!RetryAfter
  <2>2. ms + Second - 1 < 2 * Second
    BY <1>1, <1>2, <1>4
  <2>. QED  BY <1>1, <2>1, <2>2
<1>. QED  BY <1>3, <1>4

LEMMA TokensDiffer ==
  /\ Adm!NoToken \notin Adm!Tokens /\ Adm!Dropped \notin Adm!Tokens
  /\ Adm!NoToken # Adm!Dropped
  /\ Adm!NoToken.issued = 0 /\ Adm!Dropped.issued = 0
  /\ \A k \in Adm!Tokens : k.issued \in 0..LastTime /\ k.binding \in Sessions \cup {Adm!Anonymous}
BY BrowserConstants DEF Adm!Tokens, Adm!NoToken, Adm!Dropped, Adm!None, Adm!Anonymous

LEMMA IssuedIsNew ==
  ASSUME time \in 0..LastTime, NEW s \in Sessions \cup {Adm!None}
  PROVE  /\ Adm!Issued(s) \in Adm!Tokens
         /\ Adm!Issued(s).issued = time /\ Adm!Issued(s).binding = Adm!Binding(s)
<1>1. (CHOOSE n \in Nonces : \A k \in Adm!Around : k.nonce # n) \in Nonces
  BY ANonceIsFree
<1>2. Adm!Binding(s) \in Sessions \cup {Adm!Anonymous}
  BY DEF Adm!Binding
<1>. QED  BY <1>1, <1>2 DEF Adm!Issued, Adm!Tokens

(***************************************************************************)
(* A session that was issued stays so, and the clock only advances.        *)
(***************************************************************************)
Moves(st, su) ==
  /\ su \in [Sessions -> Statuses]
  /\ \A s \in Sessions : st[s] # "unissued" => su[s] # "unissued"

LEMMA MovesOf ==
  ASSUME NEW st, NEW su, Moves(st, su), NEW s \in Sessions
  PROVE  st[s] # "unissued" => su[s] # "unissued"
BY DEF Moves

LEMMA SessionIn ==
  ASSUME NEW r \in Exchanges
  PROVE  /\ r.session \in Seq(Sessions) /\ Len(r.session) \in Nat
         /\ \A i \in 1..Len(r.session) : r.session[i] \in Sessions
         /\ r.session = <<>> <=> Len(r.session) = 0
BY DEF Exchanges

LEMMA SoundStays ==
  ASSUME NEW r, NEW st, NEW su, NEW n \in 0..LastTime, NEW m \in 0..LastTime,
         Sound(r, st, n), Moves(st, su), n <= m
  PROVE  Sound(r, su, m)
<1>1. r \in Exchanges /\ (r.stage # "idle" => r.op \in Used)
      /\ (r.stage = "admitted" => Guarded(r)) /\ (r.answer.kind = "rate_limited" => Enough(r.answer))
  BY DEF Sound
<1>2. \A i \in 1..Len(r.session) : r.session[i] \in Sessions
  BY <1>1, SessionIn
<1>. DEFINE Issues(s) == st[s] # "unissued" => su[s] # "unissued"
<1>m. \A s \in Sessions : Issues(s)
  BY MovesOf
<1>3. \A i \in 1..Len(r.session) : su[r.session[i]] # "unissued"
  <2>1. \A i \in 1..Len(r.session) : st[r.session[i]] # "unissued"
    BY DEF Sound
  <2>. QED  BY <1>2, <1>m, <2>1
<1>4. r.since <= m /\ r.csrf.issued <= m /\ r.answer.csrf.issued <= m
  <2>1. r.since \in Nat /\ r.csrf.issued \in Nat /\ r.answer.csrf.issued \in Nat
    BY <1>1, TokensDiffer, BrowserConstants DEF Exchanges, Answers
  <2>. QED  BY <2>1, BrowserConstants DEF Sound
<1>5. r.answer.session \in Sessions => su[r.answer.session] # "unissued"
  <2>1. r.answer.session \in Sessions => st[r.answer.session] # "unissued"
    BY DEF Sound
  <2>. QED  BY <1>m, <2>1
<1>. QED  BY <1>1, <1>3, <1>4, <1>5 DEF Sound

LEMMA JarStays ==
  ASSUME NEW j, NEW st, NEW su, NEW n \in 0..LastTime, NEW m \in 0..LastTime,
         JarSound(j, st, n), Moves(st, su), n <= m
  PROVE  JarSound(j, su, m)
<1>1. j.csrf # Adm!NoToken => j.csrf.issued \in Nat
  BY TokensDiffer, BrowserConstants DEF JarSound
<1>2. j.csrf # Adm!NoToken => j.csrf.issued <= m /\ j.csrf.issued + Adm!MaxAge <= j.expires
  <2>1. j.csrf # Adm!NoToken => j.csrf.issued <= n /\ j.csrf.issued + Adm!MaxAge <= j.expires
    BY DEF JarSound
  <2>. QED  BY <1>1, <2>1, BrowserConstants
<1>3. j.session # Adm!None => su[j.session] # "unissued"
  <2>1. j.session \in Sessions \cup {Adm!None} /\ (j.session # Adm!None => st[j.session] # "unissued")
    BY DEF JarSound
  <2>2. \A s \in Sessions : st[s] # "unissued" => su[s] # "unissued"
    BY MovesOf
  <2>. QED  BY <2>1, <2>2
<1>. QED  BY <1>2, <1>3 DEF JarSound

(* One request changes, and the sessions and the clock move on. *)
LEMMA OneRequest ==
  ASSUME BrowserInv, NEW t \in Tabs, NEW r, Adm!Step(t, r),
         Moves(status, status'), time' \in 0..LastTime, time <= time', Sound(r, status', time')
  PROVE  req' \in [Tabs -> Exchanges] /\ \A u \in Tabs : Sound(req'[u], status', time')
<1>1. r \in Exchanges
  BY DEF Sound
<1>2. req' = [req EXCEPT ![t] = r] /\ req \in [Tabs -> Exchanges] /\ time \in 0..LastTime
      /\ \A u \in Tabs : Sound(req[u], status, time)
  BY DEF Adm!Step, BrowserInv
<1>3. ASSUME NEW u \in Tabs
      PROVE  Sound(req'[u], status', time')
  <2>1. CASE u = t
    BY <1>2, <2>1
  <2>2. CASE u # t
    <3>1. req'[u] = req[u] /\ Sound(req[u], status, time)
      BY <1>2, <2>2
    <3>2. Sound(req[u], status', time')
      BY <1>2, <3>1, SoundStays
    <3>. QED  BY <3>1, <3>2
  <2>. QED  BY <2>1, <2>2
<1>. QED  BY <1>1, <1>2, <1>3

LEMMA StatusStays == BrowserInv => Moves(status, status)
BY DEF BrowserInv, Moves

LEMMA EndedMoves ==
  ASSUME BrowserInv, NEW gone, status' = Adm!Ended(gone)
  PROVE  /\ Moves(status, status')
         /\ \A s \in Sessions : s \in gone /\ status[s] # "unissued" => status'[s] \in Over
<1>1. status \in [Sessions -> Statuses]
  BY DEF BrowserInv
<1>. QED  BY <1>1 DEF Moves, Adm!Ended, Statuses, Over

LEMMA OutdatedMoves ==
  ASSUME BrowserInv, NEW p, status' = Adm!Outdated(p)
  PROVE  /\ Moves(status, status')
         /\ \A s \in Sessions : Owner[s] = p /\ status[s] # "unissued" => status'[s] \in Over
<1>1. status \in [Sessions -> Statuses]
  BY DEF BrowserInv
<1>. QED  BY <1>1 DEF Moves, Adm!Outdated, Statuses, Over

(***************************************************************************)
(* What answers and requests look like.                                    *)
(***************************************************************************)
LEMMA NothingIs ==
  /\ Adm!Nothing \in Answers
  /\ Adm!Nothing.kind = Adm!None /\ Adm!Nothing.session = "keep" /\ Adm!Nothing.csrf = Adm!NoToken
BY DEF Adm!Nothing, Answers, Adm!Kinds

LEMMA RefusedIs ==
  ASSUME NEW k \in Adm!Kinds
  PROVE  /\ Adm!Refused(k) \in Answers
         /\ Adm!Refused(k).kind = k /\ Adm!Refused(k).csrf = Adm!NoToken
         /\ Adm!Refused(k).session \in {"keep", "clear"}
         /\ Adm!Refused(k).session = "clear" => k = "session_rejected"
BY DEF Adm!Refused, Adm!Clears, Adm!Nothing, Answers

LEMMA LimitedIs ==
  ASSUME NEW ms \in Nat
  PROVE  /\ Adm!Limited(ms) \in Answers /\ Enough(Adm!Limited(ms))
         /\ Adm!Limited(ms).csrf = Adm!NoToken /\ Adm!Limited(ms).session = "keep"
<1>1. Adm!RetryAfter(ms) \in Nat
  BY RetryIsEnough
<1>2. /\ Adm!Limited(ms) \in Answers
      /\ Adm!Limited(ms).csrf = Adm!NoToken /\ Adm!Limited(ms).session = "keep"
  BY <1>1 DEF Adm!Limited, Adm!Nothing, Answers, Adm!Kinds
<1>3. Adm!Limited(ms).retry = Adm!RetryAfter(ms) /\ Adm!Limited(ms).limit = ms
  BY DEF Adm!Limited, Adm!Nothing
<1>. QED  BY <1>2, <1>3, RetryIsEnough DEF Enough

LEMMA HandingIs ==
  ASSUME NEW set \in Sessions \cup {"keep", "clear"},
         NEW k \in Adm!Tokens \cup {Adm!NoToken, Adm!Dropped}, NEW shown \in BOOLEAN,
         shown => k \in Adm!Tokens
  PROVE  /\ Adm!Handing("ok", set, k, shown) \in Answers
         /\ Adm!Handing("ok", set, k, shown).kind = "ok"
         /\ Adm!Handing("ok", set, k, shown).session = set
         /\ Adm!Handing("ok", set, k, shown).csrf = k
BY DEF Adm!Handing, Adm!Nothing, Answers, Adm!Kinds

LEMMA IdleIs ==
  /\ Adm!Idle \in Exchanges
  /\ Adm!Idle.stage = "idle" /\ Len(Adm!Idle.session) = 0
  /\ Adm!Idle.csrf = Adm!NoToken /\ Adm!Idle.answer = Adm!Nothing /\ Adm!Idle.since = 0
BY NothingIs, BrowserConstants DEF Adm!Idle, Exchanges

LEMMA IdleIsSound ==
  ASSUME NEW st, NEW n \in Nat
  PROVE  Sound(Adm!Idle, st, n)
<1>1. /\ Adm!Idle.answer.csrf.issued = 0 /\ Adm!Idle.csrf.issued = 0
      /\ Adm!Idle.answer.session = "keep" /\ Adm!Idle.answer.kind # "rate_limited"
  BY IdleIs, NothingIs, TokensDiffer DEF Adm!None
<1>2. \A i \in 1..Len(Adm!Idle.session) : st[Adm!Idle.session[i]] # "unissued"
  BY IdleIs
<1>. QED  BY <1>1, <1>2, IdleIs, BrowserConstants DEF Sound

LEMMA AnsweredIs ==
  ASSUME NEW t, NEW a
  PROVE  LET r == Adm!Answered(t, a) IN
         /\ r.stage = "answered" /\ r.op = req[t].op /\ r.session = req[t].session
         /\ r.answer = a /\ r.csrf = Adm!NoToken /\ r.since = 0
         /\ req[t] \in Exchanges /\ a \in Answers => r \in Exchanges
<1>. DEFINE r == Adm!Answered(t, a)
<1>1. r = [stage |-> "answered", op |-> req[t].op, origin |-> Adm!None, since |-> 0,
           session |-> req[t].session, csrf |-> Adm!NoToken, header |-> Adm!NoToken,
           acts |-> Adm!None, answer |-> a]
  <2>. DEFINE op == req[t].op
              session == req[t].session
  <2>1. r = [Adm!Idle EXCEPT !.stage = "answered", !.op = op, !.session = session, !.answer = a]
    BY DEF Adm!Answered
  <2>. HIDE DEF r, op, session
  <2>2. r = [stage |-> "answered", op |-> op, origin |-> Adm!None, since |-> 0,
             session |-> session, csrf |-> Adm!NoToken, header |-> Adm!NoToken,
             acts |-> Adm!None, answer |-> a]
    BY <2>1 DEF Adm!Idle
  <2>. QED  BY <2>2 DEF op, session
<1>. HIDE DEF r
<1>2. req[t] \in Exchanges => req[t].op \in Used \cup {Adm!None} /\ req[t].session \in Seq(Sessions)
  BY DEF Exchanges
<1>3. 0 \in 0..LastTime
  BY BrowserConstants
<1>4. req[t] \in Exchanges /\ a \in Answers => r \in Exchanges
  BY <1>1, <1>2, <1>3 DEF Exchanges
<1>5. /\ r.stage = "answered" /\ r.op = req[t].op /\ r.session = req[t].session
      /\ r.answer = a /\ r.csrf = Adm!NoToken /\ r.since = 0
  BY <1>1
<1>. QED  BY <1>4, <1>5 DEF r

(* An answer that may be given while the sessions are st. *)
Fits(a, st, n) ==
  /\ a \in Answers /\ a.csrf.issued <= n
  /\ a.session \in Sessions => st[a.session] # "unissued"
  /\ a.kind = "rate_limited" => Enough(a)

(* A session whose cookie is cleared is over, or the request was overtaken.*)
Excused(t, s) == status'[s] \in Over \/ Adm!Overtaken(t, s)
ClearsFor(t, a) ==
  a.session = "clear" /\ Len(req[t].session) = 1 /\ req[t].op # "reset"
    => Excused(t, req[t].session[1])

Answering(t, a) ==
  /\ Adm!Step(t, Adm!Answered(t, a)) /\ req[t].stage # "idle"
  /\ Moves(status, status') /\ UNCHANGED <<jar, token, time>> /\ faults' \in 0..Faults
  /\ lastSeen' \in [Sessions -> 0..LastTime]
  /\ Fits(a, status', time) /\ ClearsFor(t, a)

(* What a step of tab t leaves: the invariant, and a cookie cleared only   *)
(* for a reason.                                                           *)
Keeps(t) == BrowserInv' /\ (req'[t].stage = "answered" => ClearsFor(t, req'[t].answer))

LEMMA AnsweringKeeps ==
  ASSUME BrowserInv, NEW t \in Tabs, NEW a, Answering(t, a)
  PROVE  Keeps(t)
<1>. DEFINE r == Adm!Answered(t, a)
<1>1. /\ time \in 0..LastTime /\ time' = time /\ Sound(req[t], status, time)
      /\ req[t] \in Exchanges /\ req[t].stage # "idle"
      /\ Moves(status, status') /\ Adm!Step(t, r) /\ Fits(a, status', time)
  BY DEF BrowserInv, Answering
<1>2. time' \in 0..LastTime /\ time <= time'
  BY <1>1, BrowserConstants
<1>3. Sound(req[t], status', time')
  BY <1>1, <1>2, SoundStays
<1>4. Sound(r, status', time')
  <2>1. /\ r \in Exchanges /\ r.stage = "answered" /\ r.op = req[t].op /\ r.session = req[t].session
        /\ r.answer = a /\ r.csrf = Adm!NoToken /\ r.since = 0
    BY <1>1, AnsweredIs DEF Fits
  <2>2. r.op \in Used /\ \A i \in 1..Len(r.session) : status'[r.session[i]] # "unissued"
    BY <1>1, <1>3, <2>1 DEF Sound
  <2>3. r.since <= time' /\ r.csrf.issued <= time' /\ r.answer.csrf.issued <= time'
    BY <1>1, <1>2, <2>1, TokensDiffer, BrowserConstants DEF Fits
  <2>. HIDE DEF r
  <2>. QED  BY <1>1, <2>1, <2>2, <2>3 DEF Sound, Fits
<1>5. req' \in [Tabs -> Exchanges] /\ \A u \in Tabs : Sound(req'[u], status', time')
  <2>. HIDE DEF r
  <2>. QED  BY <1>1, <1>2, <1>4, OneRequest
<1>6. JarSound(jar', status', time')
  BY <1>1, <1>2, JarStays DEF BrowserInv, Answering
<1>7. status' \in [Sessions -> Statuses] /\ lastSeen' \in [Sessions -> 0..LastTime]
      /\ faults' \in 0..Faults
      /\ token' \in [Tabs -> Adm!Tokens \cup {Adm!NoToken}]
  BY DEF BrowserInv, Answering, Moves
<1>8. req'[t].answer = a /\ ClearsFor(t, a)
  <2>1. req' = [req EXCEPT ![t] = r] /\ req \in [Tabs -> Exchanges] /\ r.answer = a
    BY <1>1, AnsweredIs DEF Adm!Step, BrowserInv
  <2>. HIDE DEF r
  <2>. QED  BY <2>1 DEF Answering
<1>9. BrowserInv'
  BY <1>2, <1>5, <1>6, <1>7 DEF BrowserInv
<1>. QED  BY <1>8, <1>9 DEF Keeps

(***************************************************************************)
(* Admission.                                                              *)
(***************************************************************************)
Tolerated == {"csrf_issue", "anonymous_post"}

LEMMA ReadIs ==
  ASSUME BrowserInv, NEW t \in Tabs, NEW read \in Adm!Readings(t)
  PROVE  read \in 0..LastTime /\ req[t].since <= read
<1>1. req[t].since \in 0..LastTime /\ time \in 0..LastTime
  BY DEF BrowserInv, Exchanges
<1>. QED  BY <1>1, BrowserConstants DEF Adm!Readings

(* A session that is not usable is over, or the request was overtaken. *)
LEMMA UnusableIs ==
  ASSUME BrowserInv, NEW t \in Tabs, NEW read \in Adm!Readings(t), NEW s \in Sessions,
         status[s] # "unissued", ~Adm!Usable(s, read)
  PROVE  status[s] \in Over \/ Adm!Overtaken(t, s)
<1>1. read \in 0..LastTime /\ req[t].since <= read /\ lastSeen[s] \in 0..LastTime
      /\ req[t].since \in 0..LastTime /\ status[s] \in Statuses
  BY ReadIs DEF BrowserInv, Exchanges
<1>2. CASE status[s] # "live"
  BY <1>1, <1>2 DEF Statuses
<1>3. CASE ~(read >= lastSeen[s])
  <2>1. req[t].since < lastSeen[s]
    BY <1>1, <1>3, BrowserConstants
  <2>. QED  BY <2>1 DEF Adm!Overtaken
<1>. QED  BY <1>2, <1>3 DEF Adm!Usable

LEMMA PresentedIs ==
  ASSUME BrowserInv, NEW t \in Tabs, NEW read \in Adm!Readings(t),
         NEW s, s = Adm!Presented(t, read)
  PROVE  LET first == req[t].session[1] IN
         /\ s \in Sessions \cup {Adm!None, "rejected"}
         /\ s \in Sessions => /\ Len(req[t].session) = 1 /\ s = first
                              /\ status[s] = "live"
         /\ s = Adm!None => \/ Len(req[t].session) = 0
                            \/ /\ Adm!Mode(t) \in Tolerated /\ Len(req[t].session) = 1
                               /\ status[first] \in Over \/ Adm!Overtaken(t, first)
         /\ s = "rejected" /\ Len(req[t].session) = 1
              => status[first] \in Over \/ Adm!Overtaken(t, first)
<1>. DEFINE q == req[t].session
            Gone == status[q[1]] \in Over \/ Adm!Overtaken(t, q[1])
<1>1. /\ q = <<>> <=> Len(q) = 0
      /\ Len(q) \in Nat
      /\ Len(q) >= 1 => q[1] \in Sessions
      /\ Len(q) >= 1 => status[q[1]] # "unissued"
  <2>1. req[t] \in Exchanges /\ Sound(req[t], status, time) /\ status \in [Sessions -> Statuses]
    BY DEF BrowserInv
  <2>2. /\ q = <<>> <=> Len(q) = 0
        /\ Len(q) \in Nat
        /\ \A i \in 1..Len(q) : q[i] \in Sessions
    BY <2>1, SessionIn
  <2>3. \A i \in 1..Len(q) : status[q[i]] # "unissued"
    BY <2>1 DEF Sound
  <2>. QED  BY <2>1, <2>2, <2>3
<1>2. Len(q) >= 1 /\ ~Adm!Usable(q[1], read) => Gone
  BY <1>1, UnusableIs
<1>3. /\ q = <<>> => s = Adm!None
      /\ Len(q) > 1 => s = "rejected"
      /\ Len(q) = 1 /\ Adm!Usable(q[1], read) => s = q[1]
      /\ Len(q) = 1 /\ ~Adm!Usable(q[1], read) /\ Adm!Mode(t) \in Tolerated => s = Adm!None
      /\ Len(q) = 1 /\ ~Adm!Usable(q[1], read) /\ Adm!Mode(t) \notin Tolerated => s = "rejected"
  <2>1. q = <<>> => s = Adm!None
    BY DEF Adm!Presented
  <2>2. Len(q) > 1 => s = "rejected"
    BY <1>1 DEF Adm!Presented
  <2>3. Len(q) = 1 => s = IF Adm!Usable(q[1], read) THEN q[1]
                          ELSE IF Adm!Tolerant(t) THEN Adm!None ELSE "rejected"
    BY <1>1 DEF Adm!Presented
  <2>. HIDE DEF q
  <2>. QED  BY <2>1, <2>2, <2>3 DEF Adm!Tolerant, Tolerated
<1>4. Adm!None # "rejected" /\ Adm!None \notin Sessions /\ "rejected" \notin Sessions
  BY BrowserConstants DEF Adm!None
<1>5. Adm!Usable(q[1], read) => status[q[1]] = "live"
  BY DEF Adm!Usable
<1>. HIDE DEF q, Gone
<1>a. CASE Len(q) = 0
  BY <1>1, <1>3, <1>4, <1>a DEF q
<1>b. CASE Len(q) = 1 /\ Adm!Usable(q[1], read)
  BY <1>1, <1>3, <1>4, <1>5, <1>b DEF q
<1>c. CASE Len(q) = 1 /\ ~Adm!Usable(q[1], read)
  BY <1>1, <1>2, <1>3, <1>4, <1>c DEF q, Gone
<1>. DEFINE length == Len(q)
<1>6. /\ length = 0 \/ length = 1 \/ length > 1
      /\ length > 1 => length # 0 /\ length # 1
  <2>1. length \in Nat
    BY <1>1
  <2>. HIDE DEF length
  <2>. QED  BY <2>1
<1>7. CASE Len(q) > 1
  BY <1>3, <1>4, <1>6, <1>7 DEF q
<1>. QED  BY <1>a, <1>b, <1>c, <1>6, <1>7

(* What admission makes of a request that presents s. *)
AdmitsTo(t, s, r) ==
  \/ /\ r = Adm!Answered(t, Adm!Refused("session_rejected"))
     /\ s = "rejected" \/ (s = Adm!None /\ Adm!Mode(t) \in {"session_get", "session_post"})
  \/ r = Adm!Answered(t, Adm!Refused("origin_rejected"))
  \/ /\ r = Adm!Answered(t, Adm!Refused("csrf_rejected"))
     /\ ~Adm!CsrfOk(t, s) /\ s # "rejected"
  \/ /\ r = [req[t] EXCEPT !.stage = "admitted", !.acts = s, !.since = time]
     /\ s # "rejected" /\ ~(s = Adm!None /\ Adm!Mode(t) \in {"session_get", "session_post"})
     /\ Adm!Unsafe(t) => Adm!OriginOk(t) /\ Adm!CsrfOk(t, s)

LEMMA AdmitIs ==
  ASSUME NEW t, Adm!Admit(t)
  PROVE  \E read \in Adm!Readings(t) : \E r : LET s == Adm!Presented(t, read) IN
           /\ Adm!Step(t, r) /\ AdmitsTo(t, s, r)
           /\ lastSeen' = IF s \in Sessions THEN [lastSeen EXCEPT ![s] = read] ELSE lastSeen
<1>0. PICK read \in Adm!Readings(t) : LET s == Adm!Presented(t, read) IN
        /\ Adm!Step(t, IF s = "rejected" \/ (s = Adm!None /\ Adm!Mode(t) \in {"session_get", "session_post"})
                         THEN Adm!Answered(t, Adm!Refused("session_rejected"))
                       ELSE IF Adm!Unsafe(t) /\ ~Adm!OriginOk(t)
                         THEN Adm!Answered(t, Adm!Refused("origin_rejected"))
                       ELSE IF Adm!Unsafe(t) /\ ~Adm!CsrfOk(t, s)
                         THEN Adm!Answered(t, Adm!Refused("csrf_rejected"))
                       ELSE [req[t] EXCEPT !.stage = "admitted", !.acts = s, !.since = time])
        /\ lastSeen' = IF s \in Sessions THEN [lastSeen EXCEPT ![s] = read] ELSE lastSeen
  BY DEF Adm!Admit
<1>. DEFINE s == Adm!Presented(t, read)
            Closed == s = Adm!None /\ Adm!Mode(t) \in {"session_get", "session_post"}
            r == IF s = "rejected" \/ Closed
                   THEN Adm!Answered(t, Adm!Refused("session_rejected"))
                 ELSE IF Adm!Unsafe(t) /\ ~Adm!OriginOk(t)
                   THEN Adm!Answered(t, Adm!Refused("origin_rejected"))
                 ELSE IF Adm!Unsafe(t) /\ ~Adm!CsrfOk(t, s)
                   THEN Adm!Answered(t, Adm!Refused("csrf_rejected"))
                 ELSE [req[t] EXCEPT !.stage = "admitted", !.acts = s, !.since = time]
<1>1. Adm!Step(t, r)
  BY <1>0
<1>2. AdmitsTo(t, s, r)
  <2>. HIDE DEF s
  <2>. QED  BY DEF AdmitsTo
<1>. QED  BY <1>0, <1>1, <1>2

LEMMA AdmitKeeps ==
  ASSUME BrowserInv, NEW t \in Tabs, Adm!Admit(t)
  PROVE  Keeps(t)
<1>r. PICK read \in Adm!Readings(t) : \E r : LET s == Adm!Presented(t, read) IN
        /\ Adm!Step(t, r) /\ AdmitsTo(t, s, r)
        /\ lastSeen' = IF s \in Sessions THEN [lastSeen EXCEPT ![s] = read] ELSE lastSeen
  BY AdmitIs
<1>0. PICK r : LET s == Adm!Presented(t, read) IN
        /\ Adm!Step(t, r) /\ AdmitsTo(t, s, r)
        /\ lastSeen' = IF s \in Sessions THEN [lastSeen EXCEPT ![s] = read] ELSE lastSeen
  BY <1>r
<1>. DEFINE s == Adm!Presented(t, read)
            first == req[t].session[1]
<1>1. /\ Adm!Step(t, r) /\ AdmitsTo(t, s, r)
      /\ lastSeen' \in [Sessions -> 0..LastTime]
  <2>1. read \in 0..LastTime /\ lastSeen \in [Sessions -> 0..LastTime]
    BY ReadIs DEF BrowserInv
  <2>. QED  BY <1>0, <2>1
<1>2. /\ req[t].stage = "sent" /\ status' = status /\ UNCHANGED <<jar, token, time>>
      /\ faults' = faults /\ faults \in 0..Faults
      /\ time \in 0..LastTime /\ Sound(req[t], status, time) /\ req[t] \in Exchanges
      /\ Moves(status, status')
  BY StatusStays DEF Adm!Admit, BrowserInv
<1>3. /\ s \in Sessions \cup {Adm!None, "rejected"}
      /\ s \in Sessions => /\ Len(req[t].session) = 1 /\ s = first
                           /\ status[s] = "live"
      /\ s = Adm!None => \/ Len(req[t].session) = 0
                         \/ /\ Adm!Mode(t) \in Tolerated /\ Len(req[t].session) = 1
                            /\ status[first] \in Over \/ Adm!Overtaken(t, first)
      /\ s = "rejected" /\ Len(req[t].session) = 1
           => status[first] \in Over \/ Adm!Overtaken(t, first)
  BY PresentedIs
<1>. HIDE DEF s
<1>4. ASSUME NEW k \in Adm!Kinds, k # "rate_limited",
             k = "session_rejected" =>
               s = "rejected" \/ (s = Adm!None /\ Adm!Mode(t) \in {"session_get", "session_post"}),
             r = Adm!Answered(t, Adm!Refused(k))
      PROVE  Keeps(t)
  <2>. DEFINE a == Adm!Refused(k)
  <2>1. /\ a \in Answers /\ a.kind = k /\ a.csrf = Adm!NoToken /\ a.session \in {"keep", "clear"}
        /\ a.session = "clear" => k = "session_rejected"
    BY RefusedIs
  <2>. HIDE DEF a
  <2>2. a.csrf.issued <= time' /\ a.session \notin Sessions
    BY <1>2, <2>1, TokensDiffer, BrowserConstants
  <2>3. ClearsFor(t, a)
    <3>. SUFFICES ASSUME a.session = "clear", Len(req[t].session) = 1
                  PROVE  status[first] \in Over \/ Adm!Overtaken(t, first)
      BY <1>2 DEF ClearsFor, Excused
    <3>1. CASE s = "rejected"
      BY <1>3, <3>1
    <3>2. CASE s = Adm!None /\ Adm!Mode(t) \in {"session_get", "session_post"}
      BY <1>3, <3>2 DEF Tolerated
    <3>. QED  BY <1>4, <2>1, <3>1, <3>2
  <2>4. Fits(a, status', time)
    BY <1>2, <1>4, <2>1, <2>2 DEF Fits
  <2>5. Answering(t, a)
    BY <1>1, <1>2, <1>4, <2>3, <2>4 DEF Answering, a
  <2>. QED  BY <2>5, AnsweringKeeps
<1>5. ASSUME r = [req[t] EXCEPT !.stage = "admitted", !.acts = s, !.since = time],
             s # "rejected", ~(s = Adm!None /\ Adm!Mode(t) \in {"session_get", "session_post"}),
             Adm!Unsafe(t) => Adm!OriginOk(t) /\ Adm!CsrfOk(t, s)
      PROVE  Keeps(t)
  <2>1. /\ r \in Exchanges /\ r.stage = "admitted" /\ r.acts = s /\ r.op = req[t].op
        /\ r.origin = req[t].origin /\ r.session = req[t].session /\ r.csrf = req[t].csrf
        /\ r.header = req[t].header /\ r.answer = req[t].answer /\ r.since = time
    BY <1>2, <1>3, <1>5 DEF Exchanges
  <2>2. r.op \in Used /\ Adm!Mode(t) = Adm!ModeOf[r.op]
    BY <1>2, <2>1 DEF Sound, Adm!Mode
  <2>3. r.op \in Adm!Posts => Adm!Unsafe(t)
    BY <2>2 DEF Adm!Posts, Adm!Unsafe, Adm!ModeOf
  <2>4. Guarded(r)
    <3>1. r.op \in Adm!Posts => r.origin = "app" /\ r.header = r.csrf /\ r.csrf.binding = Adm!Binding(r.acts)
      BY <1>5, <2>1, <2>3 DEF Adm!OriginOk, Adm!CsrfOk
    <3>2. Len(r.session) <= 1 /\ (r.acts # Adm!None => Len(r.session) = 1 /\ r.acts = r.session[1])
      <4>1. Adm!None \notin Sessions
        BY BrowserConstants
      <4>2. s \in Sessions => Len(r.session) = 1 /\ s = r.session[1]
        BY <1>3, <2>1
      <4>3. s = Adm!None => Len(r.session) \in {0, 1}
        BY <1>3, <2>1
      <4>4. s \in Sessions \/ s = Adm!None
        BY <1>3, <1>5
      <4>5. r.acts = s
        BY <2>1
      <4>. DEFINE length == Len(r.session)
      <4>6. s \in Sessions => length <= 1
        <5>1. s \in Sessions => length = 1
          BY <4>2
        <5>. HIDE DEF length
        <5>. QED  BY <5>1
      <4>7. s = Adm!None => length <= 1
        <5>1. s = Adm!None => length \in {0, 1}
          BY <4>3
        <5>. HIDE DEF length
        <5>. QED  BY <5>1
      <4>. QED  BY <4>1, <4>2, <4>4, <4>5, <4>6, <4>7
    <3>3. r.acts = Adm!None => \/ Len(r.session) = 0
                              \/ Adm!ModeOf[r.op] \in {"csrf_issue", "anonymous_post"}
      BY <1>3, <2>1, <2>2 DEF Tolerated
    <3>4. Adm!ModeOf[r.op] \in {"session_get", "session_post"} => r.acts # Adm!None
      BY <1>5, <2>1, <2>2
    <3>. QED  BY <3>1, <3>2, <3>3, <3>4 DEF Guarded
  <2>5. Sound(r, status, time)
    BY <1>2, <2>1, <2>2, <2>4, BrowserConstants DEF Sound
  <2>6. req' \in [Tabs -> Exchanges] /\ \A u \in Tabs : Sound(req'[u], status', time')
    BY <1>1, <1>2, <2>5, OneRequest, BrowserConstants
  <2>7. BrowserInv'
    BY <1>1, <1>2, <2>6 DEF BrowserInv
  <2>8. req'[t].stage = "admitted"
    <3>1. req' = [req EXCEPT ![t] = r] /\ req \in [Tabs -> Exchanges]
      BY <1>1 DEF Adm!Step, BrowserInv
    <3>. QED  BY <2>1, <3>1
  <2>. QED  BY <2>7, <2>8 DEF Keeps
<1>. QED  BY <1>1, <1>4, <1>5 DEF AdmitsTo, Adm!Kinds

(***************************************************************************)
(* The handlers.                                                           *)
(***************************************************************************)
LEMMA FailKeeps ==
  ASSUME BrowserInv, NEW t \in Tabs, Adm!Fail(t)
  PROVE  Keeps(t)
<1>. DEFINE a == Adm!Refused("unavailable")
<1>1. /\ a \in Answers /\ a.kind = "unavailable" /\ a.csrf = Adm!NoToken /\ a.session \in {"keep", "clear"}
      /\ a.session # "clear"
  BY RefusedIs DEF Adm!Kinds
<1>2. /\ Adm!Step(t, Adm!Answered(t, a)) /\ req[t].stage # "idle"
      /\ Moves(status, status') /\ UNCHANGED <<jar, token, time>> /\ faults' \in 0..Faults
      /\ time \in 0..LastTime /\ lastSeen' \in [Sessions -> 0..LastTime]
  BY StatusStays, BrowserConstants DEF Adm!Fail, BrowserInv
<1>. HIDE DEF a
<1>3. Fits(a, status', time) /\ ClearsFor(t, a)
  BY <1>1, <1>2, TokensDiffer, BrowserConstants DEF Fits, ClearsFor
<1>4. Answering(t, a)
  BY <1>2, <1>3 DEF Answering
<1>. QED  BY <1>4, AnsweringKeeps

(* A handler answers a, and leaves the cookies, the clock and the faults. *)
LEMMA HandlerAnswers ==
  ASSUME BrowserInv, NEW t \in Tabs, NEW a,
         Adm!Step(t, Adm!Answered(t, a)), req[t].stage = "admitted",
         Moves(status, status'), UNCHANGED <<jar, token, time, faults>>,
         lastSeen' \in [Sessions -> 0..LastTime], Fits(a, status', time), ClearsFor(t, a)
  PROVE  Keeps(t)
<1>1. Answering(t, a)
  BY DEF Answering, BrowserInv
<1>. QED  BY <1>1, AnsweringKeeps

(* A refusal by a handler, and any answer that leaves the cookies alone. *)
LEMMA PlainFits ==
  ASSUME BrowserInv, NEW a \in Answers, a.csrf = Adm!NoToken, a.session = "keep",
         a.kind = "rate_limited" => Enough(a), NEW st
  PROVE  Fits(a, st, time) /\ \A t : ClearsFor(t, a)
<1>1. time \in Nat /\ Adm!NoToken.issued = 0 /\ "keep" \notin Sessions
  BY TokensDiffer, BrowserConstants DEF BrowserInv
<1>. QED  BY <1>1 DEF Fits, ClearsFor

LEMMA RefusalFits ==
  ASSUME BrowserInv, NEW k \in Adm!Kinds \ {"session_rejected", "rate_limited"}, NEW st
  PROVE  Fits(Adm!Refused(k), st, time) /\ \A t : ClearsFor(t, Adm!Refused(k))
<1>1. /\ Adm!Refused(k) \in Answers /\ Adm!Refused(k).csrf = Adm!NoToken
      /\ Adm!Refused(k).session = "keep" /\ Adm!Refused(k).kind # "rate_limited"
  BY RefusedIs
<1>. QED  BY <1>1, PlainFits

(* A session is rejected by a handler that acts with it. *)
LEMMA RejectionFits ==
  ASSUME BrowserInv, NEW t \in Tabs, NEW st,
         Len(req[t].session) = 1 => Excused(t, req[t].session[1])
  PROVE  /\ Fits(Adm!Refused("session_rejected"), st, time)
         /\ ClearsFor(t, Adm!Refused("session_rejected"))
<1>. DEFINE a == Adm!Refused("session_rejected")
<1>1. /\ a \in Answers /\ a.csrf = Adm!NoToken /\ a.session \in {"keep", "clear"}
      /\ a.kind = "session_rejected"
  BY RefusedIs DEF Adm!Kinds
<1>2. time \in Nat /\ Adm!NoToken.issued = 0 /\ a.session \notin Sessions
  BY <1>1, TokensDiffer, BrowserConstants DEF BrowserInv
<1>. HIDE DEF a
<1>. QED  BY <1>1, <1>2 DEF Fits, ClearsFor, a

(* What a handler knows of the session it acts with. *)
LEMMA ActsIs ==
  ASSUME BrowserInv, NEW t \in Tabs, req[t].stage = "admitted"
  PROVE  /\ req[t] \in Exchanges /\ req[t].op \in Used /\ Guarded(req[t])
         /\ req[t].acts \in Sessions \cup {Adm!None}
         /\ req[t].acts \in Sessions => status[req[t].acts] # "unissued"
         /\ req[t].acts \in Sessions /\ Len(req[t].session) = 1 => req[t].acts = req[t].session[1]
         /\ req[t].acts = Adm!None /\ Len(req[t].session) = 1
              => Adm!ModeOf[req[t].op] \in {"csrf_issue", "anonymous_post"}
<1>1. req[t] \in Exchanges /\ Sound(req[t], status, time)
  BY DEF BrowserInv
<1>2. req[t].op \in Used /\ Guarded(req[t]) /\ \A i \in 1..Len(req[t].session) : status[req[t].session[i]] # "unissued"
  BY <1>1 DEF Sound
<1>3. req[t].acts \in Sessions \cup {Adm!None}
  BY <1>1 DEF Exchanges
<1>4. req[t].acts \in Sessions => Len(req[t].session) = 1 /\ req[t].acts = req[t].session[1]
  BY <1>2, BrowserConstants DEF Guarded
<1>5. req[t].acts \in Sessions => status[req[t].acts] # "unissued"
  BY <1>2, <1>4
<1>6. req[t].acts = Adm!None /\ Len(req[t].session) = 1
        => Adm!ModeOf[req[t].op] \in {"csrf_issue", "anonymous_post"}
  BY <1>2 DEF Guarded
<1>. QED  BY <1>1, <1>2, <1>3, <1>4, <1>5, <1>6

LEMMA CsrfKeeps ==
  ASSUME BrowserInv, NEW t \in Tabs, Adm!Csrf(t)
  PROVE  Keeps(t)
<1>. DEFINE k == Adm!Issued(req[t].acts)
            a == Adm!Handing("ok", "keep", k, TRUE)
<1>1. /\ Adm!Step(t, Adm!Answered(t, a)) /\ req[t].stage = "admitted"
      /\ Moves(status, status') /\ UNCHANGED <<jar, token, time, faults>>
      /\ lastSeen' \in [Sessions -> 0..LastTime]
  BY StatusStays DEF Adm!Csrf, Adm!At, BrowserInv
<1>2. k \in Adm!Tokens /\ k.issued = time /\ time \in Nat
  BY <1>1, ActsIs, IssuedIsNew, BrowserConstants DEF BrowserInv
<1>. HIDE DEF k
<1>3. a \in Answers /\ a.kind = "ok" /\ a.session = "keep" /\ a.csrf = k
  <2>. DEFINE b(set) == Adm!Handing("ok", set, k, TRUE)
  <2>1. \A set \in Sessions \cup {"keep", "clear"} :
          b(set) \in Answers /\ b(set).kind = "ok" /\ b(set).session = set /\ b(set).csrf = k
    BY <1>2, HandingIs
  <2>2. "keep" \in Sessions \cup {"keep", "clear"} /\ a = b("keep")
    OBVIOUS
  <2>. HIDE DEF a, b
  <2>. QED  BY <2>1, <2>2
<1>. HIDE DEF a
<1>4. Fits(a, status', time) /\ ClearsFor(t, a)
  BY <1>2, <1>3, BrowserConstants DEF Fits, ClearsFor
<1>. QED  BY <1>1, <1>4, HandlerAnswers

LEMMA LoginKeeps ==
  ASSUME BrowserInv, NEW t \in Tabs, Adm!Login(t)
  PROVE  Keeps(t)
<1>1. req[t].stage = "admitted" /\ UNCHANGED <<jar, token, time, faults>>
  BY DEF Adm!Login, Adm!At
<1>s. lastSeen \in [Sessions -> 0..LastTime]
  BY DEF BrowserInv
<1>2. ASSUME NEW s \in Sessions, NEW read \in Adm!Readings(t), status[s] = "unissued",
             lastSeen' = [lastSeen EXCEPT ![s] = read],
             status' = [status EXCEPT ![s] = "live"],
             Adm!Step(t, Adm!Answered(t, Adm!Handing("ok", s, Adm!Issued(s), TRUE)))
      PROVE  Keeps(t)
  <2>. DEFINE k == Adm!Issued(s)
              a == Adm!Handing("ok", s, k, TRUE)
  <2>1. k \in Adm!Tokens /\ k.issued = time /\ time \in Nat
    BY IssuedIsNew, BrowserConstants DEF BrowserInv
  <2>. HIDE DEF k
  <2>2. a \in Answers /\ a.kind = "ok" /\ a.session = s /\ a.csrf = k
    BY <2>1, HandingIs
  <2>3. Adm!Step(t, Adm!Answered(t, a))
    BY <1>2 DEF k
  <2>. HIDE DEF a
  <2>4. status \in [Sessions -> Statuses]
    BY DEF BrowserInv
  <2>5. Moves(status, status') /\ status'[s] = "live"
    BY <1>2, <2>4 DEF Moves, Statuses
  <2>6. Fits(a, status', time) /\ ClearsFor(t, a)
    BY <2>1, <2>2, <2>5, BrowserConstants DEF Fits, ClearsFor
  <2>7. lastSeen' \in [Sessions -> 0..LastTime]
    BY <1>s, <1>2, ReadIs
  <2>. QED  BY <1>1, <2>3, <2>5, <2>6, <2>7, HandlerAnswers
<1>3. ASSUME NEW a, Fits(a, status, time), ClearsFor(t, a),
             Adm!Step(t, Adm!Answered(t, a)), status' = status, lastSeen' = lastSeen
      PROVE  Keeps(t)
  BY <1>s, <1>1, <1>3, StatusStays, HandlerAnswers
<1>4. /\ Fits(Adm!Refused("credentials_rejected"), status, time)
      /\ ClearsFor(t, Adm!Refused("credentials_rejected"))
  BY RefusalFits DEF Adm!Kinds
<1>5. ASSUME NEW ms \in RetryTimes
      PROVE  Fits(Adm!Limited(ms), status, time) /\ ClearsFor(t, Adm!Limited(ms))
  <2>1. ms \in Nat
    BY BrowserConstants
  <2>. QED  BY <2>1, LimitedIs, PlainFits
<1>. QED  BY <1>2, <1>3, <1>4, <1>5 DEF Adm!Login

LEMMA LogoutKeeps ==
  ASSUME BrowserInv, NEW t \in Tabs, Adm!Logout(t)
  PROVE  Keeps(t)
<1>. DEFINE k == Adm!Issued(Adm!None)
            a == Adm!Handing("ok", "clear", k, FALSE)
<1>1. /\ req[t].stage = "admitted" /\ req[t].op = "logout"
      /\ UNCHANGED <<jar, token, time, faults>> /\ lastSeen' \in [Sessions -> 0..LastTime]
  BY DEF Adm!Logout, Adm!At, BrowserInv
<1>2. CASE Adm!Step(t, Adm!Answered(t, a)) /\ status' = Adm!Ended({req[t].acts})
  <2>1. k \in Adm!Tokens /\ k.issued = time /\ time \in Nat
    BY IssuedIsNew, BrowserConstants DEF BrowserInv
  <2>. HIDE DEF k
  <2>2. a \in Answers /\ a.kind = "ok" /\ a.session = "clear" /\ a.csrf = k
    BY <2>1, HandingIs
  <2>. HIDE DEF a
  <2>3. /\ Moves(status, status')
        /\ \A s \in Sessions : s = req[t].acts /\ status[s] # "unissued" => status'[s] \in Over
    BY <1>2, EndedMoves
  <2>4. Len(req[t].session) = 1 => status'[req[t].session[1]] \in Over
    <3>1. req[t].op = "logout" => Adm!ModeOf[req[t].op] = "optional_post"
      BY DEF Adm!ModeOf
    <3>2. Len(req[t].session) = 1 => req[t].acts \in Sessions
      BY <1>1, <3>1, ActsIs
    <3>. QED  BY <1>1, <2>3, <3>2, ActsIs
  <2>5. Fits(a, status', time) /\ ClearsFor(t, a)
    BY <2>1, <2>2, <2>4, BrowserConstants DEF Fits, ClearsFor, Excused
  <2>. QED  BY <1>1, <1>2, <2>3, <2>5, HandlerAnswers
<1>3. CASE Adm!Step(t, Adm!Answered(t, Adm!Refused("invalid"))) /\ UNCHANGED status
  <2>1. Fits(Adm!Refused("invalid"), status, time) /\ ClearsFor(t, Adm!Refused("invalid"))
    BY RefusalFits DEF Adm!Kinds
  <2>. QED  BY <1>1, <1>3, <2>1, StatusStays, HandlerAnswers
<1>. QED  BY <1>2, <1>3 DEF Adm!Logout

LEMMA EndAllKeeps ==
  ASSUME BrowserInv, NEW t \in Tabs, Adm!EndAll(t)
  PROVE  Keeps(t)
<1>1. req[t].stage = "admitted" /\ UNCHANGED <<jar, token, time, faults>>
      /\ lastSeen' \in [Sessions -> 0..LastTime] /\ req[t].op \in {"logout_all", "change"}
  BY DEF Adm!EndAll, Adm!At, BrowserInv
<1>. DEFINE s == req[t].acts
            a == Adm!Handing("ok", "clear", Adm!Dropped, FALSE)
<1>s. /\ s \in Sessions /\ status[s] # "unissued"
      /\ Len(req[t].session) = 1 => s = req[t].session[1]
  <2>1. s # Adm!None
    BY <1>1, ActsIs DEF Guarded, Adm!ModeOf
  <2>. QED  BY <1>1, <2>1, ActsIs
<1>2. CASE /\ status' = Adm!Outdated(Owner[s])
           /\ Adm!Step(t, Adm!Answered(t, a))
  <2>1. a \in Answers /\ a.kind = "ok" /\ a.session = "clear" /\ a.csrf = Adm!Dropped
    BY HandingIs
  <2>2. /\ Moves(status, status')
        /\ \A q \in Sessions : Owner[q] = Owner[s] /\ status[q] # "unissued" => status'[q] \in Over
    BY <1>2, OutdatedMoves
  <2>4. Len(req[t].session) = 1 => status'[req[t].session[1]] \in Over
    BY <1>s, <2>2
  <2>. HIDE DEF a
  <2>5. Adm!Dropped.issued <= time
    BY TokensDiffer, BrowserConstants DEF BrowserInv
  <2>6. Fits(a, status', time) /\ ClearsFor(t, a)
    BY <2>1, <2>4, <2>5, BrowserConstants DEF Fits, ClearsFor, Excused
  <2>. QED  BY <1>1, <1>2, <2>2, <2>6, HandlerAnswers
<1>3. CASE Adm!Step(t, Adm!Answered(t, Adm!Refused("conflict"))) /\ UNCHANGED status
  <2>1. Fits(Adm!Refused("conflict"), status, time) /\ ClearsFor(t, Adm!Refused("conflict"))
    BY RefusalFits DEF Adm!Kinds
  <2>. QED  BY <1>1, <1>3, <2>1, StatusStays, HandlerAnswers
<1>4. CASE /\ status[s] # "live" /\ UNCHANGED status
           /\ Adm!Step(t, Adm!Answered(t, Adm!Refused("session_rejected")))
  <2>1. status[s] \in Statuses
    BY <1>s DEF BrowserInv
  <2>2. status'[s] \in Over
    BY <1>s, <1>4, <2>1 DEF Statuses
  <2>3. Len(req[t].session) = 1 => Excused(t, req[t].session[1])
    BY <1>s, <2>2 DEF Excused
  <2>4. /\ Fits(Adm!Refused("session_rejected"), status, time)
        /\ ClearsFor(t, Adm!Refused("session_rejected"))
    BY <2>3, RejectionFits
  <2>. QED  BY <1>1, <1>4, <2>4, StatusStays, HandlerAnswers
<1>. QED  BY <1>2, <1>3, <1>4 DEF Adm!EndAll

LEMMA ResetKeeps ==
  ASSUME BrowserInv, NEW t \in Tabs, Adm!Reset(t)
  PROVE  Keeps(t)
<1>1. req[t].stage = "admitted" /\ UNCHANGED <<jar, token, time, faults>> /\ req[t].op = "reset"
      /\ lastSeen' \in [Sessions -> 0..LastTime]
  BY DEF Adm!Reset, Adm!At, BrowserInv
<1>. DEFINE a == Adm!Handing("ok", "clear", Adm!NoToken, FALSE)
<1>2. ASSUME NEW p, status' = Adm!Outdated(p), Adm!Step(t, Adm!Answered(t, a))
      PROVE  Keeps(t)
  <2>1. a \in Answers /\ a.kind = "ok" /\ a.session = "clear" /\ a.csrf = Adm!NoToken
    BY HandingIs
  <2>2. Moves(status, status')
    BY <1>2, OutdatedMoves
  <2>3. Adm!NoToken.issued <= time
    BY TokensDiffer, BrowserConstants DEF BrowserInv
  <2>. HIDE DEF a
  <2>4. Fits(a, status', time) /\ ClearsFor(t, a)
    BY <1>1, <2>1, <2>3, BrowserConstants DEF Fits, ClearsFor
  <2>. QED  BY <1>1, <1>2, <2>2, <2>4, HandlerAnswers
<1>3. CASE Adm!Step(t, Adm!Answered(t, Adm!Refused("challenge_rejected"))) /\ UNCHANGED status
  <2>1. /\ Fits(Adm!Refused("challenge_rejected"), status, time)
        /\ ClearsFor(t, Adm!Refused("challenge_rejected"))
    BY RefusalFits DEF Adm!Kinds
  <2>. QED  BY <1>1, <1>3, <2>1, StatusStays, HandlerAnswers
<1>. QED  BY <1>2, <1>3 DEF Adm!Reset

(* An answer that says ok and changes no cookie. *)
LEMMA OkFits ==
  ASSUME BrowserInv, NEW st
  PROVE  LET a == [Adm!Nothing EXCEPT !.kind = "ok"] IN
         Fits(a, st, time) /\ \A t : ClearsFor(t, a)
<1>. DEFINE a == [Adm!Nothing EXCEPT !.kind = "ok"]
<1>1. a \in Answers /\ a.kind = "ok" /\ a.csrf = Adm!NoToken /\ a.session = "keep"
  BY NothingIs DEF Answers, Adm!Kinds
<1>. HIDE DEF a
<1>2. Fits(a, st, time) /\ \A t : ClearsFor(t, a)
  BY <1>1, PlainFits
<1>. QED  BY <1>2 DEF a

LEMMA TicketKeeps ==
  ASSUME BrowserInv, NEW t \in Tabs, Adm!Ticket(t)
  PROVE  Keeps(t)
<1>. DEFINE s == req[t].acts
            ok == [Adm!Nothing EXCEPT !.kind = "ok"]
<1>1. /\ req[t].stage = "admitted" /\ req[t].op = "websocket_ticket"
      /\ UNCHANGED <<jar, token, time, faults>> /\ status' = status
      /\ lastSeen' \in [Sessions -> 0..LastTime]
  BY DEF Adm!Ticket, Adm!At, BrowserInv
<1>2. PICK read \in Adm!Readings(t) :
        Adm!Step(t, Adm!Answered(t, IF Adm!Usable(s, read) THEN ok
                                    ELSE Adm!Refused("session_rejected")))
  BY DEF Adm!Ticket
<1>3. /\ s \in Sessions /\ status[s] # "unissued"
      /\ Len(req[t].session) = 1 => s = req[t].session[1]
  <2>1. s # Adm!None
    BY <1>1, ActsIs DEF Guarded, Adm!ModeOf
  <2>. QED  BY <1>1, <2>1, ActsIs
<1>. HIDE DEF s, ok
<1>4. CASE Adm!Usable(s, read)
  <2>1. Fits(ok, status', time) /\ ClearsFor(t, ok)
    BY OkFits DEF ok
  <2>. QED  BY <1>1, <1>2, <1>4, <2>1, StatusStays, HandlerAnswers
<1>5. CASE ~Adm!Usable(s, read)
  <2>1. status[s] \in Over \/ Adm!Overtaken(t, s)
    BY <1>3, <1>5, UnusableIs
  <2>2. Len(req[t].session) = 1 => Excused(t, req[t].session[1])
    BY <1>1, <1>3, <2>1 DEF Excused
  <2>3. /\ Fits(Adm!Refused("session_rejected"), status', time)
        /\ ClearsFor(t, Adm!Refused("session_rejected"))
    BY <2>2, RejectionFits
  <2>. QED  BY <1>1, <1>2, <1>5, <2>3, StatusStays, HandlerAnswers
<1>. QED  BY <1>4, <1>5

LEMMA OtherKeeps ==
  ASSUME BrowserInv, NEW t \in Tabs, Adm!Other(t)
  PROVE  Keeps(t)
<1>. DEFINE a == [Adm!Nothing EXCEPT !.kind = "ok"]
<1>1. /\ Adm!Step(t, Adm!Answered(t, a)) /\ req[t].stage = "admitted"
      /\ Moves(status, status') /\ UNCHANGED <<jar, token, time, faults>>
      /\ lastSeen' \in [Sessions -> 0..LastTime]
  BY StatusStays DEF Adm!Other, Adm!At, BrowserInv
<1>2. Fits(a, status', time) /\ ClearsFor(t, a)
  BY OkFits
<1>. HIDE DEF a
<1>. QED  BY <1>1, <1>2, HandlerAnswers

(***************************************************************************)
(* The browser, the sessions and the clock.                                *)
(***************************************************************************)
LEMMA SendKeeps ==
  ASSUME BrowserInv, NEW t \in Tabs, NEW op \in Used, Adm!Send(t, op)
  PROVE  BrowserInv'
<1>1. PICK o \in Origins, n \in Copies :
        Adm!Step(t, [Adm!Idle EXCEPT
          !.stage = "sent", !.op = op, !.origin = o, !.since = time,
          !.session = IF jar.session = Adm!None THEN <<>> ELSE [i \in 1..n |-> jar.session],
          !.csrf = IF time < jar.expires THEN jar.csrf ELSE Adm!NoToken,
          !.header = token[t]])
  BY DEF Adm!Send
<1>. DEFINE q == IF jar.session = Adm!None THEN <<>> ELSE [i \in 1..n |-> jar.session]
            c == IF time < jar.expires THEN jar.csrf ELSE Adm!NoToken
            r == [Adm!Idle EXCEPT !.stage = "sent", !.op = op, !.origin = o, !.since = time,
                                  !.session = q, !.csrf = c, !.header = token[t]]
<1>2. /\ time \in 0..LastTime /\ status' = status /\ UNCHANGED <<lastSeen, jar, token, time, faults>>
      /\ JarSound(jar, status, time) /\ Moves(status, status')
      /\ token[t] \in Adm!Tokens \cup {Adm!NoToken}
  BY StatusStays DEF Adm!Send, BrowserInv
<1>3. q \in Seq(Sessions) /\ \A i \in 1..Len(q) : status[q[i]] # "unissued"
  <2>1. jar.session \in Sessions \cup {Adm!None}
        /\ (jar.session # Adm!None => status[jar.session] # "unissued")
    BY <1>2 DEF JarSound
  <2>2. n \in Nat
    BY BrowserConstants
  <2>3. CASE jar.session = Adm!None
    BY <2>3
  <2>4. CASE jar.session # Adm!None
    <3>1. q = [i \in 1..n |-> jar.session] /\ jar.session \in Sessions
      BY <2>1, <2>4
    <3>2. q \in Seq(Sessions) /\ Len(q) = n
      BY <2>2, <3>1
    <3>. QED  BY <2>1, <2>4, <3>1, <3>2
  <2>. QED  BY <2>3, <2>4
<1>4. c \in Adm!Tokens \cup {Adm!NoToken} /\ c.issued <= time
  <2>1. /\ jar.csrf \in Adm!Tokens \cup {Adm!NoToken}
        /\ jar.csrf # Adm!NoToken => jar.csrf.issued <= time
    BY <1>2 DEF JarSound
  <2>2. Adm!NoToken.issued <= time
    BY <1>2, TokensDiffer, BrowserConstants
  <2>. QED  BY <2>1, <2>2
<1>. HIDE DEF q, c
<1>5. /\ r \in Exchanges /\ r.stage = "sent" /\ r.op = op /\ r.session = q /\ r.csrf = c
      /\ r.answer = Adm!Nothing /\ r.since = time
  BY <1>2, <1>3, <1>4, NothingIs DEF Adm!Idle, Exchanges
<1>6. Adm!Step(t, r)
  BY <1>1 DEF q, c
<1>. HIDE DEF r
<1>7. Sound(r, status', time')
  <2>1. /\ r.answer.csrf.issued <= time /\ r.answer.session \notin Sessions
        /\ r.answer.kind # "rate_limited"
    BY <1>2, <1>5, NothingIs, TokensDiffer, BrowserConstants DEF Adm!None
  <2>. QED  BY <1>2, <1>3, <1>4, <1>5, <2>1, BrowserConstants DEF Sound
<1>8. req' \in [Tabs -> Exchanges] /\ \A u \in Tabs : Sound(req'[u], status', time')
  BY <1>2, <1>6, <1>7, OneRequest, BrowserConstants
<1>. QED  BY <1>2, <1>8 DEF BrowserInv

LEMMA ReceiveKeeps ==
  ASSUME BrowserInv, NEW t \in Tabs, Adm!Receive(t)
  PROVE  BrowserInv'
<1>. DEFINE a == req[t].answer
<1>1. /\ time \in 0..LastTime /\ Moves(status, status') /\ status' = status
      /\ time' = time /\ faults' = faults /\ lastSeen' = lastSeen /\ Adm!Step(t, Adm!Idle)
      /\ req[t] \in Exchanges /\ Sound(req[t], status, time) /\ JarSound(jar, status, time)
      /\ token \in [Tabs -> Adm!Tokens \cup {Adm!NoToken}]
  BY StatusStays DEF Adm!Receive, BrowserInv
<1>2. /\ a.session \in Sessions \cup {"keep", "clear"}
      /\ a.csrf \in Adm!Tokens \cup {Adm!NoToken, Adm!Dropped}
      /\ a.token \in Adm!Tokens \cup {Adm!NoToken}
      /\ a.csrf.issued <= time
      /\ a.session \in Sessions => status[a.session] # "unissued"
  BY <1>1 DEF Exchanges, Answers, Sound
<1>3. /\ jar' = [session |-> jar'.session, csrf |-> jar'.csrf, expires |-> jar'.expires]
      /\ a.session = "keep" => jar'.session = jar.session
      /\ a.session = "clear" => jar'.session = Adm!None
      /\ a.session \notin {"keep", "clear"} => jar'.session = a.session
      /\ a.csrf = Adm!NoToken => jar'.csrf = jar.csrf /\ jar'.expires = jar.expires
      /\ a.csrf = Adm!Dropped => jar'.csrf = Adm!NoToken /\ jar'.expires = 0
      /\ a.csrf \notin {Adm!NoToken, Adm!Dropped}
           => jar'.csrf = a.csrf /\ jar'.expires = time + Adm!MaxAge
  <2>1. Adm!NoToken # Adm!Dropped
    BY TokensDiffer
  <2>. QED  BY <2>1 DEF Adm!Receive
<1>4. token' \in [Tabs -> Adm!Tokens \cup {Adm!NoToken}]
  <2>1. token' = [token EXCEPT ![t] = IF a.token = Adm!NoToken THEN token[t] ELSE a.token]
    BY DEF Adm!Receive
  <2>. QED  BY <1>1, <1>2, <2>1
<1>. HIDE DEF a
<1>5. JarSound(jar', status', time')
  <2>1. /\ jar.session \in Sessions \cup {Adm!None} /\ jar.csrf \in Adm!Tokens \cup {Adm!NoToken}
        /\ jar.expires \in 0..(LastTime + Ttl)
        /\ jar.session # Adm!None => status[jar.session] # "unissued"
        /\ jar.csrf # Adm!NoToken => jar.csrf.issued <= time
                                   /\ jar.csrf.issued + Adm!MaxAge <= jar.expires
    BY <1>1 DEF JarSound
  <2>2. /\ jar'.session \in Sessions \cup {Adm!None}
        /\ jar'.session # Adm!None => status[jar'.session] # "unissued"
    BY <1>2, <1>3, <2>1
  <2>3. /\ jar'.csrf \in Adm!Tokens \cup {Adm!NoToken} /\ jar'.expires \in 0..(LastTime + Ttl)
        /\ jar'.csrf # Adm!NoToken => jar'.csrf.issued <= time
                                    /\ jar'.csrf.issued + Adm!MaxAge <= jar'.expires
    <3>1. CASE a.csrf = Adm!NoToken
      BY <1>3, <2>1, <3>1
    <3>2. CASE a.csrf = Adm!Dropped
      BY <1>3, <3>2, BrowserConstants
    <3>3. CASE a.csrf \in Adm!Tokens
      <4>1. jar'.csrf = a.csrf /\ jar'.expires = time + Adm!MaxAge
        BY <1>3, <3>3, TokensDiffer
      <4>2. a.csrf.issued \in 0..LastTime
        BY <3>3, TokensDiffer
      <4>. QED  BY <1>1, <1>2, <3>3, <4>1, <4>2, MaxAgeIsShort, BrowserConstants
    <3>. QED  BY <1>2, <3>1, <3>2, <3>3
  <2>4. jar' \in [session : Sessions \cup {Adm!None}, csrf : Adm!Tokens \cup {Adm!NoToken},
                  expires : 0..(LastTime + Ttl)]
    BY <1>3, <2>2, <2>3
  <2>. QED  BY <1>1, <2>2, <2>3, <2>4 DEF JarSound
<1>6. Sound(Adm!Idle, status', time')
  BY <1>1, IdleIsSound, BrowserConstants
<1>7. req' \in [Tabs -> Exchanges] /\ \A u \in Tabs : Sound(req'[u], status', time')
  BY <1>1, <1>6, OneRequest, BrowserConstants
<1>. QED  BY <1>1, <1>4, <1>5, <1>7 DEF BrowserInv

LEMMA LoseKeeps ==
  ASSUME BrowserInv, NEW t \in Tabs, Adm!Lose(t)
  PROVE  BrowserInv'
<1>1. /\ time \in 0..LastTime /\ Moves(status, status') /\ status' = status
      /\ time' = time /\ faults' \in 0..Faults /\ jar' = jar /\ token' = token
      /\ lastSeen' = lastSeen
      /\ Adm!Step(t, Adm!Idle)
  BY StatusStays, BrowserConstants DEF Adm!Lose, BrowserInv
<1>2. Sound(Adm!Idle, status', time')
  BY <1>1, IdleIsSound, BrowserConstants
<1>3. req' \in [Tabs -> Exchanges] /\ \A u \in Tabs : Sound(req'[u], status', time')
  BY <1>1, <1>2, OneRequest, BrowserConstants
<1>. QED  BY <1>1, <1>3 DEF BrowserInv

(* No request changes. *)
LEMMA NoRequest ==
  ASSUME BrowserInv, UNCHANGED <<lastSeen, jar, token, req, faults>>,
         Moves(status, status'), time' \in 0..LastTime, time <= time'
  PROVE  BrowserInv'
<1>1. /\ time \in 0..LastTime /\ JarSound(jar, status, time)
      /\ \A u \in Tabs : Sound(req[u], status, time)
  BY DEF BrowserInv
<1>2. JarSound(jar', status', time')
  BY <1>1, JarStays
<1>3. \A u \in Tabs : Sound(req'[u], status', time')
  BY <1>1, SoundStays
<1>. QED  BY <1>2, <1>3 DEF BrowserInv, Moves

LEMMA HandleKeeps ==
  ASSUME BrowserInv, NEW t \in Tabs, Adm!Handle(t)
  PROVE  Keeps(t)
BY CsrfKeeps, LoginKeeps, LogoutKeeps, EndAllKeeps, ResetKeeps, TicketKeeps, OtherKeeps DEF Adm!Handle

LEMMA BrowserNext ==
  ASSUME BrowserInv, Adm!Next
  PROVE  BrowserInv'
<1>1. ASSUME NEW t \in Tabs, Adm!Handle(t)
      PROVE  Keeps(t)
  BY <1>1, HandleKeeps
<1>2. ASSUME NEW s \in Sessions, Adm!End(s)
      PROVE  BrowserInv'
  <2>1. Moves(status, status') /\ UNCHANGED <<lastSeen, jar, token, req, faults>>
    BY <1>2, EndedMoves DEF Adm!End
  <2>2. time' \in 0..LastTime /\ time <= time'
    BY <1>2, BrowserConstants DEF Adm!End, BrowserInv
  <2>. QED  BY <2>1, <2>2, NoRequest
<1>m. ASSUME NEW p, Adm!MoveOn(p)
      PROVE  BrowserInv'
  <2>1. Moves(status, status') /\ UNCHANGED <<lastSeen, jar, token, req, faults>>
    BY <1>m, OutdatedMoves DEF Adm!MoveOn
  <2>2. time' \in 0..LastTime /\ time <= time'
    BY <1>m, BrowserConstants DEF Adm!MoveOn, BrowserInv
  <2>. QED  BY <2>1, <2>2, NoRequest
<1>3. ASSUME Adm!Tick
      PROVE  BrowserInv'
  <2>1. Moves(status, status') /\ UNCHANGED <<lastSeen, jar, token, req, faults>>
    BY <1>3, StatusStays DEF Adm!Tick
  <2>2. time' \in 0..LastTime /\ time <= time'
    BY <1>3, BrowserConstants DEF Adm!Tick, BrowserInv
  <2>. QED  BY <2>1, <2>2, NoRequest
<1>4. ASSUME NEW t \in Tabs, Adm!Browse(t, Used)
      PROVE  BrowserInv'
  BY <1>1, <1>4, SendKeeps, AdmitKeeps, FailKeeps, ReceiveKeeps, LoseKeeps DEF Adm!Browse, Keeps
<1>. QED  BY <1>2, <1>m, <1>3, <1>4 DEF Adm!Next, Adm!Elsewhere

LEMMA BrowserInit == Adm!Init => BrowserInv
<1>. SUFFICES ASSUME Adm!Init
              PROVE  BrowserInv
  OBVIOUS
<1>1. /\ status \in [Sessions -> Statuses] /\ lastSeen \in [Sessions -> 0..LastTime]
      /\ time = 0 /\ faults = Faults
      /\ token = [t \in Tabs |-> Adm!NoToken] /\ req = [t \in Tabs |-> Adm!Idle]
  BY BrowserConstants DEF Adm!Init, Statuses, Over
<1>2. JarSound(jar, status, time)
  <2>1. PICK s \in Sessions \cup {Adm!None} :
          /\ s # Adm!None => status[s] = "ended"
          /\ jar = [session |-> s, csrf |-> Adm!NoToken, expires |-> 0]
    BY DEF Adm!Init
  <2>2. 0 \in 0..(LastTime + Ttl)
    BY BrowserConstants
  <2>. QED  BY <2>1, <2>2 DEF JarSound
<1>3. req \in [Tabs -> Exchanges] /\ \A t \in Tabs : Sound(req[t], status, time)
  BY <1>1, IdleIs, IdleIsSound
<1>4. time \in 0..LastTime /\ faults \in 0..Faults
  BY <1>1, BrowserConstants
<1>. QED  BY <1>1, <1>2, <1>3, <1>4 DEF BrowserInv

LEMMA BrowserInvariant == ServicesSpec => []BrowserInv
<1>1. ServicesInit => BrowserInv
  BY BrowserInit DEF ServicesInit
<1>2. BrowserInv /\ [ServicesNext]_services => BrowserInv'
  <2>. SUFFICES ASSUME BrowserInv, [ServicesNext]_services
                PROVE  BrowserInv'
    OBVIOUS
  <2>1. Adm!Next \/ UNCHANGED browser
    BY DEF ServicesNext, services, SourcesStep, MigrationsStep, LineageStep, OutboundStep,
       SocketsStep, BrowserStep, LimiterStep
  <2>2. CASE UNCHANGED browser
    BY <2>2 DEF browser, BrowserInv
  <2>. QED  BY <2>1, <2>2, BrowserNext
<1>. QED  BY <1>1, <1>2, PTL DEF ServicesSpec

(* An answer is given by the admission, by a failure or by a handler. *)
LEMMA WhoAnswers ==
  ASSUME BrowserInv, Adm!Next, NEW t \in Tabs,
         req[t].stage \in {"sent", "admitted"}, req'[t].stage = "answered"
  PROVE  Adm!Admit(t) \/ Adm!Fail(t) \/ Adm!Handle(t)
<1>1. req \in [Tabs -> Exchanges]
  BY DEF BrowserInv
<1>2. ASSUME NEW u \in Tabs, NEW r, Adm!Step(u, r), u # t
      PROVE  FALSE
  <2>1. req'[t] = req[t]
    BY <1>1, <1>2 DEF Adm!Step
  <2>. QED  BY <2>1
<1>3. ASSUME NEW u \in Tabs, Adm!Handle(u)
      PROVE  u = t
  <2>1. \E r : Adm!Step(u, r)
    BY <1>3 DEF Adm!Handle, Adm!Csrf, Adm!Login, Adm!Logout, Adm!EndAll, Adm!Reset, Adm!Ticket, Adm!Other
  <2>. QED  BY <1>2, <2>1
<1>4. ASSUME NEW u \in Tabs, NEW op \in Used, Adm!Send(u, op)
      PROVE  FALSE
  <2>1. req[u].stage = "idle" /\ \E r : Adm!Step(u, r)
    BY <1>4 DEF Adm!Send
  <2>. QED  BY <1>2, <2>1
<1>5. ASSUME NEW u \in Tabs, Adm!Receive(u) \/ Adm!Lose(u)
      PROVE  FALSE
  <2>1. Adm!Step(u, Adm!Idle)
    BY <1>5 DEF Adm!Receive, Adm!Lose
  <2>2. u = t
    BY <1>2, <2>1
  <2>3. req'[t] = Adm!Idle
    BY <1>1, <2>1, <2>2 DEF Adm!Step
  <2>. QED  BY <2>3, IdleIs
<1>6. ASSUME NEW u \in Tabs, Adm!Fail(u)
      PROVE  u = t
  <2>1. \E r : Adm!Step(u, r)
    BY <1>6 DEF Adm!Fail
  <2>. QED  BY <1>2, <2>1
<1>7. ~(\E u \in Sessions : Adm!End(u)) /\ ~Adm!Tick /\ ~(\E p : Adm!MoveOn(p))
  BY DEF Adm!End, Adm!Tick, Adm!MoveOn
<1>8. \A u \in Tabs : Adm!Admit(u) => u = t
  BY <1>2, AdmitIs
<1>9. \E u \in Tabs : Adm!Browse(u, Used)
  BY <1>7 DEF Adm!Next, Adm!Elsewhere
<1>. QED  BY <1>3, <1>4, <1>5, <1>6, <1>8, <1>9 DEF Adm!Browse

(* A cookie is cleared for a session that is over, or by a request that    *)
(* another one overtook.                                                   *)
LEMMA ClearingHasAReason ==
  ASSUME BrowserInv, Adm!Next, NEW t \in Tabs,
         req[t].stage \in {"sent", "admitted"}, req'[t].stage = "answered",
         req'[t].answer.session = "clear", Len(req[t].session) = 1, req[t].op # "reset"
  PROVE  Excused(t, req[t].session[1])
<1>1. Keeps(t)
  BY WhoAnswers, AdmitKeeps, FailKeeps, HandleKeeps
<1>. QED  BY <1>1 DEF Keeps, ClearsFor

(* Only admission refuses a token, and only for these reasons. *)
LEMMA RefusalHasAReason ==
  ASSUME BrowserInv, Adm!Next, NEW t \in Tabs,
         req[t].stage = "sent", req'[t].stage = "answered", req'[t].answer.kind = "csrf_rejected",
         req[t].csrf # Adm!NoToken, req[t].header = req[t].csrf,
         NEW k, k = req[t].csrf
  PROVE  \/ time - k.issued > Ttl
         \/ k.binding # Adm!Anonymous /\ status[k.binding] \in Over
         \/ k.binding # Adm!Anonymous /\ req[t].session # <<k.binding>>
         \/ k.binding # Adm!Anonymous /\ Adm!Overtaken(t, k.binding)
         \/ k.binding = Adm!Anonymous /\ req[t].session # <<>> /\ status[req[t].session[1]] = "live"
<1>1. /\ req \in [Tabs -> Exchanges] /\ time \in 0..LastTime
      /\ req[t] \in Exchanges /\ Sound(req[t], status, time)
  BY DEF BrowserInv
<1>2. Adm!Admit(t)
  <2>1. ~Adm!Handle(t)
    BY DEF Adm!Handle, Adm!Csrf, Adm!Login, Adm!Logout, Adm!EndAll, Adm!Reset, Adm!Ticket, Adm!Other, Adm!At
  <2>2. ASSUME Adm!Fail(t)
        PROVE  FALSE
    <3>. DEFINE a == Adm!Refused("unavailable")
    <3>1. Adm!Step(t, Adm!Answered(t, a))
      BY <2>2 DEF Adm!Fail
    <3>2. req'[t] = Adm!Answered(t, a)
      BY <1>1, <3>1 DEF Adm!Step
    <3>3. a.kind = "unavailable"
      BY RefusedIs DEF Adm!Kinds
    <3>. HIDE DEF a
    <3>. QED  BY <3>2, <3>3, AnsweredIs
  <2>. QED  BY <2>1, <2>2, WhoAnswers
<1>r. PICK read \in Adm!Readings(t) : \E r : LET s == Adm!Presented(t, read) IN
        Adm!Step(t, r) /\ AdmitsTo(t, s, r)
  BY <1>2, AdmitIs
<1>. DEFINE s == Adm!Presented(t, read)
            q == req[t].session
<1>3. ~Adm!CsrfOk(t, s) /\ s # "rejected"
  <2>1. PICK r : Adm!Step(t, r) /\ AdmitsTo(t, s, r)
    BY <1>r
  <2>2. req'[t] = r
    BY <1>1, <2>1 DEF Adm!Step
  <2>3. \A kind \in Adm!Kinds : r = Adm!Answered(t, Adm!Refused(kind)) => kind = "csrf_rejected"
    BY <2>2, AnsweredIs, RefusedIs
  <2>4. r # [req[t] EXCEPT !.stage = "admitted", !.acts = s, !.since = time]
    BY <1>1, <2>2 DEF Exchanges
  <2>. HIDE DEF s
  <2>5. r # Adm!Answered(t, Adm!Refused("session_rejected"))
        /\ r # Adm!Answered(t, Adm!Refused("origin_rejected"))
    BY <2>3 DEF Adm!Kinds
  <2>. QED  BY <2>1, <2>4, <2>5 DEF AdmitsTo
<1>4. /\ s \in Sessions \cup {Adm!None}
      /\ s \in Sessions => Len(q) = 1 /\ s = q[1] /\ status[s] = "live"
      /\ s = Adm!None => \/ Len(q) = 0
                         \/ Len(q) = 1 /\ (status[q[1]] \in Over \/ Adm!Overtaken(t, q[1]))
  BY <1>3, PresentedIs
<1>5. /\ k \in Adm!Tokens /\ k.issued <= time
      /\ k.issued \in 0..LastTime /\ k.binding \in Sessions \cup {Adm!Anonymous}
  BY <1>1, TokensDiffer DEF Exchanges, Sound
<1>6. time - k.issued > Ttl \/ k.binding # Adm!Binding(s)
  <2>1. ~(k.issued <= time /\ time - k.issued <= Ttl /\ k.binding = Adm!Binding(s))
    <3>. HIDE DEF s
    <3>. QED  BY <1>3 DEF Adm!CsrfOk
  <2>. QED  BY <1>1, <1>5, <2>1, BrowserConstants
<1>7. Adm!None \notin Sessions /\ Adm!Anonymous \notin Sessions
  BY BrowserConstants
<1>. HIDE DEF s
<1>8. ASSUME k.binding # Adm!Binding(s), k.binding = Adm!Anonymous
      PROVE  q # <<>> /\ status[q[1]] = "live"
  <2>1. s \in Sessions
    BY <1>4, <1>8 DEF Adm!Binding
  <2>. QED  BY <1>4, <2>1
<1>9. ASSUME k.binding # Adm!Binding(s), k.binding # Adm!Anonymous, q = <<k.binding>>
      PROVE  status[k.binding] \in Over \/ Adm!Overtaken(t, k.binding)
  <2>1. Len(q) = 1 /\ q[1] = k.binding
    BY <1>9
  <2>2. s = Adm!None
    BY <1>4, <1>7, <1>9, <2>1 DEF Adm!Binding
  <2>. QED  BY <1>4, <2>1, <2>2
<1>. QED  BY <1>6, <1>8, <1>9

(***************************************************************************)
(* A POST that reaches a handler comes from an allowed page with a token   *)
(* of the session it acts with; a token is refused only for a reason that  *)
(* the page can know; a session whose cookie is cleared is over; and the   *)
(* cookie and Retry-After last as long as the server meant (admit,         *)
(* csrf_valid, known, cookie).                                             *)
(***************************************************************************)
THEOREM BrowserStaysGuarded == ServicesSpec => BrowserIsGuarded
<1>1. BrowserInv => /\ Adm!TypeOK /\ Adm!PostIsGuarded
                    /\ Adm!CookieLastsAsLongAsToken /\ Adm!RetryAfterIsEnough
  <2>. SUFFICES ASSUME BrowserInv
                PROVE  /\ Adm!TypeOK /\ Adm!PostIsGuarded
                       /\ Adm!CookieLastsAsLongAsToken /\ Adm!RetryAfterIsEnough
    OBVIOUS
  <2>1. \A t \in Tabs : req[t] \in Exchanges /\ Sound(req[t], status, time)
    BY DEF BrowserInv
  <2>2. JarSound(jar, status, time)
    BY DEF BrowserInv
  <2>3. Adm!TypeOK
    <3>1. ASSUME NEW t \in Tabs
          PROVE  /\ req[t].stage \in {"idle", "sent", "admitted", "answered"}
                 /\ req[t].op \in Used \cup {Adm!None} /\ req[t].acts \in Sessions \cup {Adm!None}
                 /\ req[t].answer \in Answers /\ req[t].since \in 0..time
      BY <2>1, BrowserConstants DEF Exchanges, Sound, BrowserInv
    <3>2. \A t \in Tabs : /\ req[t].answer.kind \in Adm!Kinds
                          /\ req[t].answer.session \in Sessions \cup {"keep", "clear"}
                          /\ req[t].answer.token \in Adm!Tokens \cup {Adm!NoToken}
      BY <3>1 DEF Answers
    <3>3. /\ jar.session \in Sessions \cup {Adm!None} /\ jar.csrf \in Adm!Tokens \cup {Adm!NoToken}
          /\ jar.expires \in 0..(LastTime + Ttl)
      BY <2>2 DEF JarSound
    <3>. QED  BY <3>1, <3>2, <3>3 DEF Adm!TypeOK, BrowserInv, Statuses, Over
  <2>4. Adm!PostIsGuarded
    <3>1. \A t \in Tabs : req[t].stage = "admitted" => Guarded(req[t])
      BY <2>1 DEF Sound
    <3>. QED  BY <3>1 DEF Adm!PostIsGuarded, Guarded, Adm!Binding
  <2>6. Adm!CookieLastsAsLongAsToken
    <3>. SUFFICES ASSUME jar.csrf # Adm!NoToken, time - jar.csrf.issued < Adm!MaxAge
                  PROVE  time < jar.expires
      BY DEF Adm!CookieLastsAsLongAsToken
    <3>1. /\ jar.csrf.issued \in Nat /\ jar.csrf.issued + Adm!MaxAge <= jar.expires
          /\ jar.expires \in Nat /\ time \in Nat
      BY <2>2, TokensDiffer, BrowserConstants DEF JarSound, BrowserInv
    <3>. QED  BY <3>1, MaxAgeIsShort
  <2>7. Adm!RetryAfterIsEnough
    <3>1. \A t \in Tabs : req[t].answer.kind = "rate_limited" => Enough(req[t].answer)
      BY <2>1 DEF Sound
    <3>. QED  BY <3>1 DEF Enough, Adm!RetryAfterIsEnough
  <2>. QED  BY <2>3, <2>4, <2>6, <2>7
<1>2. ASSUME BrowserInv, [ServicesNext]_services, browser' # browser, NEW t \in Tabs,
             req[t].stage = "sent" /\ req'[t].stage = "answered"
               /\ req'[t].answer.kind = "csrf_rejected"
               /\ req[t].csrf # Adm!NoToken /\ req[t].header = req[t].csrf
      PROVE  LET k == req[t].csrf IN
             \/ time - k.issued > Ttl
             \/ k.binding # Adm!Anonymous /\ status[k.binding] \in {"ended", "outdated"}
             \/ k.binding # Adm!Anonymous /\ req[t].session # <<k.binding>>
             \/ k.binding # Adm!Anonymous /\ Adm!Overtaken(t, k.binding)
             \/ k.binding = Adm!Anonymous /\ req[t].session # <<>>
                  /\ status[req[t].session[1]] = "live"
  <2>1. Adm!Next
    BY <1>2 DEF ServicesNext, services, SourcesStep, MigrationsStep, LineageStep, OutboundStep,
       SocketsStep, BrowserStep, LimiterStep
  <2>. QED  BY <1>2, <2>1, RefusalHasAReason DEF Over
<1>3. BrowserInv /\ [ServicesNext]_services
        => [\A t \in Tabs :
              req[t].stage = "sent" /\ req'[t].stage = "answered"
                /\ req'[t].answer.kind = "csrf_rejected"
                /\ req[t].csrf # Adm!NoToken /\ req[t].header = req[t].csrf
              => LET k == req[t].csrf IN
                 \/ time - k.issued > Ttl
                 \/ k.binding # Adm!Anonymous /\ status[k.binding] \in {"ended", "outdated"}
                 \/ k.binding # Adm!Anonymous /\ req[t].session # <<k.binding>>
                 \/ k.binding # Adm!Anonymous /\ Adm!Overtaken(t, k.binding)
                 \/ k.binding = Adm!Anonymous /\ req[t].session # <<>>
                      /\ status[req[t].session[1]] = "live"]_Adm!vars
  BY <1>2 DEF Adm!vars, browser
<1>4. ASSUME BrowserInv, [ServicesNext]_services, browser' # browser, NEW t \in Tabs,
             req[t].stage \in {"sent", "admitted"}, req'[t].stage = "answered",
             req'[t].answer.session = "clear", Len(req[t].session) = 1, req[t].op # "reset"
      PROVE  \/ status'[req[t].session[1]] \in {"ended", "outdated"}
             \/ Adm!Overtaken(t, req[t].session[1])
  <2>1. Adm!Next
    BY <1>4 DEF ServicesNext, services, SourcesStep, MigrationsStep, LineageStep, OutboundStep,
       SocketsStep, BrowserStep, LimiterStep
  <2>. QED  BY <1>4, <2>1, ClearingHasAReason DEF Excused, Over
<1>5. BrowserInv /\ [ServicesNext]_services
        => [\A t \in Tabs : LET s == req[t].session[1] IN
              req[t].stage \in {"sent", "admitted"} /\ req'[t].stage = "answered"
                /\ req'[t].answer.session = "clear" /\ Len(req[t].session) = 1
                /\ req[t].op # "reset"
              => status'[s] \in {"ended", "outdated"} \/ Adm!Overtaken(t, s)]_Adm!vars
  BY <1>4 DEF Adm!vars, browser
<1>. QED
  BY <1>1, <1>3, <1>5, BrowserInvariant, PTL
  DEF ServicesSpec, BrowserIsGuarded, Adm!RefusalIsExplained, Adm!ClearedSessionIsOver
-----------------------------------------------------------------------------
(***************************************************************************)
(* The attempt limiters.  A clock that reads a window is at most this far  *)
(* ahead.                                                                  *)
(***************************************************************************)
Lead == IF adapter = "local" THEN 0 ELSE MaxSkew

Windows == [Keys -> [end : Nat, count : 0..MaxCount]]

LimiterTyped ==
  /\ adapter \in {"local", "redis"} /\ clock \in Nat
  /\ window \in Windows
  /\ asked \in [Requests -> [buckets : Attempts \cup {<<>>}, now : Nat, at : Nat]]
  /\ answer.retry \in Nat
  /\ permits \in [Keys -> Seq(Nat)]
StoreIsBounded == Cardinality(Lim!Stored(window)) <= MaxKeys
ReadingsAreRecent ==
  \A r \in Requests : asked[r] # Lim!NotAsked =>
    /\ asked[r].buckets \in Attempts
    /\ asked[r].at <= clock /\ clock <= asked[r].at + MaxDelay
    /\ asked[r].at <= asked[r].now /\ asked[r].now <= asked[r].at + Lead

(* The last window of a subject or source opened at t, when it had h       *)
(* permits: it has at most n since, and those but the last n of the others *)
(* are older than t by the span.  While it is stored it ends no earlier    *)
(* than its clock said and has counted its permits; once it is gone, the   *)
(* span since t has passed.                                                *)
LastWindow(S, w, upto, n, d, h, t) ==
  /\ h <= Len(S) /\ t <= upto /\ Len(S) - h <= n
  /\ \A i \in 1..h : S[i] <= t
  /\ \A i \in 1..(h - n) : S[i] <= t - d
  /\ IF w # Lim!NoWindow THEN /\ w.end >= t + Window - MaxDelay
                              /\ Len(S) - h <= w.count
                         ELSE Len(S) > 0 => t <= upto - d
Spaced(S, n, d) == \A i \in 1..(Len(S) - 2 * n) : S[i + 2 * n] - S[i] >= d
Bounded(S, w, upto, n, d) ==
  /\ \A i \in 1..Len(S) : S[i] <= upto
  /\ Spaced(S, n, d)
  /\ \E h \in Nat, t \in Nat : LastWindow(S, w, upto, n, d, h, t)
WindowsBound ==
  \A k \in Keys : \A n \in 1..MaxCount :
    Lim!Limits(k, n) => Bounded(permits[k], window[k], clock, n, Lim!Span)
LimiterInv == LimiterTyped /\ StoreIsBounded /\ ReadingsAreRecent /\ WindowsBound
-----------------------------------------------------------------------------
(* What an attempt at now makes of the window of one subject or source:    *)
(* another's leaves it or evicts it, its own counts in it, and opens a new *)
(* one if it has lapsed.                                                   *)
Buckets == [key : Keys, attempts : 1..(MaxCount - 1)]
Accs    == [w : Windows, retry : Int, full : BOOLEAN]

LeftAlone(w, g, at) == g = w \/ (w.end <= at /\ g = Lim!NoWindow)
CountedIn(w, g, at) ==
  IF w.end > at THEN g.end = w.end /\ g.count >= w.count /\ (g.count > w.count \/ g.count = MaxCount)
                ELSE g.end = at + Window /\ g.count >= 1

(* One bucket b is counted.                                                *)
OneCounted(acc, g, b, at) ==
  /\ g \in Accs /\ ~g.full
  /\ \A k \in Keys \ {b.key} : LeftAlone(acc.w[k], g.w[k], at)
  /\ CountedIn(acc.w[b.key], g.w[b.key], at)
  /\ g.retry >= acc.retry
  /\ IF g.w[b.key].count > b.attempts THEN g.retry >= g.w[b.key].end - at ELSE g.retry = acc.retry

LEMMA LimiterConstants ==
  /\ IsFiniteSet(Keys) /\ MaxCount \in Nat /\ Window \in Nat \ {0} /\ MaxKeys \in Nat \ {0}
  /\ Attempts \subseteq Seq(Buckets) /\ \A a \in Attempts : Len(a) \in 1..2
  /\ MaxSkew \in Nat /\ Skew \in [Requests -> 0..MaxSkew]
  /\ MaxDelay \in Nat /\ MaxLog \in Nat \ {0}
<1>1. \A S : Lim!IsFiniteSet(S) <=> IsFiniteSet(S)
  BY DEF Lim!IsFiniteSet, IsFiniteSet
<1>. QED  BY <1>1, ServicesAssumption DEF Lim!LimiterAssumption, Buckets

LEMMA LimiterCounts == \A S : Lim!Cardinality(S) = Cardinality(S)
BY DEF Lim!Cardinality, Cardinality

LEMMA StoreFacts ==
  ASSUME NEW w \in Windows, NEW at \in Nat
  PROVE  /\ Lim!Stored(w) \subseteq Keys /\ IsFiniteSet(Lim!Stored(w))
         /\ Cardinality(Lim!Stored(w)) \in Nat
         /\ Lim!Live(w, at) \subseteq Lim!Stored(w)
         /\ Lim!Evicted(w, at) \in Windows
         /\ Lim!Stored(Lim!Evicted(w, at)) = Lim!Live(w, at)
         /\ \A k \in Keys : LeftAlone(w[k], Lim!Evicted(w, at)[k], at)
         /\ IsFiniteSet(Lim!Live(w, at))
         /\ Cardinality(Lim!Live(w, at)) \in Nat
         /\ Cardinality(Lim!Live(w, at)) <= Cardinality(Lim!Stored(w))
<1>1. \A k \in Keys : w[k].end \in Nat /\ w[k] \in [end : Nat, count : 0..MaxCount]
  BY DEF Windows
<1>2. Lim!NoWindow \in [end : Nat, count : 0..MaxCount] /\ Lim!NoWindow.end = 0
  BY LimiterConstants DEF Lim!NoWindow
<1>3. /\ Lim!Stored(w) \subseteq Keys /\ Lim!Live(w, at) \subseteq Lim!Stored(w)
  BY <1>1, <1>2 DEF Lim!Stored, Lim!Live
<1>4. Lim!Evicted(w, at) \in Windows
  BY <1>1, <1>2 DEF Lim!Evicted, Windows
<1>5. Lim!Stored(Lim!Evicted(w, at)) = Lim!Live(w, at)
  BY <1>1, <1>2, <1>3 DEF Lim!Evicted, Lim!Stored, Lim!Live
<1>6. \A k \in Keys : LeftAlone(w[k], Lim!Evicted(w, at)[k], at)
  BY <1>1 DEF Lim!Evicted, Lim!Live, LeftAlone
<1>7. /\ IsFiniteSet(Lim!Stored(w)) /\ Cardinality(Lim!Stored(w)) \in Nat
      /\ IsFiniteSet(Lim!Live(w, at)) /\ Cardinality(Lim!Live(w, at)) \in Nat
      /\ Cardinality(Lim!Live(w, at)) <= Cardinality(Lim!Stored(w))
  BY <1>3, LimiterConstants, FS_Subset, FS_CardinalityType
<1>. QED  BY <1>3, <1>4, <1>5, <1>6, <1>7

(* Counting in one bucket, whichever store it is.                          *)
LEMMA BucketIsCounted ==
  ASSUME NEW acc \in Accs, ~acc.full, NEW b \in Buckets, NEW at \in Nat
  PROVE  LET g == Lim!Counted(acc, b, at)
         IN  /\ OneCounted(acc, g, b, at)
             /\ \A k \in Keys \ {b.key} : g.w[k] = acc.w[k]
             /\ Lim!Stored(g.w) \subseteq Lim!Stored(acc.w) \cup {b.key}
<1>. DEFINE g == Lim!Counted(acc, b, at)
            old == IF acc.w[b.key].end > at THEN acc.w[b.key]
                                            ELSE [end |-> at + Window, count |-> 0]
            new == [old EXCEPT !.count = IF @ < MaxCount THEN @ + 1 ELSE @]
            retry == IF new.count > b.attempts THEN Lim!Greater(acc.retry, new.end - at)
                                               ELSE acc.retry
<1>1. g = [acc EXCEPT !.w[b.key] = new, !.retry = retry]
  BY DEF Lim!Counted
<1>2. /\ acc.w \in Windows /\ acc.retry \in Int /\ acc.full = FALSE /\ b.key \in Keys
      /\ acc = [w |-> acc.w, retry |-> acc.retry, full |-> FALSE]
      /\ b.attempts \in 1..(MaxCount - 1) /\ MaxCount \in Nat /\ Window \in Nat
  BY LimiterConstants DEF Accs, Buckets
<1>3. acc.w[b.key] \in [end : Nat, count : 0..MaxCount]
  BY <1>2 DEF Windows
<1>4. old \in [end : Nat, count : 0..MaxCount]
  BY <1>2, <1>3
<1>5. new = [end |-> old.end, count |-> IF old.count < MaxCount THEN old.count + 1 ELSE old.count]
  BY <1>4
<1>6. new \in [end : Nat, count : 0..MaxCount] /\ CountedIn(acc.w[b.key], new, at)
  <2>1. MaxCount >= 2
    BY <1>2
  <2>2. CASE acc.w[b.key].end > at
    BY <1>2, <1>3, <1>4, <1>5, <2>1, <2>2 DEF CountedIn
  <2>3. CASE ~(acc.w[b.key].end > at)
    BY <1>2, <1>3, <1>4, <1>5, <2>1, <2>3 DEF CountedIn
  <2>. QED  BY <2>2, <2>3
<1>. HIDE DEF old, new
<1>7. /\ retry \in Int /\ retry >= acc.retry
      /\ IF new.count > b.attempts THEN retry >= new.end - at ELSE retry = acc.retry
  BY <1>2, <1>6 DEF Lim!Greater
<1>. HIDE DEF retry
<1>8. g = [w |-> [acc.w EXCEPT ![b.key] = new], retry |-> retry, full |-> FALSE]
  BY <1>1, <1>2
<1>9. g.w \in Windows /\ g.w[b.key] = new /\ \A k \in Keys \ {b.key} : g.w[k] = acc.w[k]
  BY <1>2, <1>6, <1>8 DEF Windows
<1>10. g \in Accs /\ ~g.full /\ g.retry = retry
  BY <1>7, <1>8, <1>9 DEF Accs
<1>. HIDE DEF g
<1>11. OneCounted(acc, g, b, at)
  BY <1>6, <1>7, <1>9, <1>10 DEF OneCounted, LeftAlone
<1>12. Lim!Stored(g.w) \subseteq Lim!Stored(acc.w) \cup {b.key}
  BY <1>9 DEF Lim!Stored
<1>. QED  BY <1>9, <1>11, <1>12 DEF g

(* Steps of one window follow on each other.                               *)
LEMMA WindowSteps ==
  ASSUME NEW w \in [end : Nat, count : 0..MaxCount], NEW x \in [end : Nat, count : 0..MaxCount],
         NEW y \in [end : Nat, count : 0..MaxCount], NEW at \in Nat
  PROVE  /\ LeftAlone(w, x, at) /\ LeftAlone(x, y, at) => LeftAlone(w, y, at)
         /\ LeftAlone(w, x, at) /\ CountedIn(x, y, at) => CountedIn(w, y, at)
         /\ CountedIn(w, x, at) /\ LeftAlone(x, y, at) => y = x
         /\ CountedIn(w, x, at) /\ CountedIn(x, y, at) => CountedIn(w, y, at) /\ y.end = x.end
         /\ CountedIn(w, x, at) => x.end > at
<1>1. Lim!NoWindow.end = 0 /\ Window \in Nat \ {0} /\ MaxCount \in Nat
  BY LimiterConstants DEF Lim!NoWindow
<1>2. /\ w.end \in Nat /\ x.end \in Nat /\ y.end \in Nat
      /\ w.count \in 0..MaxCount /\ x.count \in 0..MaxCount /\ y.count \in 0..MaxCount
  OBVIOUS
<1>3. LeftAlone(w, x, at) /\ LeftAlone(x, y, at) => LeftAlone(w, y, at)
  BY DEF LeftAlone
<1>4. LeftAlone(w, x, at) /\ CountedIn(x, y, at) => CountedIn(w, y, at)
  <2>1. CASE x = w
    BY <2>1
  <2>2. CASE w.end <= at /\ x = Lim!NoWindow
    BY <1>1, <1>2, <2>2 DEF CountedIn
  <2>. QED  BY <2>1, <2>2 DEF LeftAlone
<1>5. CountedIn(w, x, at) => x.end > at
  BY <1>1, <1>2 DEF CountedIn
<1>6. CountedIn(w, x, at) /\ LeftAlone(x, y, at) => y = x
  BY <1>2, <1>5 DEF LeftAlone
<1>7. CountedIn(w, x, at) /\ CountedIn(x, y, at) => CountedIn(w, y, at) /\ y.end = x.end
  <2>. SUFFICES ASSUME CountedIn(w, x, at), CountedIn(x, y, at)
                PROVE  CountedIn(w, y, at) /\ y.end = x.end
    OBVIOUS
  <2>1. y.end = x.end /\ y.count >= x.count /\ (y.count > x.count \/ y.count = MaxCount)
    BY <1>5 DEF CountedIn
  <2>2. CASE w.end > at
    BY <1>1, <1>2, <2>1, <2>2 DEF CountedIn
  <2>3. CASE ~(w.end > at)
    BY <1>1, <1>2, <2>1, <2>3 DEF CountedIn
  <2>. QED  BY <2>1, <2>2, <2>3
<1>. QED  BY <1>3, <1>4, <1>5, <1>6, <1>7

LEMMA AttemptBuckets ==
  ASSUME NEW buckets \in Attempts
  PROVE  /\ Len(buckets) \in 1..2
         /\ \A i \in 1..Len(buckets) : /\ buckets[i] \in Buckets /\ buckets[i].key \in Keys
                                       /\ buckets[i].attempts \in 1..(MaxCount - 1)
                                       /\ buckets[i].attempts \in Nat
         /\ Lim!KeysOf(buckets) \subseteq Keys
<1>1. Len(buckets) \in 1..2 /\ buckets \in Seq(Buckets)
  BY LimiterConstants
<1>2. \A i \in 1..Len(buckets) : buckets[i] \in Buckets
  BY <1>1
<1>3. \A b \in Buckets : b.key \in Keys /\ b.attempts \in 1..(MaxCount - 1) /\ b.attempts \in Nat
  BY LimiterConstants DEF Buckets
<1>. QED  BY <1>1, <1>2, <1>3 DEF Lim!KeysOf

(* What an attempt that is not turned away has done.                       *)
AllCounted(w, buckets, at, got) ==
  LET g(i) == got.w[buckets[i].key]
  IN  /\ \A k \in Keys \ Lim!KeysOf(buckets) : LeftAlone(w[k], got.w[k], at)
      /\ \A i \in 1..Len(buckets) : CountedIn(w[buckets[i].key], g(i), at)
      /\ got.retry = -1 => \A i \in 1..Len(buckets) : \E j \in 1..Len(buckets) :
                              buckets[j].key = buckets[i].key /\ g(i).count <= buckets[j].attempts
      /\ got.retry # -1 => \A i \in 1..Len(buckets) :
                              g(i).count > buckets[i].attempts => g(i).end - at <= got.retry

LEMMA OneBucket ==
  ASSUME NEW w \in Windows, NEW buckets \in Attempts, Len(buckets) = 1, NEW at \in Nat,
         NEW acc \in Accs, acc.retry = -1, \A k \in Keys : LeftAlone(w[k], acc.w[k], at),
         NEW got, OneCounted(acc, got, buckets[1], at)
  PROVE  AllCounted(w, buckets, at, got)
<1>. DEFINE b == buckets[1]
<1>1. b \in Buckets /\ b.key \in Keys /\ b.attempts \in Nat /\ 1..Len(buckets) = {1}
  BY AttemptBuckets
<1>2. Lim!KeysOf(buckets) = {b.key}
  BY <1>1 DEF Lim!KeysOf
<1>3. /\ \A k \in Keys : w[k] \in [end : Nat, count : 0..MaxCount]
      /\ \A k \in Keys : acc.w[k] \in [end : Nat, count : 0..MaxCount]
      /\ \A k \in Keys : got.w[k] \in [end : Nat, count : 0..MaxCount]
      /\ got.retry \in Int
  BY DEF Windows, Accs, OneCounted
<1>4. \A k \in Keys \ {b.key} : LeftAlone(w[k], got.w[k], at)
  BY <1>3, WindowSteps DEF OneCounted
<1>5. CountedIn(w[b.key], got.w[b.key], at) /\ got.w[b.key].end > at
  <2>1. LeftAlone(w[b.key], acc.w[b.key], at) /\ CountedIn(acc.w[b.key], got.w[b.key], at)
    BY <1>1 DEF OneCounted
  <2>2. CountedIn(w[b.key], got.w[b.key], at)
    BY <1>1, <1>3, <2>1, WindowSteps
  <2>. QED  BY <1>1, <1>3, <2>2, WindowSteps
<1>6. IF got.w[b.key].count > b.attempts THEN got.retry >= got.w[b.key].end - at ELSE got.retry = -1
  BY DEF OneCounted
<1>7. got.w[b.key].end \in Nat /\ got.w[b.key].count \in Nat /\ b.attempts \in Nat
  BY <1>1, <1>3, LimiterConstants
<1>8. got.retry = -1 => got.w[b.key].count <= b.attempts
  BY <1>3, <1>5, <1>6, <1>7
<1>9. got.w[b.key].count > b.attempts => got.w[b.key].end - at <= got.retry
  BY <1>3, <1>6, <1>7
<1>. QED  BY <1>1, <1>2, <1>4, <1>5, <1>8, <1>9 DEF AllCounted

LEMMA TwoBuckets ==
  ASSUME NEW w \in Windows, NEW buckets \in Attempts, Len(buckets) = 2, NEW at \in Nat,
         NEW acc \in Accs, acc.retry = -1, \A k \in Keys : LeftAlone(w[k], acc.w[k], at),
         NEW first, OneCounted(acc, first, buckets[1], at),
         NEW got, OneCounted(first, got, buckets[2], at)
  PROVE  AllCounted(w, buckets, at, got)
<1>. DEFINE b == buckets[1]
            c == buckets[2]
<1>1. /\ b \in Buckets /\ b.key \in Keys /\ b.attempts \in Nat
      /\ c \in Buckets /\ c.key \in Keys /\ c.attempts \in Nat
      /\ 1..Len(buckets) = {1, 2}
  BY AttemptBuckets
<1>2. Lim!KeysOf(buckets) = {b.key, c.key}
  BY <1>1 DEF Lim!KeysOf
<1>3. /\ \A k \in Keys : w[k] \in [end : Nat, count : 0..MaxCount]
      /\ \A k \in Keys : acc.w[k] \in [end : Nat, count : 0..MaxCount]
      /\ \A k \in Keys : first.w[k] \in [end : Nat, count : 0..MaxCount]
      /\ \A k \in Keys : got.w[k] \in [end : Nat, count : 0..MaxCount]
      /\ first.retry \in Int /\ got.retry \in Int
  BY DEF Windows, Accs, OneCounted
<1>10. \A k \in Keys : got.w[k].end \in Nat /\ got.w[k].count \in Nat /\ first.w[k].count \in Nat
  BY <1>3, LimiterConstants
<1>4. \A k \in Keys \ {b.key, c.key} : LeftAlone(w[k], got.w[k], at)
  <2>. SUFFICES ASSUME NEW k \in Keys \ {b.key, c.key}
                PROVE  LeftAlone(w[k], got.w[k], at)
    OBVIOUS
  <2>1. LeftAlone(w[k], acc.w[k], at) /\ LeftAlone(acc.w[k], first.w[k], at)
        /\ LeftAlone(first.w[k], got.w[k], at)
    BY DEF OneCounted
  <2>2. LeftAlone(w[k], first.w[k], at)
    BY <1>3, <2>1, WindowSteps
  <2>. QED  BY <1>3, <2>1, <2>2, WindowSteps
<1>5. CountedIn(w[b.key], first.w[b.key], at) /\ first.w[b.key].end > at
  <2>1. LeftAlone(w[b.key], acc.w[b.key], at) /\ CountedIn(acc.w[b.key], first.w[b.key], at)
    BY <1>1 DEF OneCounted
  <2>2. CountedIn(w[b.key], first.w[b.key], at)
    BY <1>1, <1>3, <2>1, WindowSteps
  <2>. QED  BY <1>1, <1>3, <2>2, WindowSteps
<1>6. CASE b.key = c.key
  <2>1. /\ CountedIn(w[c.key], got.w[c.key], at)
        /\ got.w[c.key].end = first.w[c.key].end
    <3>1. CountedIn(w[c.key], first.w[c.key], at) /\ CountedIn(first.w[c.key], got.w[c.key], at)
      BY <1>5, <1>6 DEF OneCounted
    <3>. QED  BY <1>1, <1>3, <3>1, WindowSteps
  <2>2. got.w[c.key].end \in Nat /\ got.w[c.key].end > at /\ b.attempts \in Nat /\ c.attempts \in Nat
        /\ got.w[c.key].count \in Nat /\ first.w[c.key].count \in Nat
    BY <1>1, <1>5, <1>6, <1>10, <2>1
  <2>3. /\ IF first.w[c.key].count > b.attempts THEN first.retry >= first.w[c.key].end - at
                                                ELSE first.retry = -1
        /\ IF got.w[c.key].count > c.attempts THEN got.retry >= got.w[c.key].end - at
                                              ELSE got.retry = first.retry
        /\ got.retry >= first.retry
    BY <1>6 DEF OneCounted
  <2>4. got.retry = -1 => got.w[c.key].count <= c.attempts
    BY <1>3, <2>2, <2>3
  <2>5. got.retry # -1 => got.w[c.key].end - at <= got.retry
    BY <1>3, <2>1, <2>2, <2>3
  <2>. QED  BY <1>1, <1>2, <1>4, <1>6, <2>1, <2>4, <2>5 DEF AllCounted
<1>7. CASE b.key # c.key
  <2>1. got.w[b.key] = first.w[b.key] /\ CountedIn(w[b.key], got.w[b.key], at)
    <3>1. LeftAlone(first.w[b.key], got.w[b.key], at)
      BY <1>1, <1>7 DEF OneCounted
    <3>. QED  BY <1>1, <1>3, <1>5, <3>1, WindowSteps
  <2>2. LeftAlone(w[c.key], first.w[c.key], at)
    <3>1. LeftAlone(w[c.key], acc.w[c.key], at) /\ LeftAlone(acc.w[c.key], first.w[c.key], at)
      BY <1>1, <1>7 DEF OneCounted
    <3>. QED  BY <1>1, <1>3, <3>1, WindowSteps
  <2>3. CountedIn(w[c.key], got.w[c.key], at) /\ got.w[c.key].end > at
    <3>1. CountedIn(first.w[c.key], got.w[c.key], at)
      BY DEF OneCounted
    <3>2. CountedIn(w[c.key], got.w[c.key], at)
      BY <1>1, <1>3, <2>2, <3>1, WindowSteps
    <3>. QED  BY <1>1, <1>3, <3>2, WindowSteps
  <2>4. /\ got.w[b.key].end \in Nat /\ got.w[b.key].end > at /\ b.attempts \in Nat /\ c.attempts \in Nat
        /\ got.w[b.key].count \in Nat /\ got.w[c.key].count \in Nat /\ got.w[c.key].end \in Nat
    BY <1>1, <1>5, <1>10, <2>1
  <2>5. /\ IF got.w[b.key].count > b.attempts THEN first.retry >= got.w[b.key].end - at
                                              ELSE first.retry = -1
        /\ IF got.w[c.key].count > c.attempts THEN got.retry >= got.w[c.key].end - at
                                              ELSE got.retry = first.retry
        /\ got.retry >= first.retry
    BY <2>1 DEF OneCounted
  <2>6. got.retry = -1 => got.w[c.key].count <= c.attempts /\ got.w[b.key].count <= b.attempts
    BY <1>3, <2>3, <2>4, <2>5
  <2>7. got.w[c.key].count > c.attempts => got.w[c.key].end - at <= got.retry
    BY <1>3, <2>4, <2>5
  <2>8. got.w[b.key].count > b.attempts => got.w[b.key].end - at <= got.retry
    BY <1>3, <2>4, <2>5
  <2>. QED  BY <1>1, <1>2, <1>4, <2>1, <2>3, <2>6, <2>7, <2>8 DEF AllCounted
<1>. QED  BY <1>6, <1>7

(* The store of the process.                                               *)
LEMMA LocalBucket ==
  ASSUME NEW acc \in Accs, ~acc.full, Cardinality(Lim!Stored(acc.w)) <= MaxKeys,
         NEW b \in Buckets, NEW at \in Nat
  PROVE  LET g == Lim!CountLocal(acc, b, at)
         IN  /\ g \in Accs /\ Cardinality(Lim!Stored(g.w)) <= MaxKeys
             /\ ~g.full => OneCounted(acc, g, b, at)
             /\ g.full => /\ \A k \in Keys : LeftAlone(acc.w[k], g.w[k], at)
                          /\ b.key \notin Lim!Live(acc.w, at)
                          /\ Cardinality(Lim!Live(acc.w, at)) >= MaxKeys
<1>. DEFINE HasPlace(w) == b.key \in Lim!Stored(w) \/ Cardinality(Lim!Stored(w)) < MaxKeys
            kept == IF HasPlace(acc.w) THEN acc.w ELSE Lim!Evicted(acc.w, at)
            from == [acc EXCEPT !.w = kept]
            g == Lim!CountLocal(acc, b, at)
<1>1. g = IF HasPlace(kept) THEN Lim!Counted(from, b, at) ELSE [acc EXCEPT !.w = kept, !.full = TRUE]
  BY LimiterCounts DEF Lim!CountLocal, Lim!HasRoom
<1>2. /\ acc.w \in Windows /\ acc.retry \in Int
      /\ acc = [w |-> acc.w, retry |-> acc.retry, full |-> FALSE]
      /\ b.key \in Keys /\ MaxKeys \in Nat
  BY LimiterConstants DEF Accs, Buckets
<1>3. /\ kept \in Windows /\ \A k \in Keys : LeftAlone(acc.w[k], kept[k], at)
      /\ Cardinality(Lim!Stored(kept)) <= MaxKeys
  <2>1. CASE HasPlace(acc.w)
    BY <1>2, <2>1 DEF LeftAlone
  <2>2. CASE ~HasPlace(acc.w)
    <3>1. kept = Lim!Evicted(acc.w, at)
      BY <2>2
    <3>. HIDE DEF kept, HasPlace
    <3>. QED  BY <1>2, <3>1, StoreFacts
  <2>. QED  BY <2>1, <2>2
<1>4. from \in Accs /\ from.w = kept /\ from.retry = acc.retry /\ from.full = FALSE
  <2>. HIDE DEF kept, HasPlace
  <2>. QED  BY <1>3 DEF Accs
<1>5. CASE ~HasPlace(kept)
  <2>1. g = [w |-> kept, retry |-> acc.retry, full |-> TRUE]
    BY <1>1, <1>2, <1>5
  <2>2. kept = Lim!Evicted(acc.w, at)
    BY <1>5
  <2>3. b.key \notin Lim!Live(acc.w, at) /\ ~(Cardinality(Lim!Live(acc.w, at)) < MaxKeys)
    <3>. HIDE DEF kept
    <3>. QED  BY <1>2, <1>5, <2>2, StoreFacts
  <2>4. Cardinality(Lim!Live(acc.w, at)) >= MaxKeys
    BY <1>2, <2>3, StoreFacts
  <2>. HIDE DEF kept, HasPlace, g, from
  <2>5. g \in Accs /\ g.full /\ g.w = kept
    BY <1>2, <1>3, <2>1 DEF Accs
  <2>. QED  BY <1>3, <2>3, <2>4, <2>5 DEF g
<1>6. CASE HasPlace(kept)
  <2>1. g = Lim!Counted(from, b, at)
    BY <1>1, <1>6
  <2>2. b.key \in Lim!Stored(kept) \/ Cardinality(Lim!Stored(kept)) < MaxKeys
    BY <1>6
  <2>. HIDE DEF kept, HasPlace
  <2>3. from \in Accs /\ ~from.full /\ from.w = kept /\ from.retry = acc.retry
    BY <1>4
  <2>. HIDE DEF from, g
  <2>4. /\ OneCounted(from, g, b, at)
        /\ \A k \in Keys \ {b.key} : g.w[k] = kept[k]
        /\ Lim!Stored(g.w) \subseteq Lim!Stored(kept) \cup {b.key}
    BY <2>1, <2>3, BucketIsCounted
  <2>5. /\ g \in Accs /\ ~g.full /\ g.w \in Windows
        /\ CountedIn(kept[b.key], g.w[b.key], at)
        /\ g.retry >= acc.retry
        /\ IF g.w[b.key].count > b.attempts THEN g.retry >= g.w[b.key].end - at
                                            ELSE g.retry = acc.retry
    BY <2>3, <2>4 DEF OneCounted, Accs
  <2>6. CountedIn(acc.w[b.key], g.w[b.key], at)
    <3>1. /\ acc.w[b.key] \in [end : Nat, count : 0..MaxCount]
          /\ kept[b.key] \in [end : Nat, count : 0..MaxCount]
          /\ g.w[b.key] \in [end : Nat, count : 0..MaxCount]
      BY <1>2, <1>3, <2>5 DEF Windows
    <3>2. LeftAlone(acc.w[b.key], kept[b.key], at)
      BY <1>2, <1>3
    <3>. QED  BY <2>5, <3>1, <3>2, WindowSteps
  <2>7. \A k \in Keys \ {b.key} : LeftAlone(acc.w[k], g.w[k], at)
    BY <1>3, <2>4
  <2>8. OneCounted(acc, g, b, at)
    BY <2>5, <2>6, <2>7 DEF OneCounted
  <2>9. Cardinality(Lim!Stored(g.w)) <= MaxKeys
    <3>1. /\ IsFiniteSet(Lim!Stored(kept)) /\ Cardinality(Lim!Stored(kept)) \in Nat
          /\ IsFiniteSet(Lim!Stored(g.w)) /\ Cardinality(Lim!Stored(g.w)) \in Nat
      BY <1>3, <2>5, StoreFacts
    <3>2. CASE b.key \in Lim!Stored(kept)
      <4>1. Lim!Stored(g.w) \subseteq Lim!Stored(kept)
        BY <2>4, <3>2
      <4>2. Cardinality(Lim!Stored(g.w)) <= Cardinality(Lim!Stored(kept))
        BY <3>1, <4>1, FS_Subset
      <4>. QED  BY <1>2, <1>3, <3>1, <4>2
    <3>3. CASE b.key \notin Lim!Stored(kept)
      <4>1. /\ IsFiniteSet(Lim!Stored(kept) \cup {b.key})
            /\ Cardinality(Lim!Stored(kept) \cup {b.key}) = Cardinality(Lim!Stored(kept)) + 1
        BY <3>1, <3>3, FS_AddElement
      <4>2. Cardinality(Lim!Stored(g.w)) <= Cardinality(Lim!Stored(kept) \cup {b.key})
        BY <2>4, <4>1, FS_Subset
      <4>. QED  BY <1>2, <2>2, <3>1, <3>3, <4>1, <4>2
    <3>. QED  BY <3>2, <3>3
  <2>. QED  BY <2>5, <2>8, <2>9 DEF g
<1>. QED  BY <1>5, <1>6

LEMMA MoreThanTheStoreHolds ==
  ASSUME NEW S \in SUBSET Keys, NEW T \in SUBSET Keys, NEW x \in T, x \notin S,
         Cardinality(S) >= MaxKeys
  PROVE  Cardinality(S \cup T) > MaxKeys
<1>1. /\ IsFiniteSet(S) /\ IsFiniteSet(S \cup T) /\ MaxKeys \in Nat
      /\ Cardinality(S) \in Nat /\ Cardinality(S \cup T) \in Nat
  <2>1. S \cup T \subseteq Keys
    OBVIOUS
  <2>. QED  BY <2>1, LimiterConstants, FS_Subset, FS_CardinalityType
<1>2. Cardinality(S \cup {x}) = Cardinality(S) + 1 /\ S \cup {x} \subseteq S \cup T
  BY <1>1, FS_AddElement
<1>3. Cardinality(S \cup {x}) <= Cardinality(S \cup T)
  BY <1>1, <1>2, FS_Subset
<1>. QED  BY <1>1, <1>2, <1>3

(* What an attempt does to either store.                                   *)
Effects(w, buckets, at, got) ==
  /\ got \in Accs /\ Cardinality(Lim!Stored(got.w)) <= MaxKeys
  /\ \A k \in Keys : LeftAlone(w[k], got.w[k], at) \/ CountedIn(w[k], got.w[k], at)
  /\ got.full => Cardinality(Lim!Live(w, at) \cup Lim!KeysOf(buckets)) > MaxKeys
  /\ ~got.full => got.retry >= -1 /\ AllCounted(w, buckets, at, got)

LEMMA AllCountedCovers ==
  ASSUME NEW w, NEW buckets \in Attempts, NEW at, NEW got, AllCounted(w, buckets, at, got)
  PROVE  \A k \in Keys : LeftAlone(w[k], got.w[k], at) \/ CountedIn(w[k], got.w[k], at)
BY DEF AllCounted, Lim!KeysOf

LEMMA Started ==
  ASSUME NEW w \in Windows
  PROVE  Lim!Acc(w) \in Accs /\ ~Lim!Acc(w).full /\ Lim!Acc(w).retry = -1 /\ Lim!Acc(w).w = w
BY DEF Lim!Acc, Accs

LEMMA LocalEffects ==
  ASSUME NEW w \in Windows, Cardinality(Lim!Stored(w)) <= MaxKeys,
         NEW buckets \in Attempts, NEW at \in Nat
  PROVE  Effects(w, buckets, at, Lim!AdmitLocal(w, buckets, at))
<1>. DEFINE acc == Lim!Acc(w)
            b == buckets[1]
            c == buckets[2]
            first == Lim!CountLocal(acc, b, at)
            second == Lim!CountLocal(first, c, at)
            got == Lim!AdmitLocal(w, buckets, at)
<1>1. got = IF Len(buckets) = 1 THEN first ELSE second
  BY DEF Lim!AdmitLocal
<1>2. acc \in Accs /\ ~acc.full /\ acc.retry = -1 /\ acc.w = w
  BY Started
<1>3. /\ Len(buckets) \in 1..2 /\ b \in Buckets /\ b.key \in Keys
      /\ Len(buckets) = 2 => c \in Buckets /\ c.key \in Keys
      /\ Lim!KeysOf(buckets) \subseteq Keys /\ b.key \in Lim!KeysOf(buckets)
      /\ Len(buckets) = 2 => Lim!KeysOf(buckets) = {b.key, c.key}
  BY AttemptBuckets DEF Lim!KeysOf
<1>4. \A k \in Keys : LeftAlone(w[k], acc.w[k], at)
  BY <1>2 DEF LeftAlone
<1>. HIDE DEF acc
<1>5. /\ first \in Accs /\ Cardinality(Lim!Stored(first.w)) <= MaxKeys
      /\ ~first.full => OneCounted(acc, first, b, at)
      /\ first.full => /\ \A k \in Keys : LeftAlone(w[k], first.w[k], at)
                       /\ b.key \notin Lim!Live(w, at)
                       /\ Cardinality(Lim!Live(w, at)) >= MaxKeys
  BY <1>2, <1>3, LocalBucket
<1>6. Lim!Live(w, at) \subseteq Keys
  BY DEF Lim!Live
<1>. HIDE DEF first
<1>7. CASE first.full
  <2>1. second = first
    BY <1>7 DEF Lim!CountLocal
  <2>2. got = first
    BY <1>1, <2>1
  <2>3. Cardinality(Lim!Live(w, at) \cup Lim!KeysOf(buckets)) > MaxKeys
    BY <1>3, <1>5, <1>6, <1>7, MoreThanTheStoreHolds
  <2>. QED  BY <1>5, <1>7, <2>2, <2>3 DEF Effects
<1>8. CASE ~first.full /\ Len(buckets) = 1
  <2>1. AllCounted(w, buckets, at, first)
    BY <1>2, <1>4, <1>5, <1>8, OneBucket
  <2>2. first.retry >= -1
    BY <1>2, <1>5, <1>8 DEF OneCounted
  <2>. QED  BY <1>1, <1>5, <1>8, <2>1, <2>2, AllCountedCovers DEF Effects
<1>9. CASE ~first.full /\ Len(buckets) = 2
  <2>1. got = second
    BY <1>1, <1>9
  <2>2. /\ second \in Accs /\ Cardinality(Lim!Stored(second.w)) <= MaxKeys
        /\ ~second.full => OneCounted(first, second, c, at)
        /\ second.full => /\ \A k \in Keys : LeftAlone(first.w[k], second.w[k], at)
                          /\ c.key \notin Lim!Live(first.w, at)
                          /\ Cardinality(Lim!Live(first.w, at)) >= MaxKeys
    BY <1>3, <1>5, <1>9, LocalBucket
  <2>. HIDE DEF second
  <2>3. CASE ~second.full
    <3>1. OneCounted(acc, first, b, at) /\ OneCounted(first, second, c, at)
      BY <1>5, <1>9, <2>2, <2>3
    <3>2. AllCounted(w, buckets, at, second)
      BY <1>2, <1>4, <1>9, <3>1, TwoBuckets
    <3>3. second.retry >= -1
      BY <1>2, <1>5, <2>2, <3>1 DEF OneCounted, Accs
    <3>. QED  BY <2>1, <2>2, <2>3, <3>2, <3>3, AllCountedCovers DEF Effects
  <2>4. CASE second.full
    <3>1. /\ \A k \in Keys : w[k] \in [end : Nat, count : 0..MaxCount]
          /\ \A k \in Keys : first.w[k] \in [end : Nat, count : 0..MaxCount]
          /\ \A k \in Keys : second.w[k] \in [end : Nat, count : 0..MaxCount]
      BY <1>5, <2>2 DEF Windows, Accs
    <3>2. CountedIn(w[b.key], first.w[b.key], at) /\ \A k \in Keys \ {b.key} : LeftAlone(w[k], first.w[k], at)
      BY <1>2, <1>5, <1>9 DEF OneCounted
    <3>3. /\ first.w[b.key].end > at
          /\ LeftAlone(first.w[b.key], second.w[b.key], at) => second.w[b.key] = first.w[b.key]
      BY <1>3, <3>1, <3>2, WindowSteps
    <3>4. \A k \in Keys : LeftAlone(w[k], second.w[k], at) \/ CountedIn(w[k], second.w[k], at)
      <4>. SUFFICES ASSUME NEW k \in Keys
                    PROVE  LeftAlone(w[k], second.w[k], at) \/ CountedIn(w[k], second.w[k], at)
        OBVIOUS
      <4>1. LeftAlone(first.w[k], second.w[k], at)
        BY <2>2, <2>4
      <4>2. CASE k = b.key
        BY <3>2, <3>3, <4>1, <4>2
      <4>3. CASE k # b.key
        <5>1. LeftAlone(w[k], first.w[k], at)
          BY <3>2, <4>3
        <5>. QED  BY <3>1, <4>1, <5>1, WindowSteps
      <4>. QED  BY <4>2, <4>3
    <3>5. Lim!Live(first.w, at) \subseteq Keys /\ Lim!KeysOf(buckets) \subseteq Keys
      BY <1>3 DEF Lim!Live
    <3>6. Lim!Live(first.w, at) \cup Lim!KeysOf(buckets) = Lim!Live(w, at) \cup Lim!KeysOf(buckets)
      <4>1. \A k \in Keys \ {b.key} : first.w[k].end > at <=> w[k].end > at
        <5>1. Lim!NoWindow.end = 0
          BY DEF Lim!NoWindow
        <5>2. \A k \in Keys : w[k].end \in Nat /\ first.w[k].end \in Nat
          BY <3>1
        <5>. QED  BY <3>2, <5>1, <5>2 DEF LeftAlone
      <4>. QED  BY <1>3, <4>1 DEF Lim!Live
    <3>7. Cardinality(Lim!Live(first.w, at) \cup Lim!KeysOf(buckets)) > MaxKeys
      <4>1. c.key \in Lim!KeysOf(buckets)
        BY <1>3, <1>9
      <4>. QED  BY <2>2, <2>4, <3>5, <4>1, MoreThanTheStoreHolds
    <3>. QED  BY <2>1, <2>2, <2>4, <3>4, <3>6, <3>7 DEF Effects
  <2>. QED  BY <2>3, <2>4
<1>. QED  BY <1>3, <1>7, <1>8, <1>9

(* The store in Redis.                                                     *)
LEMMA RedisEffects ==
  ASSUME NEW w \in Windows, Cardinality(Lim!Stored(w)) <= MaxKeys,
         NEW buckets \in Attempts, NEW at \in Nat
  PROVE  Effects(w, buckets, at, Lim!AdmitRedis(w, buckets, at))
<1>. DEFINE kept == Lim!Evicted(w, at)
            acc == Lim!Acc(kept)
            b == buckets[1]
            c == buckets[2]
            first == Lim!Counted(acc, b, at)
            second == Lim!Counted(first, c, at)
            got == Lim!AdmitRedis(w, buckets, at)
            room == Lim!Stored(kept) \cup Lim!KeysOf(buckets)
<1>1. got = IF Cardinality(room) > MaxKeys THEN [acc EXCEPT !.full = TRUE]
            ELSE IF Len(buckets) = 1 THEN first ELSE second
  BY LimiterCounts DEF Lim!AdmitRedis
<1>2. /\ Len(buckets) \in 1..2 /\ b \in Buckets /\ b.key \in Keys
      /\ Len(buckets) = 2 => c \in Buckets /\ c.key \in Keys
      /\ Lim!KeysOf(buckets) \subseteq Keys /\ b.key \in Lim!KeysOf(buckets)
      /\ Len(buckets) = 2 => c.key \in Lim!KeysOf(buckets)
  BY AttemptBuckets DEF Lim!KeysOf
<1>3. /\ kept \in Windows /\ \A k \in Keys : LeftAlone(w[k], kept[k], at)
      /\ Lim!Stored(kept) = Lim!Live(w, at) /\ Lim!Stored(kept) \subseteq Keys
      /\ Cardinality(Lim!Stored(kept)) <= MaxKeys
  <2>1. /\ Cardinality(Lim!Stored(w)) \in Nat /\ Cardinality(Lim!Stored(kept)) \in Nat
        /\ Cardinality(Lim!Stored(kept)) <= Cardinality(Lim!Stored(w)) /\ MaxKeys \in Nat
    BY StoreFacts, LimiterConstants
  <2>2. /\ kept \in Windows /\ \A k \in Keys : LeftAlone(w[k], kept[k], at)
        /\ Lim!Stored(kept) = Lim!Live(w, at)
    BY StoreFacts
  <2>3. Lim!Live(w, at) \subseteq Keys
    BY DEF Lim!Live
  <2>. HIDE DEF kept
  <2>. QED  BY <2>1, <2>2, <2>3
<1>. HIDE DEF kept
<1>4. /\ acc \in Accs /\ ~acc.full /\ acc.retry = -1 /\ acc.w = kept
      /\ acc = [w |-> kept, retry |-> -1, full |-> FALSE]
  BY <1>3, Started DEF Lim!Acc
<1>5. IsFiniteSet(room) /\ Cardinality(room) \in Nat /\ MaxKeys \in Nat
  <2>1. room \subseteq Keys
    BY <1>2, <1>3
  <2>. HIDE DEF room
  <2>. QED  BY <2>1, LimiterConstants, FS_Subset, FS_CardinalityType
<1>. HIDE DEF acc
<1>6. CASE Cardinality(room) > MaxKeys
  <2>1. got = [w |-> kept, retry |-> -1, full |-> TRUE]
    <3>. HIDE DEF room, first, second, got
    <3>. QED  BY <1>1, <1>4, <1>6
  <2>2. got \in Accs /\ got.full /\ got.w = kept
    BY <1>3, <2>1 DEF Accs
  <2>. HIDE DEF got
  <2>3. Cardinality(Lim!Live(w, at) \cup Lim!KeysOf(buckets)) > MaxKeys
    BY <1>3, <1>6
  <2>. QED  BY <1>3, <2>2, <2>3 DEF Effects, got
<1>7. CASE ~(Cardinality(room) > MaxKeys)
  <2>1. /\ OneCounted(acc, first, b, at)
        /\ Lim!Stored(first.w) \subseteq Lim!Stored(kept) \cup {b.key}
    BY <1>2, <1>4, BucketIsCounted
  <2>2. first \in Accs /\ ~first.full /\ first.retry >= -1
    BY <1>4, <2>1 DEF OneCounted
  <2>. HIDE DEF first
  <2>3. CASE Len(buckets) = 1
    <3>1. got = first
      BY <1>1, <1>7, <2>3
    <3>. HIDE DEF got
    <3>2. AllCounted(w, buckets, at, got)
      BY <1>3, <1>4, <2>1, <2>3, <3>1, OneBucket
    <3>3. Lim!Stored(got.w) \subseteq room
      BY <1>2, <2>1, <3>1
    <3>4. Cardinality(Lim!Stored(got.w)) <= Cardinality(room)
      BY <1>5, <3>3, FS_Subset
    <3>5. Cardinality(Lim!Stored(got.w)) \in Nat
      BY <1>5, <3>3, FS_Subset, FS_CardinalityType
    <3>6. Cardinality(Lim!Stored(got.w)) <= MaxKeys
      BY <1>5, <1>7, <3>4, <3>5
    <3>. QED  BY <2>2, <3>1, <3>2, <3>6, AllCountedCovers DEF Effects, got
  <2>4. CASE Len(buckets) = 2
    <3>1. got = second
      BY <1>1, <1>7, <2>4
    <3>. HIDE DEF got
    <3>2. /\ OneCounted(first, second, c, at)
          /\ Lim!Stored(second.w) \subseteq Lim!Stored(first.w) \cup {c.key}
      BY <1>2, <2>2, <2>4, BucketIsCounted
    <3>. HIDE DEF second
    <3>3. second \in Accs /\ ~second.full /\ second.retry >= -1
      BY <2>2, <3>2 DEF OneCounted, Accs
    <3>4. AllCounted(w, buckets, at, got)
      BY <1>3, <1>4, <2>1, <2>4, <3>1, <3>2, TwoBuckets
    <3>5. Lim!Stored(got.w) \subseteq room
      BY <1>2, <2>1, <2>4, <3>1, <3>2
    <3>6. Cardinality(Lim!Stored(got.w)) <= Cardinality(room)
      BY <1>5, <3>5, FS_Subset
    <3>7. Cardinality(Lim!Stored(got.w)) \in Nat
      BY <1>5, <3>5, FS_Subset, FS_CardinalityType
    <3>8. Cardinality(Lim!Stored(got.w)) <= MaxKeys
      BY <1>5, <1>7, <3>6, <3>7
    <3>. QED  BY <3>1, <3>3, <3>4, <3>8, AllCountedCovers DEF Effects, got
  <2>. QED  BY <1>2, <2>3, <2>4
<1>. QED  BY <1>6, <1>7

(* An attempt by its clock at, whatever the store.                         *)
LEMMA AttemptEffects ==
  ASSUME NEW w \in Windows, Cardinality(Lim!Stored(w)) <= MaxKeys,
         NEW buckets \in Attempts, NEW at \in Nat
  PROVE  Effects(w, buckets, at, Lim!Admit(w, buckets, at))
<1>1. CASE adapter = "local"
  BY <1>1, LocalEffects DEF Lim!Admit
<1>2. CASE adapter # "local"
  BY <1>2, RedisEffects DEF Lim!Admit
<1>. QED  BY <1>1, <1>2

(* The clocks an attempt and a window go by: between the true time less    *)
(* the delay, and the true time and the lead.                              *)
Reads(at, upto, d) == /\ at <= upto + (Window - MaxDelay - d) /\ at >= upto - MaxDelay
                      /\ d <= Window - MaxDelay

LEMMA WindowFollows ==
  ASSUME NEW S \in Seq(Nat), NEW n \in Nat \ {0}, NEW d \in Int, NEW upto \in Nat, NEW at \in Nat,
         NEW w \in [end : Nat, count : 0..MaxCount], NEW g \in [end : Nat, count : 0..MaxCount],
         Reads(at, upto, d), Bounded(S, w, upto, n, d),
         LeftAlone(w, g, at) \/ CountedIn(w, g, at)
  PROVE  \E h \in Nat, t \in Nat :
            /\ LastWindow(S, g, upto, n, d, h, t)
            /\ CountedIn(w, g, at) /\ g.count # MaxCount =>
                  g # Lim!NoWindow /\ Len(S) + 1 - h <= g.count
<1>1. /\ Window \in Nat \ {0} /\ MaxDelay \in Nat /\ MaxCount \in Nat
      /\ Lim!NoWindow.end = 0 /\ Lim!NoWindow.count = 0 /\ Len(S) \in Nat
      /\ \A i \in 1..Len(S) : S[i] \in Nat
  BY LimiterConstants DEF Lim!NoWindow
<1>2. w.end \in Nat /\ g.end \in Nat /\ w.count \in Nat /\ g.count \in Nat /\ g.count <= MaxCount
  BY <1>1
<1>3. PICK h \in Nat, t \in Nat : LastWindow(S, w, upto, n, d, h, t)
  BY DEF Bounded
<1>4. /\ h <= Len(S) /\ t <= upto /\ Len(S) - h <= n
      /\ \A i \in 1..h : S[i] <= t
      /\ \A i \in 1..(h - n) : S[i] <= t - d
      /\ w # Lim!NoWindow => w.end >= t + Window - MaxDelay /\ Len(S) - h <= w.count
      /\ w = Lim!NoWindow /\ Len(S) > 0 => t <= upto - d
  BY <1>3 DEF LastWindow
<1>5. /\ at <= upto + (Window - MaxDelay - d) /\ at >= upto - MaxDelay /\ d <= Window - MaxDelay
  BY DEF Reads
<1>6. w.end <= at /\ Len(S) > 0 => t <= upto - d
  <2>1. CASE w = Lim!NoWindow
    BY <1>4, <2>1
  <2>2. CASE w # Lim!NoWindow
    BY <1>1, <1>2, <1>4, <1>5, <2>2
  <2>. QED  BY <2>1, <2>2
<1>7. CASE CountedIn(w, g, at) /\ w.end > at
  <2>1. /\ g.end = w.end /\ g.count >= w.count /\ (g.count > w.count \/ g.count = MaxCount)
        /\ w # Lim!NoWindow /\ g # Lim!NoWindow
    BY <1>1, <1>2, <1>7 DEF CountedIn
  <2>2. Len(S) - h <= w.count /\ w.end >= t + Window - MaxDelay
    BY <1>4, <2>1
  <2>3. Len(S) - h <= g.count /\ g.end >= t + Window - MaxDelay
    BY <1>1, <1>2, <2>1, <2>2
  <2>4. LastWindow(S, g, upto, n, d, h, t)
    BY <1>4, <2>1, <2>3 DEF LastWindow
  <2>5. g.count # MaxCount => Len(S) + 1 - h <= g.count
    BY <1>1, <1>2, <2>1, <2>2
  <2>. QED  BY <2>1, <2>4, <2>5
<1>8. CASE CountedIn(w, g, at) /\ ~(w.end > at)
  <2>1. g.end = at + Window /\ g.count >= 1
    BY <1>8 DEF CountedIn
  <2>2. g # Lim!NoWindow
    BY <1>1, <2>1
  <2>3. \A i \in 1..Len(S) : S[i] <= upto
    BY DEF Bounded
  <2>4. \A i \in 1..(Len(S) - n) : S[i] <= upto - d
    <3>. SUFFICES ASSUME NEW i \in 1..(Len(S) - n)
                  PROVE  S[i] <= upto - d
      OBVIOUS
    <3>1. i \in 1..h /\ Len(S) > 0 /\ i \in 1..Len(S)
      BY <1>1, <1>4
    <3>2. t <= upto - d
      BY <1>2, <1>6, <1>8, <3>1
    <3>3. S[i] <= t
      BY <1>4, <3>1
    <3>4. S[i] \in Nat
      BY <1>1, <3>1
    <3>. DEFINE v == S[i]
    <3>5. v \in Nat /\ v <= t
      BY <3>3, <3>4
    <3>. HIDE DEF v
    <3>6. v <= upto - d
      BY <3>2, <3>5
    <3>. QED  BY <3>6 DEF v
  <2>5. g.end >= upto + Window - MaxDelay /\ Len(S) - Len(S) <= g.count
    BY <1>1, <1>2, <1>5, <2>1
  <2>6. Len(S) <= Len(S) /\ upto <= upto /\ Len(S) - Len(S) <= n
    BY <1>1
  <2>7. LastWindow(S, g, upto, n, d, Len(S), upto)
    BY <2>2, <2>3, <2>4, <2>5, <2>6 DEF LastWindow
  <2>8. Len(S) + 1 - Len(S) <= g.count
    BY <1>1, <1>2, <2>1
  <2>. QED  BY <1>1, <2>2, <2>7, <2>8
<1>9. CASE ~CountedIn(w, g, at)
  <2>1. LastWindow(S, g, upto, n, d, h, t)
    <3>1. CASE g = w
      BY <1>3, <3>1
    <3>2. CASE w.end <= at /\ g = Lim!NoWindow
      BY <1>4, <1>6, <3>2 DEF LastWindow
    <3>. QED  BY <1>9, <3>1, <3>2 DEF LeftAlone
  <2>. QED  BY <1>9, <2>1
<1>. QED  BY <1>7, <1>8, <1>9

LEMMA PermitFits ==
  ASSUME NEW S \in Seq(Nat), NEW n \in Nat \ {0}, NEW d \in Int, NEW upto \in Nat,
         NEW g \in [end : Nat, count : 0..MaxCount], g # Lim!NoWindow, g.count <= n,
         \A i \in 1..Len(S) : S[i] <= upto, Spaced(S, n, d),
         NEW h \in Nat, NEW t \in Nat, LastWindow(S, g, upto, n, d, h, t),
         Len(S) + 1 - h <= g.count
  PROVE  Bounded(Append(S, upto), g, upto, n, d)
<1>. DEFINE A == Append(S, upto)
<1>1. /\ A \in Seq(Nat) /\ Len(A) = Len(S) + 1 /\ Len(S) \in Nat
      /\ \A i \in 1..Len(S) : A[i] = S[i] /\ S[i] \in Nat
      /\ A[Len(S) + 1] = upto
  OBVIOUS
<1>2. g.count \in Nat
  BY LimiterConstants
<1>3. /\ h <= Len(S) /\ t <= upto
      /\ \A i \in 1..h : S[i] <= t
      /\ \A i \in 1..(h - n) : S[i] <= t - d
      /\ g.end >= t + Window - MaxDelay
  BY DEF LastWindow
<1>. HIDE DEF A
<1>4. \A i \in 1..Len(A) : A[i] <= upto
  <2>. SUFFICES ASSUME NEW i \in 1..Len(A)
                PROVE  A[i] <= upto
    OBVIOUS
  <2>1. i \in 1..Len(S) \/ i = Len(S) + 1
    BY <1>1
  <2>2. i \in 1..Len(S) => A[i] = S[i] /\ S[i] <= upto
    BY <1>1
  <2>. QED  BY <1>1, <2>1, <2>2
<1>5. LastWindow(A, g, upto, n, d, h, t)
  <2>1. h <= Len(A) /\ Len(A) - h <= n /\ Len(A) - h <= g.count
    BY <1>1, <1>2, <1>3
  <2>2. \A i \in 1..h : A[i] <= t
    <3>. SUFFICES ASSUME NEW i \in 1..h
                  PROVE  A[i] <= t
      OBVIOUS
    <3>1. i \in 1..Len(S)
      BY <1>1, <1>3
    <3>2. A[i] = S[i]
      BY <1>1, <3>1
    <3>. QED  BY <1>3, <3>2
  <2>3. \A i \in 1..(h - n) : A[i] <= t - d
    <3>. SUFFICES ASSUME NEW i \in 1..(h - n)
                  PROVE  A[i] <= t - d
      OBVIOUS
    <3>1. i \in 1..Len(S)
      BY <1>1, <1>3
    <3>. QED  BY <1>1, <1>3, <3>1
  <2>. QED  BY <1>3, <2>1, <2>2, <2>3 DEF LastWindow
<1>6. Spaced(A, n, d)
  <2>. SUFFICES ASSUME NEW i \in 1..(Len(A) - 2 * n)
                PROVE  A[i + 2 * n] - A[i] >= d
    BY DEF Spaced
  <2>1. CASE i + 2 * n <= Len(S)
    <3>1. i \in 1..(Len(S) - 2 * n) /\ i \in 1..Len(S) /\ i + 2 * n \in 1..Len(S)
      BY <1>1, <2>1
    <3>2. S[i + 2 * n] - S[i] >= d
      BY <3>1 DEF Spaced
    <3>. QED  BY <1>1, <3>1, <3>2
  <2>2. CASE ~(i + 2 * n <= Len(S))
    <3>1. i + 2 * n = Len(S) + 1
      <4>. DEFINE m == 2 * n
                  l == Len(S)
      <4>1. m \in Nat /\ l \in Nat /\ i \in 1..(l + 1 - m) /\ ~(i + m <= l)
        BY <1>1, <2>2
      <4>. HIDE DEF m, l
      <4>2. i + m = l + 1
        BY <4>1
      <4>. QED  BY <4>2 DEF m, l
    <3>2. i \in 1..(h - n) /\ i \in 1..Len(S)
      BY <1>1, <1>2, <1>3, <3>1
    <3>. DEFINE v == S[i]
    <3>3. v <= t - d
      BY <1>3, <3>2
    <3>4. v \in Nat /\ A[i] = v
      BY <1>1, <3>2
    <3>5. A[i + 2 * n] = upto
      BY <1>1, <3>1
    <3>. HIDE DEF v
    <3>6. upto - v >= d
      BY <1>3, <3>3, <3>4
    <3>. QED  BY <3>4, <3>5, <3>6
  <2>. QED  BY <2>1, <2>2
<1>. QED  BY <1>4, <1>5, <1>6 DEF Bounded, A

LEMMA TimePasses ==
  ASSUME NEW S \in Seq(Nat), NEW n \in Nat, NEW d \in Int, NEW upto \in Nat, NEW later \in Nat,
         NEW w, upto <= later, Bounded(S, w, upto, n, d)
  PROVE  Bounded(S, w, later, n, d)
<1>1. \A i \in 1..Len(S) : S[i] <= later
  <2>1. \A i \in 1..Len(S) : S[i] \in Nat /\ S[i] <= upto
    BY DEF Bounded
  <2>. QED  BY <2>1
<1>2. PICK h \in Nat, t \in Nat : LastWindow(S, w, upto, n, d, h, t)
  BY DEF Bounded
<1>3. t <= later /\ (t <= upto - d => t <= later - d)
  BY <1>2 DEF LastWindow
<1>4. LastWindow(S, w, later, n, d, h, t)
  BY <1>2, <1>3 DEF LastWindow
<1>. QED  BY <1>1, <1>4 DEF Bounded

-----------------------------------------------------------------------------
(* The steps of the limiters.                                              *)
LEMMA SpanFacts ==
  ASSUME LimiterTyped
  PROVE  /\ Lim!Span \in Int /\ Lim!Span = Window - MaxDelay - Lead
         /\ Lead \in Nat /\ \A r \in Requests : Lim!Ahead(r) \in Nat /\ Lim!Ahead(r) <= Lead
BY LimiterConstants DEF Lim!Span, Lim!Ahead, Lead, LimiterTyped

LEMMA LimiterStarts == ServicesInit => LimiterInv
<1>. SUFFICES ASSUME Lim!Init
              PROVE  LimiterInv
  BY DEF ServicesInit
<1>. USE DEF Lim!Init
<1>1. LimiterTyped
  BY LimiterConstants DEF LimiterTyped, Lim!NoWindow, Lim!NotAsked, Lim!NoAnswer, Windows
<1>2. StoreIsBounded
  <2>1. Lim!Stored(window) = {}
    BY DEF Lim!Stored
  <2>2. Cardinality(Lim!Stored(window)) = 0 /\ MaxKeys \in Nat
    BY <2>1, LimiterConstants, FS_EmptySet
  <2>. QED  BY <2>2 DEF StoreIsBounded
<1>3. ReadingsAreRecent
  BY DEF ReadingsAreRecent
<1>4. WindowsBound
  <2>. SUFFICES ASSUME NEW k \in Keys, NEW n \in 1..MaxCount
                PROVE  Bounded(permits[k], window[k], clock, n, Lim!Span)
    BY DEF WindowsBound
  <2>1. permits[k] = <<>> /\ Len(permits[k]) = 0 /\ window[k] = Lim!NoWindow /\ clock = 0 /\ n \in Nat \ {0}
    BY LimiterConstants
  <2>2. LastWindow(permits[k], window[k], clock, n, Lim!Span, 0, 0)
    BY <2>1 DEF LastWindow
  <2>3. Spaced(permits[k], n, Lim!Span)
    BY <2>1 DEF Spaced
  <2>. QED  BY <2>1, <2>2, <2>3 DEF Bounded
<1>. QED  BY <1>1, <1>2, <1>3, <1>4 DEF LimiterInv

(* A request has read the clock and makes its attempt.                     *)
LEMMA AttemptMade ==
  ASSUME LimiterInv, NEW r \in Requests, asked[r] # Lim!NotAsked
  PROVE  LET b   == asked[r].buckets
             at  == asked[r].now
             got == Lim!Admit(window, b, at)
         IN  /\ b \in Attempts /\ at \in Nat /\ Reads(at, clock, Lim!Span)
             /\ Effects(window, b, at, got)
             /\ got.w \in Windows /\ got.retry \in Int
             /\ [asked EXCEPT ![r] = Lim!NotAsked] \in
                   [Requests -> [buckets : Attempts \cup {<<>>}, now : Nat, at : Nat]]
<1>. DEFINE b   == asked[r].buckets
            at  == asked[r].now
            got == Lim!Admit(window, b, at)
<1>. USE DEF LimiterInv
<1>1. b \in Attempts /\ at \in Nat /\ asked[r].at \in Nat /\ clock \in Nat
  BY DEF ReadingsAreRecent, LimiterTyped
<1>2. /\ asked[r].at <= clock /\ clock <= asked[r].at + MaxDelay
      /\ asked[r].at <= at /\ at <= asked[r].at + Lead
  BY DEF ReadingsAreRecent
<1>3. Reads(at, clock, Lim!Span)
  <2>. DEFINE d == Lim!Span
  <2>1. /\ d \in Int /\ d = Window - MaxDelay - Lead /\ Lead \in Nat
        /\ Window \in Nat /\ MaxDelay \in Nat
    BY SpanFacts, LimiterConstants
  <2>. HIDE DEF d
  <2>2. at <= clock + Lead /\ at >= clock - MaxDelay
    BY <1>1, <1>2, <2>1
  <2>3. Reads(at, clock, d)
    BY <1>1, <2>1, <2>2 DEF Reads
  <2>. QED  BY <2>3 DEF d
<1>4. Effects(window, b, at, got)
  BY <1>1, AttemptEffects DEF LimiterTyped, StoreIsBounded
<1>5. got.w \in Windows /\ got.retry \in Int
  BY <1>4 DEF Effects, Accs
<1>6. [asked EXCEPT ![r] = Lim!NotAsked] \in
         [Requests -> [buckets : Attempts \cup {<<>>}, now : Nat, at : Nat]]
  BY DEF LimiterTyped, Lim!NotAsked
<1>. QED  BY <1>1, <1>3, <1>4, <1>5, <1>6

(* A permit of k: its window has counted it and is not over the limit.     *)
LEMMA PermitKeepsBound ==
  ASSUME NEW w \in Windows, NEW g \in Windows, NEW k \in Keys, NEW n \in 1..MaxCount, Lim!Limits(k, n),
         NEW S \in Seq(Nat), NEW d \in Int, NEW upto \in Nat, NEW at \in Nat,
         NEW buckets \in Attempts, k \in Lim!KeysOf(buckets),
         NEW got, got.w = g, got.retry = -1, AllCounted(w, buckets, at, got),
         Reads(at, upto, d), Bounded(S, w[k], upto, n, d)
  PROVE  Bounded(Append(S, upto), g[k], upto, n, d)
<1>1. PICK i \in 1..Len(buckets) : buckets[i].key = k
  BY DEF Lim!KeysOf
<1>2. CountedIn(w[k], g[k], at)
  BY <1>1 DEF AllCounted
<1>3. PICK j \in 1..Len(buckets) : buckets[j].key = k /\ g[k].count <= buckets[j].attempts
  BY <1>1 DEF AllCounted
<1>4. buckets[j].attempts <= n /\ buckets[j].attempts \in 1..(MaxCount - 1)
  BY <1>3, AttemptBuckets DEF Lim!Limits
<1>5. /\ w[k] \in [end : Nat, count : 0..MaxCount] /\ g[k] \in [end : Nat, count : 0..MaxCount]
      /\ n \in Nat \ {0} /\ MaxCount \in Nat
  BY LimiterConstants DEF Windows
<1>6. g[k].count <= n /\ g[k].count # MaxCount
  <2>. DEFINE c == g[k].count
              m == buckets[j].attempts
  <2>1. c \in Nat /\ c <= m /\ m <= n /\ m \in 1..(MaxCount - 1)
    BY <1>3, <1>4, <1>5
  <2>. HIDE DEF c, m
  <2>2. c <= n /\ c # MaxCount
    BY <1>5, <2>1
  <2>. QED  BY <2>2 DEF c
<1>7. PICK h \in Nat, t \in Nat : /\ LastWindow(S, g[k], upto, n, d, h, t)
                                  /\ g[k] # Lim!NoWindow /\ Len(S) + 1 - h <= g[k].count
  BY <1>2, <1>5, <1>6, WindowFollows
<1>8. (\A x \in 1..Len(S) : S[x] <= upto) /\ Spaced(S, n, d)
  BY DEF Bounded
<1>. QED  BY <1>5, <1>6, <1>7, <1>8, PermitFits

LEMMA AttemptKeepsBound ==
  ASSUME NEW w \in [end : Nat, count : 0..MaxCount], NEW g \in [end : Nat, count : 0..MaxCount],
         NEW n \in 1..MaxCount, NEW S \in Seq(Nat), NEW d \in Int, NEW upto \in Nat, NEW at \in Nat,
         LeftAlone(w, g, at) \/ CountedIn(w, g, at), Reads(at, upto, d), Bounded(S, w, upto, n, d)
  PROVE  Bounded(S, g, upto, n, d)
<1>1. n \in Nat \ {0}
  BY LimiterConstants
<1>2. PICK h \in Nat, t \in Nat : LastWindow(S, g, upto, n, d, h, t)
  BY <1>1, WindowFollows
<1>. QED  BY <1>2 DEF Bounded

(* The windows change as an attempt of r changes them, or not at all, and  *)
(* with a permit each of its subjects and sources has one more.            *)
Made(r, permitted) ==
  LET b   == asked[r].buckets
      got == Lim!Admit(window, b, asked[r].now)
  IN  /\ asked[r] # Lim!NotAsked /\ asked' = [asked EXCEPT ![r] = Lim!NotAsked]
      /\ UNCHANGED <<adapter, clock>> /\ answer'.retry \in Nat
      /\ window' = got.w \/ (window' = window /\ ~permitted)
      /\ IF permitted THEN /\ ~got.full /\ got.retry = -1
                           /\ permits' = [k \in Keys |-> IF k \in Lim!KeysOf(b)
                                                         THEN Append(permits[k], clock)
                                                         ELSE permits[k]]
                      ELSE permits' = permits

LEMMA CountMakes ==
  ASSUME LimiterInv, NEW r \in Requests, Lim!Count(r) \/ Lim!Unavailable(r)
  PROVE  Made(r, TRUE) \/ Made(r, FALSE)
<1>. DEFINE got == Lim!Admit(window, asked[r].buckets, asked[r].now)
<1>1. asked[r] # Lim!NotAsked
  BY DEF Lim!Count, Lim!Unavailable
<1>2. got.retry \in Int /\ (~got.full => got.retry >= -1)
  BY <1>1, AttemptMade DEF Effects
<1>. HIDE DEF got
<1>3. CASE Lim!Unavailable(r)
  <2>1. answer'.retry = 0 /\ asked' = [asked EXCEPT ![r] = Lim!NotAsked] /\ UNCHANGED <<adapter, clock, permits>>
        /\ window' \in {window, got.w}
    BY <1>3 DEF Lim!Unavailable, Lim!Answered, got
  <2>. QED  BY <1>1, <2>1 DEF Made, got
<1>4. CASE Lim!Count(r)
  <2>1. window' = got.w
    BY <1>4 DEF Lim!Count, got
  <2>2. CASE got.full /\ Lim!Answered(r, "full", 0) /\ UNCHANGED permits
    BY <1>1, <2>1, <2>2 DEF Lim!Answered, Made, got
  <2>3. CASE ~got.full /\ got.retry # -1 /\ Lim!Answered(r, "refused", got.retry) /\ UNCHANGED permits
    <3>1. got.retry \in Nat
      BY <1>2, <2>3
    <3>2. answer'.retry = got.retry /\ asked' = [asked EXCEPT ![r] = Lim!NotAsked] /\ UNCHANGED <<adapter, clock, permits>>
      BY <2>3 DEF Lim!Answered
    <3>. QED  BY <1>1, <2>1, <3>1, <3>2 DEF Made, got
  <2>4. CASE /\ ~got.full /\ got.retry = -1 /\ Lim!Answered(r, "permitted", 0)
             /\ permits' = [k \in Keys |-> IF k \in Lim!KeysOf(asked[r].buckets)
                                           THEN Append(permits[k], clock) ELSE permits[k]]
    BY <1>1, <2>1, <2>4 DEF Lim!Answered, Made, got
  <2>. QED  BY <1>4, <2>2, <2>3, <2>4 DEF Lim!Count, got
<1>. QED  BY <1>3, <1>4

LEMMA MadeKeepsLimiter ==
  ASSUME LimiterInv, NEW r \in Requests, NEW permitted \in BOOLEAN, Made(r, permitted)
  PROVE  LimiterInv'
<1>. DEFINE b   == asked[r].buckets
            at  == asked[r].now
            got == Lim!Admit(window, b, at)
<1>1. /\ asked[r] # Lim!NotAsked /\ asked' = [asked EXCEPT ![r] = Lim!NotAsked]
      /\ adapter' = adapter /\ clock' = clock /\ answer'.retry \in Nat
      /\ window' = got.w \/ (window' = window /\ ~permitted)
      /\ permitted => /\ ~got.full /\ got.retry = -1
                      /\ permits' = [k \in Keys |-> IF k \in Lim!KeysOf(b)
                                                    THEN Append(permits[k], clock)
                                                    ELSE permits[k]]
      /\ ~permitted => permits' = permits
  BY DEF Made
<1>2. /\ b \in Attempts /\ at \in Nat /\ Reads(at, clock, Lim!Span)
      /\ Effects(window, b, at, got) /\ got.w \in Windows
      /\ [asked EXCEPT ![r] = Lim!NotAsked] \in
            [Requests -> [buckets : Attempts \cup {<<>>}, now : Nat, at : Nat]]
  BY <1>1, AttemptMade
<1>. HIDE DEF got, b, at
<1>3. /\ window \in Windows /\ clock \in Nat /\ permits \in [Keys -> Seq(Nat)]
      /\ adapter \in {"local", "redis"} /\ Lim!Span \in Int
  BY SpanFacts DEF LimiterInv, LimiterTyped
<1>4. LimiterTyped'
  <2>1. window' \in Windows
    BY <1>1, <1>2, <1>3
  <2>2. permits' \in [Keys -> Seq(Nat)]
    <3>1. \A k \in Keys : Append(permits[k], clock) \in Seq(Nat)
      BY <1>3
    <3>. QED  BY <1>1, <1>3, <3>1
  <2>. QED  BY <1>1, <1>2, <1>3, <2>1, <2>2 DEF LimiterTyped
<1>5. StoreIsBounded'
  <2>1. Cardinality(Lim!Stored(got.w)) <= MaxKeys /\ Cardinality(Lim!Stored(window)) <= MaxKeys
    BY <1>2 DEF Effects, LimiterInv, StoreIsBounded
  <2>2. Cardinality(Lim!Stored(window')) <= MaxKeys
    BY <1>1, <2>1
  <2>. QED  BY <2>2 DEF StoreIsBounded, Lim!Stored
<1>6. ReadingsAreRecent'
  <2>. SUFFICES ASSUME NEW q \in Requests, asked'[q] # Lim!NotAsked
                PROVE  /\ asked'[q].buckets \in Attempts
                       /\ asked'[q].at <= clock /\ clock <= asked'[q].at + MaxDelay
                       /\ asked'[q].at <= asked'[q].now /\ asked'[q].now <= asked'[q].at + Lead
    BY <1>1 DEF ReadingsAreRecent, Lead, Lim!NotAsked
  <2>1. asked'[q] = asked[q]
    BY <1>1 DEF LimiterInv, LimiterTyped
  <2>. QED  BY <2>1 DEF LimiterInv, ReadingsAreRecent
<1>7. WindowsBound'
  <2>. SUFFICES ASSUME NEW k \in Keys, NEW n \in 1..MaxCount, Lim!Limits(k, n)
                PROVE  Bounded(permits'[k], window'[k], clock, n, Lim!Span)
    BY <1>1 DEF WindowsBound, Lim!Span
  <2>1. Bounded(permits[k], window[k], clock, n, Lim!Span)
    BY DEF LimiterInv, WindowsBound
  <2>2. permits[k] \in Seq(Nat)
    BY <1>3
  <2>3. /\ window[k] \in [end : Nat, count : 0..MaxCount] /\ got.w[k] \in [end : Nat, count : 0..MaxCount]
        /\ LeftAlone(window[k], got.w[k], at) \/ CountedIn(window[k], got.w[k], at)
    BY <1>2, <1>3 DEF Windows, Effects
  <2>4. Bounded(permits[k], got.w[k], clock, n, Lim!Span)
    BY <1>2, <1>3, <2>1, <2>2, <2>3, AttemptKeepsBound
  <2>5. CASE permitted /\ k \in Lim!KeysOf(b)
    <3>1. permits'[k] = Append(permits[k], clock) /\ window' = got.w /\ got.retry = -1
      BY <1>1, <2>5
    <3>2. AllCounted(window, b, at, got)
      BY <1>1, <1>2, <2>5 DEF Effects
    <3>. QED  BY <1>2, <1>3, <2>1, <2>2, <2>5, <3>1, <3>2, PermitKeepsBound
  <2>6. CASE ~(permitted /\ k \in Lim!KeysOf(b))
    <3>1. permits'[k] = permits[k]
      BY <1>1, <2>6
    <3>. QED  BY <1>1, <2>1, <2>4, <3>1
  <2>. QED  BY <2>5, <2>6
<1>. QED  BY <1>4, <1>5, <1>6, <1>7 DEF LimiterInv

LEMMA AskKeepsLimiter ==
  ASSUME LimiterInv, NEW r \in Requests, NEW a \in Attempts, Lim!Ask(r, a)
  PROVE  LimiterInv'
<1>. DEFINE new == [buckets |-> a, now |-> clock + Lim!Ahead(r), at |-> clock]
<1>1. /\ asked' = [asked EXCEPT ![r] = new] /\ answer'.retry = 0
      /\ UNCHANGED <<adapter, window, clock, permits>>
  BY DEF Lim!Ask, Lim!NoAnswer
<1>2. /\ LimiterTyped /\ clock \in Nat /\ Lead \in Nat /\ MaxDelay \in Nat
      /\ Lim!Ahead(r) \in Nat /\ Lim!Ahead(r) <= Lead
  BY SpanFacts, LimiterConstants DEF LimiterInv, LimiterTyped
<1>3. /\ new \in [buckets : Attempts \cup {<<>>}, now : Nat, at : Nat]
      /\ new.buckets = a /\ new.at <= clock /\ clock <= new.at + MaxDelay
      /\ new.at <= new.now /\ new.now <= new.at + Lead
  BY <1>2
<1>. HIDE DEF new
<1>4. LimiterTyped'
  BY <1>1, <1>2, <1>3 DEF LimiterTyped
<1>5. StoreIsBounded'
  BY <1>1 DEF LimiterInv, StoreIsBounded, Lim!Stored
<1>6. ReadingsAreRecent'
  <2>. SUFFICES ASSUME NEW q \in Requests, asked'[q] # Lim!NotAsked
                PROVE  /\ asked'[q].buckets \in Attempts
                       /\ asked'[q].at <= clock /\ clock <= asked'[q].at + MaxDelay
                       /\ asked'[q].at <= asked'[q].now /\ asked'[q].now <= asked'[q].at + Lead
    BY <1>1 DEF ReadingsAreRecent, Lead, Lim!NotAsked
  <2>1. CASE q = r
    BY <1>1, <1>2, <1>3, <2>1 DEF LimiterTyped
  <2>2. CASE q # r
    BY <1>1, <1>2, <2>2 DEF LimiterTyped, LimiterInv, ReadingsAreRecent
  <2>. QED  BY <2>1, <2>2
<1>7. WindowsBound'
  <2>. SUFFICES ASSUME NEW k \in Keys, NEW n \in 1..MaxCount, Lim!Limits(k, n)
                PROVE  Bounded(permits[k], window[k], clock, n, Lim!Span)
    BY <1>1 DEF WindowsBound, Lim!Span
  <2>. QED  BY DEF LimiterInv, WindowsBound
<1>. QED  BY <1>4, <1>5, <1>6, <1>7 DEF LimiterInv

LEMMA TickKeepsLimiter ==
  ASSUME LimiterInv, Lim!Tick
  PROVE  LimiterInv'
<1>1. /\ clock' = clock + 1 /\ answer'.retry = 0
      /\ UNCHANGED <<adapter, window, asked, permits>>
      /\ \A r \in Requests : asked[r] # Lim!NotAsked => clock < asked[r].at + MaxDelay
  BY DEF Lim!Tick, Lim!NoAnswer
<1>2. LimiterTyped /\ clock \in Nat /\ clock' \in Nat /\ Lim!Span \in Int /\ MaxDelay \in Nat
  BY <1>1, SpanFacts, LimiterConstants DEF LimiterInv, LimiterTyped
<1>3. LimiterTyped'
  BY <1>1, <1>2 DEF LimiterTyped
<1>4. StoreIsBounded'
  BY <1>1 DEF LimiterInv, StoreIsBounded, Lim!Stored
<1>5. ReadingsAreRecent'
  <2>. SUFFICES ASSUME NEW q \in Requests, asked[q] # Lim!NotAsked
                PROVE  /\ asked[q].buckets \in Attempts
                       /\ asked[q].at <= clock + 1 /\ clock + 1 <= asked[q].at + MaxDelay
                       /\ asked[q].at <= asked[q].now /\ asked[q].now <= asked[q].at + Lead
    BY <1>1 DEF ReadingsAreRecent, Lead, Lim!NotAsked
  <2>1. clock < asked[q].at + MaxDelay /\ asked[q].at \in Nat
    BY <1>1, <1>2 DEF LimiterTyped
  <2>2. /\ asked[q].buckets \in Attempts /\ asked[q].at <= clock
        /\ asked[q].at <= asked[q].now /\ asked[q].now <= asked[q].at + Lead
    BY DEF LimiterInv, ReadingsAreRecent
  <2>. QED  BY <1>2, <2>1, <2>2
<1>6. WindowsBound'
  <2>. SUFFICES ASSUME NEW k \in Keys, NEW n \in 1..MaxCount, Lim!Limits(k, n)
                PROVE  Bounded(permits[k], window[k], clock', n, Lim!Span)
    BY <1>1 DEF WindowsBound, Lim!Span
  <2>1. Bounded(permits[k], window[k], clock, n, Lim!Span)
    BY DEF LimiterInv, WindowsBound
  <2>2. permits[k] \in Seq(Nat) /\ n \in Nat /\ clock <= clock'
    BY <1>1, <1>2, LimiterConstants DEF LimiterTyped
  <2>. QED  BY <1>2, <2>1, <2>2, TimePasses
<1>. QED  BY <1>3, <1>4, <1>5, <1>6 DEF LimiterInv

LEMMA LimiterSteps ==
  ASSUME LimiterInv, [ServicesNext]_services
  PROVE  LimiterInv'
<1>1. Lim!Next \/ UNCHANGED limiter
  BY DEF ServicesNext, services, SourcesStep, MigrationsStep, LineageStep, OutboundStep,
         SocketsStep, BrowserStep, LimiterStep
<1>2. CASE UNCHANGED limiter
  <2>1. LimiterTyped' /\ StoreIsBounded' /\ ReadingsAreRecent'
    BY <1>2 DEF limiter, LimiterInv, LimiterTyped, StoreIsBounded, ReadingsAreRecent, Lead,
                Lim!NotAsked, Lim!Stored
  <2>2. WindowsBound'
    BY <1>2 DEF limiter, LimiterInv, WindowsBound, Lim!Span
  <2>. QED  BY <2>1, <2>2 DEF LimiterInv
<1>3. CASE Lim!Next
  <2>1. \/ Lim!Tick
        \/ \E r \in Requests : \/ \E a \in Attempts : Lim!Ask(r, a)
                               \/ Lim!Count(r) \/ Lim!Unavailable(r)
    BY <1>3 DEF Lim!Next
  <2>. QED  BY <2>1, TickKeepsLimiter, AskKeepsLimiter, CountMakes, MadeKeepsLimiter
<1>. QED  BY <1>1, <1>2, <1>3

(* "Full" and a refusal are what they say.                                 *)
LEMMA LimiterAnswers ==
  ASSUME LimiterInv, [ServicesNext]_services, limiter' # limiter
  PROVE  Lim!FullMeansLiveNow /\ Lim!RefusalIsHonestNow
<1>1. Lim!Next
  BY DEF ServicesNext, services, limiter, SourcesStep, MigrationsStep, LineageStep, OutboundStep,
         SocketsStep, BrowserStep, LimiterStep
<1>. SUFFICES ASSUME NEW r \in Requests, answer'.to = {r}, answer'.kind \in {"full", "refused"}
              PROVE  /\ answer'.kind = "full" =>
                          Cardinality(Lim!Live(window, asked[r].now) \cup Lim!KeysOf(asked[r].buckets)) > MaxKeys
                     /\ answer'.kind = "refused" =>
                          \A i \in 1..Len(asked[r].buckets) :
                            LET b == asked[r].buckets[i]
                            IN  /\ \/ window'[b.key].count = MaxCount
                                   \/ b.key \notin Lim!Live(window, asked[r].now)
                                   \/ window'[b.key].count > window[b.key].count
                                /\ window'[b.key].count > b.attempts =>
                                     window'[b.key].end <= asked[r].now + answer'.retry
  BY LimiterCounts DEF Lim!FullMeansLiveNow, Lim!RefusalIsHonestNow
<1>. DEFINE at == asked[r].now
            bs == asked[r].buckets
            got == Lim!Admit(window, bs, at)
<1>2. Lim!Count(r)
  <2>1. \/ Lim!Tick
        \/ \E q \in Requests : \/ \E a \in Attempts : Lim!Ask(q, a)
                               \/ Lim!Count(q) \/ Lim!Unavailable(q)
    BY <1>1 DEF Lim!Next
  <2>2. ~Lim!Tick /\ \A q \in Requests : (\A a \in Attempts : ~Lim!Ask(q, a)) /\ ~Lim!Unavailable(q)
    BY DEF Lim!Tick, Lim!Ask, Lim!Unavailable, Lim!NoAnswer, Lim!Answered
  <2>3. PICK q \in Requests : Lim!Count(q)
    BY <2>1, <2>2
  <2>4. answer'.to = {q}
    BY <2>3 DEF Lim!Count, Lim!Answered
  <2>. QED  BY <2>3, <2>4
<1>3. /\ asked[r] # Lim!NotAsked /\ window' = got.w
      /\ answer'.kind = "full" => got.full
      /\ answer'.kind = "refused" => ~got.full /\ got.retry # -1 /\ answer'.retry = got.retry
  BY <1>2 DEF Lim!Count, Lim!Answered
<1>4. /\ bs \in Attempts /\ at \in Nat /\ Effects(window, bs, at, got) /\ got.w \in Windows
      /\ got.retry \in Int /\ window \in Windows
  BY <1>3, AttemptMade DEF LimiterInv, LimiterTyped
<1>. HIDE DEF got, at, bs
<1>5. answer'.kind = "full" => Cardinality(Lim!Live(window, at) \cup Lim!KeysOf(bs)) > MaxKeys
  BY <1>3, <1>4 DEF Effects
<1>6. ASSUME answer'.kind = "refused", NEW i \in 1..Len(bs)
      PROVE  LET b == bs[i]
             IN  /\ \/ window'[b.key].count = MaxCount
                    \/ b.key \notin Lim!Live(window, at)
                    \/ window'[b.key].count > window[b.key].count
                 /\ window'[b.key].count > b.attempts => window'[b.key].end <= at + answer'.retry
  <2>. DEFINE k == bs[i].key
  <2>1. AllCounted(window, bs, at, got)
    BY <1>3, <1>4, <1>6 DEF Effects
  <2>2. CountedIn(window[k], got.w[k], at) /\ (got.w[k].count > bs[i].attempts => got.w[k].end - at <= got.retry)
    BY <1>3, <1>6, <2>1 DEF AllCounted
  <2>3. k \in Keys
    BY <1>4, AttemptBuckets
  <2>4. got.w[k].end \in Nat /\ got.w[k].count \in Nat /\ window[k].end \in Nat /\ window[k].count \in Nat
    BY <1>4, <2>3, LimiterConstants DEF Windows
  <2>. HIDE DEF k
  <2>5. \/ got.w[k].count = MaxCount \/ k \notin Lim!Live(window, at) \/ got.w[k].count > window[k].count
    BY <2>2, <2>3, <2>4 DEF CountedIn, Lim!Live
  <2>6. got.w[k].count > bs[i].attempts => got.w[k].end <= at + got.retry
    BY <1>4, <2>2, <2>4
  <2>. QED  BY <1>3, <1>6, <2>5, <2>6 DEF k
<1>. QED  BY <1>5, <1>6 DEF at, bs

(* No subject or source has more permits than twice its limit within a     *)
(* window, "full" means full of live windows, and a refusal tells when the *)
(* windows over their limits end (admit_now, SCRIPT).                      *)
THEOREM LimiterStaysHonest == ServicesSpec => LimiterIsHonest
<1>1. ServicesInit => LimiterInv
  BY LimiterStarts
<1>2. LimiterInv /\ [ServicesNext]_services => LimiterInv'
  BY LimiterSteps
<1>3. LimiterInv => Lim!TypeOK /\ Lim!PermitsAreBounded
  <2>. SUFFICES ASSUME LimiterInv
                PROVE  Lim!TypeOK /\ Lim!PermitsAreBounded
    OBVIOUS
  <2>1. Lim!TypeOK
    <3>1. \A k \in Keys : window[k].end >= 0 /\ window[k].count >= 0
      BY LimiterConstants DEF LimiterInv, LimiterTyped, Windows
    <3>. QED  BY <3>1, LimiterCounts DEF LimiterInv, LimiterTyped, StoreIsBounded, Lim!TypeOK
  <2>2. Lim!PermitsAreBounded
    BY DEF LimiterInv, WindowsBound, Bounded, Spaced, Lim!PermitsAreBounded
  <2>. QED  BY <2>1, <2>2
<1>4. LimiterInv /\ [ServicesNext]_services => [Lim!FullMeansLiveNow /\ Lim!RefusalIsHonestNow]_limiter
  BY LimiterAnswers
<1>. QED  BY <1>1, <1>2, <1>3, <1>4, PTL DEF ServicesSpec, LimiterIsHonest
=============================================================================
