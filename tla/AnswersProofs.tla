--------------------------- MODULE AnswersProofs ---------------------------
(***************************************************************************)
(* Proofs about what a server tells: the mail that it sends and reports,   *)
(* and the exchanges that it answers and records, for any senders, routes, *)
(* requests and responses.                                                 *)
(***************************************************************************)
EXTENDS ServerProofs

(***************************************************************************)
(* The mail (identity/app/command.rs, identity/infra/smtp).                *)
(***************************************************************************)
MailKinds == {"register", "verification", "reset"}
Purposes  == {"verification", "reset"}

MailTyped ==
  /\ smtp \in BOOLEAN
  /\ account \in {"none", "unverified", "verified", "suspended"}
  /\ password \in 0..Changes /\ found \in [Senders -> 0..Changes]
  /\ stored \subseteq [token : Senders, purpose : Purposes, state : Mai!States]
  /\ mailing \in [Senders -> {"idle", "finding", "committing", "sending", "waiting",
                              "answered", "failed", "dropped"}]
  /\ asked \in [Senders -> MailKinds]
  /\ answer \in [Senders -> [issued : BOOLEAN, delivered : BOOLEAN]]
  /\ submitted \in [Senders -> Nat]
  /\ wire \cup inbox \subseteq [token : Senders, purpose : Purposes]
  /\ smtpReply \in [Senders -> {"none", "250", "5xx"}]

(* One link of a purpose works at a time.                                  *)
OneIsLive ==
  \A c, d \in stored : c.state = "live" /\ d.state = "live" /\ c.purpose = d.purpose => c = d

(* Before the account exists no request can have stored a challenge, only  *)
(* its registration is about to, and its password is still to be set.      *)
NothingOfNobody ==
  account = "none" => /\ stored = {} /\ password = 0
                      /\ \A r \in Senders : mailing[r] = "committing" => asked[r] = "register"

(* A challenge and a message are for the purpose that was asked for, which *)
(* is not asked again once there is one.                                   *)
ForWhatWasAsked ==
  /\ \A c \in stored : c.purpose = Mai!Purpose(asked[c.token])
                       /\ mailing[c.token] \notin {"idle", "finding", "committing"}
  /\ \A m \in wire \cup inbox : m.purpose = Mai!Purpose(asked[m.token])
                                /\ mailing[m.token] \notin {"idle", "finding", "committing"}

(* Only a request for an existing account reads its password's version.    *)
RegistersUnread ==
  \A r \in Senders : /\ asked[r] = "register" \/ mailing[r] = "idle" => found[r] = 0
                     /\ mailing[r] = "finding" => asked[r] # "register"

IsStored(r) == \E c \in stored : c.token = r
(* A request that sends, and a message that was sent, have a row.          *)
SentIsStored ==
  /\ \A r \in Senders : mailing[r] \in {"sending", "waiting"} => IsStored(r)
  /\ \A m \in wire \cup inbox : IsStored(m.token)

(* A message is submitted by the only step that leaves "sending" for       *)
(* "waiting".                                                              *)
SubmittedOnce ==
  \A r \in Senders : /\ submitted[r] <= 1
                     /\ mailing[r] \in {"idle", "finding", "committing", "sending"} => submitted[r] = 0

Accepted(r) == \E m \in inbox : m.token = r
SaysAccepted ==
  \A r \in Senders : smtpReply[r] = "250" \/ answer[r].delivered => Accepted(r)

MailInv == /\ MailTyped /\ OneIsLive /\ NothingOfNobody /\ ForWhatWasAsked /\ RegistersUnread
           /\ SentIsStored /\ SubmittedOnce /\ SaysAccepted /\ Mai!LiveIsCurrent

LEMMA MailInit ==
  ASSUME Mai!Init
  PROVE  MailInv
<1>1. Changes \in Nat
  BY ServerAssumption DEF Mai!MailingAssumption
<1>. QED
  BY <1>1 DEF Mai!Init, Mai!NoAnswer, MailInv, MailTyped, MailKinds, Purposes, OneIsLive,
     NothingOfNobody, ForWhatWasAsked, RegistersUnread, SentIsStored, SubmittedOnce, SaysAccepted,
     Mai!LiveIsCurrent

(* The steps that only move a request on and answer it.                    *)
Answers(r, to, issued, delivered) ==
  /\ mailing' = [mailing EXCEPT ![r] = to]
  /\ \/ answer' = answer
     \/ answer' = [answer EXCEPT ![r] = [issued |-> issued, delivered |-> delivered]]
  /\ delivered => Accepted(r)
  /\ UNCHANGED <<smtp, account, password, stored, asked, found, submitted, wire, smtpReply,
                 inbox>>

LEMMA AnswersKeep ==
  ASSUME MailInv, NEW r \in Senders, NEW to, NEW issued \in BOOLEAN,
         NEW delivered \in BOOLEAN, Answers(r, to, issued, delivered), mailing[r] # "idle",
         to \in {"answered", "failed", "dropped"}
  PROVE  MailInv'
<1>. USE DEF MailInv, Answers
<1>1. MailTyped'
  BY DEF MailTyped
<1>2. OneIsLive' /\ NothingOfNobody'
  BY DEF OneIsLive, NothingOfNobody, MailTyped
<1>3. ForWhatWasAsked' /\ RegistersUnread' /\ Mai!LiveIsCurrent'
  BY DEF ForWhatWasAsked, RegistersUnread, Mai!LiveIsCurrent, MailTyped, Mai!Purpose
<1>4. SentIsStored'
  BY DEF SentIsStored, IsStored, MailTyped
<1>5. SubmittedOnce'
  BY DEF SubmittedOnce, MailTyped
<1>6. SaysAccepted'
  BY DEF SaysAccepted, Accepted, MailTyped
<1>. QED  BY <1>1, <1>2, <1>3, <1>4, <1>5, <1>6

(* A commit that happened, whether it is known or not: no link of the      *)
(* purpose but the new one works, and every older row is still there.      *)
LEMMA InsertKeeps ==
  ASSUME MailInv, NEW r \in Senders, NEW to \in {"sending", "failed"},
         mailing[r] = "committing", ~Mai!Duplicate(r), ~Mai!Stale(r), Mai!Insert(r),
         mailing' = [mailing EXCEPT ![r] = to],
         UNCHANGED <<smtp, password, asked, found, answer, submitted, wire, smtpReply, inbox>>
  PROVE  MailInv'
<1>. DEFINE new == [token |-> r, purpose |-> Mai!Purpose(asked[r]), state |-> "live"]
            old(c) == IF c.purpose = Mai!Purpose(asked[r]) /\ c.state = "live"
                      THEN [c EXCEPT !.state = "replaced"] ELSE c
<1>1. /\ stored' = {old(c) : c \in stored} \cup {new}
      /\ asked[r] = "register" => account = "none" /\ account' = "unverified"
      /\ asked[r] # "register" => account' = account
  BY DEF Mai!Insert, Mai!WithReplaced, Mai!Duplicate
<1>2. /\ new \in [token : Senders, purpose : Purposes, state : Mai!States]
      /\ new.token = r /\ new.state = "live" /\ new.purpose = Mai!Purpose(asked[r])
  BY DEF MailInv, MailTyped, Mai!Purpose, Purposes, Mai!States
<1>3. ASSUME NEW c \in stored
      PROVE  /\ old(c) \in [token : Senders, purpose : Purposes, state : Mai!States]
             /\ old(c).token = c.token /\ old(c).purpose = c.purpose
             /\ old(c).state = "live" => old(c) = c /\ c.purpose # Mai!Purpose(asked[r])
  <2>1. c \in [token : Senders, purpose : Purposes, state : Mai!States]
    BY DEF MailInv, MailTyped
  <2>. QED  BY <2>1 DEF Mai!States
<1>. HIDE DEF new, old
<1>4. MailTyped'
  BY <1>1, <1>2, <1>3 DEF MailInv, MailTyped
<1>5. OneIsLive'
  <2>. SUFFICES ASSUME NEW c \in stored', NEW d \in stored', c.state = "live", d.state = "live",
                       c.purpose = d.purpose
                PROVE  c = d
    BY DEF OneIsLive
  <2>. QED  BY <1>1, <1>2, <1>3 DEF MailInv, OneIsLive
<1>6. NothingOfNobody'
  BY <1>1 DEF MailInv, NothingOfNobody
<1>7. ForWhatWasAsked'
  <2>1. ASSUME NEW c \in stored'
        PROVE  c.purpose = Mai!Purpose(asked[c.token])
               /\ mailing'[c.token] \notin {"idle", "finding", "committing"}
    BY <1>1, <1>2, <1>3, <2>1 DEF MailInv, MailTyped, ForWhatWasAsked
  <2>2. ASSUME NEW m \in wire \cup inbox
        PROVE  m.purpose = Mai!Purpose(asked[m.token])
               /\ mailing'[m.token] \notin {"idle", "finding", "committing"}
    BY <2>2 DEF MailInv, MailTyped, ForWhatWasAsked
  <2>. QED  BY <2>1, <2>2 DEF ForWhatWasAsked, Mai!Purpose
<1>8. SentIsStored'
  <2>1. ASSUME NEW t \in Senders, IsStored(t) \/ t = r
        PROVE  IsStored(t)'
    BY <1>1, <1>2, <1>3, <2>1 DEF IsStored
  <2>. QED  BY <2>1 DEF MailInv, MailTyped, SentIsStored
<1>9. SubmittedOnce' /\ SaysAccepted' /\ RegistersUnread'
  BY DEF MailInv, MailTyped, SubmittedOnce, SaysAccepted, Accepted, RegistersUnread
<1>10. Mai!LiveIsCurrent'
  <2>1. found[r] = password
    BY <1>1 DEF Mai!Stale, MailInv, NothingOfNobody, RegistersUnread
  <2>. QED  BY <1>1, <1>2, <1>3, <2>1 DEF MailInv, Mai!LiveIsCurrent
<1>. QED  BY <1>4, <1>5, <1>6, <1>7, <1>8, <1>9, <1>10 DEF MailInv

(* Challenges that end: no row is added or lost, none comes to life, and   *)
(* with the password goes every one that was live.                         *)
OnlyEnds(rows) ==
  /\ rows \subseteq [token : Senders, purpose : Purposes, state : Mai!States]
  /\ \A d \in rows : \E c \in stored :
       c.token = d.token /\ c.purpose = d.purpose /\ (d.state = "live" => c = d)
  /\ \A c \in stored : \E d \in rows : d.token = c.token

LEMMA EndsKeep ==
  ASSUME MailInv, NEW rows, stored' = rows, OnlyEnds(rows),
         account' \in {account, "verified"},
         \/ password' = password
         \/ /\ password' \in 0..Changes /\ account' = "verified"
            /\ \A d \in stored' : d.state # "live",
         UNCHANGED <<smtp, mailing, asked, found, answer, submitted, wire, smtpReply, inbox>>
  PROVE  MailInv'
<1>. USE DEF OnlyEnds
<1>1. MailTyped'
  BY DEF MailInv, MailTyped
<1>2. OneIsLive'
  BY DEF MailInv, OneIsLive
<1>3. NothingOfNobody'
  BY DEF MailInv, NothingOfNobody
<1>4. ForWhatWasAsked' /\ RegistersUnread'
  BY DEF MailInv, ForWhatWasAsked, RegistersUnread, Mai!Purpose
<1>5. SentIsStored'
  <2>1. \A t : IsStored(t) => IsStored(t)'
    BY DEF IsStored
  <2>. QED  BY <2>1 DEF MailInv, SentIsStored
<1>6. SubmittedOnce' /\ SaysAccepted'
  BY DEF MailInv, SubmittedOnce, SaysAccepted, Accepted
<1>7. Mai!LiveIsCurrent'
  BY DEF MailInv, Mai!LiveIsCurrent
<1>. QED  BY <1>1, <1>2, <1>3, <1>4, <1>5, <1>6, <1>7 DEF MailInv

(* A row that is no longer live.                                           *)
LEMMA NowIs ==
  ASSUME NEW c \in [token : Senders, purpose : Purposes, state : Mai!States],
         NEW state \in Mai!States
  PROVE  /\ Mai!Now(c, state) \in [token : Senders, purpose : Purposes, state : Mai!States]
         /\ Mai!Now(c, state).token = c.token /\ Mai!Now(c, state).purpose = c.purpose
         /\ Mai!Now(c, state).state = state
  BY DEF Mai!Now

(* replace_password, whichever request it comes from.                      *)
LEMMA ReplaceKeeps ==
  ASSUME MailInv, NEW rows, Mai!Replace(rows),
         OnlyEnds(rows),
         UNCHANGED <<smtp, mailing, asked, found, answer, submitted, wire, smtpReply, inbox>>
  PROVE  MailInv'
<1>. DEFINE gone(c) == IF c.state = "live" THEN Mai!Now(c, "revoked") ELSE c
<1>1. /\ stored' = {gone(c) : c \in rows} /\ account' = "verified"
      /\ password < Changes /\ password' = password + 1
  BY DEF Mai!Replace, Mai!Revoked
<1>2. password' \in 0..Changes
  BY <1>1, ServerAssumption DEF MailInv, MailTyped, Mai!MailingAssumption
<1>3. ASSUME NEW c \in rows
      PROVE  /\ gone(c) \in [token : Senders, purpose : Purposes, state : Mai!States]
             /\ gone(c).token = c.token /\ gone(c).purpose = c.purpose
             /\ gone(c).state # "live"
  <2>1. "revoked" \in Mai!States
    BY DEF Mai!States
  <2>2. c \in [token : Senders, purpose : Purposes, state : Mai!States]
    BY DEF OnlyEnds
  <2>. QED  BY <2>1, <2>2, NowIs
<1>. HIDE DEF gone
<1>4. OnlyEnds(stored') /\ \A d \in stored' : d.state # "live"
  BY <1>1, <1>3 DEF OnlyEnds
<1>. QED  BY <1>1, <1>2, <1>4, EndsKeep

LEMMA MailNext ==
  ASSUME MailInv, Mai!Next
  PROVE  MailInv'
<1>. USE DEF Mai!Unmailed, Mai!Go, Mai!Answer
<1>1. ASSUME NEW r \in Senders, NEW kind \in Mai!Kinds, Mai!Ask(r, kind)
      PROVE  MailInv'
  <2>. USE <1>1 DEF MailInv, Mai!Ask
  <2>1. mailing[r] = "idle" /\ kind \in MailKinds
        /\ \A t \in Senders : t # r => mailing'[t] = mailing[t] /\ asked'[t] = asked[t]
    BY DEF MailTyped, Mai!Kinds, MailKinds
  <2>2. MailTyped'
    BY <2>1 DEF MailTyped
  <2>3. OneIsLive' /\ NothingOfNobody'
    BY <2>1 DEF OneIsLive, NothingOfNobody, MailTyped
  <2>4. ForWhatWasAsked'
    <3>1. \A c \in stored : c.token \in Senders /\ c.token # r
      BY <2>1 DEF ForWhatWasAsked, MailTyped
    <3>2. \A m \in wire \cup inbox : m.token \in Senders /\ m.token # r
      BY <2>1 DEF ForWhatWasAsked, MailTyped
    <3>. QED  BY <2>1, <3>1, <3>2 DEF ForWhatWasAsked, Mai!Purpose
  <2>5. SentIsStored' /\ SubmittedOnce' /\ SaysAccepted'
    BY <2>1 DEF SentIsStored, IsStored, SubmittedOnce, SaysAccepted, Accepted, MailTyped
  <2>6. RegistersUnread' /\ Mai!LiveIsCurrent'
    BY <2>1 DEF RegistersUnread, Mai!LiveIsCurrent, MailTyped, MailKinds
  <2>. QED  BY <2>2, <2>3, <2>4, <2>5, <2>6
<1>2. ASSUME NEW r \in Senders, Mai!Find(r)
      PROVE  MailInv'
  <2>1. mailing[r] = "finding"
    BY <1>2 DEF Mai!Find
  <2>2. CASE Answers(r, "answered", FALSE, FALSE)
    BY <2>1, <2>2, AnswersKeep
  <2>3. CASE /\ account # "none" /\ mailing' = [mailing EXCEPT ![r] = "committing"]
             /\ found' = [found EXCEPT ![r] = password]
             /\ UNCHANGED <<smtp, account, password, stored, asked, answer, submitted, wire,
                            smtpReply, inbox>>
    <3>. USE <2>1, <2>3 DEF MailInv
    <3>1. MailTyped'
      BY DEF MailTyped
    <3>2. OneIsLive' /\ NothingOfNobody'
      BY DEF OneIsLive, NothingOfNobody, MailTyped
    <3>3. ForWhatWasAsked' /\ RegistersUnread'
      BY DEF ForWhatWasAsked, RegistersUnread, MailTyped, Mai!Purpose
    <3>4. SentIsStored' /\ SubmittedOnce' /\ SaysAccepted'
      BY DEF SentIsStored, IsStored, SubmittedOnce, SaysAccepted, Accepted, MailTyped
    <3>5. Mai!LiveIsCurrent'
      <4>1. \A c \in stored : c.token \in Senders /\ c.token # r
        BY DEF ForWhatWasAsked, MailTyped
      <4>. QED  BY <4>1 DEF Mai!LiveIsCurrent, MailTyped
    <3>. QED  BY <3>1, <3>2, <3>3, <3>4, <3>5
  <2>. QED  BY <1>2, <2>2, <2>3 DEF Mai!Find, Mai!Wanted, Answers
<1>3. ASSUME NEW r \in Senders, Mai!Commit(r)
      PROVE  MailInv'
  BY <1>3, InsertKeeps DEF Mai!Commit
<1>4. ASSUME NEW r \in Senders, Mai!Ignore(r)
      PROVE  MailInv'
  <2>1. Answers(r, "answered", FALSE, FALSE) /\ mailing[r] # "idle"
    BY <1>4 DEF Mai!Ignore, Answers
  <2>. QED  BY <2>1, AnswersKeep
<1>5. ASSUME NEW r \in Senders, Mai!Break(r)
      PROVE  MailInv'
  <2>1. CASE ~Mai!Duplicate(r) /\ ~Mai!Stale(r) /\ Mai!Insert(r)
    BY <1>5, <2>1, InsertKeeps DEF Mai!Break, Mai!Failed
  <2>2. CASE UNCHANGED <<account, stored>>
    <3>1. Answers(r, "failed", FALSE, FALSE) /\ mailing[r] = "committing"
      BY <1>5, <2>2 DEF Mai!Break, Mai!Failed, Answers
    <3>. QED  BY <3>1, AnswersKeep
  <2>. QED  BY <1>5, <2>1, <2>2 DEF Mai!Break
<1>6. ASSUME NEW r \in Senders, Mai!Undelivered(r)
      PROVE  MailInv'
  <2>1. Answers(r, "answered", TRUE, FALSE) /\ mailing[r] # "idle"
    BY <1>6 DEF Mai!Undelivered, Answers
  <2>. QED  BY <2>1, AnswersKeep
<1>7. ASSUME NEW r \in Senders, Mai!Submit(r)
      PROVE  MailInv'
  <2>. USE <1>7 DEF MailInv, Mai!Submit
  <2>. DEFINE new == Mai!Message(r)
  <2>1. /\ new \in [token : Senders, purpose : Purposes]
        /\ new.token = r /\ new.purpose = Mai!Purpose(asked[r])
    BY DEF Mai!Message, Mai!Purpose, Purposes
  <2>2. mailing[r] = "sending" /\ IsStored(r) /\ submitted[r] = 0 /\ wire' = wire \cup {new}
    BY DEF SentIsStored, SubmittedOnce
  <2>. HIDE DEF new
  <2>3. MailTyped'
    BY <2>1, <2>2 DEF MailTyped
  <2>4. OneIsLive' /\ NothingOfNobody'
    BY DEF OneIsLive, NothingOfNobody, MailTyped
  <2>5. ForWhatWasAsked'
    BY <2>1, <2>2 DEF ForWhatWasAsked, MailTyped, Mai!Purpose
  <2>6. SentIsStored'
    BY <2>1, <2>2 DEF SentIsStored, IsStored, MailTyped
  <2>7. SubmittedOnce'
    BY <2>2 DEF SubmittedOnce, MailTyped
  <2>8. SaysAccepted' /\ RegistersUnread' /\ Mai!LiveIsCurrent'
    BY DEF SaysAccepted, Accepted, RegistersUnread, Mai!LiveIsCurrent, MailTyped
  <2>. QED  BY <2>3, <2>4, <2>5, <2>6, <2>7, <2>8
<1>8. ASSUME NEW r \in Senders, Mai!Refused(r)
      PROVE  MailInv'
  <2>1. Answers(r, "answered", TRUE, FALSE) /\ mailing[r] # "idle"
    BY <1>8 DEF Mai!Refused, Answers
  <2>. QED  BY <2>1, AnswersKeep
<1>9. ASSUME NEW r \in Senders, Mai!Replied(r)
      PROVE  MailInv'
  <2>1. smtpReply[r] = "250" => Accepted(r)
    BY DEF MailInv, SaysAccepted
  <2>2. Answers(r, "answered", TRUE, Mai!Delivered(r)) /\ mailing[r] # "idle"
    BY <1>9, <2>1 DEF Mai!Replied, Mai!Delivered, Answers
  <2>3. Mai!Delivered(r) \in BOOLEAN
    BY DEF Mai!Delivered
  <2>. QED  BY <2>2, <2>3, AnswersKeep
<1>10. ASSUME NEW r \in Senders, Mai!Timeout(r)
       PROVE  MailInv'
  <2>1. Answers(r, "answered", TRUE, FALSE) /\ mailing[r] # "idle"
    BY <1>10 DEF Mai!Timeout, Mai!Expires, Mai!TimeUp, Answers
  <2>. QED  BY <2>1, AnswersKeep
<1>11. ASSUME NEW r \in Senders, Mai!Drop(r)
       PROVE  MailInv'
  <2>1. Answers(r, "dropped", FALSE, FALSE) /\ mailing[r] # "idle"
    BY <1>11 DEF Mai!Drop, Answers
  <2>. QED  BY <2>1, AnswersKeep
<1>12. ASSUME NEW m \in wire, Mai!Server(m)
       PROVE  MailInv'
  <2>. USE <1>12 DEF MailInv, Mai!Server
  <2>1. /\ m \in [token : Senders, purpose : Purposes] /\ wire' \subseteq wire
        /\ inbox' \subseteq inbox \cup {m} /\ inbox \subseteq inbox'
    BY DEF MailTyped
  <2>2. MailTyped'
    BY <2>1 DEF MailTyped
  <2>3. OneIsLive' /\ NothingOfNobody'
    BY DEF OneIsLive, NothingOfNobody, MailTyped
  <2>4. ForWhatWasAsked'
    BY <2>1 DEF ForWhatWasAsked, MailTyped, Mai!Purpose
  <2>5. SentIsStored' /\ SubmittedOnce'
    BY <2>1 DEF SentIsStored, SubmittedOnce, IsStored, MailTyped
  <2>6. SaysAccepted' /\ RegistersUnread' /\ Mai!LiveIsCurrent'
    BY <2>1 DEF SaysAccepted, Accepted, RegistersUnread, Mai!LiveIsCurrent, MailTyped
  <2>. QED  BY <2>2, <2>3, <2>4, <2>5, <2>6
<1>13. ASSUME NEW c \in stored, NEW state \in {"used", "expired"}, NEW rows,
              rows = (stored \ {c}) \cup {Mai!Now(c, state)}
       PROVE  OnlyEnds(rows)
  <2>1. stored \subseteq [token : Senders, purpose : Purposes, state : Mai!States] /\ state \in Mai!States
    BY DEF MailInv, MailTyped, Mai!States
  <2>2. /\ Mai!Now(c, state) \in [token : Senders, purpose : Purposes, state : Mai!States]
        /\ Mai!Now(c, state).token = c.token /\ Mai!Now(c, state).purpose = c.purpose
        /\ Mai!Now(c, state).state # "live"
    BY <2>1, NowIs
  <2>. QED  BY <1>13, <2>1, <2>2 DEF OnlyEnds
<1>14. ASSUME NEW m \in inbox, Mai!Verify(m)
       PROVE  MailInv'
  <2>1. PICK c \in stored : stored' = (stored \ {c}) \cup {Mai!Now(c, "used")}
    BY <1>14 DEF Mai!Verify
  <2>2. /\ account' = "verified" /\ password' = password
        /\ UNCHANGED <<smtp, mailing, asked, found, answer, submitted, wire, smtpReply, inbox>>
    BY <1>14 DEF Mai!Verify, Mai!Others
  <2>3. OnlyEnds(stored')
    BY <1>13, <2>1
  <2>. QED  BY <2>2, <2>3, EndsKeep
<1>15. ASSUME NEW m \in inbox, Mai!Reset(m)
       PROVE  MailInv'
  <2>1. PICK c \in stored : Mai!Replace((stored \ {c}) \cup {Mai!Now(c, "used")})
    BY <1>15 DEF Mai!Reset
  <2>2. UNCHANGED <<smtp, mailing, asked, found, answer, submitted, wire, smtpReply, inbox>>
    BY <1>15 DEF Mai!Reset, Mai!Others
  <2>. DEFINE rows == (stored \ {c}) \cup {Mai!Now(c, "used")}
  <2>3. OnlyEnds(rows)
    BY <1>13
  <2>4. Mai!Replace(rows)
    BY <2>1
  <2>. HIDE DEF rows
  <2>. QED  BY <2>2, <2>3, <2>4, ReplaceKeeps
<1>16. CASE Mai!Change
  <2>1. Mai!Replace(stored)
        /\ UNCHANGED <<smtp, mailing, asked, found, answer, submitted, wire, smtpReply, inbox>>
    BY <1>16 DEF Mai!Change, Mai!Others
  <2>2. OnlyEnds(stored)
    BY DEF MailInv, MailTyped, OnlyEnds
  <2>. QED  BY <2>1, <2>2, ReplaceKeeps
<1>17. ASSUME NEW c \in stored, Mai!Expire(c)
       PROVE  MailInv'
  <2>1. /\ stored' = (stored \ {c}) \cup {Mai!Now(c, "expired")}
        /\ UNCHANGED <<smtp, account, password, mailing, asked, found, answer, submitted, wire,
                       smtpReply, inbox>>
    BY <1>17 DEF Mai!Expire, Mai!Others
  <2>3. OnlyEnds(stored')
    BY <1>13, <2>1
  <2>. QED  BY <2>1, <2>3, EndsKeep
<1>. QED
  BY <1>1, <1>2, <1>3, <1>4, <1>5, <1>6, <1>7, <1>8, <1>9, <1>10, <1>11, <1>12, <1>14, <1>15,
     <1>16, <1>17 DEF Mai!Next

LEMMA MailStepKeeps ==
  ASSUME MailInv, [Next]_server
  PROVE  MailInv'
<1>1. CASE Mai!Next
  BY <1>1, MailNext
<1>2. CASE UNCHANGED mail
  BY <1>2 DEF mail, MailInv, MailTyped, OneIsLive, NothingOfNobody, ForWhatWasAsked, SentIsStored,
     IsStored, SubmittedOnce, SaysAccepted, Accepted, RegistersUnread, Mai!LiveIsCurrent, Mai!Purpose
<1>. QED
  BY <1>1, <1>2 DEF Next, ProcessStep, ExchangeStep, LogStep, HashingStep, MailStep, server

LEMMA MailInvariant == Spec => []MailInv
<1>1. Init => MailInv
  BY MailInit DEF Init
<1>2. MailInv /\ [Next]_server => MailInv'
  BY MailStepKeeps
<1>. QED
  BY <1>1, <1>2, PTL DEF Spec

(* Nobody is mailed a token that the store does not have, a message is     *)
(* submitted once and reported delivered only when it was accepted, a link *)
(* that works is one for the current password, and it stops working only   *)
(* when it is used, expires, is replaced, or the password is: for any      *)
(* number of requests and changes, whatever the mail server does           *)
(* (request_challenge, replace_password, Mailer).                          *)
THEOREM MailStaysHonest == Spec => MailIsHonest
<1>. DEFINE Honest == /\ Mai!TypeOK /\ Mai!MailMeansCommitted /\ Mai!DeliveredWasAccepted
                      /\ Mai!NeverTwice /\ Mai!LiveIsCurrent
            Kept == \A c \in stored : c \notin stored' =>
                      /\ c.state = "live"
                      /\ \/ /\ Mai!Now(c, "used") \in stored' /\ account' = "verified"
                            /\ [token |-> c.token, purpose |-> c.purpose] \in inbox
                         \/ Mai!Now(c, "expired") \in stored'
                         \/ Mai!Now(c, "revoked") \in stored' /\ password' # password
                         \/ /\ Mai!Now(c, "replaced") \in stored'
                            /\ \E d \in stored' : /\ d.state = "live" /\ d.purpose = c.purpose
                                                  /\ asked[d.token] # "register"
<1>1. ASSUME MailInv
      PROVE  Honest
  <2>. USE <1>1 DEF MailInv
  <2>1. ASSUME NEW p
        PROVE  Mai!Cardinality({c \in stored : c.purpose = p /\ c.state = "live"}) <= 1
    <3>. DEFINE S == {c \in stored : c.purpose = p /\ c.state = "live"}
    <3>1. \A x, y \in S : x = y
      BY DEF OneIsLive
    <3>2. Mai!Cardinality(S) = Cardinality(S)
      BY DEF Mai!Cardinality, Cardinality
    <3>. HIDE DEF S
    <3>3. Cardinality(S) <= 1
      BY <3>1, AtMostOne
    <3>4. Mai!Cardinality(S) <= 1
      BY <3>2, <3>3
    <3>. QED  BY <3>4 DEF S
  <2>2. Mai!TypeOK
    BY <2>1 DEF MailTyped, Purposes, Mai!TypeOK
  <2>3. Mai!MailMeansCommitted
    <3>. SUFFICES ASSUME NEW m \in wire \cup inbox
                  PROVE  \E c \in stored : c.token = m.token /\ c.purpose = m.purpose
      BY DEF Mai!MailMeansCommitted
    <3>1. PICK c \in stored : c.token = m.token
      BY DEF SentIsStored, IsStored
    <3>. QED  BY <3>1 DEF ForWhatWasAsked
  <2>4. Mai!DeliveredWasAccepted /\ Mai!NeverTwice
    BY DEF Mai!DeliveredWasAccepted, Mai!NeverTwice, SaysAccepted, Accepted, SubmittedOnce
  <2>. QED  BY <2>2, <2>3, <2>4
<1>2. ASSUME MailInv, [Next]_server
      PROVE  [Kept]_mail
  <2>1. ASSUME UNCHANGED stored
        PROVE  Kept
    BY <2>1
  <2>2. ASSUME NEW r \in Senders, Mai!Insert(r), ~Mai!Duplicate(r), mailing[r] = "committing"
        PROVE  Kept
    <3>. SUFFICES ASSUME NEW c \in stored, c \notin stored'
                  PROVE  /\ c.state = "live" /\ Mai!Now(c, "replaced") \in stored'
                         /\ \E d \in stored' : /\ d.state = "live" /\ d.purpose = c.purpose
                                               /\ asked[d.token] # "register"
      BY Zenon
    <3>. DEFINE new == [token |-> r, purpose |-> Mai!Purpose(asked[r]), state |-> "live"]
    <3>1. /\ new \in stored' /\ c.purpose = Mai!Purpose(asked[r]) /\ c.state = "live"
          /\ Mai!Now(c, "replaced") \in stored'
      BY <2>2 DEF Mai!Insert, Mai!WithReplaced, Mai!Now
    <3>2. asked[r] # "register"
      BY <1>2, <2>2 DEF Mai!Duplicate, MailInv, NothingOfNobody
    <3>3. new.state = "live" /\ new.purpose = c.purpose /\ new.token = r
      BY <3>1
    <3>. HIDE DEF new
    <3>. QED  BY <3>1, <3>2, <3>3
  <2>3. ASSUME NEW m \in inbox, NEW e \in stored, e.token = m.token
        PROVE  [token |-> e.token, purpose |-> e.purpose] \in inbox
    <3>1. e.purpose = m.purpose /\ m \in [token : Senders, purpose : Purposes]
      BY <1>2, <2>3 DEF MailInv, MailTyped, ForWhatWasAsked
    <3>2. m = [token |-> m.token, purpose |-> m.purpose]
      BY <3>1
    <3>. QED  BY <2>3, <3>1, <3>2
  <2>4. ASSUME NEW m \in inbox, Mai!Verify(m)
        PROVE  Kept
    <3>1. PICK e \in stored : /\ e.state = "live" /\ e.token = m.token
                              /\ stored' = (stored \ {e}) \cup {Mai!Now(e, "used")}
      BY <2>4 DEF Mai!Verify
    <3>2. account' = "verified"
      BY <2>4 DEF Mai!Verify
    <3>3. [token |-> e.token, purpose |-> e.purpose] \in inbox
      BY <2>3, <3>1
    <3>. QED  BY <3>1, <3>2, <3>3
  <2>5. ASSUME NEW rows, Mai!Replace(rows), NEW c \in rows
        PROVE  /\ password' # password /\ account' = "verified"
               /\ c.state = "live" => Mai!Now(c, "revoked") \in stored'
               /\ c.state # "live" => c \in stored'
    <3>1. password \in Nat
      BY <1>2, ServerAssumption DEF MailInv, MailTyped, Mai!MailingAssumption
    <3>. QED  BY <2>5, <3>1 DEF Mai!Replace, Mai!Revoked
  <2>6. ASSUME NEW m \in inbox, Mai!Reset(m)
        PROVE  Kept
    <3>1. PICK e \in stored : /\ e.state = "live" /\ e.token = m.token
                              /\ Mai!Replace((stored \ {e}) \cup {Mai!Now(e, "used")})
      BY <2>6 DEF Mai!Reset
    <3>. DEFINE rows == (stored \ {e}) \cup {Mai!Now(e, "used")}
    <3>2. [token |-> e.token, purpose |-> e.purpose] \in inbox
      BY <2>3, <3>1
    <3>3. e \in [token : Senders, purpose : Purposes, state : Mai!States]
      BY <1>2 DEF MailInv, MailTyped
    <3>4. Mai!Now(e, "used").state # "live" /\ Mai!Now(e, "used") \in rows
      BY <3>3, NowIs DEF Mai!States
    <3>5. Mai!Replace(rows) /\ \A c \in stored : c # e => c \in rows
      BY <3>1
    <3>. HIDE DEF rows
    <3>6. account' = "verified" /\ Mai!Now(e, "used") \in stored'
      BY <2>5, <3>4, <3>5
    <3>7. ASSUME NEW c \in stored, c \notin stored', c # e
          PROVE  c.state = "live" /\ Mai!Now(c, "revoked") \in stored' /\ password' # password
      BY <2>5, <3>5, <3>7
    <3>. QED  BY <3>1, <3>2, <3>6, <3>7
  <2>7. CASE Mai!Change
    <3>1. Mai!Replace(stored)
      BY <2>7 DEF Mai!Change
    <3>2. ASSUME NEW c \in stored, c \notin stored'
          PROVE  c.state = "live" /\ Mai!Now(c, "revoked") \in stored' /\ password' # password
      BY <2>5, <3>1, <3>2
    <3>. QED  BY <3>2
  <2>8. ASSUME NEW c \in stored, Mai!Expire(c)
        PROVE  Kept
    BY <2>8 DEF Mai!Expire
  <2>9. CASE Mai!Next
    <3>1. \/ UNCHANGED stored
          \/ \E r \in Senders : Mai!Insert(r) /\ ~Mai!Duplicate(r) /\ mailing[r] = "committing"
          \/ \E m \in inbox : Mai!Verify(m) \/ Mai!Reset(m)
          \/ Mai!Change
          \/ \E c \in stored : Mai!Expire(c)
      BY <2>9 DEF Mai!Next, Mai!Ask, Mai!Find, Mai!Commit, Mai!Ignore, Mai!Break, Mai!Undelivered,
         Mai!Submit, Mai!Refused, Mai!Replied, Mai!Timeout, Mai!Drop, Mai!Server
    <3>. HIDE DEF Kept
    <3>. QED  BY <2>1, <2>2, <2>4, <2>6, <2>7, <2>8, <3>1
  <2>10. CASE UNCHANGED mail
    BY <2>10 DEF mail
  <2>. QED
    BY <1>2, <2>9, <2>10 DEF Next, ProcessStep, ExchangeStep, LogStep, HashingStep, MailStep, server
<1>3. Spec => []Honest
  BY <1>1, MailInvariant, PTL
<1>4. Spec => [][Kept]_mail
  BY <1>2, MailInvariant, PTL DEF Spec
<1>. QED
  BY <1>3, <1>4 DEF MailIsHonest, Mai!LinkLasts, Mai!vars, mail

(***************************************************************************)
(* The exchanges (shared/http/axum).                                       *)
(***************************************************************************)
(* A status override names the failure that brought it.                    *)
OverrideNamesFailure ==
  /\ (protocol = 405) <=> (failure.type = "http.method_not_allowed")
  /\ (protocol = 408) <=> (failure.type = "http.request_timeout")
  /\ (protocol = 413) <=> (failure.type = "http.body_too_large")
  /\ (protocol = 415) <=> (failure.type = "http.unsupported_media_type")

(* A body is read, an admission asked and a handler run for a request that *)
(* has not failed yet, and a reply is only there when it never did.        *)
FailedGoesNoFurther ==
  /\ at \in Htt!Awaits \cup {"idle"} \/ reply # Htt!NoReply => failure = Htt!NoFailure
  /\ reply # Htt!NoReply => Htt!Validates(reply) /\ at \in {"reply", "sending", "over"}
  /\ (at \in {"reply", "sending"} \/ response # Htt!NoResponse) /\ failure = Htt!NoFailure
       => reply # Htt!NoReply

(* What a request without failure has passed, stage by stage.              *)
Passed ==
  failure = Htt!NoFailure =>
    /\ at \notin {"idle", "over"} => Htt!Matched(request) # {} /\ request.body # "other"
    /\ at \in {"cookies", "admission", "open", "handler"} => request.body # "large"
    /\ at \in {"admission", "open", "handler"} => request.cookies
    /\ at \in {"open", "handler"} /\ Htt!Admits => admission \in {"anonymous", "authenticated"}
    /\ at = "handler" => scope = Htt!Initiator

(* The deadline is the mark of a timeout.                                  *)
DeadlineIsTimeout ==
  guard.termination = "deadline" => failure.type \in {"http.timeout", "http.request_timeout"}

(* Until it is sent, nothing of a response shows; then it is the one that  *)
(* the facts project, and the guard knows its status once it was read.     *)
SentAsProjected ==
  /\ response \in {Htt!NoResponse, Htt!Projected}
  /\ at \notin {"sending", "over"} =>
       /\ response = Htt!NoResponse /\ guard.status = 0 /\ ~unread /\ record = <<>>
       /\ guard.termination \in {"peer_closed", "deadline"}
  /\ at = "sending" =>
       /\ response = Htt!Projected
       /\ guard.termination \in {"response_completed", "deadline"}
       /\ IF unread THEN guard.status = 0 /\ record = <<>> ELSE guard.status = response.status

ExchangeInv ==
  /\ Htt!TypeOK /\ Htt!HandlerIsAdmitted /\ Htt!RecordedAsSent /\ Htt!ObservedOnce
  /\ OverrideNamesFailure /\ FailedGoesNoFurther /\ Passed /\ DeadlineIsTimeout /\ SentAsProjected

LEMMA SomeStatuses ==
  /\ \A k \in Htt!Kinds : Htt!StatusOf(k) \in {400, 401, 403, 404, 409, 429, 500, 503}
  /\ Htt!Statuses \subseteq Nat
  /\ {0, 405, 408, 413, 415} \subseteq Htt!Statuses
<1>1. \A k \in Htt!Kinds : Htt!StatusOf(k) \in {400, 401, 403, 404, 409, 429, 500, 503}
  BY DEF Htt!Kinds, Htt!StatusOf
<1>2. \A r \in Responses : r.status \in Nat
  BY ServerAssumption DEF Htt!RoutesAssumption
<1>. QED  BY <1>1, <1>2 DEF Htt!Statuses

(* Facts that are complete have an outcome, and a success had no failure.  *)
LEMMA Classified ==
  ASSUME NEW status \in Nat, NEW kind \in Htt!Kinds \cup {"none"},
         NEW termination \in {"peer_closed", "deadline", "response_completed"},
         termination = "response_completed" => status # 0
  PROVE  /\ Htt!Classify(status, kind, termination)
              \in {"success", "refused", "failed", "canceled", "timed_out"}
         /\ Htt!Classify(status, kind, termination) = "success" =>
              kind = "none" /\ status < 400 /\ termination = "response_completed"
BY DEF Htt!Classify, Htt!None, Htt!Kinds

(* The completion that a guard leaves behind, once.                        *)
LEMMA FinishedOnce ==
  ASSUME Htt!TypeOK, record = <<>>, NEW g \in [status : Htt!Statuses,
             termination : {"peer_closed", "deadline", "response_completed"}],
         g.termination = "response_completed" => g.status # 0
  PROVE  \E r \in [method : Htt!KnownMethods \cup {"HEAD", "_OTHER"},
                   outcome : {"success", "refused", "failed", "canceled", "timed_out"},
                   status : Htt!Statuses,
                   termination : {"peer_closed", "deadline", "response_completed"}] :
           /\ Htt!Finished(g) = <<r>>
           /\ r.status = g.status /\ r.termination = g.termination
           /\ r.outcome = "success" => /\ failure = Htt!NoFailure /\ g.status < 400
                                       /\ g.termination = "response_completed"
<1>. DEFINE outcome == Htt!Classify(g.status, failure.kind, g.termination)
            r == [method |-> Htt!NormalizedMethod(request.method), outcome |-> outcome,
                  status |-> g.status, termination |-> g.termination]
<1>1. failure.kind \in Htt!Kinds \cup {"none"} /\ (failure.kind = "none" => failure = Htt!NoFailure)
  BY DEF Htt!TypeOK, Htt!Failures, Htt!NoFailure, Htt!Failure, Htt!Kinds, Htt!None
<1>2. /\ g.status \in Nat /\ g.termination \in {"peer_closed", "deadline", "response_completed"}
      /\ g.termination = "response_completed" => g.status # 0
  <2>1. Htt!Statuses \subseteq Nat
    BY SomeStatuses
  <2>2. g.status \in Htt!Statuses
    OBVIOUS
  <2>. QED  BY <2>1, <2>2
<1>3. /\ outcome \in {"success", "refused", "failed", "canceled", "timed_out"}
      /\ outcome = "success" => /\ failure.kind = "none" /\ g.status < 400
                                /\ g.termination = "response_completed"
  BY <1>1, <1>2, Classified
<1>4. Htt!NormalizedMethod(request.method) \in Htt!KnownMethods \cup {"HEAD", "_OTHER"}
  BY DEF Htt!NormalizedMethod
<1>. HIDE DEF outcome
<1>5. outcome # Htt!None
  BY <1>3 DEF Htt!None
<1>6. Htt!Finished(g) = <<r>>
  BY <1>5 DEF Htt!Finished, outcome
<1>7. r \in [method : Htt!KnownMethods \cup {"HEAD", "_OTHER"},
             outcome : {"success", "refused", "failed", "canceled", "timed_out"},
             status : Htt!Statuses,
             termination : {"peer_closed", "deadline", "response_completed"}]
  BY <1>3, <1>4
<1>. QED  BY <1>1, <1>3, <1>6, <1>7

(* Before the reply nothing of a response shows.                           *)
LEMMA NothingShowsYet ==
  ASSUME SentAsProjected, UNCHANGED <<response, unread, record>>,
         at \notin {"sending", "over"}, at' \notin {"sending", "over"},
         guard' \in {guard, [guard EXCEPT !.termination = "deadline"]}, Htt!TypeOK
  PROVE  Htt!RecordedAsSent' /\ Htt!ObservedOnce' /\ SentAsProjected'
<1>1. record' = <<>> /\ response' = Htt!NoResponse /\ ~unread' /\ guard'.status = 0
      /\ guard'.termination \in {"peer_closed", "deadline"}
  BY DEF SentAsProjected, Htt!TypeOK
<1>. QED  BY <1>1 DEF Htt!RecordedAsSent, Htt!ObservedOnce, SentAsProjected, Htt!NoResponse

LEMMA ExchangeInit ==
  ASSUME Htt!Init
  PROVE  ExchangeInv
<1>. USE DEF Htt!Init
<1>1. 0 \in Htt!Statuses
  BY SomeStatuses
<1>2. Htt!TypeOK
  BY <1>1 DEF Htt!TypeOK, Htt!NoResponse, Htt!None
<1>3. Htt!HandlerIsAdmitted /\ Htt!RecordedAsSent /\ Htt!ObservedOnce
  BY DEF Htt!HandlerIsAdmitted, Htt!RecordedAsSent, Htt!ObservedOnce
<1>4. OverrideNamesFailure /\ FailedGoesNoFurther /\ Passed /\ DeadlineIsTimeout
  BY DEF OverrideNamesFailure, FailedGoesNoFurther, Passed, DeadlineIsTimeout, Htt!NoFailure,
     Htt!Failure, Htt!None, Htt!NoResponse
<1>5. SentAsProjected
  BY DEF SentAsProjected
<1>. QED  BY <1>2, <1>3, <1>4, <1>5 DEF ExchangeInv

(* The failures of the exchange, none of which is the absence of one.      *)
FailureTypes == {"owner", "unknown", "scope", "provenance.invalid", "http.not_found",
                 "http.method_not_allowed", "http.unsupported_media_type",
                 "http.body_too_large", "http.request_timeout", "http.invalid_cookie",
                 "http.timeout", "http.invalid_response"}

LEMMA SomeFailures ==
  /\ \A type \in FailureTypes, kind \in Htt!Kinds : Htt!Failure(type, kind) \in Htt!Failures
  /\ \A kind \in Htt!Kinds : Htt!Refusal(kind) \in Htt!Failures
  /\ Htt!InvalidResponse \in Htt!Failures /\ Htt!Unknown \in Htt!Failures
  /\ Htt!Failure("http.not_found", "not_found") \in Htt!Failures
  /\ Htt!Failure("http.method_not_allowed", "invalid") \in Htt!Failures
  /\ Htt!Failure("http.unsupported_media_type", "invalid") \in Htt!Failures
  /\ Htt!Failure("http.body_too_large", "invalid") \in Htt!Failures
  /\ Htt!Failure("http.request_timeout", "invalid") \in Htt!Failures
  /\ Htt!InvalidCookie \in Htt!Failures
  /\ \A r \in Responses : Htt!Rejection(r) \in {Htt!InvalidResponse, Htt!InvalidCookie}
  /\ Htt!Failure("provenance.invalid", "invalid") \in Htt!Failures
  /\ Htt!Failure("http.timeout", "timeout") \in Htt!Failures
  /\ Htt!Failure("scope", "internal") \in Htt!Failures
  /\ \A kind \in Htt!Kinds : Htt!Failure("owner", kind) \in Htt!Failures
<1>1. \A type \in FailureTypes, kind \in Htt!Kinds : Htt!Failure(type, kind) \in Htt!Failures
  BY DEF FailureTypes, Htt!Failures, Htt!Failure
<1>2. \A kind \in Htt!Kinds : Htt!Refusal(kind) \in Htt!Failures
  BY DEF Htt!Failures, Htt!Refusal
<1>3. {"invalid", "not_found", "timeout", "internal"} \subseteq Htt!Kinds
  BY DEF Htt!Kinds
<1>4. {"owner", "unknown", "scope", "provenance.invalid", "http.not_found",
       "http.method_not_allowed", "http.unsupported_media_type", "http.body_too_large",
       "http.request_timeout", "http.invalid_cookie", "http.timeout",
       "http.invalid_response"} = FailureTypes
  BY DEF FailureTypes
<1>5. \A r \in Responses : Htt!Rejection(r) \in {Htt!InvalidResponse, Htt!InvalidCookie}
  BY DEF Htt!Rejection
<1>. QED  BY <1>1, <1>2, <1>3, <1>4, <1>5 DEF Htt!InvalidResponse, Htt!InvalidCookie, Htt!Unknown

LEMMA TypesStay ==
  ASSUME Htt!TypeOK, UNCHANGED <<response, unread, record>>,
         guard' \in {guard, [guard EXCEPT !.termination = "deadline"]},
         request' \in Requests \cup {Htt!NoRequest}, protocol' \in {0, 405, 408, 413, 415},
         at' \in Htt!Awaits \cup {"idle", "cookies", "open", "reply", "sending", "over"},
         admission' \in {"unasked", "anonymous", "authenticated", "refused"},
         scope' \in {Htt!None, "anonymous", "user"}, reply' \in Responses \cup {Htt!NoReply},
         failure' \in Htt!Failures \cup {Htt!NoFailure}
  PROVE  Htt!TypeOK'
<1>1. guard' \in [status : Htt!Statuses,
                  termination : {"peer_closed", "deadline", "response_completed"}]
  BY DEF Htt!TypeOK
<1>. QED  BY <1>1 DEF Htt!TypeOK

LEMMA EarlySteps ==
  ASSUME ExchangeInv,
         \/ Htt!Arrive \/ Htt!ReadBody \/ Htt!BodyTimeout \/ Htt!ParseCookies \/ Htt!Admit
         \/ Htt!AdmissionTimeout \/ Htt!OpenScope \/ Htt!Handle \/ Htt!HandlerTimeout
  PROVE  ExchangeInv'
<1>. USE DEF ExchangeInv, Htt!GoOn, Htt!Fail, Htt!Awaits
<1>1. CASE Htt!Arrive
  <2>. USE <1>1 DEF Htt!Arrive
  <2>1. Htt!RecordedAsSent' /\ Htt!ObservedOnce' /\ SentAsProjected'
    BY NothingShowsYet
  <2>2. Htt!TypeOK'
    <3>1. failure' \in Htt!Failures \cup {Htt!NoFailure}
      BY SomeFailures DEF Htt!TypeOK
    <3>2. guard' \in {guard, [guard EXCEPT !.termination = "deadline"]}
      OBVIOUS
    <3>3. /\ request' \in Requests \cup {Htt!NoRequest} /\ protocol' \in {0, 405, 408, 413, 415}
          /\ at' \in Htt!Awaits \cup {"idle", "cookies", "open", "reply", "sending", "over"}
          /\ admission' \in {"unasked", "anonymous", "authenticated", "refused"}
      BY DEF Htt!TypeOK
    <3>4. scope' \in {Htt!None, "anonymous", "user"} /\ reply' \in Responses \cup {Htt!NoReply}
      BY DEF Htt!TypeOK, Htt!Initiator
    <3>. HIDE <1>1 DEF ExchangeInv
    <3>. QED  BY <3>1, <3>2, <3>3, <3>4, <1>1, TypesStay DEF ExchangeInv
  <2>3. OverrideNamesFailure'
    BY DEF OverrideNamesFailure, FailedGoesNoFurther, Htt!NoFailure, Htt!Failure, Htt!Refusal,
       Htt!InvalidResponse, Htt!InvalidCookie, Htt!Unknown,
       Htt!None
  <2>4. FailedGoesNoFurther'
    BY DEF FailedGoesNoFurther, SentAsProjected, Htt!NoFailure, Htt!Failure, Htt!Refusal,
       Htt!InvalidResponse, Htt!InvalidCookie, Htt!Unknown,
       Htt!None, Htt!NoReply, Htt!NoResponse
  <2>5. Passed' /\ Htt!HandlerIsAdmitted'
    BY DEF Passed, Htt!HandlerIsAdmitted, FailedGoesNoFurther, Htt!Admits, Htt!Initiator, Htt!NoFailure,
       Htt!Failure, Htt!Refusal, Htt!InvalidResponse, Htt!InvalidCookie, Htt!Unknown,
       Htt!None
  <2>6. DeadlineIsTimeout'
    BY DEF DeadlineIsTimeout, FailedGoesNoFurther, SentAsProjected, Htt!NoFailure, Htt!Failure, Htt!None, Htt!TypeOK
  <2>. QED  BY <2>1, <2>2, <2>3, <2>4, <2>5, <2>6
<1>2. CASE Htt!ReadBody
  <2>. USE <1>2 DEF Htt!ReadBody
  <2>1. Htt!RecordedAsSent' /\ Htt!ObservedOnce' /\ SentAsProjected'
    BY NothingShowsYet
  <2>2. Htt!TypeOK'
    <3>1. failure' \in Htt!Failures \cup {Htt!NoFailure}
      BY SomeFailures DEF Htt!TypeOK
    <3>2. guard' \in {guard, [guard EXCEPT !.termination = "deadline"]}
      OBVIOUS
    <3>3. /\ request' \in Requests \cup {Htt!NoRequest} /\ protocol' \in {0, 405, 408, 413, 415}
          /\ at' \in Htt!Awaits \cup {"idle", "cookies", "open", "reply", "sending", "over"}
          /\ admission' \in {"unasked", "anonymous", "authenticated", "refused"}
      BY DEF Htt!TypeOK
    <3>4. scope' \in {Htt!None, "anonymous", "user"} /\ reply' \in Responses \cup {Htt!NoReply}
      BY DEF Htt!TypeOK, Htt!Initiator
    <3>. HIDE <1>2 DEF ExchangeInv
    <3>. QED  BY <3>1, <3>2, <3>3, <3>4, <1>2, TypesStay DEF ExchangeInv
  <2>3. OverrideNamesFailure'
    BY DEF OverrideNamesFailure, FailedGoesNoFurther, Htt!NoFailure, Htt!Failure, Htt!Refusal,
       Htt!InvalidResponse, Htt!InvalidCookie, Htt!Unknown,
       Htt!None
  <2>4. FailedGoesNoFurther'
    BY DEF FailedGoesNoFurther, SentAsProjected, Htt!NoFailure, Htt!Failure, Htt!Refusal,
       Htt!InvalidResponse, Htt!InvalidCookie, Htt!Unknown,
       Htt!None, Htt!NoReply, Htt!NoResponse
  <2>5. Passed' /\ Htt!HandlerIsAdmitted'
    BY DEF Passed, Htt!HandlerIsAdmitted, FailedGoesNoFurther, Htt!Admits, Htt!Initiator, Htt!NoFailure,
       Htt!Failure, Htt!Refusal, Htt!InvalidResponse, Htt!InvalidCookie, Htt!Unknown,
       Htt!None
  <2>6. DeadlineIsTimeout'
    BY DEF DeadlineIsTimeout, FailedGoesNoFurther, SentAsProjected, Htt!NoFailure, Htt!Failure, Htt!None, Htt!TypeOK
  <2>. QED  BY <2>1, <2>2, <2>3, <2>4, <2>5, <2>6
<1>3. CASE Htt!BodyTimeout
  <2>. USE <1>3 DEF Htt!BodyTimeout
  <2>1. Htt!RecordedAsSent' /\ Htt!ObservedOnce' /\ SentAsProjected'
    BY NothingShowsYet
  <2>2. Htt!TypeOK'
    <3>1. failure' \in Htt!Failures \cup {Htt!NoFailure}
      BY SomeFailures DEF Htt!TypeOK
    <3>2. guard' \in {guard, [guard EXCEPT !.termination = "deadline"]}
      OBVIOUS
    <3>3. /\ request' \in Requests \cup {Htt!NoRequest} /\ protocol' \in {0, 405, 408, 413, 415}
          /\ at' \in Htt!Awaits \cup {"idle", "cookies", "open", "reply", "sending", "over"}
          /\ admission' \in {"unasked", "anonymous", "authenticated", "refused"}
      BY DEF Htt!TypeOK
    <3>4. scope' \in {Htt!None, "anonymous", "user"} /\ reply' \in Responses \cup {Htt!NoReply}
      BY DEF Htt!TypeOK, Htt!Initiator
    <3>. HIDE <1>3 DEF ExchangeInv
    <3>. QED  BY <3>1, <3>2, <3>3, <3>4, <1>3, TypesStay DEF ExchangeInv
  <2>3. OverrideNamesFailure'
    BY DEF OverrideNamesFailure, FailedGoesNoFurther, Htt!NoFailure, Htt!Failure, Htt!Refusal,
       Htt!InvalidResponse, Htt!InvalidCookie, Htt!Unknown,
       Htt!None
  <2>4. FailedGoesNoFurther'
    BY DEF FailedGoesNoFurther, SentAsProjected, Htt!NoFailure, Htt!Failure, Htt!Refusal,
       Htt!InvalidResponse, Htt!InvalidCookie, Htt!Unknown,
       Htt!None, Htt!NoReply, Htt!NoResponse
  <2>5. Passed' /\ Htt!HandlerIsAdmitted'
    BY DEF Passed, Htt!HandlerIsAdmitted, FailedGoesNoFurther, Htt!Admits, Htt!Initiator, Htt!NoFailure,
       Htt!Failure, Htt!Refusal, Htt!InvalidResponse, Htt!InvalidCookie, Htt!Unknown,
       Htt!None
  <2>6. DeadlineIsTimeout'
    BY DEF DeadlineIsTimeout, FailedGoesNoFurther, SentAsProjected, Htt!NoFailure, Htt!Failure, Htt!None, Htt!TypeOK
  <2>. QED  BY <2>1, <2>2, <2>3, <2>4, <2>5, <2>6
<1>4. CASE Htt!ParseCookies
  <2>. USE <1>4 DEF Htt!ParseCookies
  <2>1. Htt!RecordedAsSent' /\ Htt!ObservedOnce' /\ SentAsProjected'
    BY NothingShowsYet
  <2>2. Htt!TypeOK'
    <3>1. failure' \in Htt!Failures \cup {Htt!NoFailure}
      BY SomeFailures DEF Htt!TypeOK
    <3>2. guard' \in {guard, [guard EXCEPT !.termination = "deadline"]}
      OBVIOUS
    <3>3. /\ request' \in Requests \cup {Htt!NoRequest} /\ protocol' \in {0, 405, 408, 413, 415}
          /\ at' \in Htt!Awaits \cup {"idle", "cookies", "open", "reply", "sending", "over"}
          /\ admission' \in {"unasked", "anonymous", "authenticated", "refused"}
      BY DEF Htt!TypeOK
    <3>4. scope' \in {Htt!None, "anonymous", "user"} /\ reply' \in Responses \cup {Htt!NoReply}
      BY DEF Htt!TypeOK, Htt!Initiator
    <3>. HIDE <1>4 DEF ExchangeInv
    <3>. QED  BY <3>1, <3>2, <3>3, <3>4, <1>4, TypesStay DEF ExchangeInv
  <2>3. OverrideNamesFailure'
    BY DEF OverrideNamesFailure, FailedGoesNoFurther, Htt!NoFailure, Htt!Failure, Htt!Refusal,
       Htt!InvalidResponse, Htt!InvalidCookie, Htt!Unknown,
       Htt!None
  <2>4. FailedGoesNoFurther'
    BY DEF FailedGoesNoFurther, SentAsProjected, Htt!NoFailure, Htt!Failure, Htt!Refusal,
       Htt!InvalidResponse, Htt!InvalidCookie, Htt!Unknown,
       Htt!None, Htt!NoReply, Htt!NoResponse
  <2>5. Passed' /\ Htt!HandlerIsAdmitted'
    BY DEF Passed, Htt!HandlerIsAdmitted, FailedGoesNoFurther, Htt!Admits, Htt!Initiator, Htt!NoFailure,
       Htt!Failure, Htt!Refusal, Htt!InvalidResponse, Htt!InvalidCookie, Htt!Unknown,
       Htt!None
  <2>6. DeadlineIsTimeout'
    BY DEF DeadlineIsTimeout, FailedGoesNoFurther, SentAsProjected, Htt!NoFailure, Htt!Failure, Htt!None, Htt!TypeOK
  <2>. QED  BY <2>1, <2>2, <2>3, <2>4, <2>5, <2>6
<1>5. CASE Htt!Admit
  <2>. USE <1>5 DEF Htt!Admit
  <2>1. Htt!RecordedAsSent' /\ Htt!ObservedOnce' /\ SentAsProjected'
    BY NothingShowsYet
  <2>2. Htt!TypeOK'
    <3>1. failure' \in Htt!Failures \cup {Htt!NoFailure}
      BY SomeFailures DEF Htt!TypeOK
    <3>2. guard' \in {guard, [guard EXCEPT !.termination = "deadline"]}
      OBVIOUS
    <3>3. /\ request' \in Requests \cup {Htt!NoRequest} /\ protocol' \in {0, 405, 408, 413, 415}
          /\ at' \in Htt!Awaits \cup {"idle", "cookies", "open", "reply", "sending", "over"}
          /\ admission' \in {"unasked", "anonymous", "authenticated", "refused"}
      BY DEF Htt!TypeOK
    <3>4. scope' \in {Htt!None, "anonymous", "user"} /\ reply' \in Responses \cup {Htt!NoReply}
      BY DEF Htt!TypeOK, Htt!Initiator
    <3>. HIDE <1>5 DEF ExchangeInv
    <3>. QED  BY <3>1, <3>2, <3>3, <3>4, <1>5, TypesStay DEF ExchangeInv
  <2>3. OverrideNamesFailure'
    BY DEF OverrideNamesFailure, FailedGoesNoFurther, Htt!NoFailure, Htt!Failure, Htt!Refusal,
       Htt!InvalidResponse, Htt!InvalidCookie, Htt!Unknown,
       Htt!None
  <2>4. FailedGoesNoFurther'
    BY DEF FailedGoesNoFurther, SentAsProjected, Htt!NoFailure, Htt!Failure, Htt!Refusal,
       Htt!InvalidResponse, Htt!InvalidCookie, Htt!Unknown,
       Htt!None, Htt!NoReply, Htt!NoResponse
  <2>5. Passed' /\ Htt!HandlerIsAdmitted'
    BY DEF Passed, Htt!HandlerIsAdmitted, FailedGoesNoFurther, Htt!Admits, Htt!Initiator, Htt!NoFailure,
       Htt!Failure, Htt!Refusal, Htt!InvalidResponse, Htt!InvalidCookie, Htt!Unknown,
       Htt!None
  <2>6. DeadlineIsTimeout'
    BY DEF DeadlineIsTimeout, FailedGoesNoFurther, SentAsProjected, Htt!NoFailure, Htt!Failure, Htt!None, Htt!TypeOK
  <2>. QED  BY <2>1, <2>2, <2>3, <2>4, <2>5, <2>6
<1>6. CASE Htt!AdmissionTimeout
  <2>. USE <1>6 DEF Htt!AdmissionTimeout
  <2>1. Htt!RecordedAsSent' /\ Htt!ObservedOnce' /\ SentAsProjected'
    BY NothingShowsYet
  <2>2. Htt!TypeOK'
    <3>1. failure' \in Htt!Failures \cup {Htt!NoFailure}
      BY SomeFailures DEF Htt!TypeOK
    <3>2. guard' \in {guard, [guard EXCEPT !.termination = "deadline"]}
      OBVIOUS
    <3>3. /\ request' \in Requests \cup {Htt!NoRequest} /\ protocol' \in {0, 405, 408, 413, 415}
          /\ at' \in Htt!Awaits \cup {"idle", "cookies", "open", "reply", "sending", "over"}
          /\ admission' \in {"unasked", "anonymous", "authenticated", "refused"}
      BY DEF Htt!TypeOK
    <3>4. scope' \in {Htt!None, "anonymous", "user"} /\ reply' \in Responses \cup {Htt!NoReply}
      BY DEF Htt!TypeOK, Htt!Initiator
    <3>. HIDE <1>6 DEF ExchangeInv
    <3>. QED  BY <3>1, <3>2, <3>3, <3>4, <1>6, TypesStay DEF ExchangeInv
  <2>3. OverrideNamesFailure'
    BY DEF OverrideNamesFailure, FailedGoesNoFurther, Htt!NoFailure, Htt!Failure, Htt!Refusal,
       Htt!InvalidResponse, Htt!InvalidCookie, Htt!Unknown,
       Htt!None
  <2>4. FailedGoesNoFurther'
    BY DEF FailedGoesNoFurther, SentAsProjected, Htt!NoFailure, Htt!Failure, Htt!Refusal,
       Htt!InvalidResponse, Htt!InvalidCookie, Htt!Unknown,
       Htt!None, Htt!NoReply, Htt!NoResponse
  <2>5. Passed' /\ Htt!HandlerIsAdmitted'
    BY DEF Passed, Htt!HandlerIsAdmitted, FailedGoesNoFurther, Htt!Admits, Htt!Initiator, Htt!NoFailure,
       Htt!Failure, Htt!Refusal, Htt!InvalidResponse, Htt!InvalidCookie, Htt!Unknown,
       Htt!None
  <2>6. DeadlineIsTimeout'
    BY DEF DeadlineIsTimeout, FailedGoesNoFurther, SentAsProjected, Htt!NoFailure, Htt!Failure, Htt!None, Htt!TypeOK
  <2>. QED  BY <2>1, <2>2, <2>3, <2>4, <2>5, <2>6
<1>7. CASE Htt!OpenScope
  <2>. USE <1>7 DEF Htt!OpenScope
  <2>1. Htt!RecordedAsSent' /\ Htt!ObservedOnce' /\ SentAsProjected'
    BY NothingShowsYet
  <2>2. Htt!TypeOK'
    <3>1. failure' \in Htt!Failures \cup {Htt!NoFailure}
      BY SomeFailures DEF Htt!TypeOK
    <3>2. guard' \in {guard, [guard EXCEPT !.termination = "deadline"]}
      OBVIOUS
    <3>3. /\ request' \in Requests \cup {Htt!NoRequest} /\ protocol' \in {0, 405, 408, 413, 415}
          /\ at' \in Htt!Awaits \cup {"idle", "cookies", "open", "reply", "sending", "over"}
          /\ admission' \in {"unasked", "anonymous", "authenticated", "refused"}
      BY DEF Htt!TypeOK
    <3>4. scope' \in {Htt!None, "anonymous", "user"} /\ reply' \in Responses \cup {Htt!NoReply}
      BY DEF Htt!TypeOK, Htt!Initiator
    <3>. HIDE <1>7 DEF ExchangeInv
    <3>. QED  BY <3>1, <3>2, <3>3, <3>4, <1>7, TypesStay DEF ExchangeInv
  <2>3. OverrideNamesFailure'
    BY DEF OverrideNamesFailure, FailedGoesNoFurther, Htt!NoFailure, Htt!Failure, Htt!Refusal,
       Htt!InvalidResponse, Htt!InvalidCookie, Htt!Unknown,
       Htt!None
  <2>4. FailedGoesNoFurther'
    BY DEF FailedGoesNoFurther, SentAsProjected, Htt!NoFailure, Htt!Failure, Htt!Refusal,
       Htt!InvalidResponse, Htt!InvalidCookie, Htt!Unknown,
       Htt!None, Htt!NoReply, Htt!NoResponse
  <2>5. Passed' /\ Htt!HandlerIsAdmitted'
    BY DEF Passed, Htt!HandlerIsAdmitted, FailedGoesNoFurther, Htt!Admits, Htt!Initiator, Htt!NoFailure,
       Htt!Failure, Htt!Refusal, Htt!InvalidResponse, Htt!InvalidCookie, Htt!Unknown,
       Htt!None
  <2>6. DeadlineIsTimeout'
    BY DEF DeadlineIsTimeout, FailedGoesNoFurther, SentAsProjected, Htt!NoFailure, Htt!Failure, Htt!None, Htt!TypeOK
  <2>. QED  BY <2>1, <2>2, <2>3, <2>4, <2>5, <2>6
<1>8. CASE Htt!Handle
  <2>. USE <1>8 DEF Htt!Handle
  <2>1. Htt!RecordedAsSent' /\ Htt!ObservedOnce' /\ SentAsProjected'
    BY NothingShowsYet
  <2>2. Htt!TypeOK'
    <3>1. failure' \in Htt!Failures \cup {Htt!NoFailure}
      BY SomeFailures DEF Htt!TypeOK
    <3>2. guard' \in {guard, [guard EXCEPT !.termination = "deadline"]}
      OBVIOUS
    <3>3. /\ request' \in Requests \cup {Htt!NoRequest} /\ protocol' \in {0, 405, 408, 413, 415}
          /\ at' \in Htt!Awaits \cup {"idle", "cookies", "open", "reply", "sending", "over"}
          /\ admission' \in {"unasked", "anonymous", "authenticated", "refused"}
      BY DEF Htt!TypeOK
    <3>4. scope' \in {Htt!None, "anonymous", "user"} /\ reply' \in Responses \cup {Htt!NoReply}
      BY DEF Htt!TypeOK, Htt!Initiator
    <3>. HIDE <1>8 DEF ExchangeInv
    <3>. QED  BY <3>1, <3>2, <3>3, <3>4, <1>8, TypesStay DEF ExchangeInv
  <2>3. OverrideNamesFailure'
    BY DEF OverrideNamesFailure, FailedGoesNoFurther, Htt!NoFailure, Htt!Failure, Htt!Refusal,
       Htt!InvalidResponse, Htt!InvalidCookie, Htt!Rejection, Htt!Unknown,
       Htt!None
  <2>4. FailedGoesNoFurther'
    BY DEF FailedGoesNoFurther, SentAsProjected, Htt!NoFailure, Htt!Failure, Htt!Refusal,
       Htt!InvalidResponse, Htt!InvalidCookie, Htt!Rejection, Htt!Unknown,
       Htt!None, Htt!NoReply, Htt!NoResponse, Htt!Validates, Htt!ValidShape
  <2>5. Passed' /\ Htt!HandlerIsAdmitted'
    BY DEF Passed, Htt!HandlerIsAdmitted, FailedGoesNoFurther, Htt!Admits, Htt!Initiator, Htt!NoFailure,
       Htt!Failure, Htt!Refusal, Htt!InvalidResponse, Htt!InvalidCookie, Htt!Rejection, Htt!Unknown,
       Htt!None
  <2>6. DeadlineIsTimeout'
    BY DEF DeadlineIsTimeout, FailedGoesNoFurther, SentAsProjected, Htt!NoFailure, Htt!Failure, Htt!None, Htt!TypeOK
  <2>. QED  BY <2>1, <2>2, <2>3, <2>4, <2>5, <2>6
<1>9. CASE Htt!HandlerTimeout
  <2>. USE <1>9 DEF Htt!HandlerTimeout
  <2>1. Htt!RecordedAsSent' /\ Htt!ObservedOnce' /\ SentAsProjected'
    BY NothingShowsYet
  <2>2. Htt!TypeOK'
    <3>1. failure' \in Htt!Failures \cup {Htt!NoFailure}
      BY SomeFailures DEF Htt!TypeOK
    <3>2. guard' \in {guard, [guard EXCEPT !.termination = "deadline"]}
      OBVIOUS
    <3>3. /\ request' \in Requests \cup {Htt!NoRequest} /\ protocol' \in {0, 405, 408, 413, 415}
          /\ at' \in Htt!Awaits \cup {"idle", "cookies", "open", "reply", "sending", "over"}
          /\ admission' \in {"unasked", "anonymous", "authenticated", "refused"}
      BY DEF Htt!TypeOK
    <3>4. scope' \in {Htt!None, "anonymous", "user"} /\ reply' \in Responses \cup {Htt!NoReply}
      BY DEF Htt!TypeOK, Htt!Initiator
    <3>. HIDE <1>9 DEF ExchangeInv
    <3>. QED  BY <3>1, <3>2, <3>3, <3>4, <1>9, TypesStay DEF ExchangeInv
  <2>3. OverrideNamesFailure'
    BY DEF OverrideNamesFailure, FailedGoesNoFurther, Htt!NoFailure, Htt!Failure, Htt!Refusal,
       Htt!InvalidResponse, Htt!InvalidCookie, Htt!Unknown,
       Htt!None
  <2>4. FailedGoesNoFurther'
    BY DEF FailedGoesNoFurther, SentAsProjected, Htt!NoFailure, Htt!Failure, Htt!Refusal,
       Htt!InvalidResponse, Htt!InvalidCookie, Htt!Unknown,
       Htt!None, Htt!NoReply, Htt!NoResponse
  <2>5. Passed' /\ Htt!HandlerIsAdmitted'
    BY DEF Passed, Htt!HandlerIsAdmitted, FailedGoesNoFurther, Htt!Admits, Htt!Initiator, Htt!NoFailure,
       Htt!Failure, Htt!Refusal, Htt!InvalidResponse, Htt!InvalidCookie, Htt!Unknown,
       Htt!None
  <2>6. DeadlineIsTimeout'
    BY DEF DeadlineIsTimeout, FailedGoesNoFurther, SentAsProjected, Htt!NoFailure, Htt!Failure, Htt!None, Htt!TypeOK
  <2>. QED  BY <2>1, <2>2, <2>3, <2>4, <2>5, <2>6
<1>. QED  BY <1>1, <1>2, <1>3, <1>4, <1>5, <1>6, <1>7, <1>8, <1>9

(* The response that is projected: the handler's, or one that keeps to the *)
(* failure.                                                                *)
LEMMA ProjectedIs ==
  ASSUME ExchangeInv, failure = Htt!NoFailure => reply # Htt!NoReply
  PROVE  /\ Htt!Projected \in [status : Htt!Statuses, body : BOOLEAN, own : BOOLEAN,
                               allow : SUBSET (Htt!KnownMethods \cup {"HEAD"})]
         /\ Htt!Projected # Htt!NoResponse /\ Htt!Projected.status \in Nat \ {0}
         /\ protocol # 0 => Htt!Projected.status = protocol
         /\ protocol = 0 => Htt!Projected.status \notin {405, 408, 413, 415}
         /\ Htt!Projected.own => failure = Htt!NoFailure \/ failure.refused
<1>1. CASE failure = Htt!NoFailure
  <2>1. Htt!Validates(reply) /\ reply \in Responses /\ reply.body \in BOOLEAN
    BY <1>1, ServerAssumption DEF ExchangeInv, FailedGoesNoFurther, Htt!TypeOK, Htt!RoutesAssumption
  <2>2. Htt!Projected = [status |-> reply.status, body |-> reply.body, own |-> TRUE, allow |-> {}]
    BY <1>1 DEF Htt!Projected
  <2>3. reply.status \in {200, 201, 202, 204, 303} /\ reply.status \in Htt!Statuses
    BY <2>1 DEF Htt!Validates, Htt!ValidShape, Htt!Statuses
  <2>4. protocol = 0
    BY <1>1 DEF ExchangeInv, OverrideNamesFailure, Htt!TypeOK, Htt!NoFailure, Htt!Failure, Htt!None
  <2>. HIDE DEF Htt!Projected
  <2>5. Htt!Projected # Htt!NoResponse
    BY <2>2, <2>3 DEF Htt!NoResponse
  <2>. QED  BY <1>1, <2>1, <2>2, <2>3, <2>4, <2>5
<1>2. CASE failure # Htt!NoFailure
  <2>1. failure \in Htt!Failures
    BY <1>2 DEF ExchangeInv, Htt!TypeOK
  <2>2. failure.kind \in Htt!Kinds /\ failure.refused \in BOOLEAN
    BY <2>1 DEF Htt!Failures
  <2>3. Htt!StatusOf(failure.kind) \in {400, 401, 403, 404, 409, 429, 500, 503}
        /\ Htt!StatusOf(failure.kind) \in Htt!Statuses
    BY <2>2, SomeStatuses DEF Htt!Statuses
  <2>4. protocol \in {0, 405, 408, 413, 415} /\ protocol \in Htt!Statuses
    <3>1. protocol \in {0, 405, 408, 413, 415}
      BY DEF ExchangeInv, Htt!TypeOK
    <3>. QED  BY <3>1, SomeStatuses
  <2>5. Htt!AllowSet(request.path) \subseteq Htt!KnownMethods \cup {"HEAD"}
    BY ServerAssumption DEF Htt!AllowSet, Htt!Registered, Htt!RoutesAssumption
  <2>. DEFINE status == IF protocol # 0 THEN protocol ELSE Htt!StatusOf(failure.kind)
              allow  == IF protocol = 405 THEN Htt!AllowSet(request.path) ELSE {}
  <2>6. Htt!Projected = [status |-> status, body |-> TRUE, own |-> failure.refused, allow |-> allow]
    BY <1>2 DEF Htt!Projected
  <2>7. /\ status \in Htt!Statuses /\ status \in Nat \ {0}
        /\ protocol # 0 => status = protocol
        /\ protocol = 0 => status \notin {405, 408, 413, 415}
    BY <2>3, <2>4
  <2>8. allow \in SUBSET (Htt!KnownMethods \cup {"HEAD"})
    BY <2>5
  <2>. HIDE DEF status, allow
  <2>9. Htt!Projected # Htt!NoResponse
    BY <2>6, <2>7 DEF Htt!NoResponse
  <2>. QED  BY <2>2, <2>6, <2>7, <2>8, <2>9
<1>. QED  BY <1>1, <1>2

(* Once the facts are settled they stay, and so does what they project.    *)
Settled == UNCHANGED <<request, failure, protocol, admission, scope, reply>>

LEMMA SettledKeeps ==
  ASSUME ExchangeInv, Settled, at' \in {"sending", "over"},
         at \in {"reply", "sending"} \/ UNCHANGED response, at \in {"reply", "sending"} \/ at' = "over"
  PROVE  /\ Htt!HandlerIsAdmitted' /\ OverrideNamesFailure' /\ FailedGoesNoFurther'
         /\ Passed' /\ Htt!Projected' = Htt!Projected
<1>. USE DEF Settled, ExchangeInv
<1>1. Htt!HandlerIsAdmitted' /\ OverrideNamesFailure'
  BY DEF Htt!HandlerIsAdmitted, OverrideNamesFailure, Htt!Initiator
<1>2. FailedGoesNoFurther'
  BY DEF FailedGoesNoFurther, Htt!Awaits
<1>3. Passed'
  BY DEF Passed, Htt!Admits
<1>4. Htt!Projected' = Htt!Projected
  BY DEF Htt!Projected
<1>. QED  BY <1>1, <1>2, <1>3, <1>4

(* The record that a guard leaves is the one of what was sent.             *)
LEMMA RecordsAsSent ==
  ASSUME ExchangeInv, record = <<>>, Settled, record' = Htt!Finished(guard'),
         guard' \in [status : Htt!Statuses,
                     termination : {"peer_closed", "deadline", "response_completed"}],
         guard'.termination = "response_completed" => guard'.status # 0,
         guard'.termination = "response_completed" => (failure = Htt!NoFailure => reply # Htt!NoReply),
         guard'.status # 0 => ~unread' /\ guard'.status = response'.status,
         DeadlineIsTimeout'
  PROVE  /\ Htt!RecordedAsSent' /\ Htt!ObservedOnce' /\ record' # <<>>
         /\ record' \in {<<r>> : r \in [method : Htt!KnownMethods \cup {"HEAD", "_OTHER"},
                          outcome : {"success", "refused", "failed", "canceled", "timed_out"},
                          status : Htt!Statuses,
                          termination : {"peer_closed", "deadline", "response_completed"}]}
<1>. DEFINE R == [method : Htt!KnownMethods \cup {"HEAD", "_OTHER"},
                  outcome : {"success", "refused", "failed", "canceled", "timed_out"},
                  status : Htt!Statuses,
                  termination : {"peer_closed", "deadline", "response_completed"}]
<1>1. PICK r \in R :
        /\ Htt!Finished(guard') = <<r>>
        /\ r.status = guard'.status /\ r.termination = guard'.termination
        /\ r.outcome = "success" => /\ failure = Htt!NoFailure /\ guard'.status < 400
                                    /\ guard'.termination = "response_completed"
  BY FinishedOnce DEF ExchangeInv
<1>. HIDE DEF R
<1>2. record' = <<r>> /\ Len(record') = 1 /\ DOMAIN record' = {1} /\ record'[1] = r
  BY <1>1
<1>3. Htt!RecordedAsSent'
  <2>1. /\ r.status # 0 => ~unread' /\ r.status = response'.status
        /\ r.termination = "response_completed" => r.status # 0
        /\ r.outcome = "success" => failure = Htt!NoFailure /\ reply # Htt!NoReply /\ r.status < 400
        /\ r.termination = "deadline" => failure.type \in {"http.timeout", "http.request_timeout"}
    BY <1>1 DEF DeadlineIsTimeout, Settled
  <2>. QED  BY <1>2, <2>1 DEF Htt!RecordedAsSent, Settled
<1>4. Htt!ObservedOnce'
  BY <1>2 DEF Htt!ObservedOnce
<1>5. record' # <<>> /\ record' \in {<<x>> : x \in R}
  BY <1>2
<1>. QED  BY <1>3, <1>4, <1>5 DEF R

(* A record that is there stays what it is.                                *)
LEMMA RecordsStay ==
  ASSUME ExchangeInv, record # <<>>, Settled, UNCHANGED <<record, unread, response>>
  PROVE  Htt!RecordedAsSent' /\ Htt!ObservedOnce'
BY DEF ExchangeInv, Settled, Htt!RecordedAsSent, Htt!ObservedOnce

LEMMA LateSteps ==
  ASSUME ExchangeInv,
         Htt!Reply \/ Htt!PollFrame \/ Htt!DropBody \/ Htt!DropRequest \/ Htt!AdmissionPanics
  PROVE  ExchangeInv'
<1>. USE DEF Htt!GoOn
<1>1. guard \in [status : Htt!Statuses,
                 termination : {"peer_closed", "deadline", "response_completed"}]
  BY DEF ExchangeInv, Htt!TypeOK
<1>2. CASE Htt!Reply
  <2>. USE <1>2 DEF Htt!Reply
  <2>1. failure = Htt!NoFailure => reply # Htt!NoReply
    BY DEF ExchangeInv, FailedGoesNoFurther
  <2>2. /\ Htt!Projected \in [status : Htt!Statuses, body : BOOLEAN, own : BOOLEAN,
                              allow : SUBSET (Htt!KnownMethods \cup {"HEAD"})]
        /\ Htt!Projected.status \in Nat \ {0}
    BY <2>1, ProjectedIs
  <2>. HIDE DEF Htt!Projected
  <2>3. Settled /\ at = "reply" /\ at' = "sending" /\ response' = Htt!Projected /\ record' = record
    BY DEF Settled
  <2>4. /\ unread' \in BOOLEAN
        /\ guard' = [status |-> IF unread' THEN 0 ELSE Htt!Projected.status,
                     termination |-> IF guard.termination = "deadline" THEN "deadline"
                                     ELSE "response_completed"]
    OBVIOUS
  <2>5. 0 \in Htt!Statuses
    BY SomeStatuses
  <2>6. /\ guard' \in [status : Htt!Statuses,
                       termination : {"peer_closed", "deadline", "response_completed"}]
        /\ guard'.termination \in {"response_completed", "deadline"}
        /\ guard'.termination = "deadline" => guard.termination = "deadline"
        /\ unread' => guard'.status = 0
        /\ ~unread' => guard'.status = Htt!Projected.status
    BY <2>2, <2>4, <2>5
  <2>7. record = <<>>
    BY <2>3 DEF ExchangeInv, SentAsProjected
  <2>. HIDE <1>2 DEF Htt!Reply
  <2>8. DeadlineIsTimeout'
    BY <2>3, <2>6 DEF ExchangeInv, DeadlineIsTimeout, Settled
  <2>9. /\ Htt!HandlerIsAdmitted' /\ OverrideNamesFailure' /\ FailedGoesNoFurther'
        /\ Passed' /\ Htt!Projected' = Htt!Projected
    BY <2>3, SettledKeeps
  <2>10. SentAsProjected'
    BY <2>3, <2>6, <2>7, <2>9 DEF SentAsProjected
  <2>11. Htt!RecordedAsSent' /\ Htt!ObservedOnce'
    BY <2>3, <2>7 DEF Htt!RecordedAsSent, Htt!ObservedOnce
  <2>12. Htt!TypeOK'
    BY <2>2, <2>3, <2>4, <2>6 DEF ExchangeInv, Settled, Htt!TypeOK
  <2>. QED  BY <2>8, <2>9, <2>10, <2>11, <2>12 DEF ExchangeInv
<1>3. CASE Htt!PollFrame
  <2>. USE <1>3 DEF Htt!PollFrame
  <2>1. failure = Htt!NoFailure => reply # Htt!NoReply
    BY DEF ExchangeInv, FailedGoesNoFurther
  <2>2. /\ Settled /\ at = "sending" /\ at' = at /\ response' = response /\ unread' = FALSE
        /\ guard' = [guard EXCEPT !.status = response.status] /\ record' = Htt!Finished(guard')
    BY DEF Settled
  <2>3. response = Htt!Projected
    BY <2>2 DEF ExchangeInv, SentAsProjected
  <2>4. response.status \in Htt!Statuses /\ response.status \in Nat \ {0}
    BY <2>1, <2>3, ProjectedIs
  <2>5. guard' \in [status : Htt!Statuses,
                    termination : {"peer_closed", "deadline", "response_completed"}]
        /\ guard'.termination = guard.termination /\ guard'.status = response.status
    BY <1>1, <2>2, <2>4
  <2>. HIDE <1>3 DEF Htt!PollFrame
  <2>6. DeadlineIsTimeout'
    BY <2>2, <2>5 DEF ExchangeInv, DeadlineIsTimeout, Settled
  <2>7. /\ Htt!HandlerIsAdmitted' /\ OverrideNamesFailure' /\ FailedGoesNoFurther'
        /\ Passed' /\ Htt!Projected' = Htt!Projected
    BY <2>2, SettledKeeps
  <2>8. SentAsProjected'
    BY <2>2, <2>3, <2>5, <2>7 DEF ExchangeInv, SentAsProjected
  <2>9. Settled /\ at' = at /\ response' = response /\ unread' \in BOOLEAN
    BY <2>2
  <2>10. CASE record = <<>>
    <3>1. /\ Htt!RecordedAsSent' /\ Htt!ObservedOnce' /\ record' # <<>>
          /\ record' \in {<<r>> : r \in [method : Htt!KnownMethods \cup {"HEAD", "_OTHER"},
                           outcome : {"success", "refused", "failed", "canceled", "timed_out"},
                           status : Htt!Statuses,
                           termination : {"peer_closed", "deadline", "response_completed"}]}
      BY <2>1, <2>2, <2>4, <2>5, <2>6, <2>10, RecordsAsSent
    <3>2. Htt!TypeOK'
      BY <2>5, <2>9, <3>1 DEF ExchangeInv, Settled, Htt!TypeOK
    <3>. QED  BY <2>6, <2>7, <2>8, <3>1, <3>2 DEF ExchangeInv
  <2>11. CASE record # <<>>
    <3>1. record' = record /\ unread' = unread
      BY <2>2, <2>11 DEF Htt!Finished, ExchangeInv, SentAsProjected, Htt!TypeOK
    <3>2. Htt!TypeOK'
      BY <2>5, <2>9, <3>1 DEF ExchangeInv, Settled, Htt!TypeOK
    <3>3. Htt!RecordedAsSent' /\ Htt!ObservedOnce'
      BY <2>2, <2>11, <3>1, RecordsStay
    <3>. QED  BY <2>6, <2>7, <2>8, <3>2, <3>3 DEF ExchangeInv
  <2>. QED  BY <2>10, <2>11
<1>4. CASE Htt!DropBody
  <2>. USE <1>4 DEF Htt!DropBody
  <2>1. failure = Htt!NoFailure => reply # Htt!NoReply
    BY DEF ExchangeInv, FailedGoesNoFurther
  <2>2. /\ Settled /\ at = "sending" /\ at' = "over" /\ response' = response /\ unread' = unread
        /\ guard' = (IF unread THEN [guard EXCEPT !.termination = "peer_closed"] ELSE guard)
        /\ record' = Htt!Finished(guard')
    BY DEF Settled
  <2>3. /\ response = Htt!Projected /\ unread \in BOOLEAN
        /\ guard.termination \in {"response_completed", "deadline"}
        /\ IF unread THEN guard.status = 0 /\ record = <<>> ELSE guard.status = response.status
    BY <2>2 DEF ExchangeInv, SentAsProjected, Htt!TypeOK
  <2>4. response.status \in Htt!Statuses /\ response.status \in Nat \ {0}
    BY <2>1, <2>3, ProjectedIs
  <2>5. /\ guard' \in [status : Htt!Statuses,
                       termination : {"peer_closed", "deadline", "response_completed"}]
        /\ guard'.termination = "deadline" => guard.termination = "deadline"
        /\ unread => guard'.termination = "peer_closed" /\ guard'.status = 0
        /\ ~unread => guard'.status = response.status
    BY <1>1, <2>2, <2>3
  <2>. HIDE <1>4 DEF Htt!DropBody
  <2>6. DeadlineIsTimeout'
    BY <2>2, <2>5 DEF ExchangeInv, DeadlineIsTimeout, Settled
  <2>7. /\ Htt!HandlerIsAdmitted' /\ OverrideNamesFailure' /\ FailedGoesNoFurther'
        /\ Passed' /\ Htt!Projected' = Htt!Projected
    BY <2>2, SettledKeeps
  <2>8. SentAsProjected'
    BY <2>2, <2>3, <2>7 DEF SentAsProjected
  <2>9. Settled /\ at' = "over" /\ response' = response /\ unread' = unread
    BY <2>2
  <2>10. CASE record = <<>>
    <3>1. /\ Htt!RecordedAsSent' /\ Htt!ObservedOnce' /\ record' # <<>>
          /\ record' \in {<<r>> : r \in [method : Htt!KnownMethods \cup {"HEAD", "_OTHER"},
                           outcome : {"success", "refused", "failed", "canceled", "timed_out"},
                           status : Htt!Statuses,
                           termination : {"peer_closed", "deadline", "response_completed"}]}
      BY <2>1, <2>2, <2>3, <2>4, <2>5, <2>6, <2>10, RecordsAsSent
    <3>2. Htt!TypeOK'
      BY <2>5, <2>9, <3>1 DEF ExchangeInv, Settled, Htt!TypeOK
    <3>. QED  BY <2>6, <2>7, <2>8, <3>1, <3>2 DEF ExchangeInv
  <2>11. CASE record # <<>>
    <3>1. record' = record
      BY <2>2, <2>11 DEF Htt!Finished
    <3>2. Htt!TypeOK'
      BY <2>5, <2>9, <3>1 DEF ExchangeInv, Settled, Htt!TypeOK
    <3>3. Htt!RecordedAsSent' /\ Htt!ObservedOnce'
      BY <2>2, <2>11, <3>1, RecordsStay
    <3>. QED  BY <2>6, <2>7, <2>8, <3>2, <3>3 DEF ExchangeInv
  <2>. QED  BY <2>10, <2>11
<1>5. CASE Htt!DropRequest \/ Htt!AdmissionPanics
  <2>1. /\ Settled /\ at \in Htt!Awaits /\ at' = "over" /\ response' = response
        /\ unread' = unread /\ guard' = guard /\ record' = Htt!Finished(guard')
    BY <1>5 DEF Settled, Htt!DropRequest, Htt!AdmissionPanics, Htt!Awaits
  <2>2. /\ failure = Htt!NoFailure /\ guard.status = 0 /\ ~unread /\ record = <<>>
        /\ guard.termination \in {"peer_closed", "deadline"} /\ response = Htt!NoResponse
    BY <2>1 DEF ExchangeInv, FailedGoesNoFurther, SentAsProjected, Htt!Awaits
  <2>3. DeadlineIsTimeout'
    BY <2>1 DEF ExchangeInv, DeadlineIsTimeout, Settled
  <2>4. /\ Htt!HandlerIsAdmitted' /\ OverrideNamesFailure' /\ FailedGoesNoFurther'
        /\ Passed' /\ Htt!Projected' = Htt!Projected
    BY <2>1, SettledKeeps
  <2>5. SentAsProjected'
    BY <2>1, <2>2 DEF SentAsProjected
  <2>6. /\ Htt!RecordedAsSent' /\ Htt!ObservedOnce' /\ record' # <<>>
        /\ record' \in {<<r>> : r \in [method : Htt!KnownMethods \cup {"HEAD", "_OTHER"},
                         outcome : {"success", "refused", "failed", "canceled", "timed_out"},
                         status : Htt!Statuses,
                         termination : {"peer_closed", "deadline", "response_completed"}]}
    BY <1>1, <2>1, <2>2, <2>3, RecordsAsSent
  <2>7. Htt!TypeOK'
    BY <1>1, <2>1, <2>6 DEF ExchangeInv, Settled, Htt!TypeOK
  <2>. QED  BY <2>3, <2>4, <2>5, <2>6, <2>7 DEF ExchangeInv
<1>. QED  BY <1>2, <1>3, <1>4, <1>5

LEMMA ExchangeNext ==
  ASSUME ExchangeInv, Htt!Next
  PROVE  ExchangeInv'
BY EarlySteps, LateSteps DEF Htt!Next

LEMMA ExchangeStepKeeps ==
  ASSUME ExchangeInv, [Next]_server
  PROVE  ExchangeInv'
<1>1. CASE Htt!Next
  BY <1>1, ExchangeNext
<1>2. CASE UNCHANGED exchange
  <2>. USE <1>2 DEF exchange, ExchangeInv
  <2>1. Htt!TypeOK'
    BY DEF Htt!TypeOK
  <2>2. Htt!HandlerIsAdmitted' /\ OverrideNamesFailure' /\ FailedGoesNoFurther' /\ DeadlineIsTimeout'
    BY DEF Htt!HandlerIsAdmitted, Htt!Initiator, OverrideNamesFailure, FailedGoesNoFurther,
       DeadlineIsTimeout
  <2>3. Htt!RecordedAsSent' /\ Htt!ObservedOnce'
    BY DEF Htt!RecordedAsSent, Htt!ObservedOnce
  <2>4. Passed'
    BY DEF Passed, Htt!Admits, Htt!Initiator
  <2>5. SentAsProjected'
    <3>1. Htt!Projected' = Htt!Projected
      BY DEF Htt!Projected
    <3>. QED  BY <3>1 DEF SentAsProjected
  <2>. QED  BY <2>1, <2>2, <2>3, <2>4, <2>5
<1>. QED
  BY <1>1, <1>2 DEF Next, ProcessStep, ExchangeStep, LogStep, HashingStep, MailStep, server

LEMMA ExchangeInvariant == Spec => []ExchangeInv
<1>1. Init => ExchangeInv
  BY ExchangeInit DEF Init
<1>2. ExchangeInv /\ [Next]_server => ExchangeInv'
  BY ExchangeStepKeeps
<1>. QED
  BY <1>1, <1>2, PTL DEF Spec

(* An exchange is decided by its first failure, or by the handler in its   *)
(* actor's scope; that is what is sent, and it is recorded as sent, once:  *)
(* for any routes, requests and responses, wherever it is dropped (handle, *)
(* Guard, ObservedBody).                                                   *)
THEOREM ExchangeStaysTold == Spec => ExchangeIsTold
<1>. DEFINE Told == /\ Htt!TypeOK /\ Htt!HandlerIsAdmitted /\ Htt!ProblemOfFailure
                    /\ Htt!RecordedAsSent /\ Htt!ObservedOnce
            First == failure # Htt!NoFailure => failure' = failure
<1>1. ASSUME ExchangeInv
      PROVE  Told
  <2>. SUFFICES ASSUME response # Htt!NoResponse
                PROVE  /\ (response.status = 405) <=> (failure.type = "http.method_not_allowed")
                       /\ (response.status = 408) <=> (failure.type = "http.request_timeout")
                       /\ (response.status = 413) <=> (failure.type = "http.body_too_large")
                       /\ (response.status = 415) <=> (failure.type = "http.unsupported_media_type")
                       /\ response.own => failure = Htt!NoFailure \/ failure.refused
    BY <1>1 DEF ExchangeInv, Htt!ProblemOfFailure
  <2>1. response = Htt!Projected /\ (failure = Htt!NoFailure => reply # Htt!NoReply)
    BY <1>1 DEF ExchangeInv, SentAsProjected, FailedGoesNoFurther
  <2>2. /\ protocol # 0 => response.status = protocol
        /\ protocol = 0 => response.status \notin {405, 408, 413, 415}
        /\ response.own => failure = Htt!NoFailure \/ failure.refused
    BY <1>1, <2>1, ProjectedIs
  <2>3. protocol \in {0, 405, 408, 413, 415} /\ OverrideNamesFailure
    BY <1>1 DEF ExchangeInv, Htt!TypeOK
  <2>. QED  BY <2>2, <2>3 DEF OverrideNamesFailure
<1>2. ASSUME ExchangeInv, [Next]_server
      PROVE  [First]_exchange
  <2>1. at \in Htt!Awaits \cup {"idle"} => failure = Htt!NoFailure
    BY <1>2 DEF ExchangeInv, FailedGoesNoFurther
  <2>2. CASE Htt!Next
    BY <2>1, <2>2 DEF Htt!Next, Htt!Awaits, Htt!Arrive, Htt!ReadBody, Htt!BodyTimeout, Htt!ParseCookies,
       Htt!Admit, Htt!AdmissionTimeout, Htt!AdmissionPanics, Htt!OpenScope, Htt!Handle,
       Htt!HandlerTimeout, Htt!Reply, Htt!PollFrame, Htt!DropBody, Htt!DropRequest
  <2>3. CASE UNCHANGED exchange
    BY <2>3
  <2>. QED
    BY <1>2, <2>2, <2>3 DEF Next, ProcessStep, ExchangeStep, LogStep, HashingStep, MailStep, server
<1>3. Spec => []Told
  BY <1>1, ExchangeInvariant, PTL
<1>4. Spec => [][First]_exchange
  BY <1>2, ExchangeInvariant, PTL DEF Spec
<1>. QED
  BY <1>3, <1>4 DEF ExchangeIsTold, Htt!FirstFailureWins, Htt!vars, exchange
=============================================================================
