------------------------------- MODULE Server -------------------------------
(***************************************************************************)
(* One server: the process that starts and drains (root/http.rs), the      *)
(* exchanges it serves (shared/http/axum), its logger (shared/logger), the *)
(* password hasher (identity/password_hash) and the mailer                 *)
(* (identity/infra/smtp).  They share no state: a step of the server is a  *)
(* step of one of them.                                                    *)
(***************************************************************************)
EXTENDS Integers, Sequences, FiniteSets

CONSTANTS Conns, Slots, Probes, Budget, BrokerTime, WorkTime, Transports,   \* Process
          Routes, Requests, Responses,                            \* HttpRequests
          Emitters, Capacity, MaxEmits, SinkFaults,               \* LogDelivery
          Callers, MaxConcurrent, MaxQueued,                      \* Hashing
          Senders, Changes                                        \* Mailing

VARIABLES config, step, opened, released, gate, probe, listening, conn, loops, blocking,
          audit, left, elapsed, overrun, code
process == <<config, step, opened, released, gate, probe, listening, conn, <<loops, blocking>>,
             audit, <<left, elapsed, overrun>>, code>>
Prc == INSTANCE Process WITH stage <- step

VARIABLES request, at, failure, protocol, admission, scope, reply, guard, response, unread,
          record
exchange == <<request, at, failure, protocol, admission, scope, reply, guard, response,
              unread, record>>
Htt == INSTANCE HttpRequests WITH stage <- at

VARIABLES open, lock, emitter, queue, worker, done, accepted, written, dropped, failed,
          emits, sunk, sinkFaults, stopping
log == <<open, lock, emitter, queue, worker, done, accepted, written, dropped, failed,
         emits, sunk, sinkFaults, stopping>>
Log == INSTANCE LogDelivery WITH faults <- sinkFaults, closing <- stopping

VARIABLES pc, free, waiters, granted, queued, work, hashed
hashing == <<pc, free, waiters, granted, queued, work, hashed>>
Hsh == INSTANCE Hashing WITH answer <- hashed

VARIABLES smtp, account, password, stored, mailing, asked, found, answer, submitted, wire,
          smtpReply, inbox
mail == <<smtp, account, password, stored, mailing, asked, found, answer, submitted, wire,
          smtpReply, inbox>>
Mai == INSTANCE Mailing WITH
         Requests <- Senders, stage <- mailing, sent <- submitted, reply <- smtpReply

ASSUME ServerAssumption ==
  /\ Prc!ProcessAssumption /\ Htt!RoutesAssumption /\ Log!LogAssumption
  /\ Hsh!HashingAssumption /\ Mai!MailingAssumption
-----------------------------------------------------------------------------
Init == Prc!Init /\ Htt!Init /\ Log!Init /\ Hsh!Init /\ Mai!Init

ProcessStep  == UNCHANGED <<exchange, log, hashing, mail>> /\ Prc!Next
ExchangeStep == UNCHANGED <<process, log, hashing, mail>> /\ Htt!Next
LogStep      == UNCHANGED <<process, exchange, hashing, mail>> /\ Log!Next
HashingStep  == UNCHANGED <<process, exchange, log, mail>> /\ Hsh!Next
MailStep     == UNCHANGED <<process, exchange, log, hashing>> /\ Mai!Next
Next == ProcessStep \/ ExchangeStep \/ LogStep \/ HashingStep \/ MailStep

server == <<process, exchange, log, hashing, mail>>
Spec == Init /\ [][Next]_server
-----------------------------------------------------------------------------
(* What was opened is closed in its order and within the budget, and the   *)
(* pool outlives the handlers (run_http).                                  *)
ShutdownInOrder == Prc!ShutdownInOrder
(* A probe answers "ready" only while the process serves behind an open    *)
(* listener, even when its checks outlast the drain (Gate, run_http).      *)
ReadyIsCurrent == Prc!ReadyIsCurrent
(* An exchange is decided by its first failure, or by the handler in its   *)
(* actor's scope; that is what is sent, and it is recorded as sent, once   *)
(* (handle, Guard, ObservedBody).                                          *)
ExchangeIsTold ==
  /\ [](/\ Htt!TypeOK /\ Htt!HandlerIsAdmitted /\ Htt!ProblemOfFailure
        /\ Htt!RecordedAsSent /\ Htt!ObservedOnce)
  /\ Htt!FirstFailureWins
(* The logger's counters explain every record, a close that succeeds has   *)
(* written what was accepted, and a closed logger accepts nothing          *)
(* (Delivery).                                                             *)
LogIsExact ==
  /\ [](Log!TypeOK /\ Log!Accounted /\ Log!CloseMeansWritten)
  /\ Log!NothingAfterClose
(* No hashing slot and no place in the hasher's queue is lost or given     *)
(* twice, and nobody waits for a free slot (Hasher).                       *)
NothingIsLeaked == Hsh!NothingIsLeaked
(* Nobody is mailed a token that the store does not have, a message is     *)
(* submitted once and reported delivered only when it was accepted, a link *)
(* that works is one for the current password, and it stops working only   *)
(* when it is used, its time is over, it is replaced, or the password is   *)
(* (request_challenge, replace_password, Mailer).                          *)
MailIsHonest ==
  /\ [](/\ Mai!TypeOK /\ Mai!MailMeansCommitted /\ Mai!DeliveredWasAccepted
        /\ Mai!NeverTwice /\ Mai!LiveIsCurrent)
  /\ Mai!LinkLasts
=============================================================================
