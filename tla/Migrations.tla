------------------------------ MODULE Migrations ------------------------------
(***************************************************************************)
(* Database::migrate of shared/postgres/mod.rs, run by every process that  *)
(* starts: root/auth.rs and root/audit.rs of the server, root/events.rs of *)
(* the example.  A run is one transaction: take the advisory lock, compare *)
(* the ledger in the database with the list this process was built with,   *)
(* apply what is missing, commit.  Processes of several builds and several *)
(* settings start, crash and start again over one database.                *)
(*                                                                         *)
(* A migration is a version and its SQL, which stands for its checksum.    *)
(***************************************************************************)
EXTENDS Integers, Sequences, SequencesExt

CONSTANTS
  Processes,
  Plans,       \* what a process may be: the lists it migrates with, in order
  MaxStarts    \* bound: starts of one process

VARIABLES
  history,     \* n2f_migrations, in the order of its versions
  lock,        \* who holds the advisory lock
  plan,        \* what a process was started as
  at,          \* which list of its plan it is migrating with
  left,        \* the migrations its open transaction has still to run
  ran,         \* the migrations its open transaction has run
  pc,
  starts,
  seen         \* history: every plan a process was ever started as

vars == <<history, lock, plan, at, left, ran, pc, starts, seen>>

Nobody == "nobody"

\* A process migrates with the list of root/auth.rs and then, with the audit,
\* with that of root/audit.rs, which is the same.
MigrationsAssumption ==
  /\ Nobody \notin Processes /\ MaxStarts \in Nat
  /\ \A p \in Plans : /\ p \in Seq(Seq([version : Int, sql : STRING])) /\ p # <<>>
                      /\ \A i, j \in DOMAIN p : p[i] = p[j]

M(version) == [version |-> version, sql |-> "as_built"]
Edited(version) == [version |-> version, sql |-> "edited"]

\* The list of the server: the audit table is in it when the audit is enabled.
ServerList(audit) ==
  <<M(1), M(2), M(3)>> \o (IF audit THEN <<M(4)>> ELSE <<>>) \o <<M(5), M(6), M(7)>>
AuditList == <<M(1), M(2), M(3), M(4), M(5), M(6), M(7)>>
ExampleList == <<M(1), M(3)>>

\* compose of root/auth.rs migrates first, then compose of root/audit.rs.
Server(audit) == <<ServerList(audit)>> \o (IF audit THEN <<AuditList>> ELSE <<>>)

List(p) == plan[p][at[p]]

WellFormed(list) ==
  \A i \in DOMAIN list : list[i].version > (IF i = 1 THEN 0 ELSE list[i - 1].version)

\* The ledger has more rows than the list, or another version or checksum in
\* one of them.
Differs(rows, list) == ~IsPrefix(rows, list)

Missing(rows, list) == SubSeq(list, Len(rows) + 1, Len(list))

-------------------------------------------------------------------------------

Init == /\ history = <<>>
        /\ lock = Nobody
        /\ plan = [p \in Processes |-> <<>>]
        /\ at = [p \in Processes |-> 1]
        /\ left = [p \in Processes |-> <<>>]
        /\ ran = [p \in Processes |-> <<>>]
        /\ pc = [p \in Processes |-> "down"]
        /\ starts = [p \in Processes |-> 0]
        /\ seen = {}

\* The transaction of p is over: the lock goes with it.
Over(p, as) == /\ pc' = [pc EXCEPT ![p] = as]
               /\ lock' = IF lock = p THEN Nobody ELSE lock
               /\ left' = [left EXCEPT ![p] = <<>>]
               /\ ran' = [ran EXCEPT ![p] = <<>>]

Start(p, what) == /\ pc[p] = "down" /\ starts[p] < MaxStarts
                  /\ starts' = [starts EXCEPT ![p] = @ + 1]
                  /\ plan' = [plan EXCEPT ![p] = what]
                  /\ at' = [at EXCEPT ![p] = 1]
                  /\ pc' = [pc EXCEPT ![p] = "begin"]
                  /\ seen' = seen \cup {what}
                  /\ UNCHANGED <<history, lock, left, ran>>

\* Nothing is asked of the database with a list that is not increasing.
Invalid(p) == /\ pc[p] = "begin" /\ ~WellFormed(List(p))
              /\ pc' = [pc EXCEPT ![p] = "invalid"]
              /\ UNCHANGED <<history, lock, plan, at, left, ran, starts, seen>>

\* Mutant: no advisory lock.
LockIgnored == TRUE
LockFree == lock = Nobody

Lock(p) == /\ pc[p] = "begin" /\ WellFormed(List(p))
           /\ LockFree
           /\ lock' = p
           /\ pc' = [pc EXCEPT ![p] = "reading"]
           /\ UNCHANGED <<history, plan, at, left, ran, starts, seen>>

\* The SELECT sees what was committed before it, since each statement of a
\* transaction has a snapshot of its own.
Read(p) == /\ pc[p] = "reading" /\ ~Differs(history, List(p))
           /\ left' = [left EXCEPT ![p] = Missing(history, List(p))]
           /\ pc' = [pc EXCEPT ![p] = "applying"]
           /\ UNCHANGED <<history, lock, plan, at, ran, starts, seen>>

Drift(p) == /\ pc[p] = "reading" /\ Differs(history, List(p))
            /\ Over(p, "drift")
            /\ UNCHANGED <<history, plan, at, starts, seen>>

\* The SQL and its row.  The database lets it wait for a transaction that has
\* run the same migration.
Apply(p) ==
  /\ pc[p] = "applying" /\ left[p] # <<>>
  /\ \A q \in Processes \ {p} : Head(left[p]) \notin ToSet(ran[q])
  /\ ran' = [ran EXCEPT ![p] = Append(@, Head(left[p]))]
  /\ left' = [left EXCEPT ![p] = Tail(@)]
  /\ UNCHANGED <<history, lock, plan, at, pc, starts, seen>>

\* Database::transaction: the statement before COMMIT is answered, and then
\* COMMIT is; or its answer is lost.
Committable(p) == pc[p] = "applying" /\ left[p] = <<>>

Commit(p) ==
  /\ Committable(p)
  /\ history' = history \o ran[p]
  /\ at' = [at EXCEPT ![p] = IF @ < Len(plan[p]) THEN @ + 1 ELSE @]
  /\ Over(p, IF at[p] < Len(plan[p]) THEN "begin" ELSE "up")
  /\ UNCHANGED <<plan, starts, seen>>

Uncertain(p) == /\ Committable(p)
                /\ history' \in {history, history \o ran[p]}
                /\ Over(p, "failed")
                /\ UNCHANGED <<plan, at, starts, seen>>

\* A statement fails, or the budget of the transaction is used up, perhaps
\* waiting for the lock: rolled back.
Fail(p) == /\ pc[p] \in {"begin", "reading", "applying"}
           /\ Over(p, "failed")
           /\ UNCHANGED <<history, plan, at, starts, seen>>

\* The process ends, at any point; the database rolls back what it had open.
Down(p) == /\ pc[p] # "down"
           /\ Over(p, "down")
           /\ UNCHANGED <<history, plan, at, starts, seen>>

Step(p) == \/ \E what \in Plans : Start(p, what)
           \/ Invalid(p) \/ Lock(p) \/ Read(p) \/ Drift(p) \/ Apply(p)
           \/ Commit(p) \/ Uncertain(p) \/ Fail(p) \/ Down(p)

Next == \E p \in Processes : Step(p)
Spec == Init /\ [][Next]_vars

-------------------------------------------------------------------------------

\* A transaction is open only while its process migrates, and with it the lock.
TypeOK ==
  /\ plan \in [Processes -> Plans \cup {<<>>}]
  /\ pc \in [Processes -> {"down", "begin", "reading", "applying", "up",
                           "invalid", "drift", "failed"}]
  /\ lock \in Processes \cup {Nobody}
  /\ \A p \in Processes :
       /\ pc[p] \in {"reading", "applying"} <=> lock = p
       /\ pc[p] # "applying" => left[p] = <<>> /\ ran[p] = <<>>

\* migrate: nobody is about to run SQL that another process has committed in
\* the meantime, which the database would refuse.  However many processes start
\* at once, the lock makes the others wait and find the migrations applied.
NobodyCollides ==
  \A p \in Processes : ToSet(left[p]) \cap ToSet(history) = {}

\* migrate: a process that started has every list it was built with in the
\* database, from the first migration on, in its order and with its SQL, and
\* keeps it whatever is started, upgraded or fails afterwards.
ServesItsLists ==
  \A p \in Processes : pc[p] = "up" =>
    \A i \in DOMAIN plan[p] : IsPrefix(plan[p][i], history)

\* migrate: the ledger is strictly increasing, so no migration is there twice.
HistoryInOrder ==
  \A i, j \in DOMAIN history : i < j => history[i].version < history[j].version

\* migrate: a process is refused for a differing history only when a process
\* that was started as something else was there first.  Crashes, failures,
\* commits of unknown outcome and the second list of the server never lock a
\* build out of its own database.
DriftMeansDifference ==
  \A p \in Processes : pc[p] = "drift" => \E other \in seen : other # plan[p]

\* AUTH_SCHEMA.md: "Root supplies one complete migration ledger."  Then no
\* setting of one build could make its own database differ.  The list of
\* root/auth.rs depends on AUDIT_ENABLED.
OneCompleteLedger == \A p \in Processes : pc[p] # "drift"

\* migrate: whatever is started, fails or crashes at once, there is one history:
\* each migration ran once and in order, who serves has all of its own, and only
\* another build can be in the way.
LedgerIsSound == /\ TypeOK /\ NobodyCollides /\ ServesItsLists
                 /\ HistoryInOrder /\ DriftMeansDifference
===============================================================================
