------------------------------- MODULE Reports -------------------------------
(***************************************************************************)
(* The Postgres side of moderation (backend/db.go): recordReport, with its *)
(* count of recent reports and the automatic ban, insertBlock, banUser and *)
(* unbanUser, running concurrently from any number of handlers.            *)
(*                                                                         *)
(* Isolation is read committed, the default: a statement sees what was     *)
(* committed before it and its own transaction's writes.  An UPDATE locks  *)
(* its row, and an INSERT ... ON CONFLICT DO NOTHING waits for the         *)
(* transaction that has inserted the same key, both until that transaction *)
(* ends; Postgres aborts a transaction in a cycle of waits.                *)
(***************************************************************************)
EXTENDS Integers, FiniteSets

CONSTANTS
    User,
    Report,     \* the calls of recordReport
    Block,      \* the calls of insertBlock
    From, To,   \* who makes a call, and whom it is about
    Threshold,  \* AutoBanThreshold
    MaxAdmin,   \* bound on the admin's bans and unbans
    MaxFaults,  \* bound on failed statements
    None        \* "nobody holds the lock"

Call == Report \cup Block

ASSUME ReportsAssumption ==
    /\ Report \cap Block = {}
    /\ From \in [Call -> User]
    /\ To \in [Call -> User]
    /\ \A k \in Call : From[k] # To[k]
    /\ Threshold \in Nat
    /\ MaxAdmin \in Nat
    /\ MaxFaults \in Nat
    /\ None \notin Call

VARIABLES
    reports,   \* the committed rows of reports
    recent,    \* those younger than AutoBanWindow
    received,  \* users.reports_received_count
    banned,    \* the users with a banned_at
    rows,      \* the committed rows of blocks
    tx,        \* where each call stands, and what it has not committed
    lock,      \* who holds the lock on a row of users
    bans,      \* history: how often a user became banned
    told,      \* history: how often a handler learned that its call banned
    pardoned,  \* history: unbanned since the last report was committed
    admin,     \* bans and unbans by the admin so far
    faults

vars == <<reports, recent, received, banned, rows, tx, lock, bans, told,
          pardoned, admin, faults>>

tables == <<reports, recent, received, banned, rows>>
history == <<bans, told, pardoned, admin>>

Pc == {"begin", "row1", "row2", "count", "select", "ban", "commit",
       "done", "failed"}

\* What the type of every variable is.  The counter of a user never becomes
\* negative (reports_received_count only grows).
TypeOK ==
    /\ reports \subseteq Report
    /\ recent \subseteq reports
    /\ received \in [User -> Nat]
    /\ banned \subseteq User
    /\ rows \subseteq User \X User
    /\ tx \in [Call -> [pc : Pc, rows : SUBSET (User \X User), seen : Nat,
                        bans : BOOLEAN]]
    /\ lock \in [User -> Call \cup {None}]
    /\ bans \in [User -> Nat]
    /\ told \in [User -> Nat]
    /\ pardoned \subseteq User
    /\ admin \in 0 .. MaxAdmin
    /\ faults \in 0 .. MaxFaults

Init ==
    /\ reports = {}
    /\ recent = {}
    /\ received = [u \in User |-> 0]
    /\ banned = {}
    /\ rows = {}
    /\ tx = [k \in Call |-> [pc |-> IF k \in Report THEN "begin" ELSE "row1",
                             rows |-> {}, seen |-> 0, bans |-> FALSE]]
    /\ lock = [u \in User |-> None]
    /\ bans = [u \in User |-> 0]
    /\ told = [u \in User |-> 0]
    /\ pardoned = {}
    /\ admin = 0
    /\ faults = 0

Goes(k, from, to) ==
    /\ tx[k].pc = from
    /\ tx' = [tx EXCEPT ![k].pc = to]

\* The transaction is open: other calls may be waiting for it.
Open(k) == tx[k].pc \notin {"done", "failed"}

About(u, set) == {r \in set : To[r] = u}

-----------------------------------------------------------------------------
(***************************************************************************)
(* The statements of recordReport and insertBlock.                         *)
(***************************************************************************)
\* Wrong: the reporter's row is updated first.
InsertReportLocks(r) ==
    /\ Goes(r, "begin", "row1")
    /\ lock[From[r]] = None
    /\ lock' = [lock EXCEPT ![From[r]] = r]
    /\ UNCHANGED <<tables, history, faults>>

InsertReport(r) ==
    /\ Goes(r, "begin", "row1")
    /\ UNCHANGED <<tables, lock, history, faults>>

Row1(k) == <<From[k], To[k]>>
Row2(k) == <<To[k], From[k]>>

\* The open transactions that have inserted a row and not committed it.
Inserting(row) == {k \in Call : Open(k) /\ row \in tx[k].rows}

\* Wrong: an uncommitted row of another transaction counts as a conflict.
InsertsEager(k, row, from, to) ==
    /\ tx[k].pc = from
    /\ tx' = [tx EXCEPT ![k].pc = to,
                        ![k].rows = IF row \in rows \/ Inserting(row) # {}
                                    THEN @ ELSE @ \cup {row}]
    /\ UNCHANGED <<tables, lock, history, faults>>

\* One row of INSERT INTO blocks ... ON CONFLICT DO NOTHING.
Inserts(k, row, from, to) ==
    /\ tx[k].pc = from
    /\ row \notin rows => Inserting(row) \ {k} = {}
    /\ tx' = [tx EXCEPT ![k].pc = to,
                        ![k].rows = IF row \in rows THEN @ ELSE @ \cup {row}]
    /\ UNCHANGED <<tables, lock, history, faults>>

\* The rows are inserted in the order in which the statement names them.
InsertRows(k) ==
    \/ Inserts(k, Row1(k), "row1", "row2")
    \/ Inserts(k, Row2(k), "row2", IF k \in Report THEN "count" ELSE "commit")

\* Wrong: the count is not kept in the user's row.
CountUnlocked(r) ==
    /\ Goes(r, "count", "select")
    /\ UNCHANGED <<tables, lock, history, faults>>

\* UPDATE users SET reports_received_count = ...: it locks the user's row.
Count(r) ==
    /\ Goes(r, "count", "select")
    /\ lock[To[r]] = None
    /\ lock' = [lock EXCEPT ![To[r]] = r]
    /\ UNCHANGED <<tables, history, faults>>

\* SELECT COUNT(*): the committed recent reports and this one.
SelectRecent(r) ==
    /\ tx[r].pc = "select"
    /\ tx' = [tx EXCEPT ![r].pc = "ban",
                        ![r].seen = Cardinality(About(To[r], recent)) + 1]
    /\ UNCHANGED <<tables, lock, history, faults>>

\* Wrong: banned_at is set whether or not it was.
BanAgain(r) ==
    /\ tx[r].pc = "ban"
    /\ tx' = [tx EXCEPT ![r].pc = "commit",
                        ![r].bans = tx[r].seen > Threshold]
    /\ UNCHANGED <<tables, lock, history, faults>>

\* UPDATE users SET banned_at ... AND banned_at IS NULL, above the threshold.
Ban(r) ==
    /\ tx[r].pc = "ban"
    /\ tx' = [tx EXCEPT ![r].pc = "commit",
                        ![r].bans = /\ tx[r].seen > Threshold
                                    /\ To[r] \notin banned]
    /\ UNCHANGED <<tables, lock, history, faults>>

\* Wrong: the lock outlives the transaction.
KeepsLock(k) == UNCHANGED lock

\* Locks are held to the end of the transaction.
Unlock(k) == lock' = [u \in User |-> IF lock[u] = k THEN None ELSE lock[u]]

\* What a commit makes visible.
Publishes(k) ==
    LET new == {k} \cap Report
        ban == {To[r] : r \in {s \in new : tx[s].bans}}
    IN  /\ reports' = reports \cup new
        /\ recent' = recent \cup new
        /\ received' = [u \in User |->
                          received[u] + Cardinality(About(u, new))]
        /\ rows' = rows \cup tx[k].rows
        /\ banned' = banned \cup ban
        /\ bans' = [u \in User |->
                      IF u \in ban \ banned THEN bans[u] + 1 ELSE bans[u]]
        /\ pardoned' = pardoned \ {To[r] : r \in new}
        /\ UNCHANGED admin

Commit(k) ==
    /\ Goes(k, "commit", "done")
    /\ Publishes(k)
    /\ Unlock(k)
    /\ told' = [u \in User |-> IF tx[k].bans /\ u = To[k]
                               THEN told[u] + 1 ELSE told[u]]
    /\ UNCHANGED faults

\* The transaction is rolled back.
Aborts(k) ==
    /\ Open(k)
    /\ tx' = [tx EXCEPT ![k].pc = "failed", ![k].rows = {}]
    /\ Unlock(k)
    /\ UNCHANGED <<tables, history>>

\* A statement fails, or the client has gone away: the deferred Rollback runs.
Fails(k) ==
    /\ faults < MaxFaults
    /\ faults' = faults + 1
    /\ Aborts(k)

\* The COMMIT succeeds, and its reply is lost: the handler sees an error.
CommitReplyLost(k) ==
    /\ faults < MaxFaults
    /\ faults' = faults + 1
    /\ Goes(k, "commit", "failed")
    /\ Publishes(k)
    /\ Unlock(k)
    /\ UNCHANGED told

\* The transactions that k's next statement has to wait for.
WaitsFor(k) ==
    CASE tx[k].pc = "row1" /\ Row1(k) \notin rows -> Inserting(Row1(k)) \ {k}
      [] tx[k].pc = "row2" /\ Row2(k) \notin rows -> Inserting(Row2(k)) \ {k}
      [] tx[k].pc = "count" -> {lock[To[k]]} \ {None}
      [] OTHER -> {}

\* k waits for itself through others: every set of transactions that contains
\* those k waits for, and with any transaction those it waits for, contains k.
Deadlocked(k) ==
    ~\E S \in SUBSET (Call \ {k}) :
        WaitsFor(k) \subseteq S /\ \A l \in S : WaitsFor(l) \subseteq S

\* Postgres finds a cycle of waits and aborts one transaction in it.
DeadlockDetected(k) ==
    /\ Deadlocked(k)
    /\ Aborts(k)
    /\ UNCHANGED faults

-----------------------------------------------------------------------------
(***************************************************************************)
(* The admin's single statements, and the passing of time.                 *)
(***************************************************************************)
Admin(u) ==
    /\ lock[u] = None
    /\ admin < MaxAdmin
    /\ admin' = admin + 1
    /\ UNCHANGED <<reports, recent, received, rows, tx, lock, faults>>

banUser(u) ==
    /\ Admin(u)
    /\ banned' = banned \cup {u}
    /\ IF u \in banned
       THEN UNCHANGED <<bans, told>>
       ELSE /\ bans' = [bans EXCEPT ![u] = @ + 1]
            /\ told' = [told EXCEPT ![u] = @ + 1]
    /\ UNCHANGED pardoned

\* Wrong: an unban takes a report off the user's counter, if there is one or not.
UnbanForgives(u) ==
    /\ lock[u] = None
    /\ admin < MaxAdmin
    /\ admin' = admin + 1
    /\ banned' = banned \ {u}
    /\ received' = [received EXCEPT ![u] = @ - 1]
    /\ UNCHANGED <<reports, recent, rows, tx, lock, faults, pardoned, bans, told>>

unbanUser(u) ==
    /\ Admin(u)
    /\ banned' = banned \ {u}
    /\ pardoned' = IF u \in banned THEN pardoned \cup {u} ELSE pardoned
    /\ UNCHANGED <<bans, told>>

\* A report becomes older than AutoBanWindow.
AgesOut(r) ==
    /\ r \in recent
    /\ recent' = recent \ {r}
    /\ UNCHANGED <<reports, received, banned, rows, tx, lock, history, faults>>

-----------------------------------------------------------------------------
CallStep(k) ==
    \/ k \in Report /\ (InsertReport(k) \/ Count(k) \/ SelectRecent(k) \/ Ban(k))
    \/ InsertRows(k) \/ Commit(k) \/ DeadlockDetected(k)

Next ==
    \/ \E k \in Call : CallStep(k) \/ Fails(k) \/ CommitReplyLost(k)
    \/ \E u \in User : banUser(u) \/ unbanUser(u)
    \/ \E r \in Report : AgesOut(r)

Spec == Init /\ [][Next]_vars

\* Handlers and Postgres keep going, and a cycle of waits is always detected.
\* (The admin's and time's steps, and failures, need not happen.)
FairSpec == Spec /\ \A k \in Call : WF_vars(CallStep(k))

-----------------------------------------------------------------------------
(***************************************************************************)
(* Properties.                                                             *)
(***************************************************************************)
\* A user with more than Threshold recent reports is banned, unless an admin
\* has lifted the ban since the last report: no two concurrent reports both
\* count themselves only (recordReport counts after it has locked the row).
BanNotMissed ==
    \A u \in User :
        Cardinality(About(u, recent)) > Threshold => u \in banned \cup pardoned

\* Every time a user becomes banned one handler learns that its call did it,
\* and no other does, unless the reply to its commit is lost: that handler is
\* the one that severs the user's websocket (reportHandler, adminUserAction).
OneHandlerPerBan ==
    \A u \in User : told[u] <= bans[u] /\ bans[u] - told[u] <= faults

\* A call that succeeded has stored its report and both block rows, also when
\* it met rows of a transaction that was then rolled back, and the reports of
\* a user add up to its counter.
SuccessIsStored ==
    /\ \A k \in Call : tx[k].pc = "done" =>
          /\ {Row1(k), Row2(k)} \subseteq rows
          /\ k \in Report => k \in reports
    /\ \A u \in User : received[u] = Cardinality(About(u, reports))

\* Only two calls between the same two users, in opposite directions, can wait
\* for each other, each between its two rows: they insert the same rows in
\* opposite order.  The locks on users never take part in a cycle.
OnlyOppositeCallsDeadlock ==
    \A k \in Call : Deadlocked(k) =>
        /\ tx[k].pc = "row2"
        /\ \E l \in WaitsFor(k) : Row1(l) = Row2(k) /\ k \in WaitsFor(l)

\* Every call ends, whatever it has to wait for.
EveryCallEnds == \A k \in Call : <>(~Open(k))

\* Where no statement fails, every block call succeeds ("Idempotent: duplicate
\* pairs are silently ignored", insertBlock).
BlocksSucceed == \A k \in Block : tx[k].pc = "failed" => faults > 0
=============================================================================
