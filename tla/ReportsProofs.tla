---------------------------- MODULE ReportsProofs ----------------------------
(***************************************************************************)
(* Proofs about Reports for any number of users and calls, any threshold   *)
(* and any number of faults: type correctness, that no ban is missed, that *)
(* one handler learns of every ban, and that what succeeded is stored.     *)
(***************************************************************************)
EXTENDS Reports, FiniteSetTheorems, TLAPS

-----------------------------------------------------------------------------
(***************************************************************************)
(* The inductive invariant.                                                *)
(***************************************************************************)
\* Where a report's transaction holds the lock on its subject's row.
Locking == {"select", "ban", "commit"}

\* Exactly the reports that have counted and not ended hold a lock, each that
\* of the user it is about; a block call never takes one.
LockInv ==
    /\ \A r \in Report : tx[r].pc \in Locking => lock[To[r]] = r
    /\ \A u \in User : lock[u] # None =>
          /\ lock[u] \in Report
          /\ To[lock[u]] = u
          /\ tx[lock[u]].pc \in Locking
    /\ \A k \in Block :
          tx[k].pc \in {"row1", "row2", "commit", "done", "failed"}

\* A transaction that is going to ban has seen its user unbanned, and nobody
\* has banned the user since.
BansInv ==
    \A k \in Call : tx[k].bans /\ Open(k) =>
        k \in Report /\ tx[k].pc = "commit" /\ To[k] \notin banned

\* What a transaction has counted is still all there is, and it bans above the
\* threshold or has found the user banned.
SeenInv ==
    \A r \in Report :
        /\ tx[r].pc \in {"ban", "commit"} =>
              tx[r].seen > Cardinality(About(To[r], recent))
        /\ tx[r].pc = "commit" /\ tx[r].seen > Threshold =>
              tx[r].bans \/ To[r] \in banned

\* A call that is past one of its rows finds it committed or in its own
\* transaction.
RowsInv ==
    \A k \in Call :
        /\ tx[k].pc \in {"row2", "count"} \cup Locking =>
              Row1(k) \in rows \cup tx[k].rows
        /\ tx[k].pc \in {"count"} \cup Locking =>
              Row2(k) \in rows \cup tx[k].rows

\* No report is visible before its commit.
OpenInv == \A r \in Report : Open(r) => r \notin reports

Inv ==
    /\ TypeOK
    /\ IsFiniteSet(reports)
    /\ LockInv
    /\ BansInv
    /\ SeenInv
    /\ RowsInv
    /\ OpenInv
    /\ BanNotMissed
    /\ OneHandlerPerBan
    /\ SuccessIsStored

-----------------------------------------------------------------------------
(***************************************************************************)
(* The reports about a user.                                               *)
(***************************************************************************)
\* Finitely many reports are finitely many about any user, and fewer reports
\* are fewer about any user.
LEMMA AboutFinite ==
    ASSUME NEW S, IsFiniteSet(S), NEW R \in SUBSET S, NEW u
    PROVE  /\ IsFiniteSet(About(u, R))
           /\ Cardinality(About(u, R)) \in Nat
           /\ Cardinality(About(u, R)) <= Cardinality(About(u, S))
<1>1. About(u, R) \subseteq About(u, S) /\ About(u, S) \subseteq S
    BY DEF About
<1>2. IsFiniteSet(About(u, S)) /\ IsFiniteSet(About(u, R))
    BY <1>1, FS_Subset
<1> QED
    BY <1>1, <1>2, FS_Subset, FS_CardinalityType

\* One more report is one more about the user it is about.
LEMMA AboutOneMore ==
    ASSUME NEW S, IsFiniteSet(S), NEW r, r \notin S, NEW u
    PROVE  Cardinality(About(u, S \cup {r})) =
              Cardinality(About(u, S)) + IF To[r] = u THEN 1 ELSE 0
<1>1. IsFiniteSet(About(u, S)) /\ Cardinality(About(u, S)) \in Nat
    BY AboutFinite
<1>2. CASE To[r] = u
    <2>1. About(u, S \cup {r}) = About(u, S) \cup {r} /\ r \notin About(u, S)
        BY <1>2 DEF About
    <2> QED
        BY <1>1, <1>2, <2>1, FS_AddElement
<1>3. CASE To[r] # u
    <2>1. About(u, S \cup {r}) = About(u, S)
        BY <1>3 DEF About
    <2> QED
        BY <1>1, <1>3, <2>1
<1> QED
    BY <1>2, <1>3

\* What a single call contributes to a user's counter.
LEMMA AboutSingle ==
    ASSUME NEW k, NEW u
    PROVE  /\ Cardinality(About(u, {})) = 0
           /\ Cardinality(About(u, {k})) = IF To[k] = u THEN 1 ELSE 0
<1>1. About(u, {}) = {} /\ About(u, {k}) = IF To[k] = u THEN {k} ELSE {}
    BY DEF About
<1> QED
    BY <1>1, FS_EmptySet, FS_Singleton

\* The records of the transactions, as TypeOK has them.
TxType == [Call -> [pc : Pc, rows : SUBSET (User \X User), seen : Nat,
                    bans : BOOLEAN]]

-----------------------------------------------------------------------------
(***************************************************************************)
(* Type correctness.                                                       *)
(***************************************************************************)
\* The initial state is typed.
LEMMA InitTypeOK == Init => TypeOK
    BY ReportsAssumption DEF Init, TypeOK, Pc

\* Whatever a step sets beside the program counter, the records stay typed.
LEMMA TxTyped ==
    ASSUME tx \in TxType, NEW k \in Call, NEW p \in Pc
    PROVE  /\ [tx EXCEPT ![k].pc = p] \in TxType
           /\ \A R \in SUBSET (User \X User) :
                  [tx EXCEPT ![k].pc = p, ![k].rows = R] \in TxType
           /\ \A n \in Nat : [tx EXCEPT ![k].pc = p, ![k].seen = n] \in TxType
           /\ \A b \in BOOLEAN :
                  [tx EXCEPT ![k].pc = p, ![k].bans = b] \in TxType
<1> USE DEF TxType
<1>1. [tx EXCEPT ![k].pc = p] \in TxType
    OBVIOUS
<1>2. ASSUME NEW R \in SUBSET (User \X User)
      PROVE  [tx EXCEPT ![k].pc = p, ![k].rows = R] \in TxType
    OBVIOUS
<1>3. ASSUME NEW n \in Nat
      PROVE  [tx EXCEPT ![k].pc = p, ![k].seen = n] \in TxType
    OBVIOUS
<1>4. ASSUME NEW b \in BOOLEAN
      PROVE  [tx EXCEPT ![k].pc = p, ![k].bans = b] \in TxType
    OBVIOUS
<1> QED
    BY <1>1, <1>2, <1>3, <1>4

\* Whoever makes a call, and whom it is about, is a user.
LEMMA UsersOfCall ==
    ASSUME NEW k \in Call
    PROVE  /\ From[k] \in User /\ To[k] \in User /\ From[k] # To[k]
           /\ Row1(k) \in User \X User /\ Row2(k) \in User \X User
    BY ReportsAssumption DEF Row1, Row2

\* A statement of a transaction keeps every variable typed.
LEMMA StatementTypeOK ==
    ASSUME TypeOK, IsFiniteSet(reports), NEW k \in Call,
           \/ k \in Report /\ (InsertReport(k) \/ Count(k)
                               \/ SelectRecent(k) \/ Ban(k))
           \/ InsertRows(k)
    PROVE  TypeOK'
<1>0. tx \in TxType
    BY DEF TypeOK, TxType
<1>1. UNCHANGED <<tables, history, faults>>
    BY DEF InsertReport, Count, SelectRecent, Ban, InsertRows, Inserts
<1>2. CASE k \in Report /\ InsertReport(k)
    <2>1. tx' \in TxType
        BY <1>0, <1>2, TxTyped DEF InsertReport, Goes, Pc
    <2> QED
        BY <1>1, <1>2, <2>1 DEF InsertReport, TypeOK, TxType, tables, history
<1>3. CASE k \in Report /\ Count(k)
    <2>1. tx' \in TxType
        BY <1>0, <1>3, TxTyped DEF Count, Goes, Pc
    <2>2. lock' \in [User -> Call \cup {None}]
        BY <1>3, UsersOfCall DEF Count, TypeOK
    <2> QED
        BY <1>1, <2>1, <2>2 DEF TypeOK, TxType, tables, history
<1>4. CASE k \in Report /\ SelectRecent(k)
    <2>1. Cardinality(About(To[k], recent)) \in Nat
        BY AboutFinite DEF TypeOK
    <2>2. tx' \in TxType
        <3>1. Cardinality(About(To[k], recent)) + 1 \in Nat /\ "ban" \in Pc
            BY <2>1 DEF Pc
        <3> QED
            BY <1>0, <1>4, <3>1, TxTyped DEF SelectRecent
    <2> QED
        BY <1>1, <1>4, <2>2
        DEF SelectRecent, TypeOK, TxType, tables, history
<1>5. CASE k \in Report /\ Ban(k)
    <2>1. tx' \in TxType
        BY <1>0, <1>5, TxTyped DEF Ban, Pc
    <2> QED
        BY <1>1, <1>5, <2>1 DEF Ban, TypeOK, TxType, tables, history
<1>6. CASE InsertRows(k)
    <2>1. tx' \in TxType
        <3>1. ASSUME NEW row \in User \X User, NEW from, NEW to \in Pc,
                     Inserts(k, row, from, to)
              PROVE  tx' \in TxType
            <4>1. tx[k].rows \cup {row} \in SUBSET (User \X User)
                  /\ tx[k].rows \in SUBSET (User \X User)
                BY <1>0 DEF TxType
            <4> QED
                BY <1>0, <3>1, <4>1, TxTyped DEF Inserts
        <3> QED
            BY <1>6, <3>1, UsersOfCall DEF InsertRows, Pc
    <2> QED
        BY <1>1, <1>6, <2>1
        DEF InsertRows, Inserts, TypeOK, TxType, tables, history
<1> QED
    BY <1>2, <1>3, <1>4, <1>5, <1>6

\* What a commit makes visible is typed.
LEMMA PublishesTypeOK ==
    ASSUME TypeOK, NEW k \in Call, Publishes(k)
    PROVE  /\ reports' \subseteq Report
           /\ recent' \subseteq reports'
           /\ received' \in [User -> Nat]
           /\ banned' \subseteq User
           /\ rows' \subseteq User \X User
           /\ bans' \in [User -> Nat]
           /\ pardoned' \subseteq User
           /\ admin' \in 0 .. MaxAdmin
<1>1. \A u \in User : Cardinality(About(u, {k} \cap Report)) \in Nat
    <2>1. {k} \cap Report = {} \/ {k} \cap Report = {k}
        OBVIOUS
    <2>2. \A u \in User : /\ Cardinality(About(u, {})) \in Nat
                          /\ Cardinality(About(u, {k})) \in Nat
        BY AboutSingle
    <2> QED
        BY <2>1, <2>2
<1>2. \A r \in {k} \cap Report : To[r] \in User
    BY ReportsAssumption DEF Call
<1>3. received' \in [User -> Nat]
    <2>1. received' = [u \in User |-> received[u]
                                        + Cardinality(About(u, {k} \cap Report))]
        BY DEF Publishes
    <2>2. \A u \in User : received[u] \in Nat
        BY DEF TypeOK
    <2> QED
        BY <1>1, <2>1, <2>2
<1>4. bans' \in [User -> Nat]
    BY DEF TypeOK, Publishes
<1>5. banned' \subseteq User /\ pardoned' \subseteq User
    BY <1>2 DEF TypeOK, Publishes
<1>6. /\ reports' \subseteq Report /\ recent' \subseteq reports'
      /\ rows' \subseteq User \X User /\ admin' \in 0 .. MaxAdmin
    BY DEF TypeOK, Publishes
<1> QED
    BY <1>3, <1>4, <1>5, <1>6

\* The locks of a transaction that ends become free.
LEMMA UnlockTypeOK ==
    ASSUME TypeOK, NEW k \in Call, Unlock(k)
    PROVE  lock' \in [User -> Call \cup {None}]
    BY DEF TypeOK, Unlock

\* The end of a transaction keeps every variable typed.
LEMMA EndTypeOK ==
    ASSUME TypeOK, NEW k \in Call,
           \/ Commit(k) \/ DeadlockDetected(k) \/ Fails(k) \/ CommitReplyLost(k)
    PROVE  TypeOK'
<1>0. tx \in TxType
    BY DEF TypeOK, TxType
<1>1. faults' \in 0 .. MaxFaults
    BY ReportsAssumption
    DEF TypeOK, Commit, DeadlockDetected, Fails, CommitReplyLost
<1>2. ASSUME Goes(k, "commit", "done") \/ Goes(k, "commit", "failed"),
             Publishes(k), Unlock(k), told' \in [User -> Nat]
      PROVE  TypeOK'
    <2>1. tx' \in TxType
        BY <1>0, <1>2, TxTyped DEF Goes, Pc
    <2> QED
        BY <1>1, <1>2, <2>1, PublishesTypeOK, UnlockTypeOK DEF TypeOK, TxType
<1>3. CASE Commit(k)
    BY <1>2, <1>3 DEF Commit, TypeOK
<1>4. CASE CommitReplyLost(k)
    BY <1>2, <1>4 DEF CommitReplyLost, TypeOK
<1>5. CASE Aborts(k)
    <2>1. tx' \in TxType
        BY <1>0, <1>5, TxTyped DEF Aborts, Pc
    <2> QED
        BY <1>1, <1>5, <2>1, UnlockTypeOK
        DEF Aborts, TypeOK, TxType, tables, history
<1> QED
    BY <1>3, <1>4, <1>5 DEF DeadlockDetected, Fails

\* The admin's statements and the passing of time keep every variable typed.
LEMMA OtherTypeOK ==
    ASSUME TypeOK,
           \/ \E u \in User : banUser(u) \/ unbanUser(u)
           \/ \E r \in Report : AgesOut(r)
    PROVE  TypeOK'
<1> USE ReportsAssumption DEF TypeOK
<1>1. ASSUME NEW u \in User, banUser(u)
      PROVE  TypeOK'
    BY <1>1 DEF banUser, Admin
<1>2. ASSUME NEW u \in User, unbanUser(u)
      PROVE  TypeOK'
    BY <1>2 DEF unbanUser, Admin
<1>3. ASSUME NEW r \in Report, AgesOut(r)
      PROVE  TypeOK'
    BY <1>3 DEF AgesOut, history
<1> QED
    BY <1>1, <1>2, <1>3

\* Reports are stored one at a time, so there are never infinitely many.
LEMMA ReportsFinite ==
    ASSUME IsFiniteSet(reports), [Next]_vars
    PROVE  IsFiniteSet(reports')
<1>1. ASSUME NEW k \in Call, Publishes(k)
      PROVE  IsFiniteSet(reports')
    <2>1. reports' = reports \/ reports' = reports \cup {k}
        BY <1>1 DEF Publishes
    <2> QED
        BY <2>1, FS_AddElement
<1>2. CASE UNCHANGED reports
    BY <1>2
<1>3. UNCHANGED reports \/ \E k \in Call : Publishes(k)
    BY DEF Next, vars, tables, CallStep, InsertReport, Count, SelectRecent, Ban,
           InsertRows, Inserts, Commit, DeadlockDetected, Fails, Aborts,
           CommitReplyLost, banUser, unbanUser, Admin, AgesOut
<1> QED
    BY <1>1, <1>2, <1>3

\* Every step keeps every variable typed.
LEMMA NextTypeOK ==
    ASSUME TypeOK, IsFiniteSet(reports), [Next]_vars
    PROVE  TypeOK'
<1>1. CASE UNCHANGED vars
    BY <1>1 DEF TypeOK, vars
<1>2. CASE Next
    BY <1>2, StatementTypeOK, EndTypeOK, OtherTypeOK DEF Next, CallStep
<1> QED
    BY <1>1, <1>2

\* Every variable keeps its type in every behaviour.
THEOREM TypeCorrect == Spec => [](TypeOK /\ IsFiniteSet(reports))
<1>1. Init => TypeOK /\ IsFiniteSet(reports)
    BY InitTypeOK, FS_EmptySet DEF Init
<1>2. TypeOK /\ IsFiniteSet(reports) /\ [Next]_vars
          => TypeOK' /\ IsFiniteSet(reports)'
    BY NextTypeOK, ReportsFinite
<1> QED
    BY <1>1, <1>2, PTL DEF Spec
-----------------------------------------------------------------------------
(***************************************************************************)
(* What each step does to the records of the transactions.                 *)
(***************************************************************************)
\* Only k moves, from one program counter to another.
Moves(k, from, to) ==
    /\ tx[k].pc = from
    /\ tx'[k].pc = to
    /\ \A l \in Call \ {k} : tx'[l] = tx[l]

\* The fields that a step leaves alone.
SameRows(k) == tx'[k].rows = tx[k].rows
SameSeen(k) == tx'[k].seen = tx[k].seen
SameBans(k) == tx'[k].bans = tx[k].bans

\* A step that sets the program counter, and what it may set beside it.
LEMMA TxFields ==
    ASSUME tx \in TxType, NEW k \in Call, NEW p, NEW x
    PROVE  /\ tx' = [tx EXCEPT ![k].pc = p] =>
                  /\ Moves(k, tx[k].pc, p)
                  /\ SameRows(k) /\ SameSeen(k) /\ SameBans(k)
           /\ tx' = [tx EXCEPT ![k].pc = p, ![k].rows = x] =>
                  /\ Moves(k, tx[k].pc, p)
                  /\ tx'[k].rows = x /\ SameSeen(k) /\ SameBans(k)
           /\ tx' = [tx EXCEPT ![k].pc = p, ![k].seen = x] =>
                  /\ Moves(k, tx[k].pc, p)
                  /\ SameRows(k) /\ tx'[k].seen = x /\ SameBans(k)
           /\ tx' = [tx EXCEPT ![k].pc = p, ![k].bans = x] =>
                  /\ Moves(k, tx[k].pc, p)
                  /\ SameRows(k) /\ SameSeen(k) /\ tx'[k].bans = x
<1> USE DEF TxType, SameRows, SameSeen, SameBans, Moves
<1>1. ASSUME tx' = [tx EXCEPT ![k].pc = p]
      PROVE  /\ Moves(k, tx[k].pc, p)
             /\ SameRows(k) /\ SameSeen(k) /\ SameBans(k)
    BY <1>1
<1>2. ASSUME tx' = [tx EXCEPT ![k].pc = p, ![k].rows = x]
      PROVE  /\ Moves(k, tx[k].pc, p)
             /\ tx'[k].rows = x /\ SameSeen(k) /\ SameBans(k)
    BY <1>2
<1>3. ASSUME tx' = [tx EXCEPT ![k].pc = p, ![k].seen = x]
      PROVE  /\ Moves(k, tx[k].pc, p)
             /\ SameRows(k) /\ tx'[k].seen = x /\ SameBans(k)
    BY <1>3
<1>4. ASSUME tx' = [tx EXCEPT ![k].pc = p, ![k].bans = x]
      PROVE  /\ Moves(k, tx[k].pc, p)
             /\ SameRows(k) /\ SameSeen(k) /\ tx'[k].bans = x
    BY <1>4
<1> QED
    BY <1>1, <1>2, <1>3, <1>4

\* The statements, one by one.
LEMMA StatementMoves ==
    ASSUME TypeOK, NEW k \in Call
    PROVE  /\ InsertReport(k) =>
                  /\ Moves(k, "begin", "row1")
                  /\ SameRows(k) /\ SameSeen(k) /\ SameBans(k)
           /\ Count(k) =>
                  /\ Moves(k, "count", "select")
                  /\ SameRows(k) /\ SameSeen(k) /\ SameBans(k)
           /\ SelectRecent(k) =>
                  /\ Moves(k, "select", "ban")
                  /\ SameRows(k) /\ SameBans(k)
                  /\ tx'[k].seen = Cardinality(About(To[k], recent)) + 1
           /\ Ban(k) =>
                  /\ Moves(k, "ban", "commit")
                  /\ SameRows(k) /\ SameSeen(k)
                  /\ tx'[k].bans = (tx[k].seen > Threshold
                                    /\ To[k] \notin banned)
           /\ \A row, from, to : Inserts(k, row, from, to) =>
                  /\ Moves(k, from, to)
                  /\ SameSeen(k) /\ SameBans(k)
                  /\ tx[k].rows \cup {row} \subseteq rows \cup tx'[k].rows
                  /\ tx[k].rows \subseteq tx'[k].rows
<1>0. tx \in TxType
    BY DEF TypeOK, TxType
<1>1. ASSUME InsertReport(k)
      PROVE  /\ Moves(k, "begin", "row1")
             /\ SameRows(k) /\ SameSeen(k) /\ SameBans(k)
    BY <1>0, <1>1, TxFields DEF InsertReport, Goes
<1>2. ASSUME Count(k)
      PROVE  /\ Moves(k, "count", "select")
             /\ SameRows(k) /\ SameSeen(k) /\ SameBans(k)
    BY <1>0, <1>2, TxFields DEF Count, Goes
<1>3. ASSUME SelectRecent(k)
      PROVE  /\ Moves(k, "select", "ban")
             /\ SameRows(k) /\ SameBans(k)
             /\ tx'[k].seen = Cardinality(About(To[k], recent)) + 1
    <2> DEFINE n == Cardinality(About(To[k], recent)) + 1
    <2>1. /\ tx[k].pc = "select"
          /\ tx' = [tx EXCEPT ![k].pc = "ban", ![k].seen = n]
        BY <1>3 DEF SelectRecent
    <2> HIDE DEF n
    <2>2. /\ Moves(k, tx[k].pc, "ban")
          /\ SameRows(k) /\ tx'[k].seen = n /\ SameBans(k)
        BY <1>0, <2>1, TxFields, Zenon
    <2> QED
        BY <2>1, <2>2 DEF n
<1>4. ASSUME Ban(k)
      PROVE  /\ Moves(k, "ban", "commit")
             /\ SameRows(k) /\ SameSeen(k)
             /\ tx'[k].bans = (tx[k].seen > Threshold /\ To[k] \notin banned)
    <2> DEFINE b == tx[k].seen > Threshold /\ To[k] \notin banned
    <2>1. /\ tx[k].pc = "ban"
          /\ tx' = [tx EXCEPT ![k].pc = "commit", ![k].bans = b]
        BY <1>4 DEF Ban
    <2> HIDE DEF b
    <2>2. /\ Moves(k, tx[k].pc, "commit")
          /\ SameRows(k) /\ SameSeen(k) /\ tx'[k].bans = b
        BY <1>0, <2>1, TxFields, Zenon
    <2> QED
        BY <2>1, <2>2 DEF b
<1>5. ASSUME NEW row, NEW from, NEW to, Inserts(k, row, from, to)
      PROVE  /\ Moves(k, from, to)
             /\ SameSeen(k) /\ SameBans(k)
             /\ tx[k].rows \cup {row} \subseteq rows \cup tx'[k].rows
             /\ tx[k].rows \subseteq tx'[k].rows
    <2> DEFINE new == IF row \in rows THEN tx[k].rows ELSE tx[k].rows \cup {row}
    <2>1. tx[k].pc = from /\ tx' = [tx EXCEPT ![k].pc = to, ![k].rows = new]
        BY <1>5 DEF Inserts
    <2> HIDE DEF new
    <2>2. /\ Moves(k, tx[k].pc, to)
          /\ tx'[k].rows = new /\ SameSeen(k) /\ SameBans(k)
        BY <1>0, <2>1, TxFields, Zenon
    <2>3. /\ tx[k].rows \cup {row} \subseteq rows \cup new
          /\ tx[k].rows \subseteq new
        BY DEF new
    <2>4. Moves(k, from, to)
        BY <2>1, <2>2 DEF Moves
    <2> QED
        BY <2>2, <2>3, <2>4
<1> QED
    BY <1>1, <1>2, <1>3, <1>4, <1>5

\* The ends of a transaction.
LEMMA EndMoves ==
    ASSUME TypeOK, NEW k \in Call
    PROVE  /\ \A to : Goes(k, "commit", to) =>
                  /\ Moves(k, "commit", to)
                  /\ SameRows(k) /\ SameSeen(k) /\ SameBans(k)
           /\ Aborts(k) =>
                  /\ Moves(k, tx[k].pc, "failed")
                  /\ SameSeen(k) /\ SameBans(k)
<1>0. tx \in TxType
    BY DEF TypeOK, TxType
<1>1. ASSUME NEW to, Goes(k, "commit", to)
      PROVE  /\ Moves(k, "commit", to)
             /\ SameRows(k) /\ SameSeen(k) /\ SameBans(k)
    BY <1>0, <1>1, TxFields DEF Goes, Moves
<1>2. ASSUME Aborts(k)
      PROVE  Moves(k, tx[k].pc, "failed") /\ SameSeen(k) /\ SameBans(k)
    BY <1>0, <1>2, TxFields DEF Aborts, Moves
<1> QED
    BY <1>1, <1>2

-----------------------------------------------------------------------------
(***************************************************************************)
(* The statements of a transaction keep the invariant: they publish        *)
(* nothing, so only what is said of the transactions can change.           *)
(***************************************************************************)
\* What is said of the tables and the history survives any step of an open
\* transaction that leaves them alone and does not succeed.
LEMMA QuietStep ==
    ASSUME Inv, NEW k \in Call, NEW from, NEW to, Moves(k, from, to),
           from \notin {"done", "failed"}, to # "done",
           UNCHANGED <<tables, history>>, faults' \in Nat, faults <= faults'
    PROVE  OpenInv' /\ BanNotMissed' /\ OneHandlerPerBan' /\ SuccessIsStored'
<1>1. \A l \in Call : tx'[l].pc = "done" => tx[l].pc = "done"
    BY DEF Moves
<1>2. \A r \in Report : Open(r)' => Open(r)
    <2>1. Report \subseteq Call
        BY DEF Call
    <2> QED
        BY <2>1 DEF Open, Moves
<1>3. OpenInv'
    BY <1>2 DEF OpenInv, Inv, tables
<1>4. BanNotMissed'
    BY DEF BanNotMissed, Inv, About, tables, history
<1>5. OneHandlerPerBan'
    <2>1. /\ \A u \in User : told[u] \in Nat /\ bans[u] \in Nat
          /\ faults \in Nat
        BY ReportsAssumption DEF Inv, TypeOK
    <2> QED
        BY <2>1 DEF OneHandlerPerBan, Inv, history
<1>6. SuccessIsStored'
    BY <1>1 DEF SuccessIsStored, Inv, Row1, Row2, About, tables
<1> QED
    BY <1>3, <1>4, <1>5, <1>6

\* InsertReport and the two block rows.
LEMMA InsertsInv ==
    ASSUME Inv, NEW k \in Call, (k \in Report /\ InsertReport(k)) \/ InsertRows(k)
    PROVE  LockInv' /\ BansInv' /\ SeenInv' /\ RowsInv' /\ OpenInv'
           /\ BanNotMissed' /\ OneHandlerPerBan' /\ SuccessIsStored'
<1>0. /\ TypeOK /\ LockInv /\ BansInv /\ SeenInv /\ RowsInv
      /\ faults \in Nat
      /\ Call = Report \cup Block
      /\ \A l \in Report : l \notin Block
    BY ReportsAssumption DEF Inv, TypeOK, Call
<1>1. UNCHANGED <<tables, history, faults, lock>>
    BY DEF InsertReport, InsertRows, Inserts
<1>2. PICK from, to :
          /\ Moves(k, from, to) /\ SameSeen(k) /\ SameBans(k)
          /\ tx[k].rows \subseteq tx'[k].rows
          /\ \/ k \in Report /\ from = "begin" /\ to = "row1"
             \/ from = "row1" /\ to = "row2"
             \/ from = "row2" /\ to = "count" /\ k \in Report
             \/ from = "row2" /\ to = "commit" /\ k \in Block
          /\ from = "row1" => Row1(k) \in rows \cup tx'[k].rows
          /\ from = "row2" => Row2(k) \in rows \cup tx'[k].rows
    <2>1. CASE k \in Report /\ InsertReport(k)
        BY <1>0, <2>1, StatementMoves DEF SameRows
    <2>2. CASE InsertRows(k)
        <3>1. CASE Inserts(k, Row1(k), "row1", "row2")
            BY <1>0, <3>1, StatementMoves
        <3>2. CASE Inserts(k, Row2(k), "row2",
                           IF k \in Report THEN "count" ELSE "commit")
            BY <1>0, <3>2, StatementMoves
        <3> QED
            BY <2>2, <3>1, <3>2 DEF InsertRows
    <2> QED
        BY <2>1, <2>2
<1>3. from \notin {"done", "failed"} /\ to # "done"
    BY <1>2
<1>4. OpenInv' /\ BanNotMissed' /\ OneHandlerPerBan' /\ SuccessIsStored'
    BY <1>0, <1>1, <1>2, <1>3, QuietStep
<1>5. LockInv'
    <2>1. \A r \in Report : tx'[r].pc \in Locking => tx[r].pc \in Locking
        BY <1>0, <1>2 DEF Moves, Locking
    <2>2. \A l \in Call : tx[l].pc \in Locking /\ l \in Report
                              => tx'[l].pc \in Locking
        BY <1>0, <1>2 DEF Moves, Locking
    <2>3. \A l \in Block : tx'[l].pc \in {"row1", "row2", "commit", "done",
                                          "failed"}
        BY <1>0, <1>2 DEF Moves, LockInv
    <2> QED
        BY <1>0, <1>1, <2>1, <2>2, <2>3 DEF LockInv
<1>6. BansInv'
    <2>1. ~tx[k].bans
        BY <1>0, <1>2 DEF BansInv, Moves, Open
    <2>2. ~tx'[k].bans
        BY <1>2, <2>1 DEF SameBans
    <2> QED
        BY <1>0, <1>1, <1>2, <2>2 DEF BansInv, Moves, Open, tables
<1>7. SeenInv'
    <2>1. \A r \in Report : tx'[r].pc \in {"ban", "commit"} => tx'[r] = tx[r]
        BY <1>0, <1>2 DEF Moves
    <2> QED
        BY <1>0, <1>1, <2>1 DEF SeenInv, About, tables
<1>8. RowsInv'
    <2>1. rows' = rows
        BY <1>1 DEF tables
    <2>2. ASSUME NEW l \in Call
          PROVE  /\ tx'[l].pc \in {"row2", "count"} \cup Locking =>
                       Row1(l) \in rows \cup tx'[l].rows
                 /\ tx'[l].pc \in {"count"} \cup Locking =>
                       Row2(l) \in rows \cup tx'[l].rows
        <3>1. CASE l # k
            BY <1>0, <1>2, <3>1 DEF RowsInv, Moves
        <3>2. CASE l = k
            BY <1>0, <1>2, <3>2 DEF RowsInv, Moves, Locking
        <3> QED
            BY <3>1, <3>2
    <2> QED
        BY <2>1, <2>2 DEF RowsInv, Row1, Row2
<1> QED
    BY <1>4, <1>5, <1>6, <1>7, <1>8

\* A report that moves on without a row to insert keeps what is said of rows.
LEMMA NoRowStep ==
    ASSUME Inv, NEW k \in Call, NEW from, NEW to, Moves(k, from, to),
           from \in {"count"} \cup Locking, SameRows(k), rows' = rows
    PROVE  RowsInv'
<1>1. RowsInv
    BY DEF Inv
<1>2. ASSUME NEW l \in Call
      PROVE  /\ tx'[l].pc \in {"row2", "count"} \cup Locking =>
                   Row1(l) \in rows \cup tx'[l].rows
             /\ tx'[l].pc \in {"count"} \cup Locking =>
                   Row2(l) \in rows \cup tx'[l].rows
    <2>1. CASE l # k
        BY <1>1, <2>1 DEF RowsInv, Moves
    <2>2. CASE l = k
        BY <1>1, <2>2 DEF RowsInv, Moves, SameRows
    <2> QED
        BY <2>1, <2>2
<1> QED
    BY <1>2 DEF RowsInv, Row1, Row2

\* UPDATE users: the report takes the lock of the user it is about.
LEMMA CountInv ==
    ASSUME Inv, NEW k \in Report, Count(k)
    PROVE  LockInv' /\ BansInv' /\ SeenInv' /\ RowsInv' /\ OpenInv'
           /\ BanNotMissed' /\ OneHandlerPerBan' /\ SuccessIsStored'
<1>0. /\ TypeOK /\ LockInv /\ BansInv /\ SeenInv
      /\ faults \in Nat /\ k \in Call
      /\ Call = Report \cup Block
      /\ \A l \in Report : l \notin Block
    BY ReportsAssumption DEF Inv, TypeOK, Call
<1>1. /\ Moves(k, "count", "select")
      /\ SameRows(k) /\ SameSeen(k) /\ SameBans(k)
    BY <1>0, StatementMoves
<1>2. /\ UNCHANGED <<tables, history, faults>>
      /\ lock[To[k]] = None
      /\ lock' = [lock EXCEPT ![To[k]] = k]
    BY DEF Count
<1>3. OpenInv' /\ BanNotMissed' /\ OneHandlerPerBan' /\ SuccessIsStored'
    BY <1>0, <1>1, <1>2, QuietStep
<1>4. RowsInv'
    BY <1>0, <1>1, <1>2, NoRowStep DEF tables
<1>5. LockInv'
    <2>1. /\ lock \in [User -> Call \cup {None}] /\ To[k] \in User
          /\ k # None /\ \A r \in Report : r # None /\ To[r] \in User
        BY <1>0, UsersOfCall, ReportsAssumption DEF TypeOK
    <2>2. ASSUME NEW r \in Report, tx'[r].pc \in Locking
          PROVE  lock'[To[r]] = r
        <3>1. CASE r = k
            BY <1>2, <2>1, <3>1
        <3>2. CASE r # k
            <4>1. lock[To[r]] = r
                BY <1>0, <1>1, <2>2, <3>2 DEF LockInv, Moves
            <4>2. To[r] # To[k]
                BY <1>2, <2>1, <4>1
            <4> QED
                BY <1>2, <2>1, <4>1, <4>2
        <3> QED
            BY <3>1, <3>2
    <2>3. ASSUME NEW u \in User, lock'[u] # None
          PROVE  /\ lock'[u] \in Report
                 /\ To[lock'[u]] = u
                 /\ tx'[lock'[u]].pc \in Locking
        <3>1. CASE u = To[k]
            BY <1>1, <1>2, <2>1, <3>1 DEF Moves, Locking
        <3>2. CASE u # To[k]
            <4>1. lock'[u] = lock[u]
                BY <1>2, <2>1, <3>2
            <4>2. /\ lock[u] \in Report /\ To[lock[u]] = u
                  /\ tx[lock[u]].pc \in Locking
                BY <1>0, <2>3, <4>1 DEF LockInv
            <4> QED
                BY <1>0, <1>1, <3>2, <4>1, <4>2 DEF Moves
        <3> QED
            BY <3>1, <3>2
    <2>4. \A b \in Block : tx'[b] = tx[b]
        BY <1>0, <1>1 DEF Moves
    <2> QED
        BY <1>0, <2>2, <2>3, <2>4 DEF LockInv
<1>6. BansInv'
    <2>1. ~tx[k].bans /\ ~tx'[k].bans
        BY <1>0, <1>1 DEF BansInv, Moves, Open, SameBans
    <2> QED
        BY <1>0, <1>1, <1>2, <2>1 DEF BansInv, Moves, Open, tables
<1>7. SeenInv'
    <2>1. \A r \in Report : tx'[r].pc \in {"ban", "commit"} => tx'[r] = tx[r]
        BY <1>0, <1>1 DEF Moves
    <2> QED
        BY <1>0, <1>2, <2>1 DEF SeenInv, About, tables
<1> QED
    BY <1>3, <1>4, <1>5, <1>6, <1>7

\* A statement under the lock leaves all locks as they are.
LEMMA LockedStep ==
    ASSUME Inv, NEW k \in Report, NEW from \in Locking, NEW to \in Locking,
           Moves(k, from, to), lock' = lock
    PROVE  LockInv'
<1>1. LockInv /\ k \notin Block /\ Report \subseteq Call /\ Block \subseteq Call
    BY ReportsAssumption DEF Inv, Call
<1>2. \A l \in Report : tx'[l].pc \in Locking <=> tx[l].pc \in Locking
    BY <1>1 DEF Moves
<1>3. \A l \in Block : tx'[l] = tx[l]
    BY <1>1 DEF Moves
<1> QED
    BY <1>1, <1>2, <1>3 DEF LockInv

\* SELECT COUNT(*): what is counted is more than what is there.
LEMMA SelectInv ==
    ASSUME Inv, NEW k \in Report, SelectRecent(k)
    PROVE  LockInv' /\ BansInv' /\ SeenInv' /\ RowsInv' /\ OpenInv'
           /\ BanNotMissed' /\ OneHandlerPerBan' /\ SuccessIsStored'
<1>0. /\ TypeOK /\ LockInv /\ BansInv /\ SeenInv
      /\ faults \in Nat /\ k \in Call /\ Report \subseteq Call
    BY ReportsAssumption DEF Inv, TypeOK, Call
<1>1. /\ Moves(k, "select", "ban") /\ SameRows(k) /\ SameBans(k)
      /\ tx'[k].seen = Cardinality(About(To[k], recent)) + 1
    BY <1>0, StatementMoves
<1>2. UNCHANGED <<tables, lock, history, faults>>
    BY DEF SelectRecent
<1>3. OpenInv' /\ BanNotMissed' /\ OneHandlerPerBan' /\ SuccessIsStored'
    BY <1>0, <1>1, <1>2, QuietStep
<1>4. RowsInv'
    BY <1>0, <1>1, <1>2, NoRowStep DEF tables, Locking
<1>5. LockInv'
    BY <1>0, <1>1, <1>2, LockedStep DEF Locking
<1>6. BansInv'
    <2>1. ~tx[k].bans /\ ~tx'[k].bans
        BY <1>0, <1>1 DEF BansInv, Moves, Open, SameBans
    <2> QED
        BY <1>0, <1>1, <1>2, <2>1 DEF BansInv, Moves, Open, tables
<1>7. SeenInv'
    <2>1. Cardinality(About(To[k], recent)) \in Nat
        BY AboutFinite DEF Inv, TypeOK
    <2>2. ASSUME NEW r \in Report
          PROVE  /\ tx'[r].pc \in {"ban", "commit"} =>
                       tx'[r].seen > Cardinality(About(To[r], recent))
                 /\ tx'[r].pc = "commit" /\ tx'[r].seen > Threshold =>
                       tx'[r].bans \/ To[r] \in banned
        <3>1. CASE r = k
            BY <1>1, <2>1, <3>1 DEF Moves
        <3>2. CASE r # k
            BY <1>0, <1>1, <3>2 DEF SeenInv, Moves
        <3> QED
            BY <3>1, <3>2
    <2> QED
        BY <1>2, <2>2 DEF SeenInv, About, tables
<1> QED
    BY <1>3, <1>4, <1>5, <1>6, <1>7

\* UPDATE users SET banned_at: above the threshold the user is banned, or is
\* going to be by this transaction.
LEMMA BanInv ==
    ASSUME Inv, NEW k \in Report, Ban(k)
    PROVE  LockInv' /\ BansInv' /\ SeenInv' /\ RowsInv' /\ OpenInv'
           /\ BanNotMissed' /\ OneHandlerPerBan' /\ SuccessIsStored'
<1>0. /\ TypeOK /\ LockInv /\ BansInv /\ SeenInv
      /\ faults \in Nat /\ k \in Call /\ Report \subseteq Call
    BY ReportsAssumption DEF Inv, TypeOK, Call
<1>1. /\ Moves(k, "ban", "commit") /\ SameRows(k) /\ SameSeen(k)
      /\ tx'[k].bans = (tx[k].seen > Threshold /\ To[k] \notin banned)
    BY <1>0, StatementMoves
<1>2. UNCHANGED <<tables, lock, history, faults>>
    BY DEF Ban
<1>3. OpenInv' /\ BanNotMissed' /\ OneHandlerPerBan' /\ SuccessIsStored'
    BY <1>0, <1>1, <1>2, QuietStep
<1>4. RowsInv'
    BY <1>0, <1>1, <1>2, NoRowStep DEF tables, Locking
<1>5. LockInv'
    BY <1>0, <1>1, <1>2, LockedStep DEF Locking
<1>6. BansInv'
    BY <1>0, <1>1, <1>2 DEF BansInv, Moves, Open, tables
<1>7. SeenInv'
    <2>1. ASSUME NEW r \in Report
          PROVE  /\ tx'[r].pc \in {"ban", "commit"} =>
                       tx'[r].seen > Cardinality(About(To[r], recent))
                 /\ tx'[r].pc = "commit" /\ tx'[r].seen > Threshold =>
                       tx'[r].bans \/ To[r] \in banned
        <3>1. CASE r = k
            BY <1>0, <1>1, <3>1 DEF Moves, SeenInv, SameSeen
        <3>2. CASE r # k
            BY <1>0, <1>1, <3>2 DEF SeenInv, Moves
        <3> QED
            BY <3>1, <3>2
    <2> QED
        BY <1>2, <2>1 DEF SeenInv, About, tables
<1> QED
    BY <1>3, <1>4, <1>5, <1>6, <1>7

-----------------------------------------------------------------------------
(***************************************************************************)
(* The ends of a transaction keep the invariant.                           *)
(***************************************************************************)
\* A transaction that ends gives up its lock, and nobody else's.
LEMMA UnlockInv ==
    ASSUME Inv, NEW k \in Call, NEW from, NEW to \in {"done", "failed"},
           Moves(k, from, to), Unlock(k)
    PROVE  LockInv'
<1>0. /\ TypeOK /\ LockInv
      /\ Call = Report \cup Block /\ k # None
      /\ \A r \in Report : To[r] \in User /\ r # None
    BY ReportsAssumption, UsersOfCall DEF Inv, Call
<1>1. \A u \in User : lock'[u] = IF lock[u] = k THEN None ELSE lock[u]
    BY DEF Unlock
<1>2. ASSUME NEW r \in Report, tx'[r].pc \in Locking
      PROVE  lock'[To[r]] = r
    <2>1. r # k
        BY <1>2 DEF Moves, Locking
    <2>2. lock[To[r]] = r
        BY <1>0, <1>2, <2>1 DEF LockInv, Moves
    <2> QED
        BY <1>0, <1>1, <2>1, <2>2
<1>3. ASSUME NEW u \in User, lock'[u] # None
      PROVE  /\ lock'[u] \in Report
             /\ To[lock'[u]] = u
             /\ tx'[lock'[u]].pc \in Locking
    <2>1. lock'[u] = lock[u] /\ lock[u] # k
        BY <1>1, <1>3
    <2>2. /\ lock[u] \in Report /\ To[lock[u]] = u
          /\ tx[lock[u]].pc \in Locking
        BY <1>0, <1>3, <2>1 DEF LockInv
    <2> QED
        BY <1>0, <2>1, <2>2 DEF Moves
<1>4. \A b \in Block : tx'[b].pc \in {"row1", "row2", "commit", "done",
                                      "failed"}
    BY <1>0 DEF LockInv, Moves
<1> QED
    BY <1>2, <1>3, <1>4 DEF LockInv

\* A rollback.
LEMMA AbortsInv ==
    ASSUME Inv, NEW k \in Call, Aborts(k), faults' \in Nat, faults <= faults'
    PROVE  LockInv' /\ BansInv' /\ SeenInv' /\ RowsInv' /\ OpenInv'
           /\ BanNotMissed' /\ OneHandlerPerBan' /\ SuccessIsStored'
<1>0. /\ TypeOK /\ BansInv /\ SeenInv /\ RowsInv /\ Report \subseteq Call
    BY DEF Inv, Call
<1>1. Moves(k, tx[k].pc, "failed")
    BY <1>0, EndMoves
<1>2. Open(k) /\ Unlock(k) /\ UNCHANGED <<tables, history>>
    BY DEF Aborts
<1>3. OpenInv' /\ BanNotMissed' /\ OneHandlerPerBan' /\ SuccessIsStored'
    BY <1>1, <1>2, QuietStep DEF Open
<1>4. LockInv'
    BY <1>1, <1>2, UnlockInv
<1>5. BansInv'
    BY <1>0, <1>1, <1>2 DEF BansInv, Moves, Open, tables
<1>6. SeenInv'
    <2>1. \A r \in Report : tx'[r].pc \in {"ban", "commit"} => tx'[r] = tx[r]
        BY <1>0, <1>1 DEF Moves
    <2> QED
        BY <1>0, <1>2, <2>1 DEF SeenInv, About, tables
<1>7. RowsInv'
    <2>1. \A l \in Call : tx'[l].pc = "failed" \/ tx'[l] = tx[l]
        BY <1>1 DEF Moves
    <2> QED
        BY <1>0, <1>2, <2>1 DEF RowsInv, Row1, Row2, Locking, tables
<1> QED
    BY <1>3, <1>4, <1>5, <1>6, <1>7

\* What the commit of a report publishes, and that of a block call beside its
\* rows.
ReportPublished(k) ==
    /\ reports' = reports \cup {k}
    /\ recent' = recent \cup {k}
    /\ banned' = IF tx[k].bans THEN banned \cup {To[k]} ELSE banned
    /\ pardoned' = pardoned \ {To[k]}
    /\ \A u \in User :
          /\ received'[u] = received[u] + Cardinality(About(u, {k}))
          /\ bans'[u] = IF tx[k].bans /\ u = To[k] /\ u \notin banned
                        THEN bans[u] + 1 ELSE bans[u]

NoReportPublished ==
    /\ reports' = reports
    /\ recent' = recent
    /\ banned' = banned
    /\ pardoned' = pardoned
    /\ \A u \in User :
          /\ received'[u] = received[u] + Cardinality(About(u, {}))
          /\ bans'[u] = bans[u]

\* A commit publishes the one or the other.
LEMMA PublishesWhat ==
    ASSUME NEW k \in Call, Publishes(k)
    PROVE  /\ rows' = rows \cup tx[k].rows
           /\ k \in Report => ReportPublished(k)
           /\ k \notin Report => NoReportPublished
<1>1. CASE k \in Report
    <2>1. {k} \cap Report = {k}
        BY <1>1
    <2>2. {To[r] : r \in {s \in {k} : tx[s].bans}} =
              IF tx[k].bans THEN {To[k]} ELSE {}
        OBVIOUS
    <2>3. {To[r] : r \in {k}} = {To[k]}
        OBVIOUS
    <2> QED
        BY <1>1, <2>1, <2>2, <2>3 DEF Publishes, ReportPublished
<1>2. CASE k \notin Report
    <2>1. {k} \cap Report = {}
        BY <1>2
    <2>2. {To[r] : r \in {s \in {} : tx[s].bans}} = {}
          /\ {To[r] : r \in {}} = {}
        OBVIOUS
    <2> QED
        BY <1>2, <2>1, <2>2 DEF Publishes, NoReportPublished
<1> QED
    BY <1>1, <1>2

\* A commit, whether or not its reply is lost: of the reports about a user only
\* the one that holds the lock can be about to commit.
LEMMA CommitInv ==
    ASSUME Inv, NEW k \in Call, Commit(k) \/ CommitReplyLost(k)
    PROVE  LockInv' /\ BansInv' /\ SeenInv' /\ RowsInv' /\ OpenInv'
           /\ BanNotMissed' /\ OneHandlerPerBan' /\ SuccessIsStored'
<1>0. /\ TypeOK /\ LockInv /\ BansInv /\ SeenInv /\ RowsInv /\ OpenInv
      /\ BanNotMissed /\ OneHandlerPerBan /\ SuccessIsStored
      /\ IsFiniteSet(reports) /\ recent \subseteq reports
      /\ Call = Report \cup Block /\ \A r \in Report : r \notin Block
      /\ Threshold \in Nat /\ faults \in Nat
      /\ \A l \in Call : To[l] \in User
    BY ReportsAssumption, UsersOfCall DEF Inv, TypeOK, Call
<1>1. PICK to \in {"done", "failed"} : Goes(k, "commit", to)
    BY DEF Commit, CommitReplyLost
<1>2. /\ Moves(k, "commit", to)
      /\ SameRows(k) /\ SameSeen(k) /\ SameBans(k)
    BY <1>0, <1>1, EndMoves
<1>3. /\ Unlock(k)
      /\ rows' = rows \cup tx[k].rows
      /\ k \in Report => ReportPublished(k)
      /\ k \notin Report => NoReportPublished
    <2>1. Publishes(k) /\ Unlock(k)
        BY DEF Commit, CommitReplyLost
    <2> QED
        BY <2>1, PublishesWhat
<1>4. LockInv'
    BY <1>2, <1>3, UnlockInv
<1>5. banned \subseteq banned' /\ (k \notin Report => banned' = banned)
      /\ \A u \in banned' \ banned : k \in Report /\ tx[k].bans /\ u = To[k]
    BY <1>3 DEF ReportPublished, NoReportPublished
<1>6. \A r \in Report : r # k /\ k \in Report /\ To[r] = To[k] =>
          tx[r].pc \notin Locking
    BY <1>0, <1>2 DEF LockInv, Moves, Locking
<1>7. BansInv'
    <2>1. ASSUME NEW l \in Call, tx'[l].bans, Open(l)'
          PROVE  l \in Report /\ tx'[l].pc = "commit" /\ To[l] \notin banned'
        <3>1. l # k
            BY <1>2, <2>1 DEF Open, Moves
        <3>2. tx'[l] = tx[l]
            BY <1>2, <3>1 DEF Moves
        <3>3. l \in Report /\ tx[l].pc = "commit" /\ To[l] \notin banned
            BY <1>0, <2>1, <3>2 DEF BansInv, Open
        <3> QED
            BY <1>0, <1>5, <1>6, <3>1, <3>2, <3>3 DEF Locking
    <2> QED
        BY <2>1 DEF BansInv
<1>8. SeenInv'
    <2>1. ASSUME NEW r \in Report, tx'[r].pc \in {"ban", "commit"}
          PROVE  /\ tx'[r].seen > Cardinality(About(To[r], recent'))
                 /\ tx'[r].pc = "commit" /\ tx'[r].seen > Threshold =>
                       tx'[r].bans \/ To[r] \in banned'
        <3>1. r # k
            BY <1>2, <2>1 DEF Moves
        <3>2. tx'[r] = tx[r]
            BY <1>0, <1>2, <3>1 DEF Moves
        <3>3. About(To[r], recent') = About(To[r], recent)
            <4>1. k \in Report => To[r] # To[k]
                BY <1>6, <2>1, <3>1, <3>2 DEF Locking
            <4>2. CASE k \in Report
                BY <1>3, <4>1, <4>2 DEF ReportPublished, About
            <4>3. CASE k \notin Report
                BY <1>3, <4>3 DEF NoReportPublished
            <4> QED
                BY <4>2, <4>3
        <3> QED
            BY <1>0, <1>5, <2>1, <3>2, <3>3 DEF SeenInv
    <2> QED
        BY <2>1 DEF SeenInv, About
<1>9. RowsInv'
    <2>1. rows \subseteq rows'
        BY <1>3
    <2>2. ASSUME NEW l \in Call
          PROVE  /\ tx'[l].pc \in {"row2", "count"} \cup Locking =>
                       Row1(l) \in rows' \cup tx'[l].rows
                 /\ tx'[l].pc \in {"count"} \cup Locking =>
                       Row2(l) \in rows' \cup tx'[l].rows
        BY <1>0, <1>2, <2>1 DEF RowsInv, Moves, Locking
    <2> QED
        BY <2>2 DEF RowsInv, Row1, Row2
<1>10. OpenInv'
    <2>1. ASSUME NEW r \in Report, Open(r)'
          PROVE  r \notin reports'
        <3>1. r # k
            BY <1>2, <2>1 DEF Open, Moves
        <3>2. r \notin reports
            BY <1>0, <1>2, <2>1, <3>1 DEF OpenInv, Open, Moves
        <3> QED
            BY <1>3, <3>1, <3>2
            DEF ReportPublished, NoReportPublished
    <2> QED
        BY <2>1 DEF OpenInv
<1>11. BanNotMissed'
    <2>1. ASSUME NEW u \in User,
                 Cardinality(About(u, recent')) > Threshold
          PROVE  u \in banned' \cup pardoned'
        <3>1. CASE k \in Report /\ u = To[k]
            <4>1. k \notin recent /\ recent' = recent \cup {k}
                BY <1>0, <1>2, <1>3, <3>1
                DEF ReportPublished, NoReportPublished, OpenInv, Open, Moves
            <4>2. IsFiniteSet(recent) /\ Cardinality(About(u, recent)) \in Nat
                BY <1>0, AboutFinite, FS_Subset
            <4>3. Cardinality(About(u, recent'))
                      = Cardinality(About(u, recent)) + 1
                BY <3>1, <4>1, <4>2, AboutOneMore
            <4>4. tx[k].seen > Cardinality(About(u, recent))
                  /\ (tx[k].seen > Threshold => tx[k].bans \/ u \in banned)
                BY <1>0, <1>2, <3>1 DEF SeenInv, Moves
            <4>5. tx[k].seen \in Nat
                BY <1>0 DEF TypeOK
            <4>6. tx[k].seen > Threshold
                BY <1>0, <2>1, <4>2, <4>3, <4>4, <4>5
            <4> QED
                BY <1>3, <1>5, <3>1, <4>4, <4>6
                DEF ReportPublished, NoReportPublished
        <3>2. CASE ~(k \in Report /\ u = To[k])
            <4>1. About(u, recent') = About(u, recent)
                BY <1>3, <3>2
                DEF ReportPublished, NoReportPublished, About
            <4>2. u \in banned \cup pardoned
                BY <1>0, <2>1, <4>1 DEF BanNotMissed
            <4> QED
                BY <1>3, <1>5, <3>2, <4>2
                DEF ReportPublished, NoReportPublished
        <3> QED
            BY <3>1, <3>2
    <2> QED
        BY <2>1 DEF BanNotMissed, About
<1>12. OneHandlerPerBan'
    <2>1. ASSUME NEW u \in User
          PROVE  told'[u] <= bans'[u] /\ bans'[u] - told'[u] <= faults'
        <3>1. /\ told[u] \in Nat /\ bans[u] \in Nat
              /\ told[u] <= bans[u] /\ bans[u] - told[u] <= faults
            BY <1>0 DEF OneHandlerPerBan, TypeOK
        <3>2. tx[k].bans => k \in Report /\ To[k] \notin banned
            BY <1>0, <1>2 DEF BansInv, Open, Moves
        <3>3. bans'[u] = IF tx[k].bans /\ u = To[k]
                         THEN bans[u] + 1 ELSE bans[u]
            BY <1>3, <3>2
            DEF ReportPublished, NoReportPublished
        <3>4. CASE Commit(k)
            <4>1. /\ faults' = faults
                  /\ told'[u] = IF tx[k].bans /\ u = To[k]
                                THEN told[u] + 1 ELSE told[u]
                BY <3>4 DEF Commit
            <4> QED
                BY <1>0, <3>1, <3>3, <4>1
        <3>5. CASE CommitReplyLost(k)
            <4>1. faults' = faults + 1 /\ told' = told
                BY <3>5 DEF CommitReplyLost
            <4> QED
                BY <1>0, <3>1, <3>3, <4>1
        <3> QED
            BY <3>4, <3>5
    <2> QED
        BY <2>1 DEF OneHandlerPerBan
<1>13. SuccessIsStored'
    <2>1. reports \subseteq reports' /\ rows' = rows \cup tx[k].rows
          /\ (k \in Report => reports' = reports \cup {k})
        BY <1>3 DEF ReportPublished, NoReportPublished
    <2>2. ASSUME NEW l \in Call, tx'[l].pc = "done"
          PROVE  /\ {Row1(l), Row2(l)} \subseteq rows'
                 /\ l \in Report => l \in reports'
        <3>1. CASE l = k
            BY <1>0, <1>2, <2>1, <3>1 DEF RowsInv, Moves, Locking
        <3>2. CASE l # k
            BY <1>0, <1>2, <2>1, <2>2, <3>2 DEF SuccessIsStored, Moves
        <3> QED
            BY <3>1, <3>2
    <2>3. ASSUME NEW u \in User
          PROVE  received'[u] = Cardinality(About(u, reports'))
        <3>1. received[u] = Cardinality(About(u, reports))
              /\ received[u] \in Nat
            BY <1>0 DEF SuccessIsStored, TypeOK
        <3>2. CASE k \in Report
            <4>1. k \notin reports
                BY <1>0, <1>2, <3>2 DEF OpenInv, Open, Moves
            <4>2. Cardinality(About(u, reports \cup {k})) =
                      Cardinality(About(u, reports))
                      + IF To[k] = u THEN 1 ELSE 0
                BY <1>0, <4>1, AboutOneMore
            <4>3. Cardinality(About(u, {k})) = IF To[k] = u THEN 1 ELSE 0
                BY AboutSingle
            <4>4. reports' = reports \cup {k}
                  /\ received'[u] = received[u] + Cardinality(About(u, {k}))
                BY <1>3, <3>2
                DEF ReportPublished, NoReportPublished
            <4> QED
                BY <3>1, <4>2, <4>3, <4>4
        <3>3. CASE k \notin Report
            <4>1. Cardinality(About(u, {})) = 0
                BY AboutSingle
            <4>2. reports' = reports
                  /\ received'[u] = received[u] + Cardinality(About(u, {}))
                BY <1>3, <3>3
                DEF ReportPublished, NoReportPublished
            <4> QED
                BY <3>1, <4>1, <4>2
        <3> QED
            BY <3>2, <3>3
    <2> QED
        BY <2>2, <2>3 DEF SuccessIsStored, Row1, Row2, About
<1> QED
    BY <1>4, <1>7, <1>8, <1>9, <1>10, <1>11, <1>12, <1>13

-----------------------------------------------------------------------------
(***************************************************************************)
(* The admin and the passing of time keep the invariant.                   *)
(***************************************************************************)
\* The admin's statements wait for the lock on the user's row.
LEMMA AdminInv ==
    ASSUME Inv, NEW u \in User, banUser(u) \/ unbanUser(u)
    PROVE  LockInv' /\ BansInv' /\ SeenInv' /\ RowsInv' /\ OpenInv'
           /\ BanNotMissed' /\ OneHandlerPerBan' /\ SuccessIsStored'
<1>0. /\ LockInv /\ BansInv /\ SeenInv /\ RowsInv /\ OpenInv
      /\ BanNotMissed /\ OneHandlerPerBan /\ SuccessIsStored
      /\ Report \subseteq Call /\ None \notin Call
      /\ faults \in Nat
      /\ bans \in [User -> Nat] /\ told \in [User -> Nat]
      /\ banned \subseteq User
    BY ReportsAssumption DEF Inv, Call, TypeOK
<1>1. /\ lock[u] = None
      /\ UNCHANGED <<reports, recent, received, rows, tx, lock, faults>>
    BY DEF banUser, unbanUser, Admin
<1>2. LockInv' /\ RowsInv' /\ OpenInv' /\ SuccessIsStored'
    BY <1>0, <1>1
    DEF LockInv, RowsInv, OpenInv, SuccessIsStored, Open, Row1, Row2, About
<1>3. \A r \in Report : tx[r].pc \in Locking => To[r] # u
    BY <1>0, <1>1 DEF LockInv
<1>4. \A v \in User \ {u} : v \in banned' <=> v \in banned
    BY DEF banUser, unbanUser
<1>5. BansInv'
    BY <1>0, <1>1, <1>3, <1>4, UsersOfCall DEF BansInv, Open, Locking
<1>6. SeenInv'
    BY <1>0, <1>1, <1>3, <1>4, UsersOfCall DEF SeenInv, About, Locking
<1>7. BanNotMissed'
    <2>1. \A v \in User : v \in banned \cup pardoned
                              => v \in banned' \cup pardoned'
        BY DEF banUser, unbanUser
    <2> QED
        BY <1>0, <1>1, <2>1 DEF BanNotMissed, About
<1>8. OneHandlerPerBan'
    BY <1>0, <1>1 DEF OneHandlerPerBan, banUser, unbanUser
<1> QED
    BY <1>2, <1>5, <1>6, <1>7, <1>8

\* Fewer recent reports never make a ban due.
LEMMA AgesOutInv ==
    ASSUME Inv, NEW r \in Report, AgesOut(r)
    PROVE  LockInv' /\ BansInv' /\ SeenInv' /\ RowsInv' /\ OpenInv'
           /\ BanNotMissed' /\ OneHandlerPerBan' /\ SuccessIsStored'
<1>0. /\ LockInv /\ BansInv /\ SeenInv /\ RowsInv /\ OpenInv
      /\ BanNotMissed /\ OneHandlerPerBan /\ SuccessIsStored
      /\ TypeOK /\ Report \subseteq Call /\ Threshold \in Nat
    BY ReportsAssumption DEF Inv, Call
<1>1. /\ recent' \subseteq recent
      /\ UNCHANGED <<reports, received, banned, rows, tx, lock, history,
                     faults>>
    BY DEF AgesOut
<1>2. LockInv' /\ RowsInv' /\ OpenInv' /\ SuccessIsStored' /\ BansInv'
      /\ OneHandlerPerBan'
    BY <1>0, <1>1
    DEF LockInv, RowsInv, OpenInv, SuccessIsStored, Open, Row1, Row2, About,
        BansInv, OneHandlerPerBan, history
<1>3. ASSUME NEW u
      PROVE  /\ Cardinality(About(u, recent')) \in Nat
             /\ Cardinality(About(u, recent)) \in Nat
             /\ Cardinality(About(u, recent')) <= Cardinality(About(u, recent))
    <2>1. IsFiniteSet(recent) /\ recent \in SUBSET recent
        BY FS_Subset DEF Inv, TypeOK
    <2> QED
        BY <1>1, <2>1, AboutFinite
<1>4. SeenInv'
    <2>1. \A l \in Report : tx[l].seen \in Nat
        BY <1>0 DEF TypeOK
    <2>2. ASSUME NEW l \in Report
          PROVE  /\ tx[l].pc \in {"ban", "commit"} =>
                       tx[l].seen > Cardinality(About(To[l], recent'))
                 /\ tx[l].pc = "commit" /\ tx[l].seen > Threshold =>
                       tx[l].bans \/ To[l] \in banned
        BY <1>0, <1>3, <2>1 DEF SeenInv
    <2> QED
        BY <1>1, <2>2 DEF SeenInv, About
<1>5. BanNotMissed'
    <2>1. ASSUME NEW u \in User, Cardinality(About(u, recent')) > Threshold
          PROVE  u \in banned \cup pardoned
        BY <1>0, <1>3, <2>1 DEF BanNotMissed
    <2> QED
        BY <1>1, <2>1 DEF BanNotMissed, About, history
<1> QED
    BY <1>2, <1>4, <1>5

-----------------------------------------------------------------------------
(***************************************************************************)
(* The theorems.                                                           *)
(***************************************************************************)
\* The initial state satisfies the invariant.
LEMMA InitInv == Init => Inv
<1> SUFFICES ASSUME Init
             PROVE  Inv
    OBVIOUS
<1>1. TypeOK /\ IsFiniteSet(reports)
    BY InitTypeOK, FS_EmptySet DEF Init
<1>2. \A k \in Call : /\ tx[k].pc = IF k \in Report THEN "begin" ELSE "row1"
                      /\ tx[k].bans = FALSE
    BY DEF Init
<1>3. LockInv /\ BansInv /\ SeenInv /\ RowsInv
    BY <1>2, ReportsAssumption
    DEF Init, LockInv, BansInv, SeenInv, RowsInv, Locking, Call
<1>4. \A u : About(u, {}) = {} /\ Cardinality(About(u, {})) = 0
    BY AboutSingle DEF About
<1>5. OpenInv /\ BanNotMissed /\ OneHandlerPerBan
    BY <1>4, ReportsAssumption
    DEF Init, OpenInv, BanNotMissed, OneHandlerPerBan
<1>6. SuccessIsStored
    BY <1>2, <1>4 DEF Init, SuccessIsStored
<1> QED
    BY <1>1, <1>3, <1>5, <1>6 DEF Inv

\* Every step keeps the invariant.
LEMMA NextInv == Inv /\ [Next]_vars => Inv'
<1> SUFFICES ASSUME Inv, [Next]_vars
             PROVE  Inv'
    OBVIOUS
<1>1. TypeOK' /\ IsFiniteSet(reports)'
    BY NextTypeOK, ReportsFinite DEF Inv
<1>2. CASE UNCHANGED vars
    BY <1>2
    DEF vars, Inv, TypeOK, LockInv, BansInv, SeenInv, RowsInv, OpenInv,
        BanNotMissed, OneHandlerPerBan, SuccessIsStored, Open, Row1, Row2, About
<1>3. ASSUME NEW k \in Call, CallStep(k) \/ Fails(k) \/ CommitReplyLost(k)
      PROVE  Inv'
    <2>1. faults \in Nat
        BY ReportsAssumption DEF Inv, TypeOK
    <2>2. CASE k \in Report /\ Count(k)
        BY <1>1, <2>2, CountInv DEF Inv
    <2>3. CASE k \in Report /\ SelectRecent(k)
        BY <1>1, <2>3, SelectInv DEF Inv
    <2>4. CASE k \in Report /\ Ban(k)
        BY <1>1, <2>4, BanInv DEF Inv
    <2>5. CASE (k \in Report /\ InsertReport(k)) \/ InsertRows(k)
        BY <1>1, <2>5, InsertsInv DEF Inv
    <2>6. CASE DeadlockDetected(k) \/ Fails(k)
        <3>1. Aborts(k) /\ faults' \in Nat /\ faults <= faults'
            BY <2>1, <2>6 DEF DeadlockDetected, Fails
        <3> QED
            BY <1>1, <3>1, AbortsInv DEF Inv
    <2>7. CASE Commit(k) \/ CommitReplyLost(k)
        BY <1>1, <2>7, CommitInv DEF Inv
    <2> QED
        BY <1>3, <2>2, <2>3, <2>4, <2>5, <2>6, <2>7 DEF CallStep
<1>4. ASSUME NEW u \in User, banUser(u) \/ unbanUser(u)
      PROVE  Inv'
    BY <1>1, <1>4, AdminInv DEF Inv
<1>5. ASSUME NEW r \in Report, AgesOut(r)
      PROVE  Inv'
    BY <1>1, <1>5, AgesOutInv DEF Inv
<1> QED
    BY <1>2, <1>3, <1>4, <1>5 DEF Next

\* The invariant holds in every behaviour.
THEOREM Invariance == Spec => []Inv
    BY InitInv, NextInv, PTL DEF Spec

\* A user with more than Threshold recent reports is banned, unless an admin
\* has lifted the ban since, however many reports about the user are being
\* stored at the same time.
THEOREM NoBanIsMissed == Spec => []BanNotMissed
<1>1. Inv => BanNotMissed
    BY DEF Inv
<1> QED
    BY <1>1, Invariance, PTL

\* Of all handlers and the admin, exactly one learns that its call banned the
\* user, except where the reply to its commit was lost.
THEOREM OneHandlerLearns == Spec => []OneHandlerPerBan
<1>1. Inv => OneHandlerPerBan
    BY DEF Inv
<1> QED
    BY <1>1, Invariance, PTL

\* What a successful call has stored is there, and the counters of the users
\* add up.
THEOREM SuccessStored == Spec => []SuccessIsStored
<1>1. Inv => SuccessIsStored
    BY DEF Inv
<1> QED
    BY <1>1, Invariance, PTL

-----------------------------------------------------------------------------
(***************************************************************************)
(* Who waits for whom.                                                     *)
(***************************************************************************)
\* Before its first row a transaction has inserted none, and before its second
\* at most the first.
HeldInv ==
    \A k \in Call :
        /\ tx[k].pc \in {"begin", "row1"} => tx[k].rows = {}
        /\ tx[k].pc = "row2" => tx[k].rows \subseteq {Row1(k)}

\* A call inserts no other row than the one its statement names.
LEMMA InsertsAtMost ==
    ASSUME TypeOK, NEW k \in Call, NEW row, NEW from, NEW to,
           Inserts(k, row, from, to)
    PROVE  tx'[k].rows \subseteq tx[k].rows \cup {row}
<1> DEFINE new == IF row \in rows THEN tx[k].rows ELSE tx[k].rows \cup {row}
<1>1. tx \in TxType
    BY DEF TypeOK, TxType
<1>2. tx' = [tx EXCEPT ![k].pc = to, ![k].rows = new]
    BY DEF Inserts
<1> HIDE DEF new
<1>3. tx'[k].rows = new
    BY <1>1, <1>2, TxFields, Zenon
<1> QED
    BY <1>3 DEF new

\* No step gives a transaction a row before its time.
LEMMA HeldNext == TypeOK /\ HeldInv /\ [Next]_vars => HeldInv'
<1> SUFFICES ASSUME TypeOK, HeldInv, [Next]_vars
             PROVE  HeldInv'
    OBVIOUS
<1>1. CASE UNCHANGED tx
    BY <1>1 DEF HeldInv, Row1
<1>2. ASSUME NEW k \in Call, CallStep(k) \/ Fails(k) \/ CommitReplyLost(k)
      PROVE  HeldInv'
    <2>1. CASE InsertReport(k)
        <3>1. Moves(k, "begin", "row1") /\ SameRows(k)
            BY <2>1, StatementMoves
        <3> QED
            BY <3>1 DEF HeldInv, Moves, SameRows, Row1
    <2>2. CASE Inserts(k, Row1(k), "row1", "row2")
        <3>1. Moves(k, "row1", "row2") /\ tx'[k].rows \subseteq tx[k].rows \cup {Row1(k)}
            BY <2>2, StatementMoves, InsertsAtMost
        <3> QED
            BY <3>1 DEF HeldInv, Moves, Row1
    <2>3. ASSUME NEW from, NEW to, Moves(k, from, to),
                 to \notin {"begin", "row1", "row2"}
          PROVE  HeldInv'
        BY <2>3 DEF HeldInv, Moves, Row1
    <2>4. CASE Inserts(k, Row2(k), "row2",
                       IF k \in Report THEN "count" ELSE "commit")
        <3>1. Moves(k, "row2", IF k \in Report THEN "count" ELSE "commit")
            BY <2>4, StatementMoves
        <3> QED
            BY <2>3, <3>1
    <2>5. CASE Count(k) \/ SelectRecent(k) \/ Ban(k)
        BY <2>3, <2>5, StatementMoves
    <2>6. CASE Commit(k) \/ CommitReplyLost(k)
        BY <2>3, <2>6, EndMoves DEF Commit, CommitReplyLost
    <2>7. CASE DeadlockDetected(k) \/ Fails(k)
        BY <2>3, <2>7, EndMoves DEF DeadlockDetected, Fails
    <2> QED
        BY <1>2, <2>1, <2>2, <2>4, <2>5, <2>6, <2>7 DEF CallStep, InsertRows
<1>3. CASE \E u \in User : banUser(u) \/ unbanUser(u)
    BY <1>1, <1>3 DEF banUser, unbanUser, Admin
<1>4. CASE \E r \in Report : AgesOut(r)
    BY <1>1, <1>4 DEF AgesOut
<1> QED
    BY <1>1, <1>2, <1>3, <1>4 DEF Next, vars

\* Nobody waits for a call that has inserted no row and holds no lock; only
\* calls between two rows and counting ones wait and may be waited for; and who
\* waits for a lock waits for a call that waits for nobody.
LEMMA Waiting ==
    ASSUME Inv, HeldInv, NEW k \in Call
    PROVE  /\ k \notin WaitsFor(k)
           /\ \A l \in WaitsFor(k) : l \in Call /\ tx[l].pc \notin {"begin", "row1"}
           /\ tx[k].pc \notin {"row1", "row2", "count"} => WaitsFor(k) = {}
           /\ tx[k].pc = "count" => \A l \in WaitsFor(k) : WaitsFor(l) = {}
           /\ tx[k].pc = "row2" => \A l \in WaitsFor(k) :
                  Open(l) /\ Row2(k) \in tx[l].rows /\ Row2(k) \notin rows
<1>0. /\ LockInv /\ TypeOK /\ Report \subseteq Call
      /\ To \in [Call -> User] /\ None \notin Call
    BY ReportsAssumption DEF Inv, Call
<1>1. \A j \in Call : tx[j].pc \notin {"row1", "row2", "count"} => WaitsFor(j) = {}
    BY DEF WaitsFor
<1>2. CASE tx[k].pc = "row1"
    <2>1. WaitsFor(k) \subseteq Inserting(Row1(k)) \ {k}
        BY <1>2 DEF WaitsFor
    <2> QED
        BY <1>2, <2>1 DEF Inserting, HeldInv
<1>3. CASE tx[k].pc = "row2"
    <2>1. /\ WaitsFor(k) \subseteq Inserting(Row2(k)) \ {k}
          /\ WaitsFor(k) # {} => Row2(k) \notin rows
        BY <1>3 DEF WaitsFor
    <2> QED
        BY <1>3, <2>1 DEF Inserting, HeldInv
<1>4. CASE tx[k].pc = "count"
    <2>1. WaitsFor(k) = {lock[To[k]]} \ {None} /\ To[k] \in User
        BY <1>0, <1>4 DEF WaitsFor
    <2>2. \A l \in WaitsFor(k) : l \in Call /\ tx[l].pc \in Locking
        BY <1>0, <2>1 DEF LockInv
    <2> QED
        BY <1>1, <1>4, <2>2 DEF Locking
<1>5. CASE tx[k].pc \notin {"row1", "row2", "count"}
    BY <1>1, <1>5
<1> QED
    BY <1>2, <1>3, <1>4, <1>5

\* A call that waits for itself through others is between its two rows, and so
\* is a call in the opposite direction, which it waits for and which waits for
\* it.
LEMMA CyclesAreOpposite == Inv /\ HeldInv => OnlyOppositeCallsDeadlock
<1> SUFFICES ASSUME Inv, HeldInv, NEW k \in Call, Deadlocked(k)
             PROVE  /\ tx[k].pc = "row2"
                    /\ \E l \in WaitsFor(k) :
                          Row1(l) = Row2(k) /\ k \in WaitsFor(l)
    BY DEF OnlyOppositeCallsDeadlock
\* Every set that would show that k is not deadlocked fails to.
<1>1. ASSUME NEW S \in SUBSET Call, k \notin S, WaitsFor(k) \subseteq S
      PROVE  \E l \in S : ~(WaitsFor(l) \subseteq S)
    BY <1>1 DEF Deadlocked
<1>2. tx[k].pc # "row1"
    <2>1. SUFFICES ASSUME tx[k].pc = "row1"
                   PROVE  FALSE
        OBVIOUS
    <2> DEFINE S == {l \in Call : tx[l].pc # "row1"}
    <2>2. \A l \in Call : WaitsFor(l) \subseteq S
        BY Waiting
    <2> QED
        BY <1>1, <2>1, <2>2
<1>3. WaitsFor(k) \subseteq Call /\ k \notin WaitsFor(k)
    BY Waiting
<1>4. PICK l \in WaitsFor(k) : WaitsFor(l) # {}
    BY <1>1, <1>3
<1>5. tx[k].pc = "row2"
    BY <1>2, <1>4, Waiting
\* Not all that k waits for wait for locks only.
<1>6. PICK m \in WaitsFor(k) : WaitsFor(m) # {} /\ tx[m].pc = "row2"
    <2>1. SUFFICES ASSUME \A m \in WaitsFor(k) :
                              WaitsFor(m) # {} => tx[m].pc = "count"
                   PROVE  FALSE
        BY <1>3, Waiting
    <2> DEFINE S == {j \in Call : j # k /\
                        (j \in WaitsFor(k) \/ WaitsFor(j) = {})}
    <2>2. WaitsFor(k) \subseteq S
        BY <1>3
    <2>3. ASSUME NEW j \in S
          PROVE  WaitsFor(j) \subseteq S
        <3>1. CASE WaitsFor(j) = {}
            BY <3>1
        <3>2. CASE WaitsFor(j) # {}
            <4>1. tx[j].pc = "count" /\ j \in Call
                BY <2>1, <2>3, <3>2
            <4>2. \A i \in WaitsFor(j) : i \in Call /\ WaitsFor(i) = {}
                BY <4>1, Waiting
            <4> QED
                BY <1>4, <4>2
        <3> QED
            BY <3>1, <3>2
    <2> QED
        BY <1>1, <2>2, <2>3
<1>7. m \in Call /\ m # k /\ Row2(k) \in tx[m].rows
    BY <1>3, <1>5, <1>6, Waiting
<1>8. Row1(m) = Row2(k) /\ Row2(m) = Row1(k)
    BY <1>6, <1>7 DEF HeldInv, Row1, Row2
<1>9. Row2(m) \notin rows
    BY <1>6, <1>7, Waiting
<1>10. Row1(k) \in tx[k].rows
    BY <1>5, <1>8, <1>9 DEF Inv, RowsInv
<1>11. k \in WaitsFor(m)
    BY <1>5, <1>6, <1>7, <1>8, <1>9, <1>10 DEF WaitsFor, Inserting, Open
<1> QED
    BY <1>5, <1>6, <1>8, <1>11

\* Only two calls between the same two users, in opposite directions, can wait
\* for each other, however many calls, users and rows there are: no cycle goes
\* through the lock on a user or through three calls.
THEOREM CyclesArePairs == Spec => []OnlyOppositeCallsDeadlock
<1>1. Init => HeldInv
    BY DEF Init, HeldInv, Row1
<1>2. Inv => TypeOK
    BY DEF Inv
<1> QED
    BY <1>1, <1>2, HeldNext, CyclesAreOpposite, Invariance, PTL DEF Spec
=============================================================================
