--------------------------- MODULE ModerationProofs ---------------------------
(***************************************************************************)
(* Proofs about Bans and Moderation for any number of users, connections,  *)
(* calls and reports: type correctness, that a ban severs what was open,   *)
(* that a stored report has its screenshot, and that the walk through the  *)
(* list of reports misses nothing.                                         *)
(***************************************************************************)
EXTENDS Moderation, FiniteSetTheorems, TLAPS

-----------------------------------------------------------------------------
(***************************************************************************)
(* The inductive invariant, in three parts: the connections and bans, the  *)
(* calls to /report, and the admin's walk.                                 *)
(***************************************************************************)
Up == {"open", "closing"}

\* The map of an instance holds connections that have not been cleaned up.
RegistryIsLive ==
    \A i \in Instance, u \in User :
        LET c == registry[i][u]
        IN  c # None => UserOf[c] = u /\ HomeOf[c] = i /\ conn[c] \in Up

\* What was open when a call banned was a connection of the banned user.
LiveInv ==
    \A k \in BanCall : \A c \in ban[k].live :
        UserOf[c] = Target[k] /\ conn[c] \in Up \cup {"done"}

BansInv == TypeOK /\ RegistryIsLive /\ LiveInv

\* The map of the instance has every connection of the instance that no other
\* connection has displaced.
Registered ==
    \A c \in Conn : conn[c] \in Up =>
        registry[HomeOf[c]][UserOf[c]] = c \/ Displaced(c)

SeverInv == Registered /\ BanSevers

\* Between the upsert of both users and the insert, both have a row.
UsersInv ==
    \A k \in ReportCall : report[k] \in {"known", "uploaded", "begun"} =>
        {ReporterOf[k], Target[k]} \subseteq users

\* What has been uploaded and stored, at every point of a call.
StoredInv ==
    \A k \in ReportCall :
        /\ k \in stored => report[k] \in {"ended", "failed"}
        /\ report[k] = "ended" => k \in stored
        /\ report[k] \in {"uploaded", "begun", "ended"} => k \in objects
        /\ report[k] \in {"new", "known"} => k \notin objects

\* The clock moves when a call begins its transaction.
HasBegun == {k \in ReportCall : report[k] \in {"begun", "ended", "failed"}}

ClockInv == clock <= Cardinality(HasBegun)

\* The admin who has opened the list has chosen a page size.
LimitInv == walk.at # "no" => walk.limit \in Limits /\ walk.page >= 1

ReportsInv ==
    /\ ModTypeOK
    /\ UsersInv /\ StoredInv /\ ScreenshotStored /\ ClockInv
    /\ LimitInv

\* Every row has a time, and no two have the same ...
NoTies ==
    /\ \A k \in ReportCall :
          k \in stored \/ report[k] = "begun" => createdAt[k] # 0
    /\ \A j, k \in ReportCall :
          createdAt[j] = createdAt[k] => j = k \/ createdAt[j] = 0

\* ... so that the rows before r in the list are the later ones.
Later(r) == {s \in stored : createdAt[s] > createdAt[r]}

\* What the admin has not been shown is further down the list.
Unseen(n, shown) ==
    \A r \in walk.due \ shown : Cardinality(Later(r)) >= n * walk.limit

WalkInv ==
    /\ walk.at \in {"rows", "count"} => Unseen(walk.page - 1, walk.seen)
    /\ walk.at = "count" => Unseen(walk.page, walk.seen \cup walk.rows)
    /\ walk.at = "shown" =>
          /\ Unseen(walk.page, walk.seen)
          /\ walk.due \subseteq walk.seen \/ walk.page < walk.pages

ListInv == NoTies /\ WalkInv

-----------------------------------------------------------------------------
(***************************************************************************)
(* Connections and bans.  Every step of Moderation is a step of Bans, or   *)
(* leaves its variables alone.                                             *)
(***************************************************************************)
ConnSteps(c) == Admit(c) \/ ReadEnds(c) \/ Register(c) \/ Unregister(c)

BanSteps(k) == Ban(k) \/ BanUnheard(k) \/ Sever(k)

BansNext ==
    \/ \E c \in Conn : ConnSteps(c)
    \/ \E k \in BanCall : BanSteps(k)
    \/ \E u \in User : Unban(u)

\* The calls and the admin change connections and bans by the steps of Bans.
LEMMA NextBans ==
    ASSUME env \in Environments, [ModNext]_modVars
    PROVE  [BansNext]_vars
<1> USE DEF BansNext, ConnSteps, BanSteps
<1>1. CASE \E c \in Conn : Connect(c) \/ Leave(c) \/ Serve(c)
    BY <1>1 DEF Connect, Leave, Serve, Server
<1>2. ASSUME NEW k \in env.calls \cap ReportCall, ReportStep(k)
      PROVE  [BansNext]_vars
    BY <1>2, ModerationAssumption
    DEF ReportStep, Refuse, Identify, IdentifyFails, Upload, UploadFails,
        Begin, Store, StoreUnheard, StoreFails
<1>3. ASSUME NEW k \in BanCall, AdminBan(k) \/ Close(k)
      PROVE  [BansNext]_vars
    BY <1>3 DEF AdminBan, Close
<1>4. CASE Admin
    BY <1>4 DEF Admin
<1>5. CASE Walk
    BY <1>5 DEF Walk, OpenList, ListRows, ListCount, ListFails, NextPage
<1>6. CASE UNCHANGED modVars
    BY <1>6 DEF modVars
<1>7. env.calls \subseteq BanCall
    BY ModerationAssumption DEF Environment
<1> QED
    BY <1>1, <1>2, <1>3, <1>4, <1>5, <1>6, <1>7 DEF ModNext

\* A connection keeps its type, and what the map holds is live.
LEMMA ConnKeeps ==
    ASSUME BansInv, NEW c \in Conn, ConnSteps(c)
    PROVE  BansInv'
<1> USE BansAssumption
<1>1. TypeOK'
    <2>1. conn' \in [Conn -> ConnPc] /\ UNCHANGED <<banned, ban, unbans>>
        BY DEF BansInv, TypeOK, ConnSteps, Admit, ReadEnds, Register,
               Unregister, Goes, ConnPc
    <2>2. registry' \in [Instance -> [User -> Conn \cup {None}]]
        BY DEF BansInv, TypeOK, ConnSteps, Admit, ReadEnds, Register,
               Unregister
    <2> QED
        BY <2>1, <2>2 DEF BansInv, TypeOK
<1>2. CASE Admit(c) \/ ReadEnds(c)
    <2>1. /\ UNCHANGED <<registry, ban>>
          /\ \A d \in Conn : conn[d] \in Up => conn'[d] \in Up
          /\ \A d \in Conn : conn[d] = "done" => conn'[d] = "done"
        BY <1>2 DEF Admit, ReadEnds, Goes, BansInv, TypeOK, Up
    <2>2. RegistryIsLive'
        BY <2>1 DEF BansInv, RegistryIsLive, TypeOK
    <2>3. LiveInv'
        BY <2>1 DEF BansInv, LiveInv, TypeOK
    <2> QED
        BY <1>1, <2>2, <2>3 DEF BansInv
<1>3. CASE Register(c)
    <2>1. /\ registry' = [registry EXCEPT ![HomeOf[c]][UserOf[c]] = c]
          /\ ban' = ban
          /\ conn' = [conn EXCEPT ![c] = "open"]
          /\ conn[c] = "checked"
        BY <1>3 DEF Register, Goes
    <2>2. RegistryIsLive'
        BY <2>1 DEF BansInv, RegistryIsLive, TypeOK, Up
    <2>3. LiveInv'
        BY <2>1 DEF BansInv, LiveInv, TypeOK, Up
    <2> QED
        BY <1>1, <2>2, <2>3 DEF BansInv
<1>4. CASE Unregister(c)
    <2>1. /\ registry' = [registry EXCEPT ![HomeOf[c]][UserOf[c]] = None]
          /\ ban' = ban
          /\ conn' = [conn EXCEPT ![c] = "done"]
          /\ conn[c] = "closing"
        BY <1>4 DEF Unregister, Goes
    <2>2. RegistryIsLive'
        BY <2>1 DEF BansInv, RegistryIsLive, TypeOK, Up
    <2>3. LiveInv'
        BY <2>1 DEF BansInv, LiveInv, TypeOK, Up
    <2> QED
        BY <1>1, <2>2, <2>3 DEF BansInv
<1> QED
    BY <1>2, <1>3, <1>4 DEF ConnSteps

\* A ban keeps what it found open; the handler closes what the map holds.
LEMMA BanKeeps ==
    ASSUME BansInv, NEW k \in BanCall, BanSteps(k)
    PROVE  BansInv'
<1> USE BansAssumption
<1>1. CASE Ban(k) \/ BanUnheard(k)
    <2>1. UNCHANGED <<conn, registry, unbans>> /\ banned' \subseteq User
        BY <1>1 DEF Ban, BanUnheard, BansInv, TypeOK
    <2>2. PICK n \in [stage : {"none", "banned", "done"}, live : SUBSET Conn] :
              /\ n.live \subseteq OpenConns(Target[k])
              /\ ban' = [ban EXCEPT ![k] = n]
        <3>1. OpenConns(Target[k]) \in SUBSET Conn
            BY DEF OpenConns
        <3> QED
            BY <1>1, <3>1 DEF Ban, BanUnheard
    <2>3. TypeOK'
        BY <2>1, <2>2 DEF BansInv, TypeOK
    <2>4. LiveInv'
        BY <2>1, <2>2 DEF BansInv, TypeOK, LiveInv, OpenConns, Up
    <2> QED
        BY <2>1, <2>3, <2>4 DEF BansInv, RegistryIsLive
<1>2. CASE Sever(k)
    <2> DEFINE c == registry[ServedBy[k]][Target[k]]
    <2>1. /\ UNCHANGED <<banned, registry, unbans>>
          /\ ban' = [ban EXCEPT ![k].stage = "done"]
          /\ conn' = IF c # None THEN [conn EXCEPT ![c] = "closing"] ELSE conn
        BY <1>2 DEF Sever
    <2>2. c \in Conn \cup {None} /\ (c # None => conn[c] \in Up)
        BY DEF BansInv, TypeOK, RegistryIsLive
    <2> HIDE DEF c
    <2>3. /\ \A j \in BanCall : ban'[j].live = ban[j].live
          /\ ban' \in [BanCall -> [stage : {"none", "banned", "done"},
                                   live : SUBSET Conn]]
        BY <2>1 DEF BansInv, TypeOK
    <2>4. /\ conn' \in [Conn -> ConnPc]
          /\ \A d \in Conn : conn[d] \in Up => conn'[d] \in Up
          /\ \A d \in Conn : conn[d] = "done" => conn'[d] = "done"
        BY <2>1, <2>2 DEF BansInv, TypeOK, ConnPc, Up
    <2>5. TypeOK'
        BY <2>1, <2>3, <2>4 DEF BansInv, TypeOK
    <2>6. RegistryIsLive'
        BY <2>1, <2>4 DEF BansInv, TypeOK, RegistryIsLive
    <2>7. LiveInv'
        BY <2>3, <2>4 DEF BansInv, TypeOK, LiveInv
    <2> QED
        BY <2>5, <2>6, <2>7 DEF BansInv
<1> QED
    BY <1>1, <1>2 DEF BanSteps

\* The types, the maps and what the bans found open.
LEMMA BansKept == BansInv /\ [BansNext]_vars => BansInv'
<1> SUFFICES ASSUME BansInv, [BansNext]_vars
             PROVE  BansInv'
    OBVIOUS
<1>1. ASSUME NEW u \in User, Unban(u)
      PROVE  BansInv'
    BY <1>1, BansAssumption
    DEF Unban, BansInv, TypeOK, RegistryIsLive, LiveInv
<1>2. CASE UNCHANGED vars
    BY <1>2 DEF vars, BansInv, TypeOK, RegistryIsLive, LiveInv
<1> QED
    BY <1>1, <1>2, ConnKeeps, BanKeeps DEF BansNext

\* Who has been displaced stays so: only its own upgrade puts a connection into
\* the map.
LEMMA DisplacedStays ==
    ASSUME BansInv, NEW c \in Conn, ConnSteps(c),
           NEW d \in Conn \ {c}, Displaced(d)
    PROVE  Displaced(d)'
<1> USE BansAssumption
<1>1. PICK e \in Others(d) :
          HomeOf[e] = HomeOf[d] /\ conn[e] \notin {"new", "checked"}
    BY DEF Displaced
<1>2. conn'[e] \notin {"new", "checked"}
    BY <1>1 DEF ConnSteps, Admit, ReadEnds, Register, Unregister, Goes,
                BansInv, TypeOK, Others
<1>3. registry'[HomeOf[d]][UserOf[d]] \in
          {registry[HomeOf[d]][UserOf[d]], c, None}
    <2>1. CASE Admit(c) \/ ReadEnds(c)
        BY <2>1 DEF Admit, ReadEnds
    <2>2. CASE Register(c)
        BY <2>2 DEF Register, BansInv, TypeOK
    <2>3. CASE Unregister(c)
        BY <2>3 DEF Unregister, BansInv, TypeOK
    <2> QED
        BY <2>1, <2>2, <2>3 DEF ConnSteps
<1>4. registry[HomeOf[d]][UserOf[d]] # d /\ d # None
    BY DEF Displaced
<1>5. HomeOf[e] = HomeOf[d] /\ e \in Others(d)
    BY <1>1
<1> QED
    BY <1>2, <1>3, <1>4, <1>5 DEF Displaced, Others

\* A connection is in the map from its upgrade to its cleanup, unless another
\* one displaces it.
LEMMA RegisteredKept ==
    ASSUME BansInv, Registered, NEW c \in Conn, ConnSteps(c)
    PROVE  Registered'
<1> USE BansAssumption
<1> SUFFICES ASSUME NEW d \in Conn, conn'[d] \in Up
             PROVE  (registry[HomeOf[d]][UserOf[d]] = d \/ Displaced(d))'
    BY DEF Registered
<1>1. CASE d = c
    <2>1. CASE Register(c)
        BY <1>1, <2>1 DEF Register, BansInv, TypeOK
    <2>2. CASE ReadEnds(c)
        <3>1. conn[c] \in Up /\ registry' = registry
            BY <2>2 DEF ReadEnds, Goes, Up
        <3>2. registry[HomeOf[c]][UserOf[c]] = c \/ Displaced(c)
            BY <3>1 DEF Registered
        <3>3. Displaced(c) => Displaced(c)'
            BY <2>2, <3>1 DEF ReadEnds, Goes, Displaced, Others, BansInv, TypeOK
        <3> QED
            BY <1>1, <3>1, <3>2, <3>3
    <2>3. ~(Admit(c) \/ Unregister(c))
        BY <1>1 DEF Admit, Unregister, Goes, BansInv, TypeOK, Up
    <2> QED
        BY <2>1, <2>2, <2>3 DEF ConnSteps
<1>2. CASE d # c
    <2>1. conn[d] \in Up
        BY <1>2 DEF ConnSteps, Admit, ReadEnds, Register, Unregister, Goes,
                    BansInv, TypeOK
    <2>2. CASE Displaced(d)
        BY <1>2, <2>2, DisplacedStays
    <2>3. CASE registry[HomeOf[d]][UserOf[d]] = d
        <3>1. CASE /\ Register(c) \/ Unregister(c)
                   /\ HomeOf[c] = HomeOf[d] /\ UserOf[c] = UserOf[d]
            <4>1. registry'[HomeOf[d]][UserOf[d]] \in {c, None}
                BY <3>1 DEF Register, Unregister, BansInv, TypeOK
            <4>2. conn'[c] \in {"open", "done"}
                BY <3>1 DEF Register, Unregister, Goes, BansInv, TypeOK
            <4>3. c \in Others(d)
                BY <1>2, <3>1 DEF Others
            <4> QED
                BY <1>2, <3>1, <4>1, <4>2, <4>3 DEF Displaced, Others
        <3>2. CASE ~(/\ Register(c) \/ Unregister(c)
                     /\ HomeOf[c] = HomeOf[d] /\ UserOf[c] = UserOf[d])
            BY <2>3, <3>2 DEF ConnSteps, Admit, ReadEnds, Register, Unregister,
                              BansInv, TypeOK
        <3> QED
            BY <3>1, <3>2
    <2> QED
        BY <2>1, <2>2, <2>3 DEF Registered
<1> QED
    BY <1>1, <1>2

\* A handler that has a ban to enforce finds every connection of the user in
\* the map of its instance that is there and has not been displaced.
LEMMA SeverKept ==
    ASSUME BansInv, SeverInv, [BansNext]_vars
    PROVE  SeverInv'
<1> USE BansAssumption
<1>1. ASSUME NEW c \in Conn, ConnSteps(c)
      PROVE  SeverInv'
    <2>1. Registered'
        BY <1>1, RegisteredKept DEF SeverInv
    <2>2. ASSUME NEW d \in Conn, NEW k \in Severers(d)',
                 ban'[k].stage = "done", conn'[d] = "open"
          PROVE  Displaced(d)'
        <3>1. ban' = ban /\ k \in Severers(d) /\ k \in BanCall
            BY <1>1, <2>2 DEF ConnSteps, Admit, ReadEnds, Register, Unregister,
                              Severers
        <3>2. conn[d] \in Up \cup {"done"}
            BY <3>1 DEF Severers, BansInv, LiveInv
        <3>3. d # c /\ conn[d] = "open"
            BY <1>1, <2>2, <3>2 DEF ConnSteps, Admit, ReadEnds, Register,
                Unregister, Goes, BansInv, TypeOK, Up
        <3>4. Displaced(d)
            BY <2>2, <3>1, <3>3 DEF SeverInv, BanSevers
        <3> QED
            BY <1>1, <3>3, <3>4, DisplacedStays
    <2> QED
        BY <2>1, <2>2 DEF SeverInv, BanSevers
<1>2. ASSUME NEW k \in BanCall, Ban(k) \/ BanUnheard(k)
      PROVE  SeverInv'
    <2>1. UNCHANGED <<conn, registry>>
        BY <1>2 DEF Ban, BanUnheard
    <2>2. ASSUME NEW d \in Conn, NEW j \in Severers(d)', ban'[j].stage = "done"
          PROVE  j \in Severers(d) /\ ban[j].stage = "done"
        BY <1>2, <2>2 DEF Ban, BanUnheard, Severers, BansInv, TypeOK
    <2>3. Registered'
        BY <2>1 DEF SeverInv, Registered, Displaced
    <2>4. BanSevers'
        BY <2>1, <2>2 DEF SeverInv, BanSevers, Displaced
    <2> QED
        BY <2>3, <2>4 DEF SeverInv
<1>3. ASSUME NEW k \in BanCall, Sever(k)
      PROVE  SeverInv'
    <2> DEFINE c == registry[ServedBy[k]][Target[k]]
    <2>1. /\ registry' = registry
          /\ ban' = [ban EXCEPT ![k].stage = "done"]
          /\ conn' = IF c # None THEN [conn EXCEPT ![c] = "closing"] ELSE conn
        BY <1>3 DEF Sever
    <2>2. c \in Conn \cup {None} /\ (c # None => conn[c] \in Up)
        BY DEF BansInv, TypeOK, RegistryIsLive
    <2>3. \A d \in Conn : k \in Severers(d) /\ conn[d] \in Up =>
                              d = c \/ Displaced(d)
        BY DEF SeverInv, Registered, BansInv, LiveInv, Severers
    <2> HIDE DEF c
    <2>4. /\ \A d \in Conn : conn'[d] \in Up <=> conn[d] \in Up
          /\ \A d \in Conn : conn[d] \notin {"new", "checked"} =>
                                conn'[d] \notin {"new", "checked"}
          /\ \A d \in Conn : conn'[d] = "open" => conn[d] = "open" /\ d # c
        BY <2>1, <2>2 DEF BansInv, TypeOK, Up
    <2>5. \A d \in Conn : Displaced(d) => Displaced(d)'
        BY <2>1, <2>4 DEF Displaced, Others
    <2>6. Registered'
        BY <2>1, <2>4, <2>5 DEF SeverInv, Registered
    <2>7. ASSUME NEW d \in Conn, NEW j \in Severers(d)',
                 ban'[j].stage = "done", conn'[d] = "open"
          PROVE  Displaced(d)
        <3>1. j \in Severers(d) /\ j \in BanCall
            BY <2>1, <2>7 DEF Severers, BansInv, TypeOK
        <3>2. CASE j = k
            BY <2>3, <2>4, <2>7, <3>1, <3>2 DEF Up
        <3>3. CASE j # k
            <4>1. ban[j].stage = "done"
                BY <2>1, <2>7, <3>1, <3>3 DEF BansInv, TypeOK
            <4> QED
                BY <2>4, <2>7, <3>1, <4>1 DEF SeverInv, BanSevers
        <3> QED
            BY <3>2, <3>3
    <2>8. BanSevers'
        BY <2>5, <2>7 DEF BanSevers
    <2> QED
        BY <2>6, <2>8 DEF SeverInv
<1>4. CASE (\E u \in User : Unban(u)) \/ UNCHANGED vars
    <2>1. UNCHANGED <<conn, registry, ban>>
        BY <1>4 DEF Unban, vars
    <2> QED
        BY <2>1 DEF SeverInv, Registered, BanSevers, Displaced, Severers
<1> QED
    BY <1>1, <1>2, <1>3, <1>4 DEF BansNext, BanSteps

-----------------------------------------------------------------------------
(***************************************************************************)
(* The calls to /report.                                                   *)
(***************************************************************************)
\* The type of walk, whose sets are sets of stored rows.
WalkType ==
    [at : {"no", "rows", "count", "shown"}, limit : {0} \cup Limits,
     page : Nat, pages : Nat, rows : SUBSET stored,
     seen : SUBSET stored, due : SUBSET stored]

\* The walk stays what it is when reports come in.
LEMMA WalkTyped ==
    ASSUME walk \in WalkType, walk' = walk, stored \subseteq stored'
    PROVE  walk' \in WalkType'
    BY DEF WalkType

\* The calls that have begun are finitely many, whichever they are.
LEMMA BegunFinite ==
    /\ IsFiniteSet(HasBegun)
    /\ Cardinality(HasBegun) \in Nat
    /\ Cardinality(HasBegun) <= Cardinality(ReportCall)
    /\ Cardinality(ReportCall) \in Nat
<1>1. HasBegun \in SUBSET ReportCall
    BY DEF HasBegun
<1> QED
    BY <1>1, ModerationAssumption, FS_Subset, FS_CardinalityType

\* A step of the call k moves it, and at most its own row, screenshot and time.
LEMMA ReportMoves ==
    ASSUME ReportsInv, NEW k \in ReportCall, ReportStep(k)
    PROVE  /\ report' \in [ReportCall -> ReportPc]
           /\ \A j \in ReportCall : j # k => report'[j] = report[j]
           /\ users \subseteq users'
           /\ users' \subseteq users \cup {ReporterOf[k], Target[k]}
           /\ objects \subseteq objects' /\ objects' \subseteq objects \cup {k}
           /\ stored \subseteq stored' /\ stored' \subseteq stored \cup {k}
           /\ UNCHANGED <<walk, env>>
    BY DEF ReportStep, Refuse, Identify, IdentifyFails, Upload, UploadFails,
           Begin, Store, StoreUnheard, StoreFails, Moves, ReportsInv,
           ModTypeOK, ReportPc

\* Where a call goes, and what it has done by then.
LEMMA ReportDoes ==
    ASSUME ReportsInv, NEW k \in ReportCall, ReportStep(k)
    PROVE  \/ /\ report[k] = "new" /\ report'[k] = "failed"
              /\ UNCHANGED <<objects, stored>>
           \/ /\ report[k] = "new" /\ report'[k] = "known"
              /\ {ReporterOf[k], Target[k]} \subseteq users'
              /\ UNCHANGED <<objects, stored>>
           \/ /\ report[k] = "known" /\ report'[k] = "uploaded"
              /\ k \in objects' /\ stored' = stored
           \/ /\ report[k] = "known" /\ report'[k] = "failed"
              /\ stored' = stored
           \/ /\ report[k] = "uploaded" /\ report'[k] = "begun"
              /\ UNCHANGED <<objects, stored>>
           \/ /\ report[k] = "begun" /\ report'[k] \in {"ended", "failed"}
              /\ k \in stored' /\ objects' = objects
           \/ /\ report[k] = "begun" /\ report'[k] = "failed"
              /\ UNCHANGED <<objects, stored>>
    BY DEF ReportStep, Refuse, Identify, IdentifyFails, Upload, UploadFails,
           Begin, Store, StoreUnheard, StoreFails, Moves, ReportsInv,
           ModTypeOK, ReportPc

\* The clock moves with the transaction of k, and gives it its time.
LEMMA ClockKept ==
    ASSUME ReportsInv, NEW k \in ReportCall, ReportStep(k)
    PROVE  /\ ClockInv'
           /\ clock' \in 0 .. Cardinality(ReportCall)
           /\ createdAt' \in [ReportCall -> 0 .. clock']
<1> USE DEF ReportsInv
<1>1. /\ clock \in Nat /\ clock <= Cardinality(HasBegun)
      /\ createdAt \in [ReportCall -> 0 .. clock]
      /\ report \in [ReportCall -> ReportPc]
    BY BegunFinite DEF ModTypeOK, ClockInv
<1>2. /\ IsFiniteSet(HasBegun') /\ Cardinality(HasBegun') \in Nat
      /\ Cardinality(HasBegun') <= Cardinality(ReportCall)
    BY ModerationAssumption, FS_Subset, FS_CardinalityType DEF HasBegun
<1>3. HasBegun \subseteq HasBegun'
    BY ReportMoves, ReportDoes DEF HasBegun
<1>4. CASE Begin(k)
    <2>1. /\ report[k] = "uploaded" /\ report' = [report EXCEPT ![k] = "begun"]
          /\ clock' \in {clock, clock + 1}
          /\ createdAt' = [createdAt EXCEPT ![k] = clock']
          /\ stored' = stored
        BY <1>4 DEF Begin, Moves
    <2>2. HasBegun' = HasBegun \cup {k} /\ k \notin HasBegun
        BY <1>1, <2>1 DEF HasBegun
    <2>3. Cardinality(HasBegun') = Cardinality(HasBegun) + 1
        BY <2>2, BegunFinite, FS_AddElement
    <2>4. clock' <= Cardinality(HasBegun') /\ clock' \in Nat /\ clock <= clock'
        BY <1>1, <2>1, <2>3, BegunFinite
    <2>5. createdAt' \in [ReportCall -> 0 .. clock']
        BY <1>1, <2>1, <2>4
    <2> QED
        BY <1>2, <2>4, <2>5, BegunFinite DEF ClockInv
<1>5. CASE ~Begin(k)
    <2>1. UNCHANGED <<clock, createdAt>>
        BY <1>5 DEF ReportStep, Refuse, Identify, IdentifyFails, Upload,
                    UploadFails, Store, StoreUnheard, StoreFails
    <2>2. Cardinality(HasBegun) <= Cardinality(HasBegun')
        BY <1>2, <1>3, FS_Subset
    <2> QED
        BY <1>1, <1>2, <2>1, <2>2, BegunFinite DEF ClockInv
<1> QED
    BY <1>4, <1>5

\* A report keeps the types, and a stored row its screenshot.
LEMMA ReportKept ==
    ASSUME ReportsInv, TypeOK', NEW k \in ReportCall, ReportStep(k)
    PROVE  ReportsInv'
<1>1. /\ users \subseteq User /\ objects \subseteq ReportCall
      /\ stored \subseteq ReportCall /\ env \in Environments
      /\ walk \in WalkType
      /\ report \in [ReportCall -> ReportPc]
      /\ \A j \in stored : {ReporterOf[j], Target[j]} \subseteq users
    BY DEF ReportsInv, ModTypeOK, WalkType
<1>2. {ReporterOf[k], Target[k]} \subseteq User
    BY ModerationAssumption, BansAssumption
<1>3. \A j \in stored' : {ReporterOf[j], Target[j]} \subseteq users'
    <2>1. k \in stored' \ stored => {ReporterOf[k], Target[k]} \subseteq users
        BY ReportDoes DEF ReportsInv, UsersInv
    <2> QED
        BY <1>1, <2>1, ReportMoves
<1>4. walk' \in WalkType'
    BY <1>1, WalkTyped, ReportMoves
<1>5. ModTypeOK'
    <2>1. /\ env' \in Environments /\ users' \subseteq User
          /\ objects' \subseteq ReportCall /\ stored' \subseteq ReportCall
          /\ report' \in [ReportCall -> ReportPc]
        BY <1>1, <1>2, ReportMoves
    <2> QED
        BY <1>3, <1>4, <2>1, ClockKept DEF ModTypeOK, WalkType
<1>6. UsersInv'
    <2>1. report'[k] \in {"known", "uploaded", "begun"} =>
              {ReporterOf[k], Target[k]} \subseteq users'
        BY ReportDoes, ReportMoves DEF ReportsInv, UsersInv
    <2> QED
        BY <2>1, ReportMoves DEF ReportsInv, UsersInv
<1>7. StoredInv'
    <2>1. \A j \in ReportCall : j # k =>
              /\ report'[j] = report[j]
              /\ j \in stored' <=> j \in stored
              /\ j \in objects' <=> j \in objects
        BY ReportMoves
    <2>2. /\ k \in stored' => report'[k] \in {"ended", "failed"}
          /\ report'[k] = "ended" => k \in stored'
          /\ report'[k] \in {"uploaded", "begun", "ended"} => k \in objects'
          /\ report'[k] \in {"new", "known"} => k \notin objects'
        BY ReportDoes DEF ReportsInv, StoredInv
    <2> QED
        BY <2>1, <2>2 DEF ReportsInv, StoredInv
<1>8. ScreenshotStored'
    <2>1. stored' \subseteq objects'
        <3>1. k \in stored' \ stored => k \in objects'
            BY ReportDoes DEF ReportsInv, StoredInv
        <3> QED
            BY <3>1, ReportMoves DEF ReportsInv, ScreenshotStored
    <2>2. \A j \in objects' \ stored' :
              report'[j] \in {"uploaded", "begun", "failed"}
        BY <1>5, <1>7 DEF ModTypeOK, StoredInv, ReportPc
    <2> QED
        BY <2>1, <2>2 DEF ScreenshotStored
<1> QED
    BY <1>5, <1>6, <1>7, <1>8, ClockKept, ReportMoves DEF ReportsInv, LimitInv

-----------------------------------------------------------------------------
(***************************************************************************)
(* The list of reports.                                                    *)
(***************************************************************************)
\* A listing has every stored row once, and the later ones first.
LEMMA ListingFacts ==
    ASSUME NEW q \in Listings
    PROVE  /\ q \in [1 .. Cardinality(stored) -> stored]
           /\ \A m, n \in 1 .. Cardinality(stored) : m # n => q[m] # q[n]
           /\ \A m, n \in 1 .. Cardinality(stored) :
                 m < n => createdAt[q[m]] >= createdAt[q[n]]
    BY DEF Listings, SetToSeqs

\* The stored rows are finitely many, and so are those of any set of them.
LEMMA StoredFinite ==
    ASSUME ModTypeOK
    PROVE  IsFiniteSet(stored) /\ Cardinality(stored) \in Nat
    BY ModerationAssumption, FS_Subset, FS_CardinalityType DEF ModTypeOK

\* The number of pages is a number.
LEMMA PagesType ==
    ASSUME NEW total \in Nat, NEW limit \in Nat \ {0}
    PROVE  Pages(total, limit) \in Nat
    BY SMTT(30) DEF Pages

\* The walk has pages of stored rows, and keeps its type.
LEMMA WalkSteps ==
    ASSUME ModTypeOK, LimitInv, Walk
    PROVE  /\ walk' \in WalkType' /\ LimitInv'
           /\ UNCHANGED <<vars, reporting, env>>
<1>1. UNCHANGED <<vars, reporting, env>>
    BY DEF Walk, OpenList, ListRows, ListCount, ListFails, NextPage
<1>2. /\ walk \in WalkType
      /\ walk.at # "no" => walk.limit \in Limits
      /\ Limits \subseteq Nat \ {0}
    BY ModerationAssumption DEF ModTypeOK, WalkType, LimitInv
<1>3. stored' = stored
    BY <1>1 DEF reporting
<1>9. LimitInv'
    <2>1. CASE OpenList
        BY <1>2, <2>1 DEF OpenList, LimitInv, Nowhere
    <2>2. CASE ListRows \/ ListCount \/ ListFails
        <3>1. /\ walk'.limit = walk.limit /\ walk'.page = walk.page
              /\ walk.at # "no"
            BY <1>2, <2>2 DEF ListRows, ListCount, ListFails, WalkType
        <3> QED
            BY <3>1 DEF LimitInv
    <2>3. CASE NextPage
        <3>1. /\ walk'.limit = walk.limit /\ walk'.page = walk.page + 1
              /\ walk.at # "no" /\ walk.page \in Nat
            BY <1>2, <2>3 DEF NextPage, WalkType
        <3> QED
            BY <3>1 DEF LimitInv
    <2> QED
        BY <2>1, <2>2, <2>3 DEF Walk
<1> SUFFICES walk' \in WalkType'
    BY <1>1, <1>9
<1>4. CASE OpenList
    <2>1. PICK limit \in Limits :
              walk' = [at |-> "rows", limit |-> limit, page |-> 1, pages |-> 0,
                       rows |-> {}, seen |-> {}, due |-> stored]
        BY <1>4 DEF OpenList, Nowhere
    <2> QED
        BY <1>3, <2>1 DEF WalkType
<1>5. CASE ListRows
    <2>1. PICK q \in Listings :
              walk' = [walk EXCEPT !.at = "count",
                                   !.rows = PageOf(q, walk.page, walk.limit)]
        BY <1>5 DEF ListRows
    <2>2. PageOf(q, walk.page, walk.limit) \subseteq stored
        BY ListingFacts DEF PageOf
    <2> QED
        BY <1>2, <1>3, <2>1, <2>2 DEF WalkType
<1>6. CASE ListCount
    <2>1. Pages(Cardinality(stored), walk.limit) \in Nat
        BY <1>2, <1>6, StoredFinite, PagesType DEF ListCount
    <2> QED
        BY <1>2, <1>3, <1>6, <2>1 DEF ListCount, WalkType
<1>7. CASE ListFails
    BY <1>2, <1>3, <1>7 DEF ListFails, WalkType
<1>8. CASE NextPage
    <2>1. walk' = [walk EXCEPT !.at = "rows", !.page = walk.page + 1]
        BY <1>8 DEF NextPage
    <2>2. walk.page + 1 \in Nat
        BY <1>2 DEF WalkType
    <2> QED
        BY <1>2, <1>3, <2>1, <2>2 DEF WalkType
<1> QED
    BY <1>4, <1>5, <1>6, <1>7, <1>8 DEF Walk

-----------------------------------------------------------------------------
\* At the start nobody is connected, and the old reports are stored.
LEMMA InitBans == ModInit => BansInv /\ SeverInv
<1> SUFFICES ASSUME ModInit
             PROVE  BansInv /\ SeverInv
    OBVIOUS
<1> USE BansAssumption DEF ModInit, Init
<1>1. TypeOK
    BY DEF TypeOK, ConnPc
<1>2. RegistryIsLive /\ LiveInv
    BY DEF RegistryIsLive, LiveInv
<1>3. SeverInv
    BY DEF SeverInv, Registered, Up, BanSevers, Severers
<1> QED
    BY <1>1, <1>2, <1>3 DEF BansInv

\* An injective sequence has as many elements as its length.
LEMMA OldStored ==
    ASSUME ModInit
    PROVE  /\ env.old \in Seq(ReportCall)
           /\ stored = {env.old[i] : i \in 1 .. Len(env.old)}
           /\ \A i, j \in 1 .. Len(env.old) :
                 env.old[i] = env.old[j] => i = j
           /\ Len(env.old) <= Cardinality(stored)
<1>1. /\ env \in Environments /\ stored = ToSet(env.old)
    BY DEF ModInit
<1>2. env.old \in Seq(ReportCall) /\ IsInjective(env.old)
    BY <1>1, ModerationAssumption DEF Environment
<1> DEFINE n == Len(env.old)
<1>3. n \in Nat /\ DOMAIN env.old = 1 .. n
    BY <1>2
<1>4. stored = {env.old[i] : i \in 1 .. n}
    BY <1>1, <1>3 DEF ToSet
<1>5. env.old \in Injection(1 .. n, stored)
    <2>1. env.old \in [1 .. n -> stored]
        BY <1>2, <1>3, <1>4
    <2> QED
        BY <1>2, <2>1 DEF Injection
<1>6. stored \in SUBSET ReportCall
    BY <1>2, <1>3, <1>4
<1>7. Cardinality(1 .. n) <= Cardinality(stored)
    <2>1. IsFiniteSet(stored)
        BY <1>6, ModerationAssumption, FS_Subset
    <2> QED
        BY <1>5, <2>1, FS_Injection
<1>8. Cardinality(1 .. n) = n
    BY <1>3, FS_Interval
<1> QED
    BY <1>2, <1>3, <1>4, <1>7, <1>8 DEF IsInjective

\* The types, the rows and the clock at the start.
LEMMA InitReports == ModInit => ReportsInv
<1> SUFFICES ASSUME ModInit
             PROVE  ReportsInv
    OBVIOUS
<1> DEFINE n == Len(env.old)
<1>1. /\ env \in Environments
      /\ objects = stored /\ clock = n
      /\ users = UNION {{ReporterOf[k], Target[k]} : k \in stored}
      /\ report = [k \in ReportCall |-> IF k \in stored THEN "ended" ELSE "new"]
      /\ walk = Nowhere
    BY DEF ModInit
<1>2. stored \subseteq ReportCall /\ n \in Nat
    BY OldStored
<1>3. \A k \in ReportCall : {ReporterOf[k], Target[k]} \subseteq User
    BY ModerationAssumption, BansAssumption
<1>4. HasBegun = stored
    BY <1>1, <1>2 DEF HasBegun
<1>5. n <= Cardinality(HasBegun) /\ n \in 0 .. Cardinality(ReportCall)
    BY <1>2, <1>4, OldStored, BegunFinite
<1>6. createdAt \in [ReportCall -> 0 .. clock]
    <2>1. ASSUME NEW k \in stored
          PROVE  (CHOOSE i \in DOMAIN env.old : env.old[i] = k) \in 0 .. n
        <3>1. DOMAIN env.old = 1 .. n /\ \E i \in DOMAIN env.old : env.old[i] = k
            BY OldStored
        <3> QED
            BY <1>2, <3>1
    <2> QED
        BY <1>1, <1>2, <2>1 DEF ModInit
<1>7. walk \in WalkType
    BY <1>1 DEF Nowhere, WalkType
<1>8. \A k \in stored : {ReporterOf[k], Target[k]} \subseteq users
    BY <1>1
<1>9. users \subseteq User
    BY <1>1, <1>2, <1>3
<1>10. ModTypeOK
    <2>1. report \in [ReportCall -> ReportPc]
        BY <1>1 DEF ReportPc
    <2> QED
        BY <1>1, <1>2, <1>5, <1>6, <1>7, <1>8, <1>9, <2>1, InitBans
        DEF ModTypeOK, WalkType, BansInv
<1>11. UsersInv /\ StoredInv /\ ScreenshotStored
    BY <1>1 DEF UsersInv, StoredInv, ScreenshotStored
<1> QED
    BY <1>1, <1>5, <1>10, <1>11 DEF ReportsInv, ClockInv, LimitInv, Nowhere

\* Every other step leaves the reports alone: at most a user gets a row.
LEMMA ReportsKept ==
    ASSUME BansInv, ReportsInv, [ModNext]_modVars
    PROVE  BansInv' /\ ReportsInv'
<1>1. BansInv'
    BY NextBans, BansKept DEF ReportsInv, ModTypeOK
<1>2. TypeOK'
    BY <1>1 DEF BansInv
<1> SUFFICES ReportsInv'
    BY <1>1
<1>3. ASSUME NEW k \in env.calls \cap ReportCall, ReportStep(k)
      PROVE  ReportsInv'
    BY <1>2, <1>3, ReportKept
<1>4. CASE Walk
    <2>1. /\ walk' \in WalkType' /\ LimitInv'
          /\ UNCHANGED <<users, objects, stored, createdAt, clock, report, env>>
        BY <1>4, WalkSteps DEF ReportsInv, reporting
    <2>2. ModTypeOK'
        BY <1>2, <2>1 DEF ReportsInv, ModTypeOK, WalkType
    <2> QED
        BY <2>1, <2>2 DEF ReportsInv, UsersInv, StoredInv, ScreenshotStored,
                          ClockInv, HasBegun
<1>5. ASSUME UNCHANGED <<objects, stored, createdAt, clock, report, walk, env>>,
             users \subseteq users', users' \subseteq User
      PROVE  ReportsInv'
    <2>1. ModTypeOK'
        BY <1>2, <1>5 DEF ReportsInv, ModTypeOK
    <2> QED
        BY <1>5, <2>1 DEF ReportsInv, UsersInv, StoredInv, ScreenshotStored,
                          ClockInv, HasBegun, LimitInv
<1>6. users \subseteq User
    BY DEF ReportsInv, ModTypeOK
<1>7. ASSUME NEW c \in Conn, Connect(c)
      PROVE  ReportsInv'
    BY <1>5, <1>6, <1>7, BansAssumption DEF Connect
<1>8. CASE \/ \E c \in Conn : Leave(c) \/ Serve(c)
           \/ \E k \in env.calls \ ReportCall : AdminBan(k)
           \/ \E k \in BanCall : Close(k)
           \/ Admin
           \/ UNCHANGED modVars
    <2>1. UNCHANGED <<users, objects, stored, createdAt, clock, report, walk, env>>
        BY <1>8
        DEF Leave, Serve, AdminBan, Close, Admin, modVars, reporting
    <2> QED
        BY <1>5, <1>6, <2>1
<1> QED
    BY <1>3, <1>4, <1>7, <1>8 DEF ModNext

-----------------------------------------------------------------------------
(***************************************************************************)
(* The walk.  A row that was there when it began moves down the list only, *)
(* since rows are only inserted, and page n shows the places from          *)
(* (n - 1) * limit + 1 to n * limit.                                       *)
(***************************************************************************)
\* A listing is a numbering of the stored rows: the row r comes after those
\* that are later.
LEMMA PlaceOf ==
    ASSUME ModTypeOK, NoTies, NEW q \in Listings, NEW r \in stored
    PROVE  \E n \in 1 .. Cardinality(stored) :
               q[n] = r /\ Cardinality(Later(r)) = n - 1
<1> DEFINE t == Cardinality(stored)
<1>1. /\ t \in Nat /\ IsFiniteSet(stored)
      /\ q \in [1 .. t -> stored]
      /\ \A m, n \in 1 .. t : m # n => q[m] # q[n]
      /\ \A m, n \in 1 .. t : m < n => createdAt[q[m]] >= createdAt[q[n]]
    BY StoredFinite, ListingFacts
<1>2. Cardinality(1 .. t) = t
    BY <1>1, FS_Interval
<1> HIDE DEF t
<1>3. \A s \in stored : \E m \in 1 .. t : q[m] = s
    <2>1. q \in Injection(1 .. t, stored)
        BY <1>1 DEF Injection, IsInjective
    <2>2. q \in Surjection(1 .. t, stored)
        BY <1>1, <1>2, <2>1, FS_Injection DEF t
    <2> QED
        BY <2>2 DEF Surjection
<1>4. PICK n \in 1 .. t : q[n] = r
    BY <1>3
<1>5. /\ \A s \in stored : createdAt[s] \in Nat /\ createdAt[s] # 0
      /\ \A s, u \in stored : createdAt[s] = createdAt[u] => s = u
    <2>1. stored \subseteq ReportCall /\ createdAt \in [ReportCall -> Nat]
        BY DEF ModTypeOK
    <2> QED
        BY <2>1 DEF NoTies
<1>6. \A m \in 1 .. t : q[m] \in Later(r) <=> m < n
    BY <1>1, <1>4, <1>5 DEF Later
<1> DEFINE f == [m \in 1 .. n - 1 |-> q[m]]
<1>7. f \in Bijection(1 .. n - 1, Later(r))
    <2>1. f \in [1 .. n - 1 -> Later(r)]
        BY <1>1, <1>4, <1>6
    <2>2. \A a, b \in 1 .. n - 1 : f[a] = f[b] => a = b
        BY <1>1, <1>4
    <2>3. ASSUME NEW s \in Later(r)
          PROVE  \E m \in 1 .. n - 1 : f[m] = s
        <3>1. PICK m \in 1 .. t : q[m] = s
            BY <1>3 DEF Later
        <3> QED
            BY <1>1, <1>4, <1>6, <3>1
    <2> HIDE DEF f
    <2> QED
        BY <2>1, <2>2, <2>3 DEF Bijection, Injection, Surjection, IsInjective
<1>8. Cardinality(Later(r)) = n - 1
    <2>1. IsFiniteSet(1 .. n - 1) /\ Cardinality(1 .. n - 1) = n - 1
        BY <1>1, <1>4, FS_Interval
    <2> HIDE DEF f
    <2> QED
        BY <1>7, <2>1, FS_Bijection DEF ExistsBijection
<1> QED
    BY <1>4, <1>8 DEF t

\* Fewer rows are before r than are stored.
LEMMA LaterCounts ==
    ASSUME ModTypeOK, NEW r \in stored
    PROVE  /\ IsFiniteSet(Later(r)) /\ Cardinality(Later(r)) \in Nat
           /\ Cardinality(Later(r)) < Cardinality(stored)
<1>1. IsFiniteSet(stored) /\ Cardinality(stored) \in Nat
    BY StoredFinite
<1>2. Later(r) \in SUBSET stored
    BY DEF Later
<1>3. r \notin Later(r)
    <2>1. createdAt[r] \in Nat
        BY DEF ModTypeOK
    <2> QED
        BY <2>1 DEF Later
<1>4. IsFiniteSet(Later(r)) /\ Cardinality(Later(r)) \in Nat
    BY <1>1, <1>2, FS_Subset, FS_CardinalityType
<1>5. Cardinality(Later(r)) + 1 <= Cardinality(stored)
    <2>1. Later(r) \cup {r} \in SUBSET stored
        BY <1>2
    <2>2. Cardinality(Later(r) \cup {r}) = Cardinality(Later(r)) + 1
        BY <1>3, <1>4, FS_AddElement
    <2> QED
        BY <1>1, <2>1, <2>2, FS_Subset
<1> QED
    BY <1>1, <1>4, <1>5

\* They do not get fewer.
LEMMA LaterGrows ==
    ASSUME ModTypeOK, ModTypeOK', NEW r \in stored, stored \subseteq stored',
           \A s \in stored : createdAt'[s] = createdAt[s]
    PROVE  /\ Cardinality(Later(r)') \in Nat
           /\ Cardinality(Later(r)) <= Cardinality(Later(r)')
<1>1. IsFiniteSet(stored')
    BY ModerationAssumption, FS_Subset DEF ModTypeOK
<1>2. Later(r)' \in SUBSET stored'
    BY DEF Later
<1>3. Later(r) \in SUBSET Later(r)'
    BY DEF Later
<1>4. IsFiniteSet(Later(r)')
    BY <1>1, <1>2, FS_Subset
<1> QED
    BY <1>3, <1>4, FS_Subset, FS_CardinalityType

\* If a row is beyond page p, there are more than p pages.
LEMMA PagesBeyond ==
    ASSUME NEW total \in Nat, NEW limit \in Nat \ {0}, NEW p \in Nat,
           total > p * limit
    PROVE  p < Pages(total, limit)
<1> DEFINE n == Pages(total, limit)
<1>1. n \in Nat /\ total + limit - 1 < limit * n + limit
    BY PagesType, SMTT(30) DEF Pages
<1> HIDE DEF n
<1>2. CASE n <= p
    <2>1. limit * n <= limit * p
        BY <1>1, <1>2, SMTT(30)
    <2>2. limit * p = p * limit
        BY SMTT(30)
    <2>3. limit * n \in Int /\ p * limit \in Int
        BY <1>1
    <2> QED
        BY <1>1, <2>1, <2>2, <2>3
<1> QED
    BY <1>1, <1>2 DEF n

\* Transactions that begin at different times have different times.
LEMMA NoTiesKept ==
    ASSUME ~MayTie, ReportsInv, NoTies, NEW k \in ReportCall, ReportStep(k)
    PROVE  NoTies' /\ \A s \in stored : createdAt'[s] = createdAt[s]
<1>1. /\ clock \in Nat /\ createdAt \in [ReportCall -> 0 .. clock]
      /\ stored \subseteq ReportCall
      /\ report \in [ReportCall -> ReportPc]
    BY DEF ReportsInv, ModTypeOK
<1>2. CASE Begin(k)
    <2>1. /\ report[k] = "uploaded" /\ stored' = stored
          /\ report' = [report EXCEPT ![k] = "begun"]
          /\ createdAt' = [createdAt EXCEPT ![k] = clock + 1]
        BY <1>2 DEF Begin, Moves
    <2>2. k \notin stored
        BY <2>1 DEF ReportsInv, StoredInv
    <2>3. /\ createdAt'[k] = clock + 1
          /\ \A j \in ReportCall : createdAt[j] < clock + 1
          /\ \A j \in ReportCall : j # k => createdAt'[j] = createdAt[j]
                                         /\ report'[j] = report[j]
        BY <1>1, <2>1
    <2>4. \A i, j \in ReportCall :
              createdAt'[i] = createdAt'[j] => i = j \/ createdAt'[i] = 0
        BY <1>1, <2>3 DEF NoTies
    <2>5. \A j \in ReportCall :
              j \in stored' \/ report'[j] = "begun" => createdAt'[j] # 0
        BY <1>1, <2>1, <2>3 DEF NoTies
    <2> QED
        BY <1>1, <2>2, <2>3, <2>4, <2>5 DEF NoTies
<1>3. CASE ~Begin(k)
    <2>1. createdAt' = createdAt
        BY <1>3 DEF ReportStep, Refuse, Identify, IdentifyFails, Upload,
                    UploadFails, Store, StoreUnheard, StoreFails
    <2>2. \A j \in ReportCall : j \in stored' \/ report'[j] = "begun" =>
                                  j \in stored \/ report[j] = "begun"
        BY <1>1, <1>3
        DEF ReportStep, Refuse, Identify, IdentifyFails, Upload, UploadFails,
            Store, StoreUnheard, StoreFails, Moves, ReportPc
    <2> QED
        BY <2>1, <2>2 DEF NoTies
<1> QED
    BY <1>2, <1>3

\* What has not been shown stays where it is or moves down.
LEMMA UnseenKept ==
    ASSUME ModTypeOK, ModTypeOK', stored \subseteq stored', walk' = walk,
           \A s \in stored : createdAt'[s] = createdAt[s],
           NEW n \in Int, NEW shown, Unseen(n, shown), LimitInv
    PROVE  \A r \in walk.due \ shown : Cardinality(Later(r)') >= n * walk.limit
<1>1. walk.due \subseteq stored
    BY DEF ModTypeOK
<1>2. walk.limit \in Nat
    <2>1. walk \in WalkType
        BY DEF ModTypeOK, WalkType
    <2>2. walk.limit \in {0} \cup Limits
        BY <2>1 DEF WalkType
    <2>3. \A l \in Limits : l \in Nat
        BY ModerationAssumption
    <2> QED
        BY <2>2, <2>3
<1>3. ASSUME NEW r \in walk.due \ shown
      PROVE  Cardinality(Later(r)') >= n * walk.limit
    <2>1. /\ Cardinality(Later(r)) \in Nat /\ Cardinality(Later(r)') \in Nat
          /\ Cardinality(Later(r)) <= Cardinality(Later(r)')
        BY <1>1, LaterGrows, LaterCounts
    <2>2. Cardinality(Later(r)) >= n * walk.limit
        BY DEF Unseen
    <2>3. n * walk.limit \in Int
        BY <1>2
    <2> QED
        BY <2>1, <2>2, <2>3
<1> QED
    BY <1>3

\* A page shows the places that it is made of.
LEMMA PageShows ==
    ASSUME ReportsInv, NoTies, WalkInv, ListRows
    PROVE  /\ Unseen(walk.page, walk.seen \cup walk'.rows)
           /\ walk'.seen = walk.seen /\ walk'.due = walk.due
           /\ walk'.page = walk.page /\ walk'.limit = walk.limit
<1>1. PICK q \in Listings :
          walk' = [walk EXCEPT !.at = "count",
                               !.rows = PageOf(q, walk.page, walk.limit)]
    BY DEF ListRows
<1>2. /\ walk \in WalkType /\ ModTypeOK /\ walk.at = "rows"
      /\ walk.limit \in Nat /\ walk.page \in Nat
    BY ModerationAssumption DEF ListRows, ReportsInv, ModTypeOK, WalkType
<1>3. /\ walk'.rows = PageOf(q, walk.page, walk.limit)
      /\ walk'.seen = walk.seen /\ walk'.due = walk.due
      /\ walk'.page = walk.page /\ walk'.limit = walk.limit
    BY <1>1, <1>2 DEF WalkType
<1> DEFINE low == (walk.page - 1) * walk.limit
           high == walk.page * walk.limit
<1>4. low \in Int /\ high \in Int
    BY <1>2
<1>5. ASSUME NEW r \in walk.due \ (walk.seen \cup walk'.rows)
      PROVE  Cardinality(Later(r)) >= high
    <2>1. r \in stored /\ Cardinality(Later(r)) >= low
        BY <1>2 DEF WalkInv, Unseen, WalkType
    <2>2. PICK n \in 1 .. Cardinality(stored) :
              q[n] = r /\ Cardinality(Later(r)) = n - 1
        BY <1>2, <2>1, PlaceOf
    <2>3. n \in DOMAIN q
        BY ListingFacts
    <2>4. ~(n \in low + 1 .. high)
        BY <1>3, <2>2, <2>3 DEF PageOf
    <2> HIDE DEF low, high
    <2> QED
        BY <1>2, <1>4, <2>1, <2>2, <2>4, StoredFinite
<1> QED
    BY <1>3, <1>5 DEF Unseen

\* The walk keeps what it has not shown ahead of it.
LEMMA WalkKept ==
    ASSUME ReportsInv, NoTies, WalkInv, Walk
    PROVE  NoTies' /\ WalkInv'
<1>1. /\ UNCHANGED <<stored, createdAt, report>>
      /\ walk \in WalkType /\ ModTypeOK /\ LimitInv
      /\ walk.page \in Nat
    BY WalkSteps DEF ReportsInv, ModTypeOK, WalkType, reporting
<1>2. NoTies'
    BY <1>1 DEF NoTies
<1>3. \A r : Later(r)' = Later(r)
    BY <1>1 DEF Later
<1>4. CASE OpenList
    <2>1. /\ walk'.at = "rows" /\ walk'.page = 1 /\ walk'.limit \in Nat
          /\ walk'.due = stored
        BY <1>4, ModerationAssumption DEF OpenList, Nowhere
    <2>2. \A r \in walk'.due : Cardinality(Later(r)) \in Nat
        BY <1>1, <2>1, LaterCounts
    <2>3. (walk'.page - 1) * walk'.limit = 0
        BY <2>1
    <2>4. Unseen(walk.page - 1, walk.seen)'
        BY <1>3, <2>2, <2>3 DEF Unseen
    <2> QED
        BY <1>2, <2>1, <2>4 DEF WalkInv
<1>5. CASE ListRows
    <2>1. /\ Unseen(walk.page, walk.seen \cup walk'.rows)
          /\ walk'.seen = walk.seen /\ walk'.due = walk.due
          /\ walk'.page = walk.page /\ walk'.limit = walk.limit
        BY <1>5, PageShows
    <2>2. walk'.at = "count" /\ Unseen(walk.page - 1, walk.seen)
        BY <1>1, <1>5 DEF ListRows, WalkInv, WalkType
    <2> QED
        BY <1>2, <1>3, <2>1, <2>2 DEF WalkInv, Unseen
<1>6. CASE ListCount
    <2>1. /\ walk.at = "count" /\ walk'.at = "shown"
          /\ walk'.seen = walk.seen \cup walk.rows /\ walk'.due = walk.due
          /\ walk'.page = walk.page /\ walk'.limit = walk.limit
          /\ walk'.pages = Pages(Cardinality(stored), walk.limit)
        BY <1>1, <1>6 DEF ListCount, WalkType
    <2>2. Unseen(walk.page, walk.seen \cup walk.rows)
        BY <2>1 DEF WalkInv
    <2>3. ASSUME NEW r \in walk'.due \ walk'.seen
          PROVE  walk'.page < walk'.pages
        <3>1. r \in stored /\ Cardinality(Later(r)) >= walk.page * walk.limit
            BY <1>1, <2>1, <2>2 DEF Unseen, WalkType
        <3>2. /\ Cardinality(Later(r)) \in Nat
              /\ Cardinality(Later(r)) < Cardinality(stored)
            BY <1>1, <3>1, LaterCounts
        <3>3. Cardinality(stored) \in Nat /\ walk.limit \in Nat \ {0}
            BY <1>1, <2>1, StoredFinite, ModerationAssumption DEF LimitInv
        <3>4. walk.page * walk.limit \in Int
            BY <1>1, <3>3
        <3>5. Cardinality(stored) > walk.page * walk.limit
            BY <3>1, <3>2, <3>3, <3>4
        <3> QED
            BY <1>1, <2>1, <3>3, <3>5, PagesBeyond
    <2> QED
        BY <1>2, <1>3, <2>1, <2>2, <2>3 DEF WalkInv, Unseen
<1>7. CASE ListFails
    <2>1. /\ walk.at = "count" /\ walk'.at = "rows"
          /\ walk'.seen = walk.seen /\ walk'.due = walk.due
          /\ walk'.page = walk.page /\ walk'.limit = walk.limit
        BY <1>1, <1>7 DEF ListFails, WalkType
    <2> QED
        BY <1>2, <1>3, <2>1 DEF WalkInv, Unseen
<1>8. CASE NextPage
    <2>1. /\ walk.at = "shown" /\ walk'.at = "rows"
          /\ walk'.seen = walk.seen /\ walk'.due = walk.due
          /\ walk'.page = walk.page + 1 /\ walk'.limit = walk.limit
        BY <1>1, <1>8 DEF NextPage, WalkType
    <2>2. walk'.page - 1 = walk.page
        BY <1>1, <2>1
    <2> QED
        BY <1>2, <1>3, <2>1, <2>2 DEF WalkInv, Unseen
<1> QED
    BY <1>4, <1>5, <1>6, <1>7, <1>8 DEF Walk

-----------------------------------------------------------------------------
\* The connections and bans, and the reports, in every reachable state.
LEMMA Invariance == ModSpec => [](BansInv /\ ReportsInv)
<1>1. ModInit => BansInv /\ ReportsInv
    BY InitBans, InitReports
<1>2. BansInv /\ ReportsInv /\ [ModNext]_modVars => (BansInv /\ ReportsInv)'
    BY ReportsKept
<1> QED
    BY <1>1, <1>2, PTL DEF ModSpec

\* Every variable keeps its type, a stored row refers to users that have a row
\* of their own, and the times of the rows are those of transactions: for any
\* number of users, connections and calls.
THEOREM TypeCorrect == ModSpec => []ModTypeOK
    BY Invariance, PTL DEF ReportsInv

\* A stored report has its screenshot in the bucket, and a screenshot without a
\* row belongs to a call that still runs or has failed, whatever fails and
\* whichever reply is lost (reportHandler, recordReport).
THEOREM ScreenshotIsStored == ModSpec => []ScreenshotStored
    BY Invariance, PTL DEF ReportsInv

\* A call that has banned a user and returned has left no connection open that
\* was open when it banned, on its own instance, and in its map as far as other
\* connections of the user are concerned (disconnectClient, reportHandler): for
\* any number of instances, overlapping connections, calls and unbans.  A
\* connection outside these conditions may stay open: MCModerationPods.cfg,
\* MCModerationOverlap.cfg.
THEOREM BansSever == ModSpec => []BanSevers
<1>1. ModInit => SeverInv
    BY InitBans
<1>2. BansInv /\ ReportsInv /\ SeverInv /\ [ModNext]_modVars => SeverInv'
    BY NextBans, SeverKept DEF ReportsInv, ModTypeOK
<1>3. ModSpec => []SeverInv
    BY <1>1, <1>2, Invariance, PTL DEF ModSpec
<1> QED
    BY <1>3, PTL DEF SeverInv

\* The times stay distinct, and the unseen rows ahead of the walk.
LEMMA ListKept ==
    ASSUME ~MayTie, ReportsInv, ReportsInv', ListInv, [ModNext]_modVars
    PROVE  ListInv'
<1> USE DEF ListInv
<1>1. ASSUME NEW k \in env.calls \cap ReportCall, ReportStep(k)
      PROVE  ListInv'
    <2>1. NoTies' /\ \A s \in stored : createdAt'[s] = createdAt[s]
        BY <1>1, NoTiesKept
    <2>2. /\ ModTypeOK /\ ModTypeOK' /\ LimitInv
          /\ stored \subseteq stored' /\ walk' = walk
          /\ walk.page - 1 \in Int /\ walk.page \in Int
        <3>1. walk \in WalkType
            BY DEF ReportsInv, ModTypeOK, WalkType
        <3>2. walk.page \in Nat
            BY <3>1 DEF WalkType
        <3> QED
            BY <1>1, <3>2, ReportMoves DEF ReportsInv
    <2>3. ASSUME NEW n \in Int, NEW shown, Unseen(n, shown)
          PROVE  \A r \in walk.due \ shown :
                     Cardinality(Later(r)') >= n * walk.limit
        BY <2>1, <2>2, <2>3, UnseenKept
    <2>4. /\ walk.at \in {"rows", "count"} => Unseen(walk.page - 1, walk.seen)'
          /\ walk.at = "count" => Unseen(walk.page, walk.seen \cup walk.rows)'
          /\ walk.at = "shown" => Unseen(walk.page, walk.seen)'
        BY <2>2, <2>3 DEF WalkInv, Unseen
    <2> QED
        BY <2>1, <2>2, <2>4 DEF WalkInv
<1>2. CASE Walk
    BY <1>2, WalkKept
<1>3. CASE \/ \E c \in Conn : Connect(c) \/ Leave(c) \/ Serve(c)
           \/ \E k \in env.calls \ ReportCall : AdminBan(k)
           \/ \E k \in BanCall : Close(k)
           \/ Admin
           \/ UNCHANGED modVars
    <2>1. UNCHANGED <<stored, createdAt, report, walk>>
        BY <1>3
        DEF Connect, Leave, Serve, AdminBan, Close, Admin, modVars, reporting
    <2> QED
        BY <2>1 DEF NoTies, WalkInv, Unseen, Later
<1> QED
    BY <1>1, <1>2, <1>3 DEF ModNext

\* At the start a row has the place at which it was stored as its time.
LEMMA InitList == ModInit => ListInv
<1> SUFFICES ASSUME ModInit
             PROVE  ListInv
    OBVIOUS
<1>1. \A k \in stored : /\ createdAt[k] \in 1 .. Len(env.old)
                        /\ env.old[createdAt[k]] = k
    <2>1. ASSUME NEW k \in stored
          PROVE  /\ createdAt[k] \in 1 .. Len(env.old)
                 /\ env.old[createdAt[k]] = k
        <3>1. /\ DOMAIN env.old = 1 .. Len(env.old)
              /\ \E i \in DOMAIN env.old : env.old[i] = k
              /\ k \in ReportCall
            BY OldStored
        <3>2. createdAt[k] = CHOOSE i \in DOMAIN env.old : env.old[i] = k
            BY <3>1 DEF ModInit
        <3> QED
            BY <3>1, <3>2
    <2> QED
        BY <2>1
<1>2. \A k \in ReportCall \ stored : createdAt[k] = 0 /\ report[k] = "new"
    BY DEF ModInit
<1>3. Len(env.old) \in Nat /\ walk = Nowhere
    BY OldStored DEF ModInit
<1>4. NoTies
    BY <1>1, <1>2, <1>3 DEF NoTies
<1>5. WalkInv
    BY <1>3 DEF WalkInv, Nowhere
<1> QED
    BY <1>4, <1>5 DEF ListInv

\* An admin who pages to the end of the list has seen every report that was
\* there at the start, whatever is stored meanwhile and in whichever order the
\* transactions end (listReports), provided that no two rows have the same
\* time; MCModerationTies.cfg shows that it fails if they may.
THEOREM WalkIsComplete ==
    ASSUME ~MayTie
    PROVE  ModSpec => []WalkMissesNothing
<1>1. ReportsInv /\ ReportsInv' /\ ListInv /\ [ModNext]_modVars => ListInv'
    BY ListKept
<1>2. ModSpec => []ListInv
    BY <1>1, InitList, Invariance, PTL DEF ModSpec
<1>3. ReportsInv /\ ListInv => WalkMissesNothing
    <2> SUFFICES ASSUME ReportsInv, ListInv, walk.at = "shown",
                        walk.page >= walk.pages
                 PROVE  walk.due \subseteq walk.seen
        BY DEF WalkMissesNothing
    <2>1. walk \in WalkType
        BY DEF ReportsInv, ModTypeOK, WalkType
    <2>2. walk.page \in Nat /\ walk.pages \in Nat
        BY <2>1 DEF WalkType
    <2> QED
        BY <2>2 DEF ListInv, WalkInv
<1> QED
    BY <1>2, <1>3, Invariance, PTL
=============================================================================
