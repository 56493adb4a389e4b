-------------------------- MODULE MatchMakerProofs --------------------------
(***************************************************************************)
(* Proofs about MatchMaker for any number of users, joins and instances:   *)
(* type correctness, the invariant that every join is in one place, that   *)
(* no join is matched twice, and that MatchMaker implements Pairing.       *)
(***************************************************************************)
EXTENDS MatchMaker, FiniteSetTheorems, WellFoundedInduction, TLAPS

-----------------------------------------------------------------------------
(***************************************************************************)
(* The operations on the queue: RPUSH of one entry and of two, the two     *)
(* LPOPs of popPairScript, and LREM.                                       *)
(***************************************************************************)

-----------------------------------------------------------------------------
(***************************************************************************)
(* The rank of a position among the positions that LREM keeps: it starts   *)
(* at 0, grows by one at every kept position and ends at their number, so  *)
(* every number in between is the rank of a kept position.                 *)
(***************************************************************************)
\* The positions up to a bound are finitely many, so their number is a natural
\* number.
LEMMA RankIsNat ==
    ASSUME NEW N \in Nat, NEW K, \A m \in K : m \in 1 .. N, NEW n \in Int
    PROVE  /\ IsFiniteSet({m \in K : m <= n})
           /\ Rank(K, n) \in Nat
<1>1. IsFiniteSet(1 .. N)
    BY FS_Interval
<1>2. {m \in K : m <= n} \in SUBSET (1 .. N)
    OBVIOUS
<1>3. IsFiniteSet({m \in K : m <= n})
    BY <1>1, <1>2, FS_Subset
<1> QED
    BY <1>3, FS_CardinalityType DEF Rank

\* No position is below the first one, and all are up to the last one.
LEMMA RankEnds ==
    ASSUME NEW N \in Nat, NEW K, \A m \in K : m \in 1 .. N
    PROVE  Rank(K, 0) = 0 /\ Rank(K, N) = Cardinality(K)
<1>1. {m \in K : m <= 0} = {}
    OBVIOUS
<1>2. {m \in K : m <= N} = K
    OBVIOUS
<1> QED
    BY <1>1, <1>2, FS_EmptySet DEF Rank

\* The rank grows by one at a kept position, and nowhere else (LREM key 0 u).
LEMMA RankStep ==
    ASSUME NEW N \in Nat, NEW K, \A m \in K : m \in 1 .. N, NEW n \in 1 .. N
    PROVE  Rank(K, n) = IF n \in K THEN Rank(K, n - 1) + 1
                        ELSE Rank(K, n - 1)
<1> DEFINE Below == {m \in K : m <= n - 1}
<1>1. IsFiniteSet(Below) /\ n \notin Below
    BY RankIsNat, n - 1 \in Int
<1>2. CASE n \in K
    <2>1. \A m \in K : m <= n <=> m <= n - 1 \/ m = n
        OBVIOUS
    <2>2. {m \in K : m <= n} = Below \cup {n}
        BY <1>2, <2>1, Zenon
    <2> QED
        BY <1>1, <1>2, <2>2, FS_AddElement DEF Rank
<1>3. CASE n \notin K
    <2>1. {m \in K : m <= n} = Below
        BY <1>3
    <2> QED
        BY <1>3, <2>1 DEF Rank
<1> QED
    BY <1>2, <1>3

\* Every number up to the number of kept positions is the rank of one of them,
\* which is the position that LRem takes its entry from.
LEMMA RankReached ==
    ASSUME NEW N \in Nat, NEW K, \A m \in K : m \in 1 .. N,
           NEW k \in 1 .. Cardinality(K)
    PROVE  \E n \in K : Rank(K, n) = k
<1> DEFINE High == {n \in 1 .. N : Rank(K, n) >= k}
<1>1. Rank(K, 0) = 0 /\ Rank(K, N) = Cardinality(K)
    BY RankEnds
<1>2. ASSUME NEW n \in 0 .. N PROVE Rank(K, n) \in Nat
    <2>1. n \in Int
        OBVIOUS
    <2> QED
        BY <2>1, RankIsNat, Zenon
<1>3. N \in High
    <2>1. N # 0
        BY <1>1, <1>2
    <2> QED
        BY <1>1, <1>2, <2>1
<1>4. PICK n \in High : \A m \in High : <<m, n>> \notin OpToRel(<, Nat)
    <2>1. High \subseteq Nat /\ High # {}
        BY <1>3
    <2> QED
        BY <2>1, WFMin, NatLessThanWellFounded, Zenon
<1>5. \A m \in High : ~(m < n)
    <2>1. \A m \in High : <<m, n>> \in Nat \X Nat
        OBVIOUS
    <2> QED
        BY <1>4, <2>1, Zenon DEF OpToRel
<1>6. Rank(K, n - 1) < k
    <2>1. CASE n = 1
        BY <1>1, <2>1
    <2>2. CASE n # 1
        <3>1. n - 1 \in 1 .. N /\ n - 1 < n
            BY <2>2
        <3>2. n - 1 \notin High
            BY <1>5, <3>1
        <3> QED
            BY <1>2, <3>1, <3>2
    <2> QED
        BY <2>1, <2>2
<1>7. Rank(K, n) = IF n \in K THEN Rank(K, n - 1) + 1 ELSE Rank(K, n - 1)
    BY RankStep
<1>8. Rank(K, n - 1) \in Nat /\ Rank(K, n) \in Nat /\ Rank(K, n) >= k
    BY <1>2
<1>9. n \in K
    BY <1>6, <1>7, <1>8
<1> QED
    BY <1>6, <1>7, <1>8, <1>9

-----------------------------------------------------------------------------
(***************************************************************************)
(* What the four operations on the queue do to the set of its entries, and *)
(* that they keep its entries distinct.                                    *)
(***************************************************************************)
\* RPUSH of one entry: the list gains it, and stays without repetition if it was
\* new (MatchMaker.Add).
LEMMA AppendEntries ==
    ASSUME NEW q \in Seq(Join), NEW j \in Join
    PROVE  /\ Append(q, j) \in Seq(Join)
           /\ EntriesOf(Append(q, j)) = EntriesOf(q) \cup {j}
           /\ NoRepeat(q) /\ j \notin EntriesOf(q) => NoRepeat(Append(q, j))
<1> DEFINE r == Append(q, j)
<1>1. /\ r \in Seq(Join)
      /\ Len(q) \in Nat /\ DOMAIN q = 1 .. Len(q)
      /\ DOMAIN r = 1 .. Len(q) + 1
      /\ \A n \in 1 .. Len(q) : r[n] = q[n]
      /\ r[Len(q) + 1] = j
    OBVIOUS
<1>2. \A n \in DOMAIN r : n \in DOMAIN q \/ n = Len(q) + 1
    BY <1>1
<1>3. EntriesOf(r) = EntriesOf(q) \cup {j}
    <2>1. ASSUME NEW e PROVE e \in EntriesOf(r) <=> e \in EntriesOf(q) \cup {j}
        BY <1>1 DEF EntriesOf
    <2> QED
        BY <2>1
<1>4. ASSUME NoRepeat(q), j \notin EntriesOf(q) PROVE NoRepeat(r)
    BY <1>1, <1>4 DEF NoRepeat, EntriesOf
<1> QED
    BY <1>1, <1>3, <1>4

\* RPUSH of two entries: the list gains both (the push back of processMatches).
LEMMA PushTwoEntries ==
    ASSUME NEW q \in Seq(Join), NEW j \in Join, NEW k \in Join
    PROVE  /\ q \o <<j, k>> \in Seq(Join)
           /\ EntriesOf(q \o <<j, k>>) = EntriesOf(q) \cup {j, k}
           /\ NoRepeat(q) /\ j # k /\ {j, k} \cap EntriesOf(q) = {}
                 => NoRepeat(q \o <<j, k>>)
<1> DEFINE r == q \o <<j, k>>
<1>1. /\ r \in Seq(Join)
      /\ Len(q) \in Nat /\ DOMAIN q = 1 .. Len(q)
      /\ DOMAIN r = 1 .. Len(q) + 2
      /\ \A n \in 1 .. Len(q) : r[n] = q[n]
      /\ r[Len(q) + 1] = j /\ r[Len(q) + 2] = k
    OBVIOUS
<1>2. \A n \in DOMAIN r : n \in DOMAIN q \/ n = Len(q) + 1 \/ n = Len(q) + 2
    BY <1>1
<1>3. EntriesOf(r) = EntriesOf(q) \cup {j, k}
    <2>1. ASSUME NEW e
          PROVE  e \in EntriesOf(r) <=> e \in EntriesOf(q) \cup {j, k}
        BY <1>1, <1>2 DEF EntriesOf
    <2> QED
        BY <2>1
<1>4. ASSUME NoRepeat(q), j # k, {j, k} \cap EntriesOf(q) = {},
             NEW m \in DOMAIN r, NEW n \in DOMAIN r, r[m] = r[n]
      PROVE  m = n
    <2>1. \A l \in DOMAIN q : q[l] # j /\ q[l] # k
        BY <1>4 DEF EntriesOf
    <2>2. CASE m \in DOMAIN q /\ n \in DOMAIN q
        BY <1>1, <1>4, <2>2 DEF NoRepeat
    <2>3. CASE m \notin DOMAIN q \/ n \notin DOMAIN q
        BY <1>1, <1>2, <1>4, <2>1, <2>3
    <2> QED
        BY <2>2, <2>3
<1>5. NoRepeat(q) /\ j # k /\ {j, k} \cap EntriesOf(q) = {} => NoRepeat(r)
    BY <1>4 DEF NoRepeat
<1> QED
    BY <1>1, <1>3, <1>5

\* LPOP key 2 splits the entries into the two popped and the rest (popPairScript).
LEMMA PopEntries ==
    ASSUME NEW q \in Seq(Join), Len(q) >= 2
    PROVE  LET r == SubSeq(q, 3, Len(q))
           IN  /\ q[1] \in Join /\ q[2] \in Join
               /\ r \in Seq(Join)
               /\ EntriesOf(q) = EntriesOf(r) \cup {q[1], q[2]}
               /\ NoRepeat(q) => /\ NoRepeat(r)
                                 /\ q[1] # q[2]
                                 /\ {q[1], q[2]} \cap EntriesOf(r) = {}
<1> DEFINE r == SubSeq(q, 3, Len(q))
<1>1. /\ Len(q) \in Nat /\ DOMAIN q = 1 .. Len(q)
      /\ q[1] \in Join /\ q[2] \in Join
    OBVIOUS
<1>2. /\ r \in Seq(Join)
      /\ Len(r) = Len(q) - 2
      /\ DOMAIN r = 1 .. Len(q) - 2
      /\ \A n \in 1 .. Len(q) - 2 : r[n] = q[n + 2]
    BY <1>1
<1>3. \A n \in DOMAIN q : n = 1 \/ n = 2 \/ n - 2 \in DOMAIN r
    BY <1>1, <1>2
<1>4. EntriesOf(q) = EntriesOf(r) \cup {q[1], q[2]}
    <2>1. ASSUME NEW n \in DOMAIN q
          PROVE  q[n] \in EntriesOf(r) \cup {q[1], q[2]}
        <3>1. CASE n = 1 \/ n = 2
            BY <3>1
        <3>2. CASE n - 2 \in DOMAIN r
            <4>1. r[n - 2] = q[n]
                BY <1>1, <1>2, <3>2
            <4> QED
                BY <3>2, <4>1 DEF EntriesOf
        <3> QED
            BY <1>3, <3>1, <3>2
    <2>2. ASSUME NEW n \in DOMAIN r
          PROVE  r[n] \in EntriesOf(q)
        <3>1. r[n] = q[n + 2] /\ n + 2 \in DOMAIN q
            BY <1>1, <1>2
        <3> QED
            BY <3>1 DEF EntriesOf
    <2>3. {q[1], q[2]} \subseteq EntriesOf(q)
        BY <1>1 DEF EntriesOf
    <2> QED
        BY <2>1, <2>2, <2>3 DEF EntriesOf
<1>5. ASSUME NoRepeat(q)
      PROVE  /\ NoRepeat(r)
             /\ q[1] # q[2]
             /\ {q[1], q[2]} \cap EntriesOf(r) = {}
    <2>1. \A m, n \in DOMAIN q : q[m] = q[n] => m = n
        BY <1>5 DEF NoRepeat
    <2>2. ASSUME NEW n \in DOMAIN r
          PROVE  n + 2 \in DOMAIN q /\ r[n] = q[n + 2]
        BY <1>1, <1>2
    <2>3. NoRepeat(r)
        <3>1. SUFFICES ASSUME NEW m \in DOMAIN r, NEW n \in DOMAIN r, r[m] = r[n]
                       PROVE  m = n
            BY DEF NoRepeat
        <3>2. m + 2 = n + 2
            BY <2>1, <2>2, <3>1
        <3>3. m \in Int /\ n \in Int
            BY <1>1, <1>2
        <3> QED
            BY <3>2, <3>3
    <2>4. q[1] # q[2]
        BY <1>1, <2>1
    <2>5. ASSUME NEW n \in DOMAIN r PROVE r[n] # q[1] /\ r[n] # q[2]
        <3>1. n + 2 # 1 /\ n + 2 # 2
            BY <1>1, <1>2
        <3>2. 1 \in DOMAIN q /\ 2 \in DOMAIN q
            BY <1>1
        <3> QED
            BY <2>1, <2>2, <3>1, <3>2
    <2> QED
        BY <2>3, <2>4, <2>5 DEF EntriesOf
<1> QED
    BY <1>1, <1>2, <1>4, <1>5

\* LREM key 0 u leaves entries of other users only, and distinct ones distinct
\* (MatchMaker.Remove).
LEMMA LRemEntries ==
    ASSUME NEW q \in Seq(Join), NEW u
    PROVE  /\ LRem(q, u) \in Seq(Join)
           /\ EntriesOf(LRem(q, u)) \subseteq {e \in EntriesOf(q) : UserOf[e] # u}
           /\ NoRepeat(q) => NoRepeat(LRem(q, u))
<1> DEFINE K == Kept(q, u)
           C == Cardinality(K)
           at(k) == CHOOSE n \in K : Rank(K, n) = k
           r == LRem(q, u)
<1>1. Len(q) \in Nat /\ DOMAIN q = 1 .. Len(q)
    OBVIOUS
<1>2. \A m \in K : m \in 1 .. Len(q) /\ q[m] \in Join /\ UserOf[q[m]] # u
    BY <1>1 DEF Kept
<1>3. C \in Nat
    <2>1. Len(q) \in Int
        BY <1>1
    <2>2. Rank(K, Len(q)) \in Nat /\ Rank(K, Len(q)) = C
        BY <1>1, <1>2, <2>1, RankIsNat, RankEnds, Zenon
    <2> QED
        BY <2>2
<1>4. ASSUME NEW k \in 1 .. C PROVE at(k) \in K /\ Rank(K, at(k)) = k
    <2>1. \E n \in K : Rank(K, n) = k
        BY <1>1, <1>2, RankReached, Zenon
    <2> QED
        BY <2>1
<1>5. r = [k \in 1 .. C |-> q[at(k)]]
    BY DEF LRem
<1>6. DOMAIN r = 1 .. C /\ \A k \in 1 .. C : r[k] = q[at(k)]
    BY <1>5
<1> HIDE DEF r, at, C, K
<1>7. r \in Seq(Join)
    BY <1>2, <1>3, <1>4, <1>5
<1>8. ASSUME NEW e \in EntriesOf(r) PROVE e \in EntriesOf(q) /\ UserOf[e] # u
    <2>1. PICK k \in 1 .. C : e = r[k]
        BY <1>6, <1>8 DEF EntriesOf
    <2>2. e = q[at(k)] /\ at(k) \in K
        BY <1>4, <1>6, <2>1
    <2> QED
        BY <1>1, <1>2, <2>2 DEF EntriesOf
<1>9. ASSUME NoRepeat(q), NEW k \in 1 .. C, NEW l \in 1 .. C, r[k] = r[l]
      PROVE  k = l
    <2>1. q[at(k)] = q[at(l)] /\ at(k) \in DOMAIN q /\ at(l) \in DOMAIN q
        BY <1>1, <1>2, <1>4, <1>6, <1>9
    <2>2. at(k) = at(l)
        BY <1>9, <2>1 DEF NoRepeat
    <2> QED
        BY <1>4, <2>2
<1>10. NoRepeat(q) => NoRepeat(r)
    BY <1>6, <1>9 DEF NoRepeat
<1> QED
    BY <1>7, <1>8, <1>10 DEF r

\* Kept positions have different ranks, each at least 1 and at most their number.
LEMMA RankInjective ==
    ASSUME NEW N \in Nat, NEW K, \A m \in K : m \in 1 .. N,
           NEW m \in K, NEW n \in K
    PROVE  /\ Rank(K, n) \in 1 .. Cardinality(K)
           /\ Rank(K, m) = Rank(K, n) => m = n
<1> DEFINE UpTo(x) == {y \in K : y <= x}
<1>1. \A x \in K : x \in 1 .. N /\ IsFiniteSet(UpTo(x)) /\ Rank(K, x) \in Nat
    BY RankIsNat
<1>2. \A x \in K : x \in Int /\ Rank(K, x) \in Nat
    <2> HIDE DEF UpTo
    <2> QED
        BY <1>1
<1>3. IsFiniteSet(K) /\ Cardinality(K) \in Nat
    <2>1. K \in SUBSET (1 .. N)
        OBVIOUS
    <2>2. IsFiniteSet(1 .. N)
        BY FS_Interval
    <2>3. IsFiniteSet(K)
        BY <2>1, <2>2, FS_Subset
    <2> QED
        BY <2>3, FS_CardinalityType
<1>4. Rank(K, n) <= Cardinality(K) /\ Rank(K, n) # 0
    <2>1. UpTo(n) \subseteq K /\ n \in UpTo(n)
        BY <1>1
    <2>2. UpTo(n) # {}
        BY <2>1
    <2> QED
        BY <1>1, <1>3, <2>1, <2>2, FS_Subset, FS_EmptySet DEF Rank
<1>5. ASSUME NEW x \in K, NEW y \in K, x < y
      PROVE  Rank(K, x) < Rank(K, y)
    <2>1. /\ UpTo(x) \subseteq UpTo(y)
          /\ y \in UpTo(y) /\ y \notin UpTo(x)
        BY <1>1, <1>5
    <2>2. Cardinality(UpTo(x) \cup {y}) = Cardinality(UpTo(x)) + 1
        BY <1>1, <2>1, FS_AddElement
    <2>3. UpTo(x) \cup {y} \subseteq UpTo(y)
        BY <2>1
    <2>4. Cardinality(UpTo(x) \cup {y}) <= Cardinality(UpTo(y))
        BY <1>1, <2>3, FS_Subset
    <2> QED
        BY <1>1, <2>2, <2>4 DEF Rank
<1>6. Rank(K, m) = Rank(K, n) => m = n
    <2>1. /\ m \in Int /\ Rank(K, m) \in Int
          /\ n \in Int /\ Rank(K, n) \in Int
        BY <1>2
    <2>2. /\ m < n => Rank(K, m) < Rank(K, n)
          /\ n < m => Rank(K, n) < Rank(K, m)
        BY <1>5
    <2>3. m < n \/ n < m \/ m = n
        BY <2>1
    <2>4. Rank(K, m) = Rank(K, n) => ~(Rank(K, m) < Rank(K, n))
                                     /\ ~(Rank(K, n) < Rank(K, m))
        BY <2>1
    <2> QED
        BY <2>2, <2>3, <2>4, Zenon
<1>7. Rank(K, n) \in Nat
    BY <1>2
<1>8. Rank(K, n) \in 1 .. Cardinality(K)
    BY <1>3, <1>4, <1>7
<1> QED
    BY <1>6, <1>8

\* LREM key 0 u keeps every entry of every other user (MatchMaker.Remove).
LEMMA LRemKeeps ==
    ASSUME NEW q \in Seq(Join), NEW u, NEW e \in EntriesOf(q), UserOf[e] # u
    PROVE  e \in EntriesOf(LRem(q, u))
<1> DEFINE K == Kept(q, u)
           C == Cardinality(K)
           at(k) == CHOOSE n \in K : Rank(K, n) = k
           r == LRem(q, u)
<1>1. Len(q) \in Nat /\ DOMAIN q = 1 .. Len(q)
    OBVIOUS
<1>2. PICK n \in DOMAIN q : e = q[n]
    BY DEF EntriesOf
<1>3. n \in K /\ \A m \in K : m \in 1 .. Len(q)
    BY <1>1, <1>2 DEF Kept
<1>4. r = [k \in 1 .. C |-> q[at(k)]]
    BY DEF LRem
<1> HIDE DEF r, C, K
<1>5. Rank(K, n) \in 1 .. C
    BY <1>1, <1>3, RankInjective, Zenon DEF C
<1>6. at(Rank(K, n)) \in K /\ Rank(K, at(Rank(K, n))) = Rank(K, n)
    BY <1>3
<1>7. at(Rank(K, n)) = n
    BY <1>1, <1>3, <1>6, RankInjective, Zenon
<1> HIDE DEF at
<1>8. DOMAIN r = 1 .. C /\ r[Rank(K, n)] = e
    BY <1>2, <1>4, <1>5, <1>7
<1> QED
    BY <1>5, <1>8 DEF EntriesOf, r

-----------------------------------------------------------------------------
(***************************************************************************)
(* Type correctness.                                                       *)
(***************************************************************************)
\* The initial state is typed.
LEMMA InitTypeOK == Init => TypeOK
    BY ConstantsAssumption
    DEF Init, TypeOK, LoopTypeOK, Idle, LoopPc, CallerState

\* A step that fails a command keeps the number of faults within its bound.
LEMMA FaultTyped == TypeOK /\ Fault => faults' \in 0 .. MaxFaults
    BY ConstantsAssumption DEF TypeOK, Fault

\* Loops that do not move stay typed.
LEMMA SameLoopTyped == LoopTypeOK /\ UNCHANGED loop => LoopTypeOK'
    BY DEF LoopTypeOK

\* A step of Add or Remove moves its caller to another of the five states.
LEMMA CallerTyped ==
    ASSUME TypeOK, NEW j \in Join, NEW from, NEW to \in CallerState,
           CallerGoes(j, from, to)
    PROVE  caller' \in [Join -> CallerState]
    BY DEF TypeOK, CallerGoes

\* A step of a loop that only moves its program counter keeps the loop typed.
LEMMA LoopGoesTyped ==
    ASSUME TypeOK, NEW i \in Instance, NEW from, NEW to \in LoopPc,
           LoopGoes(i, from, to), from \notin {"idle", "pop"} \/ to = "pop"
    PROVE  LoopTypeOK'
    BY DEF TypeOK, LoopTypeOK, LoopGoes

\* A loop whose cycle ends is typed.
LEMMA IdleTyped ==
    ASSUME TypeOK, NEW i \in Instance, loop' = [loop EXCEPT ![i] = Idle]
    PROVE  LoopTypeOK'
    BY ConstantsAssumption DEF TypeOK, LoopTypeOK, Idle, LoopPc

\* Between two pops of one cycle.
LEMMA NextPopTyped ==
    ASSUME TypeOK, NEW i \in Instance, NEW rej \in 0 .. MaxRejections - 1,
           loop' = [loop EXCEPT ![i] = [Idle EXCEPT !.pc = "pop", !.rej = rej]]
    PROVE  LoopTypeOK'
    BY DEF TypeOK, LoopTypeOK, Idle, LoopPc

\* The two joins in the hands of a loop belong to users.
LEMMA UsersOfPair ==
    ASSUME TypeOK, NEW i \in Instance, loop[i].pc \notin {"idle", "pop"}
    PROVE  User1(i) \in User /\ User2(i) \in User
    BY ConstantsAssumption DEF TypeOK, LoopTypeOK, User1, User2

\* The commands of Add and Remove keep every variable typed, whether they
\* succeed or fail.
LEMMA AddOrRemoveTyped ==
    ASSUME TypeOK, NEW j \in Join, AddOrRemove(j)
    PROVE  TypeOK'
<1>1. Append(queue, j) \in Seq(Join) /\ LRem(queue, UserOf[j]) \in Seq(Join)
    BY AppendEntries, LRemEntries DEF TypeOK
<1>2. UserOf[j] \in User
    BY ConstantsAssumption
<1>3. caller' \in [Join -> CallerState]
    <2>1. \E from : \E to \in CallerState : CallerGoes(j, from, to)
        BY DEF AddOrRemove, RPush, RPushFails, HSet, HSetFails, LRemove,
               LRemoveFails, HDel, HDelFails, CallerState
    <2> QED
        BY <2>1, CallerTyped
<1>4. LoopTypeOK'
    <2>1. UNCHANGED loop
        BY DEF AddOrRemove, RPush, RPushFails, HSet, HSetFails, LRemove,
               LRemoveFails, HDel, HDelFails
    <2> QED
        BY <2>1, SameLoopTyped DEF TypeOK
<1>5. CASE RPush(j)
    BY <1>1, <1>3, <1>4, <1>5 DEF TypeOK, RPush
<1>6. CASE RPushFails(j)
    BY <1>1, <1>3, <1>4, <1>6, FaultTyped DEF TypeOK, RPushFails
<1>7. CASE HSet(j)
    BY <1>2, <1>3, <1>4, <1>7 DEF TypeOK, HSet
<1>8. CASE HSetFails(j)
    BY <1>3, <1>4, <1>8, FaultTyped DEF TypeOK, HSetFails
<1>9. CASE LRemove(j)
    BY <1>1, <1>3, <1>4, <1>9 DEF TypeOK, LRemove
<1>10. CASE LRemoveFails(j)
    BY <1>1, <1>3, <1>4, <1>10, FaultTyped DEF TypeOK, LRemoveFails
<1>11. CASE HDel(j)
    BY <1>3, <1>4, <1>11 DEF TypeOK, HDel
<1>12. CASE HDelFails(j)
    BY <1>3, <1>4, <1>12, FaultTyped DEF TypeOK, HDelFails
<1> QED
    BY <1>5, <1>6, <1>7, <1>8, <1>9, <1>10, <1>11, <1>12 DEF AddOrRemove

\* The block-set and session calls keep every variable typed.
LEMMA BlockCallTyped ==
    ASSUME TypeOK, NEW u \in User, BlockCall(u)
    PROVE  TypeOK'
<1>1. LoopTypeOK'
    <2>1. UNCHANGED loop
        BY DEF BlockCall, HydrateBlocks, ClearBlocks, DeleteSession,
               AddBlockExists, AddBlockSAdd, AddBlockSAddFails
    <2> QED
        BY <2>1, SameLoopTyped DEF TypeOK
<1>2. ASSUME NEW subs \in SUBSET User, HydrateBlocks(u, subs)
      PROVE  TypeOK'
    BY <1>1, <1>2 DEF TypeOK, HydrateBlocks
<1>3. CASE \E subs \in SUBSET BlockedBy(u) : HydrateBlocks(u, subs)
    <2>1. SUBSET BlockedBy(u) \subseteq SUBSET User
        BY DEF BlockedBy
    <2> QED
        BY <1>2, <1>3, <2>1
<1>4. CASE ClearBlocks(u)
    BY <1>2, <1>4 DEF ClearBlocks
<1>5. CASE DeleteSession(u)
    BY <1>1, <1>5 DEF TypeOK, DeleteSession
<1>6. ASSUME NEW v \in BlockedBy(u), AddBlockExists(u, v)
      PROVE  TypeOK'
    <2>1. <<u, v>> \in BlockRows
        BY DEF BlockedBy
    <2> QED
        BY <1>1, <1>6, <2>1 DEF TypeOK, AddBlockExists
<1>7. ASSUME NEW v \in BlockedBy(u), AddBlockSAdd(u, v)
      PROVE  TypeOK'
    <2>1. v \in User
        BY DEF BlockedBy
    <2> QED
        BY <1>1, <1>7, <2>1 DEF TypeOK, AddBlockSAdd
<1>8. ASSUME NEW v \in BlockedBy(u), AddBlockSAddFails(u, v)
      PROVE  TypeOK'
    BY <1>1, <1>8, FaultTyped DEF TypeOK, AddBlockSAddFails
<1> QED
    BY <1>3, <1>4, <1>5, <1>6, <1>7, <1>8 DEF BlockCall

\* The steps of a matching loop, their failures and a crash keep every variable
\* typed; in particular a rejection counts up to the bound only (Requeue).
LEMMA LoopTyped ==
    ASSUME TypeOK, NEW i \in Instance, LoopStep(i) \/ LoopFails(i) \/ Crash(i)
    PROVE  TypeOK'
<1>1. CASE Wake(i)
    <2>1. LoopTypeOK'
        BY <1>1, LoopGoesTyped, "pop" \in LoopPc DEF Wake, LoopPc
    <2> QED
        BY <1>1, <2>1 DEF TypeOK, Wake
<1>2. CASE PopPair(i)
    <2>1. /\ queue[1] \in Join /\ queue[2] \in Join
          /\ queue' \in Seq(Join)
        BY <1>2, PopEntries DEF TypeOK, PopPair, TakesFirstTwo
    <2>2. LoopTypeOK'
        BY <1>2, <2>1 DEF TypeOK, LoopTypeOK, PopPair, LoopPc
    <2> QED
        BY <1>2, <2>1, <2>2 DEF TypeOK, PopPair
<1>3. CASE PopNothing(i)
    BY <1>3, IdleTyped DEF TypeOK, PopNothing
<1>4. CASE PopFails(i)
    <2>1. ASSUME TakesFirstTwo(i) PROVE queue' \in Seq(Join)
        BY <2>1, PopEntries DEF TypeOK, TakesFirstTwo
    <2>2. queue' \in Seq(Join)
        BY <1>4, <2>1 DEF TypeOK, PopFails
    <2> QED
        BY <1>4, <2>2, IdleTyped, FaultTyped DEF TypeOK, PopFails
<1>5. CASE Check1(i)
    <2>1. LoopTypeOK'
        BY <1>5, LoopGoesTyped DEF Check1, LoopPc
    <2> QED
        BY <1>5, <2>1, FaultTyped DEF TypeOK, Check1
<1>6. CASE Check2Rejects(i)
    <2>1. LoopTypeOK'
        BY <1>6, LoopGoesTyped DEF Check2Rejects, LoopPc
    <2> QED
        BY <1>6, <2>1 DEF TypeOK, Check2Rejects
<1>7. CASE Check2Accepts(i)
    <2>1. LoopTypeOK'
        BY <1>7, LoopGoesTyped DEF Check2Accepts, LoopPc
    <2>2. loop[i].id1 \in Join /\ loop[i].id2 \in Join
        BY <1>7 DEF TypeOK, LoopTypeOK, Check2Accepts, LoopGoes
    <2> QED
        BY <1>7, <2>1, <2>2, FaultTyped DEF TypeOK, Check2Accepts
<1>8. CASE Requeue(i)
    <2>1. queue' \in Seq(Join)
        BY <1>8, PushTwoEntries DEF TypeOK, LoopTypeOK, Requeue, PutsBack
    <2>2. CASE loop[i].rej + 1 >= MaxRejections
        BY <1>8, <2>1, <2>2, IdleTyped DEF TypeOK, Requeue
    <2>3. CASE ~(loop[i].rej + 1 >= MaxRejections)
        <3>1. loop[i].rej + 1 \in 0 .. MaxRejections - 1
            BY <2>3, ConstantsAssumption DEF TypeOK, LoopTypeOK
        <3>2. loop' = [loop EXCEPT ![i] = [Idle EXCEPT !.pc = "pop",
                                               !.rej = loop[i].rej + 1]]
            BY <1>8, <2>3 DEF Requeue
        <3>3. LoopTypeOK'
            BY <3>1, <3>2, NextPopTyped
        <3> QED
            BY <1>8, <2>1, <3>3 DEF TypeOK, Requeue
    <2> QED
        BY <2>2, <2>3
<1>9. CASE RequeueFails(i)
    <2>1. loop[i].id1 \in Join /\ loop[i].id2 \in Join
        BY <1>9 DEF TypeOK, LoopTypeOK, RequeueFails
    <2>2. ASSUME PutsBack(i) PROVE queue' \in Seq(Join)
        BY <2>1, <2>2, PushTwoEntries DEF TypeOK, PutsBack
    <2>3. queue' \in Seq(Join)
        BY <1>9, <2>2 DEF TypeOK, RequeueFails
    <2> QED
        BY <1>9, <2>3, IdleTyped, FaultTyped DEF TypeOK, RequeueFails
<1>10. CASE Observe(i)
    <2>1. LoopTypeOK'
        BY <1>10, LoopGoesTyped DEF Observe, LoopPc
    <2> QED
        BY <1>10, <2>1, FaultTyped DEF TypeOK, Observe
<1>11. CASE SetSession1(i)
    <2>1. LoopTypeOK'
        BY <1>11, LoopGoesTyped DEF SetSession1, LoopPc
    <2>2. User1(i) \in User
        BY <1>11, UsersOfPair DEF SetSession1, LoopGoes
    <2> QED
        BY <1>11, <2>1, <2>2, FaultTyped DEF TypeOK, SetSession1, SetSession
<1>12. CASE SetSession2(i)
    <2>1. LoopTypeOK'
        BY <1>12, LoopGoesTyped DEF SetSession2, LoopPc
    <2>2. User2(i) \in User
        BY <1>12, UsersOfPair DEF SetSession2, LoopGoes
    <2> QED
        BY <1>12, <2>1, <2>2, FaultTyped DEF TypeOK, SetSession2, SetSession
<1>13. CASE Notify1(i)
    <2>1. LoopTypeOK'
        BY <1>13, LoopGoesTyped DEF Notify1, LoopPc
    <2> QED
        BY <1>13, <2>1, FaultTyped DEF TypeOK, Notify1, Publish
<1>14. CASE Notify2(i)
    <2>1. loop[i].rej \in 0 .. MaxRejections - 1
        BY DEF TypeOK, LoopTypeOK
    <2>2. LoopTypeOK'
        BY <1>14, <2>1, NextPopTyped DEF Notify2
    <2> QED
        BY <1>14, <2>2, FaultTyped DEF TypeOK, Notify2, Publish
<1>15. CASE Crash(i)
    <2>1. caller' \in [Join -> CallerState]
        BY <1>15 DEF TypeOK, Crash, CallerState
    <2> QED
        BY <1>15, <2>1, IdleTyped, FaultTyped DEF TypeOK, Crash
<1> QED
    BY <1>1, <1>2, <1>3, <1>4, <1>5, <1>6, <1>7, <1>8, <1>9, <1>10, <1>11,
       <1>12, <1>13, <1>14, <1>15 DEF LoopStep, LoopFails

\* Every step keeps every variable typed.
LEMMA NextTypeOK == TypeOK /\ [Next]_vars => TypeOK'
<1> SUFFICES ASSUME TypeOK, [Next]_vars PROVE TypeOK'
    OBVIOUS
<1>1. CASE CallFails
    BY <1>1, FaultTyped, SameLoopTyped DEF TypeOK, CallFails
<1>2. CASE UNCHANGED vars
    BY <1>2, SameLoopTyped DEF TypeOK, vars
<1> QED
    BY <1>1, <1>2, AddOrRemoveTyped, BlockCallTyped, LoopTyped DEF Next

\* The queue only ever holds joins, a loop that is past its pop holds two
\* joins, and it never counts more rejections than its bound
\* (processMatches, maxBlockedRejectionsPerCycle).
THEOREM TypeCorrect == Spec => []TypeOK
    BY InitTypeOK, NextTypeOK, PTL DEF Spec

-----------------------------------------------------------------------------
(***************************************************************************)
(* The places of the joins.  Whatever its command, a step changes them in  *)
(* one of five ways.                                                       *)
(***************************************************************************)
\* The queue and the hands keep, or lose, what they had.
Drops ==
    /\ matched' = matched
    /\ Entries' \subseteq Entries
    /\ NoRepeat(queue) => NoRepeat(queue)'
    /\ \A k \in Instance :
          Hand(k)' # {} => /\ Hand(k)' = Hand(k)
                           /\ loop'[k].id1 = loop[k].id1
                           /\ loop'[k].id2 = loop[k].id2
    /\ \A j \in Join : caller'[j] = "new" => caller[j] = "new"

\* j is pushed.
Pushes(j) ==
    /\ UNCHANGED <<loop, matched>>
    /\ queue' = Append(queue, j)
    /\ caller[j] = "new"
    /\ \A k \in Join : caller'[k] = "new" <=> caller[k] = "new" /\ k # j

\* Two joins move from the queue to the hands of loop i.
Takes(i) ==
    /\ UNCHANGED <<caller, matched>>
    /\ Hand(i) = {}
    /\ TakesFirstTwo(i)
    /\ \A k \in Instance \ {i} : loop'[k] = loop[k]
    /\ Hand(i)' = {queue[1], queue[2]}
    /\ loop'[i].id1 = queue[1] /\ loop'[i].id2 = queue[2]

\* Loop i puts both joins back.
Returns(i) ==
    /\ UNCHANGED <<caller, matched>>
    /\ Hand(i) = {loop[i].id1, loop[i].id2}
    /\ PutsBack(i)
    /\ \A k \in Instance \ {i} : loop'[k] = loop[k]
    /\ Hand(i)' = {}

\* Loop i makes a pair of both joins.
Matches(i) ==
    /\ UNCHANGED <<caller, queue>>
    /\ Hand(i) = {loop[i].id1, loop[i].id2}
    /\ loop[i].id1 \in Join /\ loop[i].id2 \in Join
    /\ matched' = matched \cup {<<loop[i].id1, loop[i].id2>>}
    /\ \A k \in Instance \ {i} : loop'[k] = loop[k]
    /\ Hand(i)' = {}

OneWay ==
    \/ Drops
    \/ \E j \in Join : Pushes(j)
    \/ \E i \in Instance : Takes(i) \/ Returns(i) \/ Matches(i)

\* A loop that does not move holds what it held.
LEMMA SameHand ==
    ASSUME NEW k \in Instance, loop'[k] = loop[k]
    PROVE  Hand(k)' = Hand(k)
    BY DEF Hand

\* A step that touches neither the queue nor a loop goes the way Drops.
LEMMA DropsWhenQueueAndHandsStay ==
    ASSUME TypeOK, UNCHANGED <<queue, loop, matched>>,
           \A j \in Join : caller'[j] = "new" => caller[j] = "new"
    PROVE  Drops
    BY DEF Drops, Entries, EntriesOf, NoRepeat, Hand

\* A step of loop i that leaves its hands as they are, or lets go of them.
LEMMA DropsWhenOneHandDrops ==
    ASSUME TypeOK, UNCHANGED <<matched, caller>>,
           queue' \in Seq(Join), Entries' \subseteq Entries,
           NoRepeat(queue) => NoRepeat(queue)',
           NEW i \in Instance,
           \A k \in Instance \ {i} : loop'[k] = loop[k],
           Hand(i)' # {} => /\ Hand(i)' = Hand(i)
                            /\ loop'[i].id1 = loop[i].id1
                            /\ loop'[i].id2 = loop[i].id2
    PROVE  Drops
    BY SameHand DEF Drops

\* RPUSH goes the way Pushes, LREM and the commands on the hash the way Drops.
LEMMA AddOrRemoveIsOneWay ==
    ASSUME TypeOK, NEW j \in Join, AddOrRemove(j)
    PROVE  OneWay
<1>1. \A from, to : CallerGoes(j, from, to) /\ to # "new" =>
            \A k \in Join : caller'[k] = "new" <=> caller[k] = "new" /\ k # j
    BY DEF CallerGoes, TypeOK
<1>2. \A k \in Join : caller'[k] = "new" <=> caller[k] = "new" /\ k # j
    BY <1>1 DEF AddOrRemove, RPush, RPushFails, HSet, HSetFails, LRemove,
                LRemoveFails, HDel, HDelFails
<1>3. UNCHANGED <<loop, matched>>
    BY DEF AddOrRemove, RPush, RPushFails, HSet, HSetFails, LRemove,
           LRemoveFails, HDel, HDelFails
<1>4. CASE queue' = queue
    BY <1>2, <1>3, <1>4, DropsWhenQueueAndHandsStay DEF OneWay
<1>5. CASE queue' = Append(queue, j) /\ caller[j] = "new"
    BY <1>2, <1>3, <1>5 DEF OneWay, Pushes
<1>6. CASE queue' = LRem(queue, UserOf[j])
    <2>1. /\ EntriesOf(LRem(queue, UserOf[j])) \subseteq EntriesOf(queue)
          /\ NoRepeat(queue) => NoRepeat(LRem(queue, UserOf[j]))
        BY LRemEntries DEF TypeOK
    <2>2. Entries' \subseteq Entries /\ (NoRepeat(queue) => NoRepeat(queue)')
        BY <1>6, <2>1 DEF Entries
    <2> QED
        BY <1>2, <1>3, <2>2 DEF OneWay, Drops, Hand
<1> QED
    BY <1>4, <1>5, <1>6
    DEF AddOrRemove, RPush, RPushFails, HSet, HSetFails, LRemove,
        LRemoveFails, HDel, HDelFails, CallerGoes

\* The block-set and session calls leave every join where it is.
LEMMA BlockCallIsOneWay ==
    ASSUME TypeOK, (\E u \in User : BlockCall(u)) \/ CallFails \/ UNCHANGED vars
    PROVE  OneWay
<1>1. UNCHANGED <<queue, loop, matched, caller>>
    BY DEF BlockCall, HydrateBlocks, ClearBlocks, DeleteSession, CallFails,
           AddBlockExists, AddBlockSAdd, AddBlockSAddFails, vars
<1> QED
    BY <1>1, DropsWhenQueueAndHandsStay DEF OneWay

\* A step of loop i that leaves the queue alone and moves from one program
\* counter to another, neither letting go of a pair nor taking one.
LEMMA MovesAreDrops ==
    ASSUME TypeOK, NEW i \in Instance, NEW from, NEW to,
           LoopGoes(i, from, to), UNCHANGED <<queue, matched, caller>>,
           to \in {"check1", "check2", "requeue"}
              => from \in {"check1", "check2", "requeue"}
    PROVE  Drops
<1>1. \A k \in Instance \ {i} : loop'[k] = loop[k]
    BY DEF LoopGoes, TypeOK, LoopTypeOK
<1>2. loop'[i] = [loop[i] EXCEPT !.pc = to] /\ loop[i].pc = from
    BY DEF LoopGoes, TypeOK, LoopTypeOK
<1>3. /\ loop'[i].pc = to
      /\ loop'[i].id1 = loop[i].id1
      /\ loop'[i].id2 = loop[i].id2
    BY <1>2 DEF TypeOK, LoopTypeOK
<1>4. Hand(i)' # {} => Hand(i)' = Hand(i)
    BY <1>2, <1>3 DEF Hand
<1>5. /\ queue' \in Seq(Join) /\ Entries' \subseteq Entries
      /\ NoRepeat(queue) => NoRepeat(queue)'
    BY DEF TypeOK, Entries
<1> QED
    BY <1>1, <1>3, <1>4, <1>5, DropsWhenOneHandDrops

\* Every step of a loop goes one of the ways: the pop Takes, the push back
\* Returns, the accepted check Matches, and all others Drop.
LEMMA LoopIsOneWay ==
    ASSUME TypeOK, NEW i \in Instance, LoopStep(i) \/ LoopFails(i) \/ Crash(i)
    PROVE  OneWay
<1>1. CASE Wake(i) \/ Check1(i) \/ Check2Rejects(i) \/ Observe(i)
              \/ SetSession1(i) \/ SetSession2(i) \/ Notify1(i)
    <2>1. \E from, to : /\ LoopGoes(i, from, to)
                        /\ to \in {"check1", "check2", "requeue"}
                             => from \in {"check1", "check2", "requeue"}
        BY <1>1 DEF Wake, Check1, Check2Rejects, Observe, SetSession1,
                    SetSession2, Notify1
    <2>2. UNCHANGED <<queue, matched, caller>>
        BY <1>1 DEF Wake, Check1, Check2Rejects, Observe, SetSession1,
                    SetSession2, Notify1
    <2> QED
        BY <2>1, <2>2, MovesAreDrops DEF OneWay
<1>2. ASSUME NEW new, loop' = [loop EXCEPT ![i] = new],
             new.pc \in {"idle", "pop"}
      PROVE  (\A k \in Instance \ {i} : loop'[k] = loop[k]) /\ Hand(i)' = {}
    BY <1>2 DEF TypeOK, LoopTypeOK, Hand
<1>3. Idle.pc = "idle"
    BY DEF Idle
<1>4. ASSUME NEW rej PROVE [Idle EXCEPT !.pc = "pop", !.rej = rej].pc = "pop"
    BY DEF Idle
<1>5. CASE PopPair(i)
    <2>1. loop'[i].pc = "check1" /\ loop'[i].id1 = queue[1]
             /\ loop'[i].id2 = queue[2]
        BY <1>5 DEF PopPair, TypeOK, LoopTypeOK
    <2>2. \A k \in Instance \ {i} : loop'[k] = loop[k]
        BY <1>5 DEF PopPair, TypeOK, LoopTypeOK
    <2>3. Hand(i) = {}
        BY <1>5 DEF PopPair, Hand
    <2>4. Takes(i)
        BY <1>5, <2>1, <2>2, <2>3 DEF Takes, PopPair, Hand
    <2> QED
        BY <2>4 DEF OneWay
<1>6. CASE PopNothing(i) \/ Notify2(i)
    <2>1. (\A k \in Instance \ {i} : loop'[k] = loop[k]) /\ Hand(i)' = {}
        BY <1>2, <1>3, <1>4, <1>6 DEF PopNothing, Notify2
    <2>2. UNCHANGED <<queue, matched, caller>>
        BY <1>6 DEF PopNothing, Notify2
    <2>3. /\ queue' \in Seq(Join) /\ Entries' \subseteq Entries
          /\ NoRepeat(queue) => NoRepeat(queue)'
        BY <2>2 DEF TypeOK, Entries
    <2> QED
        BY <2>1, <2>2, <2>3, DropsWhenOneHandDrops DEF OneWay
<1>7. CASE PopFails(i)
    <2>1. (\A k \in Instance \ {i} : loop'[k] = loop[k]) /\ Hand(i)' = {}
        BY <1>2, <1>3, <1>7 DEF PopFails
    <2>2. CASE queue' = queue
        <3>1. /\ queue' \in Seq(Join) /\ Entries' \subseteq Entries
              /\ NoRepeat(queue) => NoRepeat(queue)'
            BY <2>2 DEF TypeOK, Entries
        <3> QED
            BY <1>7, <2>1, <3>1, DropsWhenOneHandDrops DEF OneWay, PopFails
    <2>3. CASE TakesFirstTwo(i)
        <3>1. /\ queue' \in Seq(Join) /\ Entries' \subseteq Entries
              /\ NoRepeat(queue) => NoRepeat(queue)'
            BY <2>3, PopEntries DEF TypeOK, Entries, TakesFirstTwo
        <3> QED
            BY <1>7, <2>1, <3>1, DropsWhenOneHandDrops DEF OneWay, PopFails
    <2> QED
        BY <1>7, <2>2, <2>3 DEF PopFails
<1>8. CASE Requeue(i)
    <2>1. (\A k \in Instance \ {i} : loop'[k] = loop[k]) /\ Hand(i)' = {}
        <3>1. CASE loop[i].rej + 1 >= MaxRejections
            BY <1>2, <1>3, <1>8, <3>1 DEF Requeue
        <3>2. CASE ~(loop[i].rej + 1 >= MaxRejections)
            BY <1>2, <1>4, <1>8, <3>2 DEF Requeue
        <3> QED
            BY <3>1, <3>2
    <2>2. Hand(i) = {loop[i].id1, loop[i].id2}
        BY <1>8 DEF Requeue, Hand
    <2> QED
        BY <1>8, <2>1, <2>2 DEF OneWay, Returns, Requeue
<1>9. CASE RequeueFails(i)
    <2>1. (\A k \in Instance \ {i} : loop'[k] = loop[k]) /\ Hand(i)' = {}
        BY <1>2, <1>3, <1>9 DEF RequeueFails
    <2>2. Hand(i) = {loop[i].id1, loop[i].id2}
        BY <1>9 DEF RequeueFails, Hand
    <2>3. CASE PutsBack(i)
        BY <1>9, <2>1, <2>2, <2>3 DEF OneWay, Returns, RequeueFails
    <2>4. CASE queue' = queue
        <3>1. /\ queue' \in Seq(Join) /\ Entries' \subseteq Entries
              /\ NoRepeat(queue) => NoRepeat(queue)'
            BY <2>4 DEF TypeOK, Entries
        <3> QED
            BY <1>9, <2>1, <3>1, DropsWhenOneHandDrops DEF OneWay, RequeueFails
    <2> QED
        BY <1>9, <2>3, <2>4 DEF RequeueFails
<1>10. CASE Check2Accepts(i)
    <2>1. /\ loop[i].pc = "check2"
          /\ loop[i].id1 \in Join /\ loop[i].id2 \in Join
          /\ \A k \in Instance \ {i} : loop'[k] = loop[k]
          /\ loop'[i].pc = "observe"
        BY <1>10 DEF Check2Accepts, LoopGoes, TypeOK, LoopTypeOK
    <2> QED
        BY <1>10, <2>1 DEF OneWay, Matches, Check2Accepts, Hand
<1>11. CASE Crash(i)
    <2>1. (\A k \in Instance \ {i} : loop'[k] = loop[k]) /\ Hand(i)' = {}
        BY <1>2, <1>3, <1>11 DEF Crash
    <2>2. \A j \in Join : caller'[j] = "new" => caller[j] = "new"
        BY <1>11 DEF Crash
    <2>3. /\ matched' = matched /\ Entries' \subseteq Entries
          /\ NoRepeat(queue) => NoRepeat(queue)'
        BY <1>11 DEF Crash, Entries
    <2> QED
        BY <2>1, <2>2, <2>3, SameHand DEF OneWay, Drops
<1> QED
    BY <1>1, <1>5, <1>6, <1>7, <1>8, <1>9, <1>10, <1>11 DEF LoopStep, LoopFails

\* Every step goes one of the ways.
LEMMA NextIsOneWay == TypeOK /\ [Next]_vars => OneWay
    BY AddOrRemoveIsOneWay, BlockCallIsOneWay, LoopIsOneWay DEF Next

-----------------------------------------------------------------------------
(***************************************************************************)
(* Each of the five ways keeps every join in one place.                    *)
(***************************************************************************)
Inv == TypeOK /\ OnePlace /\ NoJoinMatchedTwice

\* Nothing is queued, held or matched at the beginning.
LEMMA InitInv == Init => OnePlace /\ NoJoinMatchedTwice
    BY DEF Init, OnePlace, NoJoinMatchedTwice, Entries, EntriesOf, NoRepeat,
           InHand, Hand, Idle, Matched

\* The new pair of Matches(i) is disjoint from the older ones.
LEMMA MatchesInv ==
    ASSUME Inv, NEW i \in Instance, Matches(i)
    PROVE  OnePlace' /\ NoJoinMatchedTwice'
<1> DEFINE new == <<loop[i].id1, loop[i].id2>>
<1>1. /\ loop[i].id1 # loop[i].id2
      /\ Hand(i) = Partners(new) /\ Partners(new) \subseteq InHand
      /\ Matched' = Matched \cup Partners(new)
    <2>1. Hand(i) = Partners(new)
        BY DEF Matches, Partners
    <2>2. loop[i].id1 # loop[i].id2
        BY DEF Inv, OnePlace, Matches
    <2>3. matched' = matched \cup {new}
        BY DEF Matches
    <2>4. Matched' = Matched \cup Partners(new)
        BY <2>3 DEF Matched
    <2> QED
        BY <2>1, <2>2, <2>4 DEF InHand
<1>2. \A k \in Instance \ {i} : Hand(k)' = Hand(k)
    BY SameHand DEF Matches
<1>3. \A j \in InHand' : j \in InHand /\ j \notin Partners(new)
    BY <1>1, <1>2 DEF InHand, Matches, Inv, OnePlace
<1>4. Entries' = Entries /\ (NoRepeat(queue) => NoRepeat(queue)')
    BY DEF Matches, Entries
<1>5. \A p \in matched : Partners(p) \cap Partners(new) = {}
    BY <1>1 DEF Inv, OnePlace, Matched
<1>6. NoJoinMatchedTwice'
    BY <1>1, <1>5 DEF Inv, NoJoinMatchedTwice, Matches, Partners
<1>7. OnePlace'
    BY <1>1, <1>2, <1>3, <1>4 DEF Inv, OnePlace, Matches
<1> QED
    BY <1>6, <1>7

\* Joins that disappear leave the others where they are.
LEMMA DropsInv ==
    ASSUME Inv, Drops
    PROVE  OnePlace' /\ NoJoinMatchedTwice'
<1>1. InHand' \subseteq InHand /\ Matched' = Matched
    BY DEF Drops, InHand, Matched
<1>2. NoJoinMatchedTwice'
    BY DEF Inv, Drops, NoJoinMatchedTwice
<1>3. \A j \in Entries \cup InHand \cup Matched : j \in Join
    BY DEF Inv, TypeOK, Entries, EntriesOf, InHand, Hand, LoopTypeOK, Matched,
           Partners
<1>4. OnePlace'
    BY <1>1, <1>3 DEF Inv, OnePlace, Drops
<1> QED
    BY <1>2, <1>4

\* The join of an RPUSH was in no place before, for it was new.
LEMMA PushesInv ==
    ASSUME Inv, NEW j \in Join, Pushes(j)
    PROVE  OnePlace' /\ NoJoinMatchedTwice'
<1>1. j \notin Entries \cup InHand \cup Matched
    BY DEF Inv, OnePlace, Pushes
<1>2. /\ Entries' = Entries \cup {j}
      /\ NoRepeat(queue)'
    BY <1>1, AppendEntries DEF Inv, TypeOK, OnePlace, Pushes, Entries
<1>3. \A k \in Instance : Hand(k)' = Hand(k)
    BY SameHand DEF Pushes
<1>4. InHand' = InHand /\ Matched' = Matched
    BY <1>3 DEF InHand, Matched, Pushes
<1>5. NoJoinMatchedTwice'
    BY DEF Inv, Pushes, NoJoinMatchedTwice
<1>6. \A k \in Entries \cup InHand \cup Matched : k \in Join
    BY DEF Inv, TypeOK, Entries, EntriesOf, InHand, Hand, LoopTypeOK, Matched,
           Partners
<1>7. OnePlace'
    BY <1>1, <1>2, <1>3, <1>4, <1>6 DEF Inv, OnePlace, Pushes
<1> QED
    BY <1>5, <1>7

\* A pop moves two joins from the queue to hands that were empty.
LEMMA TakesInv ==
    ASSUME Inv, NEW i \in Instance, Takes(i)
    PROVE  /\ OnePlace' /\ NoJoinMatchedTwice'
           /\ Entries' \cup InHand' = Entries \cup InHand
<1> DEFINE two == {queue[1], queue[2]}
<1>1. /\ queue[1] # queue[2]
      /\ Entries = Entries' \cup two
      /\ Entries' \cap two = {}
      /\ NoRepeat(queue)'
    BY PopEntries DEF Inv, TypeOK, OnePlace, Takes, TakesFirstTwo, Entries
<1>2. \A k \in Instance \ {i} : Hand(k)' = Hand(k) /\ loop'[k] = loop[k]
    BY SameHand DEF Takes
<1>3. InHand' = InHand \cup two
    BY <1>2 DEF InHand, Takes
<1>4. Matched' = Matched
    BY DEF Matched, Takes
<1>5. NoJoinMatchedTwice'
    BY DEF Inv, Takes, NoJoinMatchedTwice
<1>6. two \cap InHand = {}
    BY <1>1 DEF Inv, OnePlace
<1>7. \A k, l \in Instance : k # l => Hand(k)' \cap Hand(l)' = {}
    BY <1>2, <1>6 DEF Inv, OnePlace, Takes, InHand
<1>8. OnePlace'
    BY <1>1, <1>2, <1>3, <1>4, <1>6, <1>7 DEF Inv, OnePlace, Takes
<1> QED
    BY <1>1, <1>3, <1>5, <1>8

\* A push back moves two joins from the hands of a loop to the tail of the queue.
LEMMA ReturnsInv ==
    ASSUME Inv, NEW i \in Instance, Returns(i)
    PROVE  /\ OnePlace' /\ NoJoinMatchedTwice'
           /\ Entries' \cup InHand' = Entries \cup InHand
<1>1. /\ loop[i].id1 # loop[i].id2
      /\ loop[i].id1 \in Join /\ loop[i].id2 \in Join
      /\ Hand(i) \cap Entries = {}
    <2>1. loop[i].pc \notin {"idle", "pop"}
        BY DEF Returns, Hand
    <2>2. loop[i].id1 \in Join /\ loop[i].id2 \in Join
        BY <2>1 DEF Inv, TypeOK, LoopTypeOK
    <2>3. loop[i].id1 # loop[i].id2
        BY DEF Inv, OnePlace, Returns
    <2> QED
        BY <2>2, <2>3 DEF Inv, OnePlace, InHand
<1>2. /\ Entries' = Entries \cup Hand(i)
      /\ NoRepeat(queue)'
    BY <1>1, PushTwoEntries DEF Inv, TypeOK, OnePlace, Returns, PutsBack, Entries
<1>3. \A k \in Instance \ {i} : Hand(k)' = Hand(k) /\ loop'[k] = loop[k]
    BY SameHand DEF Returns
<1>4. InHand = InHand' \cup Hand(i) /\ InHand' \cap Hand(i) = {}
    BY <1>3 DEF InHand, Returns, Inv, OnePlace
<1>5. Matched' = Matched
    BY DEF Matched, Returns
<1>6. NoJoinMatchedTwice'
    BY DEF Inv, Returns, NoJoinMatchedTwice
<1>7. OnePlace'
    BY <1>1, <1>2, <1>3, <1>4, <1>5 DEF Inv, OnePlace, Returns
<1> QED
    BY <1>2, <1>4, <1>6, <1>7

\* The invariant is inductive.
LEMMA NextInv == Inv /\ [Next]_vars => Inv'
    BY NextTypeOK, NextIsOneWay, DropsInv, PushesInv, TakesInv, ReturnsInv,
       MatchesInv DEF Inv, OneWay

\* The inductive invariant holds in every reachable state of the queue and its
\* loops: types, one place for each join, and one match at most.
THEOREM InvHolds == Spec => []Inv
    BY InitTypeOK, InitInv, NextInv, PTL DEF Spec, Inv

\* Every join is at one position of the queue, in the hands of one loop or in
\* one pair at most, for any number of instances that pop and put back
\* concurrently and any failures of Redis.
THEOREM EveryJoinInOnePlace == Spec => []OnePlace
    BY InvHolds, PTL DEF Inv

\* No join is ever matched twice, or with itself, for any number of users,
\* instances and failures (popPairScript, processMatches).
THEOREM MatchedAtMostOnce == Spec => []NoJoinMatchedTwice
    BY InvHolds, PTL DEF Inv

-----------------------------------------------------------------------------
(***************************************************************************)
(* MatchMaker implements Pairing: each of the five ways is a step of the   *)
(* abstract specification or changes nothing in it.                        *)
(***************************************************************************)
Fresh == {j \in Join : caller[j] = "new"}
Waiting == Entries \cup InHand

\* What waits are joins that have been enqueued.
LEMMA WaitingAreJoins ==
    ASSUME Inv
    PROVE  Waiting \subseteq Join /\ Waiting \cap Fresh = {}
<1>1. Entries \subseteq Join
    BY DEF Inv, TypeOK, Entries, EntriesOf
<1>2. InHand \subseteq Join
    BY DEF Inv, TypeOK, LoopTypeOK, InHand, Hand
<1> QED
    BY <1>1, <1>2 DEF Waiting, Fresh, Inv, OnePlace

\* The way Drops: the fresh and waiting joins that disappear have left.
LEMMA DropsIsLeave ==
    ASSUME Inv, Inv', Drops
    PROVE  LET gone == (Fresh \ Fresh') \cup (Waiting \ Waiting')
           IN  /\ gone \in SUBSET (Fresh \cup Waiting)
               /\ Pairs!Leave(gone)
<1> DEFINE gone == (Fresh \ Fresh') \cup (Waiting \ Waiting')
<1>1. Fresh' \subseteq Fresh
    BY DEF Drops, Fresh
<1>2. Waiting' \subseteq Waiting
    BY DEF Drops, Waiting, InHand
<1>3. Waiting \cap Fresh = {}
    BY WaitingAreJoins
<1>4. Fresh' = Fresh \ gone /\ Waiting' = Waiting \ gone
    BY <1>1, <1>2, <1>3
<1>5. gone \in SUBSET (Fresh \cup Waiting)
    OBVIOUS
<1>6. Pairs!Leave(gone)
    BY <1>4 DEF Pairs!Leave, Drops, Fresh, Waiting
<1> QED
    BY <1>5, <1>6

\* The way Pushes is the abstract Enter.
LEMMA PushesIsEnter ==
    ASSUME Inv, NEW j \in Join, Pushes(j)
    PROVE  Pairs!Enter(j)
<1>1. Entries' = Entries \cup {j}
    BY AppendEntries DEF Inv, TypeOK, Pushes, Entries
<1>2. InHand' = InHand
    BY SameHand DEF InHand, Pushes
<1>3. Fresh' = Fresh \ {j} /\ j \in Fresh
    BY DEF Fresh, Pushes
<1> QED
    BY <1>1, <1>2, <1>3 DEF Pairs!Enter, Fresh, Pushes

\* The way Matches is the abstract Pair: both joins were waiting, and were
\* different.
LEMMA MatchesIsPair ==
    ASSUME Inv, NEW i \in Instance, Matches(i)
    PROVE  Pairs!Pair(loop[i].id1, loop[i].id2)
<1>1. /\ loop[i].id1 # loop[i].id2
      /\ Hand(i) \cap Entries = {} /\ Hand(i) \subseteq InHand
    BY DEF Inv, OnePlace, Matches, InHand
<1>2. \A k \in Instance \ {i} : Hand(k)' = Hand(k) /\ Hand(k) \cap Hand(i) = {}
    BY SameHand DEF Matches, Inv, OnePlace
<1>3. InHand' = InHand \ Hand(i)
    BY <1>2 DEF InHand, Matches
<1>4. Entries' = Entries /\ Fresh' = Fresh
    BY DEF Matches, Entries, Fresh
<1> QED
    BY <1>1, <1>3, <1>4 DEF Pairs!Pair, Matches, Fresh

\* Every step is a step of the abstract pairing or a stutter.
LEMMA NextIsPairing ==
    ASSUME Inv, [Next]_vars
    PROVE  [Pairs!Next]_(Pairs!vars)
<1>1. OneWay /\ Inv'
    BY NextIsOneWay, NextInv DEF Inv
<1>2. CASE Drops
    BY <1>1, <1>2, DropsIsLeave DEF Pairs!Next, Pairs!Leave, Fresh, Waiting
<1>3. ASSUME NEW j \in Join, Pushes(j)
      PROVE  Pairs!Next
    BY <1>3, PushesIsEnter DEF Pairs!Next
<1>4. ASSUME NEW i \in Instance, Takes(i) \/ Returns(i)
      PROVE  UNCHANGED Pairs!vars
    <2>1. Entries' \cup InHand' = Entries \cup InHand
        BY <1>4, TakesInv, ReturnsInv
    <2>2. UNCHANGED <<caller, matched>>
        BY <1>4 DEF Takes, Returns
    <2> QED
        BY <2>1, <2>2 DEF Pairs!vars
<1>5. ASSUME NEW i \in Instance, Matches(i)
      PROVE  Pairs!Next
    <2>1. loop[i].id1 \in Join /\ loop[i].id2 \in Join
        BY <1>5 DEF Matches
    <2> QED
        BY <1>5, <2>1, MatchesIsPair DEF Pairs!Next
<1> QED
    BY <1>1, <1>2, <1>3, <1>4, <1>5 DEF OneWay

\* The initial state is one of the abstract pairing.
LEMMA InitIsPairing == Init => Pairs!Init
    BY DEF Init, Pairs!Init, Entries, EntriesOf, InHand, Hand, Idle

\* The queue in Redis and the loops of all instances together implement the
\* pairing of Pairing.tla: what is popped, rejected, put back, lost or removed
\* never shows as anything but a join that enters, leaves or is paired.
THEOREM PairingImplemented == Spec => ImplementsPairing
    BY InvHolds, InitIsPairing, NextIsPairing, PTL
    DEF Spec, ImplementsPairing, Pairs!Spec
=============================================================================
