----------------------------- MODULE MatchMaker -----------------------------
(***************************************************************************)
(* The matching queue of backend/matchmaker.go: a Redis list of waiting    *)
(* users that every backend instance pushes to, and one matching loop per  *)
(* instance that pops pairs from it.                                       *)
(*                                                                         *)
(* Every Redis command is one atomic step; the Go code between two         *)
(* commands runs on local data only.  A command may fail: the error either *)
(* means that Redis never ran it or that its reply was lost.  The number   *)
(* of failures (and of crashes) in a behaviour is bounded by MaxFaults.    *)
(*                                                                         *)
(* The list holds user ids.  The model labels every entry with the Join    *)
(* (the call of Add) that pushed it, so that the properties can tell two   *)
(* entries of one user apart; every guard looks at UserOf[entry] only.     *)
(***************************************************************************)
EXTENDS Integers, Sequences, FiniteSets

CONSTANTS
    User,           \* the authenticated subjects
    Join,           \* the calls of Add: one per websocket connection
    UserOf,         \* the user that a join enqueues
    Instance,       \* the backend processes
    HomeOf,         \* the instance that serves a join
    BlockRows,      \* the <<blocker, blocked>> pairs that may ever be stored
    MaxRejections,  \* maxBlockedRejectionsPerCycle
    MaxFaults,      \* bound on failed commands and crashes
    None            \* "no join" / "no peer"

ASSUME ConstantsAssumption ==
    /\ UserOf \in [Join -> User]
    /\ HomeOf \in [Join -> Instance]
    /\ BlockRows \subseteq User \X User
    /\ MaxRejections \in Nat \ {0}
    /\ MaxFaults \in Nat
    /\ None \notin User \cup Join

VARIABLES
    queue,       \* matchmaker:queue, head first
    enqueuedAt,  \* the fields of the hash matchmaker:enqueued_at
    blockSet,    \* matchmaker:blocks:<user>; {} is the absent key
    session,     \* the users with a key matchmaker:session:<user>; the
                 \* peer stored there is never read
    adding,      \* AddBlock calls between their EXISTS and their SADD
    caller,      \* where a join's Add and Remove calls stand
    loop,        \* the local state of each instance's processMatches
    matched,     \* history: the pairs counted by matchesTotal
    faults       \* failures so far

vars == <<queue, enqueuedAt, blockSet, session, adding, caller, loop,
          matched, faults>>

CallerState == {"new", "stamp", "waiting", "unstamp", "gone"}

LoopPc == {"idle", "pop", "check1", "check2", "requeue", "observe",
           "session1", "session2", "notify1", "notify2"}

Idle == [pc |-> "idle", id1 |-> None, id2 |-> None, rej |-> 0]

\* A loop past its pop has two joins, and a cycle keeps its rejection bound.
LoopTypeOK ==
    /\ loop \in [Instance -> [pc : LoopPc, id1 : Join \cup {None},
                              id2 : Join \cup {None},
                              rej : 0 .. MaxRejections - 1]]
    /\ \A i \in Instance : loop[i].pc \notin {"idle", "pop"} =>
                              loop[i].id1 \in Join /\ loop[i].id2 \in Join

\* What the type of every variable is.
TypeOK ==
    /\ queue \in Seq(Join)
    /\ enqueuedAt \subseteq User
    /\ blockSet \in [User -> SUBSET User]
    /\ session \subseteq User
    /\ adding \subseteq BlockRows
    /\ caller \in [Join -> CallerState]
    /\ LoopTypeOK
    /\ matched \subseteq Join \X Join
    /\ faults \in 0 .. MaxFaults

Init ==
    /\ queue = <<>>
    /\ enqueuedAt = {}
    /\ blockSet = [u \in User |-> {}]
    /\ session = {}
    /\ adding = {}
    /\ caller = [j \in Join |-> "new"]
    /\ loop = [i \in Instance |-> Idle]
    /\ matched = {}
    /\ faults = 0

Fault == faults < MaxFaults /\ faults' = faults + 1

EntriesOf(q) == {q[n] : n \in DOMAIN q}

Entries == EntriesOf(queue)

\* LREM key 0 u: q without the entries of user u, the others in order.
Kept(q, u) == {n \in DOMAIN q : UserOf[q[n]] # u}

Rank(positions, n) == Cardinality({m \in positions : m <= n})

LRem(q, u) ==
    [k \in 1 .. Cardinality(Kept(q, u)) |->
        q[CHOOSE n \in Kept(q, u) : Rank(Kept(q, u), n) = k]]

-----------------------------------------------------------------------------
(***************************************************************************)
(* Add and Remove, one action per command.  The publish on the trigger     *)
(* channel has no step of its own: it only makes a loop run earlier than   *)
(* its ticker would, and Wake is enabled whenever a loop is idle.          *)
(***************************************************************************)
CallerGoes(j, from, to) ==
    /\ caller[j] \in from
    /\ caller' = [caller EXCEPT ![j] = to]

RPush(j) ==
    /\ CallerGoes(j, {"new"}, "stamp")
    /\ queue' = Append(queue, j)
    /\ UNCHANGED <<enqueuedAt, blockSet, session, adding, loop, matched,
                   faults>>

\* The push fails (or its reply is lost): Add returns without a time stamp.
RPushFails(j) ==
    /\ Fault
    /\ CallerGoes(j, {"new"}, "waiting")
    /\ queue' \in {queue, Append(queue, j)}
    /\ UNCHANGED <<enqueuedAt, blockSet, session, adding, loop, matched>>

HSet(j) ==
    /\ CallerGoes(j, {"stamp"}, "waiting")
    /\ enqueuedAt' = enqueuedAt \cup {UserOf[j]}
    /\ UNCHANGED <<queue, blockSet, session, adding, loop, matched, faults>>

HSetFails(j) ==
    /\ Fault
    /\ CallerGoes(j, {"stamp"}, "waiting")
    /\ UNCHANGED <<queue, enqueuedAt, blockSet, session, adding, loop,
                   matched>>

\* Remove is also called for a connection that never reached Add.
LRemove(j) ==
    /\ CallerGoes(j, {"new", "waiting"}, "unstamp")
    /\ queue' = LRem(queue, UserOf[j])
    /\ UNCHANGED <<enqueuedAt, blockSet, session, adding, loop, matched,
                   faults>>

\* Remove returns early: the time stamp stays.
LRemoveFails(j) ==
    /\ Fault
    /\ CallerGoes(j, {"new", "waiting"}, "gone")
    /\ queue' \in {queue, LRem(queue, UserOf[j])}
    /\ UNCHANGED <<enqueuedAt, blockSet, session, adding, loop, matched>>

HDel(j) ==
    /\ CallerGoes(j, {"unstamp"}, "gone")
    /\ enqueuedAt' = enqueuedAt \ {UserOf[j]}
    /\ UNCHANGED <<queue, blockSet, session, adding, loop, matched, faults>>

HDelFails(j) ==
    /\ Fault
    /\ CallerGoes(j, {"unstamp"}, "gone")
    /\ UNCHANGED <<queue, enqueuedAt, blockSet, session, adding, loop,
                   matched>>

-----------------------------------------------------------------------------
(***************************************************************************)
(* The block sets and the session map.  In this module their callers may   *)
(* call at any time; Backend says when handleConnections and the /block    *)
(* and /report handlers do.  Their failures are logged and ignored.        *)
(***************************************************************************)
\* MULTI; DEL; [SADD; EXPIRE]; EXEC.
HydrateBlocks(u, subs) ==
    /\ blockSet' = [blockSet EXCEPT ![u] = subs]
    /\ UNCHANGED <<queue, enqueuedAt, session, adding, caller, loop, matched,
                   faults>>

\* The DEL of ClearBlocks, and the key's expiry after blocksTTL.
ClearBlocks(u) == HydrateBlocks(u, {})

\* The EXISTS of AddBlock; it goes on only when the key exists.
AddBlockExists(blocker, blocked) ==
    /\ blockSet[blocker] # {}
    /\ <<blocker, blocked>> \notin adding
    /\ adding' = adding \cup {<<blocker, blocked>>}
    /\ UNCHANGED <<queue, enqueuedAt, blockSet, session, caller, loop,
                   matched, faults>>

AddBlockSAdd(blocker, blocked) ==
    /\ <<blocker, blocked>> \in adding
    /\ adding' = adding \ {<<blocker, blocked>>}
    /\ blockSet' = [blockSet EXCEPT ![blocker] = @ \cup {blocked}]
    /\ UNCHANGED <<queue, enqueuedAt, session, caller, loop, matched, faults>>

AddBlockSAddFails(blocker, blocked) ==
    /\ Fault
    /\ <<blocker, blocked>> \in adding
    /\ adding' = adding \ {<<blocker, blocked>>}
    /\ UNCHANGED <<queue, enqueuedAt, blockSet, session, caller, loop,
                   matched>>

\* A call of this section fails without a trace.
CallFails ==
    /\ Fault
    /\ UNCHANGED <<queue, enqueuedAt, blockSet, session, adding, caller, loop,
                   matched>>

DeleteSession(u) ==
    /\ session' = session \ {u}
    /\ UNCHANGED <<queue, enqueuedAt, blockSet, adding, caller, loop, matched,
                   faults>>

-----------------------------------------------------------------------------
(***************************************************************************)
(* The matching loop: Run, processMatches, tryMatch and pairBlocked.       *)
(***************************************************************************)
LoopGoes(i, from, to) ==
    /\ loop[i].pc = from
    /\ loop' = [loop EXCEPT ![i].pc = to]

\* A trigger message or the ticker starts a cycle.
Wake(i) ==
    /\ LoopGoes(i, "idle", "pop")
    /\ UNCHANGED <<queue, enqueuedAt, blockSet, session, adding, caller,
                   matched, faults>>

\* Wrong: only the first of the two popped entries leaves the list.
TakesFirstOnly(i) ==
    /\ Len(queue) >= 2
    /\ queue' = SubSeq(queue, 2, Len(queue))

\* Wrong: the list is read and not trimmed.
PeeksFirstTwo(i) ==
    /\ Len(queue) >= 2
    /\ UNCHANGED queue

TakesFirstTwo(i) ==
    /\ Len(queue) >= 2
    /\ queue' = SubSeq(queue, 3, Len(queue))

\* popPairScript found a pair.
PopPair(i) ==
    /\ loop[i].pc = "pop"
    /\ TakesFirstTwo(i)
    /\ loop' = [loop EXCEPT ![i] = [pc |-> "check1", id1 |-> queue[1],
                                    id2 |-> queue[2], rej |-> @.rej]]
    /\ UNCHANGED <<enqueuedAt, blockSet, session, adding, caller, matched,
                   faults>>

\* Wrong: the script pops before it looks at the length.
PopNothingLosesOne(i) ==
    /\ loop[i].pc = "pop"
    /\ Len(queue) < 2
    /\ loop' = [loop EXCEPT ![i] = Idle]
    /\ queue' = <<>>
    /\ UNCHANGED <<enqueuedAt, blockSet, session, adding, caller, matched,
                   faults>>

\* popPairScript returned {}: the cycle ends.
PopNothing(i) ==
    /\ loop[i].pc = "pop"
    /\ Len(queue) < 2
    /\ loop' = [loop EXCEPT ![i] = Idle]
    /\ UNCHANGED <<queue, enqueuedAt, blockSet, session, adding, caller,
                   matched, faults>>

\* tryMatch fails; when only the reply was lost, so is the popped pair.
PopFails(i) ==
    /\ Fault
    /\ loop[i].pc = "pop"
    /\ loop' = [loop EXCEPT ![i] = Idle]
    /\ queue' = queue \/ TakesFirstTwo(i)
    /\ UNCHANGED <<enqueuedAt, blockSet, session, adding, caller, matched>>

User1(i) == UserOf[loop[i].id1]
User2(i) == UserOf[loop[i].id2]

\* The first SISMEMBER of pairBlocked; an error counts as "not blocked".
Check1(i) ==
    /\ \/ /\ LoopGoes(i, "check1", "requeue")
          /\ User2(i) \in blockSet[User1(i)]
          /\ UNCHANGED faults
       \/ /\ LoopGoes(i, "check1", "check2")
          /\ \/ User2(i) \notin blockSet[User1(i)] /\ UNCHANGED faults
             \/ Fault
    /\ UNCHANGED <<queue, enqueuedAt, blockSet, session, adding, caller,
                   matched>>

\* The second SISMEMBER says "blocked".
Check2Rejects(i) ==
    /\ LoopGoes(i, "check2", "requeue")
    /\ User1(i) \in blockSet[User2(i)]
    /\ UNCHANGED <<queue, enqueuedAt, blockSet, session, adding, caller,
                   matched, faults>>

\* Wrong: only the first user's block set counts.
Check2Skipped(i) ==
    /\ LoopGoes(i, "check2", "observe")
    /\ matched' = matched \cup {<<loop[i].id1, loop[i].id2>>}
    /\ UNCHANGED <<queue, enqueuedAt, blockSet, session, adding, caller,
                   faults>>

\* The second SISMEMBER says "not blocked" or fails: the pair is a match.
Check2Accepts(i) ==
    /\ LoopGoes(i, "check2", "observe")
    /\ matched' = matched \cup {<<loop[i].id1, loop[i].id2>>}
    /\ \/ User1(i) \notin blockSet[User2(i)] /\ UNCHANGED faults
       \/ Fault
    /\ UNCHANGED <<queue, enqueuedAt, blockSet, session, adding, caller>>

\* Wrong: a rejected pair goes back to the head.
PutsBackFirst(i) == queue' = <<loop[i].id1, loop[i].id2>> \o queue

\* Wrong: the push names one of the two.
PutsBackOne(i) == queue' = Append(queue, loop[i].id1)

PutsBack(i) == queue' = queue \o <<loop[i].id1, loop[i].id2>>

\* Wrong: one rejection too many before the cycle ends.
RequeueOnceMore(i) ==
    /\ loop[i].pc = "requeue"
    /\ PutsBack(i)
    /\ loop' = [loop EXCEPT ![i] =
                   IF @.rej + 1 > MaxRejections
                   THEN Idle
                   ELSE [Idle EXCEPT !.pc = "pop", !.rej = loop[i].rej + 1]]
    /\ UNCHANGED <<enqueuedAt, blockSet, session, adding, caller, matched,
                   faults>>

\* A rejected pair goes to the tail; the cycle ends at the rejection bound.
Requeue(i) ==
    /\ loop[i].pc = "requeue"
    /\ PutsBack(i)
    /\ loop' = [loop EXCEPT ![i] =
                   IF @.rej + 1 >= MaxRejections
                   THEN Idle
                   ELSE [Idle EXCEPT !.pc = "pop", !.rej = loop[i].rej + 1]]
    /\ UNCHANGED <<enqueuedAt, blockSet, session, adding, caller, matched,
                   faults>>

\* Wrong: a push back that fails is tried again.
RequeueRetries(i) ==
    /\ Fault
    /\ loop[i].pc = "requeue"
    /\ queue' = queue \/ PutsBack(i)
    /\ UNCHANGED <<enqueuedAt, blockSet, session, adding, caller, loop,
                   matched>>

\* The push back fails: unless only the reply was lost, the pair is lost.
RequeueFails(i) ==
    /\ Fault
    /\ loop[i].pc = "requeue"
    /\ loop' = [loop EXCEPT ![i] = Idle]
    /\ queue' = queue \/ PutsBack(i)
    /\ UNCHANGED <<enqueuedAt, blockSet, session, adding, caller, matched>>

\* observeMatchLatency: the HMGET only feeds a metric; when it fails, the
\* HDEL is skipped.
Observe(i) ==
    /\ LoopGoes(i, "observe", "session1")
    /\ \/ /\ enqueuedAt' = enqueuedAt \ {User1(i), User2(i)}
          /\ UNCHANGED faults
       \/ Fault /\ UNCHANGED enqueuedAt
    /\ UNCHANGED <<queue, blockSet, session, adding, caller, matched>>

SetSession(u) ==
    \/ session' = session \cup {u} /\ UNCHANGED faults
    \/ Fault /\ UNCHANGED session

SetSession1(i) ==
    /\ LoopGoes(i, "session1", "session2")
    /\ SetSession(User1(i))
    /\ UNCHANGED <<queue, enqueuedAt, blockSet, adding, caller, matched>>

SetSession2(i) ==
    /\ LoopGoes(i, "session2", "notify1")
    /\ SetSession(User2(i))
    /\ UNCHANGED <<queue, enqueuedAt, blockSet, adding, caller, matched>>

\* Publish on matchmaker:notify:<user>; Notify says who hears it.
Publish == UNCHANGED faults \/ Fault

Notify1(i) ==
    /\ LoopGoes(i, "notify1", "notify2")
    /\ Publish
    /\ UNCHANGED <<queue, enqueuedAt, blockSet, session, adding, caller,
                   matched>>

Notify2(i) ==
    /\ loop[i].pc = "notify2"
    /\ loop' = [loop EXCEPT ![i] = [Idle EXCEPT !.pc = "pop",
                                                !.rej = loop[i].rej]]
    /\ Publish
    /\ UNCHANGED <<queue, enqueuedAt, blockSet, session, adding, caller,
                   matched>>

LoopStep(i) ==
    \/ Wake(i) \/ PopPair(i) \/ PopNothing(i) \/ Check1(i)
    \/ Check2Rejects(i) \/ Check2Accepts(i) \/ Requeue(i) \/ Observe(i)
    \/ SetSession1(i) \/ SetSession2(i) \/ Notify1(i) \/ Notify2(i)

LoopFails(i) == PopFails(i) \/ RequeueFails(i)

\* The process dies and is started again: what its loop held is gone, and
\* so are its connections, none of which runs its cleanup.
Crash(i) ==
    /\ Fault
    /\ loop' = [loop EXCEPT ![i] = Idle]
    /\ caller' = [j \in Join |->
                    IF HomeOf[j] = i /\ caller[j] # "new" THEN "gone"
                    ELSE caller[j]]
    /\ UNCHANGED <<queue, enqueuedAt, blockSet, session, adding, matched>>

-----------------------------------------------------------------------------
AddOrRemove(j) ==
    \/ RPush(j) \/ RPushFails(j) \/ HSet(j) \/ HSetFails(j)
    \/ LRemove(j) \/ LRemoveFails(j) \/ HDel(j) \/ HDelFails(j)

BlockedBy(u) == {v \in User : <<u, v>> \in BlockRows}

BlockCall(u) ==
    \/ \E subs \in SUBSET BlockedBy(u) : HydrateBlocks(u, subs)
    \/ ClearBlocks(u)
    \/ DeleteSession(u)
    \/ \E v \in BlockedBy(u) :
          AddBlockExists(u, v) \/ AddBlockSAdd(u, v) \/ AddBlockSAddFails(u, v)

Next ==
    \/ \E j \in Join : AddOrRemove(j)
    \/ \E u \in User : BlockCall(u)
    \/ CallFails
    \/ \E i \in Instance : LoopStep(i) \/ LoopFails(i) \/ Crash(i)

Spec == Init /\ [][Next]_vars

-----------------------------------------------------------------------------
(***************************************************************************)
(* Properties.                                                             *)
(***************************************************************************)
\* The joins a loop has popped and not yet matched or put back.
Hand(i) == IF loop[i].pc \in {"check1", "check2", "requeue"}
           THEN {loop[i].id1, loop[i].id2}
           ELSE {}

InHand == UNION {Hand(i) : i \in Instance}

Partners(p) == {p[1], p[2]}

Matched == UNION {Partners(p) : p \in matched}

\* However many instances pop, reject and put back concurrently, and whatever
\* fails, a join is matched at most once and never with itself (processMatches
\* counts and announces a pair only once per pop, and popPairScript hands an
\* entry to one instance only).
NoJoinMatchedTwice ==
    /\ \A p \in matched : p[1] # p[2]
    /\ \A p, q \in matched : p # q => Partners(p) \cap Partners(q) = {}

NoRepeat(q) == \A m, n \in DOMAIN q : q[m] = q[n] => m = n

\* A join is in one place at most: one position of the queue, the hands of one
\* loop, or one matched pair; and a join that is in any of them has pushed.
OnePlace ==
    /\ NoRepeat(queue)
    /\ \A i \in Instance : Hand(i) # {} => loop[i].id1 # loop[i].id2
    /\ \A i, k \in Instance : i # k => Hand(i) \cap Hand(k) = {}
    /\ Entries \cap InHand = {}
    /\ Matched \cap (Entries \cup InHand) = {}
    /\ \A j \in Entries \cup InHand \cup Matched : caller[j] # "new"

\* The joins that have pushed, of users none of whom has called Remove, and that
\* are in no place.
Lost ==
    {j \in Join \ (Entries \cup InHand \cup Matched) :
        /\ caller[j] # "new"
        /\ \A k \in Join : UserOf[k] = UserOf[j] =>
                              caller[k] \in {"new", "stamp", "waiting"}}

\* While nothing fails everyone who is added waits or is matched, whatever
\* several loops pop and put back at once; and a failed command or a dead
\* process loses the users of one pair at most, those whom popPairScript has
\* just taken out of the list (tryMatch, processMatches, Add).
OnePairPerFault == Cardinality(Lost) <= 2 * faults

\* What processMatches promises, without the queue and the loops: see Pairing.
Pairs == INSTANCE Pairing WITH
            fresh   <- {j \in Join : caller[j] = "new"},
            waiting <- Entries \cup InHand,
            pairs   <- matched

\* The queue and the loops implement the abstract pairing of Pairing.tla.
ImplementsPairing == Pairs!Spec
=============================================================================
