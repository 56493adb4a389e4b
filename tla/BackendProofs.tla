---------------------------- MODULE BackendProofs ----------------------------
(***************************************************************************)
(* Proofs about Backend for any number of users, connections, instances,   *)
(* block calls and faults: it uses the matchmaker only as MatchMaker says, *)
(* so that what MatchMakerProofs proves carries over, and the safety       *)
(* properties of connections, registries, stamps, pools and blocks.        *)
(***************************************************************************)
EXTENDS Backend, TLAPS

-----------------------------------------------------------------------------
(***************************************************************************)
(* The inductive invariant.                                                *)
(***************************************************************************)
\* What a connection has loaded are blocks that were stored.
LoadedInv ==
    \A c \in Join : \A v \in conn[c].loaded : <<UserOf[c], v>> \in BlockRows

\* How far a connection has come with Add when it is admitted, adds or reads.
CallerInv ==
    \A c \in Join :
        /\ conn[c].pc \in {"new", "hydrate", "upgrade", "init", "failed"} =>
              caller[c] = "new"
        /\ conn[c].pc = "add" => caller[c] \in {"new", "stamp"}
        /\ conn[c].pc = "reading" => caller[c] = "waiting"

\* Without overlap a user has one live connection at most.
OneLive ==
    ~env.overlap => \A c, d \in Join :
        UserOf[c] = UserOf[d] /\ ~Gone(c) /\ ~Gone(d) => c = d

\* The registry has its entry from the registration to the cleanup, unless its
\* user has registered another one beside it.
Registered ==
    \A c \in Join : conn[c].pc \in {"init", "add", "reading", "unregister"} =>
        Target(HomeOf[c], UserOf[c]) = c \/ Displaced(c)

\* The connections that a block call found live are those of its two users,
\* past their hydration.
LiveInv ==
    \A p \in BlockCalls : \A c \in call[p].live :
        /\ UserOf[c] \in {p[1], p[2]}
        /\ conn[c].pc \notin {"new", "hydrate", "upgrade"}

\* A stamp has a connection of its user that will still remove it.
StampInv ==
    faults = 0 => \A u \in enqueuedAt : \E c \in Join :
        UserOf[c] = u /\ conn[c].pc \in {"reading", "unregister", "remove"}

\* What a connection has loaded stays in its user's set until its cleanup.
SetInv ==
    Undisturbed => \A c \in Join :
        conn[c].pc \in {"upgrade", "init", "add", "reading", "unregister",
                        "remove", "delsession", "clear"} =>
            conn[c].loaded \subseteq blockSet[UserOf[c]]

\* A connection that has pushed is somewhere in the matchmaker.
Pool == MM!Entries \cup MM!InHand \cup MM!Matched

PoolInv ==
    Undisturbed => \A c \in Join :
        (conn[c].pc = "add" /\ caller[c] = "stamp") \/ conn[c].pc = "reading" =>
            c \in Pool

\* A loop has checked the first set, or both, against what was loaded.
Passed(c, d) ==
    conn[c].pc \in {"add", "reading"} => UserOf[d] \notin conn[c].loaded

CheckInv ==
    Undisturbed => \A i \in Instance :
        /\ loop[i].pc \in {"check2", "observe"} =>
              Passed(loop[i].id1, loop[i].id2)
        /\ loop[i].pc = "observe" => Passed(loop[i].id2, loop[i].id1)

\* One AddBlock that is over has reached the set of the blocker's connections.
Reached(p, blocker, blocked) ==
    \A c \in call[p].live :
        UserOf[c] = blocker /\ HoldsSet(c) => blocked \in blockSet[blocker]

ReachInv ==
    Undisturbed => \A p \in BlockCalls :
        /\ call[p].stage \in {"second", "second-sadd", "done"} =>
              Reached(p, p[1], p[2])
        /\ call[p].stage = "done" => Reached(p, p[2], p[1])

\* A connection in the hands of a loop, or matched, has begun to push.
PushedInv ==
    \A i \in Instance : loop[i].pc = "observe" =>
        caller[loop[i].id1] # "new" /\ caller[loop[i].id2] # "new"

MatchMakerInv == MM!TypeOK /\ MM!OnePlace /\ MM!NoJoinMatchedTwice

AlwaysInv ==
    /\ TypeOK /\ MatchMakerInv
    /\ LoadedInv /\ CallerInv /\ OneLive /\ Registered /\ RegistryIsLive
    /\ LiveInv /\ PushedInv

FaultFreeInv ==
    /\ StampInv /\ SetInv /\ PoolInv /\ CheckInv /\ ReachInv

Inv == AlwaysInv /\ FaultFreeInv

-----------------------------------------------------------------------------
(***************************************************************************)
(* The matchmaker of this module is the one MatchMakerProofs is about.     *)
(***************************************************************************)
Proved == INSTANCE MatchMakerProofs

\* Its states and invariants.
LEMMA SameStates ==
    /\ MM!vars = Proved!vars
    /\ MM!Init <=> Proved!Init
    /\ MM!TypeOK <=> Proved!TypeOK
    /\ MM!OnePlace <=> Proved!OnePlace
    /\ MM!NoJoinMatchedTwice <=> Proved!NoJoinMatchedTwice
    BY DEF MM!vars, Proved!vars, MM!Init, Proved!Init, MM!TypeOK, Proved!TypeOK,
        MM!LoopTypeOK, Proved!LoopTypeOK, MM!LoopPc, Proved!LoopPc,
        MM!CallerState, Proved!CallerState, MM!Idle, Proved!Idle, MM!Entries,
        Proved!Entries, MM!EntriesOf, Proved!EntriesOf, MM!Hand, Proved!Hand,
        MM!InHand, Proved!InHand, MM!Partners, Proved!Partners, MM!Matched,
        Proved!Matched, MM!NoJoinMatchedTwice, Proved!NoJoinMatchedTwice,
        MM!NoRepeat, Proved!NoRepeat, MM!OnePlace, Proved!OnePlace

\* Its steps.
LEMMA SameSteps == MM!Next <=> Proved!Next
    BY DEF MM!vars, Proved!vars, MM!CallerState, Proved!CallerState, MM!LoopPc,
        Proved!LoopPc, MM!Idle, Proved!Idle, MM!Fault, Proved!Fault,
        MM!EntriesOf, Proved!EntriesOf, MM!Entries, Proved!Entries, MM!Kept,
        Proved!Kept, MM!Rank, Proved!Rank, MM!LRem, Proved!LRem,
        MM!CallerGoes, Proved!CallerGoes, MM!RPush, Proved!RPush,
        MM!RPushFails, Proved!RPushFails, MM!HSet, Proved!HSet, MM!HSetFails,
        Proved!HSetFails, MM!LRemove, Proved!LRemove, MM!LRemoveFails,
        Proved!LRemoveFails, MM!HDel, Proved!HDel, MM!HDelFails,
        Proved!HDelFails, MM!HydrateBlocks, Proved!HydrateBlocks,
        MM!ClearBlocks, Proved!ClearBlocks, MM!AddBlockExists,
        Proved!AddBlockExists, MM!AddBlockSAdd, Proved!AddBlockSAdd,
        MM!AddBlockSAddFails, Proved!AddBlockSAddFails, MM!CallFails,
        Proved!CallFails, MM!DeleteSession, Proved!DeleteSession,
        MM!LoopGoes, Proved!LoopGoes, MM!Wake, Proved!Wake, MM!TakesFirstTwo,
        Proved!TakesFirstTwo, MM!PopPair, Proved!PopPair, MM!PopNothing,
        Proved!PopNothing, MM!PopFails, Proved!PopFails, MM!User1,
        Proved!User1, MM!User2, Proved!User2, MM!Check1, Proved!Check1,
        MM!Check2Rejects, Proved!Check2Rejects, MM!Check2Accepts,
        Proved!Check2Accepts, MM!PutsBack, Proved!PutsBack, MM!Requeue,
        Proved!Requeue, MM!RequeueFails, Proved!RequeueFails, MM!Observe,
        Proved!Observe, MM!SetSession, Proved!SetSession, MM!SetSession1,
        Proved!SetSession1, MM!SetSession2, Proved!SetSession2, MM!Publish,
        Proved!Publish, MM!Notify1, Proved!Notify1, MM!Notify2,
        Proved!Notify2, MM!LoopStep, Proved!LoopStep, MM!LoopFails,
        Proved!LoopFails, MM!Crash, Proved!Crash, MM!AddOrRemove,
        Proved!AddOrRemove, MM!BlockedBy, Proved!BlockedBy, MM!BlockCall,
        Proved!BlockCall, MM!Next, Proved!Next, MM!Cardinality,
        Proved!Cardinality

\* What is proved of the matchmaker under any caller.
LEMMA MatchMakerStep ==
    MatchMakerInv /\ [MM!Next]_(MM!vars) => MatchMakerInv'
<1>1. Proved!Inv /\ [Proved!Next]_(Proved!vars) => Proved!Inv'
    BY Proved!NextInv, BackendAssumption
<1>2. MatchMakerInv <=> Proved!Inv
    BY SameStates DEF MatchMakerInv, Proved!Inv
<1>3. MatchMakerInv' <=> Proved!Inv'
    BY <1>2, PTL
<1>4. [MM!Next]_(MM!vars) => [Proved!Next]_(Proved!vars)
    BY SameSteps DEF MM!vars, Proved!vars
<1> QED
    BY <1>1, <1>2, <1>3, <1>4

\* Its initial state.
LEMMA MatchMakerInit == MM!Init => MatchMakerInv
<1>1. Proved!Init => Proved!TypeOK /\ Proved!OnePlace
                     /\ Proved!NoJoinMatchedTwice
    BY Proved!InitTypeOK, Proved!InitInv, BackendAssumption
<1> QED
    BY <1>1, SameStates DEF MatchMakerInv

-----------------------------------------------------------------------------
(***************************************************************************)
(* Every step is one of the matchmaker or leaves it alone.                 *)
(***************************************************************************)
\* The users, instances and stored blocks of the constants.
LEMMA ConstantTypes ==
    /\ \A c \in Join : UserOf[c] \in User /\ HomeOf[c] \in Instance
                       /\ c # None
    /\ \A p \in BlockCalls : /\ p[1] \in User /\ p[2] \in User
                             /\ <<p[1], p[2]>> \in BlockRows
                             /\ <<p[2], p[1]>> \in BlockRows
                             /\ p = <<p[1], p[2]>>
    BY BackendAssumption

\* The block handlers call AddBlock for stored blocks only.
LEMMA AddBlockUsesMatchMaker ==
    ASSUME NEW p, NEW blocker \in User, NEW blocked \in User,
           <<blocker, blocked>> \in BlockRows,
           NEW exists, NEW sadd, NEW next,
           AddBlock(p, blocker, blocked, exists, sadd, next)
    PROVE  MM!Next \/ UNCHANGED mmVars
<1>1. blocked \in MM!BlockedBy(blocker)
    BY DEF MM!BlockedBy
<1>2. CASE MM!AddBlockExists(blocker, blocked)
           \/ MM!AddBlockSAdd(blocker, blocked)
           \/ MM!AddBlockSAddFails(blocker, blocked)
    BY <1>1, <1>2 DEF MM!Next, MM!BlockCall
<1>3. CASE MM!CallFails
    BY <1>3 DEF MM!Next
<1> QED
    BY <1>2, <1>3 DEF AddBlock

\* The way a connection uses the matchmaker.
LEMMA ConnectionUsesMatchMaker ==
    ASSUME TypeOK, LoadedInv, NEW c \in Join, Connection(c)
    PROVE  MM!Next \/ UNCHANGED mmVars
<1>0. UserOf[c] \in User
    BY ConstantTypes
<1>1. CASE \/ Load(c) \/ UpgradeFails(c) \/ Register(c) \/ SendInit(c)
           \/ ReadEnds(c) \/ Unregister(c)
    BY <1>1
    DEF Load, UpgradeFails, Register, SendInit, ReadEnds, Unregister
<1>2. CASE MM!CallFails
    BY <1>2 DEF MM!Next
<1>3. CASE Enqueue(c) \/ Dequeue(c)
    <2>1. MM!AddOrRemove(c)
        BY <1>3 DEF Enqueue, Dequeue, MM!AddOrRemove
    <2> QED
        BY <2>1 DEF MM!Next
<1>4. CASE MM!HydrateBlocks(UserOf[c], conn[c].loaded)
    <2>1. conn[c].loaded \in SUBSET MM!BlockedBy(UserOf[c])
        BY DEF TypeOK, LoadedInv, MM!BlockedBy
    <2> QED
        BY <1>0, <1>4, <2>1 DEF MM!Next, MM!BlockCall
<1>5. CASE MM!DeleteSession(UserOf[c]) \/ MM!ClearBlocks(UserOf[c])
    BY <1>0, <1>5 DEF MM!Next, MM!BlockCall
<1> QED
    BY <1>1, <1>2, <1>3, <1>4, <1>5
    DEF Connection, LoadFails, Hydrate, DropSession, DropBlocks

\* Every step of the backend.
LEMMA NextUsesMatchMaker ==
    ASSUME TypeOK, LoadedInv, [Next]_vars
    PROVE  [MM!Next]_(MM!vars)
<1>1. UNCHANGED mmVars => UNCHANGED MM!vars
    BY DEF mmVars, MM!vars
<1>2. CASE UNCHANGED vars
    BY <1>1, <1>2 DEF vars
<1>3. ASSUME NEW c \in Join, Connection(c)
      PROVE  MM!Next \/ UNCHANGED mmVars
    BY <1>3, ConnectionUsesMatchMaker
<1>4. ASSUME NEW p \in BlockCalls, InsertBlock(p) \/ AddBlocks(p)
      PROVE  MM!Next \/ UNCHANGED mmVars
    <2>1. CASE InsertBlock(p)
        BY <2>1 DEF InsertBlock
    <2>2. CASE AddBlocks(p)
        BY <2>2, AddBlockUsesMatchMaker, ConstantTypes DEF AddBlocks
    <2> QED
        BY <1>4, <2>1, <2>2
<1>5. ASSUME NEW i \in Instance, LoopTurn(i) \/ Crash(i)
      PROVE  MM!Next
    BY <1>5 DEF LoopTurn, Crash, MM!Next
<1> QED
    BY <1>1, <1>2, <1>3, <1>4, <1>5 DEF Next

-----------------------------------------------------------------------------
(***************************************************************************)
(* What each step does to the connections.                                 *)
(***************************************************************************)
\* Only c moves, from one program counter to another.
Moves(c, from, to) ==
    /\ conn[c].pc = from
    /\ conn'[c].pc = to
    /\ conn'[c].loaded = conn[c].loaded
    /\ \A d \in Join \ {c} : conn'[d] = conn[d]

\* The program counters, step by step.
LEMMA ConnGoesMoves ==
    ASSUME TypeOK, NEW c \in Join, NEW from, NEW to, ConnGoes(c, from, to)
    PROVE  /\ Moves(c, from, to)
           /\ to \in ConnPc =>
                 conn' \in [Join -> [pc : ConnPc, loaded : SUBSET User]]
    BY DEF TypeOK, ConnGoes, Moves

\* A connection is admitted: its blocks are loaded, or that fails.
Admitted(c) ==
    /\ conn[c].pc = "new"
    /\ MayConnect(c)
    /\ \/ /\ Load(c)
          /\ conn'[c].pc = "hydrate"
          /\ conn'[c].loaded = {v \in User : <<UserOf[c], v>> \in rows}
          /\ \A d \in Join \ {c} : conn'[d] = conn[d]
       \/ LoadFails(c) /\ Moves(c, "new", "upgrade")

\* The steps that a connection takes by itself after its admission.
Forward(c) ==
    \/ Hydrate(c) /\ Moves(c, "hydrate", "upgrade")
    \/ UpgradeFails(c) /\ Moves(c, "upgrade", "failed")
    \/ Register(c) /\ Moves(c, "upgrade", "init")
    \/ SendInit(c) /\ (Moves(c, "init", "add") \/ Moves(c, "init", "unregister"))
    \/ Enqueue(c) /\ Moves(c, "add", "reading")
    \/ ReadEnds(c) /\ Moves(c, "reading", "unregister")
    \/ Unregister(c) /\ Moves(c, "unregister", "remove")
    \/ Dequeue(c) /\ Moves(c, "remove", "delsession")
    \/ DropSession(c) /\ Moves(c, "delsession", "clear")
    \/ DropBlocks(c) /\ Moves(c, "clear", "done")

\* The first half of Add or of Remove.
Stays(c) ==
    /\ conn' = conn
    /\ \/ Enqueue(c) /\ conn[c].pc = "add" /\ MM!RPush(c)
       \/ Dequeue(c) /\ conn[c].pc = "remove" /\ MM!LRemove(c)

\* A connection does nothing else.
LEMMA ConnectionSteps ==
    ASSUME TypeOK, NEW c \in Join, Connection(c)
    PROVE  /\ Admitted(c) \/ Forward(c) \/ Stays(c)
           /\ conn' \in [Join -> [pc : ConnPc, loaded : SUBSET User]]
<1>1. CASE Load(c)
    <2>1. conn[c].pc = "new" /\ MayConnect(c)
        BY <1>1 DEF Load
    <2>2. /\ conn'[c].pc = "hydrate"
          /\ conn'[c].loaded = {v \in User : <<UserOf[c], v>> \in rows}
          /\ \A d \in Join \ {c} : conn'[d] = conn[d]
          /\ conn' \in [Join -> [pc : ConnPc, loaded : SUBSET User]]
        BY <1>1 DEF Load, TypeOK, ConnPc
    <2> QED
        BY <1>1, <2>1, <2>2 DEF Admitted
<1>2. CASE LoadFails(c)
    <2>1. ConnGoes(c, "new", "upgrade") /\ MayConnect(c)
        BY <1>2 DEF LoadFails
    <2>2. conn[c].pc = "new"
        BY <2>1 DEF ConnGoes
    <2>3. "upgrade" \in ConnPc
        BY DEF ConnPc
    <2> QED
        BY <1>2, <2>1, <2>2, <2>3, ConnGoesMoves DEF Admitted
<1>3. CASE Hydrate(c) \/ UpgradeFails(c) \/ Register(c) \/ SendInit(c)
           \/ ReadEnds(c) \/ Unregister(c) \/ DropSession(c) \/ DropBlocks(c)
    BY <1>3, ConnGoesMoves
    DEF Hydrate, UpgradeFails, Register, SendInit, ReadEnds, Unregister,
        DropSession, DropBlocks, Forward, ConnPc
<1>4. CASE Enqueue(c) \/ Dequeue(c)
    <2>1. CASE conn' = conn
        BY <1>4, <2>1, ConnGoesMoves
        DEF Enqueue, Dequeue, Stays, Forward, TypeOK, ConnPc, ConnGoes
    <2>2. CASE ConnGoes(c, "add", "reading") \/ ConnGoes(c, "remove", "delsession")
        BY <1>4, <2>2, ConnGoesMoves
        DEF Enqueue, Dequeue, Forward, ConnPc, ConnGoes
    <2> QED
        BY <1>4, <2>1, <2>2 DEF Enqueue, Dequeue
<1> QED
    BY <1>1, <1>2, <1>3, <1>4 DEF Connection

\* A connection leaves the block calls alone, and the registry, but for its
\* own entry.
LEMMA ConnectionFrame ==
    ASSUME TypeOK, NEW c \in Join, Connection(c)
    PROVE  /\ UNCHANGED <<callVars, doneAtPop>>
           /\ registry' \in [Instance -> [User -> Join \cup {None}]]
           /\ \A i \in Instance, u \in User :
                 registry'[i][u] =
                     IF i = HomeOf[c] /\ u = UserOf[c] /\ Register(c) THEN c
                     ELSE IF i = HomeOf[c] /\ u = UserOf[c] /\ Unregister(c)
                     THEN None
                     ELSE registry[i][u]
<1>1. UNCHANGED <<callVars, doneAtPop>>
    BY DEF Connection, Load, LoadFails, Hydrate, UpgradeFails, Register,
           SendInit, Enqueue, ReadEnds, Unregister, Dequeue, DropSession,
           DropBlocks
<1>2. registry \in [Instance -> [User -> Join \cup {None}]]
    BY DEF TypeOK
<1>3. HomeOf[c] \in Instance /\ UserOf[c] \in User
    BY ConstantTypes
<1>4. CASE Register(c)
    <2>1. conn[c].pc = "upgrade" /\ ~Unregister(c)
        BY <1>4 DEF Register, Unregister, ConnGoes
    <2>2. registry' = [registry EXCEPT ![HomeOf[c]][UserOf[c]] = c]
        BY <1>4 DEF Register
    <2> QED
        BY <1>1, <1>2, <1>3, <1>4, <2>1, <2>2
<1>5. CASE Unregister(c)
    <2>1. conn[c].pc = "unregister" /\ ~Register(c)
        BY <1>5 DEF Register, Unregister, ConnGoes
    <2>2. registry' = [registry EXCEPT ![HomeOf[c]][UserOf[c]] = None]
        BY <1>5 DEF Unregister
    <2> QED
        BY <1>1, <1>2, <1>3, <1>5, <2>1, <2>2
<1>6. CASE ~Register(c) /\ ~Unregister(c)
    <2>1. registry' = registry
        BY <1>6
        DEF Connection, Load, LoadFails, Hydrate, UpgradeFails, SendInit,
            Enqueue, ReadEnds, Dequeue, DropSession, DropBlocks
    <2> QED
        BY <1>1, <1>2, <1>6, <2>1
<1> QED
    BY <1>4, <1>5, <1>6

\* The block calls leave the connections alone.
LEMMA CallFrame ==
    ASSUME TypeOK, NEW p \in BlockCalls, InsertBlock(p) \/ AddBlocks(p)
    PROVE  /\ UNCHANGED <<connVars, doneAtPop>>
           /\ rows' \subseteq BlockRows
           /\ call' \in [BlockCalls -> [stage : Stage, live : SUBSET Join]]
           /\ \A q \in BlockCalls \ {p} : call'[q] = call[q]
           /\ AddBlocks(p) => call'[p].live = call[p].live
<1>1. CASE InsertBlock(p)
    <2>1. ~AddBlocks(p)
        BY <1>1
        DEF InsertBlock, AddBlocks, AddBlock, CallGoes
    <2> DEFINE live == {c \in Join : UserOf[c] \in {p[1], p[2]} /\ HoldsSet(c)}
    <2>2. /\ UNCHANGED <<connVars, doneAtPop>>
          /\ rows' = rows \cup {p, <<p[2], p[1]>>}
          /\ call' = [call EXCEPT ![p] = [stage |-> "first", live |-> live]]
        BY <1>1 DEF InsertBlock
    <2>3. rows' \subseteq BlockRows
        BY <2>2, ConstantTypes DEF TypeOK
    <2>4. live \in SUBSET Join
        OBVIOUS
    <2> HIDE DEF live
    <2> QED
        BY <2>1, <2>2, <2>3, <2>4 DEF TypeOK, Stage
<1>2. CASE AddBlocks(p)
    <2>1. \E from, to : to \in Stage /\ CallGoes(p, from, to)
        BY <1>2 DEF AddBlocks, AddBlock, Stage
    <2>2. /\ call' \in [BlockCalls -> [stage : Stage, live : SUBSET Join]]
          /\ \A q \in BlockCalls \ {p} : call'[q] = call[q]
          /\ call'[p].live = call[p].live
        BY <2>1 DEF CallGoes, TypeOK
    <2> QED
        BY <1>2, <2>2 DEF AddBlocks, TypeOK
<1> QED
    BY <1>1, <1>2

\* A crash ends the connections of its instance, which have been admitted.
LEMMA CrashFrame ==
    ASSUME TypeOK, NEW i \in Instance, Crash(i)
    PROVE  /\ UNCHANGED <<callVars, doneAtPop>>
           /\ conn' \in [Join -> [pc : ConnPc, loaded : SUBSET User]]
           /\ \A c \in Join :
                 /\ conn'[c].loaded = conn[c].loaded
                 /\ HomeOf[c] = i /\ conn[c].pc # "new" => conn'[c].pc = "done"
                 /\ HomeOf[c] # i \/ conn[c].pc = "new" => conn'[c] = conn[c]
           /\ registry' \in [Instance -> [User -> Join \cup {None}]]
           /\ \A u \in User : registry'[i][u] = None
           /\ \A k \in Instance \ {i} : registry'[k] = registry[k]
           /\ faults' = faults + 1
<1>1. UNCHANGED <<callVars, doneAtPop>>
    BY DEF Crash
<1>2. conn' = [c \in Join |-> IF HomeOf[c] = i /\ conn[c].pc # "new"
                              THEN [conn[c] EXCEPT !.pc = "done"] ELSE conn[c]]
    BY DEF Crash
<1>3. /\ conn' \in [Join -> [pc : ConnPc, loaded : SUBSET User]]
      /\ \A c \in Join :
            /\ conn'[c].loaded = conn[c].loaded
            /\ HomeOf[c] = i /\ conn[c].pc # "new" => conn'[c].pc = "done"
            /\ HomeOf[c] # i \/ conn[c].pc = "new" => conn'[c] = conn[c]
    BY <1>2 DEF TypeOK, ConnPc
<1>4. /\ registry' \in [Instance -> [User -> Join \cup {None}]]
      /\ \A u \in User : registry'[i][u] = None
      /\ \A k \in Instance \ {i} : registry'[k] = registry[k]
    BY DEF Crash, TypeOK
<1>5. faults' = faults + 1
    BY DEF Crash, MM!Crash, MM!Fault
<1> QED
    BY <1>1, <1>3, <1>4, <1>5

-----------------------------------------------------------------------------
(***************************************************************************)
(* Type correctness.                                                       *)
(***************************************************************************)
\* The initial state is typed.
LEMMA InitTypeOK == Init => TypeOK /\ MatchMakerInv
<1> SUFFICES ASSUME Init
             PROVE  TypeOK /\ MatchMakerInv
    OBVIOUS
<1>1. MatchMakerInv
    BY MatchMakerInit DEF Init
<1>2. faults <= env.faults
    <2>1. faults = 0 /\ env.faults \in Nat
        BY BackendAssumption DEF Init, MM!Init
    <2> QED
        BY <2>1
<1>3. conn \in [Join -> [pc : ConnPc, loaded : SUBSET User]]
    BY DEF Init, ConnPc
<1>4. /\ rows \subseteq BlockRows
      /\ call \in [BlockCalls -> [stage : Stage, live : SUBSET Join]]
      /\ doneAtPop \in [Instance -> SUBSET BlockCalls]
      /\ env \in Environments
      /\ registry \in [Instance -> [User -> Join \cup {None}]]
    BY BackendAssumption DEF Init, Stage
<1> QED
    BY <1>1, <1>2, <1>3, <1>4 DEF TypeOK, MatchMakerInv

\* Every step keeps the types, and what is proved of the matchmaker.
LEMMA NextTypeOK ==
    ASSUME TypeOK, MatchMakerInv, LoadedInv, [Next]_vars
    PROVE  TypeOK' /\ MatchMakerInv'
<1>1. MatchMakerInv'
    BY NextUsesMatchMaker, MatchMakerStep
<1>2. CASE UNCHANGED vars
    BY <1>1, <1>2
    DEF TypeOK, MatchMakerInv, vars, connVars, callVars, mmVars
<1>3. CASE Next
    <2>1. faults' <= env'.faults /\ env' \in Environments
        BY <1>3 DEF Next, TypeOK
    <2>2. ASSUME NEW c \in Join, Connection(c)
          PROVE  TypeOK'
        <3>1. conn' \in [Join -> [pc : ConnPc, loaded : SUBSET User]]
            BY <2>2, ConnectionSteps
        <3> QED
            BY <1>1, <2>1, <2>2, <3>1, ConnectionFrame
            DEF TypeOK, MatchMakerInv, callVars
    <2>3. ASSUME NEW p \in BlockCalls, InsertBlock(p) \/ AddBlocks(p)
          PROVE  TypeOK'
        BY <1>1, <2>1, <2>3, CallFrame DEF TypeOK, MatchMakerInv, connVars
    <2>4. ASSUME NEW i \in Instance, LoopTurn(i)
          PROVE  TypeOK'
        <3>1. doneAtPop' \in [Instance -> SUBSET BlockCalls]
            BY <2>4 DEF LoopTurn, TypeOK, Returned
        <3>2. UNCHANGED <<connVars, callVars>>
            BY <2>4 DEF LoopTurn
        <3> QED
            BY <1>1, <2>1, <3>1, <3>2
            DEF TypeOK, MatchMakerInv, connVars, callVars
    <2>5. ASSUME NEW i \in Instance, Crash(i)
          PROVE  TypeOK'
        BY <1>1, <2>1, <2>5, CrashFrame DEF TypeOK, MatchMakerInv, callVars
    <2> QED
        BY <1>1, <1>3, <2>2, <2>3, <2>4, <2>5 DEF Next
<1> QED
    BY <1>1, <1>2, <1>3

-----------------------------------------------------------------------------
(***************************************************************************)
(* The connections, the registries and the block calls, whatever fails.    *)
(***************************************************************************)
\* A crash ends c.
Dies(c) ==
    /\ conn[c].pc # "new"
    /\ conn'[c].pc = "done"
    /\ conn'[c].loaded = conn[c].loaded
    /\ Crash(HomeOf[c])

\* What a step of the system is for one connection.
LEMMA NextConn ==
    ASSUME TypeOK, [Next]_vars, NEW c \in Join
    PROVE  conn'[c] = conn[c] \/ Admitted(c) \/ Forward(c) \/ Dies(c)
<1>1. CASE UNCHANGED vars
    BY <1>1 DEF vars, connVars
<1>2. ASSUME NEW d \in Join, Connection(d)
      PROVE  conn'[c] = conn[c] \/ Admitted(c) \/ Forward(c)
    <2>1. CASE d = c
        BY <1>2, <2>1, ConnectionSteps DEF Stays
    <2>2. CASE d # c
        BY <1>2, <2>2, ConnectionSteps DEF Stays, Admitted, Forward, Moves
    <2> QED
        BY <2>1, <2>2
<1>3. ASSUME NEW i \in Instance, Crash(i)
      PROVE  conn'[c] = conn[c] \/ Dies(c)
    BY <1>3, CrashFrame DEF Dies
<1>4. ASSUME NEW i \in Instance, LoopTurn(i)
      PROVE  conn'[c] = conn[c]
    BY <1>4 DEF LoopTurn, connVars
<1>5. ASSUME NEW p \in BlockCalls, InsertBlock(p) \/ AddBlocks(p)
      PROVE  conn'[c] = conn[c]
    BY <1>5, CallFrame DEF connVars
<1> QED
    BY <1>1, <1>2, <1>3, <1>4, <1>5 DEF Next

\* What was loaded stays, and was stored when it was loaded.
LEMMA NextLoaded ==
    ASSUME TypeOK, LoadedInv, [Next]_vars
    PROVE  LoadedInv'
<1>1. ASSUME NEW c \in Join, NEW v \in conn'[c].loaded
      PROVE  <<UserOf[c], v>> \in BlockRows
    <2>1. \/ conn'[c].loaded = conn[c].loaded
          \/ conn'[c].loaded = {w \in User : <<UserOf[c], w>> \in rows}
        BY NextConn DEF Admitted, Forward, Dies, Moves
    <2> QED
        BY <1>1, <2>1 DEF LoadedInv, TypeOK
<1> QED
    BY <1>1 DEF LoadedInv

\* The environment does not change.
LEMMA SameEnv == [Next]_vars => env' = env
    BY DEF Next, vars

\* A connection is admitted when no other of its user is alive.
LEMMA NextOneLive ==
    ASSUME TypeOK, OneLive, [Next]_vars
    PROVE  OneLive'
<1>1. ASSUME ~env.overlap, NEW c \in Join, NEW d \in Join, c # d,
             UserOf[c] = UserOf[d], ~Gone(c)', ~Gone(d)', Gone(c)
      PROVE  FALSE
    <2>1. Admitted(c)
        BY <1>1, NextConn DEF Forward, Dies, Moves, Gone
    <2>2. d \in Others(c) /\ conn'[d] = conn[d]
        BY <1>1, <2>1 DEF Others, Admitted, Moves
    <2>3. Gone(d)
        BY <1>1, <2>1, <2>2 DEF Admitted, MayConnect
    <2> QED
        BY <1>1, <2>2, <2>3 DEF Gone
<1>2. ASSUME ~env.overlap, NEW c \in Join, NEW d \in Join,
             UserOf[c] = UserOf[d], ~Gone(c)', ~Gone(d)'
      PROVE  c = d
    BY <1>1, <1>2 DEF OneLive
<1> QED
    BY <1>2, SameEnv DEF OneLive

\* The connections that a block call found live only move on.
LEMMA NextLive ==
    ASSUME TypeOK, LiveInv, [Next]_vars
    PROVE  LiveInv'
<1>1. ASSUME NEW c \in Join, conn[c].pc \notin {"new", "hydrate", "upgrade"}
      PROVE  conn'[c].pc \notin {"new", "hydrate", "upgrade"}
    BY <1>1, NextConn DEF Admitted, Forward, Dies, Moves
<1>2. ASSUME NEW p \in BlockCalls, NEW c \in call'[p].live
      PROVE  /\ UserOf[c] \in {p[1], p[2]}
             /\ conn'[c].pc \notin {"new", "hydrate", "upgrade"}
    <2>1. CASE call'[p].live = call[p].live
        BY <1>1, <1>2, <2>1 DEF LiveInv, TypeOK
    <2>2. CASE InsertBlock(p)
        <3>1. conn' = conn
            BY <2>2 DEF InsertBlock, connVars
        <3>2. call'[p].live = {d \in Join : UserOf[d] \in {p[1], p[2]}
                                            /\ HoldsSet(d)}
            BY <2>2 DEF InsertBlock, TypeOK
        <3> QED
            BY <1>2, <3>1, <3>2 DEF HoldsSet
    <2>3. call'[p].live = call[p].live \/ InsertBlock(p)
        <3>1. ASSUME NEW q \in BlockCalls, InsertBlock(q) \/ AddBlocks(q)
              PROVE  call'[p].live = call[p].live \/ InsertBlock(p)
            BY <3>1, CallFrame
        <3>2. UNCHANGED call \/ \E q \in BlockCalls :
                                    InsertBlock(q) \/ AddBlocks(q)
            BY ConnectionFrame, CrashFrame
            DEF Next, vars, callVars, LoopTurn
        <3> QED
            BY <3>1, <3>2
    <2> QED
        BY <2>1, <2>2, <2>3
<1> QED
    BY <1>2 DEF LiveInv

\* A connection that has been registered does not become new again.
LEMMA DisplacedStays ==
    ASSUME TypeOK, [Next]_vars, NEW c \in Join, Displaced(c)
    PROVE  Displaced(c)'
<1>1. PICK d \in Others(c) : /\ HomeOf[d] = HomeOf[c]
                             /\ conn[d].pc \notin {"new", "hydrate", "upgrade"}
    BY DEF Displaced
<1>2. d \in Join /\ d \in Others(c)'
    BY <1>1 DEF Others
<1>3. conn'[d].pc \notin {"new", "hydrate", "upgrade"}
    BY <1>1, <1>2, NextConn DEF Admitted, Forward, Dies, Moves
<1>4. env'.overlap = env.overlap /\ env.overlap
    BY SameEnv DEF Displaced
<1> QED
    BY <1>1, <1>2, <1>3, <1>4 DEF Displaced

\* Whoever is in the registry is alive, and whoever is alive is in the registry
\* or displaced.
LEMMA NextRegistry ==
    ASSUME TypeOK, OneLive, RegistryIsLive, Registered, [Next]_vars
    PROVE  RegistryIsLive' /\ Registered'
<1> DEFINE On == {"init", "add", "reading", "unregister"}
<1>1. CASE UNCHANGED connVars
    <2>1. UNCHANGED <<conn, registry>>
        BY <1>1 DEF connVars
    <2> QED
        BY <2>1, SameEnv DEF RegistryIsLive, Registered, Target, Displaced
<1>2. ASSUME NEW d \in Join, Connection(d)
      PROVE  RegistryIsLive' /\ Registered'
    <2>1. ASSUME NEW c \in Join, c # d
          PROVE  conn'[c] = conn[c]
        BY <1>2, <2>1, ConnectionSteps DEF Stays, Admitted, Forward, Moves
    <2>2. conn[d].pc \in On /\ ~Unregister(d) => conn'[d].pc \in On
        BY <1>2, ConnectionSteps DEF Stays, Admitted, Forward, Moves
    <2>3. /\ Register(d) => conn'[d].pc \in On
          /\ Unregister(d) => conn'[d].pc \notin On
          /\ ~Register(d) /\ conn'[d].pc \in On => conn[d].pc \in On
        <3>1. Register(d) => ConnGoes(d, "upgrade", "init")
            BY DEF Register
        <3>2. Unregister(d) => ConnGoes(d, "unregister", "remove")
            BY DEF Unregister
        <3>3. ~Register(d) /\ conn'[d].pc \in On => conn[d].pc \in On
            BY <1>2, ConnectionSteps DEF Stays, Admitted, Forward, Moves
        <3> QED
            BY <3>1, <3>2, <3>3, ConnGoesMoves DEF Moves
    <2>4. ASSUME NEW i \in Instance, NEW u \in User, NEW c,
                 c = registry'[i][u], c # None
          PROVE  UserOf[c] = u /\ HomeOf[c] = i /\ conn'[c].pc \in On
        <3>1. c \in Join
            BY <1>2, <2>4, ConnectionFrame
        <3>2. CASE i = HomeOf[d] /\ u = UserOf[d] /\ Register(d)
            <4>1. c = d
                BY <1>2, <2>4, <3>2, ConnectionFrame
            <4> QED
                BY <2>3, <3>2, <4>1
        <3>3. CASE ~(i = HomeOf[d] /\ u = UserOf[d] /\ Register(d))
            <4>1. /\ c = registry[i][u]
                  /\ ~(i = HomeOf[d] /\ u = UserOf[d] /\ Unregister(d))
                BY <1>2, <2>4, <3>3, ConnectionFrame
            <4>2. UserOf[c] = u /\ HomeOf[c] = i /\ conn[c].pc \in On
                BY <2>4, <4>1 DEF RegistryIsLive, Target
            <4> QED
                BY <2>1, <2>2, <3>1, <4>1, <4>2
        <3> QED
            BY <3>2, <3>3
    <2>5. ASSUME NEW c \in Join, conn'[c].pc \in On, ~Displaced(c)'
          PROVE  registry'[HomeOf[c]][UserOf[c]] = c
        <3>0. /\ HomeOf[c] \in Instance /\ UserOf[c] \in User
              /\ ~Displaced(c)
            BY <2>5, ConstantTypes, DisplacedStays
        <3>1. CASE c = d
            <4>1. CASE Register(d)
                BY <1>2, <3>0, <3>1, <4>1, ConnectionFrame
            <4>2. CASE ~Register(d)
                <5>1. conn[d].pc \in On /\ ~Unregister(d)
                    BY <2>3, <2>5, <3>1, <4>2
                <5>2. registry[HomeOf[c]][UserOf[c]] = c
                    BY <2>5, <3>0, <3>1, <5>1 DEF Registered, Target
                <5> QED
                    BY <1>2, <3>0, <4>2, <5>1, <5>2, ConnectionFrame
            <4> QED
                BY <4>1, <4>2
        <3>2. CASE c # d
            <4>1. conn[c].pc \in On
                BY <2>1, <2>5, <3>2
            <4>2. registry[HomeOf[c]][UserOf[c]] = c
                BY <2>5, <3>0, <4>1 DEF Registered, Target
            <4>3. CASE UserOf[c] # UserOf[d] \/ HomeOf[c] # HomeOf[d]
                BY <1>2, <3>0, <4>2, <4>3, ConnectionFrame
            <4>4. CASE UserOf[c] = UserOf[d] /\ HomeOf[c] = HomeOf[d]
                <5>1. ~Register(d) /\ ~Unregister(d)
                    <6>1. CASE ~env.overlap
                        <7>1. Gone(d)
                            BY <3>2, <4>1, <4>4, <6>1 DEF OneLive, Gone
                        <7> QED
                            BY <7>1 DEF Gone, Register, Unregister, ConnGoes
                    <6>2. CASE env.overlap
                        <7>1. d \in Others(c)' /\ env'.overlap
                            BY <3>2, <4>4, <6>2, <1>2, SameEnv DEF Others, Next
                        <7>2. conn'[d].pc \in {"new", "hydrate", "upgrade"}
                            BY <2>5, <4>4, <7>1 DEF Displaced
                        <7>3. Register(d) => conn'[d].pc = "init"
                            BY ConnGoesMoves DEF Register, Moves
                        <7>4. Unregister(d) => conn'[d].pc = "remove"
                            BY ConnGoesMoves DEF Unregister, Moves
                        <7> QED
                            BY <7>2, <7>3, <7>4
                    <6> QED
                        BY <6>1, <6>2
                <5> QED
                    BY <1>2, <3>0, <4>2, <5>1, ConnectionFrame
            <4> QED
                BY <4>3, <4>4
        <3> QED
            BY <3>1, <3>2
    <2> QED
        BY <2>4, <2>5, SameEnv DEF RegistryIsLive, Registered, Target
<1>3. ASSUME NEW k \in Instance, Crash(k)
      PROVE  RegistryIsLive' /\ Registered'
    <2>1. ASSUME NEW i \in Instance, NEW u \in User, NEW c,
                 c = registry'[i][u], c # None
          PROVE  UserOf[c] = u /\ HomeOf[c] = i /\ conn'[c].pc \in On
        <3>1. i # k /\ c = registry[i][u] /\ c \in Join
            BY <1>3, <2>1, CrashFrame
        <3>2. UserOf[c] = u /\ HomeOf[c] = i /\ conn[c].pc \in On
            BY <2>1, <3>1 DEF RegistryIsLive, Target
        <3> QED
            BY <1>3, <3>1, <3>2, CrashFrame
    <2>2. ASSUME NEW c \in Join, conn'[c].pc \in On, ~Displaced(c)'
          PROVE  registry'[HomeOf[c]][UserOf[c]] = c
        <3>0. /\ HomeOf[c] \in Instance /\ UserOf[c] \in User
              /\ ~Displaced(c)
            BY <2>2, ConstantTypes, DisplacedStays
        <3>1. HomeOf[c] # k /\ conn'[c] = conn[c]
            BY <1>3, <2>2, CrashFrame
        <3> QED
            BY <1>3, <2>2, <3>0, <3>1, CrashFrame DEF Registered, Target
    <2> QED
        BY <2>1, <2>2, SameEnv DEF RegistryIsLive, Registered, Target
<1>4. \/ UNCHANGED connVars
      \/ \E d \in Join : Connection(d)
      \/ \E k \in Instance : Crash(k)
    BY CallFrame DEF Next, vars, LoopTurn
<1> QED
    BY <1>1, <1>2, <1>3, <1>4

\* Only a connection's own Add and Remove, and a crash, move it in them.
LEMMA ConnectionCaller ==
    ASSUME TypeOK, NEW d \in Join, Connection(d)
    PROVE  /\ caller' = caller \/ Enqueue(d) \/ Dequeue(d)
           /\ \A c \in Join \ {d} : caller'[c] = caller[c]
           /\ Enqueue(d) => \/ conn' = conn /\ caller'[d] = "stamp"
                            \/ caller'[d] = "waiting"
<1>0. caller \in [Join -> MM!CallerState]
    BY DEF TypeOK, MM!TypeOK
<1>1. CASE Enqueue(d)
    <2>1. \/ MM!CallerGoes(d, {"new"}, "stamp") /\ conn' = conn
          \/ MM!CallerGoes(d, {"new"}, "waiting")
          \/ MM!CallerGoes(d, {"stamp"}, "waiting")
        BY <1>1
        DEF Enqueue, MM!RPush, MM!RPushFails, MM!HSet, MM!HSetFails
    <2> QED
        BY <1>0, <1>1, <2>1 DEF MM!CallerGoes
<1>2. CASE Dequeue(d)
    <2>1. ~Enqueue(d)
        BY <1>2 DEF Enqueue, Dequeue, ConnGoes
    <2>2. \E from, to : MM!CallerGoes(d, from, to)
        BY <1>2
        DEF Dequeue, MM!LRemove, MM!LRemoveFails, MM!HDel, MM!HDelFails
    <2> QED
        BY <1>0, <1>2, <2>1, <2>2 DEF MM!CallerGoes
<1>3. CASE ~Enqueue(d) /\ ~Dequeue(d)
    <2>1. caller' = caller
        BY <1>3
        DEF Connection, Load, LoadFails, Hydrate, UpgradeFails, Register,
            SendInit, ReadEnds, Unregister, DropSession, DropBlocks, mmVars,
            MM!CallFails, MM!HydrateBlocks, MM!ClearBlocks, MM!DeleteSession
    <2> QED
        BY <1>3, <2>1
<1> QED
    BY <1>1, <1>2, <1>3

\* The block calls and the loops do not touch it.
LEMMA OtherCaller ==
    ASSUME TypeOK,
           \/ \E p \in BlockCalls : InsertBlock(p) \/ AddBlocks(p)
           \/ \E i \in Instance : LoopTurn(i)
    PROVE  caller' = caller
<1>1. ASSUME NEW p \in BlockCalls, InsertBlock(p) \/ AddBlocks(p)
      PROVE  caller' = caller
    BY <1>1
    DEF InsertBlock, AddBlocks, AddBlock, mmVars, MM!AddBlockExists,
        MM!AddBlockSAdd, MM!AddBlockSAddFails, MM!CallFails
<1>2. ASSUME NEW i \in Instance, LoopTurn(i)
      PROVE  caller' = caller
    BY <1>2
    DEF LoopTurn, MM!LoopStep, MM!LoopFails, MM!Wake, MM!PopPair,
        MM!PopNothing, MM!Check1, MM!Check2Rejects, MM!Check2Accepts,
        MM!Requeue, MM!Observe, MM!SetSession1, MM!SetSession2, MM!Notify1,
        MM!Notify2, MM!PopFails, MM!RequeueFails
<1> QED
    BY <1>1, <1>2

\* A crash ends the calls that have begun.
LEMMA CrashCaller ==
    ASSUME TypeOK, NEW i \in Instance, Crash(i)
    PROVE  \A c \in Join : \/ caller'[c] = caller[c]
                           \/ HomeOf[c] = i /\ caller[c] # "new"
                              /\ caller'[c] = "gone"
    BY DEF Crash, MM!Crash, TypeOK, MM!TypeOK

\* A connection calls Add once, and only when it has got so far.
LEMMA NextCaller ==
    ASSUME TypeOK, CallerInv, [Next]_vars
    PROVE  CallerInv'
<1> DEFINE P(c) ==
        /\ conn'[c].pc \in {"new", "hydrate", "upgrade", "init", "failed"} =>
              caller'[c] = "new"
        /\ conn'[c].pc = "add" => caller'[c] \in {"new", "stamp"}
        /\ conn'[c].pc = "reading" => caller'[c] = "waiting"
<1>1. CASE UNCHANGED <<conn, caller>>
    BY <1>1 DEF CallerInv
<1>2. ASSUME NEW d \in Join, Connection(d), NEW c \in Join
      PROVE  P(c)
    <2>1. CASE c # d
        <3>1. conn'[c] = conn[c]
            BY <1>2, <2>1, ConnectionSteps DEF Stays, Admitted, Forward, Moves
        <3> QED
            BY <1>2, <2>1, <3>1, ConnectionCaller DEF CallerInv
    <2>2. CASE c = d /\ Stays(d)
        BY <1>2, <2>2, ConnectionCaller
        DEF Stays, CallerInv, Enqueue, Dequeue, ConnGoes, MM!RPush,
            MM!CallerGoes, TypeOK, MM!TypeOK
    <2>3. CASE c = d /\ Admitted(d)
        <3>1. ~Enqueue(d) /\ ~Dequeue(d)
            BY <2>3 DEF Admitted, Enqueue, Dequeue, ConnGoes
        <3> QED
            BY <1>2, <2>3, <3>1, ConnectionCaller
            DEF Admitted, Moves, CallerInv
    <2>4. CASE c = d /\ Forward(d)
        <3>1. Enqueue(d) => conn[d].pc = "add"
            BY DEF Enqueue, ConnGoes
        <3>2. Dequeue(d) => conn[d].pc = "remove"
            BY DEF Dequeue, ConnGoes
        <3>3. CASE Enqueue(d) /\ Moves(d, "add", "reading")
            BY <1>2, <2>4, <3>3, ConnectionCaller DEF Moves
        <3>4. CASE ~Enqueue(d) /\ ~Dequeue(d)
            BY <1>2, <2>4, <3>4, ConnectionCaller
            DEF Forward, Moves, CallerInv
        <3>5. CASE Moves(d, "remove", "delsession")
            BY <2>4, <3>5 DEF Moves
        <3> QED
            BY <2>4, <3>1, <3>2, <3>3, <3>4, <3>5 DEF Forward, Moves
    <2> QED
        BY <1>2, <2>1, <2>2, <2>3, <2>4, ConnectionSteps
<1>3. ASSUME NEW i \in Instance, Crash(i), NEW c \in Join
      PROVE  P(c)
    <2>1. CASE HomeOf[c] = i /\ conn[c].pc # "new"
        BY <1>3, <2>1, CrashFrame
    <2>2. CASE ~(HomeOf[c] = i /\ conn[c].pc # "new")
        BY <1>3, <2>2, CrashFrame, CrashCaller DEF CallerInv
    <2> QED
        BY <2>1, <2>2
<1>4. \/ UNCHANGED <<conn, caller>>
      \/ \E d \in Join : Connection(d)
      \/ \E i \in Instance : Crash(i)
    BY OtherCaller, CallFrame DEF Next, vars, connVars, mmVars, LoopTurn
<1> QED
    BY <1>1, <1>2, <1>3, <1>4 DEF CallerInv

-----------------------------------------------------------------------------
(***************************************************************************)
(* The loops.                                                              *)
(***************************************************************************)
\* Only loop i moves, and it gets past a check only from that check, with the
\* pair it had popped, and unless the command fails only if the set read lets
\* the pair pass.
LEMMA LoopMoves ==
    ASSUME TypeOK, NEW i \in Instance, LoopTurn(i)
    PROVE  /\ UNCHANGED <<blockSet, caller, adding>>
           /\ enqueuedAt' \subseteq enqueuedAt
           /\ \A k \in Instance \ {i} : loop'[k] = loop[k]
           /\ loop'[i].pc \in {"check2", "observe"} =>
                 /\ loop'[i].id1 = loop[i].id1 /\ loop'[i].id2 = loop[i].id2
                 /\ loop[i].pc = IF loop'[i].pc = "check2" THEN "check1"
                                 ELSE "check2"
           /\ loop'[i].pc = "check2" /\ faults' = faults =>
                 UserOf[loop[i].id2] \notin blockSet[UserOf[loop[i].id1]]
           /\ loop'[i].pc = "observe" /\ faults' = faults =>
                 UserOf[loop[i].id1] \notin blockSet[UserOf[loop[i].id2]]
<1>0. /\ loop \in [Instance -> [pc : MM!LoopPc, id1 : Join \cup {None},
                                id2 : Join \cup {None},
                                rej : 0 .. MaxRejections - 1]]
      /\ faults \in Nat
    BY DEF TypeOK, MM!TypeOK, MM!LoopTypeOK
<1>1. ASSUME NEW from, NEW to, MM!LoopGoes(i, from, to)
      PROVE  /\ loop[i].pc = from /\ loop'[i].pc = to
             /\ loop'[i].id1 = loop[i].id1 /\ loop'[i].id2 = loop[i].id2
             /\ \A k \in Instance \ {i} : loop'[k] = loop[k]
    BY <1>0, <1>1 DEF MM!LoopGoes
<1>2. ASSUME NEW l, loop' = [loop EXCEPT ![i] = l]
      PROVE  /\ loop'[i] = l
             /\ \A k \in Instance \ {i} : loop'[k] = loop[k]
    BY <1>0, <1>2
<1>3. MM!Fault => faults' # faults
    BY <1>0 DEF MM!Fault
<1>4. MM!Idle.pc = "idle"
    BY DEF MM!Idle
<1>5. ASSUME NEW rej
      PROVE  [MM!Idle EXCEPT !.pc = "pop", !.rej = rej].pc = "pop"
    BY DEF MM!Idle
<1>6. CASE \/ MM!Wake(i) \/ MM!Check2Rejects(i) \/ MM!Observe(i)
           \/ MM!SetSession1(i) \/ MM!SetSession2(i) \/ MM!Notify1(i)
    BY <1>1, <1>6
    DEF MM!Wake, MM!Check2Rejects, MM!Observe, MM!SetSession1, MM!SetSession2,
        MM!Notify1
<1>7. CASE MM!Check1(i) \/ MM!Check2Accepts(i)
    BY <1>1, <1>3, <1>7
    DEF MM!Check1, MM!Check2Accepts, MM!User1, MM!User2
<1>8. CASE MM!PopPair(i)
    BY <1>2, <1>8 DEF MM!PopPair
<1>9. CASE \/ MM!PopNothing(i) \/ MM!PopFails(i) \/ MM!RequeueFails(i)
           \/ MM!Notify2(i)
    <2>1. CASE MM!PopNothing(i) \/ MM!PopFails(i)
        BY <1>2, <1>4, <1>5, <2>1 DEF MM!PopNothing, MM!PopFails
    <2>2. CASE MM!RequeueFails(i) \/ MM!Notify2(i)
        BY <1>2, <1>4, <1>5, <2>2 DEF MM!RequeueFails, MM!Notify2
    <2> QED
        BY <1>9, <2>1, <2>2
<1>10. CASE MM!Requeue(i)
    <2>1. /\ loop'[i].pc \in {"idle", "pop"}
          /\ \A k \in Instance \ {i} : loop'[k] = loop[k]
        <3>1. CASE loop[i].rej + 1 >= MaxRejections
            BY <1>2, <1>4, <1>10, <3>1 DEF MM!Requeue
        <3>2. CASE ~(loop[i].rej + 1 >= MaxRejections)
            BY <1>2, <1>5, <1>10, <3>2 DEF MM!Requeue
        <3> QED
            BY <3>1, <3>2
    <2> QED
        BY <1>10, <2>1 DEF MM!Requeue
<1> QED
    BY <1>6, <1>7, <1>8, <1>9, <1>10 DEF LoopTurn, MM!LoopStep, MM!LoopFails

\* The connections and the block calls leave the loops alone.
LEMMA OthersKeepLoops ==
    ASSUME \/ \E c \in Join : Connection(c)
           \/ \E p \in BlockCalls : InsertBlock(p) \/ AddBlocks(p)
    PROVE  UNCHANGED <<loop, matched>>
<1>1. ASSUME NEW c \in Join, Connection(c)
      PROVE  UNCHANGED <<loop, matched>>
    BY <1>1
    DEF Connection, Load, LoadFails, Hydrate, UpgradeFails, Register, SendInit,
        Enqueue, ReadEnds, Unregister, Dequeue, DropSession, DropBlocks,
        mmVars, MM!CallFails, MM!HydrateBlocks, MM!ClearBlocks,
        MM!DeleteSession, MM!RPush, MM!RPushFails, MM!HSet, MM!HSetFails,
        MM!LRemove, MM!LRemoveFails, MM!HDel, MM!HDelFails
<1>2. ASSUME NEW p \in BlockCalls, InsertBlock(p) \/ AddBlocks(p)
      PROVE  UNCHANGED <<loop, matched>>
    BY <1>2
    DEF InsertBlock, AddBlocks, AddBlock, mmVars, MM!AddBlockExists,
        MM!AddBlockSAdd, MM!AddBlockSAddFails, MM!CallFails
<1> QED
    BY <1>1, <1>2

\* Who has begun to push will never be new again.
LEMMA CallerStaysPushed ==
    ASSUME TypeOK, [Next]_vars, NEW c \in Join, caller[c] # "new"
    PROVE  caller'[c] # "new"
<1>1. ASSUME NEW d \in Join, Connection(d)
      PROVE  caller'[c] # "new"
    <2>1. Dequeue(d) => caller'[d] # "new"
        BY DEF Dequeue, MM!LRemove, MM!LRemoveFails, MM!HDel, MM!HDelFails,
               MM!CallerGoes, TypeOK, MM!TypeOK
    <2> QED
        BY <1>1, <2>1, ConnectionCaller
<1>2. ASSUME NEW i \in Instance, Crash(i)
      PROVE  caller'[c] # "new"
    BY <1>2, CrashCaller
<1> QED
    BY <1>1, <1>2, OtherCaller DEF Next, vars, mmVars

\* A pair that is announced has been pushed by both of its connections.
LEMMA NextPushed ==
    ASSUME TypeOK, MM!OnePlace, PushedInv, [Next]_vars
    PROVE  PushedInv'
<1> SUFFICES ASSUME NEW i \in Instance, loop'[i].pc = "observe"
             PROVE  /\ caller'[loop'[i].id1] # "new"
                    /\ caller'[loop'[i].id2] # "new"
    BY DEF PushedInv
<1>1. \/ loop'[i] = loop[i]
      \/ LoopTurn(i)
    <2>1. ASSUME NEW k \in Instance, Crash(k)
          PROVE  loop'[i] = loop[i]
        BY <2>1 DEF Crash, MM!Crash, MM!Idle, TypeOK, MM!TypeOK, MM!LoopTypeOK
    <2> QED
        BY <2>1, OthersKeepLoops, LoopMoves DEF Next, vars, mmVars
<1>2. CASE loop'[i] = loop[i]
    <2>1. loop[i].id1 \in Join /\ loop[i].id2 \in Join
        BY <1>2 DEF TypeOK, MM!TypeOK, MM!LoopTypeOK
    <2> QED
        BY <1>2, <2>1, CallerStaysPushed DEF PushedInv
<1>3. CASE LoopTurn(i)
    <2>1. /\ loop[i].pc = "check2" /\ caller' = caller
          /\ loop'[i].id1 = loop[i].id1 /\ loop'[i].id2 = loop[i].id2
        BY <1>3, LoopMoves
    <2>2. {loop[i].id1, loop[i].id2} \subseteq MM!InHand
        BY <2>1 DEF MM!InHand, MM!Hand
    <2> QED
        BY <2>1, <2>2 DEF MM!OnePlace
<1> QED
    BY <1>1, <1>2, <1>3

-----------------------------------------------------------------------------
(***************************************************************************)
(* What holds whatever fails.                                              *)
(***************************************************************************)
\* No connection has come, and nothing is queued, popped, matched or called.
LEMMA InitInv == Init => Inv
<1> SUFFICES ASSUME Init
             PROVE  Inv
    OBVIOUS
<1>1. TypeOK /\ MatchMakerInv
    BY InitTypeOK
<1>2. /\ \A c \in Join : conn[c].pc = "new" /\ conn[c].loaded = {}
                         /\ caller[c] = "new"
      /\ \A p \in BlockCalls : call[p].stage = "none" /\ call[p].live = {}
      /\ \A i \in Instance : loop[i].pc = "idle"
      /\ \A i \in Instance, u \in User : registry[i][u] = None
      /\ enqueuedAt = {}
    BY DEF Init, MM!Init, MM!Idle
<1>3. LoadedInv /\ CallerInv /\ LiveInv /\ PushedInv
    BY <1>2 DEF LoadedInv, CallerInv, LiveInv, PushedInv
<1>4. OneLive /\ Registered /\ RegistryIsLive
    BY <1>2 DEF OneLive, Gone, Registered, RegistryIsLive, Target
<1>5. StampInv /\ SetInv /\ PoolInv /\ CheckInv /\ ReachInv
    BY <1>2 DEF StampInv, SetInv, PoolInv, CheckInv, ReachInv
<1> QED
    BY <1>1, <1>3, <1>4, <1>5 DEF Inv, AlwaysInv, FaultFreeInv

\* Every step keeps it.
LEMMA NextAlways == AlwaysInv /\ [Next]_vars => AlwaysInv'
    BY NextTypeOK, NextLoaded, NextCaller, NextOneLive, NextRegistry, NextLive,
       NextPushed
    DEF AlwaysInv, MatchMakerInv

\* It holds in every reachable state.
LEMMA AlwaysHolds == Spec => []AlwaysInv
    BY InitInv, NextAlways, PTL DEF Spec, Inv

\* Every variable keeps its type, for any number of connections, instances
\* and block calls.
THEOREM TypeCorrect == Spec => []TypeOK
    BY AlwaysHolds, PTL DEF AlwaysInv

\* No message is relayed to a connection that is closed for good, however
\* connections of one user overlap and whichever instances crash: the entry
\* that a cleanup deletes or a registration replaces may be another
\* connection's, but none is left behind (clients, handleConnections).
THEOREM RegistryLive == Spec => []RegistryIsLive
    BY AlwaysHolds, PTL DEF AlwaysInv

\* What is proved of the matchmaker holds of the backend: every connection is
\* queued once, in the hands of one loop or matched once.
THEOREM BackendPairsOnce == Spec => [](MM!OnePlace /\ MM!NoJoinMatchedTwice)
    BY AlwaysHolds, PTL DEF AlwaysInv, MatchMakerInv

-----------------------------------------------------------------------------
(***************************************************************************)
(* What holds while nothing has failed: first the steps that are left.     *)
(***************************************************************************)
\* A failure counts, so there was none before and there is none now.
LEMMA NoFaultYet ==
    ASSUME TypeOK, LoadedInv, [Next]_vars, faults' = 0
    PROVE  faults = 0 /\ faults' = faults /\ ~MM!Fault
<1>0. faults \in Nat
    BY DEF TypeOK, MM!TypeOK
<1>1. faults' = faults \/ MM!Fault
    <2>1. CASE UNCHANGED MM!vars
        BY <2>1 DEF MM!vars
    <2>2. ASSUME NEW j \in Join, MM!AddOrRemove(j)
          PROVE  faults' = faults \/ MM!Fault
        BY <2>2
        DEF MM!AddOrRemove, MM!RPush, MM!RPushFails, MM!HSet, MM!HSetFails,
            MM!LRemove, MM!LRemoveFails, MM!HDel, MM!HDelFails
    <2>3. ASSUME NEW u \in User, MM!BlockCall(u)
          PROVE  faults' = faults \/ MM!Fault
        BY <2>3
        DEF MM!BlockCall, MM!HydrateBlocks, MM!ClearBlocks, MM!DeleteSession,
            MM!AddBlockExists, MM!AddBlockSAdd, MM!AddBlockSAddFails
    <2>4. ASSUME NEW i \in Instance,
                 MM!LoopStep(i) \/ MM!LoopFails(i) \/ MM!Crash(i)
          PROVE  faults' = faults \/ MM!Fault
        BY <2>4
        DEF MM!LoopStep, MM!LoopFails, MM!Crash, MM!Wake, MM!PopPair,
            MM!PopNothing, MM!Check1, MM!Check2Rejects, MM!Check2Accepts,
            MM!Requeue, MM!Observe, MM!SetSession1, MM!SetSession2,
            MM!SetSession, MM!Notify1, MM!Notify2, MM!Publish, MM!PopFails,
            MM!RequeueFails
    <2> QED
        BY <2>1, <2>2, <2>3, <2>4, NextUsesMatchMaker
        DEF MM!Next, MM!CallFails
<1> QED
    BY <1>0, <1>1 DEF MM!Fault

\* A crash is a failure.
LEMMA CrashIsFault ==
    ASSUME NEW i \in Instance, Crash(i)
    PROVE  MM!Fault
    BY DEF Crash, MM!Crash

\* Without failures an admitted connection has loaded its user's blocks.
LEMMA CleanAdmission ==
    ASSUME ~MM!Fault, NEW c \in Join, Admitted(c)
    PROVE  Load(c) /\ conn'[c].pc = "hydrate" /\ conn[c].pc = "new"
    BY DEF Admitted, LoadFails, MM!CallFails

\* Without failures every Redis command of a connection is carried out.
LEMMA CleanCommands ==
    ASSUME ~MM!Fault, NEW c \in Join
    PROVE  /\ Hydrate(c) => MM!HydrateBlocks(UserOf[c], conn[c].loaded)
           /\ Enqueue(c) => \/ MM!RPush(c) /\ conn' = conn
                            \/ MM!HSet(c) /\ ConnGoes(c, "add", "reading")
           /\ Dequeue(c) => \/ MM!LRemove(c) /\ conn' = conn
                            \/ MM!HDel(c) /\ ConnGoes(c, "remove", "delsession")
           /\ DropBlocks(c) => MM!ClearBlocks(UserOf[c])
<1>1. ~MM!CallFails /\ ~MM!RPushFails(c) /\ ~MM!HSetFails(c)
      /\ ~MM!LRemoveFails(c) /\ ~MM!HDelFails(c)
    BY DEF MM!CallFails, MM!RPushFails, MM!HSetFails, MM!LRemoveFails,
           MM!HDelFails
<1> QED
    BY <1>1 DEF Hydrate, Enqueue, Dequeue, DropBlocks

-----------------------------------------------------------------------------
(***************************************************************************)
(* Time stamps.                                                            *)
(***************************************************************************)
\* A stamp is added by the last command of Add only.
LEMMA StampAdded ==
    ASSUME TypeOK, [Next]_vars, ~MM!Fault, NEW u \in enqueuedAt'
    PROVE  \/ u \in enqueuedAt
           \/ \E c \in Join : UserOf[c] = u /\ conn'[c].pc = "reading"
<1>1. ASSUME NEW c \in Join, Connection(c), u \notin enqueuedAt
      PROVE  UserOf[c] = u /\ conn'[c].pc = "reading"
    <2>1. CASE Enqueue(c)
        <3>1. ~MM!RPush(c)
            BY <1>1 DEF MM!RPush
        <3>2. MM!HSet(c) /\ ConnGoes(c, "add", "reading")
            BY <2>1, <3>1, CleanCommands
        <3>3. UserOf[c] = u
            BY <1>1, <3>2 DEF MM!HSet
        <3> QED
            BY <3>2, <3>3, ConnGoesMoves DEF Moves
    <2>2. CASE Dequeue(c)
        BY <1>1, <2>2
        DEF Dequeue, MM!LRemove, MM!LRemoveFails, MM!HDel, MM!HDelFails
    <2>3. CASE ~Enqueue(c) /\ ~Dequeue(c)
        BY <1>1, <2>3
        DEF Connection, Load, LoadFails, Hydrate, UpgradeFails, Register,
            SendInit, ReadEnds, Unregister, DropSession, DropBlocks, mmVars,
            MM!CallFails, MM!HydrateBlocks, MM!ClearBlocks, MM!DeleteSession
    <2> QED
        BY <2>1, <2>2, <2>3
<1>2. ASSUME NEW p \in BlockCalls, InsertBlock(p) \/ AddBlocks(p)
      PROVE  enqueuedAt' = enqueuedAt
    BY <1>2
    DEF InsertBlock, AddBlocks, AddBlock, mmVars, MM!AddBlockExists,
        MM!AddBlockSAdd, MM!AddBlockSAddFails, MM!CallFails
<1>3. ASSUME NEW i \in Instance, LoopTurn(i) \/ Crash(i)
      PROVE  u \in enqueuedAt
    BY <1>3, CrashIsFault, LoopMoves
<1> QED
    BY <1>1, <1>2, <1>3 DEF Next, vars, mmVars

\* Every stamp has a connection that will remove it: it gets there with its
\* stamp, and nobody else's command adds one for its user afterwards.
LEMMA NextStamp ==
    ASSUME TypeOK, LoadedInv, StampInv, [Next]_vars
    PROVE  StampInv'
<1> DEFINE S == {"reading", "unregister", "remove"}
<1> SUFFICES ASSUME faults' = 0, NEW u \in enqueuedAt'
             PROVE  \E c \in Join : UserOf[c] = u /\ conn'[c].pc \in S
    BY DEF StampInv
<1>1. faults = 0 /\ ~MM!Fault
    BY NoFaultYet
<1>2. CASE u \notin enqueuedAt
    BY <1>1, <1>2, StampAdded
<1>3. CASE u \in enqueuedAt
    <2>1. PICK c \in Join : UserOf[c] = u /\ conn[c].pc \in S
        BY <1>1, <1>3 DEF StampInv
    <2>2. ~Dies(c)
        BY <1>1, ConstantTypes, CrashIsFault DEF Dies
    <2>3. \/ conn'[c].pc \in S
          \/ Dequeue(c) /\ Moves(c, "remove", "delsession")
        BY <2>1, <2>2, NextConn DEF Admitted, Forward, Moves
    <2>4. ASSUME Dequeue(c), Moves(c, "remove", "delsession")
          PROVE  FALSE
        <3>1. conn' # conn
            BY <2>4 DEF Moves
        <3>2. MM!HDel(c)
            BY <1>1, <2>4, <3>1, CleanCommands
        <3>3. UserOf[c] \notin enqueuedAt'
            BY <3>2 DEF MM!HDel
        <3> QED
            BY <2>1, <3>3
    <2> QED
        BY <2>1, <2>3, <2>4
<1> QED
    BY <1>2, <1>3

-----------------------------------------------------------------------------
(***************************************************************************)
(* Block sets.                                                             *)
(***************************************************************************)
\* Where a connection stands from its hydration to its cleanup.
Hydrated == {"upgrade", "init", "add", "reading", "unregister", "remove",
             "delsession", "clear"}

\* What a connection does to the sets.
LEMMA ConnectionSets ==
    ASSUME TypeOK, NEW d \in Join, Connection(d)
    PROVE  \/ blockSet' = blockSet
           \/ conn[d].pc \in {"hydrate", "clear"}
              /\ \A u \in User \ {UserOf[d]} : blockSet'[u] = blockSet[u]
<1>0. blockSet \in [User -> SUBSET User]
    BY DEF TypeOK, MM!TypeOK
<1>1. CASE Hydrate(d) \/ DropBlocks(d)
    <2>1. conn[d].pc \in {"hydrate", "clear"}
        BY <1>1 DEF Hydrate, DropBlocks, ConnGoes
    <2>2. \/ blockSet' = blockSet
          \/ \E s : blockSet' = [blockSet EXCEPT ![UserOf[d]] = s]
        BY <1>1
        DEF Hydrate, DropBlocks, MM!HydrateBlocks, MM!ClearBlocks, MM!CallFails
    <2> QED
        BY <1>0, <2>1, <2>2
<1>2. CASE ~Hydrate(d) /\ ~DropBlocks(d)
    BY <1>2
    DEF Connection, Load, LoadFails, UpgradeFails, Register, SendInit,
        Enqueue, ReadEnds, Unregister, Dequeue, DropSession, mmVars,
        MM!CallFails, MM!DeleteSession, MM!RPush, MM!RPushFails, MM!HSet,
        MM!HSetFails, MM!LRemove, MM!LRemoveFails, MM!HDel, MM!HDelFails
<1> QED
    BY <1>1, <1>2

\* A block call only adds to them.
LEMMA CallSets ==
    ASSUME TypeOK, NEW p \in BlockCalls, InsertBlock(p) \/ AddBlocks(p)
    PROVE  \A u \in User : blockSet[u] \subseteq blockSet'[u]
<1>0. blockSet \in [User -> SUBSET User]
    BY DEF TypeOK, MM!TypeOK
<1>1. \/ blockSet' = blockSet
      \/ \E v, w : blockSet' = [blockSet EXCEPT ![v] = @ \cup {w}]
    BY DEF InsertBlock, AddBlocks, AddBlock, mmVars, MM!AddBlockExists,
           MM!AddBlockSAdd, MM!AddBlockSAddFails, MM!CallFails
<1> QED
    BY <1>0, <1>1

\* While a connection is hydrated and not cleaned up its user's set does not
\* shrink: only another connection of the user could take something from it.
LEMMA SetKept ==
    ASSUME TypeOK, OneLive, [Next]_vars, ~env.overlap, ~MM!Fault,
           NEW c \in Join, conn[c].pc \in Hydrated, conn'[c].pc \in Hydrated
    PROVE  blockSet[UserOf[c]] \subseteq blockSet'[UserOf[c]]
<1>0. UserOf[c] \in User
    BY ConstantTypes
<1>1. ASSUME NEW d \in Join, Connection(d)
      PROVE  blockSet[UserOf[c]] \subseteq blockSet'[UserOf[c]]
    <2>1. CASE blockSet' = blockSet
        BY <2>1
    <2>2. CASE conn[d].pc \in {"hydrate", "clear"} /\ UserOf[c] # UserOf[d]
        BY <1>0, <1>1, <2>2, ConnectionSets
    <2>3. ASSUME conn[d].pc \in {"hydrate", "clear"}, UserOf[c] = UserOf[d],
                 blockSet' # blockSet
          PROVE  FALSE
        <3>1. c = d
            BY <2>3 DEF OneLive, Gone, Hydrated
        <3>2. conn[c].pc = "clear"
            BY <2>3, <3>1 DEF Hydrated
        <3>3. DropBlocks(c)
            BY <1>1, <2>3, <3>1, <3>2
            DEF Connection, Load, LoadFails, Hydrate, UpgradeFails, Register,
                SendInit, Enqueue, ReadEnds, Unregister, Dequeue, DropSession,
                ConnGoes
        <3>4. conn'[c].pc = "done"
            <4>1. ConnGoes(c, "clear", "done")
                BY <3>3 DEF DropBlocks
            <4> QED
                BY <4>1, ConnGoesMoves DEF Moves
        <3> QED
            BY <3>4 DEF Hydrated
    <2> QED
        BY <1>1, <2>1, <2>2, <2>3, ConnectionSets
<1>2. ASSUME NEW p \in BlockCalls, InsertBlock(p) \/ AddBlocks(p)
      PROVE  blockSet[UserOf[c]] \subseteq blockSet'[UserOf[c]]
    BY <1>0, <1>2, CallSets
<1>3. ASSUME NEW i \in Instance, LoopTurn(i) \/ Crash(i)
      PROVE  blockSet' = blockSet
    BY <1>3, CrashIsFault, LoopMoves
<1> QED
    BY <1>1, <1>2, <1>3 DEF Next, vars, mmVars

\* Without failures a connection comes to be hydrated by Hydrate only, which
\* writes what was loaded.
LEMMA BecomesHydrated ==
    ASSUME TypeOK, [Next]_vars, ~MM!Fault, NEW c \in Join,
           conn[c].pc \notin Hydrated, conn'[c].pc \in Hydrated
    PROVE  conn'[c].loaded \subseteq blockSet'[UserOf[c]]
<1>1. ~Dies(c) /\ ~Admitted(c) /\ conn'[c] # conn[c]
    <2>1. conn'[c] # conn[c]
        OBVIOUS
    <2>2. Dies(c) => conn'[c].pc = "done"
        BY DEF Dies
    <2>3. Admitted(c) => conn'[c].pc = "hydrate"
        BY CleanAdmission
    <2> QED
        BY <2>1, <2>2, <2>3 DEF Hydrated
<1>2. Forward(c)
    BY <1>1, NextConn
<1>3. Hydrate(c) /\ conn'[c].loaded = conn[c].loaded
    BY <1>2 DEF Forward, Moves, Hydrated
<1>4. blockSet' = [blockSet EXCEPT ![UserOf[c]] = conn[c].loaded]
    BY <1>3, CleanCommands DEF MM!HydrateBlocks
<1> QED
    BY <1>3, <1>4, ConstantTypes DEF TypeOK, MM!TypeOK

\* What was loaded stays in the set.
LEMMA NextSet ==
    ASSUME TypeOK, LoadedInv, OneLive, SetInv, [Next]_vars
    PROVE  SetInv'
<1> SUFFICES ASSUME Undisturbed', NEW c \in Join, conn'[c].pc \in Hydrated
             PROVE  conn'[c].loaded \subseteq blockSet'[UserOf[c]]
    BY DEF SetInv, Hydrated
<1>1. Undisturbed /\ ~env.overlap /\ ~MM!Fault
    BY NoFaultYet, SameEnv DEF Undisturbed
<1>2. CASE conn[c].pc \notin Hydrated
    BY <1>1, <1>2, BecomesHydrated
<1>3. CASE conn[c].pc \in Hydrated
    <2>1. blockSet[UserOf[c]] \subseteq blockSet'[UserOf[c]]
        BY <1>1, <1>3, SetKept
    <2>2. conn[c].loaded \subseteq blockSet[UserOf[c]]
        BY <1>1, <1>3 DEF SetInv, Hydrated
    <2>3. conn'[c].loaded = conn[c].loaded
        BY <1>3, NextConn DEF Admitted, Forward, Dies, Moves, Hydrated
    <2> QED
        BY <2>1, <2>2, <2>3
<1> QED
    BY <1>2, <1>3

\* A pair that a loop has checked against a set has passed what was loaded:
\* while it is in the loop's hands no connection of it comes to add or read
\* that was not adding or reading already.
LEMMA NextCheck ==
    ASSUME TypeOK, LoadedInv, CallerInv, MM!OnePlace, PushedInv, SetInv,
           CheckInv, [Next]_vars
    PROVE  CheckInv'
<1> SUFFICES ASSUME Undisturbed', NEW i \in Instance
             PROVE  /\ loop'[i].pc \in {"check2", "observe"} =>
                          Passed(loop[i].id1, loop[i].id2)'
                    /\ loop'[i].pc = "observe" =>
                          Passed(loop[i].id2, loop[i].id1)'
    BY DEF CheckInv
<1>0. Undisturbed /\ faults' = faults /\ ~MM!Fault
    BY NoFaultYet, SameEnv DEF Undisturbed
<1>1. ASSUME NEW c \in Join, NEW d \in Join, Passed(c, d), caller[c] # "new"
      PROVE  conn'[c].pc \in {"add", "reading"} =>
                UserOf[d] \notin conn'[c].loaded
    <2>1. conn'[c].pc \in {"add", "reading"} =>
             /\ conn[c].pc \in {"add", "reading"}
             /\ conn'[c].loaded = conn[c].loaded
        BY <1>1, NextConn
        DEF Admitted, Forward, Dies, Moves, CallerInv
    <2> QED
        BY <1>1, <2>1 DEF Passed
<1>2. ASSUME NEW c \in Join, NEW d \in Join, caller[c] # "new",
             UserOf[d] \notin blockSet[UserOf[c]]
      PROVE  Passed(c, d)
    BY <1>0, <1>2 DEF Passed, SetInv
<1>3. ASSUME loop[i].pc \in {"check1", "check2", "observe"}
      PROVE  /\ loop[i].id1 \in Join /\ caller[loop[i].id1] # "new"
             /\ loop[i].id2 \in Join /\ caller[loop[i].id2] # "new"
    <2>1. loop[i].id1 \in Join /\ loop[i].id2 \in Join
        BY <1>3 DEF TypeOK, MM!TypeOK, MM!LoopTypeOK
    <2>2. CASE loop[i].pc = "observe"
        BY <2>1, <2>2 DEF PushedInv
    <2>3. CASE loop[i].pc # "observe"
        <3>1. {loop[i].id1, loop[i].id2} \subseteq MM!InHand
            BY <1>3, <2>3 DEF MM!InHand, MM!Hand
        <3> QED
            BY <2>1, <3>1 DEF MM!OnePlace
    <2> QED
        BY <2>2, <2>3
<1>4. CASE loop'[i] = loop[i]
    BY <1>0, <1>1, <1>3, <1>4 DEF CheckInv, Passed
<1>5. CASE LoopTurn(i)
    <2>1. CASE loop'[i].pc = "check2"
        <3>1. /\ loop[i].pc = "check1"
              /\ loop'[i].id1 = loop[i].id1 /\ loop'[i].id2 = loop[i].id2
              /\ UserOf[loop[i].id2] \notin blockSet[UserOf[loop[i].id1]]
            BY <1>0, <1>5, <2>1, LoopMoves
        <3>2. Passed(loop[i].id1, loop[i].id2)
            BY <1>2, <1>3, <3>1
        <3> QED
            BY <1>1, <1>3, <2>1, <3>1, <3>2 DEF Passed
    <2>2. CASE loop'[i].pc = "observe"
        <3>1. /\ loop[i].pc = "check2"
              /\ loop'[i].id1 = loop[i].id1 /\ loop'[i].id2 = loop[i].id2
              /\ UserOf[loop[i].id1] \notin blockSet[UserOf[loop[i].id2]]
            BY <1>0, <1>5, <2>2, LoopMoves
        <3>2. Passed(loop[i].id1, loop[i].id2)
            BY <1>0, <3>1 DEF CheckInv
        <3>3. Passed(loop[i].id2, loop[i].id1)
            BY <1>2, <1>3, <3>1
        <3> QED
            BY <1>1, <1>3, <3>1, <3>2, <3>3 DEF Passed
    <2> QED
        BY <2>1, <2>2
<1>6. loop'[i] = loop[i] \/ LoopTurn(i)
    <2>1. ASSUME NEW k \in Instance, Crash(k)
          PROVE  FALSE
        BY <1>0, <2>1, CrashIsFault
    <2> QED
        BY <2>1, OthersKeepLoops, LoopMoves DEF Next, vars, mmVars
<1> QED
    BY <1>4, <1>5, <1>6

-----------------------------------------------------------------------------
(***************************************************************************)
(* Block calls.                                                            *)
(***************************************************************************)
\* Who holds a set after a step that leads to it from its hydration held it
\* before.
LEMMA HeldSet ==
    ASSUME TypeOK, [Next]_vars, NEW c \in Join, HoldsSet(c)',
           conn[c].pc \notin {"new", "hydrate", "upgrade"}
    PROVE  HoldsSet(c) /\ conn[c].pc \in Hydrated /\ conn'[c].pc \in Hydrated
    BY NextConn DEF Admitted, Forward, Dies, Moves, HoldsSet, Hydrated

\* What a set has been given it keeps, for those that held it.
LEMMA ReachedStays ==
    ASSUME TypeOK, LiveInv, OneLive, [Next]_vars, ~env.overlap, ~MM!Fault,
           NEW p \in BlockCalls, NEW u \in User, NEW v, Reached(p, u, v),
           call'[p].live = call[p].live
    PROVE  Reached(p, u, v)'
<1> SUFFICES ASSUME NEW c \in call[p].live, UserOf[c] = u, HoldsSet(c)'
             PROVE  v \in blockSet'[u]
    BY DEF Reached
<1>1. c \in Join /\ conn[c].pc \notin {"new", "hydrate", "upgrade"}
    BY DEF TypeOK, LiveInv
<1>2. HoldsSet(c) /\ conn[c].pc \in Hydrated /\ conn'[c].pc \in Hydrated
    BY <1>1, HeldSet
<1>3. v \in blockSet[u]
    BY <1>2 DEF Reached
<1> QED
    BY <1>1, <1>2, <1>3, SetKept

\* One AddBlock that returns has reached the set: it found it empty, which is
\* impossible while a connection holds it, or it has added the user.
LEMMA AddBlockReaches ==
    ASSUME TypeOK, LiveInv, SetInv, Undisturbed, [Next]_vars, ~MM!Fault,
           UNCHANGED conn,
           NEW p \in BlockCalls, NEW u \in User, NEW v,
           NEW exists, NEW sadd, NEW next, next # sadd,
           AddBlock(p, u, v, exists, sadd, next), call'[p].stage = next,
           call'[p].live = call[p].live
    PROVE  Reached(p, u, v)'
<1> SUFFICES ASSUME NEW c \in call[p].live, UserOf[c] = u, HoldsSet(c)
             PROVE  v \in blockSet'[u]
    BY DEF Reached, HoldsSet
<1>1. c \in Join
    BY DEF TypeOK
<1>2. blockSet[u] # {}
    BY <1>1 DEF SetInv, HoldsSet
<1>3. ~MM!CallFails /\ ~MM!AddBlockSAddFails(u, v)
    BY DEF MM!CallFails, MM!AddBlockSAddFails
<1>4. CallGoes(p, exists, sadd) => call'[p].stage = sadd
    BY DEF CallGoes, TypeOK
<1>5. MM!AddBlockSAdd(u, v)
    BY <1>2, <1>3, <1>4 DEF AddBlock
<1> QED
    BY <1>5 DEF MM!AddBlockSAdd, TypeOK, MM!TypeOK

\* A block call that is over has reached both sets.
LEMMA NextReach ==
    ASSUME TypeOK, LoadedInv, LiveInv, OneLive, SetInv, ReachInv, [Next]_vars
    PROVE  ReachInv'
<1> SUFFICES ASSUME Undisturbed', NEW p \in BlockCalls
             PROVE  /\ call'[p].stage \in {"second", "second-sadd", "done"} =>
                          Reached(p, p[1], p[2])'
                    /\ call'[p].stage = "done" => Reached(p, p[2], p[1])'
    BY DEF ReachInv
<1>0. /\ Undisturbed /\ ~env.overlap /\ ~MM!Fault
      /\ p[1] \in User /\ p[2] \in User
    BY NoFaultYet, SameEnv, ConstantTypes DEF Undisturbed
<1>1. CASE call'[p] = call[p]
    <2>1. /\ Reached(p, p[1], p[2]) => Reached(p, p[1], p[2])'
          /\ Reached(p, p[2], p[1]) => Reached(p, p[2], p[1])'
        BY <1>0, <1>1, ReachedStays
    <2> QED
        BY <1>0, <1>1, <2>1 DEF ReachInv
<1>2. CASE InsertBlock(p)
    <2>1. call'[p].stage = "first"
        BY <1>2 DEF InsertBlock, TypeOK
    <2> QED
        BY <2>1
<1>3. CASE AddBlocks(p)
    <2>1. /\ call'[p].live = call[p].live
          /\ UNCHANGED conn
        BY <1>3, CallFrame DEF AddBlocks, connVars
    <2>2. CASE AddBlock(p, p[1], p[2], "first", "first-sadd", "second")
        <3>1. call'[p].stage \in {"first-sadd", "second"}
            BY <2>2 DEF AddBlock, CallGoes, TypeOK
        <3>2. call'[p].stage = "second" => Reached(p, p[1], p[2])'
            BY <1>0, <2>1, <2>2, AddBlockReaches
        <3> QED
            BY <3>1, <3>2
    <2>3. CASE AddBlock(p, p[2], p[1], "second", "second-sadd", "done")
        <3>1. /\ call'[p].stage \in {"second-sadd", "done"}
              /\ call[p].stage \in {"second", "second-sadd"}
            BY <2>3 DEF AddBlock, CallGoes, TypeOK
        <3>2. call'[p].stage = "done" => Reached(p, p[2], p[1])'
            BY <1>0, <2>1, <2>3, AddBlockReaches
        <3>3. Reached(p, p[1], p[2])
            BY <1>0, <3>1 DEF ReachInv
        <3>4. Reached(p, p[1], p[2])'
            BY <1>0, <2>1, <3>3, ReachedStays
        <3> QED
            BY <3>2, <3>4
    <2> QED
        BY <1>3, <2>2, <2>3 DEF AddBlocks
<1>4. call'[p] = call[p] \/ InsertBlock(p) \/ AddBlocks(p)
    <2>1. ASSUME NEW q \in BlockCalls, InsertBlock(q) \/ AddBlocks(q), p # q
          PROVE  call'[p] = call[p]
        BY <2>1, CallFrame
    <2>2. \/ UNCHANGED call
          \/ \E q \in BlockCalls : InsertBlock(q) \/ AddBlocks(q)
        BY ConnectionFrame, CrashFrame DEF Next, vars, callVars, LoopTurn
    <2> QED
        BY <2>1, <2>2
<1> QED
    BY <1>1, <1>2, <1>3, <1>4

-----------------------------------------------------------------------------
(***************************************************************************)
(* The pool: the queue, the hands of the loops and the matched pairs.      *)
(***************************************************************************)
\* What is queued, held or matched stays so unless something is taken out.
LEMMA SamePool == UNCHANGED <<queue, loop, matched>> => Pool' = Pool
    BY DEF Pool, MM!Entries, MM!EntriesOf, MM!InHand, MM!Hand, MM!Matched,
           MM!Partners

\* The operations on the queue are those that MatchMakerProofs has lemmas about.
LEMMA SameQueueOps ==
    ASSUME NEW q, NEW u
    PROVE  /\ MM!LRem(q, u) = Proved!LRem(q, u)
           /\ MM!EntriesOf(q) = Proved!EntriesOf(q)
    BY DEF MM!LRem, Proved!LRem, MM!Kept, Proved!Kept, MM!Rank, Proved!Rank,
           MM!Cardinality, Proved!Cardinality, MM!EntriesOf, Proved!EntriesOf

\* A step of one loop that keeps its hand, or moves it on, keeps the pool.
LEMMA OneHandMoves ==
    ASSUME TypeOK, NEW i \in Instance,
           \A k \in Instance \ {i} : loop'[k] = loop[k],
           MM!Entries \subseteq MM!Entries' \cup MM!Hand(i)',
           MM!Hand(i) \subseteq MM!Hand(i)' \cup MM!Entries' \cup MM!Matched',
           MM!Matched \subseteq MM!Matched'
    PROVE  Pool \subseteq Pool'
<1>1. \A k \in Instance \ {i} : MM!Hand(k)' = MM!Hand(k)
    BY DEF MM!Hand
<1>2. MM!Hand(i)' \subseteq MM!InHand'
    BY DEF MM!InHand
<1>3. MM!InHand \subseteq MM!InHand' \cup MM!Hand(i)
    BY <1>1 DEF MM!InHand
<1> QED
    BY <1>2, <1>3 DEF Pool

\* A loop takes nobody out of the pool while nothing fails: what it pops is in
\* its hands until it is back in the queue or matched (processMatches).
LEMMA LoopKeepsPool ==
    ASSUME TypeOK, NEW i \in Instance, LoopTurn(i), ~MM!Fault
    PROVE  Pool \subseteq Pool'
<1>0. /\ loop \in [Instance -> [pc : MM!LoopPc, id1 : Join \cup {None},
                                id2 : Join \cup {None},
                                rej : 0 .. MaxRejections - 1]]
      /\ queue \in Seq(Join)
      /\ \A k \in Instance \ {i} : loop'[k] = loop[k]
    BY LoopMoves DEF TypeOK, MM!TypeOK, MM!LoopTypeOK
<1>1. CASE MM!PopPair(i)
    <2>1. /\ MM!Hand(i) = {} /\ Len(queue) >= 2
          /\ queue' = SubSeq(queue, 3, Len(queue))
          /\ MM!Matched' = MM!Matched
        BY <1>1 DEF MM!PopPair, MM!TakesFirstTwo, MM!Hand, MM!Matched
    <2>2. MM!Hand(i)' = {queue[1], queue[2]}
        <3>1. loop'[i].pc = "check1" /\ loop'[i].id1 = queue[1]
              /\ loop'[i].id2 = queue[2]
            BY <1>0, <1>1 DEF MM!PopPair
        <3> QED
            BY <3>1 DEF MM!Hand
    <2>3. MM!Entries = MM!Entries' \cup {queue[1], queue[2]}
        <3>1. Proved!EntriesOf(queue) = Proved!EntriesOf(queue')
                                        \cup {queue[1], queue[2]}
            BY <1>0, <2>1, Proved!PopEntries, BackendAssumption
        <3> QED
            BY <3>1, SameQueueOps DEF MM!Entries
    <2> QED
        BY <1>0, <2>1, <2>2, <2>3, OneHandMoves
<1>2. CASE MM!Requeue(i)
    <2>1. /\ loop[i].id1 \in Join /\ loop[i].id2 \in Join
          /\ MM!Hand(i) = {loop[i].id1, loop[i].id2}
          /\ queue' = queue \o <<loop[i].id1, loop[i].id2>>
          /\ MM!Matched' = MM!Matched
        BY <1>2
        DEF MM!Requeue, MM!PutsBack, MM!Hand, MM!Matched, TypeOK, MM!TypeOK,
            MM!LoopTypeOK
    <2>2. MM!Entries' = MM!Entries \cup MM!Hand(i)
        <3>1. Proved!EntriesOf(queue') = Proved!EntriesOf(queue) \cup MM!Hand(i)
            BY <1>0, <2>1, Proved!PushTwoEntries, BackendAssumption
        <3> QED
            BY <3>1, SameQueueOps DEF MM!Entries
    <2> QED
        BY <1>0, <2>1, <2>2, OneHandMoves
<1>3. CASE MM!Check2Accepts(i)
    <2>1. matched' = matched \cup {<<loop[i].id1, loop[i].id2>>}
        BY <1>3 DEF MM!Check2Accepts
    <2>2. MM!Hand(i) \subseteq MM!Matched' /\ MM!Matched \subseteq MM!Matched'
        <3>1. MM!Hand(i) = MM!Partners(<<loop[i].id1, loop[i].id2>>)
            BY <1>3 DEF MM!Check2Accepts, MM!LoopGoes, MM!Hand, MM!Partners
        <3>2. MM!Matched' = MM!Matched
                            \cup MM!Partners(<<loop[i].id1, loop[i].id2>>)
            BY <2>1 DEF MM!Matched
        <3> QED
            BY <3>1, <3>2
    <2>3. MM!Entries' = MM!Entries
        BY <1>3 DEF MM!Check2Accepts, MM!Entries
    <2> QED
        BY <1>0, <2>2, <2>3, OneHandMoves
<1>4. CASE \/ MM!Wake(i) \/ MM!PopNothing(i) \/ MM!Check1(i)
           \/ MM!Check2Rejects(i) \/ MM!Observe(i) \/ MM!SetSession1(i)
           \/ MM!SetSession2(i) \/ MM!Notify1(i) \/ MM!Notify2(i)
    <2>1. MM!Entries' = MM!Entries /\ MM!Matched' = MM!Matched
        BY <1>4
        DEF MM!Wake, MM!PopNothing, MM!Check1, MM!Check2Rejects, MM!Observe,
            MM!SetSession1, MM!SetSession2, MM!Notify1, MM!Notify2,
            MM!Entries, MM!Matched
    <2>2. CASE MM!Check1(i) \/ MM!Check2Rejects(i)
        <3>1. ASSUME NEW from \in {"check1", "check2"},
                     NEW to \in {"check2", "requeue"}, MM!LoopGoes(i, from, to)
              PROVE  MM!Hand(i)' = MM!Hand(i)
            BY <1>0, <3>1 DEF MM!LoopGoes, MM!Hand
        <3>2. MM!Hand(i)' = MM!Hand(i)
            BY <2>2, <3>1 DEF MM!Check1, MM!Check2Rejects
        <3> QED
            BY <1>0, <2>1, <3>2, OneHandMoves
    <2>3. CASE ~(MM!Check1(i) \/ MM!Check2Rejects(i))
        <3>1. MM!Hand(i) = {}
            BY <1>4, <2>3
            DEF MM!Wake, MM!PopNothing, MM!Observe, MM!SetSession1,
                MM!SetSession2, MM!Notify1, MM!Notify2, MM!LoopGoes, MM!Hand
        <3> QED
            BY <1>0, <2>1, <3>1, OneHandMoves
    <2> QED
        BY <2>2, <2>3
<1>5. ~MM!LoopFails(i)
    BY DEF MM!LoopFails, MM!PopFails, MM!RequeueFails
<1> QED
    BY <1>1, <1>2, <1>3, <1>4, <1>5 DEF LoopTurn, MM!LoopStep

\* A connection takes the entries of its user out of the queue when it is
\* removed, and those only.
LEMMA ConnectionPool ==
    ASSUME TypeOK, NEW d \in Join, Connection(d), ~MM!Fault
    PROVE  /\ \A e \in Pool : e \in Pool' \/ (UserOf[e] = UserOf[d] /\ Dequeue(d))
           /\ MM!RPush(d) => d \in Pool'
<1>0. queue \in Seq(Join)
    BY DEF TypeOK, MM!TypeOK
<1>1. UNCHANGED <<loop, matched>>
    BY OthersKeepLoops
<1>2. MM!InHand' = MM!InHand /\ MM!Matched' = MM!Matched
    BY <1>1 DEF MM!InHand, MM!Hand, MM!Matched
<1>3. CASE MM!RPush(d)
    <2>1. Proved!EntriesOf(queue') = Proved!EntriesOf(queue) \cup {d}
        BY <1>0, <1>3, Proved!AppendEntries, BackendAssumption DEF MM!RPush
    <2>2. MM!Entries' = MM!Entries \cup {d}
        BY <2>1, SameQueueOps DEF MM!Entries
    <2> QED
        BY <1>2, <2>2 DEF Pool
<1>4. CASE Dequeue(d) /\ MM!LRemove(d)
    <2>1. ASSUME NEW e \in MM!Entries, UserOf[e] # UserOf[d]
          PROVE  e \in MM!Entries'
        <3>1. queue' = Proved!LRem(queue, UserOf[d])
            BY <1>4, SameQueueOps DEF MM!LRemove
        <3>2. e \in Proved!EntriesOf(queue)
            BY <2>1, SameQueueOps DEF MM!Entries
        <3>3. e \in Proved!EntriesOf(queue')
            BY <1>0, <2>1, <3>1, <3>2, Proved!LRemKeeps, BackendAssumption
        <3> QED
            BY <3>3, SameQueueOps DEF MM!Entries
    <2>2. ~MM!RPush(d)
        BY <1>4 DEF MM!RPush, MM!LRemove, MM!CallerGoes, TypeOK, MM!TypeOK
    <2> QED
        BY <1>2, <1>4, <2>1, <2>2 DEF Pool
<1>5. CASE ~MM!RPush(d) /\ ~(Dequeue(d) /\ MM!LRemove(d))
    <2>1. queue' = queue
        <3>1. CASE Enqueue(d) \/ Dequeue(d)
            BY <1>5, <3>1, CleanCommands DEF MM!HSet, MM!HDel
        <3>2. CASE ~Enqueue(d) /\ ~Dequeue(d)
            BY <3>2
            DEF Connection, Load, LoadFails, Hydrate, UpgradeFails, Register,
                SendInit, ReadEnds, Unregister, DropSession, DropBlocks,
                mmVars, MM!CallFails, MM!HydrateBlocks, MM!ClearBlocks,
                MM!DeleteSession
        <3> QED
            BY <3>1, <3>2
    <2> QED
        BY <1>1, <1>5, <2>1, SamePool
<1> QED
    BY <1>3, <1>4, <1>5

\* Who has pushed stays in the pool until its own user is removed.
LEMMA NextPool ==
    ASSUME TypeOK, LoadedInv, CallerInv, OneLive, PoolInv, [Next]_vars
    PROVE  PoolInv'
<1> DEFINE In(c) == \/ conn[c].pc = "add" /\ caller[c] = "stamp"
                    \/ conn[c].pc = "reading"
<1> SUFFICES ASSUME Undisturbed', NEW c \in Join, In(c)'
             PROVE  c \in Pool'
    BY DEF PoolInv
<1>0. Undisturbed /\ ~env.overlap /\ ~MM!Fault
    BY NoFaultYet, SameEnv DEF Undisturbed
<1>1. ASSUME In(c) PROVE c \in Pool
    BY <1>0, <1>1 DEF PoolInv
<1>2. ASSUME NEW d \in Join, Connection(d)
      PROVE  c \in Pool'
    <2>1. CASE c # d
        <3>1. conn'[c] = conn[c] /\ caller'[c] = caller[c]
            BY <1>2, <2>1, ConnectionSteps, ConnectionCaller
            DEF Stays, Admitted, Forward, Moves
        <3>2. c \in Pool /\ ~Gone(c)
            BY <1>1, <3>1 DEF Gone
        <3>3. ASSUME UserOf[c] = UserOf[d], Dequeue(d)
              PROVE  FALSE
            <4>1. ~Gone(d)
                BY <3>3 DEF Dequeue, ConnGoes, Gone
            <4> QED
                BY <1>0, <2>1, <3>2, <3>3, <4>1 DEF OneLive
        <3> QED
            BY <1>0, <1>2, <3>2, <3>3, ConnectionPool
    <2>2. CASE c = d /\ Enqueue(d)
        <3>1. CASE MM!RPush(d)
            BY <1>0, <1>2, <2>2, <3>1, ConnectionPool
        <3>2. CASE ~MM!RPush(d)
            <4>1. MM!HSet(d) /\ ConnGoes(d, "add", "reading")
                BY <1>0, <2>2, <3>2, CleanCommands
            <4>2. caller[d] = "stamp" /\ conn[d].pc = "add"
                BY <4>1 DEF MM!HSet, MM!CallerGoes, ConnGoes
            <4>3. c \in Pool
                BY <1>1, <2>2, <4>2
            <4>4. ~Dequeue(d)
                BY <4>2 DEF Dequeue, ConnGoes
            <4> QED
                BY <1>0, <1>2, <2>2, <4>3, <4>4, ConnectionPool
        <3> QED
            BY <3>1, <3>2
    <2>3. CASE c = d /\ ~Enqueue(d)
        <3>1. conn'[d].pc \in {"add", "reading"}
            BY <2>3
        <3>2. ~Dequeue(d)
            <4>1. ASSUME Dequeue(d)
                  PROVE  conn'[d].pc \in {"remove", "delsession"}
                <5>1. \/ UNCHANGED conn /\ conn[d].pc = "remove"
                      \/ ConnGoes(d, "remove", "delsession")
                    BY <4>1 DEF Dequeue
                <5> QED
                    BY <5>1, ConnGoesMoves DEF Moves
            <4> QED
                BY <3>1, <4>1
        <3>3. ~Admitted(d) /\ ~Stays(d)
            BY <1>0, <2>3, <3>1, <3>2, CleanAdmission DEF Stays
        <3>4. SendInit(d) /\ conn[d].pc = "init"
            BY <1>2, <2>3, <3>1, <3>3, ConnectionSteps DEF Forward, Moves
        <3>5. caller'[d] = "new" /\ conn'[d].pc = "add"
            <4>1. caller[d] = "new" /\ caller' = caller
                BY <1>2, <2>3, <3>2, <3>4, ConnectionCaller DEF CallerInv
            <4> QED
                BY <1>2, <2>3, <3>1, <3>3, <4>1, ConnectionSteps
                DEF Forward, Moves
        <3> QED
            BY <2>3, <3>5
    <2> QED
        BY <2>1, <2>2, <2>3
<1>3. ASSUME NEW p \in BlockCalls, InsertBlock(p) \/ AddBlocks(p)
      PROVE  UNCHANGED <<conn, caller, queue, loop, matched>>
    <2>1. UNCHANGED queue
        BY <1>3
        DEF InsertBlock, AddBlocks, AddBlock, mmVars, MM!AddBlockExists,
            MM!AddBlockSAdd, MM!AddBlockSAddFails, MM!CallFails
    <2> QED
        BY <1>3, <2>1, CallFrame, OtherCaller, OthersKeepLoops DEF connVars
<1>4. ASSUME NEW i \in Instance, LoopTurn(i)
      PROVE  c \in Pool'
    <2>1. UNCHANGED <<conn, caller>>
        BY <1>4, LoopMoves DEF LoopTurn, connVars
    <2> QED
        BY <1>0, <1>1, <1>4, <2>1, LoopKeepsPool
<1>5. ASSUME UNCHANGED <<conn, caller, queue, loop, matched>>
      PROVE  c \in Pool'
    BY <1>1, <1>5, SamePool
<1>6. ASSUME NEW i \in Instance, Crash(i)
      PROVE  FALSE
    BY <1>0, <1>6, CrashIsFault
<1> QED
    BY <1>2, <1>3, <1>4, <1>5, <1>6 DEF Next, vars, connVars, mmVars

-----------------------------------------------------------------------------
(***************************************************************************)
(* The whole invariant, and the properties that follow from it.            *)
(***************************************************************************)
\* The invariant is inductive.
LEMMA NextInv == Inv /\ [Next]_vars => Inv'
<1> SUFFICES ASSUME Inv, [Next]_vars
             PROVE  Inv'
    OBVIOUS
<1>1. AlwaysInv'
    BY NextAlways DEF Inv
<1>2. StampInv' /\ SetInv' /\ PoolInv' /\ CheckInv' /\ ReachInv'
    BY NextStamp, NextSet, NextPool, NextCheck, NextReach
    DEF Inv, AlwaysInv, MatchMakerInv, FaultFreeInv
<1> QED
    BY <1>1, <1>2 DEF Inv, FaultFreeInv

\* It holds in every reachable state: every stamp, set, pool entry, check and
\* block call is accounted for by the connections.
THEOREM Invariance == Spec => []Inv
    BY InitInv, NextInv, PTL DEF Spec

\* Without failures no enqueue time outlives the last connection of its user,
\* for any number of connections that overlap in any way and of loops that
\* pop, put back and match meanwhile (observeMatchLatency, Remove).
THEOREM StampsDoNotLeak == Spec => []NoStampLeaks
<1>1. Inv => NoStampLeaks
    BY DEF Inv, FaultFreeInv, StampInv, NoStampLeaks, Gone
<1> QED
    BY <1>1, Invariance, PTL

\* Without failures and overlap a pair that is announced has passed the blocks
\* that each side loaded, if that side is connected, for any number of loops
\* (HydrateBlocks, pairBlocked).
THEOREM LoadedBlocksKept == Spec => []LoadedBlocksHonoured
<1>1. Inv => LoadedBlocksHonoured
    BY DEF Inv, FaultFreeInv, CheckInv, Passed, LoadedBlocksHonoured
<1> QED
    BY <1>1, Invariance, PTL

\* Without failures and overlap a block call that has returned has reached the
\* set of every connection that held one when the rows were stored, although
\* AddBlock looks first and adds afterwards.
THEOREM BlockCallsReach == Spec => []BlockReachesLiveSet
<1>1. Inv => BlockReachesLiveSet
    <2>1. SUFFICES ASSUME Inv, Undisturbed, NEW p \in Returned,
                          NEW c \in call[p].live, HoldsSet(c)
                   PROVE  ({p[1], p[2]} \ {UserOf[c]})
                             \subseteq blockSet[UserOf[c]]
        BY DEF BlockReachesLiveSet
    <2>2. p \in BlockCalls /\ call[p].stage = "done"
        BY <2>1 DEF Returned
    <2>3. Reached(p, p[1], p[2]) /\ Reached(p, p[2], p[1])
        BY <2>1, <2>2 DEF Inv, FaultFreeInv, ReachInv
    <2>4. UserOf[c] \in {p[1], p[2]}
        BY <2>1, <2>2 DEF Inv, AlwaysInv, LiveInv
    <2> QED
        BY <2>1, <2>3, <2>4 DEF Reached
<1> QED
    BY <1>1, Invariance, PTL

\* Without failures and overlap a connection that reads and was not popped is
\* in the queue: nobody else takes its entry out (Remove, processMatches).
THEOREM WaitersArePooled == Spec => []WaitingIsPooled
<1>1. Inv => WaitingIsPooled
    BY DEF Inv, FaultFreeInv, PoolInv, Pool, WaitingIsPooled,
           EveryWaiterIsPooled
<1> QED
    BY <1>1, Invariance, PTL

\* What one of a matched pair sends reaches the other if and only if one instance
\* serves both, whatever fails, and except for a connection beside which its user
\* has registered another: for any number of instances and connections
\* (handleMessage, handleConnections).
THEOREM PeersReachEachOther == Spec => []PeersReachable
<1>1. AlwaysInv => PeersReachable
    <2>1. SUFFICES ASSUME AlwaysInv, NEW pair \in ReadingPairs,
                          NEW c \in {pair[1], pair[2]},
                          NEW d \in {pair[1], pair[2]}
                   PROVE  /\ Target(HomeOf[c], UserOf[d]) = d =>
                                HomeOf[c] = HomeOf[d]
                          /\ HomeOf[c] = HomeOf[d] =>
                                Target(HomeOf[c], UserOf[d]) = d \/ Displaced(d)
        BY DEF PeersReachable
    <2>2. pair \in Join \X Join /\ conn[d].pc = "reading"
        BY <2>1 DEF AlwaysInv, TypeOK, MM!TypeOK, ReadingPairs
    <2>3. c \in Join /\ d \in Join /\ d # None
        BY <2>1, <2>2, BackendAssumption
    <2>4. HomeOf[c] \in Instance /\ UserOf[d] \in User
        BY <2>3, ConstantTypes
    <2>5. Target(HomeOf[c], UserOf[d]) = d => HomeOf[c] = HomeOf[d]
        BY <2>1, <2>3, <2>4 DEF AlwaysInv, RegistryIsLive
    <2>6. Target(HomeOf[d], UserOf[d]) = d \/ Displaced(d)
        BY <2>1, <2>2, <2>3 DEF AlwaysInv, Registered
    <2> QED
        BY <2>5, <2>6
<1> QED
    BY <1>1, AlwaysHolds, PTL
=============================================================================
