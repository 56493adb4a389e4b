------------------------------- MODULE Backend -------------------------------
(***************************************************************************)
(* The backend around the matchmaker: the life of a websocket connection   *)
(* (handleConnections in backend/main.go), each instance's registry of its *)
(* own connections (the map "clients"), and the block handlers.  The Redis *)
(* data and the matching loops are those of MatchMaker, a connection being *)
(* a Join.                                                                 *)
(*                                                                         *)
(* Admission (rate limit, token, upsertUser, isUserBanned) has no state    *)
(* here: a connection that is turned away never leaves "new".              *)
(***************************************************************************)
EXTENDS Integers, Sequences, FiniteSets

CONSTANTS
    User, Join, UserOf, Instance, HomeOf, BlockRows, MaxRejections,
    MaxFaults, None,
    InitialRows,  \* the table blocks when the behaviour starts
    BlockCalls,   \* the <<blocker, blocked>> calls of /block and /report
    Environments  \* what may happen around the backend, see env

ASSUME BackendAssumption ==
    /\ UserOf \in [Join -> User]
    /\ HomeOf \in [Join -> Instance]
    /\ BlockRows \subseteq User \X User
    /\ MaxRejections \in Nat \ {0}
    /\ MaxFaults \in Nat
    /\ None \notin User \cup Join
    /\ \A row \in BlockRows : <<row[2], row[1]>> \in BlockRows
    /\ InitialRows \subseteq BlockRows
    /\ BlockCalls \subseteq BlockRows
    /\ Environments \subseteq
         [overlap : BOOLEAN, faults : 0 .. MaxFaults,
          joins : SUBSET Join, calls : SUBSET BlockCalls]

VARIABLES queue, enqueuedAt, blockSet, session, adding, caller, loop,
          matched, faults

VARIABLES
    conn,      \* where handleConnections stands, and the blocks it loaded
    registry,  \* clients, the map of each instance: user -> connection
    rows,      \* the table blocks
    call,      \* where each block call stands
    doneAtPop, \* history: the calls that had returned at a loop's last pop
    env        \* the joins and calls that may come, whether a user may connect
               \* while an older connection lives, and how many faults happen

MM == INSTANCE MatchMaker

mmVars == <<queue, enqueuedAt, blockSet, session, adding, caller, loop,
            matched, faults>>
connVars == <<conn, registry>>
callVars == <<rows, call>>
vars == <<mmVars, connVars, callVars, doneAtPop, env>>

ConnPc == {"new", "hydrate", "upgrade", "init", "add",
           "reading", "unregister", "remove", "delsession", "clear", "done",
           "failed"}

Stage == {"none", "first", "first-sadd", "second", "second-sadd", "done"}

\* What the type of every variable is.
TypeOK ==
    /\ MM!TypeOK
    /\ conn \in [Join -> [pc : ConnPc, loaded : SUBSET User]]
    /\ registry \in [Instance -> [User -> Join \cup {None}]]
    /\ rows \subseteq BlockRows
    /\ call \in [BlockCalls -> [stage : Stage, live : SUBSET Join]]
    /\ doneAtPop \in [Instance -> SUBSET BlockCalls]
    /\ env \in Environments
    /\ faults <= env.faults

Init ==
    /\ MM!Init
    /\ conn = [c \in Join |-> [pc |-> "new", loaded |-> {}]]
    /\ registry = [i \in Instance |-> [u \in User |-> None]]
    /\ rows = InitialRows
    /\ call = [p \in BlockCalls |-> [stage |-> "none", live |-> {}]]
    /\ doneAtPop = [i \in Instance |-> {}]
    /\ env \in Environments

ConnGoes(c, from, to) ==
    /\ conn[c].pc = from
    /\ conn' = [conn EXCEPT ![c].pc = to]

-----------------------------------------------------------------------------
(***************************************************************************)
(* handleConnections, up to the read loop.                                 *)
(***************************************************************************)
\* No handler runs for c, before or after its life.
Gone(c) == conn[c].pc \in {"new", "done", "failed"}

Others(c) == {d \in Join \ {c} : UserOf[d] = UserOf[c]}

MayConnect(c) ==
    /\ c \in env.joins
    /\ env.overlap \/ \A d \in Others(c) : Gone(d)

\* The request is admitted, and loadUserBlocks returns the user's blocks.
Load(c) ==
    /\ conn[c].pc = "new"
    /\ MayConnect(c)
    /\ conn' = [conn EXCEPT ![c] =
                  [pc |-> "hydrate",
                   loaded |-> {v \in User : <<UserOf[c], v>> \in rows}]]
    /\ UNCHANGED <<mmVars, registry, callVars, doneAtPop>>

\* A failure of loadUserBlocks is not fatal, and skips the hydration.
LoadFails(c) ==
    /\ ConnGoes(c, "new", "upgrade")
    /\ MayConnect(c)
    /\ MM!CallFails
    /\ UNCHANGED <<registry, callVars, doneAtPop>>

Hydrate(c) ==
    /\ ConnGoes(c, "hydrate", "upgrade")
    /\ \/ MM!HydrateBlocks(UserOf[c], conn[c].loaded)
       \/ MM!CallFails
    /\ UNCHANGED <<registry, callVars, doneAtPop>>

\* The handler returns before it has deferred its cleanup.
UpgradeFails(c) ==
    /\ ConnGoes(c, "upgrade", "failed")
    /\ UNCHANGED <<mmVars, registry, callVars, doneAtPop>>

\* Upgrade, then clients[clientID] = client, whatever was there.
Register(c) ==
    /\ ConnGoes(c, "upgrade", "init")
    /\ registry' = [registry EXCEPT ![HomeOf[c]][UserOf[c]] = c]
    /\ UNCHANGED <<mmVars, callVars, doneAtPop>>

\* Wrong: the cleanup is not yet deferred when the init message fails.
SendInitLeaves(c) ==
    /\ ConnGoes(c, "init", "add") \/ ConnGoes(c, "init", "done")
    /\ UNCHANGED <<mmVars, registry, callVars, doneAtPop>>

\* The init message is written, or the handler goes to its cleanup.
SendInit(c) ==
    /\ ConnGoes(c, "init", "add") \/ ConnGoes(c, "init", "unregister")
    /\ UNCHANGED <<mmVars, registry, callVars, doneAtPop>>

\* matchMaker.Add; the read loop follows.
Enqueue(c) ==
    /\ \/ /\ conn[c].pc = "add"
          /\ MM!RPush(c)
          /\ UNCHANGED conn
       \/ /\ ConnGoes(c, "add", "reading")
          /\ MM!RPushFails(c) \/ MM!HSet(c) \/ MM!HSetFails(c)
    /\ UNCHANGED <<registry, callVars, doneAtPop>>

\* ReadJSON fails: the client left, or stopped answering pings.
ReadEnds(c) ==
    /\ ConnGoes(c, "reading", "unregister")
    /\ UNCHANGED <<mmVars, registry, callVars, doneAtPop>>

-----------------------------------------------------------------------------
(***************************************************************************)
(* The deferred cleanup of handleConnections.                              *)
(***************************************************************************)
\* Wrong: the whole map is reset.
UnregisterAll(c) ==
    /\ ConnGoes(c, "unregister", "remove")
    /\ registry' = [registry EXCEPT ![HomeOf[c]] = [u \in User |-> None]]
    /\ UNCHANGED <<mmVars, callVars, doneAtPop>>

\* delete(clients, clientID), whichever connection is registered there.
Unregister(c) ==
    /\ ConnGoes(c, "unregister", "remove")
    /\ registry' = [registry EXCEPT ![HomeOf[c]][UserOf[c]] = None]
    /\ UNCHANGED <<mmVars, callVars, doneAtPop>>

\* Wrong: Remove leaves the time stamp.
DequeueKeepsStamp(c) ==
    /\ ConnGoes(c, "remove", "delsession")
    /\ MM!LRemove(c)
    /\ UNCHANGED <<registry, callVars, doneAtPop>>

\* matchMaker.Remove.
Dequeue(c) ==
    /\ \/ /\ conn[c].pc = "remove"
          /\ MM!LRemove(c)
          /\ UNCHANGED conn
       \/ /\ ConnGoes(c, "remove", "delsession")
          /\ MM!LRemoveFails(c) \/ MM!HDel(c) \/ MM!HDelFails(c)
    /\ UNCHANGED <<registry, callVars, doneAtPop>>

DropSession(c) ==
    /\ ConnGoes(c, "delsession", "clear")
    /\ \/ MM!DeleteSession(UserOf[c])
       \/ MM!CallFails
    /\ UNCHANGED <<registry, callVars, doneAtPop>>

DropBlocks(c) ==
    /\ ConnGoes(c, "clear", "done")
    /\ \/ MM!ClearBlocks(UserOf[c])
       \/ MM!CallFails
    /\ UNCHANGED <<registry, callVars, doneAtPop>>

-----------------------------------------------------------------------------
(***************************************************************************)
(* The calls of /block and /report: both rows are committed, then AddBlock *)
(* runs for each direction.  The handler continues whatever AddBlock does. *)
(***************************************************************************)
\* The connections of u that were hydrated with at least one block and have
\* not cleared the set since.
HoldsSet(c) ==
    /\ conn[c].loaded # {}
    /\ conn[c].pc \in {"init", "add", "reading", "unregister",
                       "remove", "delsession", "clear"}

InsertBlock(p) ==
    /\ p \in env.calls
    /\ call[p].stage = "none"
    /\ rows' = rows \cup {p, <<p[2], p[1]>>}
    /\ call' = [call EXCEPT ![p] =
                  [stage |-> "first",
                   live |-> {c \in Join : UserOf[c] \in {p[1], p[2]}
                                             /\ HoldsSet(c)}]]
    /\ UNCHANGED <<mmVars, connVars, doneAtPop>>

CallGoes(p, from, to) ==
    /\ call[p].stage = from
    /\ call' = [call EXCEPT ![p].stage = to]

\* One AddBlock(blocker, blocked), its EXISTS and then its SADD.
AddBlock(p, blocker, blocked, exists, sadd, next) ==
    \/ /\ CallGoes(p, exists, sadd)
       /\ MM!AddBlockExists(blocker, blocked)
    \/ /\ CallGoes(p, exists, next)
       /\ blockSet[blocker] = {}
       /\ UNCHANGED mmVars
    \/ /\ CallGoes(p, exists, next)
       /\ MM!CallFails
    \/ /\ CallGoes(p, sadd, next)
       /\ \/ MM!AddBlockSAdd(blocker, blocked)
          \/ MM!AddBlockSAddFails(blocker, blocked)

\* Wrong: the two calls pass their arguments in the same order, so that only
\* the blocked user's set learns of the block.
AddBlocksOneWay(p) ==
    /\ \/ AddBlock(p, p[2], p[1], "first", "first-sadd", "second")
       \/ AddBlock(p, p[2], p[1], "second", "second-sadd", "done")
    /\ UNCHANGED <<rows, connVars, doneAtPop>>

AddBlocks(p) ==
    /\ \/ AddBlock(p, p[1], p[2], "first", "first-sadd", "second")
       \/ AddBlock(p, p[2], p[1], "second", "second-sadd", "done")
    /\ UNCHANGED <<rows, connVars, doneAtPop>>

-----------------------------------------------------------------------------
(***************************************************************************)
(* The matching loops, the delivery of what they publish, and crashes.     *)
(***************************************************************************)
Returned == {p \in BlockCalls : call[p].stage = "done"}

LoopTurn(i) ==
    /\ MM!LoopStep(i) \/ MM!LoopFails(i)
    /\ doneAtPop' = IF loop[i].pc = "pop"
                    THEN [doneAtPop EXCEPT ![i] = Returned]
                    ELSE doneAtPop
    /\ UNCHANGED <<connVars, callVars>>

\* The process dies without running any cleanup.
Crash(i) ==
    /\ MM!Crash(i)
    /\ conn' = [c \in Join |->
                  IF HomeOf[c] = i /\ conn[c].pc # "new"
                  THEN [conn[c] EXCEPT !.pc = "done"]
                  ELSE conn[c]]
    /\ registry' = [registry EXCEPT ![i] = [u \in User |-> None]]
    /\ UNCHANGED <<callVars, doneAtPop>>

-----------------------------------------------------------------------------
Connection(c) ==
    \/ Load(c) \/ LoadFails(c) \/ Hydrate(c)
    \/ UpgradeFails(c) \/ Register(c) \/ SendInit(c) \/ Enqueue(c) \/ ReadEnds(c)
    \/ Unregister(c) \/ Dequeue(c) \/ DropSession(c) \/ DropBlocks(c)

Next ==
    /\ \/ \E c \in Join : Connection(c)
       \/ \E p \in BlockCalls : InsertBlock(p) \/ AddBlocks(p)
       \/ \E i \in Instance : LoopTurn(i) \/ Crash(i)
    /\ faults' <= env.faults
    /\ env' = env

Spec == Init /\ [][Next]_vars

-----------------------------------------------------------------------------
(***************************************************************************)
(* Properties.                                                             *)
(***************************************************************************)
\* handleMessage: the connection to which instance i relays a message for u.
Target(i, u) == registry[i][u]

\* No user's connections overlap, and nothing has failed.
Undisturbed == ~env.overlap /\ faults = 0

\* A registry entry is a connection of that user on that instance that has not
\* been cleaned up, although the cleanup deletes, and the registration
\* replaces, whatever entry it finds: no message is ever relayed to a
\* connection that is closed for good (clients, handleConnections).
RegistryIsLive ==
    \A i \in Instance, u \in User :
        LET c == Target(i, u)
        IN  c # None => /\ UserOf[c] = u /\ HomeOf[c] = i
                        /\ conn[c].pc \in {"init", "add",
                                           "reading", "unregister"}

\* Once the last connection of a user is cleaned up no enqueue time of that
\* user is left, even when its connections overlap and loops hold or match its
\* entries meanwhile, and unless a command fails or a process crashes
\* ("so the hash does not grow", observeMatchLatency).
NoStampLeaks ==
    faults = 0 =>
        \A u \in enqueuedAt : \E c \in Join : UserOf[c] = u /\ ~Gone(c)

\* A loop announces a pair only if neither connection, while it is connected,
\* was hydrated with a block on the other's user (HydrateBlocks, pairBlocked),
\* unless connections of one user overlap or something failed.
LoadedBlocksHonoured ==
    Undisturbed => \A i \in Instance :
        loop[i].pc = "observe" =>
            LET c == loop[i].id1
                d == loop[i].id2
            IN  /\ conn[c].pc \in {"add", "reading"} => UserOf[d] \notin conn[c].loaded
                /\ conn[d].pc \in {"add", "reading"} => UserOf[c] \notin conn[d].loaded

\* A block call made while a connection of one side held a block set has put
\* the other side into that set when it returns, whatever connections come and
\* go meanwhile, one after the other, and unless something failed (AddBlock's
\* EXISTS and SADD are not atomic).
BlockReachesLiveSet ==
    Undisturbed => \A p \in Returned : \A c \in call[p].live :
        HoldsSet(c) => ({p[1], p[2]} \ {UserOf[c]}) \subseteq blockSet[UserOf[c]]

\* The pairs that were matched and still read on both sides.
ReadingPairs ==
    {pair \in matched : \A n \in {1, 2} : conn[pair[n]].pc = "reading"}

\* Another connection of the user of c has been registered beside c.
Displaced(c) ==
    /\ env.overlap
    /\ \E d \in Others(c) : HomeOf[d] = HomeOf[c]
                             /\ conn[d].pc \notin {"new", "hydrate", "upgrade"}

\* What one of a matched pair sends reaches the other if, and only if, the same
\* instance serves both: handleMessage looks into the map of its own process.
\* The "if" holds whatever fails, and fails only for a connection beside which
\* its user has registered another one.
PeersReachable ==
    \A pair \in ReadingPairs : \A c, d \in {pair[1], pair[2]} :
        /\ Target(HomeOf[c], UserOf[d]) = d => HomeOf[c] = HomeOf[d]
        /\ HomeOf[c] = HomeOf[d] =>
              Target(HomeOf[c], UserOf[d]) = d \/ Displaced(d)

\* What DESIGN.md says: "Once matched, the Go server purely relays messages
\* between User A and User B".  It does not hold where two instances serve them.
PairsAlwaysReachable ==
    Undisturbed => \A pair \in ReadingPairs :
        Target(HomeOf[pair[1]], UserOf[pair[2]]) = pair[2]

\* The queue holds no entry of a user all of whose connections are cleaned up
\* ("Remove from match queue if still waiting").
NoGhostEntries ==
    \A e \in MM!Entries : \E c \in Join : UserOf[c] = UserOf[e] /\ ~Gone(c)

\* Once every connection of a user has run its cleanup, the user has no block
\* set (AddBlock is a "no-op if the blocker has no Redis set (offline)").
OfflineHasNoBlockSet ==
    \A u \in User : blockSet[u] # {} =>
        \E c \in Join : UserOf[c] = u /\ conn[c].pc \notin {"new", "done"}

\* Users between whom a block call had returned before they were popped are
\* not matched while both are connected ("so the matchmaker honors it on the
\* next pop", blockHandler).
ReturnedBlockHonoured ==
    \A i \in Instance :
        loop[i].pc = "observe" =>
            \A p \in doneAtPop[i] : {p[1], p[2]} # {MM!User1(i), MM!User2(i)}

\* A connection that is in its read loop, has pushed its entry and was not
\* popped is still in the queue ("added to a pool of waiting users").
EveryWaiterIsPooled ==
    \A c \in Join :
        conn[c].pc = "reading" => c \in MM!Entries \cup MM!InHand \cup MM!Matched

\* The same when no connection of its user comes before its time and nothing
\* fails: no one else takes the entry out (Remove, processMatches).
WaitingIsPooled == Undisturbed => EveryWaiterIsPooled

\* No user is matched with itself: the script returns a pair only when two
\* users are waiting.
NoSelfMatch == \A pair \in matched : UserOf[pair[1]] # UserOf[pair[2]]

=============================================================================
