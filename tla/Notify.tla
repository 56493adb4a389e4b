-------------------------------- MODULE Notify --------------------------------
(***************************************************************************)
(* How a client learns of its match: handleConnections subscribes to the   *)
(* channel of its user, enqueues the user, and forwards what it hears; the *)
(* matching loops publish to the channels of both users of a pair.         *)
(*                                                                         *)
(* The queue is that of MatchMaker without its order, the block sets and   *)
(* the failures: a loop may pop any two entries.  rdb.Subscribe writes the *)
(* SUBSCRIBE command to a connection of its own and does not wait for the  *)
(* reply, so that Redis may execute later commands of other connections    *)
(* first.  Redis delivers a message to those who are subscribed when it is *)
(* published, and keeps it for nobody else.                                *)
(***************************************************************************)
EXTENDS Integers, FiniteSets

CONSTANTS Conn, User, UserOf, Instance, None

ASSUME NotifyAssumption ==
    /\ UserOf \in [Conn -> User]
    /\ None \notin Conn

VARIABLES
    conn,        \* where handleConnections stands
    asked,       \* the SUBSCRIBE commands on their way to Redis
    subscribed,  \* those that Redis has executed
    queue,       \* the connections with an entry in the queue
    loop,        \* the pair that a loop is announcing
    inbox,       \* the messages Redis has delivered to a subscription
    heard,       \* the match messages written to a client, while it is connected
    prompt       \* history: those of them that were subscribed when popped

vars == <<conn, asked, subscribed, queue, loop, inbox, heard, prompt>>

ConnPc == {"new", "add", "reading", "remove", "closed"}

Idle == [pc |-> "pop", first |-> None, second |-> None]

\* A subscription, with the messages it has received, does not outlive the read
\* loop of its connection.
SubscribedInUse ==
    \A c \in Conn : conn[c] \notin {"add", "reading"} =>
                      c \notin asked \cup subscribed /\ inbox[c] = {}

\* What the type of every variable is.
TypeOK ==
    /\ conn \in [Conn -> ConnPc]
    /\ {asked, subscribed, queue, prompt} \subseteq SUBSET Conn
    /\ asked \cap subscribed = {}
    /\ loop \in [Instance -> [pc : {"pop", "notify1", "notify2"},
                              first : Conn \cup {None},
                              second : Conn \cup {None}]]
    /\ \A i \in Instance : loop[i].pc # "pop" =>
                              loop[i].first \in Conn /\ loop[i].second \in Conn
    /\ inbox \in [Conn -> SUBSET Conn]
    /\ SubscribedInUse
    /\ heard \in [Conn -> SUBSET Conn]

Init ==
    /\ conn = [c \in Conn |-> "new"]
    /\ asked = {}
    /\ subscribed = {}
    /\ queue = {}
    /\ loop = [i \in Instance |-> Idle]
    /\ inbox = [c \in Conn |-> {}]
    /\ heard = [c \in Conn |-> {}]
    /\ prompt = {}

Goes(c, from, to) ==
    /\ conn[c] = from
    /\ conn' = [conn EXCEPT ![c] = to]

-----------------------------------------------------------------------------
Others(c) == {d \in Conn \ {c} : UserOf[d] = UserOf[c]}

\* The init message is sent, and the SUBSCRIBE written.
Subscribe(c) ==
    /\ Goes(c, "new", "add")
    /\ \A d \in Others(c) : conn[d] \in {"new", "closed"}
    /\ asked' = asked \cup {c}
    /\ UNCHANGED <<subscribed, queue, loop, inbox, heard, prompt>>

RedisSubscribes(c) ==
    /\ c \in asked
    /\ asked' = asked \ {c}
    /\ subscribed' = subscribed \cup {c}
    /\ UNCHANGED <<conn, queue, loop, inbox, heard, prompt>>

Add(c) ==
    /\ Goes(c, "add", "reading")
    /\ queue' = queue \cup {c}
    /\ UNCHANGED <<asked, subscribed, loop, inbox, heard, prompt>>

\* The goroutine over notifySub.Channel() writes the match message.
Forward(c, peer) ==
    /\ peer \in inbox[c]
    /\ inbox' = [inbox EXCEPT ![c] = @ \ {peer}]
    /\ heard' = [heard EXCEPT ![c] = @ \cup {peer}]
    /\ UNCHANGED <<conn, asked, subscribed, queue, loop, prompt>>

\* Wrong: the subscription is never closed.
UnsubscribeForgotten(c) ==
    /\ Goes(c, "reading", "remove")
    /\ UNCHANGED <<asked, subscribed, inbox, queue, loop, heard, prompt>>

\* The read loop ends.  notifySub.Close is the first of the deferred calls.
Unsubscribe(c) ==
    /\ Goes(c, "reading", "remove")
    /\ asked' = asked \ {c}
    /\ subscribed' = subscribed \ {c}
    /\ inbox' = [inbox EXCEPT ![c] = {}]
    /\ UNCHANGED <<queue, loop, heard, prompt>>

\* matchMaker.Remove, and the rest of the cleanup.
Remove(c) ==
    /\ Goes(c, "remove", "closed")
    /\ queue' = {d \in queue : UserOf[d] # UserOf[c]}
    /\ heard' = [heard EXCEPT ![c] = {}]
    /\ prompt' = prompt \ {c}
    /\ UNCHANGED <<asked, subscribed, loop, inbox>>

-----------------------------------------------------------------------------
\* Wrong: the entries stay in the queue.
PopTwice(i) ==
    /\ loop[i].pc = "pop"
    /\ \E c, d \in queue :
          /\ c # d
          /\ loop' = [loop EXCEPT ![i] = [pc |-> "notify1", first |-> c,
                                          second |-> d]]
          /\ prompt' = prompt \cup ({c, d} \cap subscribed)
    /\ UNCHANGED <<conn, asked, subscribed, queue, inbox, heard>>

PopPair(i) ==
    /\ loop[i].pc = "pop"
    /\ \E c, d \in queue :
          /\ c # d
          /\ queue' = queue \ {c, d}
          /\ loop' = [loop EXCEPT ![i] = [pc |-> "notify1", first |-> c,
                                          second |-> d]]
          /\ prompt' = prompt \cup ({c, d} \cap subscribed)
    /\ UNCHANGED <<conn, asked, subscribed, inbox, heard>>

\* Publish reaches every subscription of the user of c.
Publish(c, peer) ==
    inbox' = [d \in Conn |-> IF d \in subscribed /\ UserOf[d] = UserOf[c]
                             THEN inbox[d] \cup {peer} ELSE inbox[d]]

Notify1(i) ==
    /\ loop[i].pc = "notify1"
    /\ loop' = [loop EXCEPT ![i].pc = "notify2"]
    /\ Publish(loop[i].first, loop[i].second)
    /\ UNCHANGED <<conn, asked, subscribed, queue, heard, prompt>>

\* Wrong: only the first user of the pair is notified.
Notify2Skipped(i) ==
    /\ loop[i].pc = "notify2"
    /\ loop' = [loop EXCEPT ![i] = Idle]
    /\ UNCHANGED <<conn, asked, subscribed, queue, inbox, heard, prompt>>

Notify2(i) ==
    /\ loop[i].pc = "notify2"
    /\ loop' = [loop EXCEPT ![i] = Idle]
    /\ Publish(loop[i].second, loop[i].first)
    /\ UNCHANGED <<conn, asked, subscribed, queue, heard, prompt>>

-----------------------------------------------------------------------------
LoopStep(i) == PopPair(i) \/ Notify1(i) \/ Notify2(i)

Forwards(c) == \E peer \in Conn : Forward(c, peer)

Next ==
    \/ \E c \in Conn : \/ Subscribe(c) \/ RedisSubscribes(c) \/ Add(c)
                       \/ Forwards(c) \/ Unsubscribe(c) \/ Remove(c)
    \/ \E i \in Instance : LoopStep(i)

\* The loops and the forwarding goroutines keep going.
Spec ==
    /\ Init
    /\ [][Next]_vars
    /\ \A i \in Instance : WF_vars(LoopStep(i))
    /\ \A c \in Conn : WF_vars(Forwards(c))

-----------------------------------------------------------------------------
(***************************************************************************)
(* Properties.                                                             *)
(***************************************************************************)
Announced(c) == \E i \in Instance : c \in {loop[i].first, loop[i].second}

Left(c) == conn[c] \in {"remove", "closed"}

\* A connection that was popped after Redis had executed its SUBSCRIBE hears of
\* a peer, unless it leaves first.
PromptSubscribersHear ==
    \A c \in Conn : (c \in prompt) ~> (heard[c] # {} \/ Left(c))

\* A client that has connected once hears of at most one peer, and only of one
\* that was popped together with it: it is never asked to call two strangers.
HeardOnce ==
    \A c \in Conn : Others(c) = {} =>
        /\ Cardinality(heard[c] \cup inbox[c]) <= 1
        /\ \A d \in heard[c] : Others(d) = {} => heard[d] \cup inbox[d] \subseteq {c}

\* A connection that stays hears of its match, once the loop has published it
\* ("so we never miss a notification published by any backend instance").
NoMatchMissed ==
    \A c \in Conn :
        (conn[c] = "reading" /\ c \notin queue /\ ~Announced(c))
            => heard[c] \cup inbox[c] # {}
=============================================================================
