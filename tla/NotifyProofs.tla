----------------------------- MODULE NotifyProofs -----------------------------
(***************************************************************************)
(* Proofs about Notify for any number of users, connections and instances: *)
(* type correctness, and that a client hears of one peer at most.          *)
(***************************************************************************)
EXTENDS Notify, FiniteSetTheorems, TLAPS

-----------------------------------------------------------------------------
(***************************************************************************)
(* The inductive invariant.  What a client may hear of is decided by the   *)
(* one pop of its entry, so the invariant follows the entry from the queue *)
(* through the two publishes of a loop.                                    *)
(***************************************************************************)
\* The only connection of its user, now and ever.
Single(c) == Others(c) = {}

\* What a client has heard of or is about to hear of.
Got(c) == heard[c] \cup inbox[c]

\* The pair that a loop is announcing.
Announces(i) ==
    IF loop[i].pc = "pop" THEN {} ELSE {loop[i].first, loop[i].second}

\* No loop has popped c: it has heard of nobody, and nobody of it.
Unpopped(c) ==
    /\ \A i \in Instance : c \notin Announces(i)
    /\ Single(c) => Got(c) = {}
    /\ \A b \in Conn : Single(b) => c \notin Got(b)

WaitingInv ==
    /\ \A c \in Conn : conn[c] \in {"new", "add"} \/ c \in queue => Unpopped(c)
    /\ \A c \in queue : conn[c] \notin {"new", "add"}

\* A connection is announced by one loop, with another connection.
PlaceInv ==
    /\ \A i \in Instance : loop[i].pc # "pop" => loop[i].first # loop[i].second
    /\ \A i, k \in Instance : i # k => Announces(i) \cap Announces(k) = {}

\* Before the first publish neither has heard, nor been heard of; before the
\* second, the first may have heard of the second.
Silent(c, d) ==
    /\ Single(c) => Got(c) = {}
    /\ Single(d) => Got(d) = {}
    /\ \A b \in Conn : Single(b) => c \notin Got(b) /\ d \notin Got(b)

HalfTold(c, d) ==
    /\ Single(c) => Got(c) \subseteq {d}
    /\ Single(d) => Got(d) = {}
    /\ \A b \in Conn : Single(b) => c \notin Got(b) /\ (d \in Got(b) => b = c)

LoopInv ==
    \A i \in Instance :
        /\ loop[i].pc = "notify1" => Silent(loop[i].first, loop[i].second)
        /\ loop[i].pc = "notify2" => HalfTold(loop[i].first, loop[i].second)

\* Who has heard has heard of one, who has heard of nobody else.
PairInv ==
    \A c \in Conn : Single(c) => \A d \in Got(c) :
        /\ Got(c) = {d}
        /\ d \in Conn /\ (Single(d) => Got(d) \subseteq {c})

Inv == TypeOK /\ WaitingInv /\ PlaceInv /\ LoopInv /\ PairInv

\* Nobody has come, and no loop announces a pair.
LEMMA InitInv == Init => Inv
<1> SUFFICES ASSUME Init
             PROVE  Inv
    OBVIOUS
<1>1. TypeOK
    <2>1. SubscribedInUse
        BY DEF Init, SubscribedInUse
    <2> QED
        BY <2>1 DEF Init, TypeOK, ConnPc, Idle
<1>2. /\ \A c \in Conn : Got(c) = {}
      /\ \A i \in Instance : loop[i].pc = "pop"
      /\ queue = {}
    BY DEF Init, Got, Idle
<1> QED
    BY <1>1, <1>2
    DEF Init, Inv, WaitingInv, Unpopped, PlaceInv, LoopInv, PairInv,
        Announces

-----------------------------------------------------------------------------
(***************************************************************************)
(* The steps of a connection: it hears of nobody new.                      *)
(***************************************************************************)
ConnStep(c) ==
    \/ Subscribe(c) \/ RedisSubscribes(c) \/ Add(c)
    \/ Forwards(c) \/ Unsubscribe(c) \/ Remove(c)

\* No step of a connection leaves a subscription behind.
LEMMA ConnSubscribed ==
    ASSUME TypeOK, NEW c \in Conn, ConnStep(c)
    PROVE  SubscribedInUse'
<1>1. CASE Subscribe(c)
    BY <1>1 DEF Subscribe, Goes, TypeOK, SubscribedInUse, ConnPc
<1>2. CASE RedisSubscribes(c)
    BY <1>2 DEF RedisSubscribes, TypeOK, SubscribedInUse
<1>3. CASE Add(c)
    BY <1>3 DEF Add, Goes, TypeOK, SubscribedInUse
<1>4. CASE Forwards(c)
    <2>1. PICK peer \in Conn : Forward(c, peer)
        BY <1>4 DEF Forwards
    <2> QED
        BY <2>1 DEF Forward, TypeOK, SubscribedInUse
<1>5. CASE Unsubscribe(c)
    BY <1>5 DEF Unsubscribe, Goes, TypeOK, SubscribedInUse
<1>6. CASE Remove(c)
    BY <1>6 DEF Remove, Goes, TypeOK, SubscribedInUse
<1> QED
    BY <1>1, <1>2, <1>3, <1>4, <1>5, <1>6 DEF ConnStep

\* Every variable keeps its type: nobody subscribes twice.
LEMMA ConnTyped ==
    ASSUME TypeOK, NEW c \in Conn, ConnStep(c)
    PROVE  TypeOK'
<1>1. conn' \in [Conn -> ConnPc] /\ SubscribedInUse'
    <2>1. conn' \in [Conn -> ConnPc]
        BY DEF ConnStep, Subscribe, RedisSubscribes, Add, Forwards, Forward,
               Unsubscribe, Remove, Goes, TypeOK, ConnPc
    <2> QED
        BY <2>1, ConnSubscribed
<1>2. CASE Subscribe(c)
    <2>1. /\ c \notin asked /\ c \notin subscribed
          /\ asked' = asked \cup {c}
          /\ UNCHANGED <<subscribed, queue, loop, inbox, heard, prompt>>
        BY <1>2 DEF Subscribe, Goes, TypeOK, SubscribedInUse
    <2> QED
        BY <1>1, <2>1 DEF TypeOK
<1>3. CASE ~Subscribe(c)
    <2>1. /\ asked' \cup subscribed' \subseteq asked \cup subscribed
          /\ asked' \cap subscribed' = {}
          /\ queue' \subseteq Conn /\ prompt' \subseteq Conn
          /\ loop' = loop
        BY <1>3
        DEF ConnStep, RedisSubscribes, Add, Forwards, Forward, Unsubscribe,
            Remove, TypeOK
    <2>2. inbox' \in [Conn -> SUBSET Conn] /\ heard' \in [Conn -> SUBSET Conn]
        BY <1>3
        DEF ConnStep, RedisSubscribes, Add, Forwards, Forward, Unsubscribe,
            Remove, TypeOK
    <2> QED
        BY <1>1, <2>1, <2>2 DEF TypeOK
<1> QED
    BY <1>2, <1>3

\* It hears of nobody new, and enters the queue once, if it has not been popped.
LEMMA ConnHears ==
    ASSUME TypeOK, WaitingInv, NEW c \in Conn, ConnStep(c)
    PROVE  /\ loop' = loop
           /\ \A d \in Conn : Got(d)' \subseteq Got(d)
           /\ \A d \in Conn : conn'[d] \in {"new", "add"} \/ d \in queue' =>
                                conn[d] \in {"new", "add"} \/ d \in queue
           /\ \A d \in queue' : conn'[d] \notin {"new", "add"}
<1>1. loop' = loop
    BY DEF ConnStep, Subscribe, RedisSubscribes, Add, Forwards, Forward,
           Unsubscribe, Remove
<1>2. ASSUME NEW d \in Conn
      PROVE  Got(d)' \subseteq Got(d)
    BY DEF ConnStep, Subscribe, RedisSubscribes, Add, Forwards, Forward,
           Unsubscribe, Remove, TypeOK, Got
<1>3. ASSUME NEW d \in Conn
      PROVE  /\ conn'[d] \in {"new", "add"} => conn[d] \in {"new", "add"}
             /\ d \in queue' => d \in queue \/ conn[d] = "add"
             /\ d \in queue' => conn'[d] \notin {"new", "add"}
    <2>1. CASE Add(c)
        BY <2>1 DEF Add, Goes, TypeOK, WaitingInv
    <2>2. CASE ~Add(c)
        BY <2>2
        DEF ConnStep, Subscribe, RedisSubscribes, Forwards, Forward,
            Unsubscribe, Remove, Goes, TypeOK, WaitingInv
    <2> QED
        BY <2>1, <2>2
<1>4. queue' \subseteq Conn
    BY DEF ConnStep, Subscribe, RedisSubscribes, Add, Forwards, Forward,
           Unsubscribe, Remove, TypeOK
<1> QED
    BY <1>1, <1>2, <1>3, <1>4

\* So it keeps the invariant.
LEMMA ConnInv ==
    ASSUME Inv, NEW c \in Conn, ConnStep(c)
    PROVE  Inv'
<1>1. TypeOK'
    BY ConnTyped DEF Inv
<1>2. /\ loop' = loop
      /\ \A d \in Conn : Got(d)' \subseteq Got(d)
      /\ \A d \in Conn : conn'[d] \in {"new", "add"} \/ d \in queue' =>
                           conn[d] \in {"new", "add"} \/ d \in queue
      /\ \A d \in queue' : conn'[d] \notin {"new", "add"}
      /\ queue' \subseteq Conn
    BY <1>1, ConnHears DEF Inv, TypeOK
<1>3. \A i \in Instance : Announces(i)' = Announces(i)
    BY <1>2 DEF Announces
<1> HIDE DEF Got, Announces, Single
<1>4. \A d \in Conn : Single(d)' = Single(d)
    BY DEF Single, Others
<1>5. WaitingInv'
    BY <1>2, <1>3, <1>4 DEF Inv, WaitingInv, Unpopped
<1>6. PlaceInv'
    BY <1>2, <1>3 DEF Inv, PlaceInv
<1>7. LoopInv'
    <2>1. ASSUME NEW i \in Instance, loop[i].pc # "pop"
          PROVE  loop[i].first \in Conn /\ loop[i].second \in Conn
        BY <2>1 DEF Inv, TypeOK
    <2> QED
        BY <1>2, <1>4, <2>1 DEF Inv, LoopInv, Silent, HalfTold
<1>8. PairInv'
    <2>1. ASSUME NEW b \in Conn, Single(b), NEW d \in Got(b)'
          PROVE  Got(b)' = {d} /\ d \in Conn /\ (Single(d) => Got(d)' \subseteq {b})
        BY <1>2, <2>1 DEF Inv, PairInv
    <2> QED
        BY <1>4, <2>1 DEF PairInv
<1> QED
    BY <1>1, <1>5, <1>6, <1>7, <1>8 DEF Inv

-----------------------------------------------------------------------------
(***************************************************************************)
(* The steps of a loop.                                                    *)
(***************************************************************************)
\* A loop keeps the types.
LEMMA LoopTyped ==
    ASSUME TypeOK, NEW i \in Instance, LoopStep(i)
    PROVE  /\ TypeOK'
           /\ \A k \in Instance \ {i} : loop'[k] = loop[k]
<1>1. CASE PopPair(i)
    <2>1. PICK c \in queue, d \in queue :
              /\ queue' = queue \ {c, d}
              /\ loop' = [loop EXCEPT ![i] = [pc |-> "notify1", first |-> c,
                                              second |-> d]]
              /\ prompt' = prompt \cup ({c, d} \cap subscribed)
              /\ UNCHANGED <<conn, asked, subscribed, inbox, heard>>
        BY <1>1 DEF PopPair
    <2>2. SubscribedInUse'
        BY <2>1 DEF TypeOK, SubscribedInUse
    <2> QED
        BY <2>1, <2>2 DEF TypeOK
<1>2. CASE Notify1(i) \/ Notify2(i)
    <2>1. inbox' \in [Conn -> SUBSET Conn]
        BY <1>2 DEF Notify1, Notify2, Publish, TypeOK
    <2>2. /\ loop' \in [Instance -> [pc : {"pop", "notify1", "notify2"},
                                     first : Conn \cup {None},
                                     second : Conn \cup {None}]]
          /\ \A k \in Instance \ {i} : loop'[k] = loop[k]
          /\ loop'[i].pc # "pop" =>
                loop'[i].first \in Conn /\ loop'[i].second \in Conn
        <3>1. CASE Notify1(i)
            BY <3>1 DEF Notify1, TypeOK
        <3>2. CASE Notify2(i)
            <4>1. /\ loop' = [loop EXCEPT ![i] = Idle]
                  /\ Idle \in [pc : {"pop", "notify1", "notify2"},
                                first : Conn \cup {None},
                                second : Conn \cup {None}]
                  /\ Idle.pc = "pop"
                BY <3>2 DEF Notify2, Idle
            <4> QED
                BY <4>1 DEF TypeOK
        <3> QED
            BY <1>2, <3>1, <3>2
    <2>3. UNCHANGED <<conn, asked, subscribed, queue, heard, prompt>>
        BY <1>2 DEF Notify1, Notify2
    <2>4. \A k \in Instance : loop'[k].pc # "pop" =>
              loop'[k].first \in Conn /\ loop'[k].second \in Conn
        BY <2>2 DEF TypeOK
    <2>5. SubscribedInUse'
        BY <1>2, <2>3
        DEF Notify1, Notify2, Publish, TypeOK, SubscribedInUse
    <2> QED
        BY <2>1, <2>2, <2>3, <2>4, <2>5 DEF TypeOK
<1> QED
    BY <1>1, <1>2 DEF LoopStep

\* popPairScript takes two entries, which no other loop has.
LEMMA PopInv ==
    ASSUME Inv, NEW i \in Instance, PopPair(i)
    PROVE  Inv'
<1>1. TypeOK' /\ \A k \in Instance \ {i} : loop'[k] = loop[k]
    BY LoopTyped DEF Inv, LoopStep
<1>2. PICK c \in queue, d \in queue :
          /\ c # d
          /\ queue' = queue \ {c, d}
          /\ loop' = [loop EXCEPT ![i] = [pc |-> "notify1", first |-> c,
                                          second |-> d]]
          /\ UNCHANGED <<conn, inbox, heard>>
    BY DEF PopPair
<1>3. loop'[i].pc = "notify1" /\ loop'[i].first = c /\ loop'[i].second = d
    BY <1>2 DEF Inv, TypeOK
<1>4. /\ Announces(i)' = {c, d}
      /\ \A k \in Instance \ {i} : Announces(k)' = Announces(k)
    BY <1>1, <1>3 DEF Announces
<1>5. \A b \in Conn : Got(b)' = Got(b) /\ Single(b)' = Single(b)
    BY <1>2 DEF Got, Single, Others
<1>6. /\ c \in Conn /\ Unpopped(c) /\ conn[c] \notin {"new", "add"}
      /\ d \in Conn /\ Unpopped(d) /\ conn[d] \notin {"new", "add"}
    BY DEF Inv, TypeOK, WaitingInv
<1> HIDE DEF Got, Announces, Single
<1>7. WaitingInv'
    <2>1. ASSUME NEW e \in Conn, e # c, e # d, Unpopped(e)
          PROVE  Unpopped(e)'
        BY <1>4, <1>5, <2>1 DEF Unpopped
    <2> QED
        BY <1>2, <1>6, <2>1 DEF Inv, WaitingInv
<1>8. PlaceInv'
    <2>1. \A k \in Instance \ {i} : {c, d} \cap Announces(k) = {}
        BY <1>6 DEF Unpopped
    <2> QED
        BY <1>1, <1>2, <1>3, <1>4, <2>1 DEF Inv, PlaceInv
<1>9. LoopInv'
    <2>1. ASSUME NEW k \in Instance, k # i, loop[k].pc # "pop"
          PROVE  loop[k].first \in Conn /\ loop[k].second \in Conn
        BY <2>1 DEF Inv, TypeOK
    <2>2. Silent(c, d)
        BY <1>6 DEF Unpopped, Silent
    <2> QED
        BY <1>1, <1>3, <1>5, <1>6, <2>1, <2>2
        DEF Inv, LoopInv, Silent, HalfTold
<1>10. PairInv'
    <2>1. ASSUME NEW b \in Conn, Single(b), NEW e \in Got(b)
          PROVE  Got(b) = {e} /\ e \in Conn /\ (Single(e) => Got(e) \subseteq {b})
        BY <2>1 DEF Inv, PairInv
    <2> QED
        BY <1>5, <2>1 DEF PairInv
<1> QED
    BY <1>1, <1>7, <1>8, <1>9, <1>10 DEF Inv

\* What is published for c reaches no other single connection than c.
LEMMA PublishHeard ==
    ASSUME TypeOK, NEW c \in Conn, NEW peer, Publish(c, peer), heard' = heard
    PROVE  \A b \in Conn : Single(b) =>
               Got(b)' \subseteq IF b = c THEN Got(b) \cup {peer} ELSE Got(b)
<1> SUFFICES ASSUME NEW b \in Conn, Single(b)
             PROVE  Got(b)' \subseteq IF b = c THEN Got(b) \cup {peer} ELSE Got(b)
    OBVIOUS
<1>1. UserOf[b] = UserOf[c] => b = c
    BY DEF Single, Others
<1>2. inbox'[b] \subseteq IF b = c THEN inbox[b] \cup {peer} ELSE inbox[b]
    BY <1>1 DEF Publish
<1> QED
    BY <1>2 DEF Got

\* What both publishes have in common: the pair of a loop hears, and nobody
\* else hears or is heard of.
Told(c, peer) ==
    \A b \in Conn : Single(b) =>
        Got(b)' \subseteq IF b = c THEN Got(b) \cup {peer} ELSE Got(b)

\* Those who were not popped stay as they are.
LEMMA ToldWaiting ==
    ASSUME Inv, NEW i \in Instance, loop[i].pc # "pop",
           NEW c \in Announces(i), NEW d \in Announces(i), c \in Conn,
           Told(c, d), UNCHANGED <<conn, queue>>,
           \A k \in Instance : Announces(k)' \subseteq Announces(k)
    PROVE  WaitingInv'
<1>1. \A b \in Conn : Single(b)' = Single(b)
    BY DEF Single, Others
<1> HIDE DEF Got, Announces, Single
<1>2. ASSUME NEW e \in Conn, Unpopped(e)
      PROVE  Unpopped(e)'
    <2>1. e # c /\ e # d
        BY <1>2 DEF Unpopped
    <2>2. Single(e) => Got(e)' = {}
        BY <1>2, <2>1 DEF Unpopped, Told
    <2>3. \A b \in Conn : Single(b) => e \notin Got(b)'
        BY <1>2, <2>1 DEF Unpopped, Told
    <2> QED
        BY <1>1, <1>2, <2>2, <2>3 DEF Unpopped
<1> QED
    BY <1>2 DEF Inv, WaitingInv

\* A pair that neither of the two belongs to stays as it is.
LEMMA ToldOthers ==
    ASSUME NEW c \in Conn, NEW d \in Conn, Told(c, d),
           NEW f \in Conn \ {c, d}, NEW s \in Conn \ {c, d}
    PROVE  /\ Silent(f, s) => Silent(f, s)'
           /\ HalfTold(f, s) => HalfTold(f, s)'
<1>1. \A b \in Conn : Single(b)' = Single(b)
    BY DEF Single, Others
<1> HIDE DEF Got, Single
<1>2. /\ Single(f) => Got(f)' \subseteq Got(f)
      /\ Single(s) => Got(s)' \subseteq Got(s)
      /\ \A b \in Conn : Single(b) => /\ f \in Got(b)' => f \in Got(b)
                                      /\ s \in Got(b)' => s \in Got(b)
    BY DEF Told
<1>3. Silent(f, s) => Silent(f, s)'
    BY <1>1, <1>2 DEF Silent
<1>4. HalfTold(f, s) => HalfTold(f, s)'
    BY <1>1, <1>2 DEF HalfTold
<1> QED
    BY <1>3, <1>4

\* So do the pairs of the other loops.
LEMMA ToldLoops ==
    ASSUME Inv, NEW i \in Instance, loop[i].pc # "pop",
           NEW c \in Announces(i), NEW d \in Announces(i), c \in Conn, d \in Conn,
           Told(c, d), NEW k \in Instance, k # i, loop'[k] = loop[k]
    PROVE  /\ loop'[k].pc = "notify1" =>
                 Silent(loop[k].first, loop[k].second)'
           /\ loop'[k].pc = "notify2" =>
                 HalfTold(loop[k].first, loop[k].second)'
<1> SUFFICES ASSUME loop[k].pc \in {"notify1", "notify2"}
             PROVE  /\ loop[k].pc = "notify1" =>
                          Silent(loop[k].first, loop[k].second)'
                    /\ loop[k].pc = "notify2" =>
                          HalfTold(loop[k].first, loop[k].second)'
    OBVIOUS
<1>1. PICK f \in Conn, s \in Conn : f = loop[k].first /\ s = loop[k].second
    BY DEF Inv, TypeOK
<1>2. f \in Conn \ {c, d} /\ s \in Conn \ {c, d}
    <2>1. Announces(i) \cap Announces(k) = {} /\ Announces(k) = {f, s}
        BY <1>1 DEF Inv, PlaceInv, Announces
    <2> QED
        BY <2>1
<1>3. f = loop'[k].first /\ s = loop'[k].second
    BY <1>1
<1>4. /\ loop[k].pc = "notify1" => Silent(f, s)
      /\ loop[k].pc = "notify2" => HalfTold(f, s)
    BY <1>1 DEF Inv, LoopInv
<1>5. /\ Silent(f, s) => Silent(f, s)'
      /\ HalfTold(f, s) => HalfTold(f, s)'
    BY <1>2, ToldOthers
<1> QED
    BY <1>3, <1>4, <1>5

\* The first publish: the first of the pair may hear of the second, of whom
\* nobody has heard.
LEMMA Notify1Inv ==
    ASSUME Inv, NEW i \in Instance, Notify1(i)
    PROVE  Inv'
<1>1. TypeOK' /\ \A k \in Instance \ {i} : loop'[k] = loop[k]
    BY LoopTyped DEF Inv, LoopStep
<1>2. PICK c \in Conn, d \in Conn :
          /\ loop[i].pc = "notify1" /\ loop[i].first = c /\ loop[i].second = d
          /\ loop'[i].pc = "notify2" /\ loop'[i].first = c /\ loop'[i].second = d
          /\ Publish(c, d)
          /\ UNCHANGED <<conn, queue, heard>>
    BY DEF Notify1, Inv, TypeOK
<1>3. /\ Told(c, d)
      /\ c # d /\ Silent(c, d)
    BY <1>2, PublishHeard DEF Told, Inv, PlaceInv, LoopInv
<1>4. /\ Announces(i) = {c, d}
      /\ \A k \in Instance : Announces(k)' = Announces(k)
    BY <1>1, <1>2 DEF Announces
<1>5. \A b \in Conn : Single(b)' = Single(b)
    BY DEF Single, Others
<1>6. WaitingInv'
    BY <1>2, <1>3, <1>4, ToldWaiting
<1>7. PlaceInv'
    BY <1>1, <1>2, <1>3, <1>4 DEF Inv, PlaceInv
<1> HIDE DEF Got, Single
<1>8. HalfTold(c, d)'
    BY <1>3, <1>5 DEF Told, Silent, HalfTold
<1>9. LoopInv'
    BY <1>1, <1>2, <1>3, <1>4, <1>8, ToldLoops DEF LoopInv
<1>10. PairInv'
    <2>1. ASSUME NEW b \in Conn, Single(b), NEW e \in Got(b)'
          PROVE  Got(b)' = {e} /\ e \in Conn /\ (Single(e) => Got(e)' \subseteq {b})
        <3>1. CASE b = c
            BY <1>3, <2>1, <3>1 DEF Told, Silent
        <3>2. CASE b # c
            <4>1. e \in Got(b) /\ Got(b)' \subseteq Got(b) /\ e # c
                BY <1>3, <2>1, <3>2 DEF Told, Silent
            <4>2. Got(b) = {e} /\ e \in Conn /\ (Single(e) => Got(e) \subseteq {b})
                BY <2>1, <4>1 DEF Inv, PairInv
            <4> QED
                BY <1>3, <2>1, <4>1, <4>2 DEF Told
        <3> QED
            BY <3>1, <3>2
    <2> QED
        BY <1>5, <2>1 DEF PairInv
<1> QED
    BY <1>1, <1>6, <1>7, <1>9, <1>10 DEF Inv

\* The second publish: the second of the pair hears of the first, who may have
\* heard of the second only.
LEMMA Notify2Inv ==
    ASSUME Inv, NEW i \in Instance, Notify2(i)
    PROVE  Inv'
<1>1. TypeOK' /\ \A k \in Instance \ {i} : loop'[k] = loop[k]
    BY LoopTyped DEF Inv, LoopStep
<1>2. PICK c \in Conn, d \in Conn :
          /\ loop[i].pc = "notify2" /\ loop[i].first = c /\ loop[i].second = d
          /\ Publish(d, c)
          /\ UNCHANGED <<conn, queue, heard>>
    BY DEF Notify2, Inv, TypeOK
<1>3. loop'[i].pc = "pop"
    BY DEF Notify2, Inv, TypeOK, Idle
<1>4. /\ Told(d, c)
      /\ c # d /\ HalfTold(c, d)
    BY <1>2, PublishHeard DEF Told, Inv, PlaceInv, LoopInv
<1>5. /\ Announces(i) = {c, d} /\ Announces(i)' = {}
      /\ \A k \in Instance \ {i} : Announces(k)' = Announces(k)
    BY <1>1, <1>2, <1>3 DEF Announces
<1>6. \A b \in Conn : Single(b)' = Single(b)
    BY DEF Single, Others
<1>7. WaitingInv'
    <2>1. \A k \in Instance : Announces(k)' \subseteq Announces(k)
        BY <1>5
    <2> QED
        BY <1>2, <1>4, <1>5, <2>1, ToldWaiting
<1>8. PlaceInv'
    BY <1>1, <1>3, <1>5 DEF Inv, PlaceInv
<1>9. LoopInv'
    BY <1>1, <1>2, <1>3, <1>4, <1>5, ToldLoops DEF LoopInv
<1> HIDE DEF Got, Single
<1>10. PairInv'
    <2>1. ASSUME NEW b \in Conn, Single(b), NEW e \in Got(b)'
          PROVE  Got(b)' = {e} /\ e \in Conn /\ (Single(e) => Got(e)' \subseteq {b})
        <3>1. CASE b = d
            BY <1>4, <2>1, <3>1 DEF Told, HalfTold
        <3>2. CASE b # d
            <4>1. e \in Got(b) /\ Got(b)' \subseteq Got(b) /\ (e = d => b = c)
                BY <1>4, <2>1, <3>2 DEF Told, HalfTold
            <4>2. Got(b) = {e} /\ e \in Conn /\ (Single(e) => Got(e) \subseteq {b})
                BY <2>1, <4>1 DEF Inv, PairInv
            <4>3. Single(e) => Got(e)' \subseteq {b}
                BY <1>4, <4>1, <4>2 DEF Told
            <4> QED
                BY <2>1, <4>1, <4>2, <4>3
        <3> QED
            BY <3>1, <3>2
    <2> QED
        BY <1>6, <2>1 DEF PairInv
<1> QED
    BY <1>1, <1>7, <1>8, <1>9, <1>10 DEF Inv

-----------------------------------------------------------------------------
\* The invariant is inductive.
LEMMA NextInv == Inv /\ [Next]_vars => Inv'
<1> SUFFICES ASSUME Inv, [Next]_vars
             PROVE  Inv'
    OBVIOUS
<1>1. CASE UNCHANGED vars
    <2>1. /\ conn' = conn /\ asked' = asked /\ subscribed' = subscribed
          /\ queue' = queue /\ loop' = loop /\ inbox' = inbox
          /\ heard' = heard /\ prompt' = prompt
        BY <1>1 DEF vars
    <2>2. TypeOK'
        BY <2>1 DEF Inv, TypeOK, SubscribedInUse
    <2>3. WaitingInv'
        BY <2>1 DEF Inv, WaitingInv, Unpopped, Announces, Got, Single, Others
    <2>4. PlaceInv'
        BY <2>1 DEF Inv, PlaceInv, Announces
    <2>5. LoopInv'
        BY <2>1 DEF Inv, LoopInv, Silent, HalfTold, Got, Single, Others
    <2>6. PairInv'
        BY <2>1 DEF Inv, PairInv, Got, Single, Others
    <2> QED
        BY <2>2, <2>3, <2>4, <2>5, <2>6 DEF Inv
<1> QED
    BY <1>1, ConnInv, PopInv, Notify1Inv, Notify2Inv
    DEF Next, ConnStep, LoopStep

\* It holds in every reachable state.
LEMMA Invariance == Spec => []Inv
    BY InitInv, NextInv, PTL DEF Spec

\* Every variable keeps its type, and nobody's SUBSCRIBE is pending after it
\* was executed, for any number of connections and instances.
THEOREM TypeCorrect == Spec => []TypeOK
    BY Invariance, PTL DEF Inv

\* A client that has connected once hears of one peer at most, who, if that
\* one has connected once, hears of nobody else: for any number of instances
\* that pop and publish at the same time, and however late Redis subscribes
\* (handleConnections, processMatches).
THEOREM HearsOfOnePeer == Spec => []HeardOnce
<1>1. Inv => HeardOnce
    <2>1. SUFFICES ASSUME Inv, NEW c \in Conn, Single(c)
                   PROVE  /\ Cardinality(Got(c)) <= 1
                          /\ \A d \in heard[c] : Single(d) => Got(d) \subseteq {c}
        BY DEF HeardOnce, Got, Single
    <2>2. ASSUME NEW d \in Got(c)
          PROVE  Got(c) = {d} /\ (Single(d) => Got(d) \subseteq {c})
        BY <2>1 DEF Inv, PairInv
    <2>3. Cardinality(Got(c)) <= 1
        <3>1. CASE Got(c) = {}
            BY <3>1, FS_EmptySet
        <3>2. CASE \E d \in Got(c) : Got(c) = {d}
            BY <3>2, FS_Singleton
        <3> QED
            BY <2>2, <3>1, <3>2
    <2> QED
        BY <2>2, <2>3 DEF Got
<1> QED
    BY <1>1, Invariance, PTL
=============================================================================
