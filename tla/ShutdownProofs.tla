---------------------------- MODULE ShutdownProofs ----------------------------
(***************************************************************************)
(* Proofs about Shutdown for any number of connections and any time        *)
(* limits: type correctness, that whoever is closed was told, and that     *)
(* whoever is registered at the end was closed.                            *)
(***************************************************************************)
EXTENDS Shutdown, TLAPS

-----------------------------------------------------------------------------
(***************************************************************************)
(* The inductive invariant: what each list of the sequence still owes.     *)
(***************************************************************************)
\* Those whom the broadcast owes nothing any more.
Known == told \cup stuck \cup late \cup {c \in Conn : conn[c] \in {"remove", "done"}}

\* The broadcast works through everybody who was registered when it began.
TellingInv == phase = "telling" => Registered \subseteq todo \cup Known

\* The forced close works through connections that are known.
ClosingInv == phase = "closing" => todo \subseteq Known

\* It works through everybody who was registered when it began.
ListedInv == phase = "closing" => Registered \subseteq todo \cup closed \cup last

Inv ==
    /\ TypeOK
    /\ TellingInv /\ ClosingInv /\ ListedInv
    /\ closed \subseteq Known
    /\ RegisteredAreClosed

-----------------------------------------------------------------------------
(***************************************************************************)
(* Type correctness.                                                       *)
(***************************************************************************)
\* The initial state is typed, and the lists are empty.
LEMMA InitInv == Init => Inv
<1> SUFFICES ASSUME Init
             PROVE  Inv
    OBVIOUS
<1>1. TypeOK
    <2>1. EntriesInUse
        BY ShutdownAssumption DEF Init, EntriesInUse
    <2> QED
        BY <2>1 DEF Init, TypeOK, Phase, ConnPc
<1> QED
    BY <1>1
    DEF Init, Inv, TellingInv, ClosingInv, ListedInv, RegisteredAreClosed

\* A connection moves to another of its program counters.
LEMMA GoesTyped ==
    ASSUME TypeOK, NEW c \in Conn, NEW from, NEW to \in ConnPc,
           Goes(c, from, to)
    PROVE  /\ conn' \in [Conn -> ConnPc]
           /\ conn[c] = from /\ conn'[c] = to
           /\ \A d \in Conn \ {c} : conn'[d] = conn[d]
           /\ phase # "exited"
    BY DEF Goes, TypeOK

\* A write takes some seconds at most.
LEMMA WritesTyped ==
    ASSUME TypeOK, NEW c \in Conn, WritesTo(c)
    PROVE  /\ spent' \in Nat
           /\ stuck' \subseteq stuck \cup {c}
           /\ stuck \subseteq stuck'
           /\ stuck' \subseteq slow
           /\ c \in slow => c \in stuck'
    BY ShutdownAssumption DEF WritesTo, TypeOK

\* Whoever is registered is a connection.
LEMMA RegisteredTyped == Registered \subseteq Conn
    BY DEF Registered

\* A connection is registered at its upgrade, and is out of the map when its
\* cleanup goes on.
LEMMA ConnectionEntries ==
    ASSUME TypeOK, NEW c \in Conn, Connection(c)
    PROVE  EntriesInUse'
<1>1. UserOf[c] \in User /\ None \notin Conn
    BY ShutdownAssumption
<1>2. CASE Register(c)
    BY <1>1, <1>2 DEF Register, Goes, TypeOK, EntriesInUse
<1>3. CASE Unregister(c)
    BY <1>1, <1>3 DEF Unregister, Goes, TypeOK, EntriesInUse
<1>4. CASE Accept(c) \/ Enqueue(c) \/ ReadEnds(c) \/ Dequeue(c)
    BY <1>4 DEF Accept, Enqueue, ReadEnds, Dequeue, Goes, TypeOK, EntriesInUse
<1> QED
    BY <1>2, <1>3, <1>4 DEF Connection

\* The steps of a connection keep the types.
LEMMA ConnectionTyped ==
    ASSUME TypeOK, NEW c \in Conn, Connection(c)
    PROVE  TypeOK'
<1>1. UserOf[c] \in User
    BY ShutdownAssumption
<1>2. conn' \in [Conn -> ConnPc]
    <2>1. \E from : \E to \in ConnPc : Goes(c, from, to)
        BY DEF Connection, Accept, Register, Enqueue, ReadEnds, Unregister,
               Dequeue, ConnPc
    <2> QED
        BY <2>1, GoesTyped
<1>3. /\ UNCHANGED sequence
      /\ registry' \in [User -> Conn \cup {None}]
      /\ queue' \subseteq Conn /\ late' \subseteq Conn
      /\ last' \subseteq late'
    <2>1. CASE Register(c)
        <3>1. late \subseteq late' /\ late' \subseteq late \cup {c}
            BY <2>1 DEF Register
        <3>2. last' \subseteq last \cup {c}
            BY <2>1 DEF Register
        <3>3. c \in last' => c \in late'
            BY <2>1 DEF Register, TypeOK
        <3> QED
            BY <1>1, <2>1, <3>1, <3>2, <3>3 DEF Register, TypeOK
    <2>2. CASE ~Register(c)
        BY <1>1, <2>2
        DEF Connection, Accept, Enqueue, ReadEnds, Unregister, Dequeue, TypeOK
    <2> QED
        BY <2>1, <2>2
<1> QED
    BY <1>2, <1>3, ConnectionEntries DEF TypeOK, sequence

\* So do the steps of the sequence.
LEMMA SequenceTyped ==
    ASSUME TypeOK, ShutsDown \/ Sequence
    PROVE  TypeOK'
<1>1. UNCHANGED connections /\ EntriesInUse'
    <2>1. UNCHANGED connections
        BY DEF ShutsDown, Sequence, StartTelling, StartClosing, StartWaiting,
               Exit, Tell, Close
    <2> QED
        BY <2>1 DEF connections, TypeOK, EntriesInUse
<1>2. CASE ShutsDown \/ StartWaiting
    BY <1>1, <1>2 DEF ShutsDown, StartWaiting, TypeOK, Phase, connections
<1>3. CASE StartTelling \/ StartClosing
    BY <1>1, <1>3, RegisteredTyped, ShutdownAssumption
    DEF StartTelling, StartClosing, TypeOK, Phase, connections
<1>4. CASE Exit
    BY <1>1, <1>4, ShutdownAssumption DEF Exit, TypeOK, Phase, connections
<1>5. ASSUME NEW c \in Conn, Tell(c) \/ Close(c)
      PROVE  TypeOK'
    <2>1. /\ WritesTo(c) /\ UNCHANGED phase
          /\ todo' \subseteq todo
          /\ told' \subseteq told \cup {c}
          /\ closed' \subseteq closed \cup {c}
        BY <1>5 DEF Tell, Close
    <2> QED
        BY <1>1, <2>1, WritesTyped DEF TypeOK, connections
<1> QED
    BY <1>2, <1>3, <1>4, <1>5 DEF Sequence

-----------------------------------------------------------------------------
(***************************************************************************)
(* The lists.                                                              *)
(***************************************************************************)
\* Nobody who is known is forgotten.
LEMMA KnownGrows ==
    ASSUME TypeOK, [Next]_vars
    PROVE  Known \subseteq Known'
<1>1. /\ told \subseteq told' /\ stuck \subseteq stuck' /\ late \subseteq late'
    <2>1. ASSUME NEW c \in Conn, Connection(c)
          PROVE  UNCHANGED <<told, stuck>> /\ late \subseteq late'
        BY <2>1
        DEF Connection, Accept, Register, Enqueue, ReadEnds, Unregister,
            Dequeue, sequence
    <2>2. ASSUME NEW c \in Conn, Tell(c) \/ Close(c)
          PROVE  /\ told \subseteq told' /\ stuck \subseteq stuck'
                 /\ late \subseteq late'
        BY <2>2, WritesTyped DEF Tell, Close, connections
    <2> QED
        BY <2>1, <2>2
        DEF Next, Sequence, ShutsDown, StartTelling, StartClosing,
            StartWaiting, Exit, connections, vars
<1>2. ASSUME NEW d \in Conn, conn[d] \in {"remove", "done"}
      PROVE  conn'[d] \in {"remove", "done"}
    <2>1. ASSUME NEW c \in Conn, Connection(c)
          PROVE  conn'[d] \in {"remove", "done"}
        <3>1. \E from, to : /\ Goes(c, from, to)
                            /\ from \in {"remove", "done"} => to = "done"
            BY <2>1
            DEF Connection, Accept, Register, Enqueue, ReadEnds, Unregister,
                Dequeue
        <3> QED
            BY <1>2, <3>1 DEF Goes, TypeOK
    <2> QED
        BY <1>2, <2>1
        DEF Next, Sequence, ShutsDown, StartTelling, StartClosing,
            StartWaiting, Exit, Tell, Close, connections, vars
<1> QED
    BY <1>1, <1>2 DEF Known

\* A connection that comes to be registered is noted as late when the
\* broadcast has made its list, and as the last when the forced close has.
LEMMA RegisteredLate ==
    ASSUME TypeOK, NEW c \in Conn, Connection(c)
    PROVE  /\ UNCHANGED sequence
           /\ Registered' \subseteq Registered \cup {c}
           /\ last \subseteq last'
           /\ c \notin Registered /\ c \in Registered' =>
                 /\ phase \notin {"serving", "draining"} => c \in late'
                 /\ phase \in {"closing", "waiting"} => c \in last'
                 /\ phase # "exited"
<1>1. UNCHANGED sequence
    BY DEF Connection, Accept, Register, Enqueue, ReadEnds, Unregister, Dequeue
<1>2. CASE Register(c)
    <2>1. \A u \in User : registry'[u] \in {registry[u], c}
        BY <1>2 DEF Register, TypeOK
    <2> QED
        BY <1>1, <1>2, <2>1 DEF Register, Registered, Goes
<1>3. CASE ~Register(c)
    <2>1. \A u \in User : registry'[u] \in {registry[u], None}
        BY <1>3
        DEF Connection, Accept, Enqueue, ReadEnds, Unregister, Dequeue, TypeOK
    <2>2. Registered' \subseteq Registered
        BY <2>1, ShutdownAssumption DEF Registered
    <2>3. last' = last
        BY <1>3
        DEF Connection, Accept, Enqueue, ReadEnds, Unregister, Dequeue
    <2> QED
        BY <1>1, <2>2, <2>3
<1> QED
    BY <1>2, <1>3

\* The invariant is inductive.
LEMMA NextInv == Inv /\ [Next]_vars => Inv'
<1> SUFFICES ASSUME Inv, [Next]_vars
             PROVE  Inv'
    OBVIOUS
<1>0. TypeOK /\ Known \subseteq Known'
    BY KnownGrows DEF Inv
<1>1. TypeOK'
    BY ConnectionTyped, SequenceTyped DEF Inv, Next, vars, TypeOK, EntriesInUse
<1>2. ASSUME NEW c \in Conn, Connection(c)
      PROVE  Inv'
    <2>1. /\ UNCHANGED <<phase, todo, closed>>
          /\ last \subseteq last' /\ late' \subseteq Known'
          /\ Registered' \subseteq Registered \cup {c}
          /\ c \notin Registered /\ c \in Registered' =>
                 /\ phase \notin {"serving", "draining"} => c \in late'
                 /\ phase \in {"closing", "waiting"} => c \in last'
                 /\ phase # "exited"
        BY <1>0, <1>2, RegisteredLate DEF sequence, Known
    <2> HIDE DEF Known, Registered
    <2>2. TellingInv' /\ ClosingInv' /\ ListedInv'
        BY <1>0, <2>1 DEF Inv, TellingInv, ClosingInv, ListedInv
    <2>3. RegisteredAreClosed'
        BY <2>1 DEF Inv, RegisteredAreClosed
    <2> QED
        BY <1>0, <1>1, <2>1, <2>2, <2>3 DEF Inv
<1>3. ASSUME UNCHANGED connections
      PROVE  Registered' = Registered /\ last' = last
    BY <1>3 DEF connections, Registered
<1>4. CASE StartTelling
    <2>1. Registered' \subseteq todo' /\ phase' = "telling" /\ closed' = closed
        BY <1>3, <1>4 DEF StartTelling
    <2> QED
        BY <1>0, <1>1, <2>1
        DEF Inv, TellingInv, ClosingInv, ListedInv, RegisteredAreClosed
<1>5. ASSUME NEW c \in Conn, Tell(c)
      PROVE  Inv'
    <2>1. /\ phase = "telling" /\ phase' = "telling" /\ closed' = closed
          /\ todo' = todo \ {c} /\ Registered' = Registered
        BY <1>3, <1>5 DEF Tell
    <2>2. c \in Known'
        <3>1. CASE c \in slow
            BY <1>0, <1>5, <3>1, WritesTyped DEF Tell, Known
        <3>2. CASE c \notin slow
            BY <1>5, <3>2 DEF Tell, Known, connections
        <3> QED
            BY <3>1, <3>2
    <2> QED
        BY <1>0, <1>1, <2>1, <2>2
        DEF Inv, TellingInv, ClosingInv, ListedInv, RegisteredAreClosed
<1>6. CASE StartClosing
    <2>1. /\ phase = "telling" /\ todo = {}
          /\ phase' = "closing" /\ todo' = Registered /\ closed' = closed
          /\ Registered' = Registered
        BY <1>3, <1>6 DEF StartClosing
    <2> QED
        BY <1>0, <1>1, <2>1
        DEF Inv, TellingInv, ClosingInv, ListedInv, RegisteredAreClosed
<1>7. ASSUME NEW c \in Conn, Close(c)
      PROVE  Inv'
    <2>1. /\ phase = "closing" /\ phase' = "closing" /\ c \in todo
          /\ closed' = closed \cup {c} /\ todo' = todo \ {c}
          /\ Registered' = Registered /\ last' = last
        BY <1>3, <1>7 DEF Close
    <2> QED
        BY <1>0, <1>1, <2>1
        DEF Inv, TellingInv, ClosingInv, ListedInv, RegisteredAreClosed
<1>8. CASE StartWaiting
    <2>1. /\ phase = "closing" /\ phase' = "waiting" /\ todo = {}
          /\ closed' = closed /\ Registered' = Registered /\ last' = last
        BY <1>3, <1>8 DEF StartWaiting
    <2> QED
        BY <1>0, <1>1, <2>1
        DEF Inv, TellingInv, ClosingInv, ListedInv, RegisteredAreClosed
<1>9. CASE Exit
    <2>1. /\ phase = "waiting" /\ phase' = "exited"
          /\ closed' = closed /\ Registered' = Registered /\ last' = last
        BY <1>3, <1>9 DEF Exit
    <2> QED
        BY <1>0, <1>1, <2>1
        DEF Inv, TellingInv, ClosingInv, ListedInv, RegisteredAreClosed
<1>10. CASE ShutsDown
    BY <1>0, <1>1, <1>10
    DEF ShutsDown, Inv, TellingInv, ClosingInv, ListedInv, RegisteredAreClosed
<1>11. CASE UNCHANGED vars
    <2>1. /\ UNCHANGED <<phase, todo, closed>>
          /\ Registered' = Registered /\ last' = last
        BY <1>11 DEF vars, Registered
    <2> QED
        BY <1>0, <1>1, <2>1
        DEF Inv, TellingInv, ClosingInv, ListedInv, RegisteredAreClosed
<1> QED
    BY <1>2, <1>4, <1>5, <1>6, <1>7, <1>8, <1>9, <1>10, <1>11
    DEF Next, Sequence

-----------------------------------------------------------------------------
\* The invariant holds in every reachable state.
LEMMA Invariance == Spec => []Inv
    BY InitInv, NextInv, PTL DEF Spec

\* Every variable keeps its type, for any number of connections and any time
\* limits.
THEOREM TypeCorrect == Spec => []TypeOK
    BY Invariance, PTL DEF Inv

\* Whoever is closed by the shutdown was told before, unless a write to it has
\* timed out, it registered after the broadcast had made its list, or it was
\* being cleaned up (broadcastServerShutdown, closeAllClients).
THEOREM NobodyClosedUntold == Spec => []ClosedWereTold
<1>1. Inv => ClosedWereTold
    BY DEF Inv, TypeOK, Known, ClosedWereTold
<1> QED
    BY <1>1, Invariance, PTL

\* After the forced close every connection in the registry was closed, or has
\* registered after closeAllClients had made its list.
THEOREM NobodyLeftOpen == Spec => []RegisteredAreClosed
    BY Invariance, PTL DEF Inv
=============================================================================
