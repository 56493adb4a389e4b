------------------------------- MODULE Shutdown -------------------------------
(***************************************************************************)
(* The graceful shutdown of one instance (backend/shutdown.go) against the *)
(* connections it serves: the flag, the broadcast, the forced close, the   *)
(* end of the HTTP server and the exit of the process, which stops every   *)
(* goroutine wherever it is.                                               *)
(*                                                                         *)
(* A connection is hijacked from the HTTP server by its upgrade, so that   *)
(* http.Server.Shutdown waits for the handshakes only.                     *)
(***************************************************************************)
EXTENDS Integers, FiniteSets

CONSTANTS
    Conn, User, UserOf,
    DrainPause,  \* readinessDrainPause, in seconds, as the next three
    CloseGrace,  \* clientCloseGrace
    WriteWait,   \* how long a write to a peer that does not read takes
    Deadline,    \* shutdownDeadline
    None

ASSUME ShutdownAssumption ==
    /\ UserOf \in [Conn -> User]
    /\ {DrainPause, CloseGrace, WriteWait, Deadline} \subseteq Nat
    /\ None \notin Conn

VARIABLES
    phase,     \* where gracefulShutdown stands
    todo,      \* what is left of the list returned by snapshotClients
    spent,     \* the seconds the sequence has taken
    conn,      \* where handleConnections stands
    registry,  \* clients
    queue,     \* the connections with an entry in the matching queue
    slow,      \* the connections whose peer does not read
    stuck,     \* those to which a write has timed out
    told,      \* those that got the server_shutdown message
    closed,    \* those that were closed by closeAllClients
    late,      \* history: registered after the broadcast made its list
    last       \* history: registered after closeAllClients made its list

vars == <<phase, todo, spent, conn, registry, queue, slow, stuck, told,
          closed, late, last>>

Phase == {"serving", "draining", "telling", "closing", "waiting", "exited"}

ConnPc == {"new", "handshake", "add", "reading", "unregister", "remove",
           "done"}

\* The map holds connections under the name of their user, and none whose
\* cleanup has gone past the map.
EntriesInUse ==
    \A u \in User, c \in Conn : registry[u] = c =>
        UserOf[c] = u /\ conn[c] \in {"add", "reading", "unregister"}

\* What the type of every variable is.
TypeOK ==
    /\ phase \in Phase
    /\ {todo, queue, slow, stuck, told, closed, late} \subseteq SUBSET Conn
    /\ last \subseteq late
    /\ stuck \subseteq slow
    /\ spent \in Nat
    /\ conn \in [Conn -> ConnPc]
    /\ registry \in [User -> Conn \cup {None}]
    /\ EntriesInUse

Init ==
    /\ phase = "serving"
    /\ todo = {}
    /\ spent = 0
    /\ conn = [c \in Conn |-> "new"]
    /\ registry = [u \in User |-> None]
    /\ queue = {}
    /\ slow \in SUBSET Conn
    /\ stuck = {}
    /\ told = {}
    /\ closed = {}
    /\ late = {}
    /\ last = {}

Registered == {c \in Conn : \E u \in User : registry[u] = c}

-----------------------------------------------------------------------------
(***************************************************************************)
(* handleConnections, as far as the shutdown touches it.                   *)
(***************************************************************************)
sequence == <<phase, todo, spent, slow, stuck, told, closed>>

Goes(c, from, to) ==
    /\ phase # "exited"
    /\ conn[c] = from
    /\ conn' = [conn EXCEPT ![c] = to]

\* The request finds the flag not set.
Accept(c) ==
    /\ phase = "serving"
    /\ Goes(c, "new", "handshake")
    /\ UNCHANGED <<sequence, registry, queue, late, last>>

\* A handshake that was accepted is not turned away any more.
Register(c) ==
    /\ Goes(c, "handshake", "add")
    /\ registry' = [registry EXCEPT ![UserOf[c]] = c]
    /\ late' = IF phase \in {"serving", "draining"} THEN late ELSE late \cup {c}
    /\ last' = IF phase \in {"closing", "waiting"} THEN last \cup {c} ELSE last
    /\ UNCHANGED <<sequence, queue>>

Enqueue(c) ==
    /\ Goes(c, "add", "reading")
    /\ queue' = queue \cup {c}
    /\ UNCHANGED <<sequence, registry, late, last>>

\* The client leaves, or the connection was closed.
ReadEnds(c) ==
    /\ Goes(c, "reading", "unregister")
    /\ UNCHANGED <<sequence, registry, queue, late, last>>

\* Wrong: the cleanup leaves the entry in the map.
UnregisterSkipped(c) ==
    /\ Goes(c, "unregister", "remove")
    /\ UNCHANGED <<sequence, registry, queue, late, last>>

Unregister(c) ==
    /\ Goes(c, "unregister", "remove")
    /\ registry' = [registry EXCEPT ![UserOf[c]] = None]
    /\ UNCHANGED <<sequence, queue, late, last>>

Dequeue(c) ==
    /\ Goes(c, "remove", "done")
    /\ queue' = {d \in queue : UserOf[d] # UserOf[c]}
    /\ UNCHANGED <<sequence, registry, late, last>>

-----------------------------------------------------------------------------
(***************************************************************************)
(* gracefulShutdown.                                                       *)
(***************************************************************************)
connections == <<conn, registry, queue, slow, late, last>>

ShutsDown ==
    /\ phase = "serving"
    /\ phase' = "draining"
    /\ UNCHANGED <<connections, todo, spent, stuck, told, closed>>

\* broadcastServerShutdown begins, with its list of clients.
StartTelling ==
    /\ phase = "draining"
    /\ phase' = "telling"
    /\ spent' = spent + DrainPause
    /\ todo' = Registered
    /\ UNCHANGED <<connections, stuck, told, closed>>

\* The first write to a peer that does not read lasts until its deadline; the
\* connection then fails every later write at once.
WritesTo(c) ==
    IF c \in slow \ stuck
    THEN /\ spent' = spent + WriteWait
         /\ stuck' = stuck \cup {c}
    ELSE UNCHANGED <<spent, stuck>>

\* Wrong: the broadcast ends with the first write that fails.
TellUntilError(c) ==
    /\ phase = "telling" /\ c \in todo
    /\ todo' = IF c \in slow THEN {} ELSE todo \ {c}
    /\ WritesTo(c)
    /\ told' = IF c \in slow THEN told ELSE told \cup {c}
    /\ UNCHANGED <<connections, phase, closed>>

\* A write to a peer that has left fails at once, and the broadcast goes on as
\* after a write that succeeds: such a connection counts as told until its
\* cleanup has taken it out of the map.
Tell(c) ==
    /\ phase = "telling" /\ c \in todo
    /\ todo' = todo \ {c}
    /\ WritesTo(c)
    /\ told' = IF c \in slow \/ conn[c] \in {"remove", "done"}
               THEN told ELSE told \cup {c}
    /\ UNCHANGED <<connections, phase, closed>>

\* Wrong: the list of the broadcast is used again.
StartClosingTold ==
    /\ phase = "telling" /\ todo = {}
    /\ phase' = "closing"
    /\ spent' = spent + CloseGrace
    /\ todo' = told \cup stuck
    /\ UNCHANGED <<connections, stuck, told, closed>>

\* closeAllClients begins, with a list of its own.
StartClosing ==
    /\ phase = "telling" /\ todo = {}
    /\ phase' = "closing"
    /\ spent' = spent + CloseGrace
    /\ todo' = Registered
    /\ UNCHANGED <<connections, stuck, told, closed>>

Close(c) ==
    /\ phase = "closing" /\ c \in todo
    /\ todo' = todo \ {c}
    /\ WritesTo(c)
    /\ closed' = closed \cup {c}
    /\ UNCHANGED <<connections, phase, told>>

StartWaiting ==
    /\ phase = "closing" /\ todo = {}
    /\ phase' = "waiting"
    /\ UNCHANGED <<connections, todo, spent, stuck, told, closed>>

HandshakesLeft == {c \in Conn : conn[c] = "handshake"}

\* Wrong: Shutdown is called with a context that never expires.
ExitWhenIdle ==
    /\ phase = "waiting" /\ HandshakesLeft = {}
    /\ phase' = "exited"
    /\ UNCHANGED <<connections, todo, spent, stuck, told, closed>>

\* server.Shutdown returns, main returns, and every goroutine is gone.
Exit ==
    /\ phase = "waiting"
    /\ phase' = "exited"
    /\ spent' = IF HandshakesLeft # {} /\ spent < Deadline
                THEN Deadline ELSE spent
    /\ UNCHANGED <<connections, todo, stuck, told, closed>>

-----------------------------------------------------------------------------
Connection(c) ==
    \/ Accept(c) \/ Register(c) \/ Enqueue(c)
    \/ ReadEnds(c) \/ Unregister(c) \/ Dequeue(c)

Sequence ==
    \/ StartTelling \/ StartClosing \/ StartWaiting \/ Exit
    \/ \E c \in Conn : Tell(c) \/ Close(c)

Next == ShutsDown \/ Sequence \/ \E c \in Conn : Connection(c)

\* Every call of the sequence has a time limit of its own; the connections
\* need not make any progress.
Spec == Init /\ [][Next]_vars /\ WF_vars(Sequence)

-----------------------------------------------------------------------------
(***************************************************************************)
(* Properties.                                                             *)
(***************************************************************************)
\* Whoever is closed by the shutdown was told before, unless a write to it has
\* timed out or it was still in its handshake when the broadcast began: one
\* dead client does not keep the message from the others.
ClosedWereTold ==
    \A c \in closed :
        c \in told \cup stuck \cup late \/ conn[c] \in {"remove", "done"}

\* After closeAllClients every registered connection has been closed, except
\* those that registered after its list was made (closeAllClients makes a list
\* of its own, and connections come and go while it is worked on).
RegisteredAreClosed ==
    phase \in {"waiting", "exited"} =>
        Registered \subseteq closed \cup last

\* A shutdown ends with the exit of the process, whatever the clients do.
ShutdownEnds == (phase = "draining") ~> (phase = "exited")

\* The cleanup of the closed connections has run when the process exits ("the
\* existing per-connection cleanup (matchmaker queue/session eviction) runs").
NoEntryOutlivesExit == phase = "exited" => queue = {}

\* "shutdownDeadline bounds the entire graceful-shutdown sequence".
WithinDeadline == spent <= Deadline
=============================================================================
