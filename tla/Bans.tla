--------------------------------- MODULE Bans ---------------------------------
(***************************************************************************)
(* Bans and live websockets.  A handler that has banned a user (reportHand-*)
(* ler after recordReport, adminUserAction after banUser) closes the web-  *)
(* socket which its own instance has registered for the user; handleConn-  *)
(* ections looks at the ban once, before the upgrade.  Reports says which  *)
(* call becomes the handler of a ban; here it is the one that commits it.  *)
(* Moderation has the calls around these steps, and the next-state rela-   *)
(* tion.                                                                   *)
(***************************************************************************)
EXTENDS Integers, FiniteSets

CONSTANTS
    User, Conn, UserOf, Instance, HomeOf,
    BanCall,     \* the /report and /admin calls that would ban
    Target,      \* whom a call is about
    ServedBy,    \* the instance that serves a call
    MaxUnbans,   \* bound on the admin's unbans
    MayOverlap,  \* may a user connect while an older connection lives?
    None

ASSUME BansAssumption ==
    /\ UserOf \in [Conn -> User]
    /\ HomeOf \in [Conn -> Instance]
    /\ Target \in [BanCall -> User]
    /\ ServedBy \in [BanCall -> Instance]
    /\ MaxUnbans \in Nat
    /\ MayOverlap \in BOOLEAN
    /\ None \notin Conn

VARIABLES
    banned,    \* the users with a banned_at
    conn,      \* where handleConnections stands
    registry,  \* clients, the map of each instance
    ban,       \* where each ban call stands
    unbans     \* unbans so far

vars == <<banned, conn, registry, ban, unbans>>

ConnPc == {"new", "checked", "open", "closing", "done"}

\* What the type of every variable is.
TypeOK ==
    /\ banned \subseteq User
    /\ conn \in [Conn -> ConnPc]
    /\ registry \in [Instance -> [User -> Conn \cup {None}]]
    /\ ban \in [BanCall -> [stage : {"none", "banned", "done"},
                            live : SUBSET Conn]]
    /\ unbans \in 0 .. MaxUnbans

Init ==
    /\ banned = {}
    /\ conn = [c \in Conn |-> "new"]
    /\ registry = [i \in Instance |-> [u \in User |-> None]]
    /\ ban = [k \in BanCall |-> [stage |-> "none", live |-> {}]]
    /\ unbans = 0

Goes(c, from, to) ==
    /\ conn[c] = from
    /\ conn' = [conn EXCEPT ![c] = to]

OpenConns(u) == {c \in Conn : UserOf[c] = u /\ conn[c] = "open"}

-----------------------------------------------------------------------------
Others(c) == {d \in Conn \ {c} : UserOf[d] = UserOf[c]}

\* isUserBanned says no; a banned user gets no further than this.
Admit(c) ==
    /\ Goes(c, "new", "checked")
    /\ UserOf[c] \notin banned
    /\ \A d \in Others(c) : MayOverlap \/ conn[d] \in {"new", "done"}
    /\ UNCHANGED <<banned, registry, ban, unbans>>

\* Upgrade, and clients[clientID] = client.
Register(c) ==
    /\ Goes(c, "checked", "open")
    /\ registry' = [registry EXCEPT ![HomeOf[c]][UserOf[c]] = c]
    /\ UNCHANGED <<banned, ban, unbans>>

\* The client leaves.
ReadEnds(c) ==
    /\ Goes(c, "open", "closing")
    /\ UNCHANGED <<banned, registry, ban, unbans>>

\* The read loop has ended: the deferred cleanup deletes the entry.
Unregister(c) ==
    /\ Goes(c, "closing", "done")
    /\ registry' = [registry EXCEPT ![HomeOf[c]][UserOf[c]] = None]
    /\ UNCHANGED <<banned, ban, unbans>>

-----------------------------------------------------------------------------
\* The ban is committed.  A call that changed nothing closes nothing.
Ban(k) ==
    /\ ban[k].stage = "none"
    /\ banned' = banned \cup {Target[k]}
    /\ ban' = [ban EXCEPT ![k] = IF Target[k] \in banned
                                 THEN [stage |-> "done", live |-> {}]
                                 ELSE [stage |-> "banned",
                                       live |-> OpenConns(Target[k])]]
    /\ UNCHANGED <<conn, registry, unbans>>

\* The ban is committed, and the handler never hears of it.
BanUnheard(k) ==
    /\ ban[k].stage = "none"
    /\ banned' = banned \cup {Target[k]}
    /\ ban' = [ban EXCEPT ![k] = [stage |-> "done", live |-> {}]]
    /\ UNCHANGED <<conn, registry, unbans>>

\* Wrong: the handler forgets to close.
BanOnly(k) ==
    /\ ban[k].stage = "banned"
    /\ ban' = [ban EXCEPT ![k].stage = "done"]
    /\ UNCHANGED <<banned, conn, registry, unbans>>

\* Wrong: the entry is deleted, and the websocket left alone.
SeverDeletes(k) ==
    /\ ban[k].stage = "banned"
    /\ ban' = [ban EXCEPT ![k].stage = "done"]
    /\ registry' = [registry EXCEPT ![ServedBy[k]][Target[k]] = None]
    /\ UNCHANGED <<banned, conn, unbans>>

\* disconnectClient, and the same lines of reportHandler.
Sever(k) ==
    LET c == registry[ServedBy[k]][Target[k]]
    IN  /\ ban[k].stage = "banned"
        /\ ban' = [ban EXCEPT ![k].stage = "done"]
        /\ conn' = IF c # None THEN [conn EXCEPT ![c] = "closing"] ELSE conn
        /\ UNCHANGED <<banned, registry, unbans>>

Unban(u) ==
    /\ u \in banned
    /\ unbans < MaxUnbans
    /\ unbans' = unbans + 1
    /\ banned' = banned \ {u}
    /\ UNCHANGED <<conn, registry, ban>>

-----------------------------------------------------------------------------
Server(c) == Register(c) \/ Unregister(c)

-----------------------------------------------------------------------------
(***************************************************************************)
(* Properties.                                                             *)
(***************************************************************************)
\* The handlers that have banned the user of c while c was open, and that look
\* for c where it is: in the map of their own instance.
Severers(c) == {k \in BanCall : c \in ban[k].live /\ ServedBy[k] = HomeOf[c]}

\* Another connection of the user has taken, or deleted, the entry of c.
Displaced(c) ==
    /\ registry[HomeOf[c]][UserOf[c]] # c
    /\ \E d \in Others(c) : HomeOf[d] = HomeOf[c] /\ conn[d] \notin {"new", "checked"}

\* A call that has banned a user, has heard so from the database and has
\* returned, has left no connection open that was open when it banned and that
\* it could find: one on its own instance whose entry in the map no other
\* connection of the user has taken or deleted.  The code promises nothing for
\* a connection on another instance, or for one whose entry is gone; see
\* BanClosesAll.
BanSevers ==
    \A c \in Conn : (\E k \in Severers(c) : ban[k].stage = "done")
                       => conn[c] # "open" \/ Displaced(c)

\* A ban ends every connection that was open on the instance of its handler,
\* up to the end of the cleanup, except one that has lost its entry to another
\* connection of its user and stays open.
BannedAreCleanedUp ==
    \A c \in Conn :
        (Severers(c) # {})
            ~> (conn[c] = "done" \/ (conn[c] = "open" /\ Displaced(c)))

\* What the handlers' comments promise ("Sever any active WebSocket the banned
\* user has open"): no connection that was open at the ban is open when the
\* call has returned.  It does not hold if the call is served by another
\* instance than the connection, or if the user has two connections.
BanClosesAll ==
    \A k \in BanCall : ban[k].stage = "done" =>
        \A c \in ban[k].live : conn[c] # "open"

\* A banned user has no open connection once the calls that ban it have
\* returned ("Reject banned users", handleConnections).
BannedNotConnected ==
    \A c \in Conn : (conn[c] = "open" /\ UserOf[c] \in banned) =>
        \E k \in BanCall : Target[k] = UserOf[c] /\ ban[k].stage = "banned"
=============================================================================
