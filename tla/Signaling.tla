------------------------------ MODULE Signaling ------------------------------
(***************************************************************************)
(* Phones that call each other: the Signaling class of the client          *)
(* (frontend/lib/signaling.dart), the call state of its screen (_join,     *)
(* _swipeToNext, _onReportTap, _endCall and the callbacks in main.dart),   *)
(* and as much of the server as they talk to.                              *)
(*                                                                         *)
(* An async method of Dart runs to its next await as one step; what is     *)
(* left of it then waits as a task of the phone.  A step named after a     *)
(* call into the WebRTC engine (set, apply) is the engine's; the engine    *)
(* refuses it on a connection that is disposed or in the wrong signaling   *)
(* state, and the method ends with the exception.                          *)
(*                                                                         *)
(* Users are numbers, ordered as compareTo orders their ids.  A peer       *)
(* connection is <<user, number>>; descriptions and candidates are known   *)
(* by the connection that made them.                                       *)
(*                                                                         *)
(* The server runs as several replicas that share the queue and the match  *)
(* notifications, but each relays only between its own websockets.  A user *)
(* connects again only when the server has cleaned up the connection       *)
(* before (Backend has the overlap), and a match that is published after   *)
(* the end of a connection is lost with it (Notify has the late ones).     *)
(***************************************************************************)
EXTENDS Integers, Sequences, FiniteSets

CONSTANTS
    User,
    None,
    Environments \* what may happen around the phones, see env

ASSUME SignalingAssumption ==
    /\ User \subseteq Nat /\ None \notin User
    /\ None \notin [type : {"offer", "answer"}, by : User \X Nat]
    /\ Environments \subseteq
         [starts : [User -> Nat], faults : Nat, drains : Nat,
          replicas : Nat \ {0},
          finding : SUBSET User,
          reports : [User -> {"none", "prompt", "late"}]]

VARIABLES
    phone,   \* the fields of Signaling, and the CallState of the screen
    pcs,     \* the peer connections each phone has made, in order
    tasks,   \* the async methods of each phone that wait at an await
    conn,    \* the server's side of each user's websocket
    home,    \* the replica that holds it; 0 for none
    news,    \* the peer of a match that is published, and not yet forwarded
    up,      \* messages of a phone that the server has not yet handled
    down,    \* messages to a phone that it has not yet handled
    waiting, \* the users in the queue
    mates,   \* history: the peer connections of the phones told of a match
    faults,  \* refusals, lost connections, failures, killed apps
    drains,  \* shutdowns of a user's server
    env      \* how many calls each user starts, how many faults and drains
             \* there are, and whether a user may report, or even join again
             \* while a report is being submitted; and how many replicas

vars == <<phone, pcs, tasks, conn, home, news, up, down, waiting, mates,
          faults, drains, env>>
sockets == <<conn, home, news, waiting>>
server == <<sockets, up>>
bounds == <<mates, faults, drains, env>>

Screen == {"idle", "matching", "connected", "reporting"}
Do == {"set_offer", "send_offer", "make", "apply_offer", "resume_offer",
       "set_answer", "send_answer", "apply_answer", "resume_answer",
       "create", "slide", "sheet", "submit", "reconnect"}

\* The peer connections that have been made.
PcIds == {p \in User \X Nat : p[2] \in DOMAIN pcs[p[1]]}

PcRecord ==
    [sig : {"stable", "local", "remote"},
     rem : [type : {"offer", "answer"}, by : PcIds] \cup {None},
     gather : {"no", "can", "done"}, heard : SUBSET PcIds, added : SUBSET PcIds,
     tracked : BOOLEAN, failed : BOOLEAN, gone : BOOLEAN]
Relayed ==
    [type : {"offer", "answer", "ice_candidate", "bye", "next_match"},
     from : User, to : User \cup {None}, by : PcIds \cup {None}]
FromServer ==
    [type : {"match"}, from : User] \cup [type : {"closed", "server_shutdown"}]

\* What the type of every variable is; no phone uses a peer connection that is
\* disposed.
TypeOK ==
    /\ phone \in [User -> [screen : Screen, remote : User \cup {None}, pc : Nat,
                           ready : BOOLEAN, pending : SUBSET PcIds,
                           chan : {"none", "connecting", "open"}]]
    /\ pcs \in [User -> Seq(PcRecord)]
    /\ \A u \in User : phone[u].pc # 0 =>
          phone[u].pc \in DOMAIN pcs[u] /\ ~pcs[u][phone[u].pc].gone
    /\ tasks \in [User -> SUBSET [do : Do, pc : Nat, by : PcIds \cup {None}]]
    /\ \A u \in User : \A t \in tasks[u] : t.pc \in {0} \cup DOMAIN pcs[u]
    /\ conn \in [User -> {"none", "open", "closing"}]
    /\ home \in [User -> 0 .. env.replicas]
    /\ \A u \in User : home[u] = 0 <=> conn[u] = "none"
    /\ news \in [User -> User \cup {None}]
    /\ \A u \in User : news[u] # None => conn[u] # "none" /\ u \notin waiting
    /\ up \in [User -> Seq(Relayed)]
    /\ down \in [User -> Seq(Relayed \cup FromServer)]
    /\ waiting \subseteq {u \in User : conn[u] # "none"}
    /\ mates \subseteq (User \X Nat) \X (User \X Nat)
    /\ faults \in 0 .. env.faults /\ drains \in 0 .. env.drains
    /\ env \in Environments

NewPc == [sig |-> "stable", rem |-> None, gather |-> "no", heard |-> {},
          added |-> {}, tracked |-> FALSE, failed |-> FALSE, gone |-> FALSE]

Task(do, n, by) == [do |-> do, pc |-> n, by |-> by]

\* A phone whose app has just been started.
Started == [screen |-> "idle", remote |-> None, pc |-> 0, ready |-> FALSE,
            pending |-> {}, chan |-> "none"]

Init ==
    /\ phone = [u \in User |-> Started]
    /\ pcs = [u \in User |-> <<>>]
    /\ tasks = [u \in User |-> {}]
    /\ conn = [u \in User |-> "none"]
    /\ home = [u \in User |-> 0] /\ news = [u \in User |-> None]
    /\ up = [u \in User |-> <<>>] /\ down = [u \in User |-> <<>>]
    /\ waiting = {} /\ mates = {}
    /\ faults = 0 /\ drains = 0 /\ env \in Environments

-----------------------------------------------------------------------------
(***************************************************************************)
(* Steps that several methods share.                                       *)
(***************************************************************************)
Pc(u) == phone[u].pc
\* The description that u's peer connection n has from its peer.
Rem(u, n) == pcs[u][n].rem
Next1(u) == Len(pcs[u]) + 1
MayStart(u) == Len(pcs[u]) < env.starts[u]
Does(u, do) == \E t \in tasks[u] : t.do = do
Fault == faults < env.faults /\ faults' = faults + 1 /\ UNCHANGED <<mates, drains, env>>

\* _send: on the channel of the moment, to the peer of the moment.
Message(u, type, by) ==
    [type |-> type, from |-> u, to |-> phone[u].remote, by |-> by]
Sent(u, messages) ==
    IF phone[u].chan = "open" THEN [up EXCEPT ![u] = @ \o messages] ELSE up

\* Peer connections of u are disposed: nothing is left of them but their peers.
Disposed(u, numbers) ==
    [n \in DOMAIN pcs[u] |->
        IF n \in numbers THEN [NewPc EXCEPT !.rem = Rem(u, n), !.gone = TRUE]
                         ELSE pcs[u][n]]

\* Wrong: the disposed peer connection stays the current one.
HangUpKeepsPc(u) ==
    /\ phone' = [phone EXCEPT ![u].screen = "idle", ![u].chan = "none"]
    /\ pcs' = [pcs EXCEPT ![u] = Disposed(u, {Pc(u)})]
    /\ down' = [down EXCEPT ![u] = <<>>]

\* onCallEnded does nothing before there is a call.
NoCall(u) == phone[u].screen \in {"idle", "matching"}

\* dispose, and the screen goes idle; nothing more is heard from the socket.
HangUp(u) ==
    /\ phone' = [phone EXCEPT ![u].screen = "idle", ![u].pc = 0,
                              ![u].chan = "none"]
    /\ pcs' = [pcs EXCEPT ![u] = Disposed(u, {Pc(u)})]
    /\ down' = [down EXCEPT ![u] = <<>>]

\* prewarm: a new peer connection, and nothing heard from its peer.
Prewarmed(u, screen, chan) ==
    /\ pcs' = [pcs EXCEPT ![u] = Append(@, NewPc)]
    /\ phone' = [phone EXCEPT ![u] = [@ EXCEPT !.pc = Next1(u), !.ready = FALSE,
                           !.pending = {}, !.screen = screen, !.chan = chan]]

-----------------------------------------------------------------------------
(***************************************************************************)
(* The user's actions.                                                     *)
(***************************************************************************)
\* _join.
Join(u) ==
    /\ phone[u].screen = "idle" /\ MayStart(u)
    /\ conn[u] = "none" /\ phone[u].chan = "none"
    /\ \A t \in tasks[u] : t.do = "submit" /\ env.reports[u] = "late"
    /\ Prewarmed(u, "matching", "connecting")
    /\ UNCHANGED <<tasks, server, down, bounds>>

\* _endCall; its button is hidden while the screen slides.
EndCall(u) ==
    /\ phone[u].screen = "connected" /\ ~Does(u, "slide")
    /\ up' = Sent(u, <<Message(u, "bye", None)>>)
    /\ HangUp(u)
    /\ UNCHANGED <<tasks, sockets, bounds>>

\* _swipeToNext and findNextMatch, up to the new connection and the slide;
\* done is the task that ends here.
FindNextMatch(u, done) ==
    /\ up' = Sent(u, <<Message(u, "bye", None),
                       [Message(u, "next_match", None) EXCEPT !.to = None]>>)
    /\ pcs' = [pcs EXCEPT ![u] = Append(Disposed(u, {Pc(u)}), NewPc)]
    /\ phone' = [phone EXCEPT ![u] = [@ EXCEPT !.pc = 0, !.remote = None,
                                             !.ready = FALSE, !.pending = {}]]
    /\ tasks' = [tasks EXCEPT ![u] = (@ \ done) \cup
                   {Task("create", Next1(u), None), Task("slide", 0, None)}]
    /\ UNCHANGED <<sockets, down, bounds>>

Swipe(u) ==
    /\ phone[u].screen = "connected" /\ MayStart(u)
    /\ FindNextMatch(u, {})

\* _onReportTap, up to the sheet.
Report(u) ==
    /\ phone[u].screen = "connected" /\ ~Does(u, "slide") /\ MayStart(u)
    /\ phone[u].remote # None /\ env.reports[u] # "none"
    /\ phone' = [phone EXCEPT ![u].screen = "reporting"]
    /\ tasks' = [tasks EXCEPT ![u] = @ \cup {Task("sheet", 0, None)}]
    /\ UNCHANGED <<pcs, server, down, bounds>>

\* No frame was captured, or the sheet is dismissed; or a reason is chosen.
AnswerSheet(u, t) ==
    /\ t.do = "sheet"
    /\ \/ /\ phone' = [phone EXCEPT ![u].screen = "connected"]
          /\ tasks' = [tasks EXCEPT ![u] = @ \ {t}]
       \/ /\ tasks' = [tasks EXCEPT ![u] = (@ \ {t}) \cup {Task("submit", 0, None)}]
          /\ UNCHANGED phone
    /\ UNCHANGED <<pcs, server, down, bounds>>

\* The report is submitted; the next match follows, whatever the screen shows.
Submitted(u, t) == t.do = "submit" /\ FindNextMatch(u, {t})

\* The app is killed, and started again.
Kill(u) ==
    /\ phone[u] # Started /\ Fault
    /\ phone' = [phone EXCEPT ![u] = Started]
    /\ pcs' = [pcs EXCEPT ![u] = Disposed(u, DOMAIN pcs[u])]
    /\ tasks' = [tasks EXCEPT ![u] = {}]
    /\ down' = [down EXCEPT ![u] = <<>>]
    /\ UNCHANGED server

-----------------------------------------------------------------------------
(***************************************************************************)
(* The server.                                                             *)
(***************************************************************************)
\* A connection of u is registered at one of the replicas, and enqueued.
Registered(u) ==
    /\ conn[u] = "none"
    /\ conn' = [conn EXCEPT ![u] = "open"]
    /\ \E i \in 1 .. env.replicas : home' = [home EXCEPT ![u] = i]
    /\ waiting' = waiting \cup {u}
    /\ UNCHANGED <<news, up>>

Accept(u) ==
    /\ phone[u].chan = "connecting"
    /\ phone' = [phone EXCEPT ![u].chan = "open"]
    /\ Registered(u)
    /\ UNCHANGED <<pcs, tasks, down, bounds>>

\* onConnectionError.
Refuse(u) ==
    /\ phone[u].chan = "connecting" /\ Fault
    /\ phone' = [phone EXCEPT ![u].chan = "none", ![u].screen = "idle"]
    /\ UNCHANGED <<pcs, tasks, server, down>>

Hears(u) == conn[u] = "open" /\ phone[u].chan = "open"
Written(u, m) == IF Hears(u) THEN Append(down[u], m) ELSE down[u]

\* Two waiting users are matched, and the match is published to each of them.
Match(u, v) ==
    /\ {u, v} \subseteq waiting /\ u # v
    /\ waiting' = waiting \ {u, v}
    /\ news' = [news EXCEPT ![u] = v, ![v] = u]
    /\ mates' = IF Hears(u) /\ Hears(v) /\ home[u] = home[v]
                THEN mates \cup {<<<<u, Pc(u)>>, <<v, Pc(v)>>>>} ELSE mates
    /\ UNCHANGED <<phone, pcs, tasks, conn, home, up, down, faults, drains, env>>

\* The goroutine of u's connection forwards what is published to u.
Tell(u) ==
    /\ news[u] # None
    /\ news' = [news EXCEPT ![u] = None]
    /\ down' = [down EXCEPT ![u] = Written(u, [type |-> "match", from |-> news[u]])]
    /\ UNCHANGED <<phone, pcs, tasks, conn, home, waiting, up, bounds>>

\* handleMessage: only a message with an addressee goes anywhere, and only to
\* a websocket of the same replica.
Relay(u) ==
    /\ conn[u] = "open" /\ up[u] # <<>>
    /\ up' = [up EXCEPT ![u] = Tail(@)]
    /\ LET m == Head(up[u])
       IN  down' = IF m.to = None THEN down
                   ELSE IF home[m.to] # home[u] THEN down
                   ELSE [down EXCEPT ![m.to] = Written(m.to, m)]
    /\ UNCHANGED <<phone, pcs, tasks, sockets, bounds>>

\* The server loses the connection, or shuts down and says so first.
Closes(u, messages) ==
    /\ Hears(u)
    /\ conn' = [conn EXCEPT ![u] = "closing"]
    /\ down' = [down EXCEPT ![u] = @ \o messages]
    /\ UNCHANGED <<phone, pcs, tasks, home, news, waiting, up>>

Lose(u) == Fault /\ Closes(u, <<[type |-> "closed"]>>)

Drain(u) ==
    /\ drains < env.drains /\ MayStart(u)
    /\ drains' = drains + 1 /\ UNCHANGED <<mates, faults, env>>
    /\ Closes(u, <<[type |-> "server_shutdown"], [type |-> "closed"]>>)

\* The deferred cleanup of handleConnections, when all that the phone had sent
\* before it closed the socket is read, or the server itself has closed it.
Cleanup(u) ==
    /\ \/ conn[u] = "closing"
       \/ conn[u] = "open" /\ phone[u].chan = "none" /\ up[u] = <<>>
    /\ conn' = [conn EXCEPT ![u] = "none"]
    /\ home' = [home EXCEPT ![u] = 0]
    /\ news' = [news EXCEPT ![u] = None]
    /\ up' = [up EXCEPT ![u] = <<>>]
    /\ waiting' = waiting \ {u}
    /\ UNCHANGED <<phone, pcs, tasks, down, bounds>>

-----------------------------------------------------------------------------
(***************************************************************************)
(* _handleMessage and onDone.                                              *)
(***************************************************************************)
Rest(u) == [down EXCEPT ![u] = Tail(@)]

Gets(u, type) ==
    /\ phone[u].chan = "open" /\ down[u] # <<>>
    /\ Head(down[u]).type = type

Begins(u, do, n, by) ==
    tasks' = [tasks EXCEPT ![u] = @ \cup {Task(do, n, by)}]

\* Wrong: whoever learns of the match first is the offerer, that is, has not yet
\* heard from its peer.
IsOffererFirst(u, v) == phone[u].remote # v

\* Glare prevention: the peer with the lower id is the offerer.
IsOfferer(u, v) == u < v

GetMatch(u) ==
    /\ Gets(u, "match")
    /\ LET v == Head(down[u]).from
       IN  /\ phone' = [phone EXCEPT ![u].remote = v]
           /\ IF IsOfferer(u, v) /\ Pc(u) # 0
              THEN Begins(u, "set_offer", Pc(u), None)
              ELSE UNCHANGED tasks
    /\ down' = Rest(u)
    /\ UNCHANGED <<pcs, server, bounds>>

GetOffer(u) ==
    /\ Gets(u, "offer")
    /\ LET m == Head(down[u])
       IN  /\ phone' = [phone EXCEPT ![u].remote = m.from]
           /\ IF Pc(u) # 0
              THEN Begins(u, "apply_offer", Pc(u), m.by) /\ UNCHANGED pcs
              ELSE /\ Begins(u, "make", Next1(u), m.by)
                   /\ pcs' = [pcs EXCEPT ![u] = Append(@, NewPc)]
    /\ down' = Rest(u)
    /\ UNCHANGED <<server, bounds>>

GetAnswer(u) ==
    /\ Gets(u, "answer")
    /\ IF Pc(u) # 0 THEN Begins(u, "apply_answer", Pc(u), Head(down[u]).by)
                    ELSE UNCHANGED tasks
    /\ down' = Rest(u)
    /\ UNCHANGED <<phone, pcs, server, bounds>>

\* Peer connection p, when candidate c has arrived for it; heard is a history.
Hearing(p, c, add) ==
    [p EXCEPT !.heard = @ \cup {c}, !.added = IF add THEN @ \cup {c} ELSE @]

\* addCandidate fails on a peer connection without remote description.
GetCandidate(u) ==
    /\ Gets(u, "ice_candidate")
    /\ LET c == Head(down[u]).by
           add == phone[u].ready /\ Pc(u) # 0 /\ Rem(u, Pc(u)) # None
       IN  /\ pcs' = [pcs EXCEPT ![u] = [n \in DOMAIN pcs[u] |->
                        IF n = Pc(u) THEN Hearing(pcs[u][n], c, add)
                                     ELSE pcs[u][n]]]
           /\ IF phone[u].ready \/ Pc(u) = 0 THEN UNCHANGED phone
              ELSE phone' = [phone EXCEPT ![u].pending = @ \cup {c}]
    /\ down' = Rest(u)
    /\ UNCHANGED <<tasks, server, bounds>>

GetBye(u) ==
    /\ Gets(u, "bye")
    /\ IF Pc(u) # 0 /\ ~NoCall(u) THEN HangUp(u)
       ELSE down' = Rest(u) /\ UNCHANGED <<phone, pcs>>
    /\ UNCHANGED <<tasks, server, bounds>>

\* onDone, with what onCallEnded makes of it.
GetClosed(u) ==
    /\ Gets(u, "closed")
    /\ IF NoCall(u)
       THEN /\ phone' = [phone EXCEPT ![u].chan = "none"]
            /\ down' = Rest(u) /\ UNCHANGED pcs
       ELSE HangUp(u)
    /\ UNCHANGED <<tasks, server, bounds>>

\* _handleServerShutdown and onServerShutdown, up to the reconnect.
GetShutdown(u) ==
    /\ Gets(u, "server_shutdown")
    /\ phone' = [phone EXCEPT ![u] = [Started EXCEPT !.screen = "matching"]]
    /\ pcs' = [pcs EXCEPT ![u] = Disposed(u, {Pc(u)})]
    /\ down' = [down EXCEPT ![u] = <<>>]
    /\ Begins(u, "reconnect", 0, None)
    /\ UNCHANGED <<server, bounds>>

Receive(u) ==
    \/ GetMatch(u) \/ GetOffer(u) \/ GetAnswer(u) \/ GetCandidate(u)
    \/ GetBye(u) \/ GetClosed(u) \/ GetShutdown(u)

-----------------------------------------------------------------------------
(***************************************************************************)
(* The tasks: the rest of the async methods.                               *)
(***************************************************************************)
Goes(u, t, do) ==
    tasks' = [tasks EXCEPT ![u] = (@ \ {t}) \cup {[t EXCEPT !.do = do]}]
Ends(u, t) == tasks' = [tasks EXCEPT ![u] = @ \ {t}]

\* The engine is asked to change t's peer connection, in one of the signaling
\* states given; if it does the method goes on, if not it ends.
Engine(u, t, states, changed, do) ==
    IF ~pcs[u][t.pc].gone /\ pcs[u][t.pc].sig \in states
    THEN pcs' = [pcs EXCEPT ![u][t.pc] = changed] /\ Goes(u, t, do)
    ELSE Ends(u, t) /\ UNCHANGED pcs

\* The engine executes the calls into one peer connection in their order: the
\* descriptions that have arrived are applied before t goes on.
InOrder(u, t) ==
    ~\E s \in tasks[u] : s.pc = t.pc /\ s.do \in {"apply_offer", "apply_answer"}

\* A local description starts the gathering of candidates.
Gathering(p) == IF p.gather = "no" THEN "can" ELSE p.gather

\* _createOffer.
SetOffer(u, t) ==
    /\ t.do = "set_offer" /\ InOrder(u, t)
    /\ Engine(u, t, {"stable", "local"},
              [pcs[u][t.pc] EXCEPT !.sig = "local", !.gather = Gathering(pcs[u][t.pc])],
              "send_offer")
    /\ UNCHANGED <<phone, server, down, bounds>>

\* The descriptions are sent, to whoever is the peer by now.
SendDescription(u, t) ==
    /\ t.do \in {"send_offer", "send_answer"}
    /\ up' = Sent(u, <<Message(u, IF t.do = "send_offer" THEN "offer" ELSE "answer",
                              <<u, t.pc>>)>>)
    /\ Ends(u, t)
    /\ UNCHANGED <<phone, pcs, sockets, down, bounds>>

\* _handleOffer and _handleAnswer.
Make(u, t) ==
    /\ t.do = "make"
    /\ phone' = [phone EXCEPT ![u].pc = t.pc]
    /\ Goes(u, t, "apply_offer")
    /\ UNCHANGED <<pcs, server, down, bounds>>

Apply(u, t) ==
    /\ \/ /\ t.do = "apply_offer"
          /\ Engine(u, t, {"stable", "remote"},
                    [pcs[u][t.pc] EXCEPT !.sig = "remote",
                                         !.rem = [type |-> "offer", by |-> t.by]],
                    "resume_offer")
       \/ /\ t.do = "apply_answer"
          /\ Engine(u, t, {"local"},
                    [pcs[u][t.pc] EXCEPT !.sig = "stable",
                                         !.rem = [type |-> "answer", by |-> t.by]],
                    "resume_answer")
    /\ UNCHANGED <<phone, server, down, bounds>>

\* Wrong: the buffered candidates are forgotten.
ResumeWithoutFlush(u, t) ==
    /\ t.do \in {"resume_offer", "resume_answer"}
    /\ phone' = [phone EXCEPT ![u].ready = TRUE, ![u].pending = {}]
    /\ IF t.do = "resume_offer" THEN Goes(u, t, "set_answer") ELSE Ends(u, t)
    /\ UNCHANGED <<pcs, server, down, bounds>>

\* Wrong: a phone without buffered candidates makes no answer.
ResumeOnlyIfPending(u, t) ==
    /\ t.do \in {"resume_offer", "resume_answer"}
    /\ IF Pc(u) # 0 /\ Rem(u, Pc(u)) # None
       THEN pcs' = [pcs EXCEPT ![u][Pc(u)].added = @ \cup phone[u].pending]
       ELSE UNCHANGED pcs
    /\ phone' = [phone EXCEPT ![u].ready = TRUE,
                              ![u].pending = IF Pc(u) = 0 THEN @ ELSE {}]
    /\ IF t.do = "resume_offer" /\ phone[u].pending # {}
       THEN Goes(u, t, "set_answer") ELSE Ends(u, t)
    /\ UNCHANGED <<server, down, bounds>>

\* The flag is set and the buffer flushed, for the current peer connection.
Resume(u, t) ==
    /\ t.do \in {"resume_offer", "resume_answer"}
    /\ IF Pc(u) # 0 /\ Rem(u, Pc(u)) # None
       THEN pcs' = [pcs EXCEPT ![u][Pc(u)].added = @ \cup phone[u].pending]
       ELSE UNCHANGED pcs
    /\ phone' = [phone EXCEPT ![u].ready = TRUE,
                              ![u].pending = IF Pc(u) = 0 THEN @ ELSE {}]
    /\ IF t.do = "resume_offer" THEN Goes(u, t, "set_answer") ELSE Ends(u, t)
    /\ UNCHANGED <<server, down, bounds>>

SetAnswer(u, t) ==
    /\ t.do = "set_answer" /\ InOrder(u, t)
    /\ Engine(u, t, {"remote"},
              [pcs[u][t.pc] EXCEPT !.sig = "stable", !.gather = Gathering(pcs[u][t.pc])],
              "send_answer")
    /\ UNCHANGED <<phone, server, down, bounds>>

\* findNextMatch has made its peer connection, whatever is there by now.
Create(u, t) ==
    /\ t.do = "create"
    /\ phone' = [phone EXCEPT ![u].pc = t.pc]
    /\ Ends(u, t)
    /\ UNCHANGED <<pcs, server, down, bounds>>

\* _swipeToNext, after the animation.
Slide(u, t) ==
    /\ t.do = "slide"
    /\ phone' = [phone EXCEPT ![u].screen = "matching"]
    /\ Ends(u, t)
    /\ UNCHANGED <<pcs, server, down, bounds>>

\* reconnect, when an attempt succeeds, and when the last has failed.
Reconnect(u, t) ==
    /\ t.do = "reconnect"
    /\ Prewarmed(u, phone[u].screen, "open")
    /\ Registered(u)
    /\ Ends(u, t)
    /\ UNCHANGED <<down, bounds>>

GiveUp(u, t) ==
    /\ t.do = "reconnect" /\ Fault
    /\ Prewarmed(u, "idle", phone[u].chan)
    /\ Ends(u, t)
    /\ UNCHANGED <<server, down>>

Works(u, t) ==
    \/ SetOffer(u, t) \/ SendDescription(u, t) \/ Make(u, t) \/ Apply(u, t)
    \/ Resume(u, t) \/ SetAnswer(u, t) \/ Create(u, t) \/ Slide(u, t)
    \/ Reconnect(u, t)

-----------------------------------------------------------------------------
(***************************************************************************)
(* What the engine reports of a peer connection that is not disposed,      *)
(* whether or not the phone still uses it.                                 *)
(***************************************************************************)
\* onIceCandidate: sent to the peer of the moment.
Gather(u, n) ==
    /\ ~pcs[u][n].gone /\ pcs[u][n].gather = "can" /\ u \in env.finding
    /\ pcs' = [pcs EXCEPT ![u][n].gather = "done"]
    /\ up' = Sent(u, <<Message(u, "ice_candidate", <<u, n>>)>>)
    /\ UNCHANGED <<phone, tasks, sockets, down, bounds>>

\* onTrack, hence onRemoteStream.
Track(u, n) ==
    /\ ~pcs[u][n].gone /\ pcs[u][n].rem # None /\ ~pcs[u][n].tracked
    /\ pcs' = [pcs EXCEPT ![u][n].tracked = TRUE]
    /\ phone' = [phone EXCEPT ![u].screen = "connected"]
    /\ UNCHANGED <<tasks, server, down, bounds>>

Gone(p) == pcs[p[1]][p[2]].gone

\* Wrong: a lost connection does not end the call.
DisconnectsUnnoticed(u, n) ==
    /\ ~pcs[u][n].gone /\ pcs[u][n].tracked /\ ~pcs[u][n].failed
    /\ pcs' = [pcs EXCEPT ![u][n].failed = TRUE]
    /\ UNCHANGED <<phone, down, tasks, server>>

\* onConnectionState, once for each peer connection.
Disconnects(u, n) ==
    /\ ~pcs[u][n].gone /\ pcs[u][n].tracked /\ ~pcs[u][n].failed
    /\ IF NoCall(u)
       THEN /\ pcs' = [pcs EXCEPT ![u][n].failed = TRUE]
            /\ UNCHANGED <<phone, down>>
       ELSE HangUp(u)
    /\ UNCHANGED <<tasks, server>>

\* The other side is disposed; or the network fails.
PeerGone(u, n) == Disconnects(u, n) /\ Gone(Rem(u, n).by) /\ UNCHANGED bounds
IceFails(u, n) == Disconnects(u, n) /\ Fault

Reports(u) ==
    \E n \in DOMAIN pcs[u] : Gather(u, n) \/ Track(u, n) \/ PeerGone(u, n)

-----------------------------------------------------------------------------
\* What users do, and what goes wrong.
Acts(u) ==
    \/ Join(u) \/ EndCall(u) \/ Swipe(u) \/ Report(u) \/ Kill(u)
    \/ \E t \in tasks[u] : AnswerSheet(u, t) \/ Submitted(u, t) \/ GiveUp(u, t)
    \/ \E n \in DOMAIN pcs[u] : IceFails(u, n)
    \/ Refuse(u) \/ Lose(u) \/ Drain(u)

\* What the server, the phones and their engines do by themselves.
Proceeds ==
    \E u \in User :
        \/ Accept(u) \/ Tell(u) \/ Relay(u) \/ Cleanup(u)
        \/ Receive(u) \/ Reports(u)
        \/ \E t \in tasks[u] : Works(u, t)
        \/ \E v \in User : Match(u, v)

Next == Proceeds \/ \E u \in User : Acts(u)

Spec == Init /\ [][Next]_vars

\* As long as something can proceed something does: handlers run, messages
\* arrive, the engine answers, and a peer that is gone is noticed.
FairSpec == Spec /\ WF_vars(Proceeds)

-----------------------------------------------------------------------------
(***************************************************************************)
(* Properties.                                                             *)
(***************************************************************************)
AnswersFit ==
    \A u \in User : \A n \in DOMAIN pcs[u] :
        (~pcs[u][n].gone /\ Rem(u, n) # None /\ Rem(u, n).type = "answer") =>
            Rem(Rem(u, n).by[1], Rem(u, n).by[2]) = [type |-> "offer", by |-> <<u, n>>]

NoGlare ==
    \A u, v \in User :
        (Pc(u) # 0 /\ pcs[u][Pc(u)].sig = "local") =>
            /\ ~\E t \in tasks[u] : t.do = "apply_offer"
            /\ (Pc(v) # 0 /\ phone[u].remote = v /\ phone[v].remote = u)
                  => pcs[v][Pc(v)].sig # "local"

\* Nothing goes wrong, and nobody joins again while submitting a report.
Calm == faults = 0 /\ drains = 0 /\ \A u \in User : env.reports[u] # "late"

\* Not more than two users call.
TwoPhones == Cardinality({u \in User : env.starts[u] > 0}) <= 2

\* Two phones never have offers for each other at once, whichever of them
\* learns of the match first ("Glare prevention", _handleMessage), and an
\* answer that a phone has applied was made for the offer of that very peer
\* connection, although neither offers nor answers say which connection or
\* which match they belong to (_handleOffer, _handleAnswer).  This holds while
\* nothing goes wrong.  Between two phones the first holds always, the second
\* while not more than one thing goes wrong; a third phone can have a late
\* offer for one of them.
SameExchange ==
    /\ (Calm \/ TwoPhones) => NoGlare
    /\ (Calm \/ (TwoPhones /\ faults + drains <= 1)) => AnswersFit

CandidatesKept ==
    \A u \in User :
        (Pc(u) # 0 /\ Rem(u, Pc(u)) # None) =>
            LET p == pcs[u][Pc(u)]
            IN  p.rem.by \in p.heard => p.rem.by \in p.added \cup phone[u].pending

\* A candidate of the other side of a call that arrived while the phone had its
\* peer connection is buffered or added, whether it came before the description,
\* between the description and the flush of the buffer, or later, while nothing
\* goes wrong, and between two phones while not more than one thing does, which
\* is no shutdown (_handleIceCandidate, _flushPendingRemoteCandidates).
CandidateKept ==
    (Calm \/ (TwoPhones /\ drains = 0 /\ faults <= 1)) => CandidatesKept

Given(p) == p[2] # 0 /\ Pc(p[1]) = p[2] /\ Hears(p[1])
Pending(pair) ==
    /\ Given(pair[1]) /\ Given(pair[2])
    /\ \E p \in {pair[1], pair[2]} : ~pcs[p[1]][p[2]].tracked

\* Two phones that are matched when each has its peer connection, and whose
\* websockets are at one replica, both get a picture, unless one of the two
\* peer connections is given up or a websocket is closed.  It does not matter
\* which of the two is told first: an offer may overtake the match (prewarm,
\* _handleOffer).  At two replicas they do not connect, since handleMessage
\* looks for the addressee among the clients of its own process.
MatchedConnect ==
    (\E pair \in mates : Pending(pair)) ~> ~\E pair \in mates : Pending(pair)

\* u's phone shows a call whose other side is disposed.
Deserted(u) ==
    /\ phone[u].screen \in {"connected", "reporting"} /\ Pc(u) # 0
    /\ Rem(u, Pc(u)) # None /\ Gone(Rem(u, Pc(u)).by)

\* Once the other side of a call is gone the phone leaves the call, also when
\* the bye finds it swiping, reporting or in the middle of the exchange.
DeadCallEnds == \A u \in User : Deserted(u) ~> ~Deserted(u)

\* Whoever swipes is waiting for a match again, or leaves ("re-enters the
\* matching queue", findNextMatch).
SwipedWaits ==
    \A u \in User :
        (\E k \in DOMAIN up[u] : up[u][k].type = "next_match")
            ~> (u \in waiting \/ phone[u].chan # "open")

\* The screen shows a call only while there is one ("only visible during a
\* live, connected call", the report shield).
ConnectedIsLive ==
    \A u \in User : phone[u].screen = "connected" => Pc(u) # 0 \/ Does(u, "slide")

\* Whoever is told of a match has a peer connection ready for it ("all before a
\* peer is even assigned", prewarm).
PrewarmedBeforeMatch == \A u \in User : Gets(u, "match") => Pc(u) # 0

=============================================================================
