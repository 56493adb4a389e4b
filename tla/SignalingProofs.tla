--------------------------- MODULE SignalingProofs ---------------------------
(***************************************************************************)
(* Proofs about Signaling for any number of phones, calls and faults: type *)
(* correctness, by which no phone uses a peer connection that is disposed; *)
(* while nothing goes wrong, that exchanges do not get mixed up and        *)
(* candidates are kept; and, whatever does, that two phones have no offers *)
(* for each other at once.                                                 *)
(***************************************************************************)
EXTENDS Signaling, FiniteSetTheorems, TLAPS

-----------------------------------------------------------------------------
(***************************************************************************)
(* The inductive invariant, phone by phone.                                *)
(***************************************************************************)
\* The types, with the set P of peer connections that there are.
PhoneOf(P) ==
    [screen : Screen, remote : User \cup {None}, pc : Nat, ready : BOOLEAN,
     pending : SUBSET P, chan : {"none", "connecting", "open"}]
DescriptionOf(P) == [type : {"offer", "answer"}, by : P] \cup {None}
PcOf(P) ==
    [sig : {"stable", "local", "remote"}, rem : DescriptionOf(P),
     gather : {"no", "can", "done"}, heard : SUBSET P, added : SUBSET P,
     tracked : BOOLEAN, failed : BOOLEAN, gone : BOOLEAN]
TaskOf(P) == [do : Do, pc : Nat, by : P \cup {None}]

\* Descriptions and candidates name the peer connection that made them.
Made == {"offer", "answer", "ice_candidate"}
MessageOf(P) ==
    {m \in [type : {"offer", "answer", "ice_candidate", "bye", "next_match"},
            from : User, to : User \cup {None}, by : P \cup {None}] :
        m.type \in Made => m.by \in P}
HeardOf(P) == MessageOf(P) \cup FromServer

\* The tasks that work on a peer connection, those that have a description to
\* apply, and those that will make a peer connection the current one.
Working == {"set_offer", "send_offer", "make", "apply_offer", "resume_offer",
            "set_answer", "send_answer", "apply_answer", "resume_answer",
            "create"}
Applying == {"make", "apply_offer", "apply_answer"}
Making == {"make", "create"}

\* What a phone's tasks are about.  A peer connection that is being made is not
\* the current one, not disposed, and made by one task only.
TaskInv(u) ==
    \A t \in tasks[u] :
        /\ t.pc \in {0} \cup DOMAIN pcs[u]
        /\ t.do \in Working => t.pc \in DOMAIN pcs[u]
        /\ t.do \in Applying => t.by \in PcIds
        /\ t.do \in Making =>
              /\ ~pcs[u][t.pc].gone
              /\ t.pc # Pc(u)
              /\ \A s \in tasks[u] : s.do \in Making /\ s.pc = t.pc => s = t

Current(u) == Pc(u) # 0 => Pc(u) \in DOMAIN pcs[u] /\ ~pcs[u][Pc(u)].gone

Local(u) ==
    /\ phone[u] \in PhoneOf(PcIds)
    /\ pcs[u] \in Seq(PcOf(PcIds))
    /\ tasks[u] \subseteq TaskOf(PcIds)
    /\ Current(u)
    /\ TaskInv(u)

Functions ==
    DOMAIN phone = User /\ DOMAIN pcs = User /\ DOMAIN tasks = User
    /\ phone = [u \in User |-> phone[u]]
    /\ pcs = [u \in User |-> pcs[u]]
    /\ tasks = [u \in User |-> tasks[u]]

Messages ==
    /\ up \in [User -> Seq(MessageOf(PcIds))]
    /\ down \in [User -> Seq(HeardOf(PcIds))]

Sockets ==
    /\ conn \in [User -> {"none", "open", "closing"}]
    /\ home \in [User -> 0 .. env.replicas]
    /\ \A u \in User : home[u] = 0 <=> conn[u] = "none"
    /\ news \in [User -> User \cup {None}]
    /\ \A u \in User : news[u] # None => conn[u] # "none" /\ u \notin waiting
    /\ waiting \subseteq {u \in User : conn[u] # "none"}

Rest1 ==
    /\ Sockets
    /\ mates \subseteq (User \X Nat) \X (User \X Nat)
    /\ faults \in 0 .. env.faults /\ drains \in 0 .. env.drains
    /\ env \in Environments

Inv == Functions /\ (\A u \in User : Local(u)) /\ Messages /\ Rest1

\* The invariant says as much as the types do.
LEMMA InvTypeOK == Inv => TypeOK
<1> SUFFICES ASSUME Inv
             PROVE  TypeOK
    OBVIOUS
<1> USE DEF Inv
<1>1. phone \in [User -> PhoneOf(PcIds)]
    BY DEF Functions, Local
<1>2. pcs \in [User -> Seq(PcOf(PcIds))]
    BY DEF Functions, Local
<1>3. tasks \in [User -> SUBSET TaskOf(PcIds)]
    BY DEF Functions, Local
<1>4. MessageOf(PcIds) \subseteq Relayed
    BY DEF MessageOf, Relayed
<1>5. up \in [User -> Seq(Relayed)]
    BY <1>4 DEF Messages
<1>6. down \in [User -> Seq(Relayed \cup FromServer)]
    BY <1>4 DEF Messages, HeardOf
<1>7. PcOf(PcIds) = PcRecord
    BY DEF PcOf, PcRecord, DescriptionOf
<1>8. \A u \in User : Current(u) /\ TaskInv(u)
    BY DEF Local
<1> QED
    BY <1>1, <1>2, <1>3, <1>5, <1>6, <1>7, <1>8
    DEF TypeOK, Rest1, Sockets, PhoneOf, TaskOf, Current, TaskInv, Pc

\* It holds initially.
LEMMA InitInv == Init => Inv
<1> SUFFICES ASSUME Init
             PROVE  Inv
    OBVIOUS
<1>1. Functions
    BY DEF Init, Functions
<1>2. ASSUME NEW u \in User
      PROVE  Local(u)
    BY SignalingAssumption
    DEF Init, Local, PhoneOf, Started, Screen, Current, Pc, TaskInv
<1>3. Messages
    BY DEF Init, Messages
<1>4. Rest1
    BY SignalingAssumption DEF Init, Rest1, Sockets
<1> QED
    BY <1>1, <1>2, <1>3, <1>4 DEF Inv

-----------------------------------------------------------------------------
(***************************************************************************)
(* Steps of one phone.                                                     *)
(***************************************************************************)
\* With more peer connections there are more of everything that names them.
LEMMA TypesGrow ==
    ASSUME NEW P, NEW Q, P \subseteq Q
    PROVE  /\ PhoneOf(P) \subseteq PhoneOf(Q)
           /\ PcOf(P) \subseteq PcOf(Q) /\ Seq(PcOf(P)) \subseteq Seq(PcOf(Q))
           /\ TaskOf(P) \subseteq TaskOf(Q)
           /\ MessageOf(P) \subseteq MessageOf(Q)
           /\ HeardOf(P) \subseteq HeardOf(Q)
           /\ Seq(MessageOf(P)) \subseteq Seq(MessageOf(Q))
           /\ Seq(HeardOf(P)) \subseteq Seq(HeardOf(Q))
<1>0. \A S, T : S \subseteq T => Seq(S) \subseteq Seq(T)
    OBVIOUS
<1>1. PhoneOf(P) \subseteq PhoneOf(Q)
    BY DEF PhoneOf
<1>2. DescriptionOf(P) \subseteq DescriptionOf(Q)
    BY DEF DescriptionOf
<1>3. PcOf(P) \subseteq PcOf(Q)
    BY <1>2 DEF PcOf
<1>4. TaskOf(P) \subseteq TaskOf(Q)
    BY DEF TaskOf
<1>5. MessageOf(P) \subseteq MessageOf(Q)
    BY DEF MessageOf
<1>6. HeardOf(P) \subseteq HeardOf(Q)
    BY <1>5 DEF HeardOf
<1> QED
    BY <1>0, <1>1, <1>3, <1>4, <1>5, <1>6

\* Only u's phone moves, and it keeps its peer connections.
OnlyPhone(u) ==
    /\ Functions'
    /\ \A v \in User \ {u} :
          phone'[v] = phone[v] /\ pcs'[v] = pcs[v] /\ tasks'[v] = tasks[v]
    /\ DOMAIN pcs[u] \subseteq DOMAIN pcs'[u]

\* Peer connections stay.
LEMMA PcIdsGrow ==
    ASSUME NEW u \in User, OnlyPhone(u)
    PROVE  PcIds \subseteq PcIds'
    BY DEF OnlyPhone, PcIds

\* The other phones stay as they are.
LEMMA OtherPhones ==
    ASSUME Inv, NEW u \in User, OnlyPhone(u), NEW v \in User \ {u}
    PROVE  Local(v)'
<1>1. PcIds \subseteq PcIds'
    BY PcIdsGrow
<1>2. phone'[v] = phone[v] /\ pcs'[v] = pcs[v] /\ tasks'[v] = tasks[v]
    BY DEF OnlyPhone
<1>3. /\ phone[v] \in PhoneOf(PcIds')
      /\ pcs[v] \in Seq(PcOf(PcIds'))
      /\ tasks[v] \subseteq TaskOf(PcIds')
    BY <1>1, TypesGrow DEF Inv, Local
<1>4. Current(v)'
    BY <1>2 DEF Inv, Local, Current, Pc
<1>5. TaskInv(v)'
    BY <1>1, <1>2 DEF Inv, Local, TaskInv, Pc
<1> QED
    BY <1>2, <1>3, <1>4, <1>5 DEF Local

\* A task that a phone may begin: it works on one of the peer connections.
Begun(u, t) ==
    /\ t \in TaskOf(PcIds)
    /\ t.pc \in {0} \cup DOMAIN pcs[u]
    /\ t.do \in Working => t.pc \in DOMAIN pcs[u]
    /\ t.do \in Applying => t.by \in PcIds

\* No peer connection of u is disposed but the current one.
DisposesCurrent(u) ==
    \A n \in DOMAIN pcs[u] : pcs'[u][n].gone => pcs[u][n].gone \/ n = Pc(u)

\* Of the tasks that a phone begins at most one makes a peer connection current,
\* and that one is new.
LEMMA TaskStep ==
    ASSUME Inv, NEW u \in User, OnlyPhone(u), DisposesCurrent(u),
           \A t \in tasks'[u] : t.do \in Making => t.pc # Pc(u)',
           \A t \in tasks'[u] \ tasks[u] : Begun(u, t)',
           \A t \in tasks'[u] \ tasks[u] : t.do \in Making =>
               /\ t.pc \notin DOMAIN pcs[u]
               /\ ~pcs'[u][t.pc].gone
               /\ \A s \in tasks'[u] \ tasks[u] : s.do \in Making => s = t
    PROVE  tasks'[u] \subseteq TaskOf(PcIds') /\ TaskInv(u)'
<1>1. PcIds \subseteq PcIds'
    BY PcIdsGrow
<1>2. tasks'[u] \subseteq TaskOf(PcIds')
    BY <1>1, TypesGrow DEF Inv, Local, Begun
<1>3. ASSUME NEW t \in tasks'[u]
      PROVE  Begun(u, t)'
    <2>1. CASE t \in tasks[u]
        BY <1>1, <1>2, <2>1 DEF Inv, Local, TaskInv, OnlyPhone, Begun
    <2>2. CASE t \notin tasks[u]
        BY <2>2
    <2> QED
        BY <2>1, <2>2
<1>4. ASSUME NEW t \in tasks'[u], t.do \in Making
      PROVE  /\ ~pcs'[u][t.pc].gone
             /\ \A s \in tasks'[u] : s.do \in Making /\ s.pc = t.pc => s = t
    <2>1. \A s \in tasks[u] : s.do \in Making =>
              /\ s.pc \in DOMAIN pcs[u] /\ ~pcs[u][s.pc].gone /\ s.pc # Pc(u)
              /\ \A r \in tasks[u] : r.do \in Making /\ r.pc = s.pc => r = s
        BY DEF Inv, Local, TaskInv, Making, Working
    <2>2. \A s \in tasks[u] : s.do \in Making => ~pcs'[u][s.pc].gone
        BY <2>1 DEF DisposesCurrent
    <2>3. CASE t \in tasks[u]
        BY <1>4, <2>1, <2>2, <2>3
    <2>4. CASE t \notin tasks[u]
        BY <1>4, <2>1, <2>4
    <2> QED
        BY <2>3, <2>4
<1> QED
    BY <1>2, <1>3, <1>4 DEF TaskInv, Begun

\* What has to be shown of a step of one phone.
LEMMA PhoneStep ==
    ASSUME Inv, NEW u \in User, OnlyPhone(u), DisposesCurrent(u),
           phone'[u] \in PhoneOf(PcIds'),
           pcs'[u] \in Seq(PcOf(PcIds')),
           Current(u)',
           \A t \in tasks'[u] : t.do \in Making => t.pc # Pc(u)',
           \A t \in tasks'[u] \ tasks[u] : Begun(u, t)',
           \A t \in tasks'[u] \ tasks[u] : t.do \in Making =>
               /\ t.pc \notin DOMAIN pcs[u]
               /\ ~pcs'[u][t.pc].gone
               /\ \A s \in tasks'[u] \ tasks[u] : s.do \in Making => s = t
    PROVE  Functions' /\ \A v \in User : Local(v)'
<1>1. tasks'[u] \subseteq TaskOf(PcIds') /\ TaskInv(u)'
    BY TaskStep
<1>2. Local(u)'
    BY <1>1 DEF Local
<1> QED
    BY <1>2, OtherPhones DEF OnlyPhone

-----------------------------------------------------------------------------
(***************************************************************************)
(* What happens to peer connections.                                       *)
(***************************************************************************)
\* Only u's peer connections may change, and there are as many as before.
SameIds(u) ==
    /\ PcIds' = PcIds
    /\ DOMAIN pcs'[u] = DOMAIN pcs[u]
    /\ pcs'[u] \in Seq(PcOf(PcIds))
    /\ DOMAIN pcs' = User /\ pcs' = [v \in User |-> pcs'[v]]
    /\ \A v \in User \ {u} : pcs'[v] = pcs[v]

SameGone(u) == \A n \in DOMAIN pcs[u] : pcs'[u][n].gone = pcs[u][n].gone

\* Nothing happens to them.
LEMMA PcsUnchanged ==
    ASSUME Inv, NEW u \in User, UNCHANGED pcs
    PROVE  SameIds(u) /\ SameGone(u)
BY DEF Inv, Functions, Local, SameIds, SameGone, PcIds

\* All of u's peer connections are what a function of their number says.
LEMMA PcsRewritten ==
    ASSUME Inv, NEW u \in User, NEW q,
           DOMAIN q = DOMAIN pcs[u], q = [n \in DOMAIN pcs[u] |-> q[n]],
           \A n \in DOMAIN pcs[u] : q[n] \in PcOf(PcIds),
           pcs' = [pcs EXCEPT ![u] = q]
    PROVE  SameIds(u) /\ pcs'[u] = q
<1>1. pcs[u] \in Seq(PcOf(PcIds)) /\ DOMAIN pcs = User
    BY DEF Inv, Local, Functions
<1>2. pcs'[u] = q /\ DOMAIN pcs' = User /\ \A v \in User \ {u} : pcs'[v] = pcs[v]
    BY <1>1
<1>3. pcs' = [v \in User |-> pcs'[v]]
    BY <1>1
<1>4. PcIds' = PcIds
    BY <1>2 DEF PcIds
<1>5. Len(pcs[u]) \in Nat /\ DOMAIN pcs[u] = 1 .. Len(pcs[u])
    BY <1>1
<1>6. q \in Seq(PcOf(PcIds))
    BY <1>5
<1> QED
    BY <1>2, <1>3, <1>4, <1>6 DEF SameIds

\* One of them becomes r.
LEMMA PcBecomes ==
    ASSUME Inv, NEW u \in User, NEW n \in DOMAIN pcs[u], NEW r \in PcOf(PcIds),
           pcs' = [pcs EXCEPT ![u][n] = r]
    PROVE  /\ SameIds(u)
           /\ pcs'[u][n] = r
           /\ \A k \in DOMAIN pcs[u] \ {n} : pcs'[u][k] = pcs[u][k]
           /\ r.gone = pcs[u][n].gone => SameGone(u)
<1> DEFINE q == [pcs[u] EXCEPT ![n] = r]
<1>1. pcs[u] \in Seq(PcOf(PcIds)) /\ DOMAIN pcs = User
    BY DEF Inv, Local, Functions
<1>2. \A k \in DOMAIN pcs[u] : pcs[u][k] \in PcOf(PcIds)
    BY <1>1
<1>3. /\ DOMAIN q = DOMAIN pcs[u] /\ q = [k \in DOMAIN pcs[u] |-> q[k]]
      /\ q[n] = r /\ \A k \in DOMAIN pcs[u] \ {n} : q[k] = pcs[u][k]
    OBVIOUS
<1>4. \A k \in DOMAIN pcs[u] : q[k] \in PcOf(PcIds)
    BY <1>2, <1>3
<1>5. pcs' = [pcs EXCEPT ![u] = q]
    OBVIOUS
<1> HIDE DEF q
<1>6. SameIds(u) /\ pcs'[u] = q
    BY <1>3, <1>4, <1>5, PcsRewritten
<1> QED
    BY <1>3, <1>6 DEF SameGone

\* Some of them are disposed.
LEMMA PcsDisposed ==
    ASSUME Inv, NEW u \in User, NEW N, pcs' = [pcs EXCEPT ![u] = Disposed(u, N)]
    PROVE  /\ SameIds(u)
           /\ \A n \in DOMAIN pcs[u] \ N : pcs'[u][n] = pcs[u][n]
           /\ \A n \in DOMAIN pcs[u] \cap N :
                  pcs'[u][n] = [NewPc EXCEPT !.rem = Rem(u, n), !.gone = TRUE]
           /\ N \cap DOMAIN pcs[u] \subseteq {Pc(u)} => DisposesCurrent(u)
<1>1. \A n \in DOMAIN pcs[u] : pcs[u][n] \in PcOf(PcIds)
    BY DEF Inv, Local
<1>2. ASSUME NEW n \in DOMAIN pcs[u]
      PROVE  [NewPc EXCEPT !.rem = Rem(u, n), !.gone = TRUE] \in PcOf(PcIds)
    <2>1. Rem(u, n) \in DescriptionOf(PcIds)
        BY <1>1 DEF PcOf, Rem
    <2> QED
        BY <2>1 DEF PcOf, NewPc
<1>3. \A n \in DOMAIN pcs[u] : Disposed(u, N)[n] \in PcOf(PcIds)
    BY <1>1, <1>2 DEF Disposed
<1>4. DOMAIN Disposed(u, N) = DOMAIN pcs[u]
    BY DEF Disposed
<1>5. SameIds(u) /\ pcs'[u] = Disposed(u, N)
    <2>1. Disposed(u, N) = [n \in DOMAIN pcs[u] |-> Disposed(u, N)[n]]
        BY DEF Disposed
    <2> QED
        BY <1>3, <1>4, <2>1, PcsRewritten
<1> QED
    BY <1>5 DEF Disposed, DisposesCurrent

\* One more is made; some may be disposed before.
LEMMA PcMade ==
    ASSUME Inv, NEW u \in User, NEW q \in Seq(PcOf(PcIds)),
           Len(q) = Len(pcs[u]), pcs' = [pcs EXCEPT ![u] = Append(q, NewPc)]
    PROVE  /\ PcIds \subseteq PcIds'
           /\ pcs'[u] \in Seq(PcOf(PcIds'))
           /\ DOMAIN pcs'[u] = DOMAIN pcs[u] \cup {Next1(u)}
           /\ Next1(u) \in Nat \ {0} /\ Next1(u) \notin DOMAIN pcs[u]
           /\ pcs'[u][Next1(u)] = NewPc
           /\ \A n \in DOMAIN pcs[u] : pcs'[u][n] = q[n]
           /\ DOMAIN pcs' = User /\ pcs' = [v \in User |-> pcs'[v]]
           /\ \A v \in User \ {u} : pcs'[v] = pcs[v]
<1>1. pcs[u] \in Seq(PcOf(PcIds)) /\ DOMAIN pcs = User
    BY DEF Inv, Local, Functions
<1>2. /\ pcs'[u] = Append(q, NewPc) /\ DOMAIN pcs' = User
      /\ \A v \in User \ {u} : pcs'[v] = pcs[v]
    BY <1>1
<1>3. pcs' = [v \in User |-> pcs'[v]]
    BY <1>1
<1>4. /\ Len(pcs[u]) \in Nat /\ DOMAIN pcs[u] = 1 .. Len(pcs[u])
      /\ DOMAIN q = DOMAIN pcs[u]
    BY <1>1
<1>5. /\ DOMAIN pcs'[u] = 1 .. Len(pcs[u]) + 1
      /\ pcs'[u][Len(pcs[u]) + 1] = NewPc
      /\ \A n \in DOMAIN pcs[u] : pcs'[u][n] = q[n]
    BY <1>2, <1>4
<1>6. DOMAIN pcs'[u] = DOMAIN pcs[u] \cup {Next1(u)} /\ Next1(u) \in Nat \ {0}
      /\ Next1(u) \notin DOMAIN pcs[u]
    BY <1>4, <1>5 DEF Next1
<1>7. PcIds \subseteq PcIds'
    BY <1>2, <1>6 DEF PcIds
<1>8. NewPc \in PcOf(PcIds')
    BY DEF NewPc, PcOf, DescriptionOf
<1>9. q \in Seq(PcOf(PcIds'))
    BY <1>7, TypesGrow
<1>10. pcs'[u] \in Seq(PcOf(PcIds'))
    BY <1>2, <1>8, <1>9
<1> QED
    BY <1>2, <1>3, <1>5, <1>6, <1>7, <1>10 DEF Next1

-----------------------------------------------------------------------------
(***************************************************************************)
(* The kinds of steps of a phone.                                          *)
(***************************************************************************)
\* u's phone and tasks become r and T, those of the others stay.
Becomes(u, r, T) ==
    /\ phone' = [phone EXCEPT ![u] = r]
    /\ tasks' = [tasks EXCEPT ![u] = T]

\* What phone and tasks are then.
LEMMA BecomesWhat ==
    ASSUME Inv, NEW u \in User, NEW r, NEW T, Becomes(u, r, T)
    PROVE  /\ phone'[u] = r /\ tasks'[u] = T
           /\ DOMAIN phone' = User /\ phone' = [v \in User |-> phone'[v]]
           /\ DOMAIN tasks' = User /\ tasks' = [v \in User |-> tasks'[v]]
           /\ \A v \in User \ {u} : phone'[v] = phone[v] /\ tasks'[v] = tasks[v]
<1>1. DOMAIN phone = User /\ DOMAIN tasks = User
    BY DEF Inv, Functions
<1> QED
    BY <1>1 DEF Becomes

\* A variable that keeps its value becomes what it was.
LEMMA StaysSame ==
    ASSUME Inv, NEW u \in User
    PROVE  /\ phone = [phone EXCEPT ![u] = phone[u]]
           /\ tasks = [tasks EXCEPT ![u] = tasks[u]]
<1>1. /\ DOMAIN phone = User /\ phone = [v \in User |-> phone[v]]
      /\ DOMAIN tasks = User /\ tasks = [v \in User |-> tasks[v]]
    BY DEF Inv, Functions
<1> QED
    BY <1>1

\* The phone keeps the peer connection it has, or gives it up.
LEMMA KeepingStep ==
    ASSUME Inv, NEW u \in User, SameIds(u),
           NEW r \in PhoneOf(PcIds), NEW T, Becomes(u, r, T),
           \/ r.pc = Pc(u) /\ SameGone(u)
           \/ r.pc = 0 /\ DisposesCurrent(u),
           \A t \in T \ tasks[u] : Begun(u, t) /\ t.do \notin Making
    PROVE  Functions' /\ \A v \in User : Local(v)'
<1>1. /\ phone'[u] = r /\ tasks'[u] = T
      /\ DOMAIN phone' = User /\ phone' = [v \in User |-> phone'[v]]
      /\ DOMAIN tasks' = User /\ tasks' = [v \in User |-> tasks'[v]]
      /\ \A v \in User \ {u} : phone'[v] = phone[v] /\ tasks'[v] = tasks[v]
    BY BecomesWhat
<1>2. OnlyPhone(u)
    BY <1>1 DEF OnlyPhone, SameIds, Functions
<1>3. DisposesCurrent(u)
    BY DEF DisposesCurrent, SameGone
<1>4. Pc(u)' = r.pc /\ r.pc \in {0, Pc(u)}
    BY <1>1 DEF Pc
<1>5. Current(u)'
    <2>1. CASE r.pc = 0
        BY <1>4, <2>1 DEF Current
    <2>2. CASE r.pc = Pc(u) /\ SameGone(u)
        BY <1>4, <2>2 DEF Current, SameGone, SameIds, Inv, Local
    <2> QED
        BY <2>1, <2>2
<1>6. \A t \in T : t.do \in Making => t.pc # Pc(u)'
    <2>1. \A t \in tasks[u] : t.do \in Making => t.pc \in DOMAIN pcs[u] /\ t.pc # Pc(u)
        BY DEF Inv, Local, TaskInv, Making, Working
    <2>2. 0 \notin DOMAIN pcs[u]
        <3>1. pcs[u] \in Seq(PcOf(PcIds))
            BY DEF Inv, Local
        <3> QED
            BY <3>1
    <2> QED
        BY <1>4, <2>1, <2>2
<1>7. \A t \in T \ tasks[u] : Begun(u, t)' /\ t.do \notin Making
    BY DEF Begun, SameIds
<1>8. phone'[u] \in PhoneOf(PcIds') /\ pcs'[u] \in Seq(PcOf(PcIds'))
    BY <1>1 DEF SameIds
<1> QED
    BY <1>1, <1>2, <1>3, <1>5, <1>6, <1>7, <1>8, PhoneStep

\* A task makes its peer connection the current one.
LEMMA MakingStep ==
    ASSUME Inv, NEW u \in User, UNCHANGED pcs,
           NEW t \in tasks[u], t.do \in Making,
           NEW r \in PhoneOf(PcIds), r.pc = t.pc, NEW T, Becomes(u, r, T),
           \A s \in T : /\ s \notin tasks[u] => Begun(u, s) /\ s.do \notin Making
                        /\ s # t
    PROVE  Functions' /\ \A v \in User : Local(v)'
<1>1. /\ phone'[u] = r /\ tasks'[u] = T
      /\ DOMAIN phone' = User /\ phone' = [v \in User |-> phone'[v]]
      /\ DOMAIN tasks' = User /\ tasks' = [v \in User |-> tasks'[v]]
      /\ \A v \in User \ {u} : phone'[v] = phone[v] /\ tasks'[v] = tasks[v]
    BY BecomesWhat
<1>2. SameIds(u) /\ SameGone(u)
    BY PcsUnchanged
<1>3. OnlyPhone(u) /\ DisposesCurrent(u)
    BY <1>1, <1>2 DEF OnlyPhone, SameIds, Functions, DisposesCurrent, SameGone
<1>4. Pc(u)' = t.pc
    BY <1>1 DEF Pc
<1>5. /\ t.pc \in DOMAIN pcs[u] /\ ~pcs[u][t.pc].gone
      /\ \A s \in tasks[u] : s.do \in Making /\ s.pc = t.pc => s = t
    BY DEF Inv, Local, TaskInv, Making, Working
<1>6. Current(u)'
    BY <1>4, <1>5 DEF Current
<1>7. \A s \in T : s.do \in Making => s.pc # Pc(u)'
    BY <1>4, <1>5
<1>8. \A s \in T \ tasks[u] : Begun(u, s)' /\ s.do \notin Making
    BY <1>2 DEF Begun, SameIds
<1>9. phone'[u] \in PhoneOf(PcIds') /\ pcs'[u] \in Seq(PcOf(PcIds'))
    BY <1>1, <1>2 DEF SameIds
<1> QED
    BY <1>1, <1>3, <1>6, <1>7, <1>8, <1>9, PhoneStep

\* The phone makes one more peer connection, after disposing the current one or
\* not, and gives the new one to a task or takes it as its current one.
LEMMA GrowingStep ==
    ASSUME Inv, NEW u \in User, NEW q \in Seq(PcOf(PcIds)),
           Len(q) = Len(pcs[u]), pcs' = [pcs EXCEPT ![u] = Append(q, NewPc)],
           \A n \in DOMAIN pcs[u] : q[n].gone => pcs[u][n].gone \/ n = Pc(u),
           NEW r \in PhoneOf(PcIds), NEW T, Becomes(u, r, T),
           r.pc \in {0, Next1(u)},
           \A t \in T \ tasks[u] :
               /\ t \in [do : Do, pc : {0, Next1(u)}, by : PcIds \cup {None}]
               /\ t.do \in Working => t.pc = Next1(u)
               /\ t.do \in Applying => t.by \in PcIds,
           \A t \in T \ tasks[u] : t.do \in Making =>
               /\ r.pc = 0
               /\ \A s \in T \ tasks[u] : s.do \in Making => s = t
    PROVE  Functions' /\ (\A v \in User : Local(v)') /\ PcIds \subseteq PcIds'
<1>1. /\ phone'[u] = r /\ tasks'[u] = T
      /\ DOMAIN phone' = User /\ phone' = [v \in User |-> phone'[v]]
      /\ DOMAIN tasks' = User /\ tasks' = [v \in User |-> tasks'[v]]
      /\ \A v \in User \ {u} : phone'[v] = phone[v] /\ tasks'[v] = tasks[v]
    BY BecomesWhat
<1>2. /\ PcIds \subseteq PcIds'
      /\ pcs'[u] \in Seq(PcOf(PcIds'))
      /\ DOMAIN pcs'[u] = DOMAIN pcs[u] \cup {Next1(u)}
      /\ Next1(u) \in Nat \ {0} /\ Next1(u) \notin DOMAIN pcs[u]
      /\ pcs'[u][Next1(u)] = NewPc
      /\ \A n \in DOMAIN pcs[u] : pcs'[u][n] = q[n]
      /\ DOMAIN pcs' = User /\ pcs' = [v \in User |-> pcs'[v]]
      /\ \A v \in User \ {u} : pcs'[v] = pcs[v]
    BY PcMade
<1>3. OnlyPhone(u) /\ DisposesCurrent(u)
    BY <1>1, <1>2 DEF OnlyPhone, Functions, DisposesCurrent
<1>4. Pc(u)' = r.pc /\ ~NewPc.gone
    BY <1>1 DEF Pc, NewPc
<1>5. Current(u)'
    BY <1>2, <1>4 DEF Current
<1>6. \A t \in T : t.do \in Making => t.pc # Pc(u)'
    <2>1. \A t \in tasks[u] : t.do \in Making => t.pc \in DOMAIN pcs[u]
        BY DEF Inv, Local, TaskInv, Making, Working
    <2>2. 0 \notin DOMAIN pcs[u]
        <3>1. pcs[u] \in Seq(PcOf(PcIds))
            BY DEF Inv, Local
        <3> QED
            BY <3>1
    <2>3. \A t \in T \ tasks[u] : t.do \in Making => t.pc = Next1(u) /\ r.pc = 0
        BY DEF Making, Working
    <2> QED
        BY <1>2, <1>4, <2>1, <2>2, <2>3
<1>7. \A t \in T \ tasks[u] : Begun(u, t)'
    BY <1>2 DEF Begun, TaskOf
<1>8. phone'[u] \in PhoneOf(PcIds')
    BY <1>1, <1>2, TypesGrow
<1>9. \A t \in T \ tasks[u] : t.do \in Making =>
          /\ t.pc \notin DOMAIN pcs[u]
          /\ ~pcs'[u][t.pc].gone
          /\ \A s \in T \ tasks[u] : s.do \in Making => s = t
    <2>1. Making \subseteq Working
        BY DEF Making, Working
    <2>2. \A t \in T \ tasks[u] : t.do \in Making => t.pc = Next1(u)
        BY <2>1
    <2> QED
        BY <1>2, <1>4, <2>2
<1>10. Functions' /\ \A v \in User : Local(v)'
    BY <1>1, <1>2, <1>3, <1>5, <1>6, <1>7, <1>8, <1>9, PhoneStep
<1> QED
    BY <1>2, <1>10

-----------------------------------------------------------------------------
(***************************************************************************)
(* What happens to messages.                                               *)
(***************************************************************************)
UpInv == up \in [User -> Seq(MessageOf(PcIds))]
DownInv == down \in [User -> Seq(HeardOf(PcIds))]

\* The messages a phone sends are typed if what they name is there.
LEMMA MessageTyped ==
    ASSUME Inv, NEW u \in User,
           NEW type \in {"offer", "answer", "ice_candidate", "bye", "next_match"},
           NEW by \in PcIds \cup {None}, type \in Made => by \in PcIds
    PROVE  /\ Message(u, type, by) \in MessageOf(PcIds)
           /\ [Message(u, type, by) EXCEPT !.to = None] \in MessageOf(PcIds)
<1>1. phone[u].remote \in User \cup {None}
    BY DEF Inv, Local, PhoneOf
<1> QED
    BY <1>1 DEF Message, MessageOf

\* What is on its way stays typed when more peer connections are made, when a
\* phone sends, and when messages are handled or lost.
LEMMA UpStays ==
    ASSUME Inv, PcIds \subseteq PcIds', UNCHANGED up
    PROVE  UpInv'
BY TypesGrow DEF Inv, Messages, UpInv

\* The phone sends.
LEMMA UpSent ==
    ASSUME Inv, NEW u \in User, PcIds \subseteq PcIds',
           NEW s \in Seq(MessageOf(PcIds)), up' = Sent(u, s)
    PROVE  UpInv'
<1>1. up \in [User -> Seq(MessageOf(PcIds))]
    BY DEF Inv, Messages
<1>2. up[u] \o s \in Seq(MessageOf(PcIds))
    BY <1>1
<1>3. up' \in [User -> Seq(MessageOf(PcIds))]
    BY <1>1, <1>2 DEF Sent
<1> QED
    BY <1>3, TypesGrow DEF UpInv

\* The server takes a message, or drops them all.
LEMMA UpHandled ==
    ASSUME Inv, NEW u \in User, UNCHANGED pcs,
           \/ up' = [up EXCEPT ![u] = <<>>]
           \/ up[u] # <<>> /\ up' = [up EXCEPT ![u] = Tail(@)]
    PROVE  UpInv'
<1>1. up \in [User -> Seq(MessageOf(PcIds))] /\ PcIds' = PcIds
    BY DEF Inv, Messages, PcIds
<1>2. up[u] # <<>> => Tail(up[u]) \in Seq(MessageOf(PcIds))
    BY <1>1
<1>3. <<>> \in Seq(MessageOf(PcIds))
    OBVIOUS
<1> QED
    BY <1>1, <1>2, <1>3 DEF UpInv

\* The same for messages to the phones.
LEMMA DownStays ==
    ASSUME Inv, PcIds \subseteq PcIds', UNCHANGED down
    PROVE  DownInv'
BY TypesGrow DEF Inv, Messages, DownInv

\* A phone takes a message, or forgets them all.
LEMMA DownHandled ==
    ASSUME Inv, NEW u \in User, PcIds \subseteq PcIds',
           \/ down' = [down EXCEPT ![u] = <<>>]
           \/ down[u] # <<>> /\ down' = [down EXCEPT ![u] = Tail(@)]
    PROVE  DownInv'
<1>1. down \in [User -> Seq(HeardOf(PcIds))]
    BY DEF Inv, Messages
<1>2. down[u] # <<>> => Tail(down[u]) \in Seq(HeardOf(PcIds))
    BY <1>1
<1>3. <<>> \in Seq(HeardOf(PcIds))
    OBVIOUS
<1>4. down' \in [User -> Seq(HeardOf(PcIds))]
    BY <1>1, <1>2, <1>3
<1> QED
    BY <1>4, TypesGrow DEF DownInv

\* A message that the server writes.
LEMMA WrittenTyped ==
    ASSUME Inv, NEW u \in User, NEW m \in HeardOf(PcIds)
    PROVE  Written(u, m) \in Seq(HeardOf(PcIds))
<1>1. down[u] \in Seq(HeardOf(PcIds))
    BY DEF Inv, Messages
<1> QED
    BY <1>1 DEF Written

\* A relayed message that a phone gets names a peer connection that there is,
\* and the user it is from.
LEMMA GotTyped ==
    ASSUME Inv, NEW u \in User, NEW type, Gets(u, type)
    PROVE  /\ down[u] # <<>>
           /\ type = "match" => Head(down[u]).from \in User
           /\ type \in Made => Head(down[u]).by \in PcIds
                               /\ Head(down[u]).from \in User
<1>1. down[u] \in Seq(HeardOf(PcIds)) /\ down[u] # <<>>
    BY DEF Inv, Messages, Gets
<1>2. Head(down[u]) \in HeardOf(PcIds) /\ Head(down[u]).type = type
    BY <1>1 DEF Gets
<1> QED
    BY <1>1, <1>2 DEF HeardOf, MessageOf, FromServer, Made

-----------------------------------------------------------------------------
(***************************************************************************)
(* The rest of the state.                                                  *)
(***************************************************************************)
\* Faults and shutdowns are counted within their bounds.
LEMMA Counted ==
    ASSUME Inv
    PROVE  /\ Fault => faults' \in 0 .. env'.faults /\ drains' \in 0 .. env'.drains
                       /\ UNCHANGED <<mates, env>>
           /\ drains < env.drains => drains + 1 \in 0 .. env.drains
<1>1. env.faults \in Nat /\ env.drains \in Nat
    BY SignalingAssumption DEF Inv, Rest1
<1>2. faults \in 0 .. env.faults /\ drains \in 0 .. env.drains
    BY DEF Inv, Rest1
<1> QED
    BY <1>1, <1>2 DEF Fault

\* A step that leaves the server's connections alone.
LEMMA RestStays ==
    ASSUME Inv, UNCHANGED sockets, UNCHANGED bounds \/ Fault
    PROVE  Rest1'
<1>1. Sockets'
    BY Counted DEF Inv, Rest1, Sockets, sockets, bounds
<1> QED
    BY <1>1, Counted DEF Inv, Rest1, bounds

\* A connection is registered.
LEMMA RegisteredRest ==
    ASSUME Inv, NEW u \in User, Registered(u), UNCHANGED bounds
    PROVE  Rest1'
<1>1. env.replicas \in Nat \ {0} /\ env' = env
    BY SignalingAssumption DEF Inv, Rest1, bounds
<1>2. PICK i \in 1 .. env.replicas : home' = [home EXCEPT ![u] = i]
    BY DEF Registered
<1>3. /\ conn' = [conn EXCEPT ![u] = "open"] /\ UNCHANGED news
      /\ waiting' = waiting \cup {u}
    BY DEF Registered
<1>4. i \in 0 .. env.replicas /\ i # 0
    BY <1>1
<1>5. news[u] = None
    BY DEF Inv, Rest1, Sockets, Registered
<1>6. Sockets'
    BY <1>1, <1>2, <1>3, <1>4, <1>5 DEF Inv, Rest1, Sockets
<1> QED
    BY <1>6 DEF Inv, Rest1, bounds

-----------------------------------------------------------------------------
(***************************************************************************)
(* The steps that several actions share.                                   *)
(***************************************************************************)
Phones == Functions /\ \A u \in User : Local(u)

\* What the invariant says of a phone.
LEMMA PhoneTyped ==
    ASSUME Inv, NEW u \in User
    PROVE  /\ phone[u] \in PhoneOf(PcIds) /\ Pc(u) \in Nat
           /\ pcs[u] \in Seq(PcOf(PcIds))
           /\ Pc(u) # 0 => Pc(u) \in DOMAIN pcs[u] /\ ~pcs[u][Pc(u)].gone
           /\ \A n \in DOMAIN pcs[u] : n # 0 /\ <<u, n>> \in PcIds
<1>1. /\ phone[u] \in PhoneOf(PcIds) /\ Pc(u) \in Nat
      /\ pcs[u] \in Seq(PcOf(PcIds))
      /\ Pc(u) # 0 => Pc(u) \in DOMAIN pcs[u] /\ ~pcs[u][Pc(u)].gone
    BY DEF Inv, Local, PhoneOf, Pc, Current
<1>2. DOMAIN pcs[u] = 1 .. Len(pcs[u]) /\ Len(pcs[u]) \in Nat
    BY <1>1
<1>3. \A n \in DOMAIN pcs[u] : n \in Nat /\ n # 0 /\ <<u, n>> \in PcIds
    BY <1>2 DEF PcIds
<1> QED
    BY <1>1, <1>3

\* prewarm.
LEMMA PrewarmedStep ==
    ASSUME Inv, NEW u \in User, NEW screen \in Screen,
           NEW chan \in {"none", "connecting", "open"},
           Prewarmed(u, screen, chan),
           NEW T \in SUBSET tasks[u], tasks' = [tasks EXCEPT ![u] = T]
    PROVE  Phones' /\ PcIds \subseteq PcIds'
<1> DEFINE r == [phone[u] EXCEPT !.pc = Next1(u), !.ready = FALSE,
                     !.pending = {}, !.screen = screen, !.chan = chan]
<1>1. pcs[u] \in Seq(PcOf(PcIds)) /\ Next1(u) \in Nat
    BY PhoneTyped DEF Next1
<1>2. r \in PhoneOf(PcIds) /\ r.pc = Next1(u)
    BY <1>1, PhoneTyped DEF PhoneOf
<1>3. Becomes(u, r, T) /\ pcs' = [pcs EXCEPT ![u] = Append(pcs[u], NewPc)]
    BY DEF Prewarmed, Becomes
<1> HIDE DEF r
<1>4. T \ tasks[u] = {}
    OBVIOUS
<1>5. \A n \in DOMAIN pcs[u] : pcs[u][n].gone => pcs[u][n].gone \/ n = Pc(u)
    OBVIOUS
<1> QED
    BY <1>1, <1>2, <1>3, <1>4, <1>5, GrowingStep DEF Phones

\* The current peer connection is disposed, and the tasks go on or end.
LEMMA DisposingStep ==
    ASSUME Inv, NEW u \in User, NEW N, N \cap DOMAIN pcs[u] \subseteq {Pc(u)},
           pcs' = [pcs EXCEPT ![u] = Disposed(u, N)],
           NEW r \in PhoneOf(PcIds), r.pc = 0,
           NEW T, Becomes(u, r, T),
           \A t \in T \ tasks[u] : Begun(u, t) /\ t.do \notin Making
    PROVE  Phones' /\ PcIds' = PcIds
<1>1. SameIds(u) /\ DisposesCurrent(u)
    BY PcsDisposed
<1>2. PcIds' = PcIds
    BY <1>1 DEF SameIds
<1>3. Functions' /\ \A v \in User : Local(v)'
    BY <1>1, KeepingStep
<1> QED
    BY <1>2, <1>3 DEF Phones

\* dispose, and the end of the call.
LEMMA HangUpStep ==
    ASSUME Inv, NEW u \in User, HangUp(u), UNCHANGED tasks
    PROVE  Phones' /\ PcIds' = PcIds /\ DownInv'
<1> DEFINE r == [phone[u] EXCEPT !.screen = "idle", !.pc = 0, !.chan = "none"]
<1>1. r \in PhoneOf(PcIds) /\ r.pc = 0
    BY PhoneTyped DEF PhoneOf, Screen
<1>2. Becomes(u, r, tasks[u])
    BY StaysSame DEF HangUp, Becomes
<1> HIDE DEF r
<1>3. Phones' /\ PcIds' = PcIds
    <2>1. {Pc(u)} \cap DOMAIN pcs[u] \subseteq {Pc(u)}
        OBVIOUS
    <2>2. pcs' = [pcs EXCEPT ![u] = Disposed(u, {Pc(u)})]
        BY DEF HangUp
    <2>3. tasks[u] \ tasks[u] = {}
        OBVIOUS
    <2> QED
        BY <1>1, <1>2, <2>1, <2>2, <2>3, DisposingStep
<1>4. DownInv'
    BY <1>3, DownHandled DEF HangUp
<1> QED
    BY <1>3, <1>4

\* The phone or its tasks move and no peer connection does.
LEMMA QuietStep ==
    ASSUME Inv, NEW u \in User, UNCHANGED pcs,
           NEW r \in PhoneOf(PcIds), r.pc = Pc(u),
           NEW T, Becomes(u, r, T),
           \A t \in T \ tasks[u] : Begun(u, t) /\ t.do \notin Making
    PROVE  Phones' /\ PcIds' = PcIds
<1>1. SameIds(u) /\ SameGone(u)
    BY PcsUnchanged
<1>2. PcIds' = PcIds
    BY <1>1 DEF SameIds
<1>3. Functions' /\ \A v \in User : Local(v)'
    BY <1>1, KeepingStep
<1> QED
    BY <1>2, <1>3 DEF Phones

\* Only one of the phone's peer connections moves, and its tasks.
LEMMA EngineStep ==
    ASSUME Inv, NEW u \in User, NEW n \in DOMAIN pcs[u],
           NEW p \in PcOf(PcIds), p.gone = pcs[u][n].gone,
           pcs' = [pcs EXCEPT ![u][n] = p],
           NEW r \in PhoneOf(PcIds), r.pc = Pc(u),
           NEW T, Becomes(u, r, T),
           \A t \in T \ tasks[u] : Begun(u, t) /\ t.do \notin Making
    PROVE  Phones' /\ PcIds' = PcIds
<1>1. SameIds(u) /\ SameGone(u)
    BY PcBecomes
<1>2. PcIds' = PcIds
    BY <1>1 DEF SameIds
<1>3. Functions' /\ \A v \in User : Local(v)'
    BY <1>1, KeepingStep
<1> QED
    BY <1>2, <1>3 DEF Phones

\* No phone moves.
LEMMA PhonesStay ==
    ASSUME Inv, UNCHANGED <<phone, pcs, tasks>>
    PROVE  Phones' /\ PcIds' = PcIds
BY DEF Inv, Phones, Functions, Local, PcIds, Current, TaskInv, Pc

\* The parts of the invariant.
LEMMA InvParts == Phones' /\ UpInv' /\ DownInv' /\ Rest1' => Inv'
BY DEF Phones, UpInv, DownInv, Messages, Inv

-----------------------------------------------------------------------------
(***************************************************************************)
(* The user's actions.                                                     *)
(***************************************************************************)
LEMMA JoinInv == ASSUME Inv, NEW u \in User, Join(u) PROVE Inv'
<1>1. /\ Prewarmed(u, "matching", "connecting")
      /\ UNCHANGED <<tasks, server, down, bounds>>
    BY DEF Join
<1>2. Phones' /\ PcIds \subseteq PcIds'
    BY <1>1, PrewarmedStep, StaysSame DEF Screen
<1>3. UpInv' /\ DownInv' /\ Rest1'
    BY <1>1, <1>2, UpStays, DownStays, RestStays DEF server
<1> QED
    BY <1>2, <1>3, InvParts

\* The call is ended.
LEMMA EndCallInv == ASSUME Inv, NEW u \in User, EndCall(u) PROVE Inv'
<1>1. /\ up' = Sent(u, <<Message(u, "bye", None)>>)
      /\ HangUp(u) /\ UNCHANGED <<tasks, sockets, bounds>>
    BY DEF EndCall
<1>2. Phones' /\ PcIds' = PcIds /\ DownInv'
    BY <1>1, HangUpStep
<1>3. <<Message(u, "bye", None)>> \in Seq(MessageOf(PcIds))
    <2>1. Message(u, "bye", None) \in MessageOf(PcIds)
        BY MessageTyped DEF Made
    <2> QED
        BY <2>1
<1>4. UpInv'
    BY <1>1, <1>2, <1>3, UpSent
<1>5. Rest1'
    BY <1>1, RestStays
<1> QED
    BY <1>2, <1>4, <1>5, InvParts

\* findNextMatch disposes the current peer connection and has a new one made.
LEMMA FindNextMatchInv ==
    ASSUME Inv, NEW u \in User, NEW done, FindNextMatch(u, done)
    PROVE  Inv'
<1> DEFINE q == Disposed(u, {Pc(u)})
           r == [phone[u] EXCEPT !.pc = 0, !.remote = None, !.ready = FALSE,
                                 !.pending = {}]
           create == Task("create", Next1(u), None)
           slide == Task("slide", 0, None)
           T == (tasks[u] \ done) \cup {create, slide}
           bye == Message(u, "bye", None)
           next == [Message(u, "next_match", None) EXCEPT !.to = None]
<1>1. pcs[u] \in Seq(PcOf(PcIds)) /\ DOMAIN pcs = User
    BY DEF Inv, Local, Functions
<1>2. /\ q \in Seq(PcOf(PcIds)) /\ Len(q) = Len(pcs[u])
      /\ \A n \in DOMAIN pcs[u] : q[n].gone => pcs[u][n].gone \/ n = Pc(u)
    <2>1. DOMAIN q = DOMAIN pcs[u] /\ q = [n \in DOMAIN pcs[u] |-> q[n]]
        BY DEF Disposed
    <2>2. \A n \in DOMAIN pcs[u] : pcs[u][n] \in PcOf(PcIds)
        BY <1>1
    <2>3. ASSUME NEW n \in DOMAIN pcs[u]
          PROVE  [NewPc EXCEPT !.rem = Rem(u, n), !.gone = TRUE] \in PcOf(PcIds)
        <3>1. Rem(u, n) \in DescriptionOf(PcIds)
            BY <2>2 DEF PcOf, Rem
        <3> QED
            BY <3>1 DEF PcOf, NewPc
    <2>4. \A n \in DOMAIN pcs[u] : q[n] \in PcOf(PcIds)
        BY <2>2, <2>3 DEF Disposed
    <2>5. \A n \in DOMAIN pcs[u] : q[n].gone => pcs[u][n].gone \/ n = Pc(u)
        BY DEF Disposed
    <2>6. Len(pcs[u]) \in Nat /\ DOMAIN pcs[u] = 1 .. Len(pcs[u])
        BY <1>1
    <2> HIDE DEF q
    <2>7. q \in Seq(PcOf(PcIds)) /\ Len(q) = Len(pcs[u])
        BY <2>1, <2>4, <2>6
    <2> QED
        BY <2>5, <2>7
<1>3. r \in PhoneOf(PcIds) /\ r.pc = 0
    BY PhoneTyped DEF PhoneOf
<1>4. Becomes(u, r, T) /\ pcs' = [pcs EXCEPT ![u] = Append(q, NewPc)]
    BY DEF FindNextMatch, Becomes
<1>5. /\ create \in [do : Do, pc : {0, Next1(u)}, by : PcIds \cup {None}]
      /\ create.pc = Next1(u) /\ create.do \notin Applying
    BY DEF Task, Do, Applying
<1>6. /\ slide \in [do : Do, pc : {0, Next1(u)}, by : PcIds \cup {None}]
      /\ slide.do \notin Working /\ slide.do \notin Applying
      /\ slide.do \notin Making
    BY DEF Task, Do, Working, Applying, Making
<1>7. T \ tasks[u] \subseteq {create, slide}
    OBVIOUS
<1>8. <<bye, next>> \in Seq(MessageOf(PcIds)) /\ up' = Sent(u, <<bye, next>>)
    <2>1. bye \in MessageOf(PcIds) /\ next \in MessageOf(PcIds)
        BY MessageTyped DEF Made
    <2> QED
        BY <2>1 DEF FindNextMatch
<1> HIDE DEF q, r, create, slide, T, bye, next
<1>9. Phones' /\ PcIds \subseteq PcIds'
    <2>1. \A t \in T \ tasks[u] :
              /\ t \in [do : Do, pc : {0, Next1(u)}, by : PcIds \cup {None}]
              /\ t.do \in Working => t.pc = Next1(u)
              /\ t.do \in Applying => t.by \in PcIds
        BY <1>5, <1>6, <1>7
    <2>2. \A t \in T \ tasks[u] : t.do \in Making =>
              /\ r.pc = 0
              /\ \A s \in T \ tasks[u] : s.do \in Making => s = t
        BY <1>3, <1>6, <1>7
    <2> QED
        BY <1>2, <1>3, <1>4, <2>1, <2>2, GrowingStep DEF Phones
<1>10. UpInv'
    BY <1>8, <1>9, UpSent
<1>11. DownInv' /\ Rest1'
    BY <1>9, DownStays, RestStays DEF FindNextMatch
<1> QED
    BY <1>9, <1>10, <1>11, InvParts

\* The sheet opens.
LEMMA ReportInv == ASSUME Inv, NEW u \in User, Report(u) PROVE Inv'
<1> DEFINE r == [phone[u] EXCEPT !.screen = "reporting"]
           sheet == Task("sheet", 0, None)
<1>1. r \in PhoneOf(PcIds) /\ r.pc = Pc(u)
    BY PhoneTyped DEF PhoneOf, Screen, Pc
<1>2. Begun(u, sheet) /\ sheet.do \notin Making
    BY DEF Begun, Task, TaskOf, Do, Working, Applying, Making
<1>3. /\ Becomes(u, r, tasks[u] \cup {sheet})
      /\ UNCHANGED <<pcs, server, down, bounds>>
    BY DEF Report, Becomes
<1> HIDE DEF r, sheet
<1>4. Phones' /\ PcIds' = PcIds
    <2>1. (tasks[u] \cup {sheet}) \ tasks[u] \subseteq {sheet}
        OBVIOUS
    <2> QED
        BY <1>1, <1>2, <1>3, <2>1, QuietStep
<1>5. UpInv' /\ DownInv' /\ Rest1'
    BY <1>3, <1>4, UpStays, DownStays, RestStays DEF server
<1> QED
    BY <1>4, <1>5, InvParts

\* The sheet is answered.
LEMMA AnswerSheetInv ==
    ASSUME Inv, NEW u \in User, NEW t \in tasks[u], AnswerSheet(u, t)
    PROVE  Inv'
<1> DEFINE r == [phone[u] EXCEPT !.screen = "connected"]
           submit == Task("submit", 0, None)
<1>1. r \in PhoneOf(PcIds) /\ r.pc = Pc(u)
    BY PhoneTyped DEF PhoneOf, Screen, Pc
<1>2. phone[u] \in PhoneOf(PcIds) /\ phone[u].pc = Pc(u)
    BY PhoneTyped DEF Pc
<1>3. Begun(u, submit) /\ submit.do \notin Making
    BY DEF Begun, Task, TaskOf, Do, Working, Applying, Making
<1>4. /\ \/ Becomes(u, r, tasks[u] \ {t})
         \/ Becomes(u, phone[u], (tasks[u] \ {t}) \cup {submit})
      /\ UNCHANGED <<pcs, server, down, bounds>>
    BY StaysSame DEF AnswerSheet, Becomes
<1> HIDE DEF r, submit
<1>5. Phones' /\ PcIds' = PcIds
    <2>1. CASE Becomes(u, r, tasks[u] \ {t})
        <3>1. (tasks[u] \ {t}) \ tasks[u] = {}
            OBVIOUS
        <3> QED
            BY <1>1, <1>4, <2>1, <3>1, QuietStep
    <2>2. CASE Becomes(u, phone[u], (tasks[u] \ {t}) \cup {submit})
        <3>1. ((tasks[u] \ {t}) \cup {submit}) \ tasks[u] \subseteq {submit}
            OBVIOUS
        <3> QED
            BY <1>2, <1>3, <1>4, <2>2, <3>1, QuietStep
    <2> QED
        BY <1>4, <2>1, <2>2
<1>6. UpInv' /\ DownInv' /\ Rest1'
    BY <1>4, <1>5, UpStays, DownStays, RestStays DEF server
<1> QED
    BY <1>5, <1>6, InvParts

\* A swipe follows the report.
LEMMA SubmittedInv ==
    ASSUME Inv, NEW u \in User, NEW t \in tasks[u], Submitted(u, t)
    PROVE  Inv'
BY FindNextMatchInv DEF Submitted

\* A swipe by itself.
LEMMA SwipeInv == ASSUME Inv, NEW u \in User, Swipe(u) PROVE Inv'
BY FindNextMatchInv DEF Swipe

\* A killed app has no peer connections.
LEMMA KillInv == ASSUME Inv, NEW u \in User, Kill(u) PROVE Inv'
<1>1. /\ phone' = [phone EXCEPT ![u] = Started]
      /\ pcs' = [pcs EXCEPT ![u] = Disposed(u, DOMAIN pcs[u])]
      /\ tasks' = [tasks EXCEPT ![u] = {}]
      /\ down' = [down EXCEPT ![u] = <<>>]
      /\ UNCHANGED server /\ Fault
    BY DEF Kill
<1>2. SameIds(u)
    BY <1>1, PcsDisposed
<1>3. Started \in PhoneOf(PcIds) /\ Started.pc = 0
    BY DEF Started, PhoneOf, Screen
<1>4. Becomes(u, Started, {})
    BY <1>1 DEF Becomes
<1>5. /\ phone'[u] = Started /\ tasks'[u] = {}
      /\ DOMAIN phone' = User /\ phone' = [v \in User |-> phone'[v]]
      /\ DOMAIN tasks' = User /\ tasks' = [v \in User |-> tasks'[v]]
      /\ \A v \in User \ {u} : phone'[v] = phone[v] /\ tasks'[v] = tasks[v]
    BY <1>4, BecomesWhat
<1>6. OnlyPhone(u)
    BY <1>2, <1>5 DEF OnlyPhone, SameIds, Functions
<1>7. Local(u)'
    BY <1>2, <1>3, <1>5 DEF Local, SameIds, Current, Pc, TaskInv
<1>8. Phones' /\ PcIds' = PcIds
    BY <1>2, <1>6, <1>7, OtherPhones DEF Phones, OnlyPhone, SameIds
<1>9. UpInv' /\ DownInv' /\ Rest1'
    BY <1>1, <1>8, UpStays, DownHandled, RestStays DEF server
<1> QED
    BY <1>8, <1>9, InvParts

-----------------------------------------------------------------------------
(***************************************************************************)
(* The server's actions.                                                   *)
(***************************************************************************)
\* The phone's channel, and its screen, change, and nothing else of it.
LEMMA ChannelStep ==
    ASSUME Inv, NEW u \in User, UNCHANGED <<pcs, tasks>>,
           NEW chan \in {"none", "connecting", "open"}, NEW screen \in Screen,
           phone' = [phone EXCEPT ![u] =
                        [@ EXCEPT !.chan = chan, !.screen = screen]]
    PROVE  Phones' /\ PcIds' = PcIds
<1> DEFINE r == [phone[u] EXCEPT !.chan = chan, !.screen = screen]
<1>1. r \in PhoneOf(PcIds) /\ r.pc = Pc(u)
    BY PhoneTyped DEF PhoneOf, Pc
<1>2. Becomes(u, r, tasks[u])
    BY StaysSame DEF Becomes
<1>3. tasks[u] \ tasks[u] = {}
    OBVIOUS
<1> HIDE DEF r
<1> QED
    BY <1>1, <1>2, <1>3, QuietStep

\* The screen and the channel have their types.
LEMMA ScreenTyped ==
    ASSUME Inv, NEW u \in User
    PROVE  /\ phone[u].screen \in Screen
           /\ phone[u].chan \in {"none", "connecting", "open"}
BY PhoneTyped DEF PhoneOf

\* The server accepts a connection.
LEMMA AcceptInv == ASSUME Inv, NEW u \in User, Accept(u) PROVE Inv'
<1>1. /\ phone' = [phone EXCEPT ![u].chan = "open"] /\ Registered(u)
      /\ UNCHANGED <<pcs, tasks, up, down, bounds>>
    BY DEF Accept, Registered
<1>2. phone' = [phone EXCEPT ![u] =
                   [@ EXCEPT !.chan = "open", !.screen = phone[u].screen]]
    BY <1>1, ScreenTyped, PhoneTyped DEF PhoneOf
<1>3. Phones' /\ PcIds' = PcIds
    BY <1>1, <1>2, ChannelStep, ScreenTyped
<1>4. UpInv' /\ DownInv'
    BY <1>1, <1>3, UpStays, DownStays
<1>5. Rest1'
    BY <1>1, RegisteredRest
<1> QED
    BY <1>3, <1>4, <1>5, InvParts

\* It refuses one.
LEMMA RefuseInv == ASSUME Inv, NEW u \in User, Refuse(u) PROVE Inv'
<1>1. /\ phone' = [phone EXCEPT ![u].chan = "none", ![u].screen = "idle"]
      /\ UNCHANGED <<pcs, tasks, server, down>> /\ Fault
    BY DEF Refuse
<1>2. phone' = [phone EXCEPT ![u] =
                   [@ EXCEPT !.chan = "none", !.screen = "idle"]]
    BY <1>1
<1>3. Phones' /\ PcIds' = PcIds
    BY <1>1, <1>2, ChannelStep DEF Screen
<1>4. UpInv' /\ DownInv' /\ Rest1'
    BY <1>1, <1>3, UpStays, DownStays, RestStays DEF server
<1> QED
    BY <1>3, <1>4, InvParts

\* It matches two users.
LEMMA MatchInv ==
    ASSUME Inv, NEW u \in User, NEW v \in User, Match(u, v)
    PROVE  Inv'
<1>1. /\ waiting' = waiting \ {u, v} /\ {u, v} \subseteq waiting /\ u # v
      /\ news' = [news EXCEPT ![u] = v, ![v] = u]
      /\ UNCHANGED <<phone, pcs, tasks, conn, home, up, down, faults, drains, env>>
    BY DEF Match
<1>2. Phones' /\ PcIds' = PcIds
    BY <1>1, PhonesStay
<1>3. UpInv' /\ DownInv'
    BY <1>1, <1>2, UpStays, DownStays
<1>4. mates' \subseteq (User \X Nat) \X (User \X Nat)
    <2>1. Pc(u) \in Nat /\ Pc(v) \in Nat
        BY PhoneTyped
    <2>2. mates' \subseteq mates \cup {<<<<u, Pc(u)>>, <<v, Pc(v)>>>>}
        BY DEF Match
    <2> QED
        BY <2>1, <2>2 DEF Inv, Rest1
<1>5. Sockets'
    BY <1>1 DEF Inv, Rest1, Sockets
<1>6. Rest1'
    BY <1>1, <1>4, <1>5 DEF Inv, Rest1
<1> QED
    BY <1>2, <1>3, <1>6, InvParts

\* It forwards a match.
LEMMA TellInv == ASSUME Inv, NEW u \in User, Tell(u) PROVE Inv'
<1>1. /\ news[u] # None /\ news' = [news EXCEPT ![u] = None]
      /\ down' = [down EXCEPT ![u] = Written(u, [type |-> "match", from |-> news[u]])]
      /\ UNCHANGED <<phone, pcs, tasks, conn, home, waiting, up, bounds>>
    BY DEF Tell
<1>2. Phones' /\ PcIds' = PcIds
    BY <1>1, PhonesStay
<1>3. news[u] \in User
    BY <1>1 DEF Inv, Rest1, Sockets
<1>4. [type |-> "match", from |-> news[u]] \in HeardOf(PcIds)
    BY <1>3 DEF HeardOf, FromServer
<1>5. Written(u, [type |-> "match", from |-> news[u]]) \in Seq(HeardOf(PcIds))
    BY <1>4, WrittenTyped
<1>6. UpInv' /\ DownInv'
    BY <1>1, <1>2, <1>5, UpStays DEF Inv, Messages, DownInv
<1>7. Sockets'
    BY <1>1 DEF Inv, Rest1, Sockets, bounds
<1>8. Rest1'
    BY <1>1, <1>7 DEF Inv, Rest1, bounds
<1> QED
    BY <1>2, <1>6, <1>8, InvParts

\* It relays a message.
LEMMA RelayInv == ASSUME Inv, NEW u \in User, Relay(u) PROVE Inv'
<1> DEFINE m == Head(up[u])
<1>1. /\ up[u] # <<>> /\ up' = [up EXCEPT ![u] = Tail(@)]
      /\ down' = IF m.to = None THEN down
                 ELSE IF home[m.to] # home[u] THEN down
                 ELSE [down EXCEPT ![m.to] = Written(m.to, m)]
      /\ UNCHANGED <<phone, pcs, tasks, sockets, bounds>>
    BY DEF Relay
<1>2. Phones' /\ PcIds' = PcIds
    BY <1>1, PhonesStay
<1>3. up[u] \in Seq(MessageOf(PcIds)) /\ down \in [User -> Seq(HeardOf(PcIds))]
    BY DEF Inv, Messages
<1>4. m \in MessageOf(PcIds) /\ m \in HeardOf(PcIds) /\ m.to \in User \cup {None}
    <2>1. m \in MessageOf(PcIds)
        BY <1>1, <1>3
    <2> QED
        BY <2>1 DEF HeardOf, MessageOf
<1> HIDE DEF m
<1>5. down' \in [User -> Seq(HeardOf(PcIds))]
    <2>1. CASE m.to = None
        BY <1>1, <1>3, <2>1
    <2>2. CASE m.to \in User
        <3>1. Written(m.to, m) \in Seq(HeardOf(PcIds))
            BY <1>4, <2>2, WrittenTyped
        <3> QED
            BY <1>1, <1>3, <2>2, <3>1, SignalingAssumption
    <2> QED
        BY <1>4, <2>1, <2>2
<1>6. UpInv' /\ DownInv'
    BY <1>1, <1>2, <1>5, UpHandled DEF DownInv
<1>7. Rest1'
    BY <1>1, RestStays
<1> QED
    BY <1>2, <1>6, <1>7, InvParts

\* It closes a connection.
LEMMA ClosesInv ==
    ASSUME Inv, NEW u \in User, NEW s \in Seq(FromServer), Closes(u, s),
           Fault \/ (drains' \in 0 .. env.drains /\ UNCHANGED <<mates, faults, env>>)
    PROVE  Inv'
<1>1. /\ conn' = [conn EXCEPT ![u] = "closing"]
      /\ down' = [down EXCEPT ![u] = @ \o s]
      /\ UNCHANGED <<phone, pcs, tasks, home, news, waiting, up>>
    BY DEF Closes
<1>2. Phones' /\ PcIds' = PcIds
    BY <1>1, PhonesStay
<1>3. down \in [User -> Seq(HeardOf(PcIds))]
    BY DEF Inv, Messages
<1>4. s \in Seq(HeardOf(PcIds))
    BY DEF HeardOf
<1>5. down[u] \o s \in Seq(HeardOf(PcIds))
    BY <1>3, <1>4
<1>6. down' \in [User -> Seq(HeardOf(PcIds))]
    BY <1>1, <1>3, <1>5
<1>7. UpInv' /\ DownInv'
    BY <1>1, <1>2, <1>6, UpStays DEF DownInv
<1>8. conn[u] = "open" /\ env' = env
    BY DEF Closes, Hears, Fault
<1>9. Sockets'
    BY <1>1, <1>8 DEF Inv, Rest1, Sockets
<1>10. Rest1'
    BY <1>1, <1>9, Counted DEF Inv, Rest1
<1> QED
    BY <1>2, <1>7, <1>10, InvParts

\* It loses one.
LEMMA LoseInv == ASSUME Inv, NEW u \in User, Lose(u) PROVE Inv'
<1>1. <<[type |-> "closed"]>> \in Seq(FromServer)
    BY DEF FromServer
<1> QED
    BY <1>1, ClosesInv DEF Lose

\* It shuts down.
LEMMA DrainInv == ASSUME Inv, NEW u \in User, Drain(u) PROVE Inv'
<1>1. <<[type |-> "server_shutdown"], [type |-> "closed"]>> \in Seq(FromServer)
    BY DEF FromServer
<1>2. drains' \in 0 .. env.drains /\ UNCHANGED <<mates, faults, env>>
    BY Counted DEF Drain
<1> QED
    BY <1>1, <1>2, ClosesInv DEF Drain

\* It cleans up after a connection.
LEMMA CleanupInv == ASSUME Inv, NEW u \in User, Cleanup(u) PROVE Inv'
<1>1. /\ conn' = [conn EXCEPT ![u] = "none"]
      /\ home' = [home EXCEPT ![u] = 0] /\ news' = [news EXCEPT ![u] = None]
      /\ up' = [up EXCEPT ![u] = <<>>] /\ waiting' = waiting \ {u}
      /\ UNCHANGED <<phone, pcs, tasks, down, bounds>>
    BY DEF Cleanup
<1>2. Phones' /\ PcIds' = PcIds
    BY <1>1, PhonesStay
<1>3. UpInv' /\ DownInv'
    BY <1>1, <1>2, UpHandled, DownStays
<1>4. env.replicas \in Nat /\ env' = env
    BY <1>1, SignalingAssumption DEF Inv, Rest1, bounds
<1>5. Sockets'
    BY <1>1, <1>4 DEF Inv, Rest1, Sockets
<1>6. Rest1'
    BY <1>1, <1>5 DEF Inv, Rest1, bounds
<1> QED
    BY <1>2, <1>3, <1>6, InvParts

-----------------------------------------------------------------------------
(***************************************************************************)
(* The messages that a phone handles.                                      *)
(***************************************************************************)
\* The message is taken off, nothing is sent, and the server does nothing.
LEMMA ReceiveRest ==
    ASSUME Inv, NEW u \in User, PcIds \subseteq PcIds',
           down[u] # <<>>, down' = Rest(u), UNCHANGED <<server, bounds>>
    PROVE  UpInv' /\ DownInv' /\ Rest1'
BY UpStays, DownHandled, RestStays DEF Rest, server

\* The offerer begins its offer.
LEMMA GetMatchInv == ASSUME Inv, NEW u \in User, GetMatch(u) PROVE Inv'
<1> DEFINE v == Head(down[u]).from
           r == [phone[u] EXCEPT !.remote = v]
           t == Task("set_offer", Pc(u), None)
<1>1. v \in User /\ down[u] # <<>>
    BY GotTyped DEF GetMatch
<1>2. r \in PhoneOf(PcIds) /\ r.pc = Pc(u)
    BY <1>1, PhoneTyped DEF PhoneOf, Pc
<1>3. t.do \notin Making /\ (Pc(u) # 0 => Begun(u, t))
    BY PhoneTyped DEF Begun, Task, TaskOf, Do, Applying, Making
<1>4. PICK T : Becomes(u, r, T) /\ T \in {tasks[u], tasks[u] \cup {t}}
               /\ (Pc(u) = 0 => T = tasks[u])
    <2>1. phone' = [phone EXCEPT ![u] = r]
        BY DEF GetMatch
    <2>2. \/ Pc(u) # 0 /\ tasks' = [tasks EXCEPT ![u] = tasks[u] \cup {t}]
          \/ tasks' = [tasks EXCEPT ![u] = tasks[u]]
        BY StaysSame DEF GetMatch, Begins
    <2> QED
        BY <2>1, <2>2 DEF Becomes
<1>5. down' = Rest(u) /\ UNCHANGED <<pcs, server, bounds>>
    BY DEF GetMatch
<1> HIDE DEF v, r, t
<1>6. Phones' /\ PcIds' = PcIds
    BY <1>2, <1>3, <1>4, <1>5, QuietStep
<1>7. UpInv' /\ DownInv' /\ Rest1'
    BY <1>1, <1>5, <1>6, ReceiveRest
<1> QED
    BY <1>6, <1>7, InvParts

\* An offer is applied, or waits for a peer connection that is made for it.
LEMMA GetOfferInv == ASSUME Inv, NEW u \in User, GetOffer(u) PROVE Inv'
<1> DEFINE m == Head(down[u])
           r == [phone[u] EXCEPT !.remote = m.from]
           apply == Task("apply_offer", Pc(u), m.by)
           make == Task("make", Next1(u), m.by)
<1>1. m.from \in User /\ m.by \in PcIds /\ down[u] # <<>>
    BY GotTyped DEF GetOffer, Made
<1>2. r \in PhoneOf(PcIds) /\ r.pc = Pc(u)
    BY <1>1, PhoneTyped DEF PhoneOf, Pc
<1>3. down' = Rest(u) /\ UNCHANGED <<server, bounds>>
    BY DEF GetOffer
<1>4. Phones' /\ PcIds \subseteq PcIds'
    <2>1. CASE Pc(u) # 0
        <3>1. Becomes(u, r, tasks[u] \cup {apply}) /\ UNCHANGED pcs
            BY <2>1 DEF GetOffer, Begins, Becomes
        <3>2. Begun(u, apply) /\ apply.do \notin Making
            BY <1>1, <2>1, PhoneTyped DEF Begun, Task, TaskOf, Do, Making
        <3>3. (tasks[u] \cup {apply}) \ tasks[u] \subseteq {apply}
            OBVIOUS
        <3> HIDE DEF r, apply
        <3> QED
            BY <1>2, <3>1, <3>2, <3>3, QuietStep
    <2>2. CASE Pc(u) = 0
        <3>1. /\ Becomes(u, r, tasks[u] \cup {make})
              /\ pcs' = [pcs EXCEPT ![u] = Append(pcs[u], NewPc)]
            BY <2>2 DEF GetOffer, Begins, Becomes
        <3>2. /\ make \in [do : Do, pc : {0, Next1(u)}, by : PcIds \cup {None}]
              /\ make.pc = Next1(u) /\ make.by \in PcIds
            BY <1>1 DEF Task, Do
        <3>3. (tasks[u] \cup {make}) \ tasks[u] \subseteq {make}
            OBVIOUS
        <3>4. pcs[u] \in Seq(PcOf(PcIds))
            BY PhoneTyped
        <3>5. \A n \in DOMAIN pcs[u] : pcs[u][n].gone => pcs[u][n].gone \/ n = Pc(u)
            OBVIOUS
        <3> DEFINE T == tasks[u] \cup {make}
        <3>6. \A t \in T \ tasks[u] : t = make
            BY <3>3
        <3> HIDE DEF r, make, T
        <3>7. Becomes(u, r, T)
            BY <3>1 DEF T
        <3> QED
            BY <1>2, <2>2, <3>1, <3>2, <3>4, <3>5, <3>6, <3>7, GrowingStep
            DEF Phones
    <2> QED
        BY <2>1, <2>2
<1>5. UpInv' /\ DownInv' /\ Rest1'
    BY <1>1, <1>3, <1>4, ReceiveRest
<1> QED
    BY <1>4, <1>5, InvParts

\* An answer is applied.
LEMMA GetAnswerInv == ASSUME Inv, NEW u \in User, GetAnswer(u) PROVE Inv'
<1> DEFINE t == Task("apply_answer", Pc(u), Head(down[u]).by)
<1>1. Head(down[u]).by \in PcIds /\ down[u] # <<>>
    BY GotTyped DEF GetAnswer, Made
<1>2. phone[u] \in PhoneOf(PcIds) /\ phone[u].pc = Pc(u)
    BY PhoneTyped DEF Pc
<1>3. t.do \notin Making /\ (Pc(u) # 0 => Begun(u, t))
    BY <1>1, PhoneTyped DEF Begun, Task, TaskOf, Do, Making
<1>4. PICK T : Becomes(u, phone[u], T) /\ T \in {tasks[u], tasks[u] \cup {t}}
               /\ (Pc(u) = 0 => T = tasks[u])
    <2>1. phone' = [phone EXCEPT ![u] = phone[u]]
        BY StaysSame DEF GetAnswer
    <2>2. \/ Pc(u) # 0 /\ tasks' = [tasks EXCEPT ![u] = tasks[u] \cup {t}]
          \/ tasks' = [tasks EXCEPT ![u] = tasks[u]]
        BY StaysSame DEF GetAnswer, Begins
    <2> QED
        BY <2>1, <2>2 DEF Becomes
<1>5. down' = Rest(u) /\ UNCHANGED <<pcs, server, bounds>>
    BY DEF GetAnswer
<1> HIDE DEF t
<1>6. Phones' /\ PcIds' = PcIds
    BY <1>2, <1>3, <1>4, <1>5, QuietStep
<1>7. UpInv' /\ DownInv' /\ Rest1'
    BY <1>1, <1>5, <1>6, ReceiveRest
<1> QED
    BY <1>6, <1>7, InvParts

\* A candidate is added or buffered.
LEMMA GetCandidateInv == ASSUME Inv, NEW u \in User, GetCandidate(u) PROVE Inv'
<1> DEFINE c == Head(down[u]).by
           add == phone[u].ready /\ Pc(u) # 0 /\ Rem(u, Pc(u)) # None
           q == [n \in DOMAIN pcs[u] |->
                   IF n = Pc(u) THEN Hearing(pcs[u][n], c, add) ELSE pcs[u][n]]
           r == [phone[u] EXCEPT !.pending = @ \cup {c}]
<1>1. c \in PcIds /\ down[u] # <<>>
    BY GotTyped DEF GetCandidate, Made
<1>2. ASSUME NEW n \in DOMAIN pcs[u]
      PROVE  q[n] \in PcOf(PcIds) /\ q[n].gone = pcs[u][n].gone
    <2>1. pcs[u][n] \in PcOf(PcIds)
        BY DEF Inv, Local
    <2>2. ASSUME NEW p \in PcOf(PcIds)
          PROVE  Hearing(p, c, add) \in PcOf(PcIds) /\ Hearing(p, c, add).gone = p.gone
        <3> HIDE DEF c, add
        <3> QED
            BY <1>1 DEF Hearing, PcOf
    <2> QED
        BY <2>1, <2>2
<1>4. /\ r \in PhoneOf(PcIds) /\ r.pc = Pc(u)
      /\ phone[u] \in PhoneOf(PcIds) /\ phone[u].pc = Pc(u)
    BY <1>1, PhoneTyped DEF PhoneOf, Pc
<1>5. /\ pcs' = [pcs EXCEPT ![u] = q]
      /\ phone' = [phone EXCEPT ![u] = r] \/ UNCHANGED phone
      /\ down' = Rest(u) /\ UNCHANGED <<tasks, server, bounds>>
    BY DEF GetCandidate
<1>6. DOMAIN q = DOMAIN pcs[u] /\ q = [n \in DOMAIN pcs[u] |-> q[n]]
    OBVIOUS
<1> HIDE DEF c, add, q, r
<1>7. SameIds(u) /\ SameGone(u)
    BY <1>2, <1>5, <1>6, PcsRewritten DEF SameGone
<1>8. Becomes(u, r, tasks[u]) \/ Becomes(u, phone[u], tasks[u])
    BY <1>5, StaysSame DEF Becomes
<1>9. tasks[u] \ tasks[u] = {}
    OBVIOUS
<1>10. Phones' /\ PcIds' = PcIds
    BY <1>4, <1>7, <1>8, <1>9, KeepingStep DEF Phones, SameIds
<1>11. UpInv' /\ DownInv' /\ Rest1'
    BY <1>1, <1>5, <1>10, ReceiveRest
<1> QED
    BY <1>10, <1>11, InvParts

\* The peer ends the call.
LEMMA GetByeInv == ASSUME Inv, NEW u \in User, GetBye(u) PROVE Inv'
<1>1. down[u] # <<>> /\ UNCHANGED <<tasks, server, bounds>>
    BY DEF GetBye, Gets
<1>2. CASE HangUp(u)
    <2>1. Phones' /\ PcIds' = PcIds /\ DownInv'
        BY <1>1, <1>2, HangUpStep
    <2>2. UpInv' /\ Rest1'
        BY <1>1, <2>1, UpStays, RestStays DEF server
    <2> QED
        BY <2>1, <2>2, InvParts
<1>3. CASE down' = Rest(u) /\ UNCHANGED <<phone, pcs>>
    <2>1. Phones' /\ PcIds' = PcIds
        BY <1>1, <1>3, PhonesStay
    <2>2. UpInv' /\ DownInv' /\ Rest1'
        BY <1>1, <1>3, <2>1, ReceiveRest
    <2> QED
        BY <2>1, <2>2, InvParts
<1> QED
    BY <1>2, <1>3 DEF GetBye

\* The websocket is closed.
LEMMA GetClosedInv == ASSUME Inv, NEW u \in User, GetClosed(u) PROVE Inv'
<1>1. down[u] # <<>> /\ UNCHANGED <<tasks, server, bounds>>
    BY DEF GetClosed, Gets
<1>2. CASE HangUp(u)
    <2>1. Phones' /\ PcIds' = PcIds /\ DownInv'
        BY <1>1, <1>2, HangUpStep
    <2>2. UpInv' /\ Rest1'
        BY <1>1, <2>1, UpStays, RestStays DEF server
    <2> QED
        BY <2>1, <2>2, InvParts
<1>3. CASE /\ phone' = [phone EXCEPT ![u].chan = "none"]
           /\ down' = Rest(u) /\ UNCHANGED pcs
    <2>1. phone' = [phone EXCEPT ![u] =
                       [@ EXCEPT !.chan = "none", !.screen = phone[u].screen]]
        BY <1>3, PhoneTyped DEF PhoneOf
    <2>2. Phones' /\ PcIds' = PcIds
        BY <1>1, <1>3, <2>1, ChannelStep, ScreenTyped
    <2>3. UpInv' /\ DownInv' /\ Rest1'
        BY <1>1, <1>3, <2>2, ReceiveRest
    <2> QED
        BY <2>2, <2>3, InvParts
<1> QED
    BY <1>2, <1>3 DEF GetClosed

\* The server is about to shut down.
LEMMA GetShutdownInv == ASSUME Inv, NEW u \in User, GetShutdown(u) PROVE Inv'
<1> DEFINE r == [Started EXCEPT !.screen = "matching"]
           t == Task("reconnect", 0, None)
           T == tasks[u] \cup {t}
<1>1. r \in PhoneOf(PcIds) /\ r.pc = 0
    BY DEF Started, PhoneOf, Screen
<1>2. Begun(u, t) /\ t.do \notin Making
    BY DEF Begun, Task, TaskOf, Do, Working, Applying, Making
<1>3. /\ Becomes(u, r, T)
      /\ pcs' = [pcs EXCEPT ![u] = Disposed(u, {Pc(u)})]
      /\ down' = [down EXCEPT ![u] = <<>>] /\ UNCHANGED <<server, bounds>>
    BY DEF GetShutdown, Becomes, Begins
<1>4. \A s \in T \ tasks[u] : s = t
    OBVIOUS
<1> HIDE DEF r, t, T
<1>5. {Pc(u)} \cap DOMAIN pcs[u] \subseteq {Pc(u)}
    OBVIOUS
<1>6. Phones' /\ PcIds' = PcIds
    BY <1>1, <1>2, <1>3, <1>4, <1>5, DisposingStep
<1>7. UpInv' /\ DownInv' /\ Rest1'
    BY <1>3, <1>6, UpStays, DownHandled, RestStays DEF server
<1> QED
    BY <1>6, <1>7, InvParts

\* Together: whatever a phone receives.
LEMMA ReceiveInv == ASSUME Inv, NEW u \in User, Receive(u) PROVE Inv'
BY GetMatchInv, GetOfferInv, GetAnswerInv, GetCandidateInv, GetByeInv,
   GetClosedInv, GetShutdownInv DEF Receive

-----------------------------------------------------------------------------
(***************************************************************************)
(* The tasks.                                                              *)
(***************************************************************************)
\* What is known of a task.
LEMMA TaskTyped ==
    ASSUME Inv, NEW u \in User, NEW t \in tasks[u]
    PROVE  /\ t \in TaskOf(PcIds)
           /\ t.do \in Working => t.pc \in DOMAIN pcs[u]
           /\ t.do \in Applying => t.by \in PcIds
BY DEF Inv, Local, TaskInv

\* The task goes on with the next thing it does, or ends.
LEMMA TaskGoes ==
    ASSUME Inv, NEW u \in User, NEW t \in tasks[u], t.do \in Working,
           NEW do \in Working \ Making, do \in Applying => t.by \in PcIds,
           NEW r, phone' = [phone EXCEPT ![u] = r], Goes(u, t, do) \/ Ends(u, t)
    PROVE  \E T : /\ Becomes(u, r, T)
                  /\ \A s \in T : s \notin tasks[u] => Begun(u, s) /\ s.do \notin Making
                  /\ t.do \in Making => \A s \in T : s # t
<1> DEFINE s == [t EXCEPT !.do = do]
<1>1. t \in TaskOf(PcIds) /\ t.pc \in DOMAIN pcs[u]
    BY TaskTyped
<1>2. s.do = do /\ s.pc = t.pc /\ s.by = t.by /\ s \in TaskOf(PcIds)
    <2>1. do \in Do
        BY DEF Working, Do
    <2> QED
        BY <1>1, <2>1 DEF TaskOf
<1>3. Begun(u, s) /\ s.do \notin Making
    BY <1>1, <1>2 DEF Begun
<1>4. t.do \in Making => s # t
    BY <1>2
<1>5. \E T \in {(tasks[u] \ {t}) \cup {s}, tasks[u] \ {t}} : Becomes(u, r, T)
    BY DEF Goes, Ends, Becomes
<1> HIDE DEF s
<1> QED
    BY <1>3, <1>4, <1>5

\* A step of the engine.
LEMMA EngineInv ==
    ASSUME Inv, NEW u \in User, NEW t \in tasks[u], t.do \in Working,
           NEW states, NEW changed \in PcOf(PcIds),
           changed.gone = pcs[u][t.pc].gone,
           NEW do \in Working \ Making, do \in Applying => t.by \in PcIds,
           Engine(u, t, states, changed, do),
           UNCHANGED <<phone, server, down, bounds>>
    PROVE  Inv'
<1>1. t.pc \in DOMAIN pcs[u]
    BY TaskTyped
<1>2. phone' = [phone EXCEPT ![u] = phone[u]]
    BY StaysSame
<1>3. Goes(u, t, do) \/ Ends(u, t)
    BY DEF Engine
<1>4. PICK T : /\ Becomes(u, phone[u], T)
               /\ \A s \in T : s \notin tasks[u] => Begun(u, s) /\ s.do \notin Making
    BY <1>2, <1>3, TaskGoes
<1>5. phone[u] \in PhoneOf(PcIds) /\ phone[u].pc = Pc(u)
    BY PhoneTyped DEF Pc
<1>6. UNCHANGED pcs \/ pcs' = [pcs EXCEPT ![u][t.pc] = changed]
    BY DEF Engine
<1>7. Phones' /\ PcIds' = PcIds
    <2>1. CASE UNCHANGED pcs
        BY <1>4, <1>5, <2>1, QuietStep
    <2>2. CASE pcs' = [pcs EXCEPT ![u][t.pc] = changed]
        BY <1>1, <1>4, <1>5, <2>2, EngineStep
    <2> QED
        BY <1>6, <2>1, <2>2
<1>8. UpInv' /\ DownInv' /\ Rest1'
    BY <1>7, UpStays, DownStays, RestStays DEF server
<1> QED
    BY <1>7, <1>8, InvParts

\* A peer connection with other values in some fields.
LEMMA PcFields ==
    ASSUME Inv, NEW u \in User, NEW n \in DOMAIN pcs[u],
           NEW sig \in {"stable", "local", "remote"},
           NEW rem \in DescriptionOf(PcIds)
    PROVE  LET p == pcs[u][n]
               set == [p EXCEPT !.sig = sig, !.gather = Gathering(p)]
               applied == [p EXCEPT !.sig = sig, !.rem = rem]
           IN  /\ set \in PcOf(PcIds) /\ set.gone = p.gone
               /\ applied \in PcOf(PcIds) /\ applied.gone = p.gone
<1> DEFINE p == pcs[u][n]
<1>1. p \in PcOf(PcIds)
    BY DEF Inv, Local
<1>2. Gathering(p) \in {"no", "can", "done"}
    BY <1>1 DEF Gathering, PcOf
<1> DEFINE g == Gathering(p)
           set == [p EXCEPT !.sig = sig, !.gather = g]
           applied == [p EXCEPT !.sig = sig, !.rem = rem]
<1> HIDE DEF p, g
<1>3. set \in PcOf(PcIds) /\ set.gone = p.gone
    BY <1>1, <1>2 DEF PcOf, g
<1>4. applied \in PcOf(PcIds) /\ applied.gone = p.gone
    BY <1>1 DEF PcOf
<1> QED
    BY <1>3, <1>4 DEF p, g

\* The engine sets an offer.
LEMMA SetOfferInv ==
    ASSUME Inv, NEW u \in User, NEW t \in tasks[u], SetOffer(u, t)
    PROVE  Inv'
<1>1. t.do \in Working /\ t.pc \in DOMAIN pcs[u]
    BY TaskTyped DEF SetOffer, Working
<1> DEFINE p == pcs[u][t.pc]
           changed == [p EXCEPT !.sig = "local", !.gather = Gathering(p)]
<1>2. changed \in PcOf(PcIds) /\ changed.gone = pcs[u][t.pc].gone
    <2>1. None \in DescriptionOf(PcIds)
        BY DEF DescriptionOf
    <2> QED
        BY <1>1, <2>1, PcFields
<1>3. /\ Engine(u, t, {"stable", "local"}, changed, "send_offer")
      /\ UNCHANGED <<phone, server, down, bounds>>
    BY DEF SetOffer
<1>4. "send_offer" \in Working \ Making /\ "send_offer" \notin Applying
    BY DEF Working, Making, Applying
<1> HIDE DEF p, changed
<1> QED
    BY <1>1, <1>2, <1>3, <1>4, EngineInv

\* It sets an answer.
LEMMA SetAnswerInv ==
    ASSUME Inv, NEW u \in User, NEW t \in tasks[u], SetAnswer(u, t)
    PROVE  Inv'
<1>1. t.do \in Working /\ t.pc \in DOMAIN pcs[u]
    BY TaskTyped DEF SetAnswer, Working
<1> DEFINE p == pcs[u][t.pc]
           changed == [p EXCEPT !.sig = "stable", !.gather = Gathering(p)]
<1>2. changed \in PcOf(PcIds) /\ changed.gone = pcs[u][t.pc].gone
    <2>1. None \in DescriptionOf(PcIds)
        BY DEF DescriptionOf
    <2> QED
        BY <1>1, <2>1, PcFields
<1>3. /\ Engine(u, t, {"remote"}, changed, "send_answer")
      /\ UNCHANGED <<phone, server, down, bounds>>
    BY DEF SetAnswer
<1>4. "send_answer" \in Working \ Making /\ "send_answer" \notin Applying
    BY DEF Working, Making, Applying
<1> HIDE DEF p, changed
<1> QED
    BY <1>1, <1>2, <1>3, <1>4, EngineInv

\* It applies what came from the peer.
LEMMA ApplyInv ==
    ASSUME Inv, NEW u \in User, NEW t \in tasks[u], Apply(u, t)
    PROVE  Inv'
<1>1. t.do \in Working /\ t.pc \in DOMAIN pcs[u] /\ t.by \in PcIds
    BY TaskTyped DEF Apply, Working, Applying
<1> DEFINE p == pcs[u][t.pc]
           offered == [p EXCEPT !.sig = "remote",
                                !.rem = [type |-> "offer", by |-> t.by]]
           answered == [p EXCEPT !.sig = "stable",
                                 !.rem = [type |-> "answer", by |-> t.by]]
<1>2. /\ [type |-> "offer", by |-> t.by] \in DescriptionOf(PcIds)
      /\ [type |-> "answer", by |-> t.by] \in DescriptionOf(PcIds)
    BY <1>1 DEF DescriptionOf
<1>3. /\ offered \in PcOf(PcIds) /\ offered.gone = pcs[u][t.pc].gone
      /\ answered \in PcOf(PcIds) /\ answered.gone = pcs[u][t.pc].gone
    <2>1. offered \in PcOf(PcIds) /\ offered.gone = pcs[u][t.pc].gone
        BY <1>1, <1>2, PcFields
    <2>2. answered \in PcOf(PcIds) /\ answered.gone = pcs[u][t.pc].gone
        BY <1>1, <1>2, PcFields
    <2> QED
        BY <2>1, <2>2
<1>4. /\ \/ Engine(u, t, {"stable", "remote"}, offered, "resume_offer")
         \/ Engine(u, t, {"local"}, answered, "resume_answer")
      /\ UNCHANGED <<phone, server, down, bounds>>
    BY DEF Apply
<1>5. \A do \in {"resume_offer", "resume_answer"} :
          do \in Working \ Making /\ do \notin Applying
    BY DEF Working, Making, Applying
<1> HIDE DEF p, offered, answered
<1> QED
    BY <1>1, <1>3, <1>4, <1>5, EngineInv

\* A description is sent, with the peer connection it is of.
LEMMA SendDescriptionInv ==
    ASSUME Inv, NEW u \in User, NEW t \in tasks[u], SendDescription(u, t)
    PROVE  Inv'
<1> DEFINE type == IF t.do = "send_offer" THEN "offer" ELSE "answer"
           m == Message(u, type, <<u, t.pc>>)
<1>1. t.pc \in DOMAIN pcs[u] /\ <<u, t.pc>> \in PcIds
    <2>1. t.pc \in DOMAIN pcs[u]
        BY TaskTyped DEF SendDescription, Working
    <2> QED
        BY <2>1, PhoneTyped
<1>2. <<m>> \in Seq(MessageOf(PcIds))
    <2>1. type \in {"offer", "answer"}
        OBVIOUS
    <2> HIDE DEF type
    <2>2. m \in MessageOf(PcIds)
        BY <1>1, <2>1, MessageTyped DEF Made
    <2> QED
        BY <2>2
<1>3. /\ up' = Sent(u, <<m>>) /\ Ends(u, t)
      /\ UNCHANGED <<phone, pcs, sockets, down, bounds>>
    BY DEF SendDescription
<1> HIDE DEF m, type
<1>4. Becomes(u, phone[u], tasks[u] \ {t})
    BY <1>3, StaysSame DEF Becomes, Ends
<1>5. (tasks[u] \ {t}) \ tasks[u] = {}
    OBVIOUS
<1>6. phone[u] \in PhoneOf(PcIds) /\ phone[u].pc = Pc(u)
    BY PhoneTyped DEF Pc
<1>7. Phones' /\ PcIds' = PcIds
    BY <1>3, <1>4, <1>5, <1>6, QuietStep
<1>8. UpInv' /\ DownInv' /\ Rest1'
    BY <1>2, <1>3, <1>7, UpSent, DownStays, RestStays
<1> QED
    BY <1>7, <1>8, InvParts

\* A peer connection becomes the current one.
LEMMA MakeInv ==
    ASSUME Inv, NEW u \in User, NEW t \in tasks[u], Make(u, t) \/ Create(u, t)
    PROVE  Inv'
<1> DEFINE r == [phone[u] EXCEPT !.pc = t.pc]
<1>1. t \in TaskOf(PcIds) /\ t.do \in Working /\ t.do \in Making
      /\ (t.do = "make" => t.by \in PcIds)
    BY TaskTyped DEF Make, Create, Working, Making, Applying
<1>2. r \in PhoneOf(PcIds) /\ r.pc = t.pc
    BY <1>1, PhoneTyped DEF PhoneOf, TaskOf
<1>3. /\ phone' = [phone EXCEPT ![u] = r]
      /\ UNCHANGED <<pcs, server, down, bounds>>
    BY DEF Make, Create
<1>4. \/ Goes(u, t, "apply_offer") /\ t.by \in PcIds
      \/ Ends(u, t)
    BY <1>1 DEF Make, Create
<1>5. /\ "apply_offer" \in Working \ Making
      /\ "send_offer" \in Working \ Making /\ "send_offer" \notin Applying
    BY DEF Working, Making, Applying
<1> HIDE DEF r
<1>6. PICK T : /\ Becomes(u, r, T)
               /\ \A s \in T : s \notin tasks[u] => Begun(u, s) /\ s.do \notin Making
               /\ \A s \in T : s # t
    BY <1>1, <1>3, <1>4, <1>5, TaskGoes
<1>7. Phones' /\ PcIds' = PcIds
    <2>1. Functions' /\ \A v \in User : Local(v)'
        BY <1>1, <1>2, <1>3, <1>6, MakingStep
    <2> QED
        BY <1>3, <2>1 DEF Phones, PcIds
<1>8. UpInv' /\ DownInv' /\ Rest1'
    BY <1>3, <1>7, UpStays, DownStays, RestStays DEF server
<1> QED
    BY <1>7, <1>8, InvParts

\* The buffer is flushed.
LEMMA ResumeInv ==
    ASSUME Inv, NEW u \in User, NEW t \in tasks[u], Resume(u, t)
    PROVE  Inv'
<1> DEFINE n == Pc(u)
           p == pcs[u][n]
           changed == [p EXCEPT !.added = @ \cup phone[u].pending]
           r == [phone[u] EXCEPT !.ready = TRUE,
                                 !.pending = IF Pc(u) = 0 THEN @ ELSE {}]
<1>1. t.do \in Working
    BY DEF Resume, Working
<1>2. /\ phone[u] \in PhoneOf(PcIds) /\ n \in Nat
      /\ n # 0 => n \in DOMAIN pcs[u] /\ p \in PcOf(PcIds)
    BY PhoneTyped
<1>3. r \in PhoneOf(PcIds) /\ r.pc = n
    BY <1>2 DEF PhoneOf, Pc
<1>4. n # 0 => changed \in PcOf(PcIds) /\ changed.gone = p.gone
    BY <1>2 DEF PhoneOf, PcOf
<1>5. /\ \/ n # 0 /\ pcs' = [pcs EXCEPT ![u][n] = changed]
         \/ UNCHANGED pcs
      /\ phone' = [phone EXCEPT ![u] = r]
      /\ Goes(u, t, "set_answer") \/ Ends(u, t)
      /\ UNCHANGED <<server, down, bounds>>
    BY DEF Resume
<1>6. "set_answer" \in Working \ Making /\ "set_answer" \notin Applying
    BY DEF Working, Making, Applying
<1> HIDE DEF r, changed
<1>7. PICK T : /\ Becomes(u, r, T)
               /\ \A s \in T : s \notin tasks[u] => Begun(u, s) /\ s.do \notin Making
    BY <1>1, <1>5, <1>6, TaskGoes
<1>8. Phones' /\ PcIds' = PcIds
    <2>1. CASE UNCHANGED pcs
        BY <1>3, <1>7, <2>1, QuietStep
    <2>2. CASE n # 0 /\ pcs' = [pcs EXCEPT ![u][n] = changed]
        BY <1>2, <1>3, <1>4, <1>7, <2>2, EngineStep
    <2> QED
        BY <1>5, <2>1, <2>2
<1>9. UpInv' /\ DownInv' /\ Rest1'
    BY <1>5, <1>8, UpStays, DownStays, RestStays DEF server
<1> QED
    BY <1>8, <1>9, InvParts

\* The screen has slid.
LEMMA SlideInv ==
    ASSUME Inv, NEW u \in User, NEW t \in tasks[u], Slide(u, t)
    PROVE  Inv'
<1> DEFINE r == [phone[u] EXCEPT !.screen = "matching"]
<1>1. r \in PhoneOf(PcIds) /\ r.pc = Pc(u)
    BY PhoneTyped DEF PhoneOf, Screen, Pc
<1>2. /\ Becomes(u, r, tasks[u] \ {t})
      /\ UNCHANGED <<pcs, server, down, bounds>>
    BY DEF Slide, Ends, Becomes
<1>3. (tasks[u] \ {t}) \ tasks[u] = {}
    OBVIOUS
<1> HIDE DEF r
<1>4. Phones' /\ PcIds' = PcIds
    BY <1>1, <1>2, <1>3, QuietStep
<1>5. UpInv' /\ DownInv' /\ Rest1'
    BY <1>2, <1>4, UpStays, DownStays, RestStays DEF server
<1> QED
    BY <1>4, <1>5, InvParts

\* A phone is connected again.
LEMMA ReconnectInv ==
    ASSUME Inv, NEW u \in User, NEW t \in tasks[u], Reconnect(u, t)
    PROVE  Inv'
<1>1. /\ Prewarmed(u, phone[u].screen, "open")
      /\ Registered(u) /\ UNCHANGED up
      /\ tasks' = [tasks EXCEPT ![u] = tasks[u] \ {t}]
      /\ UNCHANGED <<down, bounds>>
    BY DEF Reconnect, Ends, Registered
<1>2. Phones' /\ PcIds \subseteq PcIds'
    BY <1>1, PrewarmedStep, ScreenTyped
<1>3. UpInv' /\ DownInv'
    BY <1>1, <1>2, UpStays, DownStays
<1>4. Rest1'
    BY <1>1, RegisteredRest
<1> QED
    BY <1>2, <1>3, <1>4, InvParts

\* It gives up.
LEMMA GiveUpInv ==
    ASSUME Inv, NEW u \in User, NEW t \in tasks[u], GiveUp(u, t)
    PROVE  Inv'
<1>1. /\ Prewarmed(u, "idle", phone[u].chan) /\ Fault
      /\ tasks' = [tasks EXCEPT ![u] = tasks[u] \ {t}]
      /\ UNCHANGED <<server, down>>
    BY DEF GiveUp, Ends
<1>2. Phones' /\ PcIds \subseteq PcIds'
    BY <1>1, PrewarmedStep, ScreenTyped DEF Screen
<1>3. UpInv' /\ DownInv' /\ Rest1'
    BY <1>1, <1>2, UpStays, DownStays, RestStays DEF server
<1> QED
    BY <1>2, <1>3, InvParts

\* Together: whatever a task does.
LEMMA WorksInv ==
    ASSUME Inv, NEW u \in User, NEW t \in tasks[u], Works(u, t)
    PROVE  Inv'
BY SetOfferInv, SendDescriptionInv, MakeInv, ApplyInv, ResumeInv, SetAnswerInv,
   SlideInv, ReconnectInv DEF Works

-----------------------------------------------------------------------------
(***************************************************************************)
(* What the engine reports.                                                *)
(***************************************************************************)
LEMMA GatherInv ==
    ASSUME Inv, NEW u \in User, NEW n \in DOMAIN pcs[u], Gather(u, n)
    PROVE  Inv'
<1> DEFINE p == pcs[u][n]
           changed == [p EXCEPT !.gather = "done"]
           m == Message(u, "ice_candidate", <<u, n>>)
<1>1. p \in PcOf(PcIds) /\ <<u, n>> \in PcIds
    BY PhoneTyped
<1>2. changed \in PcOf(PcIds) /\ changed.gone = p.gone
    <2> HIDE DEF p
    <2> QED
        BY <1>1 DEF PcOf
<1>3. <<m>> \in Seq(MessageOf(PcIds))
    <2>1. m \in MessageOf(PcIds)
        BY <1>1, MessageTyped DEF Made
    <2> QED
        BY <2>1
<1>4. /\ pcs' = [pcs EXCEPT ![u][n] = changed]
      /\ up' = Sent(u, <<m>>)
      /\ UNCHANGED <<phone, tasks, sockets, down, bounds>>
    BY DEF Gather
<1>5. /\ phone[u] \in PhoneOf(PcIds) /\ phone[u].pc = Pc(u)
      /\ Becomes(u, phone[u], tasks[u]) /\ tasks[u] \ tasks[u] = {}
    BY <1>4, PhoneTyped, StaysSame DEF Pc, Becomes
<1> HIDE DEF changed, m
<1>6. Phones' /\ PcIds' = PcIds
    BY <1>2, <1>4, <1>5, EngineStep
<1>7. UpInv' /\ DownInv' /\ Rest1'
    BY <1>3, <1>4, <1>6, UpSent, DownStays, RestStays
<1> QED
    BY <1>6, <1>7, InvParts

\* A picture arrives.
LEMMA TrackInv ==
    ASSUME Inv, NEW u \in User, NEW n \in DOMAIN pcs[u], Track(u, n)
    PROVE  Inv'
<1> DEFINE p == pcs[u][n]
           changed == [p EXCEPT !.tracked = TRUE]
           r == [phone[u] EXCEPT !.screen = "connected"]
<1>1. p \in PcOf(PcIds)
    BY PhoneTyped
<1>2. changed \in PcOf(PcIds) /\ changed.gone = p.gone
    <2> HIDE DEF p
    <2> QED
        BY <1>1 DEF PcOf
<1>3. r \in PhoneOf(PcIds) /\ r.pc = Pc(u)
    BY PhoneTyped DEF PhoneOf, Screen, Pc
<1>4. /\ pcs' = [pcs EXCEPT ![u][n] = changed]
      /\ phone' = [phone EXCEPT ![u] = r]
      /\ UNCHANGED <<tasks, server, down, bounds>>
    BY DEF Track
<1> HIDE DEF changed, r
<1>5. Becomes(u, r, tasks[u]) /\ tasks[u] \ tasks[u] = {}
    BY <1>4, StaysSame DEF Becomes
<1>6. Phones' /\ PcIds' = PcIds
    BY <1>2, <1>3, <1>4, <1>5, EngineStep
<1>7. UpInv' /\ DownInv' /\ Rest1'
    BY <1>4, <1>6, UpStays, DownStays, RestStays DEF server
<1> QED
    BY <1>6, <1>7, InvParts

\* A connection of two peers is lost.
LEMMA DisconnectsInv ==
    ASSUME Inv, NEW u \in User, NEW n \in DOMAIN pcs[u],
           PeerGone(u, n) \/ IceFails(u, n)
    PROVE  Inv'
<1> DEFINE p == pcs[u][n]
           changed == [p EXCEPT !.failed = TRUE]
<1>1. p \in PcOf(PcIds)
    BY PhoneTyped
<1>2. changed \in PcOf(PcIds) /\ changed.gone = p.gone
    <2> HIDE DEF p
    <2> QED
        BY <1>1 DEF PcOf
<1>3. /\ \/ /\ pcs' = [pcs EXCEPT ![u][n] = changed]
            /\ UNCHANGED <<phone, down>>
         \/ HangUp(u)
      /\ UNCHANGED <<tasks, server>>
      /\ UNCHANGED bounds \/ Fault
    BY DEF PeerGone, IceFails, Disconnects
<1> HIDE DEF changed
<1>4. Phones' /\ PcIds' = PcIds /\ DownInv'
    <2>1. CASE /\ pcs' = [pcs EXCEPT ![u][n] = changed]
               /\ UNCHANGED <<phone, down>>
        <3>1. /\ phone[u] \in PhoneOf(PcIds) /\ phone[u].pc = Pc(u)
              /\ Becomes(u, phone[u], tasks[u]) /\ tasks[u] \ tasks[u] = {}
            BY <1>3, <2>1, PhoneTyped, StaysSame DEF Pc, Becomes
        <3>2. Phones' /\ PcIds' = PcIds
            BY <1>2, <2>1, <3>1, EngineStep
        <3> QED
            BY <2>1, <3>2, DownStays
    <2>2. CASE HangUp(u)
        BY <1>3, <2>2, HangUpStep
    <2> QED
        BY <1>3, <2>1, <2>2
<1>5. UpInv' /\ Rest1'
    BY <1>3, <1>4, UpStays, RestStays DEF server
<1> QED
    BY <1>4, <1>5, InvParts

-----------------------------------------------------------------------------
\* Every step keeps the invariant.
LEMMA ProceedsInv == ASSUME Inv, Proceeds PROVE Inv'
<1>1. PICK u \in User :
          \/ Accept(u) \/ Tell(u) \/ Relay(u) \/ Cleanup(u)
          \/ Receive(u) \/ Reports(u)
          \/ \E t \in tasks[u] : Works(u, t)
          \/ \E v \in User : Match(u, v)
    BY DEF Proceeds
<1>2. CASE Reports(u)
    <2>1. PICK n \in DOMAIN pcs[u] : Gather(u, n) \/ Track(u, n) \/ PeerGone(u, n)
        BY <1>2 DEF Reports
    <2> QED
        BY <2>1, GatherInv, TrackInv, DisconnectsInv
<1> QED
    BY <1>1, <1>2, AcceptInv, TellInv, RelayInv, CleanupInv, ReceiveInv,
       WorksInv, MatchInv

\* The same for what users do, and what goes wrong.
LEMMA ActsInv == ASSUME Inv, NEW u \in User, Acts(u) PROVE Inv'
BY JoinInv, EndCallInv, SwipeInv, ReportInv, KillInv, AnswerSheetInv,
   SubmittedInv, GiveUpInv, DisconnectsInv, RefuseInv, LoseInv, DrainInv DEF Acts

\* Together: every step, and a stutter.
LEMMA NextInv == Inv /\ [Next]_vars => Inv'
<1> SUFFICES ASSUME Inv, [Next]_vars
             PROVE  Inv'
    OBVIOUS
<1>1. CASE Next
    BY <1>1, ProceedsInv, ActsInv DEF Next
<1>2. CASE UNCHANGED vars
    <2>1. PcIds' = PcIds /\ \A u \in User : Pc(u)' = Pc(u)
        BY <1>2 DEF vars, PcIds, Pc
    <2>2. /\ Functions' /\ Messages' /\ Rest1'
        BY <1>2, <2>1 DEF Inv, vars, Functions, Messages, Rest1, Sockets
    <2>3. \A u \in User : Local(u)'
        BY <1>2, <2>1 DEF Inv, vars, Local, Current, TaskInv
    <2> QED
        BY <2>2, <2>3 DEF Inv
<1> QED
    BY <1>1, <1>2

\* Whatever messages, faults and reports do to them, phones never work with a
\* peer connection that they have disposed of: every way to end a call forgets
\* it, and no method that was waiting makes one of those the current one.
THEOREM TypeCorrect == Spec => []TypeOK
<1>1. Init => Inv
    BY InitInv
<1>2. Inv /\ [Next]_vars => Inv'
    BY NextInv
<1>3. Inv => TypeOK
    BY InvTypeOK
<1> QED
    BY <1>1, <1>2, <1>3, PTL DEF Spec
-----------------------------------------------------------------------------
(***************************************************************************)
(* Calm behaviours: the exchange of descriptions.                          *)
(*                                                                         *)
(* What carries the exchange of a match on is handed from place to place   *)
(* like a baton: the match on its way to the offerer, the offerer's task,  *)
(* the offer on its way, the answerer's task, the answer on its way, and   *)
(* the offerer's last task.  In every phase the offerer, and up to phase 6 *)
(* the answerer, can do nothing but what hands the baton on.               *)
(***************************************************************************)
Cur(u) == pcs[u][Pc(u)]
Id(u) == <<u, Pc(u)>>
Blank(p) == p.rem = None /\ p.sig = "stable"

\* The messages that matter to the exchange, in a sequence of messages; no two
\* are the same; and the messages that end a websocket.
IsToken(m) == m.type \in {"offer", "answer"}
At(s) == {i \in DOMAIN s : IsToken(s[i])}
Tokens(s) == {s[i] : i \in At(s)}
Tidy(s) == \A i, j \in At(s) : i < j => s[i] # s[j]
Quiet(s) == \A i \in DOMAIN s : s[i].type \notin {"closed", "server_shutdown"}

\* The peers of the matches among them; and that there is one match at most.
ToldAt(s) == {i \in DOMAIN s : s[i].type = "match"}
Told(s) == {s[i].from : i \in ToldAt(s)}
ToldOnce(s) == \A i, j \in ToldAt(s) : i = j

\* The peers of the matches of u that its phone has not handled yet.
Pends(u) == Told(down[u]) \cup ({news[u]} \ {None})

\* The tasks that matter to it.
Answering == {"resume_offer", "set_answer", "send_answer"}
Exchanging == Answering \cup {"set_offer", "send_offer", "make", "apply_offer",
                              "apply_answer"}
Exchange(u) == {t \in tasks[u] : t.do \in Exchanging}
Busy(u) == \E t \in tasks[u] : t.do \notin Exchanging
HasToken(u) ==
    \/ Exchange(u) # {} \/ Tokens(up[u]) # {} \/ Tokens(down[u]) # {}
    \/ \E v \in Pends(u) : u < v

\* A phone that has no description of its peer yet.
Listening(u) ==
    /\ phone[u].screen = "matching" /\ Pc(u) # 0 /\ ~phone[u].ready
    /\ Cur(u).rem = None /\ Cur(u).heard \subseteq phone[u].pending
\* It is told of its match, or was, and has not been swiped.
Steady(u) == Listening(u) /\ phone[u].chan = "open" /\ u \notin waiting
\* It has not been matched.
Fresh(u) ==
    /\ Listening(u) /\ Cur(u).sig = "stable" /\ ~HasToken(u) /\ tasks[u] = {}
    /\ Pends(u) = {}

OfferOf(a) == [type |-> "offer", by |-> Id(a)]
Offered(a, b) == [type |-> "offer", from |-> a, to |-> b, by |-> Id(a)]
\* Peer connection q has applied the offer of a's.
Answers(q, a) == q \in PcIds /\ Rem(q[1], q[2]) = OfferOf(a)
\* m is an answer to it.
IsAnswer(m, a) == m.type = "answer" /\ Answers(m.by, a)

Phase == 1 .. 10

\* The offerer in phase p: 1 the match arrives, 2 and 3 the offer is set and
\* sent, 4 it is on its way to the server, 5 to 8 it is the answerer's turn,
\* 9 the answer arrives, 10 it is applied.
Offerer(a, b, p) ==
    /\ Steady(a) /\ a < b
    /\ Cur(a).sig = IF p <= 2 THEN "stable" ELSE "local"
    /\ p # 1 => phone[a].remote = b
    /\ p \notin {2, 3, 10} => tasks[a] = {}
    /\ p = 2 => tasks[a] = {Task("set_offer", Pc(a), None)}
    /\ p = 3 => tasks[a] = {Task("send_offer", Pc(a), None)}
    /\ p = 10 => \E t : /\ tasks[a] = {t} /\ t.do = "apply_answer" /\ t.pc = Pc(a)
                        /\ Answers(t.by, a)
    /\ p # 4 => Tokens(up[a]) = {}
    /\ p = 4 => Tokens(up[a]) = {Offered(a, b)}
    /\ p # 9 => Tokens(down[a]) = {}
    /\ p = 9 => \E m : Tokens(down[a]) = {m} /\ IsAnswer(m, a)
    /\ Pends(a) = IF p = 1 THEN {b} ELSE {}

\* The answerer: up to 4 it waits, 5 the offer arrives, 6 it is applied, 7 the
\* answer is made and sent, if the call is still there, 8 it is on its way to
\* the server, and then the answerer may do what it likes.
Answerer(b, a, p) ==
    /\ p <= 6 => Steady(b) /\ Cur(b).sig = "stable" /\ Tokens(up[b]) = {}
    /\ p <= 8 => Pends(b) \subseteq {a}
    /\ p <= 5 =>
          /\ tasks[b] = {}
          /\ Tokens(down[b]) \subseteq {Offered(a, b)}
          /\ a \in Pends(b) \/ phone[b].remote = a
          /\ (Offered(a, b) \in Tokens(down[b])) <=> (p = 5)
    /\ p \in {6, 7, 8} => Tokens(down[b]) = {}
    /\ p = 6 => /\ tasks[b] = {Task("apply_offer", Pc(b), Id(a))}
                /\ phone[b].remote = a
    /\ p = 7 => /\ \E t : /\ Exchange(b) = {t} /\ t.do \in Answering
                          /\ Answers(<<b, t.pc>>, a)
                /\ Tokens(up[b]) = {}
                /\ phone[b].chan = "open" => phone[b].remote \in {a, None}
    /\ p = 8 => /\ Exchange(b) = {}
                /\ \E m : /\ Tokens(up[b]) = {m} /\ IsAnswer(m, a)
                          /\ m.by[1] = b /\ m.to \in {a, None}

Baton(a, b, p) == Offerer(a, b, p) /\ Answerer(b, a, p)
Party(a, b, p) == IF p <= 8 THEN {a, b} ELSE {a}

\* Whoever has a token takes part in an exchange.
BatonInv ==
    \A u \in User : HasToken(u) =>
        \E a, b \in User, p \in Phase : Baton(a, b, p) /\ u \in Party(a, b, p)

\* Sockets, and who waits.
Net(u) ==
    /\ conn[u] # "closing"
    /\ phone[u].chan = "open" => conn[u] = "open"
    /\ phone[u].chan # "open" => down[u] = <<>>
    /\ conn[u] = "none" => up[u] = <<>>
    /\ phone[u].chan = "connecting" => conn[u] = "none"
    /\ Tidy(up[u]) /\ Tidy(down[u]) /\ Quiet(down[u])
    /\ u \in waiting => phone[u].chan = "open"
    /\ (u \in waiting \/ phone[u].chan = "connecting") => Fresh(u)
    /\ ToldOnce(down[u]) /\ (news[u] # None => Told(down[u]) = {})
    /\ \A t \in tasks[u] : t.do \notin {"make", "reconnect"}

\* Only the current peer connection has anything to do with a peer, and it has
\* not when another is about to take its place; candidates are kept; and an
\* offer is for a peer with a higher id.
Held(u) ==
    /\ \A n \in DOMAIN pcs[u] : (~pcs[u][n].gone /\ ~Blank(pcs[u][n])) => n = Pc(u)
    /\ (phone[u].screen = "idle" \/ Does(u, "create")) =>
          (Pc(u) = 0 \/ Blank(Cur(u)))
    /\ (Pc(u) # 0 /\ Cur(u).rem # None) =>
          Cur(u).heard \subseteq Cur(u).added \cup phone[u].pending
    /\ (Pc(u) # 0 /\ Cur(u).sig = "local") =>
          phone[u].remote # None /\ u < phone[u].remote /\ Pends(u) = {}

\* Answers that were applied belong to the offers they were applied to.
Fit ==
    \A q, r \in PcIds : Rem(q[1], q[2]) = [type |-> "answer", by |-> r] =>
        Rem(r[1], r[2]) = [type |-> "offer", by |-> q]

CalmInv == BatonInv /\ Fit /\ \A u \in User : Net(u) /\ Held(u)

-----------------------------------------------------------------------------
\* A message is taken from the front of a sequence.
LEMMA TailOf ==
    ASSUME NEW S, NEW s \in Seq(S), s # <<>>
    PROVE  /\ Tokens(Tail(s)) \subseteq Tokens(s)
           /\ IsToken(Head(s)) => Head(s) \in Tokens(s)
           /\ ~IsToken(Head(s)) => Tokens(Tail(s)) = Tokens(s)
           /\ Tidy(s) => Tidy(Tail(s))
           /\ (Tidy(s) /\ IsToken(Head(s))) =>
                 Tokens(Tail(s)) = Tokens(s) \ {Head(s)}
           /\ Told(Tail(s)) \subseteq Told(s)
           /\ Head(s).type # "match" => Told(Tail(s)) = Told(s)
           /\ ToldOnce(s) => ToldOnce(Tail(s))
           /\ Head(s).type = "match" =>
                 Head(s).from \in Told(s) /\ (ToldOnce(s) => Told(Tail(s)) = {})
           /\ Quiet(s) => Quiet(Tail(s)) /\ Head(s).type \notin {"closed", "server_shutdown"}
<1> DEFINE t == Tail(s)
<1>1. /\ Len(s) \in Nat \ {0} /\ DOMAIN s = 1 .. Len(s)
      /\ DOMAIN t = 1 .. Len(s) - 1 /\ Head(s) = s[1]
      /\ \A i \in DOMAIN t : t[i] = s[i + 1] /\ i + 1 \in DOMAIN s /\ i \in Nat
      /\ \A i \in DOMAIN s : i = 1 \/ (i - 1 \in DOMAIN t /\ t[i - 1] = s[i])
      /\ 1 \in DOMAIN s
    OBVIOUS
<1> HIDE DEF t
<1>2. \A i \in At(t) : i + 1 \in At(s) /\ t[i] = s[i + 1] /\ i \in Nat
    BY <1>1 DEF At
<1>3. \A i \in At(s) : i = 1 \/ (i - 1 \in At(t) /\ t[i - 1] = s[i])
    BY <1>1 DEF At
<1>4. IsToken(Head(s)) <=> 1 \in At(s)
    BY <1>1 DEF At
<1>5. Tokens(t) \subseteq Tokens(s) /\ (IsToken(Head(s)) => Head(s) \in Tokens(s))
    BY <1>1, <1>2, <1>4 DEF Tokens
<1>6. Tokens(s) \subseteq Tokens(t) \cup {Head(s)}
    BY <1>1, <1>3 DEF Tokens
<1>7. ~IsToken(Head(s)) => Tokens(t) = Tokens(s)
    <2>1. ~IsToken(Head(s)) => Head(s) \notin Tokens(s)
        BY DEF Tokens, At
    <2> QED
        BY <1>5, <1>6, <2>1
<1>8. ASSUME Tidy(s)
      PROVE  /\ Tidy(t)
             /\ IsToken(Head(s)) => Head(s) \notin Tokens(t)
    <2>1. Tidy(t)
        <3>1. SUFFICES ASSUME NEW i \in At(t), NEW j \in At(t), i < j
                       PROVE  t[i] # t[j]
            BY DEF Tidy
        <3>2. i + 1 \in At(s) /\ j + 1 \in At(s) /\ i + 1 < j + 1
            BY <1>2, <3>1
        <3> QED
            BY <1>2, <1>8, <3>2 DEF Tidy
    <2>2. ASSUME IsToken(Head(s)), NEW j \in At(t)
          PROVE  t[j] # Head(s)
        <3>1. 1 \in At(s) /\ j + 1 \in At(s) /\ 1 < j + 1
            BY <1>1, <1>2, <1>4, <2>2 DEF At
        <3> QED
            BY <1>1, <1>2, <1>8, <3>1 DEF Tidy
    <2> QED
        BY <2>1, <2>2 DEF Tokens
<1>9. Quiet(s) => Quiet(t) /\ Head(s).type \notin {"closed", "server_shutdown"}
    BY <1>1 DEF Quiet
<1>10. /\ \A i \in ToldAt(t) : i + 1 \in ToldAt(s) /\ t[i] = s[i + 1] /\ i \in Nat
       /\ \A i \in ToldAt(s) : i = 1 \/ (i - 1 \in ToldAt(t) /\ t[i - 1] = s[i])
       /\ Head(s).type = "match" <=> 1 \in ToldAt(s)
    BY <1>1 DEF ToldAt
<1>11. /\ Told(t) \subseteq Told(s)
       /\ Head(s).type # "match" => Told(t) = Told(s)
       /\ Head(s).type = "match" => Head(s).from \in Told(s)
    <2>1. Told(t) \subseteq Told(s)
        BY <1>10 DEF Told
    <2>2. ASSUME Head(s).type # "match"
          PROVE  Told(s) \subseteq Told(t)
        <3>1. 1 \notin ToldAt(s)
            BY <1>10, <2>2
        <3> QED
            BY <1>10, <3>1 DEF Told
    <2>3. Head(s).type = "match" => Head(s).from \in Told(s)
        BY <1>1, <1>10 DEF Told
    <2> QED
        BY <2>1, <2>2, <2>3
<1>12. ASSUME ToldOnce(s)
       PROVE  ToldOnce(t) /\ (Head(s).type = "match" => Told(t) = {})
    <2>1. ASSUME NEW i \in ToldAt(t), NEW j \in ToldAt(t)
          PROVE  i = j
        <3>1. i + 1 = j + 1
            BY <1>10, <1>12, <2>1 DEF ToldOnce
        <3> QED
            BY <1>10, <2>1, <3>1
    <2>2. ASSUME Head(s).type = "match", NEW i \in ToldAt(t)
          PROVE  FALSE
        <3>1. i + 1 = 1
            BY <1>10, <1>12, <2>2 DEF ToldOnce
        <3> QED
            BY <1>1, <1>10, <2>2, <3>1 DEF ToldAt
    <2> QED
        BY <2>1, <2>2 DEF ToldOnce, Told
<1> QED
    BY <1>5, <1>6, <1>7, <1>8, <1>9, <1>11, <1>12 DEF t

\* A message is put at the end.
LEMMA AppendOf ==
    ASSUME NEW S, NEW s \in Seq(S), NEW m \in S
    PROVE  /\ IsToken(m) => Tokens(Append(s, m)) = Tokens(s) \cup {m}
           /\ ~IsToken(m) => Tokens(Append(s, m)) = Tokens(s)
           /\ (/\ Tidy(s)
               /\ IsToken(m) => m \notin Tokens(s)) => Tidy(Append(s, m))
           /\ m.type = "match" => Told(Append(s, m)) = Told(s) \cup {m.from}
           /\ m.type # "match" => Told(Append(s, m)) = Told(s)
           /\ (ToldOnce(s) /\ (m.type = "match" => Told(s) = {}))
                 => ToldOnce(Append(s, m))
           /\ (Quiet(s) /\ m.type \notin {"closed", "server_shutdown"})
                 => Quiet(Append(s, m))
<1> DEFINE t == Append(s, m)
<1>1. /\ Len(s) \in Nat /\ DOMAIN s = 1 .. Len(s)
      /\ DOMAIN t = DOMAIN s \cup {Len(s) + 1} /\ t[Len(s) + 1] = m
      /\ \A i \in DOMAIN s : t[i] = s[i] /\ i < Len(s) + 1
    OBVIOUS
<1> HIDE DEF t
<1>2. /\ At(s) \subseteq At(t) /\ At(t) \subseteq At(s) \cup {Len(s) + 1}
      /\ IsToken(m) <=> Len(s) + 1 \in At(t)
      /\ \A i \in At(s) : t[i] = s[i] /\ i < Len(s) + 1 /\ i \in Nat
    BY <1>1 DEF At
<1>3. /\ IsToken(m) => Tokens(t) = Tokens(s) \cup {m}
      /\ ~IsToken(m) => Tokens(t) = Tokens(s)
    BY <1>1, <1>2 DEF Tokens
<1>4. ASSUME Tidy(s), IsToken(m) => m \notin Tokens(s)
      PROVE  Tidy(t)
    <2>1. SUFFICES ASSUME NEW i \in At(t), NEW j \in At(t), i < j
                   PROVE  t[i] # t[j]
        BY DEF Tidy
    <2>2. i \in At(s)
        BY <1>1, <1>2, <2>1
    <2>3. CASE j \in At(s)
        BY <1>2, <1>4, <2>1, <2>2, <2>3 DEF Tidy
    <2>4. CASE j = Len(s) + 1
        <3>1. IsToken(m) /\ t[j] = m /\ t[i] \in Tokens(s)
            BY <1>1, <1>2, <2>2, <2>4 DEF Tokens
        <3> QED
            BY <1>4, <3>1
    <2> QED
        BY <1>2, <2>3, <2>4
<1>5. (Quiet(s) /\ m.type \notin {"closed", "server_shutdown"}) => Quiet(t)
    BY <1>1 DEF Quiet
<1>6. /\ ToldAt(s) \subseteq ToldAt(t) /\ ToldAt(t) \subseteq ToldAt(s) \cup {Len(s) + 1}
      /\ m.type = "match" <=> Len(s) + 1 \in ToldAt(t)
      /\ \A i \in ToldAt(s) : t[i] = s[i]
    BY <1>1 DEF ToldAt
<1>7. /\ m.type = "match" => Told(t) = Told(s) \cup {m.from}
      /\ m.type # "match" => Told(t) = Told(s)
    BY <1>1, <1>6 DEF Told
<1>8. (ToldOnce(s) /\ (m.type = "match" => Told(s) = {})) => ToldOnce(t)
    <2>1. ASSUME ToldOnce(s), m.type = "match" => Told(s) = {},
                 NEW i \in ToldAt(t), NEW j \in ToldAt(t)
          PROVE  i = j
        <3>1. CASE m.type = "match"
            <4>1. ToldAt(s) = {}
                BY <2>1, <3>1 DEF Told
            <4> QED
                BY <1>6, <2>1, <4>1
        <3>2. CASE m.type # "match"
            <4>1. i \in ToldAt(s) /\ j \in ToldAt(s)
                BY <1>6, <2>1, <3>2
            <4> QED
                BY <2>1, <4>1 DEF ToldOnce
        <3> QED
            BY <3>1, <3>2
    <2> QED
        BY <2>1 DEF ToldOnce
<1> QED
    BY <1>3, <1>4, <1>5, <1>7, <1>8 DEF t

\* There is nothing in the empty sequence.
LEMMA EmptyOf ==
    /\ Tokens(<<>>) = {} /\ Tidy(<<>>) /\ Quiet(<<>>)
    /\ Told(<<>>) = {} /\ ToldOnce(<<>>)
BY DEF Tokens, At, Tidy, Quiet, Told, ToldAt, ToldOnce

\* Two messages are put at the end.
LEMMA AppendTwo ==
    ASSUME NEW S, NEW s \in Seq(S), NEW m \in S, NEW n \in S,
           ~IsToken(m), ~IsToken(n)
    PROVE  /\ s \o <<m, n>> \in Seq(S) /\ Tokens(s \o <<m, n>>) = Tokens(s)
           /\ Tidy(s) => Tidy(s \o <<m, n>>)
<1>1. s \o <<m, n>> = Append(Append(s, m), n) /\ Append(s, m) \in Seq(S)
    OBVIOUS
<1>2. Append(Append(s, m), n) \in Seq(S)
    BY <1>1
<1>4. Tokens(Append(s, m)) = Tokens(s) /\ (Tidy(s) => Tidy(Append(s, m)))
    BY AppendOf
<1> DEFINE r == Append(s, m)
<1>3. r \in Seq(S)
    BY <1>1
<1> HIDE DEF r
<1>6. Tokens(Append(r, n)) = Tokens(r) /\ (Tidy(r) => Tidy(Append(r, n)))
    BY <1>3, AppendOf
<1>5. /\ Tokens(Append(Append(s, m), n)) = Tokens(Append(s, m))
      /\ Tidy(Append(s, m)) => Tidy(Append(Append(s, m), n))
    BY <1>6 DEF r
<1> QED
    BY <1>1, <1>2, <1>4, <1>5

-----------------------------------------------------------------------------
(***************************************************************************)
(* What a step does to the exchanges it does not take part in.             *)
(***************************************************************************)
\* Descriptions that are applied stay; and no step but Apply applies one.
RemGrows ==
    /\ PcIds \subseteq PcIds'
    /\ \A q \in PcIds : Rem(q[1], q[2]) # None => Rem(q[1], q[2])' = Rem(q[1], q[2])
RemStays ==
    /\ PcIds \subseteq PcIds'
    /\ \A q \in PcIds : Rem(q[1], q[2])' = Rem(q[1], q[2])
    /\ \A q \in PcIds' \ PcIds : Rem(q[1], q[2])' = None

\* Nothing of user w's changes.
Same(w) ==
    /\ phone'[w] = phone[w] /\ pcs'[w] = pcs[w] /\ tasks'[w] = tasks[w]
    /\ conn'[w] = conn[w] /\ news'[w] = news[w] /\ up'[w] = up[w] /\ down'[w] = down[w]
    /\ (w \in waiting') <=> (w \in waiting)

\* Nothing changes of what the exchange depends on, but that a phone may learn
\* who is to call it.
Keeps(u) ==
    /\ Steady(u) => Steady(u)'
    /\ Pc(u)' = Pc(u) /\ (Pc(u) # 0 => (Cur(u).sig)' = Cur(u).sig)
    /\ \/ phone'[u].remote = phone[u].remote /\ Pends(u)' = Pends(u)
       \/ \E v \in Pends(u) : /\ ~(u < v) /\ phone'[u].remote = v
                              /\ Pends(u)' \subseteq Pends(u)
    /\ phone'[u].chan = "open" => phone[u].chan = "open"
    /\ tasks'[u] = tasks[u]
    /\ Tokens(up'[u]) = Tokens(up[u]) /\ Tokens(down'[u]) = Tokens(down[u])

\* The phone does something that no offerer can do, and no answerer that has not
\* applied the offer.
Loose(u) ==
    /\ ~Steady(u) \/ Busy(u)
    /\ Exchange(u)' = Exchange(u)
    /\ Tokens(up'[u]) = Tokens(up[u])
    /\ Tokens(down'[u]) \subseteq Tokens(down[u])
    /\ Pends(u)' \subseteq Pends(u)
    /\ (Exchange(u) # {} /\ phone'[u].chan = "open") =>
          phone[u].chan = "open" /\ phone'[u].remote \in {phone[u].remote, None}

\* A phone of which nothing changes keeps all of this.
LEMMA SameKeeps == ASSUME NEW w \in User, Same(w) PROVE Keeps(w)
BY DEF Same, Keeps, Steady, Listening, Cur, Pc, Pends

LEMMA SameNet == ASSUME NEW w \in User, Same(w), Net(w) PROVE Net(w)'
BY DEF Same, Net, Fresh, Listening, Cur, Pc, HasToken, Exchange, Pends

LEMMA SameHeld == ASSUME NEW w \in User, Same(w), Held(w) PROVE Held(w)'
BY DEF Same, Held, Cur, Pc, Does, Pends

\* Who does one of these things has no token it did not have.
LEMMA NoNewToken ==
    ASSUME NEW u \in User, Keeps(u) \/ Loose(u), HasToken(u)'
    PROVE  HasToken(u)
BY DEF Keeps, Loose, HasToken, Exchange

\* An offerer has no task but for the phase.
LEMMA OffererTasks ==
    ASSUME NEW a \in User, NEW b \in User, NEW p \in Phase, Offerer(a, b, p)
    PROVE  \A t \in tasks[a] :
               /\ t.pc = Pc(a)
               /\ \/ p = 2 /\ t.do = "set_offer"
                  \/ p = 3 /\ t.do = "send_offer"
                  \/ p = 10 /\ t.do = "apply_answer" /\ Answers(t.by, a)
<1> SUFFICES ASSUME NEW t \in tasks[a]
             PROVE  /\ t.pc = Pc(a)
                    /\ \/ p = 2 /\ t.do = "set_offer"
                       \/ p = 3 /\ t.do = "send_offer"
                       \/ p = 10 /\ t.do = "apply_answer" /\ Answers(t.by, a)
    OBVIOUS
<1>1. \/ p = 2 /\ t = Task("set_offer", Pc(a), None)
      \/ p = 3 /\ t = Task("send_offer", Pc(a), None)
      \/ p = 10 /\ t.do = "apply_answer" /\ t.pc = Pc(a) /\ Answers(t.by, a)
    BY DEF Offerer
<1>2. CASE p = 2 /\ t = Task("set_offer", Pc(a), None)
    BY <1>2 DEF Task
<1>3. CASE p = 3 /\ t = Task("send_offer", Pc(a), None)
    BY <1>3 DEF Task
<1> QED
    BY <1>1, <1>2, <1>3

\* An answerer has none up to phase 6, but to apply the offer.
LEMMA AnswererTasks ==
    ASSUME NEW a \in User, NEW b \in User, NEW p \in Phase, Answerer(b, a, p),
           p <= 6
    PROVE  \A t \in tasks[b] : /\ p = 6 /\ t.do = "apply_offer"
                              /\ t.pc = Pc(b) /\ t.by = Id(a)
<1>1. p <= 5 \/ p = 6
    BY DEF Phase
<1>2. SUFFICES ASSUME NEW t \in tasks[b]
               PROVE  p = 6 /\ t.do = "apply_offer" /\ t.pc = Pc(b) /\ t.by = Id(a)
    OBVIOUS
<1>3. p = 6 /\ t = Task("apply_offer", Pc(b), Id(a))
    BY <1>1 DEF Answerer
<1> QED
    BY <1>3 DEF Task

\* An offerer is steady, and so is an answerer up to phase 6; neither has any
\* other task.
LEMMA SteadyParties ==
    ASSUME NEW a \in User, NEW b \in User, NEW p \in Phase, Baton(a, b, p)
    PROVE  /\ Steady(a) /\ ~Busy(a) /\ ~Loose(a)
           /\ p <= 6 => Steady(b) /\ ~Busy(b) /\ ~Loose(b)
           /\ Pc(a) # 0 /\ a < b /\ a # b
<1>1. Steady(a) /\ Pc(a) # 0 /\ a < b
    BY DEF Baton, Offerer, Steady, Listening
<1>2. a # b
    BY <1>1, SignalingAssumption
<1>3. ~Busy(a)
    <2>1. \A t \in tasks[a] : t.do \in {"set_offer", "send_offer", "apply_answer"}
        BY OffererTasks DEF Baton
    <2> QED
        BY <2>1 DEF Busy, Exchanging
<1>4. p <= 6 => Steady(b)
    BY DEF Baton, Answerer
<1>5. p <= 6 => ~Busy(b)
    <2>1. p <= 6 => \A t \in tasks[b] : t.do = "apply_offer"
        BY AnswererTasks DEF Baton
    <2> QED
        BY <2>1 DEF Busy, Exchanging
<1> QED
    BY <1>1, <1>2, <1>3, <1>4, <1>5 DEF Loose

\* What has been applied is still applied.
LEMMA AnswersStay ==
    ASSUME Inv, NEW a \in User, NEW q, RemGrows, Pc(a)' = Pc(a), Answers(q, a)
    PROVE  Answers(q, a)' /\ OfferOf(a)' = OfferOf(a)
<1>1. q \in PcIds /\ Rem(q[1], q[2]) = OfferOf(a) /\ OfferOf(a) # None
    <2>1. OfferOf(a) # None
        <3>1. Pc(a) \in Nat
            BY PhoneTyped
        <3> QED
            BY <3>1, SignalingAssumption DEF OfferOf, Id
    <2> QED
        BY <2>1 DEF Answers
<1>2. OfferOf(a)' = OfferOf(a)
    BY DEF OfferOf, Id
<1>3. q \in PcIds' /\ Rem(q[1], q[2])' = Rem(q[1], q[2])
    BY <1>1 DEF RemGrows
<1> QED
    BY <1>1, <1>2, <1>3 DEF Answers

\* An offerer of whom nothing changes stays one.
LEMMA OffererKept ==
    ASSUME Inv, NEW a \in User, NEW b \in User, NEW p \in Phase,
           Offerer(a, b, p), Keeps(a), RemGrows
    PROVE  Offerer(a, b, p)'
<1>1. Steady(a)' /\ Pc(a)' = Pc(a) /\ Pc(a) # 0
    BY DEF Offerer, Keeps, Steady, Listening
<1>7. phone'[a].remote = phone[a].remote /\ Pends(a)' = Pends(a)
    <2>1. \A v \in Pends(a) : v = b /\ a < b
        BY DEF Offerer
    <2> QED
        BY <2>1 DEF Keeps
<1>2. /\ a < b /\ (Cur(a).sig)' = IF p <= 2 THEN "stable" ELSE "local"
      /\ p # 1 => phone'[a].remote = b
      /\ p \notin {2, 3, 10} => tasks'[a] = {}
      /\ p = 2 => tasks'[a] = {Task("set_offer", Pc(a), None)}
      /\ p = 3 => tasks'[a] = {Task("send_offer", Pc(a), None)}
      /\ Pends(a)' = IF p = 1 THEN {b} ELSE {}
    BY <1>1, <1>7 DEF Offerer, Keeps
<1>3. /\ p # 4 => Tokens(up'[a]) = {}
      /\ p = 4 => Tokens(up'[a]) = {Offered(a, b)}
      /\ p # 9 => Tokens(down'[a]) = {}
    BY DEF Offerer, Keeps
<1>4. Offered(a, b)' = Offered(a, b) /\ Id(a)' = Id(a)
    BY <1>1 DEF Offered, Id
<1>5. ASSUME p = 10
      PROVE  \E t : /\ tasks'[a] = {t} /\ t.do = "apply_answer" /\ t.pc = Pc(a)
                    /\ Answers(t.by, a)'
    <2>1. PICK t : /\ tasks[a] = {t} /\ t.do = "apply_answer" /\ t.pc = Pc(a)
                   /\ Answers(t.by, a)
        BY <1>5 DEF Offerer
    <2>2. Answers(t.by, a)'
        BY <1>1, <2>1, AnswersStay
    <2>3. tasks'[a] = {t}
        BY <2>1 DEF Keeps
    <2> QED
        BY <2>1, <2>2, <2>3
<1>6. ASSUME p = 9
      PROVE  \E m : Tokens(down'[a]) = {m} /\ IsAnswer(m, a)'
    <2>1. PICK m : Tokens(down[a]) = {m} /\ IsAnswer(m, a)
        BY <1>6 DEF Offerer
    <2>2. IsAnswer(m, a)'
        BY <1>1, <2>1, AnswersStay DEF IsAnswer
    <2>3. Tokens(down'[a]) = {m}
        BY <2>1 DEF Keeps
    <2> QED
        BY <2>2, <2>3
<1> QED
    BY <1>1, <1>2, <1>3, <1>4, <1>5, <1>6 DEF Offerer

\* And an answerer, also when it does what the phase allows.
LEMMA AnswererKept ==
    ASSUME Inv, NEW a \in User, NEW b \in User, NEW p \in Phase,
           Answerer(b, a, p), p <= 8, Keeps(b) \/ Loose(b), p <= 6 => Keeps(b),
           RemGrows, Pc(a)' = Pc(a)
    PROVE  Answerer(b, a, p)'
<1>1. Answerer(b, a, p)
    OBVIOUS
<1>2. Offered(a, b)' = Offered(a, b) /\ Id(a)' = Id(a)
    BY DEF Offered, Id
<1>6. /\ Pends(b)' \subseteq {a}
      /\ Keeps(b) => \/ phone'[b].remote = phone[b].remote /\ Pends(b)' = Pends(b)
                     \/ phone'[b].remote = a
    <2>1. Pends(b) \subseteq {a}
        BY <1>1 DEF Answerer
    <2> QED
        BY <2>1 DEF Keeps, Loose
<1>3. CASE p <= 6
    <2>1. Keeps(b) /\ Steady(b)
        BY <1>3 DEF Answerer
    <2>2. Steady(b)' /\ Pc(b)' = Pc(b) /\ (Cur(b).sig)' = "stable" /\ Tokens(up'[b]) = {}
        BY <1>1, <1>3, <2>1 DEF Answerer, Keeps, Steady, Listening
    <2>3. p <= 5 =>
              /\ tasks'[b] = {}
              /\ Tokens(down'[b]) \subseteq {Offered(a, b)}
              /\ a \in Pends(b)' \/ phone'[b].remote = a
              /\ (Offered(a, b) \in Tokens(down'[b])) <=> (p = 5)
        BY <1>1, <1>3, <1>6, <2>1 DEF Answerer, Keeps
    <2>4. ASSUME p = 6
          PROVE  /\ Tokens(down'[b]) = {}
                 /\ tasks'[b] = {Task("apply_offer", Pc(b), Id(a))}
                 /\ phone'[b].remote = a
        BY <1>1, <1>6, <2>1, <2>4 DEF Answerer, Keeps
    <2>5. (p <= 5 /\ p \notin {6, 7, 8}) \/ (p = 6 /\ ~(p <= 5) /\ p \notin {7, 8})
        BY <1>3 DEF Phase
    <2>6. CASE p <= 5 /\ p \notin {6, 7, 8}
        BY <1>2, <1>6, <2>2, <2>3, <2>6 DEF Answerer
    <2>7. CASE p = 6 /\ ~(p <= 5) /\ p \notin {7, 8}
        BY <1>2, <1>6, <2>2, <2>4, <2>7 DEF Answerer
    <2> QED
        BY <2>5, <2>6, <2>7
<1>4. CASE p = 7
    <2>1. PICK t : /\ Exchange(b) = {t} /\ t.do \in Answering
                   /\ Answers(<<b, t.pc>>, a)
        BY <1>1, <1>4 DEF Answerer
    <2>2. Answers(<<b, t.pc>>, a)'
        BY <2>1, AnswersStay
    <2>3. /\ Tokens(up[b]) = {} /\ Tokens(down[b]) = {}
          /\ phone[b].chan = "open" => phone[b].remote \in {a, None}
        BY <1>1, <1>4 DEF Answerer
    <2>4. Exchange(b)' = Exchange(b)
        BY DEF Keeps, Loose, Exchange
    <2>5. Tokens(up'[b]) = {} /\ Tokens(down'[b]) = {}
        BY <2>3 DEF Keeps, Loose
    <2>6. phone'[b].chan = "open" => phone'[b].remote \in {a, None}
        BY <1>6, <2>1, <2>3 DEF Keeps, Loose
    <2>7. ~(p <= 6) /\ ~(p <= 5) /\ p # 6 /\ p # 8
        BY <1>4
    <2> QED
        BY <1>4, <1>6, <2>1, <2>2, <2>4, <2>5, <2>6, <2>7 DEF Answerer
<1>5. CASE p = 8
    <2>1. PICK m : /\ Tokens(up[b]) = {m} /\ IsAnswer(m, a)
                   /\ m.by[1] = b /\ m.to \in {a, None}
        BY <1>1, <1>5 DEF Answerer
    <2>2. IsAnswer(m, a)'
        BY <2>1, AnswersStay DEF IsAnswer
    <2>3. Exchange(b)' = {} /\ Tokens(up'[b]) = {m}
        BY <1>1, <1>5, <2>1 DEF Answerer, Keeps, Loose, Exchange
    <2>4. Tokens(down'[b]) = {}
        BY <1>1, <1>5 DEF Answerer, Keeps, Loose
    <2> QED
        BY <1>5, <1>6, <2>1, <2>2, <2>3, <2>4 DEF Answerer
<1> QED
    BY <1>3, <1>4, <1>5 DEF Phase

\* So an exchange goes on when none of its parties does anything else.
LEMMA BatonKept ==
    ASSUME Inv, NEW a \in User, NEW b \in User, NEW p \in Phase, Baton(a, b, p),
           RemGrows, \A u \in Party(a, b, p) : Keeps(u) \/ Loose(u)
    PROVE  Baton(a, b, p)'
<1>1. Keeps(a) /\ Pc(a)' = Pc(a)
    BY SteadyParties DEF Party, Keeps
<1>2. Offerer(a, b, p)'
    BY <1>1, OffererKept DEF Baton
<1>3. Answerer(b, a, p)'
    <2>1. CASE p <= 8
        <3>1. (Keeps(b) \/ Loose(b)) /\ (p <= 6 => Keeps(b)) /\ Answerer(b, a, p)
            BY <2>1, SteadyParties DEF Party, Baton
        <3> QED
            BY <1>1, <2>1, <3>1, AnswererKept
    <2>2. CASE p \in {9, 10}
        <3>1. ~(p <= 8) /\ ~(p <= 6) /\ ~(p <= 5) /\ p \notin {6, 7, 8}
            BY <2>2
        <3> QED
            BY <3>1 DEF Answerer
    <2> QED
        BY <2>1, <2>2 DEF Phase
<1> QED
    BY <1>2, <1>3 DEF Baton

-----------------------------------------------------------------------------
(***************************************************************************)
(* Who has a token takes part in one exchange only.                        *)
(***************************************************************************)
\* What an offerer has.
LEMMA OffererHas ==
    ASSUME NEW a \in User, NEW b \in User, NEW p \in Phase, Offerer(a, b, p)
    PROVE  /\ \A t \in Exchange(a) :
                  /\ t.pc = Pc(a)
                  /\ \/ p = 2 /\ t.do = "set_offer"
                     \/ p = 3 /\ t.do = "send_offer"
                     \/ p = 10 /\ t.do = "apply_answer" /\ Answers(t.by, a)
           /\ Exchange(a) # {} <=> p \in {2, 3, 10}
           /\ \A m \in Tokens(up[a]) : p = 4 /\ m = Offered(a, b)
           /\ Tokens(up[a]) # {} <=> p = 4
           /\ \A m \in Tokens(down[a]) : p = 9 /\ IsAnswer(m, a)
           /\ Tokens(down[a]) # {} <=> p = 9
           /\ \A v \in Pends(a) : p = 1 /\ v = b
           /\ Pends(a) # {} <=> p = 1
<1>1. \A t \in Exchange(a) :
          /\ t.pc = Pc(a)
          /\ \/ p = 2 /\ t.do = "set_offer"
             \/ p = 3 /\ t.do = "send_offer"
             \/ p = 10 /\ t.do = "apply_answer" /\ Answers(t.by, a)
    BY OffererTasks DEF Exchange
<1>2. ASSUME p \in {2, 3, 10}
      PROVE  Exchange(a) # {}
    <2>1. \E t : t \in tasks[a]
        BY <1>2 DEF Offerer
    <2>2. PICK t \in tasks[a] : TRUE
        BY <2>1
    <2>3. t.do \in {"set_offer", "send_offer", "apply_answer"}
        BY OffererTasks
    <2>4. t \in Exchange(a)
        BY <2>3 DEF Exchange, Exchanging
    <2> QED
        BY <2>4
<1>3. (\A m \in Tokens(up[a]) : p = 4 /\ m = Offered(a, b))
      /\ (Tokens(up[a]) # {} <=> p = 4)
    BY DEF Offerer
<1>4. \A m \in Tokens(down[a]) : p = 9 /\ IsAnswer(m, a)
    BY DEF Offerer
<1>5. /\ Tokens(down[a]) # {} <=> p = 9
      /\ \A v \in Pends(a) : p = 1 /\ v = b
      /\ Pends(a) # {} <=> p = 1
    BY DEF Offerer
<1> QED
    BY <1>1, <1>2, <1>3, <1>4, <1>5

\* What an answerer has.
LEMMA AnswererHas ==
    ASSUME NEW a \in User, NEW b \in User, NEW p \in Phase, Answerer(b, a, p),
           p <= 8
    PROVE  /\ \A t \in Exchange(b) :
                  \/ p = 6 /\ t.do = "apply_offer" /\ t.pc = Pc(b) /\ t.by = Id(a)
                  \/ p = 7 /\ t.do \in Answering /\ Answers(<<b, t.pc>>, a)
           /\ Exchange(b) # {} <=> p \in {6, 7}
           /\ \A m \in Tokens(up[b]) : p = 8 /\ IsAnswer(m, a) /\ m.to \in {a, None}
           /\ Tokens(up[b]) # {} <=> p = 8
           /\ \A m \in Tokens(down[b]) : p = 5 /\ m = Offered(a, b)
           /\ p = 5 => Tokens(down[b]) # {}
           /\ Pends(b) \subseteq {a}
           /\ (p <= 5 /\ Pends(b) = {}) => phone[b].remote = a
<1>6. Pends(b) \subseteq {a}
    BY DEF Answerer
<1>1. CASE p <= 5
    <2>1. p \notin {6, 7, 8} /\ p <= 6
        BY <1>1 DEF Phase
    <2>2. tasks[b] = {} /\ Tokens(up[b]) = {}
          /\ (\A m \in Tokens(down[b]) : p = 5 /\ m = Offered(a, b))
          /\ (p = 5 => Tokens(down[b]) # {})
          /\ (Pends(b) = {} => phone[b].remote = a)
        BY <1>1, <2>1 DEF Answerer
    <2> QED
        BY <1>1, <1>6, <2>1, <2>2 DEF Exchange
<1>2. CASE p = 6
    <2>1. \A t \in tasks[b] : t.do = "apply_offer" /\ t.pc = Pc(b) /\ t.by = Id(a)
        BY <1>2, AnswererTasks
    <2>2. tasks[b] = {Task("apply_offer", Pc(b), Id(a))}
        BY <1>2 DEF Answerer
    <2>3. Exchange(b) # {}
        <3>1. Task("apply_offer", Pc(b), Id(a)) \in tasks[b]
            BY <2>2
        <3> QED
            BY <2>1, <3>1 DEF Exchange, Exchanging
    <2>4. Tokens(up[b]) = {} /\ Tokens(down[b]) = {}
        BY <1>2 DEF Answerer
    <2>5. ~(p <= 5) /\ p \notin {5, 7, 8}
        BY <1>2
    <2> QED
        BY <1>2, <1>6, <2>1, <2>3, <2>4, <2>5 DEF Exchange
<1>3. CASE p = 7
    <2>1. /\ \E t : /\ Exchange(b) = {t} /\ t.do \in Answering
                    /\ Answers(<<b, t.pc>>, a)
          /\ Tokens(up[b]) = {} /\ Tokens(down[b]) = {}
        BY <1>3 DEF Answerer
    <2> QED
        BY <1>3, <1>6, <2>1
<1>4. CASE p = 8
    <2>1. /\ Exchange(b) = {} /\ Tokens(down[b]) = {}
          /\ \E m : Tokens(up[b]) = {m} /\ IsAnswer(m, a) /\ m.to \in {a, None}
        BY <1>4 DEF Answerer
    <2> QED
        BY <1>4, <1>6, <2>1
<1>5. p <= 5 \/ p = 6 \/ p = 7 \/ p = 8
    BY DEF Phase
<1> QED
    BY <1>1, <1>2, <1>3, <1>4, <1>5, <1>6

\* Nobody takes part in two exchanges.
LEMMA Disjoint ==
    ASSUME NEW a \in User, NEW b \in User, NEW p \in Phase, Baton(a, b, p),
           NEW c \in User, NEW d \in User, NEW r \in Phase, Baton(c, d, r),
           Party(a, b, p) \cap Party(c, d, r) # {}
    PROVE  a = c /\ b = d /\ p = r
<1>1. /\ Offerer(a, b, p) /\ Answerer(b, a, p) /\ Offerer(c, d, r) /\ Answerer(d, c, r)
      /\ a < b /\ c < d /\ a # b /\ c # d
    BY SteadyParties DEF Baton
<1>2. ASSUME a = c
      PROVE  b = d /\ p = r
    <2>1. p = r \/ (p \in 5 .. 8 /\ r \in 5 .. 8)
        <3>1. CASE p \in {2, 3, 10} \/ r \in {2, 3, 10}
            <4>1. Exchange(a) # {}
                BY <1>1, <1>2, <3>1, OffererHas
            <4>2. PICK t \in Exchange(a) : TRUE
                BY <4>1
            <4> QED
                BY <1>1, <1>2, <4>2, OffererHas
        <3>2. CASE p = 4 \/ r = 4
            <4>1. Tokens(up[a]) # {}
                BY <1>1, <1>2, <3>2, OffererHas
            <4> QED
                BY <1>1, <1>2, <4>1, OffererHas
        <3>3. CASE p = 9 \/ r = 9
            <4>1. Tokens(down[a]) # {}
                BY <1>1, <1>2, <3>3, OffererHas
            <4> QED
                BY <1>1, <1>2, <4>1, OffererHas
        <3>4. CASE p = 1 \/ r = 1
            <4>1. Pends(a) # {}
                BY <1>1, <1>2, <3>4, OffererHas
            <4> QED
                BY <1>1, <1>2, <4>1, OffererHas
        <3> QED
            BY <3>1, <3>2, <3>3, <3>4 DEF Phase
    <2>2. b = d
        <3>1. CASE p = 1
            <4>1. p = 1 /\ r = 1
                BY <2>1, <3>1
            <4>2. Pends(a) = {b} /\ Pends(a) = {d}
                BY <1>1, <1>2, <4>1 DEF Offerer
            <4> QED
                BY <4>2
        <3>2. CASE p # 1
            <4>1. r # 1
                BY <2>1, <3>2
            <4> QED
                BY <1>1, <1>2, <3>2, <4>1 DEF Offerer
        <3> QED
            BY <3>1, <3>2
    <2>3. ASSUME p \in 5 .. 8, r \in 5 .. 8
          PROVE  p = r
        <3>1. Answerer(b, a, p) /\ Answerer(b, a, r) /\ p <= 8 /\ r <= 8
            BY <1>1, <1>2, <2>2, <2>3
        <3>2. CASE p \in {6, 7} \/ r \in {6, 7}
            <4>1. Exchange(b) # {}
                BY <2>3, <3>1, <3>2, AnswererHas
            <4>2. PICK t \in Exchange(b) : TRUE
                BY <4>1
            <4>3. /\ \/ p = 6 /\ t.do = "apply_offer" /\ t.pc = Pc(b) /\ t.by = Id(a)
                     \/ p = 7 /\ t.do \in Answering /\ Answers(<<b, t.pc>>, a)
                  /\ \/ r = 6 /\ t.do = "apply_offer" /\ t.pc = Pc(b) /\ t.by = Id(a)
                     \/ r = 7 /\ t.do \in Answering /\ Answers(<<b, t.pc>>, a)
                BY <3>1, <4>2, AnswererHas
            <4> QED
                BY <4>3 DEF Answering
        <3>3. CASE p = 8 \/ r = 8
            <4>1. Tokens(up[b]) # {}
                BY <2>3, <3>1, <3>3, AnswererHas
            <4> QED
                BY <2>3, <3>1, <4>1, AnswererHas
        <3> QED
            BY <2>3, <3>2, <3>3
    <2> QED
        BY <2>1, <2>2, <2>3
<1>3. ASSUME b = d, p <= 8, r <= 8
      PROVE  a = c
    <2>1. Answerer(b, a, p) /\ Answerer(b, c, r)
        BY <1>1, <1>3
    <2>2. CASE Exchange(b) # {}
        <3>1. PICK t \in Exchange(b) : TRUE
            BY <2>2
        <3>2. /\ \/ p = 6 /\ t.do = "apply_offer" /\ t.by = Id(a)
                 \/ p = 7 /\ t.do \in Answering /\ Answers(<<b, t.pc>>, a)
              /\ \/ r = 6 /\ t.do = "apply_offer" /\ t.by = Id(c)
                 \/ r = 7 /\ t.do \in Answering /\ Answers(<<b, t.pc>>, c)
            BY <1>3, <2>1, <3>1, AnswererHas
        <3>3. Id(a) = Id(c)
            BY <3>2 DEF Answering, Answers, OfferOf
        <3> QED
            BY <3>3 DEF Id
    <2>3. CASE Exchange(b) = {} /\ Tokens(up[b]) # {}
        <3>1. PICK m \in Tokens(up[b]) : TRUE
            BY <2>3
        <3>2. IsAnswer(m, a) /\ IsAnswer(m, c)
            BY <1>3, <2>1, <3>1, AnswererHas
        <3>3. Id(a) = Id(c)
            BY <3>2 DEF IsAnswer, Answers, OfferOf
        <3> QED
            BY <3>3 DEF Id
    <2>4. CASE Exchange(b) = {} /\ Tokens(up[b]) = {}
        <3>1. p <= 5 /\ r <= 5
            BY <1>3, <2>1, <2>4, AnswererHas DEF Phase
        <3>2. CASE Pends(b) = {}
            BY <1>3, <2>1, <3>1, <3>2, AnswererHas
        <3>3. CASE Pends(b) # {}
            <4>1. Pends(b) \subseteq {a} /\ Pends(b) \subseteq {c}
                BY <1>3, <2>1, AnswererHas
            <4> QED
                BY <3>3, <4>1
        <3> QED
            BY <3>2, <3>3
    <2> QED
        BY <2>2, <2>3, <2>4
\* An offerer is no answerer: the answerer of an exchange has what no offerer
\* has, or is waiting for an offer of somebody lower.
<1>4. ASSUME NEW x \in User, NEW y \in User, NEW z \in User,
             NEW k \in Phase, NEW l \in Phase,
             Offerer(x, y, k), Answerer(x, z, l), l <= 8, z < x, x < y
      PROVE  FALSE
    <2>1. z # y
        <3>1. x \in Nat /\ y \in Nat /\ z \in Nat
            BY SignalingAssumption
        <3> QED
            BY <1>4, <3>1
    <2>2. Tokens(up[x]) = {} /\ l # 8
        <3>1. \A m \in Tokens(up[x]) : k = 4 /\ m = Offered(x, y)
            BY <1>4, OffererHas
        <3>2. \A m \in Tokens(up[x]) : IsAnswer(m, z)
            BY <1>4, AnswererHas
        <3>3. Tokens(up[x]) = {}
            BY <3>1, <3>2 DEF IsAnswer, Offered
        <3> QED
            BY <1>4, <3>3, AnswererHas
    <2>3. Exchange(x) = {} /\ l \notin {6, 7}
        <3>1. \A t \in Exchange(x) :
                  /\ t.do \in {"set_offer", "send_offer", "apply_answer"}
                  /\ t.do = "apply_offer" \/ t.do \in Answering
            BY <1>4, OffererHas, AnswererHas
        <3>2. Exchange(x) = {}
            BY <3>1 DEF Answering
        <3> QED
            BY <1>4, <3>2, AnswererHas
    <2>4. l <= 5 /\ k \notin {2, 3, 4, 10}
        BY <1>4, <2>2, <2>3, OffererHas DEF Phase
    <2>5. (Cur(x).sig) = "stable"
        BY <1>4, <2>4 DEF Answerer, Phase
    <2>6. k = 1
        <3>1. k <= 2
            BY <1>4, <2>5 DEF Offerer
        <3> QED
            BY <2>4, <3>1 DEF Phase
    <2>7. Pends(x) = {y}
        BY <1>4, <2>6 DEF Offerer
    <2>8. Pends(x) \subseteq {z}
        BY <1>4, AnswererHas
    <2> QED
        BY <2>1, <2>7, <2>8
<1>5. CASE a = c
    BY <1>2, <1>5
<1>6. CASE a # c
    <2>1. \/ b = d /\ p <= 8 /\ r <= 8
          \/ a = d /\ r <= 8
          \/ b = c /\ p <= 8
        BY <1>6 DEF Party
    <2>2. CASE b = d /\ p <= 8 /\ r <= 8
        BY <1>3, <1>6, <2>2
    <2>3. CASE a = d /\ r <= 8
        BY <1>1, <1>4, <2>3
    <2>4. CASE b = c /\ p <= 8
        BY <1>1, <1>4, <2>4
    <2> QED
        BY <2>1, <2>2, <2>3, <2>4
<1> QED
    BY <1>5, <1>6

-----------------------------------------------------------------------------
(***************************************************************************)
(* How exchanges go on.                                                    *)
(***************************************************************************)
\* The users of S hand on what is theirs, and the others have no part in it.
LEMMA BatonsMove ==
    ASSUME Inv, BatonInv, RemGrows, NEW S,
           \A x \in User \ S : Keeps(x) \/ Loose(x),
           \A c, d \in User : \A r \in Phase :
               Baton(c, d, r) => Party(c, d, r) \cap S = {} \/ Party(c, d, r) \subseteq S,
           \A x \in User \cap S : HasToken(x)' =>
               \E c, d \in User, r \in Phase : Baton(c, d, r)' /\ x \in Party(c, d, r)
    PROVE  BatonInv'
<1> SUFFICES ASSUME NEW x \in User, HasToken(x)'
             PROVE  \E c, d \in User, r \in Phase :
                        Baton(c, d, r)' /\ x \in Party(c, d, r)
    BY DEF BatonInv, Party
<1>1. CASE x \in S
    BY <1>1
<1>2. CASE x \notin S
    <2>1. HasToken(x)
        BY <1>2, NoNewToken
    <2>2. PICK c \in User, d \in User, r \in Phase :
              Baton(c, d, r) /\ x \in Party(c, d, r)
        BY <2>1 DEF BatonInv
    <2>3. Party(c, d, r) \cap S = {} /\ Party(c, d, r) \subseteq User
        BY <1>2, <2>2 DEF Party
    <2>4. Baton(c, d, r)'
        BY <2>2, <2>3, BatonKept
    <2> QED
        BY <2>2, <2>4
<1> QED
    BY <1>1, <1>2

\* Nobody does anything that matters to an exchange.
LEMMA BatonsStay ==
    ASSUME Inv, BatonInv, RemGrows, \A x \in User : Keeps(x) \/ Loose(x)
    PROVE  BatonInv'
<1>1. \A c, d \in User : \A r \in Phase : Party(c, d, r) \cap {} = {}
    OBVIOUS
<1> QED
    BY <1>1, BatonsMove

\* The parties of one exchange do.
LEMMA BatonMoves ==
    ASSUME Inv, BatonInv, RemGrows,
           NEW a \in User, NEW b \in User, NEW p \in Phase, Baton(a, b, p),
           \A x \in User \ Party(a, b, p) : Keeps(x) \/ Loose(x),
           \A x \in Party(a, b, p) : HasToken(x)' =>
               \E c, d \in User, r \in Phase : Baton(c, d, r)' /\ x \in Party(c, d, r)
    PROVE  BatonInv'
<1>1. ASSUME NEW c \in User, NEW d \in User, NEW r \in Phase, Baton(c, d, r)
      PROVE  \/ Party(c, d, r) \cap Party(a, b, p) = {}
             \/ Party(c, d, r) \subseteq Party(a, b, p)
    BY <1>1, Disjoint
<1> QED
    BY <1>1, BatonsMove

\* All stays but for user u.
OnlyUser(u) == \A w \in User \ {u} : Same(w)

\* What a peer connection has from its peer names a peer connection.
LEMMA RemTyped ==
    ASSUME Inv, NEW q \in PcIds
    PROVE  /\ Rem(q[1], q[2]) \in DescriptionOf(PcIds)
           /\ q \in User \X Nat /\ q[1] \in User /\ q[2] \in DOMAIN pcs[q[1]]
<1>1. q \in User \X Nat /\ q[1] \in User /\ q[2] \in DOMAIN pcs[q[1]]
    BY DEF PcIds
<1>2. pcs[q[1]][q[2]] \in PcOf(PcIds)
    BY <1>1 DEF Inv, Local
<1> QED
    BY <1>1, <1>2 DEF Rem, PcOf

\* No answer belongs to another offer when nothing is applied.
LEMMA FitStays == ASSUME Inv, Fit, RemStays PROVE Fit'
<1> SUFFICES ASSUME NEW q \in PcIds', NEW r \in PcIds',
                    Rem(q[1], q[2])' = [type |-> "answer", by |-> r]
             PROVE  Rem(r[1], r[2])' = [type |-> "offer", by |-> q]
    BY DEF Fit
<1>1. [type |-> "answer", by |-> r] # None
    <2>1. r \in User \X Nat
        BY DEF PcIds
    <2> QED
        BY <2>1, SignalingAssumption
<1>2. q \in PcIds /\ Rem(q[1], q[2]) = [type |-> "answer", by |-> r]
    BY <1>1 DEF RemStays
<1>3. r \in PcIds
    <2>1. Rem(q[1], q[2]) \in DescriptionOf(PcIds)
        BY <1>2, RemTyped
    <2> QED
        BY <1>1, <1>2, <2>1 DEF DescriptionOf
<1>4. Rem(r[1], r[2]) = [type |-> "offer", by |-> q]
    BY <1>2, <1>3 DEF Fit
<1> QED
    BY <1>3, <1>4 DEF RemStays

\* A step of user u that does nothing to an exchange.
LEMMA ByTheWay ==
    ASSUME Inv, CalmInv, NEW u \in User, OnlyUser(u), RemStays,
           Keeps(u) \/ Loose(u), Net(u)', Held(u)'
    PROVE  CalmInv'
<1>1. \A w \in User \ {u} : Keeps(w) /\ Net(w)' /\ Held(w)'
    BY SameKeeps, SameNet, SameHeld DEF OnlyUser, CalmInv
<1>2. RemGrows
    BY DEF RemStays, RemGrows
<1>3. BatonInv'
    BY <1>1, <1>2, BatonsStay DEF CalmInv
<1>4. Fit'
    BY FitStays DEF CalmInv
<1> QED
    BY <1>1, <1>3, <1>4 DEF CalmInv

\* The parties of an exchange hand on the baton in a step of one of them.
LEMMA HandedOn ==
    ASSUME Inv, CalmInv, NEW u \in User, OnlyUser(u), RemGrows, Fit',
           Net(u)', Held(u)',
           NEW a \in User, NEW b \in User, NEW p \in Phase, Baton(a, b, p),
           u \in Party(a, b, p),
           \/ \E r \in Phase : Baton(a, b, r)' /\ Party(a, b, p) \subseteq Party(a, b, r)
           \/ \A x \in Party(a, b, p) : ~HasToken(x)'
    PROVE  CalmInv'
<1>1. \A w \in User \ {u} : Keeps(w) /\ Net(w)' /\ Held(w)'
    BY SameKeeps, SameNet, SameHeld DEF OnlyUser, CalmInv
<1>2. \A x \in Party(a, b, p) : HasToken(x)' =>
          \E c, d \in User, r \in Phase : Baton(c, d, r)' /\ x \in Party(c, d, r)
    OBVIOUS
<1>3. BatonInv'
    BY <1>1, <1>2, BatonMoves DEF CalmInv
<1> QED
    BY <1>1, <1>3 DEF CalmInv

-----------------------------------------------------------------------------
(***************************************************************************)
(* What steps do to what is applied and to what is on its way.             *)
(***************************************************************************)
\* The variables are functions of the users.
LEMMA Domains ==
    ASSUME Inv
    PROVE  /\ DOMAIN phone = User /\ DOMAIN pcs = User /\ DOMAIN tasks = User
           /\ DOMAIN conn = User /\ DOMAIN up = User /\ DOMAIN down = User
           /\ \A u \in User : up[u] \in Seq(MessageOf(PcIds))
           /\ DOMAIN home = User /\ DOMAIN news = User
           /\ \A u \in User : down[u] \in Seq(HeardOf(PcIds))
BY DEF Inv, Functions, Messages, Rest1, Sockets

\* Nothing is applied when the old peer connections of u keep what they have
\* from their peers, and the new ones have nothing.
LEMMA RemsStay ==
    ASSUME NEW u \in User, \A v \in User \ {u} : pcs'[v] = pcs[v],
           DOMAIN pcs[u] \subseteq DOMAIN pcs'[u],
           \A n \in DOMAIN pcs[u] : pcs'[u][n].rem = pcs[u][n].rem,
           \A n \in DOMAIN pcs'[u] \ DOMAIN pcs[u] : pcs'[u][n].rem = None
    PROVE  RemStays
<1>1. PcIds \subseteq PcIds'
    BY DEF PcIds
<1>2. ASSUME NEW q \in PcIds
      PROVE  Rem(q[1], q[2])' = Rem(q[1], q[2])
    <2>1. q[1] \in User /\ q[2] \in DOMAIN pcs[q[1]]
        BY DEF PcIds
    <2> QED
        BY <2>1 DEF Rem
<1>3. ASSUME NEW q \in PcIds' \ PcIds
      PROVE  Rem(q[1], q[2])' = None
    <2>1. q[1] \in User /\ q[2] \in DOMAIN pcs'[q[1]] /\ q[2] \notin DOMAIN pcs[q[1]]
        BY DEF PcIds
    <2>2. q[1] = u
        BY <2>1
    <2> QED
        BY <2>1, <2>2 DEF Rem
<1> QED
    BY <1>1, <1>2, <1>3 DEF RemStays

\* A message that is no token is sent.
LEMMA SentKeeps ==
    ASSUME Inv, NEW u \in User, NEW m \in MessageOf(PcIds), ~IsToken(m),
           up' = Sent(u, <<m>>)
    PROVE  /\ Tokens(up'[u]) = Tokens(up[u]) /\ (Tidy(up[u]) => Tidy(up'[u]))
           /\ phone[u].chan # "open" => up'[u] = up[u]
           /\ \A v \in User \ {u} : up'[v] = up[v]
<1>1. up[u] \in Seq(MessageOf(PcIds)) /\ DOMAIN up = User
    BY Domains
<1>2. up[u] \o <<m>> = Append(up[u], m)
    BY <1>1
<1>3. /\ Tokens(Append(up[u], m)) = Tokens(up[u])
      /\ Tidy(up[u]) => Tidy(Append(up[u], m))
    BY <1>1, AppendOf DEF IsToken
<1>4. /\ phone[u].chan = "open" => up'[u] = Append(up[u], m)
      /\ phone[u].chan # "open" => up'[u] = up[u]
      /\ \A v \in User \ {u} : up'[v] = up[v]
    BY <1>1, <1>2 DEF Sent
<1> QED
    BY <1>3, <1>4

\* dispose, and the end of the call, on a screen that shows one.
LEMMA HangUpCalm ==
    ASSUME Inv, CalmInv, NEW u \in User, HangUp(u),
           phone[u].screen \notin {"idle", "matching"},
           UNCHANGED <<tasks, sockets>>,
           \A v \in User \ {u} : up'[v] = up[v],
           Tokens(up'[u]) = Tokens(up[u]), Tidy(up'[u]),
           phone[u].chan # "open" => up'[u] = up[u]
    PROVE  CalmInv'
<1> DEFINE r == [phone[u] EXCEPT !.screen = "idle", !.pc = 0, !.chan = "none"]
<1>1. /\ phone' = [phone EXCEPT ![u] = r]
      /\ pcs' = [pcs EXCEPT ![u] = Disposed(u, {Pc(u)})]
      /\ down' = [down EXCEPT ![u] = <<>>]
    BY DEF HangUp
<1>2. r.screen = "idle" /\ r.pc = 0 /\ r.chan = "none" /\ r.remote = phone[u].remote
    BY PhoneTyped DEF PhoneOf
<1> HIDE DEF r
<1>3. /\ phone'[u] = r /\ down'[u] = <<>>
      /\ \A v \in User \ {u} : phone'[v] = phone[v] /\ down'[v] = down[v]
                               /\ pcs'[v] = pcs[v]
    BY <1>1, Domains
<1>4. /\ DOMAIN pcs'[u] = DOMAIN pcs[u]
      /\ \A n \in DOMAIN pcs[u] :
            /\ n # Pc(u) => pcs'[u][n] = pcs[u][n]
            /\ n = Pc(u) => pcs'[u][n] = [NewPc EXCEPT !.rem = Rem(u, n), !.gone = TRUE]
    BY <1>1, Domains DEF Disposed
<1>5. RemStays
    <2>1. \A n \in DOMAIN pcs[u] : pcs'[u][n].rem = pcs[u][n].rem
        BY <1>4 DEF NewPc, Rem
    <2> QED
        BY <1>3, <1>4, <2>1, RemsStay
<1>6. OnlyUser(u)
    BY <1>3 DEF OnlyUser, Same, Pends, sockets
<1>7. Loose(u)
    <2>1. ~Steady(u)
        BY DEF Steady, Listening
    <2> QED
        BY <1>2, <1>3, <2>1, EmptyOf DEF Loose, Exchange, Pends, sockets
<1>8. Net(u)'
    <2>1. Net(u) /\ u \notin waiting
        BY DEF CalmInv, Net, Fresh, Listening
    <2> QED
        BY <1>2, <1>3, <2>1, EmptyOf DEF Net, Pends, sockets
<1>9. Held(u)'
    <2>1. Pc(u)' = 0
        BY <1>2, <1>3 DEF Pc
    <2>2. ASSUME NEW n \in DOMAIN pcs'[u], ~pcs'[u][n].gone, ~Blank(pcs'[u][n])
          PROVE  FALSE
        <3>1. n # Pc(u)
            BY <1>4, <2>2 DEF NewPc
        <3>2. pcs'[u][n] = pcs[u][n] /\ n \in DOMAIN pcs[u]
            BY <1>4, <3>1
        <3> QED
            BY <2>2, <3>1, <3>2 DEF CalmInv, Held
    <2> QED
        BY <2>1, <2>2 DEF Held
<1> QED
    BY <1>5, <1>6, <1>7, <1>8, <1>9, ByTheWay

-----------------------------------------------------------------------------
(***************************************************************************)
(* The steps that do nothing to an exchange.                               *)
(***************************************************************************)
\* A phone that joins has no token and no peer.
LEMMA JoinCalm ==
    ASSUME Inv, CalmInv, Calm, NEW u \in User, Join(u)
    PROVE  CalmInv'
<1> DEFINE r == [phone[u] EXCEPT !.pc = Next1(u), !.ready = FALSE,
                     !.pending = {}, !.screen = "matching", !.chan = "connecting"]
<1>1. /\ phone[u].screen = "idle" /\ phone[u].chan = "none" /\ conn[u] = "none"
      /\ UNCHANGED <<tasks, server, down, bounds>>
    BY DEF Join
<1>2. tasks[u] = {}
    BY DEF Join, Calm
<1>3. /\ phone' = [phone EXCEPT ![u] = r]
      /\ pcs' = [pcs EXCEPT ![u] = Append(pcs[u], NewPc)]
    BY DEF Join, Prewarmed
<1>4. /\ r.screen = "matching" /\ r.pc = Next1(u) /\ r.chan = "connecting"
      /\ ~r.ready /\ r.pending = {}
    BY PhoneTyped DEF PhoneOf
<1> HIDE DEF r
<1>5. /\ phone'[u] = r
      /\ \A v \in User \ {u} : phone'[v] = phone[v] /\ pcs'[v] = pcs[v]
    BY <1>3, Domains
<1>6. pcs[u] \in Seq(PcOf(PcIds)) /\ Len(pcs[u]) = Len(pcs[u])
    BY PhoneTyped
<1>7. /\ DOMAIN pcs'[u] = DOMAIN pcs[u] \cup {Next1(u)}
      /\ Next1(u) \in Nat \ {0} /\ Next1(u) \notin DOMAIN pcs[u]
      /\ pcs'[u][Next1(u)] = NewPc
      /\ \A n \in DOMAIN pcs[u] : pcs'[u][n] = pcs[u][n]
    BY <1>3, <1>6, PcMade
<1>8. RemStays
    <2>1. NewPc.rem = None
        BY DEF NewPc
    <2> QED
        BY <1>5, <1>7, <2>1, RemsStay
<1>9. OnlyUser(u)
    BY <1>1, <1>5 DEF OnlyUser, Same, server, sockets
<1>10. Net(u) /\ Held(u) /\ up[u] = <<>> /\ down[u] = <<>> /\ u \notin waiting
    BY <1>1 DEF CalmInv, Net
<1>11. Exchange(u) = {} /\ Exchange(u)' = {}
    BY <1>1, <1>2 DEF Exchange
<1>12. Loose(u)
    BY <1>1, <1>5, <1>11 DEF Loose, Steady, server, sockets, Pends
<1>13. Fresh(u)'
    <2>1. Pc(u)' = Next1(u) /\ Cur(u)' = NewPc
        BY <1>4, <1>5, <1>7 DEF Pc, Cur
    <2>2. Listening(u)' /\ (Cur(u).sig)' = "stable"
        BY <1>4, <1>5, <1>7, <2>1 DEF Listening, NewPc
    <2>4. Pends(u)' = {}
        <3>1. news[u] = None
            BY <1>1 DEF Inv, Rest1, Sockets
        <3> QED
            BY <1>1, <1>10, <3>1, EmptyOf DEF Pends, server, sockets
    <2>3. ~HasToken(u)'
        BY <1>1, <1>10, <1>11, <2>4, EmptyOf DEF HasToken, server, sockets
    <2> QED
        BY <1>1, <1>2, <2>2, <2>3, <2>4 DEF Fresh
<1>14. Net(u)'
    BY <1>1, <1>2, <1>4, <1>5, <1>10, <1>13, EmptyOf DEF Net, server, sockets
<1>15. Held(u)'
    <2>1. Pc(u)' = Next1(u) /\ Cur(u)' = NewPc
        BY <1>4, <1>5, <1>7 DEF Pc, Cur
    <2>2. ASSUME NEW n \in DOMAIN pcs'[u], ~pcs'[u][n].gone, ~Blank(pcs'[u][n])
          PROVE  n = Next1(u)
        <3>1. SUFFICES ASSUME n \in DOMAIN pcs[u]
                       PROVE  FALSE
            BY <1>7, <2>2
        <3>2. pcs'[u][n] = pcs[u][n] /\ n # 0
            BY <1>7, <3>1, PhoneTyped
        <3>3. n = Pc(u)
            BY <1>10, <2>2, <3>1, <3>2 DEF Held
        <3>4. Blank(Cur(u))
            BY <1>1, <1>10, <3>2, <3>3 DEF Held
        <3> QED
            BY <2>2, <3>2, <3>3, <3>4 DEF Cur
    <2>3. NewPc.rem = None /\ NewPc.sig = "stable" /\ Blank(NewPc)
        BY DEF NewPc, Blank
    <2> QED
        BY <2>1, <2>2, <2>3 DEF Held
<1> QED
    BY <1>8, <1>9, <1>12, <1>14, <1>15, ByTheWay

\* A bye is no token.
LEMMA EndCallCalm ==
    ASSUME Inv, CalmInv, NEW u \in User, EndCall(u)
    PROVE  CalmInv'
<1>1. /\ phone[u].screen = "connected" /\ HangUp(u)
      /\ up' = Sent(u, <<Message(u, "bye", None)>>)
      /\ UNCHANGED <<tasks, sockets>>
    BY DEF EndCall
<1>2. Message(u, "bye", None) \in MessageOf(PcIds) /\ ~IsToken(Message(u, "bye", None))
    <2>1. Message(u, "bye", None) \in MessageOf(PcIds)
        BY MessageTyped DEF Made
    <2> QED
        BY <2>1 DEF Message, IsToken
<1>3. Tidy(up[u])
    BY DEF CalmInv, Net
<1>4. /\ Tokens(up'[u]) = Tokens(up[u]) /\ Tidy(up'[u])
      /\ phone[u].chan # "open" => up'[u] = up[u]
      /\ \A v \in User \ {u} : up'[v] = up[v]
    BY <1>1, <1>2, <1>3, SentKeeps
<1> QED
    BY <1>1, <1>4, HangUpCalm

\* Who swipes leaves the exchange; what the phone still does for it is dropped by
\* whoever the peer is now.
LEMMA FindNextMatchCalm ==
    ASSUME Inv, CalmInv, NEW u \in User, NEW done, FindNextMatch(u, done),
           phone[u].screen = "connected" \/ Busy(u),
           \A t \in done : t.do \notin Exchanging
    PROVE  CalmInv'
<1> DEFINE r == [phone[u] EXCEPT !.pc = 0, !.remote = None, !.ready = FALSE,
                                 !.pending = {}]
           create == Task("create", Next1(u), None)
           slide == Task("slide", 0, None)
           T == (tasks[u] \ done) \cup {create, slide}
           bye == Message(u, "bye", None)
           next == [Message(u, "next_match", None) EXCEPT !.to = None]
<1>1. /\ phone' = [phone EXCEPT ![u] = r]
      /\ pcs' = [pcs EXCEPT ![u] = Append(Disposed(u, {Pc(u)}), NewPc)]
      /\ tasks' = [tasks EXCEPT ![u] = T]
      /\ up' = Sent(u, <<bye, next>>)
      /\ UNCHANGED <<sockets, down, bounds>>
    BY DEF FindNextMatch
<1>2. /\ r.screen = phone[u].screen /\ r.pc = 0 /\ r.remote = None
      /\ r.chan = phone[u].chan
    BY PhoneTyped DEF PhoneOf
<1>3. /\ create.do = "create" /\ slide.do = "slide"
    BY DEF Task
<1>4. bye \in MessageOf(PcIds) /\ next \in MessageOf(PcIds)
      /\ ~IsToken(bye) /\ ~IsToken(next)
    <2>1. bye \in MessageOf(PcIds) /\ next \in MessageOf(PcIds)
        BY MessageTyped DEF Made
    <2> QED
        BY <2>1 DEF Message, IsToken
<1>5. \A t \in T : t \in tasks[u] \/ t = create \/ t = slide
    OBVIOUS
<1>6. \A t \in tasks[u] : t \in done \/ t \in T
    OBVIOUS
<1> HIDE DEF r, create, slide, T, bye, next
<1>7. /\ phone'[u] = r /\ tasks'[u] = T
      /\ pcs'[u] = Append(Disposed(u, {Pc(u)}), NewPc)
      /\ \A v \in User \ {u} : phone'[v] = phone[v] /\ pcs'[v] = pcs[v]
                               /\ tasks'[v] = tasks[v] /\ up'[v] = up[v]
    BY <1>1, Domains DEF Sent
<1>8. /\ DOMAIN pcs[u] \subseteq DOMAIN pcs'[u]
      /\ \A n \in DOMAIN pcs[u] : pcs'[u][n] = Disposed(u, {Pc(u)})[n]
      /\ \A n \in DOMAIN pcs'[u] \ DOMAIN pcs[u] : pcs'[u][n] = NewPc
    <2>1. /\ pcs[u] \in Seq(PcOf(PcIds)) /\ DOMAIN pcs[u] = 1 .. Len(pcs[u])
          /\ Len(pcs[u]) \in Nat
        BY PhoneTyped
    <2> DEFINE d == Disposed(u, {Pc(u)})
    <2>2. DOMAIN d = DOMAIN pcs[u] /\ d = [n \in DOMAIN pcs[u] |-> d[n]]
        BY DEF Disposed
    <2>5. pcs'[u] = Append(d, NewPc)
        BY <1>7
    <2>6. SUFFICES /\ DOMAIN pcs[u] \subseteq DOMAIN pcs'[u]
                   /\ \A n \in DOMAIN pcs[u] : pcs'[u][n] = d[n]
                   /\ \A n \in DOMAIN pcs'[u] \ DOMAIN pcs[u] : pcs'[u][n] = NewPc
        OBVIOUS
    <2> HIDE DEF d
    <2>3. d \in Seq({d[n] : n \in DOMAIN pcs[u]}) /\ Len(d) = Len(pcs[u])
        BY <2>1, <2>2
    <2>4. /\ DOMAIN Append(d, NewPc) = 1 .. Len(pcs[u]) + 1
          /\ \A n \in 1 .. Len(pcs[u]) : Append(d, NewPc)[n] = d[n]
          /\ Append(d, NewPc)[Len(pcs[u]) + 1] = NewPc
        BY <2>1, <2>3
    <2> QED
        BY <2>1, <2>4, <2>5
<1>9. \A n \in DOMAIN pcs[u] :
          /\ n # Pc(u) => pcs'[u][n] = pcs[u][n]
          /\ n = Pc(u) => pcs'[u][n] = [NewPc EXCEPT !.rem = Rem(u, n), !.gone = TRUE]
    BY <1>8 DEF Disposed
<1>10. RemStays
    <2>1. \A n \in DOMAIN pcs[u] : pcs'[u][n].rem = pcs[u][n].rem
        BY <1>9 DEF NewPc, Rem
    <2>2. NewPc.rem = None
        BY DEF NewPc
    <2> QED
        BY <1>7, <1>8, <2>1, <2>2, RemsStay
<1>11. OnlyUser(u)
    BY <1>1, <1>7 DEF OnlyUser, Same, Pends, sockets
<1>12. /\ Net(u) /\ Held(u) /\ u \notin waiting
       /\ phone[u].chan # "connecting" /\ (~Steady(u) \/ Busy(u))
    BY DEF CalmInv, Net, Fresh, Listening, Busy, Steady
<1>13. Tokens(up'[u]) = Tokens(up[u]) /\ Tidy(up'[u])
       /\ (phone[u].chan # "open" => up'[u] = up[u])
    <2>1. up[u] \in Seq(MessageOf(PcIds)) /\ DOMAIN up = User
        BY Domains
    <2>2. /\ Tokens(up[u] \o <<bye, next>>) = Tokens(up[u])
          /\ Tidy(up[u] \o <<bye, next>>)
        BY <1>4, <1>12, <2>1, AppendTwo DEF Net
    <2> QED
        BY <1>1, <1>12, <2>1, <2>2 DEF Sent, Net
<1>14. Exchange(u)' = Exchange(u)
    BY <1>3, <1>5, <1>6, <1>7 DEF Exchange, Exchanging, Answering
<1>15. Loose(u)
    BY <1>1, <1>2, <1>7, <1>12, <1>13, <1>14 DEF Loose, Pends, sockets
<1>16. Net(u)'
    <2>1. /\ phone'[u].chan = phone[u].chan /\ conn'[u] = conn[u] /\ news'[u] = news[u]
          /\ down'[u] = down[u] /\ u \notin waiting'
        BY <1>1, <1>2, <1>7, <1>12 DEF Pends, sockets
    <2>2. \A t \in tasks'[u] : t.do \notin {"make", "reconnect"}
        BY <1>3, <1>5, <1>7, <1>12 DEF Net
    <2> QED
        BY <1>12, <1>13, <2>1, <2>2 DEF Net
<1>17. Held(u)'
    <2>1. Pc(u)' = 0
        BY <1>2, <1>7 DEF Pc
    <2>2. ASSUME NEW n \in DOMAIN pcs'[u], ~pcs'[u][n].gone, ~Blank(pcs'[u][n])
          PROVE  FALSE
        <3>1. n \in DOMAIN pcs[u]
            BY <1>8, <2>2 DEF NewPc, Blank
        <3>2. n # Pc(u)
            BY <1>9, <2>2, <3>1 DEF NewPc
        <3> QED
            BY <1>9, <1>12, <2>2, <3>1, <3>2 DEF Held
    <2> QED
        BY <2>1, <2>2 DEF Held
<1> QED
    BY <1>10, <1>11, <1>15, <1>16, <1>17, ByTheWay

\* Only the screen changes, and tasks that have no part in an exchange.
LEMMA ScreenCalm ==
    ASSUME Inv, CalmInv, NEW u \in User, NEW screen, NEW T,
           phone' = [phone EXCEPT ![u].screen = screen],
           tasks' = [tasks EXCEPT ![u] = T],
           UNCHANGED <<pcs, server, down>>,
           phone[u].screen = "connected" \/ Busy(u),
           screen = phone[u].screen \/ screen # "idle",
           \A t \in T : t \in tasks[u]
                        \/ t.do \notin Exchanging \cup {"create", "make", "reconnect"},
           \A t \in tasks[u] : t \in T \/ t.do \notin Exchanging
    PROVE  CalmInv'
<1> DEFINE r == [phone[u] EXCEPT !.screen = screen]
<1>1. /\ r.screen = screen /\ r.pc = Pc(u) /\ r.remote = phone[u].remote
      /\ r.chan = phone[u].chan /\ r.pending = phone[u].pending
    BY PhoneTyped DEF PhoneOf, Pc
<1>2. phone' = [phone EXCEPT ![u] = r]
    OBVIOUS
<1> HIDE DEF r
<1>3. /\ phone'[u] = r /\ tasks'[u] = T /\ pcs'[u] = pcs[u]
      /\ conn'[u] = conn[u] /\ news'[u] = news[u] /\ up'[u] = up[u] /\ down'[u] = down[u]
      /\ waiting' = waiting
      /\ \A v \in User \ {u} : phone'[v] = phone[v] /\ tasks'[v] = tasks[v]
    BY <1>2, Domains DEF server, sockets
<1>4. RemStays
    BY DEF RemStays, Rem, PcIds
<1>5. OnlyUser(u)
    BY <1>3 DEF OnlyUser, Same, server, sockets
<1>6. /\ Net(u) /\ Held(u) /\ u \notin waiting
      /\ phone[u].chan # "connecting" /\ (~Steady(u) \/ Busy(u))
    BY DEF CalmInv, Net, Fresh, Listening, Busy, Steady
<1>7. Exchange(u)' = Exchange(u)
    BY <1>3 DEF Exchange
<1>8. Loose(u)
    BY <1>1, <1>3, <1>6, <1>7 DEF Loose, Pends, sockets
<1>9. Net(u)'
    <2>1. \A t \in tasks'[u] : t.do \notin {"make", "reconnect"}
        BY <1>3, <1>6 DEF Net
    <2> QED
        BY <1>1, <1>3, <1>6, <2>1 DEF Net
<1>10. Held(u)'
    <2>1. Pc(u)' = Pc(u) /\ Cur(u)' = Cur(u)
        BY <1>1, <1>3 DEF Pc, Cur
    <2>2. Does(u, "create")' => Does(u, "create")
        BY <1>3 DEF Does
    <2>3. phone'[u].screen = "idle" => phone[u].screen = "idle"
        BY <1>1, <1>3
    <2> QED
        BY <1>1, <1>3, <1>6, <2>1, <2>2, <2>3 DEF Held, Pends, sockets
<1> QED
    BY <1>4, <1>5, <1>8, <1>9, <1>10, ByTheWay

\* The user reports.
LEMMA ReportCalm == ASSUME Inv, CalmInv, NEW u \in User, Report(u) PROVE CalmInv'
<1> DEFINE s == Task("sheet", 0, None)
<1>1. /\ phone[u].screen = "connected"
      /\ phone' = [phone EXCEPT ![u].screen = "reporting"]
      /\ tasks' = [tasks EXCEPT ![u] = tasks[u] \cup {s}]
      /\ UNCHANGED <<pcs, server, down>>
    BY DEF Report
<1>2. s.do \notin Exchanging \cup {"create", "make", "reconnect"}
    BY DEF Task, Exchanging, Answering
<1> HIDE DEF s
<1> QED
    BY <1>1, <1>2, ScreenCalm

\* The sheet is answered.
LEMMA AnswerSheetCalm ==
    ASSUME Inv, CalmInv, NEW u \in User, NEW t \in tasks[u], AnswerSheet(u, t)
    PROVE  CalmInv'
<1>1. t.do = "sheet" /\ t.do \notin Exchanging /\ Busy(u)
    BY DEF AnswerSheet, Exchanging, Answering, Busy
<1>2. CASE /\ phone' = [phone EXCEPT ![u].screen = "connected"]
           /\ tasks' = [tasks EXCEPT ![u] = @ \ {t}]
    <2> DEFINE T == tasks[u] \ {t}
    <2>1. /\ \A x \in T : x \in tasks[u]
          /\ \A x \in tasks[u] : x \in T \/ x.do \notin Exchanging
        BY <1>1
    <2>2. tasks' = [tasks EXCEPT ![u] = T] /\ UNCHANGED <<pcs, server, down>>
        BY <1>2 DEF AnswerSheet
    <2> HIDE DEF T
    <2> QED
        BY <1>1, <1>2, <2>1, <2>2, ScreenCalm
<1>3. CASE /\ tasks' = [tasks EXCEPT ![u] = (@ \ {t}) \cup {Task("submit", 0, None)}]
           /\ UNCHANGED phone
    <2> DEFINE s == Task("submit", 0, None)
               T == (tasks[u] \ {t}) \cup {s}
    <2>1. s.do \notin Exchanging \cup {"create", "make", "reconnect"}
        BY DEF Task, Exchanging, Answering
    <2>2. phone' = [phone EXCEPT ![u].screen = phone[u].screen]
        <3>1. phone[u] = [phone[u] EXCEPT !.screen = phone[u].screen]
            BY PhoneTyped DEF PhoneOf
        <3>2. phone = [phone EXCEPT ![u] = phone[u]]
            BY StaysSame
        <3> QED
            BY <1>3, <3>1, <3>2
    <2>3. tasks' = [tasks EXCEPT ![u] = T] /\ UNCHANGED <<pcs, server, down>>
        BY <1>3 DEF AnswerSheet
    <2>4. \A x \in T : x \in tasks[u] \/ x = s
        OBVIOUS
    <2>5. \A x \in tasks[u] : x \in T \/ x = t
        OBVIOUS
    <2> HIDE DEF s, T
    <2> QED
        BY <1>1, <2>1, <2>2, <2>3, <2>4, <2>5, ScreenCalm
<1> QED
    BY <1>2, <1>3 DEF AnswerSheet

\* The screen has slid.
LEMMA SlideCalm ==
    ASSUME Inv, CalmInv, NEW u \in User, NEW t \in tasks[u], Slide(u, t)
    PROVE  CalmInv'
<1>1. t.do = "slide" /\ t.do \notin Exchanging /\ Busy(u)
    BY DEF Slide, Exchanging, Answering, Busy
<1> DEFINE T == tasks[u] \ {t}
<1>2. /\ phone' = [phone EXCEPT ![u].screen = "matching"]
      /\ tasks' = [tasks EXCEPT ![u] = T]
      /\ UNCHANGED <<pcs, server, down>>
    BY DEF Slide, Ends
<1>3. /\ \A x \in T : x \in tasks[u]
      /\ \A x \in tasks[u] : x \in T \/ x.do \notin Exchanging
    BY <1>1
<1> HIDE DEF T
<1> QED
    BY <1>1, <1>2, <1>3, ScreenCalm

\* The user swipes.
LEMMA SwipeCalm == ASSUME Inv, CalmInv, NEW u \in User, Swipe(u) PROVE CalmInv'
BY FindNextMatchCalm DEF Swipe

\* The report was submitted.
LEMMA SubmittedCalm ==
    ASSUME Inv, CalmInv, NEW u \in User, NEW t \in tasks[u], Submitted(u, t)
    PROVE  CalmInv'
<1>1. t.do = "submit" /\ t.do \notin Exchanging /\ Busy(u) /\ FindNextMatch(u, {t})
    BY DEF Submitted, Exchanging, Answering, Busy
<1> QED
    BY <1>1, FindNextMatchCalm

\* Of who swiped no peer connection has anything to do with a peer when the new
\* one takes its place.
LEMMA CreateCalm ==
    ASSUME Inv, CalmInv, NEW u \in User, NEW t \in tasks[u], Create(u, t)
    PROVE  CalmInv'
<1> DEFINE r == [phone[u] EXCEPT !.pc = t.pc]
           T == tasks[u] \ {t}
<1>1. /\ t.do = "create" /\ phone' = [phone EXCEPT ![u] = r]
      /\ tasks' = [tasks EXCEPT ![u] = T]
      /\ UNCHANGED <<pcs, server, down>>
    BY DEF Create, Ends
<1>2. /\ r.screen = phone[u].screen /\ r.pc = t.pc /\ r.remote = phone[u].remote
      /\ r.chan = phone[u].chan /\ r.pending = phone[u].pending
    BY PhoneTyped DEF PhoneOf
<1>3. /\ \A x \in T : x \in tasks[u]
      /\ \A x \in tasks[u] : x \in T \/ x = t
    OBVIOUS
<1> HIDE DEF r, T
<1>4. /\ phone'[u] = r /\ tasks'[u] = T /\ pcs'[u] = pcs[u]
      /\ conn'[u] = conn[u] /\ news'[u] = news[u] /\ up'[u] = up[u] /\ down'[u] = down[u]
      /\ waiting' = waiting
      /\ \A v \in User \ {u} : phone'[v] = phone[v] /\ tasks'[v] = tasks[v]
    BY <1>1, Domains DEF server, sockets
<1>5. t.do \notin Exchanging /\ Busy(u) /\ Does(u, "create")
    BY <1>1 DEF Exchanging, Answering, Busy, Does
<1>6. RemStays
    BY <1>1 DEF RemStays, Rem, PcIds
<1>7. OnlyUser(u)
    BY <1>1, <1>4 DEF OnlyUser, Same, server, sockets
<1>8. Net(u) /\ Held(u) /\ u \notin waiting /\ phone[u].chan # "connecting"
    BY <1>5 DEF CalmInv, Net, Fresh, Busy
<1>9. Exchange(u)' = Exchange(u)
    BY <1>3, <1>4, <1>5 DEF Exchange
<1>10. Loose(u)
    BY <1>2, <1>4, <1>5, <1>9 DEF Loose, Pends, sockets
<1>11. Net(u)'
    <2>1. \A x \in tasks'[u] : x.do \notin {"make", "reconnect"}
        BY <1>3, <1>4, <1>8 DEF Net
    <2> QED
        BY <1>2, <1>4, <1>8, <2>1 DEF Net
<1>12. t.pc \in DOMAIN pcs[u] /\ ~pcs[u][t.pc].gone
    BY <1>1 DEF Inv, Local, TaskInv, Working, Making
<1>13. \A n \in DOMAIN pcs[u] : pcs[u][n].gone \/ Blank(pcs[u][n])
    <2>1. Pc(u) = 0 \/ Blank(Cur(u))
        BY <1>5, <1>8 DEF Held
    <2>2. \A n \in DOMAIN pcs[u] : (~pcs[u][n].gone /\ ~Blank(pcs[u][n])) => n = Pc(u)
        BY <1>8 DEF Held
    <2> QED
        BY <2>1, <2>2, PhoneTyped DEF Cur
<1>14. Held(u)'
    <2>1. Pc(u)' = t.pc /\ Cur(u)' = pcs[u][t.pc] /\ Blank(pcs[u][t.pc])
        BY <1>2, <1>4, <1>12, <1>13 DEF Pc, Cur
    <2> QED
        BY <1>4, <1>13, <2>1 DEF Held, Blank
<1> QED
    BY <1>6, <1>7, <1>10, <1>11, <1>14, ByTheWay

\* Who is accepted has not been matched yet.
LEMMA AcceptCalm == ASSUME Inv, CalmInv, NEW u \in User, Accept(u) PROVE CalmInv'
<1> DEFINE r == [phone[u] EXCEPT !.chan = "open"]
<1>1. /\ phone[u].chan = "connecting" /\ phone' = [phone EXCEPT ![u] = r]
      /\ conn' = [conn EXCEPT ![u] = "open"] /\ waiting' = waiting \cup {u}
      /\ UNCHANGED <<pcs, tasks, news, up, down>>
    BY DEF Accept, Registered
<1>2. /\ r.screen = phone[u].screen /\ r.pc = Pc(u) /\ r.remote = phone[u].remote
      /\ r.chan = "open" /\ r.pending = phone[u].pending /\ r.ready = phone[u].ready
    BY PhoneTyped DEF PhoneOf, Pc
<1> HIDE DEF r
<1>3. /\ phone'[u] = r /\ tasks'[u] = tasks[u] /\ pcs'[u] = pcs[u]
      /\ conn'[u] = "open" /\ up'[u] = up[u] /\ down'[u] = down[u]
      /\ news'[u] = news[u] /\ Pends(u)' = Pends(u)
      /\ \A v \in User \ {u} : phone'[v] = phone[v] /\ conn'[v] = conn[v]
                               /\ (v \in waiting' <=> v \in waiting)
    BY <1>1, Domains DEF Pends
<1>4. RemStays
    BY <1>1 DEF RemStays, Rem, PcIds
<1>5. OnlyUser(u)
    BY <1>1, <1>3 DEF OnlyUser, Same
<1>6. Net(u) /\ Held(u) /\ Fresh(u)
    BY <1>1 DEF CalmInv, Net
<1>7. Pc(u)' = Pc(u) /\ Cur(u)' = Cur(u)
    BY <1>2, <1>3 DEF Pc, Cur
<1>8. Exchange(u)' = Exchange(u) /\ Exchange(u) = {}
    BY <1>3, <1>6 DEF Exchange, Fresh
<1>9. Loose(u)
    BY <1>1, <1>3, <1>8 DEF Loose, Steady
<1>10. Fresh(u)'
    BY <1>2, <1>3, <1>6, <1>7, <1>8 DEF Fresh, Listening, HasToken
<1>11. Net(u)'
    BY <1>2, <1>3, <1>6, <1>10 DEF Net
<1>12. Held(u)'
    <2>1. Does(u, "create")' => Does(u, "create")
        BY <1>3 DEF Does
    <2> QED
        BY <1>2, <1>3, <1>6, <1>7, <2>1 DEF Held
<1> QED
    BY <1>4, <1>5, <1>9, <1>11, <1>12, ByTheWay

\* Only what nobody hears any more is cleaned up.
LEMMA CleanupCalm == ASSUME Inv, CalmInv, NEW u \in User, Cleanup(u) PROVE CalmInv'
<1>1. Net(u) /\ Held(u) /\ conn[u] # "closing"
    BY DEF CalmInv, Net
<1>2. /\ phone[u].chan = "none" /\ up[u] = <<>>
      /\ conn' = [conn EXCEPT ![u] = "none"] /\ up' = [up EXCEPT ![u] = <<>>]
      /\ news' = [news EXCEPT ![u] = None]
      /\ waiting' = waiting \ {u} /\ UNCHANGED <<phone, pcs, tasks, down>>
    BY <1>1 DEF Cleanup
<1>3. /\ conn'[u] = "none" /\ up'[u] = up[u] /\ u \notin waiting'
      /\ phone'[u] = phone[u] /\ pcs'[u] = pcs[u] /\ tasks'[u] = tasks[u]
      /\ down'[u] = down[u] /\ news'[u] = None
      /\ \A v \in User \ {u} : conn'[v] = conn[v] /\ news'[v] = news[v] /\ up'[v] = up[v]
                               /\ (v \in waiting' <=> v \in waiting)
    BY <1>2, Domains
<1>4. RemStays
    BY <1>2 DEF RemStays, Rem, PcIds
<1>5. OnlyUser(u)
    BY <1>2, <1>3 DEF OnlyUser, Same
<1>6. Exchange(u)' = Exchange(u)
    BY <1>3 DEF Exchange
<1>7. Loose(u)
    BY <1>2, <1>3, <1>6 DEF Loose, Steady, Pends, sockets
<1>8. Net(u)'
    BY <1>1, <1>2, <1>3 DEF Net
<1>9. Held(u)'
    <2>1. Pc(u)' = Pc(u) /\ Cur(u)' = Cur(u)
        BY <1>3 DEF Pc, Cur
    <2>2. Does(u, "create")' => Does(u, "create")
        BY <1>3 DEF Does
    <2> QED
        BY <1>1, <1>3, <2>1, <2>2 DEF Held, Pends, sockets
<1> QED
    BY <1>4, <1>5, <1>7, <1>8, <1>9, ByTheWay

-----------------------------------------------------------------------------
\* What an exchange depends on in u's peer connections stays.
SameFields(u) ==
    /\ DOMAIN pcs'[u] = DOMAIN pcs[u]
    /\ \A k \in DOMAIN pcs[u] :
          /\ pcs'[u][k].sig = pcs[u][k].sig /\ pcs'[u][k].rem = pcs[u][k].rem
          /\ pcs'[u][k].gone = pcs[u][k].gone /\ pcs'[u][k].heard = pcs[u][k].heard
          /\ pcs'[u][k].added = pcs[u][k].added

\* Another field of a peer connection changes.
LEMMA FieldsStay ==
    ASSUME Inv, NEW u \in User, NEW n \in DOMAIN pcs[u], NEW r,
           pcs' = [pcs EXCEPT ![u][n] = r],
           r.sig = pcs[u][n].sig, r.rem = pcs[u][n].rem, r.gone = pcs[u][n].gone,
           r.heard = pcs[u][n].heard, r.added = pcs[u][n].added
    PROVE  SameFields(u) /\ \A v \in User \ {u} : pcs'[v] = pcs[v]
<1> DEFINE q == [pcs[u] EXCEPT ![n] = r]
<1>1. /\ DOMAIN q = DOMAIN pcs[u] /\ q[n] = r
      /\ \A k \in DOMAIN pcs[u] \ {n} : q[k] = pcs[u][k]
    OBVIOUS
<1>2. pcs' = [pcs EXCEPT ![u] = q]
    OBVIOUS
<1> HIDE DEF q
<1>3. pcs'[u] = q /\ \A v \in User \ {u} : pcs'[v] = pcs[v]
    BY <1>2, Domains
<1> QED
    BY <1>1, <1>3 DEF SameFields

\* So does what is applied, and of the current one.
LEMMA FieldsRem ==
    ASSUME Inv, NEW u \in User, SameFields(u), \A v \in User \ {u} : pcs'[v] = pcs[v]
    PROVE  RemStays
<1>1. \A k \in DOMAIN pcs[u] : pcs'[u][k].rem = pcs[u][k].rem
    BY DEF SameFields
<1>2. DOMAIN pcs'[u] = DOMAIN pcs[u]
    BY DEF SameFields
<1> QED
    BY <1>1, <1>2, RemsStay

\* And a phone of which nothing else changes goes on as it did.
LEMMA FieldsHeld ==
    ASSUME Inv, CalmInv, NEW u \in User, SameFields(u), Pc(u)' = Pc(u), tasks' = tasks,
           phone'[u].screen \in {phone[u].screen, "connected"},
           phone'[u].remote = phone[u].remote, phone'[u].pending = phone[u].pending,
           Pends(u)' \subseteq Pends(u)
    PROVE  /\ Held(u)'
           /\ Pc(u) # 0 => /\ (Cur(u).sig)' = Cur(u).sig /\ (Cur(u).rem)' = Cur(u).rem
                           /\ (Cur(u).heard)' = Cur(u).heard
                           /\ (Cur(u).added)' = Cur(u).added
<1>1. Pc(u) # 0 => Pc(u) \in DOMAIN pcs[u]
    BY PhoneTyped
<1>2. Pc(u) # 0 => /\ (Cur(u).sig)' = Cur(u).sig /\ (Cur(u).rem)' = Cur(u).rem
                   /\ (Cur(u).heard)' = Cur(u).heard
                   /\ (Cur(u).added)' = Cur(u).added
    BY <1>1 DEF SameFields, Cur
<1>3. Held(u)
    BY DEF CalmInv
<1>4. \A n \in DOMAIN pcs'[u] : (~pcs'[u][n].gone /\ ~Blank(pcs'[u][n])) => n = Pc(u)
    BY <1>3 DEF Held, SameFields, Blank
<1>5. (phone'[u].screen = "idle" \/ Does(u, "create")')
          => (phone[u].screen = "idle" \/ Does(u, "create"))
    BY DEF Does
<1>6. (phone'[u].screen = "idle" \/ Does(u, "create")') => (Pc(u) = 0 \/ Blank(Cur(u))')
    BY <1>2, <1>3, <1>5 DEF Held, Blank
<1>7. (Pc(u) # 0 /\ (Cur(u).rem)' # None) =>
          (Cur(u).heard)' \subseteq (Cur(u).added)' \cup phone'[u].pending
    BY <1>2, <1>3 DEF Held
<1>8. (Pc(u) # 0 /\ (Cur(u).sig)' = "local") =>
          phone'[u].remote # None /\ u < phone'[u].remote /\ Pends(u)' = {}
    BY <1>2, <1>3 DEF Held
<1> QED
    BY <1>2, <1>4, <1>6, <1>7, <1>8 DEF Held

\* A picture arrives only where a description was applied.
LEMMA TrackCalm ==
    ASSUME Inv, CalmInv, NEW u \in User, NEW n \in DOMAIN pcs[u], Track(u, n)
    PROVE  CalmInv'
<1> DEFINE p == pcs[u][n]
           changed == [p EXCEPT !.tracked = TRUE]
           r == [phone[u] EXCEPT !.screen = "connected"]
<1>1. p \in PcOf(PcIds)
    BY PhoneTyped
<1>2. /\ changed.sig = p.sig /\ changed.rem = p.rem /\ changed.gone = p.gone
      /\ changed.heard = p.heard /\ changed.added = p.added
    <2> HIDE DEF p
    <2> QED
        BY <1>1 DEF PcOf
<1>3. /\ r.screen = "connected" /\ r.pc = Pc(u) /\ r.remote = phone[u].remote
      /\ r.chan = phone[u].chan /\ r.pending = phone[u].pending
    BY PhoneTyped DEF PhoneOf, Pc
<1>4. /\ pcs' = [pcs EXCEPT ![u][n] = changed]
      /\ phone' = [phone EXCEPT ![u] = r]
      /\ ~p.gone /\ p.rem # None
      /\ UNCHANGED <<tasks, server, down>>
    BY DEF Track
<1> HIDE DEF changed, r
<1>5. /\ phone'[u] = r /\ Pc(u)' = Pc(u) /\ Pends(u)' = Pends(u)
      /\ \A v \in User \ {u} : phone'[v] = phone[v]
    BY <1>3, <1>4, Domains DEF Pc, Pends, server, sockets
<1>6. SameFields(u) /\ \A v \in User \ {u} : pcs'[v] = pcs[v]
    BY <1>2, <1>4, FieldsStay
<1>7. RemStays
    BY <1>6, FieldsRem
<1>8. OnlyUser(u)
    BY <1>4, <1>5, <1>6 DEF OnlyUser, Same, server, sockets
<1>9. Held(u)'
    BY <1>3, <1>4, <1>5, <1>6, FieldsHeld
<1>10. ~Listening(u)
    <2>1. n = Pc(u)
        BY <1>4 DEF CalmInv, Held, Blank
    <2> QED
        BY <1>4, <2>1 DEF Listening, Cur
<1>11. Loose(u)
    <2>1. Exchange(u)' = Exchange(u)
        BY <1>4 DEF Exchange
    <2> QED
        BY <1>3, <1>4, <1>5, <1>10, <2>1 DEF Loose, Steady, server
<1>12. Net(u)'
    <2>1. Net(u) /\ u \notin waiting /\ phone[u].chan # "connecting"
        BY <1>10 DEF CalmInv, Net, Fresh
    <2> QED
        BY <1>3, <1>4, <1>5, <2>1 DEF Net, server, sockets
<1> QED
    BY <1>7, <1>8, <1>9, <1>11, <1>12, ByTheWay

\* A phone to which nothing happens that an exchange depends on keeps what it
\* has in it.
LEMMA FieldsKeep ==
    ASSUME Inv, CalmInv, NEW u \in User, SameFields(u),
           UNCHANGED <<phone, tasks, sockets>>,
           Tokens(up'[u]) = Tokens(up[u]), Tidy(up'[u]),
           phone[u].chan # "open" => up'[u] = up[u],
           Tokens(down'[u]) = Tokens(down[u]), Tidy(down'[u]), Quiet(down'[u]),
           Told(down'[u]) = Told(down[u]), ToldOnce(down'[u]),
           phone[u].chan # "open" => down'[u] = down[u]
    PROVE  Keeps(u) /\ Net(u)' /\ Held(u)'
<1>1. Pc(u)' = Pc(u) /\ Pends(u)' = Pends(u)
    BY DEF Pc, Pends, sockets
<1>2. /\ Held(u)'
      /\ Pc(u) # 0 => /\ (Cur(u).sig)' = Cur(u).sig /\ (Cur(u).rem)' = Cur(u).rem
                      /\ (Cur(u).heard)' = Cur(u).heard
                      /\ (Cur(u).added)' = Cur(u).added
    BY <1>1, FieldsHeld
<1>3. Listening(u) => Listening(u)'
    BY <1>1, <1>2 DEF Listening
<1>4. Keeps(u)
    BY <1>1, <1>2, <1>3 DEF Keeps, Steady, sockets
<1>5. Net(u)
    BY DEF CalmInv
<1>6. Fresh(u) => Fresh(u)'
    <2>1. Exchange(u)' = Exchange(u)
        BY DEF Exchange
    <2>2. Listening(u) => Pc(u) # 0
        BY DEF Listening
    <2> QED
        BY <1>1, <1>2, <1>3, <2>1, <2>2 DEF Fresh, HasToken
<1>7. Net(u)'
    <2>1. conn'[u] = "none" => up'[u] = <<>>
        BY <1>5 DEF Net, sockets
    <2>2. phone'[u].chan # "open" => down'[u] = <<>>
        BY <1>5 DEF Net
    <2> QED
        BY <1>5, <1>6, <2>1, <2>2 DEF Net, sockets
<1> QED
    BY <1>2, <1>4, <1>7

\* A candidate is sent; it is no token.
LEMMA GatherCalm ==
    ASSUME Inv, CalmInv, NEW u \in User, NEW n \in DOMAIN pcs[u], Gather(u, n)
    PROVE  CalmInv'
<1> DEFINE p == pcs[u][n]
           changed == [p EXCEPT !.gather = "done"]
           m == Message(u, "ice_candidate", <<u, n>>)
<1>1. p \in PcOf(PcIds) /\ <<u, n>> \in PcIds
    BY PhoneTyped
<1>2. /\ changed.sig = p.sig /\ changed.rem = p.rem /\ changed.gone = p.gone
      /\ changed.heard = p.heard /\ changed.added = p.added
    <2> HIDE DEF p
    <2> QED
        BY <1>1 DEF PcOf
<1>3. m \in MessageOf(PcIds) /\ ~IsToken(m)
    <2>1. m \in MessageOf(PcIds)
        BY <1>1, MessageTyped DEF Made
    <2> QED
        BY <2>1 DEF Message, IsToken
<1>4. /\ pcs' = [pcs EXCEPT ![u][n] = changed]
      /\ up' = Sent(u, <<m>>)
      /\ UNCHANGED <<phone, tasks, sockets, down>>
    BY DEF Gather
<1> HIDE DEF changed, m
<1>5. SameFields(u) /\ \A v \in User \ {u} : pcs'[v] = pcs[v]
    BY <1>2, <1>4, FieldsStay
<1>6. Net(u)
    BY DEF CalmInv
<1>7. /\ Tokens(up'[u]) = Tokens(up[u]) /\ Tidy(up'[u])
      /\ phone[u].chan # "open" => up'[u] = up[u]
      /\ \A v \in User \ {u} : up'[v] = up[v]
    BY <1>3, <1>4, <1>6, SentKeeps DEF Net
<1>8. Keeps(u) /\ Net(u)' /\ Held(u)'
    BY <1>4, <1>5, <1>6, <1>7, FieldsKeep DEF Net
<1>9. RemStays
    BY <1>5, FieldsRem
<1>10. OnlyUser(u)
    BY <1>4, <1>5, <1>7 DEF OnlyUser, Same, Pends, sockets
<1> QED
    BY <1>8, <1>9, <1>10, ByTheWay

\* The other side is gone: only who shows a call leaves it.
LEMMA PeerGoneCalm ==
    ASSUME Inv, CalmInv, NEW u \in User, NEW n \in DOMAIN pcs[u], PeerGone(u, n)
    PROVE  CalmInv'
<1> DEFINE p == pcs[u][n]
           changed == [p EXCEPT !.failed = TRUE]
<1>1. p \in PcOf(PcIds)
    BY PhoneTyped
<1>2. /\ changed.sig = p.sig /\ changed.rem = p.rem /\ changed.gone = p.gone
      /\ changed.heard = p.heard /\ changed.added = p.added
    <2> HIDE DEF p
    <2> QED
        BY <1>1 DEF PcOf
<1>3. /\ \/ /\ pcs' = [pcs EXCEPT ![u][n] = changed]
            /\ UNCHANGED <<phone, down>>
         \/ phone[u].screen \notin {"idle", "matching"} /\ HangUp(u)
      /\ UNCHANGED <<tasks, server>>
    BY DEF PeerGone, Disconnects, NoCall
<1> HIDE DEF changed
<1>4. Net(u)
    BY DEF CalmInv
<1>5. CASE /\ pcs' = [pcs EXCEPT ![u][n] = changed]
           /\ UNCHANGED <<phone, down>>
    <2>1. SameFields(u) /\ \A v \in User \ {u} : pcs'[v] = pcs[v]
        BY <1>2, <1>5, FieldsStay
    <2>2. Keeps(u) /\ Net(u)' /\ Held(u)'
        BY <1>3, <1>4, <1>5, <2>1, FieldsKeep DEF Net, server, sockets
    <2>3. RemStays
        BY <2>1, FieldsRem
    <2>4. OnlyUser(u)
        BY <1>3, <1>5, <2>1 DEF OnlyUser, Same, server, sockets
    <2> QED
        BY <2>2, <2>3, <2>4, ByTheWay
<1>6. CASE phone[u].screen \notin {"idle", "matching"} /\ HangUp(u)
    BY <1>3, <1>4, <1>6, HangUpCalm DEF server, sockets, Net
<1> QED
    BY <1>3, <1>5, <1>6

\* A message is taken.
LEMMA TakenKeeps ==
    ASSUME Inv, CalmInv, NEW u \in User, phone[u].chan = "open", down[u] # <<>>,
           down' = Rest(u)
    PROVE  /\ down'[u] = Tail(down[u]) /\ Tidy(down'[u]) /\ Quiet(down'[u])
           /\ ~IsToken(Head(down[u])) => Tokens(down'[u]) = Tokens(down[u])
           /\ IsToken(Head(down[u])) =>
                 /\ Head(down[u]) \in Tokens(down[u])
                 /\ Tokens(down'[u]) = Tokens(down[u]) \ {Head(down[u])}
           /\ Told(down'[u]) \subseteq Told(down[u]) /\ ToldOnce(down'[u])
           /\ Head(down[u]).type # "match" => Told(down'[u]) = Told(down[u])
           /\ Head(down[u]).type = "match" =>
                 Head(down[u]).from \in Told(down[u]) /\ Told(down'[u]) = {}
           /\ Head(down[u]).type \notin {"closed", "server_shutdown"}
           /\ \A v \in User \ {u} : down'[v] = down[v]
<1>1. /\ down[u] \in Seq(HeardOf(PcIds)) /\ Tidy(down[u]) /\ Quiet(down[u])
      /\ ToldOnce(down[u])
    BY Domains DEF CalmInv, Net
<1>2. down'[u] = Tail(down[u]) /\ \A v \in User \ {u} : down'[v] = down[v]
    BY Domains DEF Rest
<1> QED
    BY <1>1, <1>2, TailOf

\* A phone hears that its peer has left.
LEMMA GetByeCalm == ASSUME Inv, CalmInv, NEW u \in User, GetBye(u) PROVE CalmInv'
<1>1. /\ phone[u].chan = "open" /\ down[u] # <<>> /\ Head(down[u]).type = "bye"
      /\ \/ phone[u].screen \notin {"idle", "matching"} /\ HangUp(u)
         \/ down' = Rest(u) /\ UNCHANGED <<phone, pcs>>
      /\ UNCHANGED <<tasks, server>>
    BY DEF GetBye, Gets, NoCall
<1>2. Net(u)
    BY DEF CalmInv
<1>3. CASE down' = Rest(u) /\ UNCHANGED <<phone, pcs>>
    <2>1. ~IsToken(Head(down[u]))
        BY <1>1 DEF IsToken
    <2>2. /\ Tokens(down'[u]) = Tokens(down[u]) /\ Tidy(down'[u]) /\ Quiet(down'[u])
          /\ Told(down'[u]) = Told(down[u]) /\ ToldOnce(down'[u])
          /\ \A v \in User \ {u} : down'[v] = down[v]
        BY <1>1, <1>3, <2>1, TakenKeeps
    <2>3. SameFields(u)
        BY <1>3 DEF SameFields
    <2>4. Keeps(u) /\ Net(u)' /\ Held(u)'
        BY <1>1, <1>2, <1>3, <2>2, <2>3, FieldsKeep DEF Net, server, sockets
    <2>5. RemStays
        BY <1>3 DEF RemStays, Rem, PcIds
    <2>6. OnlyUser(u)
        BY <1>1, <1>3, <2>2 DEF OnlyUser, Same, server, sockets
    <2> QED
        BY <2>4, <2>5, <2>6, ByTheWay
<1>4. CASE phone[u].screen \notin {"idle", "matching"} /\ HangUp(u)
    BY <1>1, <1>2, <1>4, HangUpCalm DEF server, sockets, Net
<1> QED
    BY <1>1, <1>3, <1>4

\* A candidate arrives: it is buffered, or added.
LEMMA GetCandidateCalm ==
    ASSUME Inv, CalmInv, NEW u \in User, GetCandidate(u)
    PROVE  CalmInv'
<1> DEFINE c == Head(down[u]).by
           add == phone[u].ready /\ Pc(u) # 0 /\ Rem(u, Pc(u)) # None
           q == [n \in DOMAIN pcs[u] |->
                   IF n = Pc(u) THEN Hearing(pcs[u][n], c, add) ELSE pcs[u][n]]
           r == [phone[u] EXCEPT !.pending = @ \cup {c}]
<1>1. /\ phone[u].chan = "open" /\ down[u] # <<>> /\ Head(down[u]).type = "ice_candidate"
      /\ pcs' = [pcs EXCEPT ![u] = q]
      /\ IF phone[u].ready \/ Pc(u) = 0 THEN UNCHANGED phone
         ELSE phone' = [phone EXCEPT ![u] = r]
      /\ down' = Rest(u) /\ UNCHANGED <<tasks, server>>
    BY DEF GetCandidate, Gets
<1>2. ~IsToken(Head(down[u]))
    BY <1>1 DEF IsToken
<1>3. /\ Tokens(down'[u]) = Tokens(down[u]) /\ Tidy(down'[u]) /\ Quiet(down'[u])
      /\ Told(down'[u]) = Told(down[u]) /\ ToldOnce(down'[u])
      /\ Pends(u)' = Pends(u)
      /\ \A v \in User \ {u} : down'[v] = down[v]
    BY <1>1, <1>2, TakenKeeps DEF Pends, server, sockets
<1>4. ASSUME NEW n \in DOMAIN pcs[u]
      PROVE  /\ n # Pc(u) => q[n] = pcs[u][n]
             /\ q[n].sig = pcs[u][n].sig /\ q[n].rem = pcs[u][n].rem
             /\ q[n].gone = pcs[u][n].gone
             /\ n = Pc(u) => /\ q[n].heard = pcs[u][n].heard \cup {c}
                             /\ pcs[u][n].added \subseteq q[n].added
                             /\ add => c \in q[n].added
    <2>1. pcs[u][n] \in PcOf(PcIds)
        BY PhoneTyped
    <2>2. ASSUME NEW p \in PcOf(PcIds)
          PROVE  /\ Hearing(p, c, add).sig = p.sig /\ Hearing(p, c, add).rem = p.rem
                 /\ Hearing(p, c, add).gone = p.gone
                 /\ Hearing(p, c, add).heard = p.heard \cup {c}
                 /\ p.added \subseteq Hearing(p, c, add).added
                 /\ add => c \in Hearing(p, c, add).added
        <3> HIDE DEF c, add
        <3> QED
            BY DEF Hearing, PcOf
    <2> QED
        BY <2>1, <2>2
<1>5. DOMAIN q = DOMAIN pcs[u]
    OBVIOUS
<1>6. /\ r.screen = phone[u].screen /\ r.pc = Pc(u) /\ r.remote = phone[u].remote
      /\ r.chan = phone[u].chan /\ r.ready = phone[u].ready
      /\ r.pending = phone[u].pending \cup {c}
    BY PhoneTyped DEF PhoneOf, Pc
<1>7. ~add => ~phone[u].ready \/ Pc(u) = 0 \/ Cur(u).rem = None
    BY DEF Rem, Cur
<1> HIDE DEF c, add, q, r
<1>8. pcs'[u] = q /\ (\A v \in User \ {u} : pcs'[v] = pcs[v])
    BY <1>1, Domains
<1>9. /\ \/ phone'[u] = r
         \/ phone'[u] = phone[u] /\ (phone[u].ready \/ Pc(u) = 0)
      /\ \A v \in User \ {u} : phone'[v] = phone[v]
    BY <1>1, Domains
<1>10. /\ phone'[u].screen = phone[u].screen /\ phone'[u].pc = Pc(u)
       /\ phone'[u].remote = phone[u].remote /\ phone'[u].chan = phone[u].chan
       /\ phone'[u].ready = phone[u].ready
       /\ phone[u].pending \subseteq phone'[u].pending
       /\ phone[u].ready \/ Pc(u) = 0 \/ c \in phone'[u].pending
       /\ Pc(u)' = Pc(u)
    BY <1>6, <1>9 DEF Pc
<1>11. RemStays
    BY <1>4, <1>5, <1>8, RemsStay
<1>12. OnlyUser(u)
    BY <1>1, <1>3, <1>8, <1>9 DEF OnlyUser, Same, server, sockets
<1>13. Pc(u) # 0 =>
          /\ (Cur(u).sig)' = Cur(u).sig /\ (Cur(u).rem)' = Cur(u).rem
          /\ (Cur(u).heard)' = Cur(u).heard \cup {c}
          /\ Cur(u).added \subseteq (Cur(u).added)'
          /\ add => c \in (Cur(u).added)'
    BY <1>4, <1>8, <1>10, PhoneTyped DEF Cur
<1>14. Listening(u) => Listening(u)'
    BY <1>10, <1>13 DEF Listening
<1>15. Keeps(u)
    BY <1>1, <1>3, <1>10, <1>13, <1>14 DEF Keeps, Steady, server, sockets
<1>16. Net(u)'
    <2>1. Net(u) /\ Exchange(u)' = Exchange(u)
        BY <1>1 DEF CalmInv, Exchange
    <2>2. Fresh(u) => Fresh(u)'
        BY <1>1, <1>3, <1>13, <1>14, <2>1 DEF Fresh, HasToken, server, Listening
    <2> QED
        BY <1>1, <1>3, <1>10, <2>1, <2>2 DEF Net, server, sockets
<1>17. Held(u)'
    <2>1. Held(u)
        BY DEF CalmInv
    <2>2. \A n \in DOMAIN pcs'[u] : (~pcs'[u][n].gone /\ ~Blank(pcs'[u][n])) => n = Pc(u)
        BY <1>4, <1>5, <1>8, <2>1 DEF Held, Blank
    <2>3. (phone'[u].screen = "idle" \/ Does(u, "create")') =>
              (Pc(u) = 0 \/ Blank(Cur(u))')
        BY <1>1, <1>10, <1>13, <2>1 DEF Held, Blank, Does
    <2>4. (Pc(u) # 0 /\ (Cur(u).rem)' # None) =>
              (Cur(u).heard)' \subseteq (Cur(u).added)' \cup phone'[u].pending
        BY <1>7, <1>10, <1>13, <2>1 DEF Held
    <2>5. (Pc(u) # 0 /\ (Cur(u).sig)' = "local") =>
              phone'[u].remote # None /\ u < phone'[u].remote /\ Pends(u)' = {}
        BY <1>3, <1>10, <1>13, <2>1 DEF Held
    <2> QED
        BY <1>10, <2>2, <2>3, <2>4, <2>5 DEF Held
<1> QED
    BY <1>11, <1>12, <1>15, <1>16, <1>17, ByTheWay

-----------------------------------------------------------------------------
(***************************************************************************)
(* The steps that hand on the baton.                                       *)
(***************************************************************************)
\* Whose task, message to the server, and message to a phone it is.
LEMMA TaskParty ==
    ASSUME Inv, CalmInv, NEW u \in User, NEW t \in tasks[u], t.do \in Exchanging
    PROVE  \E a, b \in User, p \in Phase :
               /\ Baton(a, b, p) /\ u \in Party(a, b, p)
               /\ \/ /\ u = a /\ t.pc = Pc(a)
                     /\ \/ p = 2 /\ t.do = "set_offer"
                        \/ p = 3 /\ t.do = "send_offer"
                        \/ p = 10 /\ t.do = "apply_answer" /\ Answers(t.by, a)
                  \/ /\ u = b
                     /\ \/ p = 6 /\ t.do = "apply_offer" /\ t.pc = Pc(b) /\ t.by = Id(a)
                        \/ p = 7 /\ t.do \in Answering /\ Answers(<<b, t.pc>>, a)
<1>1. t \in Exchange(u) /\ HasToken(u)
    BY DEF Exchange, HasToken
<1>2. PICK a \in User, b \in User, p \in Phase : Baton(a, b, p) /\ u \in Party(a, b, p)
    BY <1>1 DEF CalmInv, BatonInv
<1>3. Offerer(a, b, p) /\ Answerer(b, a, p)
    BY <1>2 DEF Baton
<1>4. CASE u = a
    <2>1. /\ t.pc = Pc(a)
          /\ \/ p = 2 /\ t.do = "set_offer"
             \/ p = 3 /\ t.do = "send_offer"
             \/ p = 10 /\ t.do = "apply_answer" /\ Answers(t.by, a)
        BY <1>1, <1>3, <1>4, OffererHas
    <2> QED
        BY <1>2, <1>4, <2>1
<1>5. CASE u = b /\ p <= 8
    <2>1. \/ p = 6 /\ t.do = "apply_offer" /\ t.pc = Pc(b) /\ t.by = Id(a)
          \/ p = 7 /\ t.do \in Answering /\ Answers(<<b, t.pc>>, a)
        BY <1>1, <1>3, <1>5, AnswererHas
    <2> QED
        BY <1>2, <1>5, <2>1
<1> QED
    BY <1>2, <1>4, <1>5 DEF Party

\* Whose a token in a sequence of messages is: one on its way to the server,
LEMMA UpParty ==
    ASSUME Inv, CalmInv, NEW u \in User, NEW m \in Tokens(up[u])
    PROVE  \E a, b \in User, p \in Phase :
               /\ Baton(a, b, p) /\ u \in Party(a, b, p)
               /\ \/ u = a /\ p = 4 /\ m = Offered(a, b)
                  \/ u = b /\ p = 8 /\ IsAnswer(m, a) /\ m.to \in {a, None}
<1>1. HasToken(u)
    BY DEF HasToken
<1>2. PICK a \in User, b \in User, p \in Phase : Baton(a, b, p) /\ u \in Party(a, b, p)
    BY <1>1 DEF CalmInv, BatonInv
<1>3. Offerer(a, b, p) /\ Answerer(b, a, p)
    BY <1>2 DEF Baton
<1>4. CASE u = a
    <2>1. p = 4 /\ m = Offered(a, b)
        BY <1>3, <1>4, OffererHas
    <2> QED
        BY <1>2, <1>4, <2>1
<1>5. CASE u = b /\ p <= 8
    <2>1. p = 8 /\ IsAnswer(m, a) /\ m.to \in {a, None}
        BY <1>3, <1>5, AnswererHas
    <2> QED
        BY <1>2, <1>5, <2>1
<1> QED
    BY <1>2, <1>4, <1>5 DEF Party

\* and one on its way to a phone.
LEMMA DownParty ==
    ASSUME Inv, CalmInv, NEW u \in User, NEW m \in Tokens(down[u])
    PROVE  \E a, b \in User, p \in Phase :
               /\ Baton(a, b, p) /\ u \in Party(a, b, p)
               /\ \/ u = a /\ p = 9 /\ IsAnswer(m, a)
                  \/ u = b /\ p = 5 /\ m = Offered(a, b)
<1>1. HasToken(u)
    BY DEF HasToken
<1>2. PICK a \in User, b \in User, p \in Phase : Baton(a, b, p) /\ u \in Party(a, b, p)
    BY <1>1 DEF CalmInv, BatonInv
<1>3. Offerer(a, b, p) /\ Answerer(b, a, p)
    BY <1>2 DEF Baton
<1>4. CASE u = a
    <2>1. p = 9 /\ IsAnswer(m, a)
        BY <1>3, <1>4, OffererHas
    <2> QED
        BY <1>2, <1>4, <2>1
<1>5. CASE u = b /\ p <= 8
    <2>1. p = 5 /\ m = Offered(a, b)
        BY <1>3, <1>5, AnswererHas
    <2> QED
        BY <1>2, <1>5, <2>1
<1> QED
    BY <1>2, <1>4, <1>5 DEF Party

\* A match with a higher peer, that the phone has not handled, begins an exchange.
LEMMA PendsParty ==
    ASSUME Inv, CalmInv, NEW u \in User, NEW v \in Pends(u), u < v
    PROVE  1 \in Phase /\ v \in User /\ Baton(u, v, 1)
<1>1. HasToken(u)
    BY DEF HasToken
<1>2. PICK a \in User, b \in User, p \in Phase : Baton(a, b, p) /\ u \in Party(a, b, p)
    BY <1>1 DEF CalmInv, BatonInv
<1>3. Offerer(a, b, p) /\ Answerer(b, a, p) /\ a < b
    BY <1>2, SteadyParties DEF Baton
<1>4. CASE u = a
    <2>1. p = 1 /\ v = b
        BY <1>3, <1>4, OffererHas
    <2> QED
        BY <1>2, <1>4, <2>1
<1>5. CASE u = b /\ p <= 8
    <2>1. v = a
        BY <1>3, <1>5, AnswererHas
    <2>2. a \in Nat /\ b \in Nat
        BY SignalingAssumption
    <2> QED
        BY <1>3, <1>5, <2>1, <2>2
<1> QED
    BY <1>2, <1>4, <1>5 DEF Party

\* What is left of the matches of u when its phone takes a message.
LEMMA TakenPends ==
    ASSUME Inv, CalmInv, NEW u \in User, phone[u].chan = "open", down[u] # <<>>,
           down' = Rest(u), news'[u] = news[u]
    PROVE  /\ Pends(u)' \subseteq Pends(u)
           /\ Head(down[u]).type # "match" => Pends(u)' = Pends(u)
           /\ Head(down[u]).type = "match" =>
                 Head(down[u]).from \in Pends(u) /\ Pends(u)' = {}
<1>1. /\ Told(down'[u]) \subseteq Told(down[u])
      /\ Head(down[u]).type # "match" => Told(down'[u]) = Told(down[u])
      /\ Head(down[u]).type = "match" =>
            Head(down[u]).from \in Told(down[u]) /\ Told(down'[u]) = {}
    BY TakenKeeps
<1>2. news[u] # None => Told(down[u]) = {}
    BY DEF CalmInv, Net
<1> QED
    BY <1>1, <1>2 DEF Pends

\* The offerer moves.
LEMMA OffererMoves ==
    ASSUME Inv, CalmInv, NEW a \in User, NEW b \in User, NEW p \in Phase,
           Baton(a, b, p), NEW r \in Phase,
           (p <= 4 /\ r <= 4) \/ (p = 9 /\ r = 10),
           OnlyUser(a), RemStays, Pc(a)' = Pc(a), Net(a)', Held(a)', Offerer(a, b, r)'
    PROVE  CalmInv'
<1>1. RemGrows /\ Fit'
    BY FitStays DEF RemStays, RemGrows, CalmInv
<1>2. a # b /\ Answerer(b, a, p)
    BY SteadyParties DEF Baton
<1>3. Keeps(b)
    BY <1>2, SameKeeps DEF OnlyUser
<1>4. Answerer(b, a, r)'
    <2>1. CASE p <= 4 /\ r <= 4
        <3>1. /\ p <= 6 /\ r <= 6 /\ p <= 5 /\ r <= 5 /\ p # 5 /\ r # 5
              /\ p <= 8 /\ r <= 8
              /\ r \notin {6, 7, 8} /\ r # 6 /\ r # 7 /\ r # 8
            BY <2>1 DEF Phase
        <3>2. Answerer(b, a, r)
            BY <1>2, <3>1 DEF Answerer
        <3> QED
            BY <1>1, <1>3, <3>1, <3>2, AnswererKept
    <2>2. CASE p = 9 /\ r = 10
        BY <2>2 DEF Answerer
    <2> QED
        BY <2>1, <2>2
<1>5. Baton(a, b, r)' /\ Party(a, b, p) \subseteq Party(a, b, r) /\ a \in Party(a, b, p)
    BY <1>4 DEF Baton, Party, Phase
<1> QED
    BY <1>1, <1>5, HandedOn

\* The answerer moves.
LEMMA AnswererMoves ==
    ASSUME Inv, CalmInv, NEW a \in User, NEW b \in User, NEW p \in Phase,
           Baton(a, b, p), NEW r \in Phase,
           (p = r /\ p <= 8) \/ (p \in 5 .. 8 /\ r \in 5 .. 8),
           OnlyUser(b), RemGrows, Fit', Net(b)', Held(b)', Answerer(b, a, r)'
    PROVE  CalmInv'
<1>1. a # b /\ Offerer(a, b, p)
    BY SteadyParties DEF Baton
<1>2. Keeps(a)
    BY <1>1, SameKeeps DEF OnlyUser
<1>3. Offerer(a, b, r)
    <2>1. CASE p = r
        BY <1>1, <2>1
    <2>2. CASE p \in 5 .. 8 /\ r \in 5 .. 8
        <3>1. /\ p \notin {1, 2, 3, 4, 9, 10} /\ r \notin {1, 2, 3, 4, 9, 10}
              /\ ~(p <= 2) /\ ~(r <= 2)
            BY <2>2
        <3> QED
            BY <1>1, <3>1 DEF Offerer
    <2> QED
        BY <2>1, <2>2
<1>4. Offerer(a, b, r)'
    BY <1>2, <1>3, OffererKept
<1>5. Baton(a, b, r)' /\ Party(a, b, p) \subseteq Party(a, b, r) /\ b \in Party(a, b, p)
    BY <1>4 DEF Baton, Party, Phase
<1> QED
    BY <1>5, HandedOn

\* While the answer is made.
LEMMA Making7 ==
    ASSUME NEW a \in User, NEW b \in User, Baton(a, b, 7)
    PROVE  /\ \E t : Exchange(b) = {t}
           /\ Tokens(up[b]) = {} /\ Tokens(down[b]) = {} /\ a # b
           /\ Pends(b) \subseteq {a}
           /\ phone[b].chan = "open" => phone[b].remote \in {a, None}
<1>1. 7 \in Phase
    BY DEF Phase
<1>2. Answerer(b, a, 7) /\ a # b
    BY <1>1, SteadyParties DEF Baton
<1>3. 7 <= 8
    OBVIOUS
<1>4. Pends(b) \subseteq {a}
    BY <1>2, <1>3 DEF Answerer
<1>5. /\ \E t : Exchange(b) = {t} /\ t.do \in Answering
                          /\ Answers(<<b, t.pc>>, a)
      /\ Tokens(up[b]) = {}
      /\ phone[b].chan = "open" => phone[b].remote \in {a, None}
    BY <1>2, Zenon DEF Answerer
<1>6. 7 \in {6, 7, 8} => Tokens(down[b]) = {}
    BY <1>2, Zenon DEF Answerer
<1> QED
    BY <1>2, <1>4, <1>5, <1>6

\* The exchange ends with the answerer: its answer is not made, or not sent.
LEMMA AnswerLost ==
    ASSUME Inv, CalmInv, NEW a \in User, NEW b \in User, Baton(a, b, 7),
           OnlyUser(b), RemStays, Net(b)', Held(b)', Exchange(b)' = {},
           Tokens(up'[b]) = {}, Tokens(down'[b]) = {}, Pends(b)' \subseteq Pends(b)
    PROVE  CalmInv'
<1>1. RemGrows /\ Fit'
    BY FitStays DEF RemStays, RemGrows, CalmInv
<1>2. 7 \in Phase /\ Party(a, b, 7) = {a, b} /\ a # b /\ Offerer(a, b, 7)
    <2>1. 7 \in Phase
        BY DEF Phase
    <2> QED
        BY <2>1, SteadyParties DEF Party, Baton
<1>3. ~HasToken(a)
    BY <1>2, OffererHas DEF HasToken
<1>4. ~HasToken(a)'
    BY <1>2, <1>3 DEF OnlyUser, Same, HasToken, Exchange, Pends
<1>5. ~HasToken(b)'
    <2>1. \A v \in Pends(b)' : v = a
        BY DEF Baton, Answerer
    <2>2. a < b /\ a \in Nat /\ b \in Nat
        BY <1>2, SteadyParties, SignalingAssumption
    <2>3. \A v \in Pends(b)' : ~(b < v)
        BY <2>1, <2>2
    <2> QED
        BY <2>3 DEF HasToken
<1> QED
    BY <1>1, <1>2, <1>4, <1>5, HandedOn

\* u takes a message; its peer is remote then, and its tasks are T.
Takes(u, remote, T) ==
    /\ down[u] # <<>> /\ down' = Rest(u)
    /\ phone' = [phone EXCEPT ![u].remote = remote]
    /\ tasks' = [tasks EXCEPT ![u] = T]
    /\ UNCHANGED <<pcs, server>>

\* A phone that is told of its match takes a message of the exchange.
LEMMA SteadyTakes ==
    ASSUME Inv, CalmInv, NEW u \in User, Steady(u), NEW remote, NEW T,
           Takes(u, remote, T),
           \A t \in T : t.do \in {"set_offer", "apply_offer", "apply_answer"},
           Cur(u).sig = "stable" \/ remote = phone[u].remote
    PROVE  /\ phone'[u].remote = remote /\ tasks'[u] = T /\ up'[u] = up[u]
           /\ Pc(u)' = Pc(u) /\ Cur(u)' = Cur(u) /\ Pends(u)' \subseteq Pends(u)
           /\ OnlyUser(u) /\ RemStays /\ Steady(u)' /\ Net(u)' /\ Held(u)'
<1> DEFINE r == [phone[u] EXCEPT !.remote = remote]
<1>1. /\ r.screen = phone[u].screen /\ r.pc = Pc(u) /\ r.remote = remote
      /\ r.chan = phone[u].chan /\ r.pending = phone[u].pending
      /\ r.ready = phone[u].ready
    BY PhoneTyped DEF PhoneOf, Pc
<1>2. /\ phone' = [phone EXCEPT ![u] = r]
      /\ tasks' = [tasks EXCEPT ![u] = T] /\ down[u] # <<>> /\ down' = Rest(u)
      /\ UNCHANGED <<pcs, server>>
    BY DEF Takes
<1> HIDE DEF r
<1>3. phone'[u] = r
    BY <1>2, Domains
<1>4. /\ phone'[u].screen = phone[u].screen /\ phone'[u].pc = Pc(u)
      /\ phone'[u].remote = remote
      /\ phone'[u].chan = phone[u].chan /\ phone'[u].pending = phone[u].pending
      /\ phone'[u].ready = phone[u].ready
    BY <1>1, <1>3 DEF Pc
<1>5. /\ tasks'[u] = T /\ up'[u] = up[u]
      /\ \A v \in User \ {u} : phone'[v] = phone[v] /\ tasks'[v] = tasks[v]
    BY <1>2, Domains DEF server, sockets
<1>6. Pc(u)' = Pc(u) /\ Cur(u)' = Cur(u)
    BY <1>2, <1>4 DEF Pc, Cur
<1>7. /\ Tidy(down'[u]) /\ Quiet(down'[u]) /\ ToldOnce(down'[u])
      /\ Told(down'[u]) \subseteq Told(down[u]) /\ Pends(u)' \subseteq Pends(u)
      /\ \A v \in User \ {u} : down'[v] = down[v]
      /\ phone[u].chan = "open"
    <2>1. phone[u].chan = "open" /\ news'[u] = news[u]
        BY <1>2 DEF Steady, server, sockets
    <2> QED
        BY <1>2, <2>1, TakenKeeps, TakenPends
<1>8. OnlyUser(u)
    BY <1>2, <1>5, <1>7 DEF OnlyUser, Same, server, sockets
<1>9. RemStays
    BY <1>2 DEF RemStays, Rem, PcIds
<1>10. Steady(u)'
    BY <1>2, <1>4, <1>6 DEF Steady, Listening, server, sockets
<1>11. Net(u)'
    <2>1. Net(u) /\ u \notin waiting /\ phone[u].chan # "connecting"
        BY <1>7 DEF CalmInv, Steady
    <2>2. \A t \in tasks'[u] : t.do \notin {"make", "reconnect"}
        BY <1>5
    <2> QED
        BY <1>2, <1>4, <1>5, <1>7, <2>1, <2>2 DEF Net, server, sockets
<1>12. Held(u)'
    <2>1. Held(u) /\ phone[u].screen = "matching" /\ Cur(u).rem = None
        BY DEF CalmInv, Steady, Listening
    <2>2. ~Does(u, "create")'
        BY <1>5 DEF Does
    <2> QED
        BY <1>2, <1>4, <1>6, <1>7, <2>1, <2>2 DEF Held
<1> QED
    BY <1>4, <1>5, <1>6, <1>7, <1>8, <1>9, <1>10, <1>11, <1>12

\* The match arrives at the offerer, which begins to make its offer.
LEMMA OffererTold ==
    ASSUME Inv, CalmInv, NEW a \in User, NEW b \in User, GetMatch(a),
           Head(down[a]).from = b, a < b, Baton(a, b, 1), 1 \in Phase
    PROVE  CalmInv'
<1>1. /\ phone[a].chan = "open" /\ down[a] # <<>> /\ Head(down[a]).type = "match"
      /\ phone' = [phone EXCEPT ![a].remote = b]
      /\ Pc(a) # 0 => Begins(a, "set_offer", Pc(a), None)
      /\ down' = Rest(a) /\ UNCHANGED <<pcs, server>>
    BY DEF GetMatch, Gets, IsOfferer
<1>2. /\ Steady(a) /\ Pc(a) # 0 /\ tasks[a] = {} /\ Tokens(down[a]) = {}
      /\ Cur(a).sig = "stable" /\ Tokens(up[a]) = {}
    BY DEF Baton, Offerer, Steady, Listening
<1> DEFINE T == {Task("set_offer", Pc(a), None)}
<1>3. tasks' = [tasks EXCEPT ![a] = T]
    BY <1>1, <1>2 DEF Begins
<1>4. \A t \in T : t.do \in {"set_offer", "apply_offer", "apply_answer"}
    BY DEF Task
<1> HIDE DEF T
<1>5. /\ phone'[a].remote = b /\ tasks'[a] = T /\ up'[a] = up[a]
      /\ Pc(a)' = Pc(a) /\ Cur(a)' = Cur(a)
      /\ OnlyUser(a) /\ RemStays /\ Steady(a)' /\ Net(a)' /\ Held(a)'
    <2>1. Takes(a, b, T)
        BY <1>1, <1>3 DEF Takes
    <2> QED
        BY <1>2, <1>4, <2>1, SteadyTakes
<1>6. Tokens(down'[a]) = {}
    BY <1>1, <1>2, TakenKeeps DEF IsToken
<1>7. Pends(a)' = {}
    <2>1. news'[a] = news[a]
        BY <1>1 DEF server, sockets
    <2> QED
        BY <1>1, <2>1, TakenPends
<1>8. Offerer(a, b, 2)'
    BY <1>2, <1>5, <1>6, <1>7 DEF Offerer, T
<1>9. 2 \in Phase
    BY DEF Phase
<1> QED
    BY <1>5, <1>8, <1>9, OffererMoves

\* At another phone it only says who the peer is, whatever the phone does by now.
LEMMA OtherTold ==
    ASSUME Inv, CalmInv, NEW u \in User, NEW v \in Pends(u), ~(u < v),
           phone[u].chan = "open", down[u] # <<>>, Head(down[u]).type = "match",
           phone' = [phone EXCEPT ![u].remote = v],
           down' = Rest(u), UNCHANGED <<pcs, tasks, server>>
    PROVE  CalmInv'
<1> DEFINE r == [phone[u] EXCEPT !.remote = v]
<1>1. /\ r.screen = phone[u].screen /\ r.pc = Pc(u) /\ r.remote = v
      /\ r.chan = phone[u].chan /\ r.pending = phone[u].pending
      /\ r.ready = phone[u].ready
    BY PhoneTyped DEF PhoneOf, Pc
<1>2. phone' = [phone EXCEPT ![u] = r]
    OBVIOUS
<1> HIDE DEF r
<1>3. /\ phone'[u].screen = phone[u].screen /\ phone'[u].pc = Pc(u)
      /\ phone'[u].remote = v /\ phone'[u].chan = phone[u].chan
      /\ phone'[u].pending = phone[u].pending /\ phone'[u].ready = phone[u].ready
      /\ \A w \in User \ {u} : phone'[w] = phone[w]
    BY <1>1, <1>2, Domains
<1>4. Pc(u)' = Pc(u) /\ Cur(u)' = Cur(u) /\ tasks'[u] = tasks[u] /\ up'[u] = up[u]
      /\ news'[u] = news[u]
    BY <1>3 DEF Pc, Cur, server, sockets
<1>5. /\ Tidy(down'[u]) /\ Quiet(down'[u]) /\ ToldOnce(down'[u])
      /\ Told(down'[u]) = {} /\ Tokens(down'[u]) = Tokens(down[u])
      /\ \A w \in User \ {u} : down'[w] = down[w]
    BY TakenKeeps DEF IsToken
<1>6. Pends(u)' = {}
    BY <1>4, TakenPends
<1>7. OnlyUser(u) /\ RemStays
    BY <1>3, <1>5 DEF OnlyUser, Same, RemStays, Rem, PcIds, server, sockets
<1>8. Keeps(u)
    <2>1. Steady(u) => Steady(u)'
        BY <1>3, <1>4 DEF Steady, Listening, server, sockets
    <2> QED
        BY <1>3, <1>4, <1>5, <1>6, <2>1 DEF Keeps
<1>9. Net(u) /\ Held(u) /\ u \notin waiting /\ phone[u].chan # "connecting"
    BY DEF CalmInv, Net, Fresh
<1>10. Net(u)'
    BY <1>3, <1>4, <1>5, <1>9 DEF Net, server, sockets
<1>11. Held(u)'
    <2>1. Does(u, "create")' = Does(u, "create")
        BY <1>4 DEF Does
    <2>2. ~(Pc(u) # 0 /\ Cur(u).sig = "local")
        BY <1>9 DEF Held
    <2> QED
        BY <1>3, <1>4, <1>9, <2>1, <2>2 DEF Held
<1> QED
    BY <1>7, <1>8, <1>10, <1>11, ByTheWay

\* The match arrives.
LEMMA GetMatchCalm == ASSUME Inv, CalmInv, NEW u \in User, GetMatch(u) PROVE CalmInv'
<1>1. PICK v : v = Head(down[u]).from
    OBVIOUS
<1>2. /\ phone[u].chan = "open" /\ down[u] # <<>> /\ Head(down[u]).type = "match"
      /\ phone' = [phone EXCEPT ![u].remote = v]
      /\ ~(u < v) => UNCHANGED tasks
      /\ down' = Rest(u) /\ UNCHANGED <<pcs, server>>
    BY <1>1 DEF GetMatch, Gets, IsOfferer
<1>3. v \in Pends(u)
    <2>1. news'[u] = news[u]
        BY <1>2 DEF server, sockets
    <2> QED
        BY <1>1, <1>2, <2>1, TakenPends
<1>4. CASE u < v
    BY <1>1, <1>3, <1>4, PendsParty, OffererTold
<1>5. CASE ~(u < v)
    BY <1>2, <1>3, <1>5, OtherTold
<1> QED
    BY <1>4, <1>5

\* The offer arrives.
LEMMA GetOfferCalm == ASSUME Inv, CalmInv, NEW u \in User, GetOffer(u) PROVE CalmInv'
<1> DEFINE m == Head(down[u])
<1>1. /\ phone[u].chan = "open" /\ down[u] # <<>> /\ m.type = "offer"
      /\ phone' = [phone EXCEPT ![u].remote = m.from]
      /\ Pc(u) # 0 => Begins(u, "apply_offer", Pc(u), m.by) /\ UNCHANGED pcs
      /\ down' = Rest(u) /\ UNCHANGED server
    BY DEF GetOffer, Gets
<1> HIDE DEF m
<1>2. /\ m \in Tokens(down[u]) /\ Tokens(down'[u]) = Tokens(down[u]) \ {m}
    BY <1>1, TakenKeeps DEF IsToken, m
<1>3. PICK a \in User, b \in User, p \in Phase :
          /\ Baton(a, b, p) /\ u \in Party(a, b, p)
          /\ \/ u = a /\ p = 9 /\ IsAnswer(m, a)
             \/ u = b /\ p = 5 /\ m = Offered(a, b)
    BY <1>2, DownParty
<1>4. u = b /\ p = 5 /\ m = Offered(a, b)
    BY <1>1, <1>3 DEF IsAnswer
<1>5. /\ Steady(b) /\ tasks[b] = {} /\ Cur(b).sig = "stable"
      /\ Tokens(up[b]) = {} /\ Tokens(down[b]) \subseteq {Offered(a, b)}
      /\ Pc(b) # 0 /\ a # b /\ Pends(b) \subseteq {a}
    <2>1. Answerer(b, a, 5) /\ a # b
        BY <1>3, <1>4, SteadyParties DEF Baton
    <2> QED
        BY <2>1 DEF Answerer, Steady, Listening
<1> DEFINE T == {Task("apply_offer", Pc(b), Id(a))}
<1>6. Takes(b, a, T)
    <2>1. m.from = a /\ m.by = Id(a)
        BY <1>4 DEF Offered
    <2>2. Begins(b, "apply_offer", Pc(b), Id(a)) /\ UNCHANGED pcs
        BY <1>1, <1>4, <1>5, <2>1
    <2> QED
        BY <1>1, <1>4, <1>5, <2>1, <2>2 DEF Begins, Takes
<1>7. \A t \in T : t.do \in {"set_offer", "apply_offer", "apply_answer"}
    BY DEF Task
<1> HIDE DEF T
<1>8. /\ phone'[b].remote = a /\ tasks'[b] = T /\ up'[b] = up[b]
      /\ Pc(b)' = Pc(b) /\ Cur(b)' = Cur(b) /\ Pends(b)' \subseteq Pends(b)
      /\ OnlyUser(b) /\ RemStays /\ Steady(b)' /\ Net(b)' /\ Held(b)'
    BY <1>5, <1>6, <1>7, SteadyTakes
<1>9. Tokens(down'[b]) = {}
    BY <1>2, <1>4, <1>5
<1>10. Id(a)' = Id(a)
    BY <1>5, <1>8 DEF OnlyUser, Same, Id, Pc
<1>11. Answerer(b, a, 6)'
    BY <1>5, <1>8, <1>9, <1>10 DEF Answerer, T
<1>12. RemGrows /\ Fit' /\ 5 \in Phase /\ 6 \in Phase /\ 5 \in 5 .. 8 /\ 6 \in 5 .. 8
    BY <1>8, FitStays DEF RemStays, RemGrows, CalmInv, Phase
<1> QED
    BY <1>3, <1>4, <1>8, <1>11, <1>12, AnswererMoves

\* The answer arrives.
LEMMA GetAnswerCalm == ASSUME Inv, CalmInv, NEW u \in User, GetAnswer(u) PROVE CalmInv'
<1>0. PICK m : m = Head(down[u])
    OBVIOUS
<1>1. /\ phone[u].chan = "open" /\ down[u] # <<>> /\ m.type = "answer"
      /\ Pc(u) # 0 => Begins(u, "apply_answer", Pc(u), m.by)
      /\ down' = Rest(u) /\ UNCHANGED <<phone, pcs, server>>
    BY <1>0 DEF GetAnswer, Gets
<1>2. /\ m \in Tokens(down[u]) /\ Tokens(down'[u]) = Tokens(down[u]) \ {m}
    BY <1>0, <1>1, TakenKeeps DEF IsToken
<1>3. PICK a \in User, b \in User, p \in Phase :
          /\ Baton(a, b, p) /\ u \in Party(a, b, p)
          /\ \/ u = a /\ p = 9 /\ IsAnswer(m, a)
             \/ u = b /\ p = 5 /\ m = Offered(a, b)
    BY <1>2, DownParty
<1>4. u = a /\ p = 9 /\ IsAnswer(m, a)
    BY <1>1, <1>3 DEF Offered
<1>5. /\ Steady(a) /\ tasks[a] = {} /\ Cur(a).sig = "local" /\ phone[a].remote = b
      /\ Tokens(up[a]) = {} /\ Tokens(down[a]) = {m} /\ Pc(a) # 0 /\ a < b
      /\ Pends(a) = {}
    <2>1. Offerer(a, b, 9)
        BY <1>3, <1>4 DEF Baton
    <2> QED
        BY <1>2, <1>4, <2>1 DEF Offerer, Steady, Listening
<1>17. PICK s : s = Task("apply_answer", Pc(a), m.by)
    OBVIOUS
<1> DEFINE T == {s}
<1>6. Takes(a, b, T)
    <2>1. phone[a] = [phone[a] EXCEPT !.remote = b]
        BY <1>5, PhoneTyped DEF PhoneOf
    <2>2. phone = [phone EXCEPT ![a] = phone[a]]
        BY StaysSame
    <2>3. phone' = [phone EXCEPT ![a].remote = b]
        BY <1>1, <2>1, <2>2
    <2>4. tasks' = [tasks EXCEPT ![a] = T]
        BY <1>1, <1>4, <1>5, <1>17 DEF Begins
    <2> QED
        BY <1>1, <1>4, <2>3, <2>4 DEF Takes
<1>7. /\ s.do = "apply_answer" /\ s.pc = Pc(a) /\ s.by = m.by
      /\ \A t \in T : t.do \in {"set_offer", "apply_offer", "apply_answer"}
    BY <1>17 DEF Task
<1>8. T = {s}
    OBVIOUS
<1> HIDE DEF T
<1>9. /\ phone'[a].remote = b /\ tasks'[a] = T /\ up'[a] = up[a]
      /\ Pc(a)' = Pc(a) /\ Cur(a)' = Cur(a) /\ Pends(a)' \subseteq Pends(a)
      /\ OnlyUser(a) /\ RemStays /\ Steady(a)' /\ Net(a)' /\ Held(a)'
    BY <1>5, <1>6, <1>7, SteadyTakes
<1>10. Tokens(down'[a]) = {}
    BY <1>2, <1>4, <1>5
<1>11. Answers(m.by, a)'
    <2>1. RemGrows
        BY <1>9 DEF RemStays, RemGrows
    <2> QED
        BY <1>4, <1>9, <2>1, AnswersStay DEF IsAnswer
<1>12. Offerer(a, b, 10)'
    BY <1>5, <1>7, <1>8, <1>9, <1>10, <1>11 DEF Offerer
<1>13. 9 \in Phase /\ 10 \in Phase
    BY DEF Phase
<1> QED
    BY <1>3, <1>4, <1>9, <1>12, <1>13, OffererMoves

-----------------------------------------------------------------------------
\* One peer connection of u becomes r.
PcTurns(u, n, r) == pcs' = [pcs EXCEPT ![u][n] = r]

\* Peer connection n of u becomes r.
LEMMA PcSet ==
    ASSUME Inv, NEW u \in User, NEW n \in DOMAIN pcs[u], NEW r, PcTurns(u, n, r)
    PROVE  /\ pcs'[u][n] = r /\ DOMAIN pcs'[u] = DOMAIN pcs[u]
           /\ \A k \in DOMAIN pcs[u] \ {n} : pcs'[u][k] = pcs[u][k]
           /\ \A v \in User \ {u} : pcs'[v] = pcs[v]
           /\ PcIds' = PcIds
<1> DEFINE q == [pcs[u] EXCEPT ![n] = r]
<1>1. /\ DOMAIN q = DOMAIN pcs[u] /\ q[n] = r
      /\ \A k \in DOMAIN pcs[u] \ {n} : q[k] = pcs[u][k]
    OBVIOUS
<1>2. pcs' = [pcs EXCEPT ![u] = q]
    BY DEF PcTurns
<1> HIDE DEF q
<1>3. pcs'[u] = q /\ \A v \in User \ {u} : pcs'[v] = pcs[v]
    BY <1>2, Domains
<1>4. PcIds' = PcIds
    BY <1>1, <1>3 DEF PcIds
<1> QED
    BY <1>1, <1>3, <1>4

\* What the engine makes of it.
LEMMA SetFields ==
    ASSUME Inv, NEW u \in User, NEW n \in DOMAIN pcs[u], NEW sig, NEW rem
    PROVE  LET p == pcs[u][n]
               set == [p EXCEPT !.sig = sig, !.gather = Gathering(p)]
               applied == [p EXCEPT !.sig = sig, !.rem = rem]
           IN  /\ set.sig = sig /\ set.rem = p.rem /\ set.gone = p.gone
               /\ set.heard = p.heard /\ set.added = p.added
               /\ applied.sig = sig /\ applied.rem = rem /\ applied.gone = p.gone
               /\ applied.heard = p.heard /\ applied.added = p.added
<1> DEFINE p == pcs[u][n]
<1>1. p \in PcOf(PcIds)
    BY PhoneTyped
<1> DEFINE g == Gathering(p)
           set == [p EXCEPT !.sig = sig, !.gather = g]
           applied == [p EXCEPT !.sig = sig, !.rem = rem]
<1> HIDE DEF p, g
<1>2. /\ set.sig = sig /\ set.rem = p.rem /\ set.gone = p.gone
      /\ set.heard = p.heard /\ set.added = p.added
    BY <1>1 DEF PcOf
<1>3. /\ applied.sig = sig /\ applied.rem = rem /\ applied.gone = p.gone
      /\ applied.heard = p.heard /\ applied.added = p.added
    BY <1>1 DEF PcOf
<1> QED
    BY <1>2, <1>3 DEF p, g

\* The offerer sets its offer: it is in no other state then.
LEMMA SetOfferCalm ==
    ASSUME Inv, CalmInv, NEW u \in User, NEW t \in tasks[u], SetOffer(u, t)
    PROVE  CalmInv'
<1>1. t.do = "set_offer" /\ UNCHANGED <<phone, server, down>>
    BY DEF SetOffer
<1>2. PICK a \in User, b \in User, p \in Phase :
          /\ Baton(a, b, p) /\ u = a /\ t.pc = Pc(a) /\ p = 2
    <2>1. t.do \in Exchanging /\ t.do \notin Answering
        BY <1>1 DEF Exchanging, Answering
    <2> QED
        BY <1>1, <2>1, TaskParty
<1>3. /\ Steady(a) /\ a < b /\ Pc(a) # 0 /\ Cur(a).sig = "stable" /\ phone[a].remote = b
      /\ tasks[a] = {Task("set_offer", Pc(a), None)}
      /\ Tokens(up[a]) = {} /\ Tokens(down[a]) = {} /\ Pends(a) = {}
    BY <1>2 DEF Baton, Offerer, Steady, Listening
<1> DEFINE c == pcs[a][Pc(a)]
           changed == [c EXCEPT !.sig = "local", !.gather = Gathering(c)]
<1>4. Pc(a) \in DOMAIN pcs[a] /\ ~c.gone /\ c.sig = "stable"
    BY <1>3, PhoneTyped DEF Cur
<1>5. /\ changed.sig = "local" /\ changed.rem = c.rem /\ changed.gone = c.gone
      /\ changed.heard = c.heard /\ changed.added = c.added
    <2>1. Pc(a) \in DOMAIN pcs[a]
        BY <1>4
    <2> QED
        BY <2>1, SetFields
<1>6. PcTurns(a, Pc(a), changed) /\ Goes(a, t, "send_offer")
    BY <1>2, <1>4 DEF SetOffer, Engine, PcTurns
<1> DEFINE T == {Task("send_offer", Pc(a), None)}
<1>7. tasks' = [tasks EXCEPT ![a] = T]
    <2>1. t = Task("set_offer", Pc(a), None)
        BY <1>2, <1>3
    <2>2. [t EXCEPT !.do = "send_offer"] = Task("send_offer", Pc(a), None)
        BY <2>1 DEF Task
    <2>3. (tasks[a] \ {t}) \cup {[t EXCEPT !.do = "send_offer"]} = T
        BY <1>3, <2>1, <2>2
    <2> QED
        BY <1>6, <2>3 DEF Goes
<1>8. \A x \in T : x.do = "send_offer"
    BY DEF Task
<1> HIDE DEF changed, T
<1>9. /\ pcs'[a][Pc(a)] = changed /\ DOMAIN pcs'[a] = DOMAIN pcs[a]
      /\ \A k \in DOMAIN pcs[a] \ {Pc(a)} : pcs'[a][k] = pcs[a][k]
      /\ \A v \in User \ {a} : pcs'[v] = pcs[v]
    BY <1>4, <1>6, PcSet
<1>10. /\ tasks'[a] = T /\ phone'[a] = phone[a] /\ up'[a] = up[a] /\ down'[a] = down[a]
       /\ Pends(a)' = Pends(a)
       /\ \A v \in User \ {a} : tasks'[v] = tasks[v]
    BY <1>1, <1>7, Domains DEF server, sockets, Pends
<1>11. Pc(a)' = Pc(a) /\ Cur(a)' = changed
    BY <1>9, <1>10 DEF Pc, Cur
<1>12. RemStays
    <2>1. \A k \in DOMAIN pcs[a] : pcs'[a][k].rem = pcs[a][k].rem
        BY <1>5, <1>9
    <2>2. DOMAIN pcs'[a] = DOMAIN pcs[a]
        BY <1>9
    <2> QED
        BY <1>9, <2>1, <2>2, RemsStay
<1>13. OnlyUser(a)
    BY <1>1, <1>9, <1>10 DEF OnlyUser, Same, server, sockets
<1>14. Steady(a)'
    BY <1>1, <1>3, <1>5, <1>10, <1>11 DEF Steady, Listening, Cur, server, sockets
<1>15. Net(a)'
    <2>1. Net(a) /\ a \notin waiting /\ phone[a].chan # "connecting"
        BY <1>3 DEF CalmInv, Steady
    <2>2. \A x \in tasks'[a] : x.do \notin {"make", "reconnect"}
        BY <1>8, <1>10
    <2> QED
        BY <1>1, <1>10, <2>1, <2>2 DEF Net, server, sockets
<1>16. Held(a)'
    <2>1. Held(a) /\ phone[a].screen = "matching" /\ c.rem = None /\ b # None
        BY <1>3, SignalingAssumption DEF CalmInv, Steady, Listening, Cur
    <2>2. ~Does(a, "create")'
        BY <1>8, <1>10 DEF Does
    <2>3. \A n \in DOMAIN pcs'[a] : (~pcs'[a][n].gone /\ ~Blank(pcs'[a][n])) => n = Pc(a)
        BY <1>9, <2>1 DEF Held
    <2> QED
        BY <1>3, <1>5, <1>10, <1>11, <2>1, <2>2, <2>3 DEF Held
<1>17. Offerer(a, b, 3)'
    BY <1>3, <1>5, <1>10, <1>11, <1>14 DEF Offerer, T
<1>18. 3 \in Phase /\ 2 \in Phase
    BY DEF Phase
<1> QED
    BY <1>2, <1>11, <1>12, <1>13, <1>15, <1>16, <1>17, <1>18, OffererMoves

\* A message that is a token is sent.
LEMMA SentToken ==
    ASSUME Inv, NEW u \in User, NEW m \in MessageOf(PcIds), IsToken(m),
           phone[u].chan = "open", Tokens(up[u]) = {}, Tidy(up[u]),
           up' = Sent(u, <<m>>)
    PROVE  /\ Tokens(up'[u]) = {m} /\ Tidy(up'[u])
           /\ \A v \in User \ {u} : up'[v] = up[v]
<1>1. up[u] \in Seq(MessageOf(PcIds)) /\ DOMAIN up = User
    BY Domains
<1>2. up[u] \o <<m>> = Append(up[u], m)
    BY <1>1
<1>3. Tokens(Append(up[u], m)) = Tokens(up[u]) \cup {m} /\ Tidy(Append(up[u], m))
    BY <1>1, AppendOf
<1>4. up'[u] = Append(up[u], m) /\ \A v \in User \ {u} : up'[v] = up[v]
    BY <1>1, <1>2 DEF Sent
<1> QED
    BY <1>3, <1>4

\* The offer is sent to the peer, and so is an answer, unless the phone has been
\* swiped or its socket is closed.
LEMMA SendDescriptionCalm ==
    ASSUME Inv, CalmInv, NEW u \in User, NEW t \in tasks[u], SendDescription(u, t)
    PROVE  CalmInv'
<1> DEFINE m == Message(u, IF t.do = "send_offer" THEN "offer" ELSE "answer", <<u, t.pc>>)
           T == tasks[u] \ {t}
<1>1. /\ t.do \in {"send_offer", "send_answer"} /\ t.do \in Exchanging
      /\ up' = Sent(u, <<m>>) /\ tasks' = [tasks EXCEPT ![u] = T]
      /\ UNCHANGED <<phone, pcs, sockets, down>>
    BY DEF SendDescription, Ends, Exchanging, Answering
<1>2. m \in MessageOf(PcIds) /\ IsToken(m)
    <2>1. t.pc \in DOMAIN pcs[u]
        BY <1>1, TaskTyped DEF Working
    <2>2. <<u, t.pc>> \in PcIds
        BY <2>1, PhoneTyped
    <2>3. m \in MessageOf(PcIds)
        BY <2>2, MessageTyped DEF Made
    <2>4. m.type \in {"offer", "answer"}
        BY DEF Message
    <2> QED
        BY <2>3, <2>4 DEF IsToken
<1>3. \A x \in T : x \in tasks[u] /\ x # t
    OBVIOUS
<1>4. m.to = phone[u].remote /\ m.by = <<u, t.pc>>
      /\ m.type = (IF t.do = "send_offer" THEN "offer" ELSE "answer")
    BY DEF Message
<1>5. ASSUME t.do = "send_offer", NEW b \in User, phone[u].remote = b, t.pc = Pc(u)
      PROVE  m = Offered(u, b)
    BY <1>5 DEF Message, Offered, Id
<1>6. \A x \in tasks[u] : x \in T \/ x = t
    OBVIOUS
<1> HIDE DEF m, T
<1>7. /\ tasks'[u] = T /\ phone'[u] = phone[u] /\ pcs'[u] = pcs[u]
      /\ down'[u] = down[u] /\ conn'[u] = conn[u] /\ news'[u] = news[u]
      /\ Pends(u)' = Pends(u) /\ (u \in waiting' <=> u \in waiting)
      /\ \A v \in User \ {u} : tasks'[v] = tasks[v] /\ up'[v] = up[v]
    BY <1>1, Domains DEF Sent, sockets, Pends
<1>8. Pc(u)' = Pc(u) /\ Cur(u)' = Cur(u) /\ OnlyUser(u) /\ RemStays
    BY <1>1, <1>7 DEF Pc, Cur, OnlyUser, Same, RemStays, Rem, PcIds, sockets
<1>9. RemGrows /\ Fit'
    BY <1>8, FitStays DEF RemStays, RemGrows, CalmInv
<1>10. Net(u) /\ Held(u) /\ u \notin waiting /\ phone[u].chan # "connecting"
    BY DEF CalmInv, Net, Fresh
<1>11. Held(u)'
    <2>1. Does(u, "create")' => Does(u, "create")
        BY <1>3, <1>7 DEF Does
    <2> QED
        BY <1>7, <1>8, <1>10, <2>1 DEF Held
<1>12. ASSUME Tidy(up'[u]), phone[u].chan # "open" => up'[u] = up[u]
       PROVE  Net(u)'
    <2>1. \A x \in tasks'[u] : x.do \notin {"make", "reconnect"}
        BY <1>3, <1>7, <1>10 DEF Net
    <2> QED
        BY <1>7, <1>10, <1>12, <2>1 DEF Net
<1>13. CASE t.do = "send_offer"
    <2>1. PICK a \in User, b \in User, p \in Phase :
              Baton(a, b, p) /\ u = a /\ t.pc = Pc(a) /\ p = 3
        <3>1. t.do \notin Answering
            BY <1>13 DEF Answering
        <3> QED
            BY <1>1, <1>13, <3>1, TaskParty
    <2>2. /\ Steady(a) /\ a < b /\ Cur(a).sig = "local" /\ phone[a].remote = b
          /\ tasks[a] = {Task("send_offer", Pc(a), None)}
          /\ Tokens(up[a]) = {} /\ Tokens(down[a]) = {} /\ phone[a].chan = "open"
          /\ Pends(a) = {}
        BY <2>1 DEF Baton, Offerer, Steady
    <2>3. m = Offered(a, b) /\ T = {}
        BY <1>3, <1>5, <1>13, <2>1, <2>2
    <2>4. Tokens(up'[a]) = {m} /\ Tidy(up'[a])
        BY <1>1, <1>2, <1>10, <2>1, <2>2, SentToken DEF Net
    <2>5. Net(a)'
        BY <1>2, <1>12, <2>1, <2>2, <2>4
    <2>6. Offered(a, b)' = Offered(a, b) /\ Steady(a)'
        BY <1>7, <1>8, <2>1, <2>2 DEF Offered, Id, Steady, Listening
    <2>7. Offerer(a, b, 4)'
        BY <1>7, <1>8, <2>1, <2>2, <2>3, <2>4, <2>6 DEF Offerer
    <2>8. 3 \in Phase /\ 4 \in Phase
        BY DEF Phase
    <2> QED
        BY <1>8, <1>11, <2>1, <2>5, <2>7, <2>8, OffererMoves
<1>14. CASE t.do = "send_answer"
    <2>1. PICK a \in User, b \in User, p \in Phase :
              Baton(a, b, p) /\ u = b /\ p = 7 /\ Answers(<<b, t.pc>>, a)
        BY <1>1, <1>14, TaskParty
    <2>2. 7 \in Phase /\ 8 \in Phase
        BY DEF Phase
    <2>3. /\ \E x : Exchange(b) = {x}
          /\ Tokens(up[b]) = {} /\ Tokens(down[b]) = {} /\ a # b
          /\ Pends(b) \subseteq {a}
          /\ phone[b].chan = "open" => phone[b].remote \in {a, None}
        BY <2>1, Making7
    <2>4. Exchange(b)' = {}
        <3>1. Exchange(b) = {t}
            BY <1>1, <2>1, <2>3 DEF Exchange
        <3> QED
            BY <1>3, <1>7, <2>1, <3>1 DEF Exchange
    <2>5. CASE phone[b].chan = "open"
        <3>1. Tokens(up'[b]) = {m} /\ Tidy(up'[b])
            BY <1>1, <1>2, <1>10, <2>1, <2>3, <2>5, SentToken DEF Net
        <3>2. Net(b)'
            BY <1>2, <1>12, <2>1, <2>5, <3>1
        <3>3. PICK x : x = m
            OBVIOUS
        <3>4. IsAnswer(x, a)'
            <4>1. Pc(a)' = Pc(a)
                BY <1>8, <2>1, <2>3 DEF OnlyUser, Same, Pc
            <4>2. IsAnswer(x, a)
                BY <1>4, <1>14, <2>1, <3>3 DEF IsAnswer
            <4> QED
                BY <1>9, <4>1, <4>2, AnswersStay DEF IsAnswer
        <3>5. x.by[1] = b /\ x.to \in {a, None}
            BY <1>4, <2>1, <2>3, <2>5, <3>3
        <3>6. Answerer(b, a, 8)'
            <4>1. Tokens(up'[b]) = {x} /\ Tokens(down'[b]) = {} /\ Pends(b)' \subseteq {a}
                BY <1>7, <2>1, <2>3, <3>1, <3>3
            <4> QED
                BY <2>4, <3>4, <3>5, <4>1 DEF Answerer
        <3> QED
            BY <1>8, <1>9, <1>11, <2>1, <2>2, <3>2, <3>6, AnswererMoves
    <2>6. CASE phone[b].chan # "open"
        <3>1. up'[b] = up[b]
            BY <1>1, <2>6 DEF Sent
        <3>2. Net(b)'
            BY <1>10, <1>12, <2>1, <3>1 DEF Net
        <3>3. Tokens(up'[b]) = {} /\ Tokens(down'[b]) = {} /\ Pends(b)' \subseteq Pends(b)
            BY <1>7, <2>1, <2>3, <3>1
        <3> QED
            BY <1>8, <1>11, <2>1, <2>4, <3>2, <3>3, AnswerLost
    <2> QED
        BY <2>5, <2>6
<1> QED
    BY <1>1, <1>13, <1>14

\* A task of u goes on with what it does next, or ends.
LEMMA TaskTurns ==
    ASSUME Inv, NEW u \in User, NEW t \in tasks[u], NEW do, Goes(u, t, do)
    PROVE  \E s : /\ s.do = do /\ s.pc = t.pc /\ s.by = t.by
                  /\ tasks'[u] = (tasks[u] \ {t}) \cup {s}
                  /\ \A v \in User \ {u} : tasks'[v] = tasks[v]
<1> DEFINE s == [t EXCEPT !.do = do]
<1>1. t \in TaskOf(PcIds)
    BY TaskTyped
<1>2. s.do = do /\ s.pc = t.pc /\ s.by = t.by
    BY <1>1 DEF TaskOf
<1>3. tasks' = [tasks EXCEPT ![u] = (tasks[u] \ {t}) \cup {s}]
    BY DEF Goes
<1> HIDE DEF s
<1>4. /\ tasks'[u] = (tasks[u] \ {t}) \cup {s}
      /\ \A v \in User \ {u} : tasks'[v] = tasks[v]
    BY <1>3, Domains
<1> QED
    BY <1>2, <1>4

\* The answer is set, or the method ends with the peer connection.
LEMMA SetAnswerCalm ==
    ASSUME Inv, CalmInv, NEW u \in User, NEW t \in tasks[u], SetAnswer(u, t)
    PROVE  CalmInv'
<1>1. t.do = "set_answer" /\ t.do \in Answering /\ t.do \in Exchanging
      /\ UNCHANGED <<phone, server, down>>
    BY DEF SetAnswer, Answering, Exchanging
<1>2. PICK a \in User, b \in User, p \in Phase :
          Baton(a, b, p) /\ u = b /\ p = 7 /\ Answers(<<b, t.pc>>, a)
    BY <1>1, TaskParty DEF Answering
<1>3. 7 \in Phase /\ 7 \in 5 .. 8
    BY DEF Phase
<1>4. /\ \E x : Exchange(b) = {x}
      /\ Tokens(up[b]) = {} /\ Tokens(down[b]) = {} /\ a # b /\ Pends(b) \subseteq {a}
      /\ phone[b].chan = "open" => phone[b].remote \in {a, None}
    BY <1>2, Making7
<1>5. Exchange(b) = {t}
    BY <1>1, <1>2, <1>4 DEF Exchange
<1>6. Net(b) /\ Held(b) /\ b \notin waiting /\ phone[b].chan # "connecting"
    BY <1>2 DEF CalmInv, Net, Fresh
<1>7. t.pc \in DOMAIN pcs[b] /\ pcs[b][t.pc].rem # None
    <2>1. t.pc \in DOMAIN pcs[b]
        BY <1>1, <1>2, TaskTyped DEF Working
    <2>2. pcs[b][t.pc].rem = [type |-> "offer", by |-> <<a, Pc(a)>>]
        BY <1>2 DEF Answers, Rem, OfferOf, Id
    <2>3. [type |-> "offer", by |-> <<a, Pc(a)>>] # None
        BY PhoneTyped, SignalingAssumption
    <2> QED
        BY <2>1, <2>2, <2>3
<1>8. /\ phone'[b] = phone[b] /\ up'[b] = up[b] /\ down'[b] = down[b] /\ Pc(b)' = Pc(b)
      /\ conn'[b] = conn[b] /\ news'[b] = news[b] /\ waiting' = waiting
      /\ Pends(b)' = Pends(b)
    BY <1>1 DEF server, sockets, Pc, Pends
<1> DEFINE c == pcs[b][t.pc]
           changed == [c EXCEPT !.sig = "stable", !.gather = Gathering(c)]
<1>9. /\ changed.sig = "stable" /\ changed.rem = c.rem /\ changed.gone = c.gone
      /\ changed.heard = c.heard /\ changed.added = c.added
    <2>1. t.pc \in DOMAIN pcs[b]
        BY <1>7
    <2> QED
        BY <2>1, SetFields
<1>10. \/ PcTurns(b, t.pc, changed) /\ Goes(b, t, "send_answer")
       \/ UNCHANGED pcs /\ tasks' = [tasks EXCEPT ![b] = tasks[b] \ {t}]
    BY <1>2 DEF SetAnswer, Engine, PcTurns, Ends
<1> HIDE DEF changed
<1>11. CASE PcTurns(b, t.pc, changed) /\ Goes(b, t, "send_answer")
    <2>1. /\ pcs'[b][t.pc] = changed /\ DOMAIN pcs'[b] = DOMAIN pcs[b]
          /\ \A k \in DOMAIN pcs[b] \ {t.pc} : pcs'[b][k] = pcs[b][k]
          /\ \A v \in User \ {b} : pcs'[v] = pcs[v]
        BY <1>7, <1>11, PcSet
    <2>2. PICK s : /\ s.do = "send_answer" /\ s.pc = t.pc
                   /\ tasks'[b] = (tasks[b] \ {t}) \cup {s}
                   /\ \A v \in User \ {b} : tasks'[v] = tasks[v]
        BY <1>2, <1>11, TaskTurns
    <2>3. RemStays
        <3>1. \A k \in DOMAIN pcs[b] : pcs'[b][k].rem = pcs[b][k].rem
            BY <1>9, <2>1
        <3>2. DOMAIN pcs'[b] = DOMAIN pcs[b]
            BY <2>1
        <3> QED
            BY <2>1, <3>1, <3>2, RemsStay
    <2>4. RemGrows /\ Fit'
        BY <2>3, FitStays DEF RemStays, RemGrows, CalmInv
    <2>5. OnlyUser(b)
        BY <1>1, <2>1, <2>2 DEF OnlyUser, Same, server, sockets
    <2>6. Net(b)'
        <3>1. \A x \in tasks'[b] : x.do \notin {"make", "reconnect"}
            BY <1>6, <2>2 DEF Net
        <3> QED
            BY <1>6, <1>8, <3>1 DEF Net
    <2>7. Held(b)'
        <3>1. \A n \in DOMAIN pcs'[b] : (~pcs'[b][n].gone /\ ~Blank(pcs'[b][n])) => n = Pc(b)
            BY <1>6, <1>7, <1>9, <2>1 DEF Held, Blank
        <3>2. Does(b, "create")' => Does(b, "create")
            BY <2>2 DEF Does
        <3>3. Pc(b) # 0 => \/ Cur(b)' = Cur(b)
                           \/ /\ Cur(b) = c /\ Cur(b)' = changed
            BY <1>8, <2>1, PhoneTyped DEF Cur
        <3>4. (phone'[b].screen = "idle" \/ Does(b, "create")') =>
                  (Pc(b) = 0 \/ Blank(Cur(b))')
            BY <1>6, <1>7, <1>8, <3>2, <3>3 DEF Held, Blank
        <3>5. (Pc(b) # 0 /\ (Cur(b).rem)' # None) =>
                  (Cur(b).heard)' \subseteq (Cur(b).added)' \cup phone'[b].pending
            BY <1>6, <1>8, <1>9, <3>3 DEF Held
        <3>6. (Pc(b) # 0 /\ (Cur(b).sig)' = "local") =>
                  phone'[b].remote # None /\ b < phone'[b].remote /\ Pends(b)' = {}
            BY <1>6, <1>8, <1>9, <3>3 DEF Held
        <3> QED
            BY <1>8, <3>1, <3>4, <3>5, <3>6 DEF Held
    <2>8. Answers(<<b, s.pc>>, a)'
        <3>1. Pc(a)' = Pc(a) /\ Answers(<<b, s.pc>>, a)
            BY <1>2, <1>4, <2>2, <2>5 DEF OnlyUser, Same, Pc
        <3> QED
            BY <2>4, <3>1, AnswersStay
    <2>9. Exchange(b)' = {s} /\ s.do \in Answering
        <3>1. s.do \in Answering /\ s.do \in Exchanging
            BY <2>2 DEF Answering, Exchanging
        <3>2. \A x \in tasks[b] : x # t => x.do \notin Exchanging
            BY <1>5 DEF Exchange
        <3>3. \A x : x \in tasks'[b] /\ x.do \in Exchanging <=> x = s
            BY <2>2, <3>1, <3>2
        <3> QED
            BY <3>1, <3>3 DEF Exchange
    <2>10. Answerer(b, a, 7)'
        <3>1. \E x : /\ Exchange(b)' = {x} /\ x.do \in Answering
                     /\ Answers(<<b, x.pc>>, a)'
            BY <2>8, <2>9
        <3>2. /\ Tokens(up'[b]) = {} /\ Tokens(down'[b]) = {} /\ Pends(b)' \subseteq {a}
              /\ phone'[b].chan = "open" => phone'[b].remote \in {a, None}
            BY <1>4, <1>8
        <3> QED
            BY <3>1, <3>2 DEF Answerer
    <2> QED
        BY <1>2, <1>3, <2>4, <2>5, <2>6, <2>7, <2>10, AnswererMoves
<1>12. CASE UNCHANGED pcs /\ tasks' = [tasks EXCEPT ![b] = tasks[b] \ {t}]
    <2>1. tasks'[b] = tasks[b] \ {t} /\ \A v \in User \ {b} : tasks'[v] = tasks[v]
        BY <1>12, Domains
    <2>2. RemStays
        BY <1>12 DEF RemStays, Rem, PcIds
    <2>3. OnlyUser(b)
        BY <1>1, <1>12, <2>1 DEF OnlyUser, Same, server, sockets
    <2>4. Net(b)'
        <3>1. \A x \in tasks'[b] : x.do \notin {"make", "reconnect"}
            BY <1>6, <2>1 DEF Net
        <3> QED
            BY <1>6, <1>8, <3>1 DEF Net
    <2>5. Held(b)'
        <3>1. Does(b, "create")' => Does(b, "create")
            BY <2>1 DEF Does
        <3>2. pcs'[b] = pcs[b] /\ Cur(b)' = Cur(b)
            BY <1>8, <1>12 DEF Cur
        <3> QED
            BY <1>6, <1>8, <3>1, <3>2 DEF Held
    <2>6. /\ Exchange(b)' = {} /\ Tokens(up'[b]) = {} /\ Tokens(down'[b]) = {}
          /\ Pends(b)' \subseteq Pends(b)
        BY <1>4, <1>5, <1>8, <2>1 DEF Exchange
    <2> QED
        BY <1>2, <2>2, <2>3, <2>4, <2>5, <2>6, AnswerLost
<1> QED
    BY <1>10, <1>11, <1>12

\* Flushing the buffer changes nothing that an exchange depends on but the flag
\* and the buffer, and the current peer connection keeps its candidates.
LEMMA ResumeKeeps ==
    ASSUME Inv, CalmInv, NEW u \in User, NEW t \in tasks[u], Resume(u, t)
    PROVE  /\ t.do \in {"resume_offer", "resume_answer"}
           /\ \/ /\ t.do = "resume_offer" /\ Goes(u, t, "set_answer")
              \/ /\ t.do = "resume_answer" /\ tasks' = [tasks EXCEPT ![u] = tasks[u] \ {t}]
           /\ phone'[u].remote = phone[u].remote /\ phone'[u].chan = phone[u].chan
           /\ Pc(u)' = Pc(u) /\ up'[u] = up[u] /\ down'[u] = down[u]
           /\ Pends(u)' = Pends(u)
           /\ RemStays /\ Net(u)' /\ Held(u)' /\ OnlyUser(u)
<1> DEFINE c == pcs[u][Pc(u)]
           changed == [c EXCEPT !.added = @ \cup phone[u].pending]
           r == [phone[u] EXCEPT !.ready = TRUE,
                                 !.pending = IF Pc(u) = 0 THEN @ ELSE {}]
<1>1. /\ t.do \in {"resume_offer", "resume_answer"}
      /\ IF Pc(u) # 0 /\ c.rem # None
         THEN PcTurns(u, Pc(u), changed) ELSE UNCHANGED pcs
      /\ phone' = [phone EXCEPT ![u] = r]
      /\ UNCHANGED <<server, down>>
    BY DEF Resume, PcTurns, Rem
<1>2. \/ /\ t.do = "resume_offer" /\ Goes(u, t, "set_answer")
      \/ /\ t.do = "resume_answer" /\ tasks' = [tasks EXCEPT ![u] = tasks[u] \ {t}]
    BY DEF Resume, Ends
<1>3. /\ r.screen = phone[u].screen /\ r.pc = Pc(u) /\ r.remote = phone[u].remote
      /\ r.chan = phone[u].chan /\ (Pc(u) = 0 => r.pending = phone[u].pending)
    BY PhoneTyped DEF PhoneOf, Pc
<1>4. Pc(u) # 0 =>
          /\ changed.sig = c.sig /\ changed.rem = c.rem /\ changed.gone = c.gone
          /\ changed.heard = c.heard /\ changed.added = c.added \cup phone[u].pending
    <2>1. Pc(u) # 0 => c \in PcOf(PcIds)
        BY PhoneTyped
    <2> HIDE DEF c
    <2> QED
        BY <2>1 DEF PcOf
<1>5. Pc(u) # 0 => Pc(u) \in DOMAIN pcs[u] /\ c = Cur(u)
    BY PhoneTyped DEF Cur
<1> HIDE DEF changed, r, c
<1>6. \/ /\ Pc(u) # 0 /\ c.rem # None
         /\ pcs'[u][Pc(u)] = changed /\ DOMAIN pcs'[u] = DOMAIN pcs[u]
         /\ \A k \in DOMAIN pcs[u] \ {Pc(u)} : pcs'[u][k] = pcs[u][k]
         /\ \A v \in User \ {u} : pcs'[v] = pcs[v]
      \/ (Pc(u) = 0 \/ c.rem = None) /\ pcs' = pcs
    <2>1. CASE Pc(u) # 0 /\ c.rem # None
        BY <1>1, <1>5, <2>1, PcSet
    <2>2. CASE ~(Pc(u) # 0 /\ c.rem # None)
        BY <1>1, <2>2
    <2> QED
        BY <2>1, <2>2
<1>7. /\ phone'[u] = r /\ Pc(u)' = Pc(u) /\ Pends(u)' = Pends(u)
      /\ \A v \in User \ {u} : phone'[v] = phone[v]
    BY <1>1, <1>3, Domains DEF Pc, Pends, server, sockets
<1>8. \A v \in User \ {u} : tasks'[v] = tasks[v]
    BY <1>2, Domains DEF Goes
<1>9. \A x \in tasks'[u] : x \in tasks[u] \/ x.do = "set_answer"
    <2>1. CASE Goes(u, t, "set_answer")
        BY <2>1, TaskTurns
    <2>2. CASE tasks' = [tasks EXCEPT ![u] = tasks[u] \ {t}]
        BY <2>2, Domains
    <2> QED
        BY <1>2, <2>1, <2>2
<1>10. /\ DOMAIN pcs'[u] = DOMAIN pcs[u] /\ \A v \in User \ {u} : pcs'[v] = pcs[v]
       /\ \A k \in DOMAIN pcs[u] :
             /\ pcs'[u][k].sig = pcs[u][k].sig /\ pcs'[u][k].rem = pcs[u][k].rem
             /\ pcs'[u][k].gone = pcs[u][k].gone
    BY <1>4, <1>6 DEF c
<1>11. RemStays
    BY <1>10, RemsStay
<1>12. OnlyUser(u)
    BY <1>1, <1>7, <1>8, <1>10 DEF OnlyUser, Same, server, sockets
<1>13. Net(u) /\ Held(u) /\ u \notin waiting /\ phone[u].chan # "connecting"
    BY DEF CalmInv, Net, Fresh
<1>14. Net(u)'
    <2>1. \A x \in tasks'[u] : x.do \notin {"make", "reconnect"}
        BY <1>9, <1>13 DEF Net
    <2> QED
        BY <1>1, <1>3, <1>7, <1>13, <2>1 DEF Net, server, sockets
<1>15. Held(u)'
    <2>1. \A n \in DOMAIN pcs'[u] : (~pcs'[u][n].gone /\ ~Blank(pcs'[u][n])) => n = Pc(u)
        BY <1>10, <1>13 DEF Held, Blank
    <2>2. Does(u, "create")' => Does(u, "create")
        BY <1>9 DEF Does
    <2>3. Pc(u) # 0 => \/ c.rem # None /\ Cur(u)' = changed
                       \/ c.rem = None /\ Cur(u)' = c
        BY <1>5, <1>6, <1>7 DEF Cur
    <2>4. (phone'[u].screen = "idle" \/ Does(u, "create")') =>
              (Pc(u) = 0 \/ Blank(Cur(u))')
        BY <1>3, <1>4, <1>5, <1>7, <1>13, <2>2, <2>3 DEF Held, Blank
    <2>5. (Pc(u) # 0 /\ (Cur(u).rem)' # None) =>
              (Cur(u).heard)' \subseteq (Cur(u).added)' \cup phone'[u].pending
        BY <1>4, <1>5, <1>13, <2>3 DEF Held
    <2>6. (Pc(u) # 0 /\ (Cur(u).sig)' = "local") =>
              phone'[u].remote # None /\ u < phone'[u].remote /\ Pends(u)' = {}
        BY <1>3, <1>4, <1>5, <1>7, <1>13, <2>3 DEF Held
    <2> QED
        BY <1>7, <2>1, <2>4, <2>5, <2>6 DEF Held
<1> QED
    BY <1>1, <1>2, <1>3, <1>7, <1>11, <1>12, <1>14, <1>15 DEF server, sockets

\* A method goes on after its description was applied.
LEMMA ResumeCalm ==
    ASSUME Inv, CalmInv, NEW u \in User, NEW t \in tasks[u], Resume(u, t)
    PROVE  CalmInv'
<1>1. /\ \/ /\ t.do = "resume_offer" /\ Goes(u, t, "set_answer")
         \/ /\ t.do = "resume_answer" /\ tasks' = [tasks EXCEPT ![u] = tasks[u] \ {t}]
      /\ phone'[u].remote = phone[u].remote /\ phone'[u].chan = phone[u].chan
      /\ Pc(u)' = Pc(u) /\ up'[u] = up[u] /\ down'[u] = down[u]
      /\ Pends(u)' = Pends(u)
      /\ RemStays /\ Net(u)' /\ Held(u)' /\ OnlyUser(u)
    BY ResumeKeeps
<1>2. CASE /\ t.do = "resume_answer" /\ tasks' = [tasks EXCEPT ![u] = tasks[u] \ {t}]
    <2>1. t.do \notin Exchanging /\ Busy(u)
        BY <1>2 DEF Exchanging, Answering, Busy
    <2>2. tasks'[u] = tasks[u] \ {t}
        BY <1>2, Domains
    <2>3. Exchange(u)' = Exchange(u)
        BY <2>1, <2>2 DEF Exchange
    <2>4. Loose(u)
        BY <1>1, <2>1, <2>3 DEF Loose
    <2> QED
        BY <1>1, <2>4, ByTheWay
<1>3. CASE t.do = "resume_offer" /\ Goes(u, t, "set_answer")
    <2>1. PICK a \in User, b \in User, p \in Phase :
              Baton(a, b, p) /\ u = b /\ p = 7 /\ Answers(<<b, t.pc>>, a)
        <3>1. t.do \in Exchanging
            BY <1>3 DEF Exchanging, Answering
        <3> QED
            BY <1>3, <3>1, TaskParty
    <2>2. 7 \in Phase /\ 7 \in 5 .. 8
        BY DEF Phase
    <2>3. /\ \E x : Exchange(b) = {x}
          /\ Tokens(up[b]) = {} /\ Tokens(down[b]) = {} /\ a # b
          /\ Pends(b) \subseteq {a}
          /\ phone[b].chan = "open" => phone[b].remote \in {a, None}
        BY <2>1, Making7
    <2>4. Exchange(b) = {t}
        <3>1. t \in Exchange(b)
            BY <1>3, <2>1 DEF Exchange, Exchanging, Answering
        <3> QED
            BY <2>3, <3>1
    <2>5. PICK s : /\ s.do = "set_answer" /\ s.pc = t.pc
                   /\ tasks'[b] = (tasks[b] \ {t}) \cup {s}
        BY <1>3, <2>1, TaskTurns
    <2>6. Exchange(b)' = {s} /\ s.do \in Answering
        <3>1. s.do \in Answering /\ s.do \in Exchanging
            BY <2>5 DEF Answering, Exchanging
        <3>2. \A x \in tasks[b] : x # t => x.do \notin Exchanging
            BY <2>4 DEF Exchange
        <3>3. \A x : x \in tasks'[b] /\ x.do \in Exchanging <=> x = s
            BY <2>5, <3>1, <3>2
        <3> QED
            BY <3>1, <3>3 DEF Exchange
    <2>7. RemGrows /\ Fit'
        BY <1>1, FitStays DEF RemStays, RemGrows, CalmInv
    <2>8. Answers(<<b, s.pc>>, a)'
        <3>1. Pc(a)' = Pc(a) /\ Answers(<<b, s.pc>>, a)
            BY <1>1, <2>1, <2>3, <2>5 DEF OnlyUser, Same, Pc
        <3> QED
            BY <2>7, <3>1, AnswersStay
    <2>9. Answerer(b, a, 7)'
        <3>1. \E x : /\ Exchange(b)' = {x} /\ x.do \in Answering
                     /\ Answers(<<b, x.pc>>, a)'
            BY <2>6, <2>8
        <3>2. /\ Tokens(up'[b]) = {} /\ Tokens(down'[b]) = {} /\ Pends(b)' \subseteq {a}
              /\ phone'[b].chan = "open" => phone'[b].remote \in {a, None}
            BY <1>1, <2>1, <2>3
        <3> QED
            BY <3>1, <3>2 DEF Answerer
    <2> QED
        BY <1>1, <2>1, <2>2, <2>7, <2>9, AnswererMoves
<1> QED
    BY <1>1, <1>2, <1>3

\* A description is applied to peer connection x, which had none: an offer, or
\* an answer that belongs to x's offer.
LEMMA FitGrows ==
    ASSUME Inv, Fit, NEW x \in PcIds, PcIds' = PcIds, Rem(x[1], x[2]) = None,
           \A q \in PcIds : q # x => Rem(q[1], q[2])' = Rem(q[1], q[2]),
           NEW d, Rem(x[1], x[2])' = d,
           \/ d.type = "offer"
           \/ \E r \in PcIds : /\ d = [type |-> "answer", by |-> r]
                               /\ Rem(r[1], r[2]) = [type |-> "offer", by |-> x]
    PROVE  RemGrows /\ Fit'
<1>1. RemGrows
    BY DEF RemGrows
<1>2. \A q \in PcIds : [type |-> "offer", by |-> q] # None
    BY SignalingAssumption DEF PcIds
<1>3. SUFFICES ASSUME NEW q \in PcIds, NEW r \in PcIds,
                      Rem(q[1], q[2])' = [type |-> "answer", by |-> r]
               PROVE  Rem(r[1], r[2])' = [type |-> "offer", by |-> q]
    BY <1>1 DEF Fit
<1>4. Rem(r[1], r[2]) = [type |-> "offer", by |-> q]
    <2>1. CASE q # x
        <3>1. Rem(q[1], q[2]) = [type |-> "answer", by |-> r]
            BY <1>3, <2>1
        <3> QED
            BY <3>1 DEF Fit
    <2>2. CASE q = x
        <3>1. d = [type |-> "answer", by |-> r]
            BY <1>3, <2>2
        <3>2. d.type # "offer" /\ d.by = r
            BY <3>1
        <3>3. PICK k \in PcIds : /\ d = [type |-> "answer", by |-> k]
                                 /\ Rem(k[1], k[2]) = [type |-> "offer", by |-> x]
            BY <3>2
        <3>4. k = r
            BY <3>2, <3>3
        <3> QED
            BY <2>2, <3>3, <3>4
    <2> QED
        BY <2>1, <2>2
<1> QED
    BY <1>1, <1>2, <1>4 DEF RemGrows

Fits(d, x) ==
    \/ d.type = "offer"
    \/ \E r \in PcIds : /\ d = [type |-> "answer", by |-> r]
                        /\ Rem(r[1], r[2]) = [type |-> "offer", by |-> x]

\* p is c with a description applied.
WithDescription(p, c, sig, d) ==
    /\ p.sig = sig /\ p.rem = d /\ p.gone = c.gone
    /\ p.heard = c.heard /\ p.added = c.added

\* A party that is steady has a description applied to its peer connection; t goes
\* on as s.
LEMMA AppliedTo ==
    ASSUME Inv, CalmInv, NEW u \in User, Steady(u), NEW t \in tasks[u], tasks[u] = {t},
           NEW sig \in {"stable", "remote"}, NEW d,
           NEW do, do \notin {"make", "reconnect", "create"},
           NEW changed, WithDescription(changed, pcs[u][Pc(u)], sig, d),
           PcTurns(u, Pc(u), changed),
           Goes(u, t, do), UNCHANGED <<phone, server, down>>,
           Fits(d, Id(u))
    PROVE  /\ OnlyUser(u) /\ RemGrows /\ Fit' /\ Net(u)' /\ Held(u)'
           /\ Id(u) \in PcIds /\ PcIds' = PcIds /\ Rem(u, Pc(u))' = d
           /\ Pends(u)' = Pends(u)
           /\ \E s : tasks'[u] = {s} /\ s.do = do /\ s.pc = t.pc
<1> DEFINE c == pcs[u][Pc(u)]
<1>1. /\ Pc(u) \in DOMAIN pcs[u] /\ Pc(u) # 0 /\ Id(u) \in PcIds
      /\ c = Cur(u) /\ c.rem = None /\ c.heard \subseteq phone[u].pending
    BY PhoneTyped DEF Steady, Listening, Cur, Id
<1>2. /\ changed.sig = sig /\ changed.rem = d /\ changed.gone = c.gone
      /\ changed.heard = c.heard /\ changed.added = c.added
    BY DEF WithDescription
<1>3. PcTurns(u, Pc(u), changed)
    OBVIOUS
<1> HIDE DEF c
<1>4. /\ pcs'[u][Pc(u)] = changed /\ DOMAIN pcs'[u] = DOMAIN pcs[u]
      /\ \A k \in DOMAIN pcs[u] \ {Pc(u)} : pcs'[u][k] = pcs[u][k]
      /\ \A v \in User \ {u} : pcs'[v] = pcs[v]
      /\ PcIds' = PcIds
    BY <1>1, <1>3, PcSet
<1>5. PICK s : /\ s.do = do /\ s.pc = t.pc
               /\ tasks'[u] = (tasks[u] \ {t}) \cup {s}
               /\ \A v \in User \ {u} : tasks'[v] = tasks[v]
    BY TaskTurns
<1>6. tasks'[u] = {s}
    BY <1>5
<1>7. /\ phone'[u] = phone[u] /\ up'[u] = up[u] /\ down'[u] = down[u] /\ Pc(u)' = Pc(u)
      /\ conn'[u] = conn[u] /\ news'[u] = news[u] /\ waiting' = waiting
      /\ Pends(u)' = Pends(u)
    BY DEF server, sockets, Pc, Pends
<1>8. Rem(u, Pc(u))' = d /\ Rem(u, Pc(u)) = None
    BY <1>1, <1>2, <1>4, <1>7 DEF Rem, c
<1>9. RemGrows /\ Fit'
    <2>1. PICK x : x = Id(u)
        OBVIOUS
    <2>2. x \in PcIds /\ x[1] = u /\ x[2] = Pc(u)
        BY <1>1, <2>1 DEF Id
    <2>3. Rem(x[1], x[2]) = None /\ Rem(x[1], x[2])' = d
        BY <1>7, <1>8, <2>2 DEF Rem
    <2>4. ASSUME NEW q \in PcIds, q # x
          PROVE  Rem(q[1], q[2])' = Rem(q[1], q[2])
        <3>1. q[1] \in User /\ q[2] \in DOMAIN pcs[q[1]] /\ q = <<q[1], q[2]>>
            BY DEF PcIds
        <3>2. q[1] # u \/ q[2] # Pc(u)
            BY <2>1, <2>4, <3>1 DEF Id
        <3> QED
            BY <1>4, <3>1, <3>2 DEF Rem
    <2>5. \/ d.type = "offer"
          \/ \E r \in PcIds : /\ d = [type |-> "answer", by |-> r]
                              /\ Rem(r[1], r[2]) = [type |-> "offer", by |-> x]
        BY <2>1 DEF Fits
    <2>6. Fit
        BY DEF CalmInv
    <2> QED
        BY <1>4, <2>2, <2>3, <2>4, <2>5, <2>6, FitGrows
<1>10. OnlyUser(u)
    BY <1>4, <1>5 DEF OnlyUser, Same, server, sockets
<1>11. Net(u)'
    <2>1. Net(u) /\ u \notin waiting /\ phone[u].chan # "connecting"
        BY DEF CalmInv, Steady
    <2>2. \A x \in tasks'[u] : x.do \notin {"make", "reconnect"}
        BY <1>5, <1>6
    <2> QED
        BY <1>7, <2>1, <2>2 DEF Net
<1>12. Held(u)'
    <2>1. Held(u) /\ phone[u].screen = "matching"
        BY DEF CalmInv, Steady, Listening
    <2>2. ~Does(u, "create")'
        BY <1>5, <1>6 DEF Does
    <2>3. \A n \in DOMAIN pcs'[u] : (~pcs'[u][n].gone /\ ~Blank(pcs'[u][n])) => n = Pc(u)
        BY <1>4, <2>1 DEF Held
    <2>4. Cur(u)' = changed
        BY <1>4, <1>7 DEF Cur
    <2> QED
        BY <1>1, <1>2, <1>7, <2>1, <2>2, <2>3, <2>4 DEF Held
<1> QED
    BY <1>1, <1>4, <1>5, <1>6, <1>7, <1>8, <1>9, <1>10, <1>11, <1>12

\* The answerer has applied the offer.
LEMMA Answers7 ==
    ASSUME NEW a, NEW b, Tokens(up'[b]) = {}, Tokens(down'[b]) = {},
           Pends(b)' \subseteq {a},
           phone'[b].chan = "open" => phone'[b].remote \in {a, None},
           \E x : /\ Exchange(b)' = {x} /\ x.do \in Answering
                  /\ Answers(<<b, x.pc>>, a)'
    PROVE  Answerer(b, a, 7)'
BY DEF Answerer

\* The answerer applies the offer.
LEMMA ApplyOfferCalm ==
    ASSUME Inv, CalmInv, NEW u \in User, NEW t \in tasks[u], Apply(u, t),
           t.do = "apply_offer"
    PROVE  CalmInv'
<1>1. t.do \in Exchanging /\ UNCHANGED <<phone, server, down>>
    BY DEF Apply, Exchanging
<1>2. PICK a \in User, b \in User, p \in Phase :
          /\ Baton(a, b, p) /\ u = b /\ p = 6 /\ t.pc = Pc(b) /\ t.by = Id(a)
    BY <1>1, TaskParty DEF Answering
<1>3. 6 \in Phase /\ 7 \in Phase /\ 6 \in 5 .. 8 /\ 7 \in 5 .. 8
    BY DEF Phase
<1>4. /\ Steady(b) /\ Cur(b).sig = "stable" /\ Tokens(up[b]) = {} /\ Tokens(down[b]) = {}
      /\ tasks[b] = {t} /\ phone[b].remote = a /\ a # b /\ Pends(b) \subseteq {a}
    BY <1>2, <1>3, SteadyParties DEF Baton, Answerer
<1>5. Pc(b) \in DOMAIN pcs[b] /\ ~pcs[b][Pc(b)].gone
    BY <1>4, PhoneTyped DEF Steady, Listening
<1>6. PICK d, c : /\ d = [type |-> "offer", by |-> t.by]
                  /\ c = [pcs[b][Pc(b)] EXCEPT !.sig = "remote", !.rem = d]
    OBVIOUS
<1>7. /\ PcTurns(b, Pc(b), c)
      /\ Goes(b, t, "resume_offer")
    <2>1. Engine(b, t, {"stable", "remote"},
                 [pcs[b][t.pc] EXCEPT !.sig = "remote",
                                      !.rem = [type |-> "offer", by |-> t.by]],
                 "resume_offer")
        BY <1>2 DEF Apply
    <2>2. ~pcs[b][t.pc].gone /\ pcs[b][t.pc].sig \in {"stable", "remote"}
        BY <1>2, <1>4, <1>5 DEF Cur
    <2> QED
        BY <1>2, <1>6, <2>1, <2>2 DEF Engine, PcTurns
<1>8. Fits(d, Id(b))
    BY <1>6 DEF Fits
<1>9. /\ OnlyUser(b) /\ RemGrows /\ Fit' /\ Net(b)' /\ Held(b)'
      /\ Id(b) \in PcIds /\ PcIds' = PcIds /\ Rem(b, Pc(b))' = d
      /\ Pends(b)' = Pends(b)
      /\ \E s : tasks'[b] = {s} /\ s.do = "resume_offer" /\ s.pc = t.pc
    <2>1. "remote" \in {"stable", "remote"}
          /\ "resume_offer" \notin {"make", "reconnect", "create"}
        OBVIOUS
    <2>2. Pc(b) \in DOMAIN pcs[b]
        BY <1>5
    <2>3. WithDescription(c, pcs[b][Pc(b)], "remote", d)
        BY <1>6, <2>2, SetFields DEF WithDescription
    <2> QED
        BY <1>1, <1>2, <1>4, <1>6, <1>7, <1>8, <2>1, <2>3, AppliedTo
<1>10. PICK s : tasks'[b] = {s} /\ s.do = "resume_offer" /\ s.pc = t.pc
    BY <1>9
<1>11. /\ phone'[b] = phone[b] /\ up'[b] = up[b] /\ down'[b] = down[b] /\ Pc(b)' = Pc(b)
       /\ Pc(a)' = Pc(a)
    BY <1>1 DEF server, sockets, Pc
<1>12. Answers(<<b, s.pc>>, a)'
    <2>1. <<b, s.pc>> = Id(b) /\ <<b, s.pc>>[1] = b /\ <<b, s.pc>>[2] = Pc(b)
        BY <1>2, <1>10 DEF Id
    <2>2. <<b, s.pc>> \in PcIds'
        BY <1>9, <2>1
    <2>3. Rem(b, s.pc)' = [type |-> "offer", by |-> <<a, Pc(a)>>]
        BY <1>2, <1>6, <1>9, <1>10, <1>11 DEF Id, Rem
    <2>4. Rem(b, s.pc)' = OfferOf(a)'
        BY <1>11, <2>3 DEF OfferOf, Id
    <2> QED
        BY <2>1, <2>2, <2>4 DEF Answers
<1>13. Exchange(b)' = {s} /\ s.do \in Answering
    BY <1>10 DEF Exchange, Exchanging, Answering
<1>14. /\ Tokens(up'[b]) = {} /\ Tokens(down'[b]) = {} /\ Pends(b)' \subseteq {a}
       /\ phone'[b].chan = "open" => phone'[b].remote \in {a, None}
    BY <1>4, <1>9, <1>11
<1>15. \E x : /\ Exchange(b)' = {x} /\ x.do \in Answering
              /\ Answers(<<b, x.pc>>, a)'
    BY <1>12, <1>13
<1>16. Answerer(b, a, 7)'
    BY <1>14, <1>15, Answers7
<1> QED
    BY <1>2, <1>3, <1>9, <1>16, AnswererMoves

\* The offerer applies the answer, and the exchange is over.
LEMMA ApplyAnswerCalm ==
    ASSUME Inv, CalmInv, NEW u \in User, NEW t \in tasks[u], Apply(u, t),
           t.do = "apply_answer"
    PROVE  CalmInv'
<1>1. t.do \in Exchanging /\ UNCHANGED <<phone, server, down>>
    BY DEF Apply, Exchanging
<1>2. PICK a \in User, b \in User, p \in Phase :
          /\ Baton(a, b, p) /\ u = a /\ p = 10 /\ t.pc = Pc(a) /\ Answers(t.by, a)
    BY <1>1, TaskParty DEF Answering
<1>3. /\ Steady(a) /\ Cur(a).sig = "local" /\ Tokens(up[a]) = {} /\ Tokens(down[a]) = {}
      /\ tasks[a] = {t} /\ Pends(a) = {}
    BY <1>2 DEF Baton, Offerer
<1>4. Pc(a) \in DOMAIN pcs[a] /\ ~pcs[a][Pc(a)].gone
    BY <1>3, PhoneTyped DEF Steady, Listening
<1>5. PICK d, c : /\ d = [type |-> "answer", by |-> t.by]
                  /\ c = [pcs[a][Pc(a)] EXCEPT !.sig = "stable", !.rem = d]
    OBVIOUS
<1>6. /\ PcTurns(a, Pc(a), c)
      /\ Goes(a, t, "resume_answer")
    <2>1. Engine(a, t, {"local"},
                 [pcs[a][t.pc] EXCEPT !.sig = "stable",
                                      !.rem = [type |-> "answer", by |-> t.by]],
                 "resume_answer")
        BY <1>2 DEF Apply
    <2>2. ~pcs[a][t.pc].gone /\ pcs[a][t.pc].sig \in {"local"}
        BY <1>2, <1>3, <1>4 DEF Cur
    <2> QED
        BY <1>2, <1>5, <2>1, <2>2 DEF Engine, PcTurns
<1>7. Fits(d, Id(a))
    BY <1>2, <1>5 DEF Answers, OfferOf, Fits
<1>8. /\ OnlyUser(a) /\ RemGrows /\ Fit' /\ Net(a)' /\ Held(a)' /\ Pends(a)' = Pends(a)
      /\ \E s : tasks'[a] = {s} /\ s.do = "resume_answer" /\ s.pc = t.pc
    <2>1. "stable" \in {"stable", "remote"}
          /\ "resume_answer" \notin {"make", "reconnect", "create"}
        OBVIOUS
    <2>2. Pc(a) \in DOMAIN pcs[a]
        BY <1>4
    <2>3. WithDescription(c, pcs[a][Pc(a)], "stable", d)
        BY <1>5, <2>2, SetFields DEF WithDescription
    <2> QED
        BY <1>1, <1>2, <1>3, <1>5, <1>6, <1>7, <2>1, <2>3, AppliedTo
<1>9. ~HasToken(a)'
    <2>1. Exchange(a)' = {}
        BY <1>8 DEF Exchange, Exchanging, Answering
    <2>2. up'[a] = up[a] /\ down'[a] = down[a]
        BY <1>1 DEF server, sockets
    <2> QED
        BY <1>3, <1>8, <2>1, <2>2 DEF HasToken
<1>10. a \in Party(a, b, p) /\ \A x \in Party(a, b, p) : ~HasToken(x)'
    BY <1>2, <1>9 DEF Party
<1> QED
    BY <1>2, <1>8, <1>10, HandedOn

\* A description is applied.
LEMMA ApplyCalm ==
    ASSUME Inv, CalmInv, NEW u \in User, NEW t \in tasks[u], Apply(u, t)
    PROVE  CalmInv'
<1>1. t.do \in {"apply_offer", "apply_answer"}
    BY DEF Apply
<1> QED
    BY <1>1, ApplyOfferCalm, ApplyAnswerCalm

\* Whoever gets an offer or an answer has been told of its match, and is there.
LEMMA RelayedToken ==
    ASSUME Inv, CalmInv, NEW u \in User, NEW m \in Tokens(up[u]), m.to # None
    PROVE  /\ m.to \in User /\ Steady(m.to) /\ m.to # u
           /\ m \notin Tokens(down[m.to]) /\ Hears(m.to)
<1>1. PICK a \in User, b \in User, p \in Phase :
          /\ Baton(a, b, p) /\ u \in Party(a, b, p)
          /\ \/ u = a /\ p = 4 /\ m = Offered(a, b)
             \/ u = b /\ p = 8 /\ IsAnswer(m, a) /\ m.to \in {a, None}
    BY UpParty
<1>2. Steady(a) /\ a # b /\ (p <= 6 => Steady(b))
    BY <1>1, SteadyParties
<1>3. ASSUME NEW w \in User, Steady(w)
      PROVE  Hears(w)
    <2>1. Net(w)
        BY DEF CalmInv
    <2> QED
        BY <1>3, <2>1 DEF Net, Hears, Steady
<1>4. CASE u = a /\ p = 4 /\ m = Offered(a, b)
    <2>1. m.to = b
        BY <1>4 DEF Offered
    <2>2. Offered(a, b) \notin Tokens(down[b])
        BY <1>1, <1>4 DEF Baton, Answerer
    <2> QED
        BY <1>2, <1>3, <1>4, <2>1, <2>2
<1>5. CASE u = b /\ p = 8 /\ IsAnswer(m, a) /\ m.to \in {a, None}
    <2>1. m.to = a
        BY <1>5
    <2>2. Tokens(down[a]) = {}
        BY <1>1, <1>5 DEF Baton, Offerer
    <2> QED
        BY <1>2, <1>3, <1>5, <2>1, <2>2
<1> QED
    BY <1>1, <1>4, <1>5

\* What a relayed message does to the sockets.
LEMMA RelayNet ==
    ASSUME Inv, CalmInv, NEW u \in User, Relay(u), NEW m, m = Head(up[u])
    PROVE  /\ m \in MessageOf(PcIds) /\ m.to \in User \cup {None}
           /\ IsToken(m) => m \in Tokens(up[u]) /\ Tokens(up'[u]) = Tokens(up[u]) \ {m}
           /\ ~IsToken(m) => Tokens(up'[u]) = Tokens(up[u])
           /\ \A w \in User \ {u} : up'[w] = up[w]
           /\ \A w \in User : w # m.to => down'[w] = down[w]
           /\ \/ down' = down
              \/ /\ m.to \in User
                 /\ IsToken(m) => Tokens(down'[m.to]) = Tokens(down[m.to]) \cup {m}
                 /\ ~IsToken(m) => Tokens(down'[m.to]) = Tokens(down[m.to])
           /\ \A w \in User : Net(w)' /\ Told(down'[w]) = Told(down[w])
           /\ UNCHANGED <<phone, pcs, tasks, sockets>>
<1> DEFINE Delivered == m.to # None /\ home[m.to] = home[u]
<1>1. /\ up[u] # <<>> /\ up' = [up EXCEPT ![u] = Tail(up[u])] /\ conn[u] = "open"
      /\ ~Delivered => down' = down
      /\ Delivered => down' = [down EXCEPT ![m.to] = Written(m.to, m)]
      /\ UNCHANGED <<phone, pcs, tasks, sockets>>
    BY DEF Relay
<1>2. up[u] \in Seq(MessageOf(PcIds)) /\ DOMAIN up = User /\ DOMAIN down = User
    BY Domains
<1>3. m \in MessageOf(PcIds)
    BY <1>1, <1>2
<1>4. /\ m.to \in User \cup {None}
      /\ m.type \notin {"match", "closed", "server_shutdown"}
      /\ Delivered => m.to \in User
    BY <1>3 DEF MessageOf
<1> HIDE DEF Delivered
<1>5. up'[u] = Tail(up[u]) /\ \A w \in User \ {u} : up'[w] = up[w]
    BY <1>1, <1>2
<1>6. Net(u) /\ Tidy(up[u])
    BY DEF CalmInv, Net
<1>7. /\ IsToken(m) => m \in Tokens(up[u]) /\ Tokens(up'[u]) = Tokens(up[u]) \ {m}
      /\ ~IsToken(m) => Tokens(up'[u]) = Tokens(up[u])
      /\ Tidy(up'[u]) /\ Tokens(up'[u]) \subseteq Tokens(up[u])
    BY <1>1, <1>2, <1>5, <1>6, TailOf
<1>8. \A w \in User : (w # m.to \/ ~Delivered) => down'[w] = down[w]
    BY <1>1, <1>2
<1>9. ASSUME Delivered
      PROVE  /\ m.to \in User
             /\ down'[m.to] = Written(m.to, m)
             /\ IsToken(m) => /\ Steady(m.to) /\ Hears(m.to)
                              /\ m \notin Tokens(down[m.to])
    <2>1. m.to \in User /\ m.to # None
        BY <1>4, <1>9 DEF Delivered
    <2> QED
        BY <1>1, <1>2, <1>7, <1>9, <2>1, RelayedToken
<1>10. ASSUME Delivered
       PROVE  /\ IsToken(m) => Tokens(down'[m.to]) = Tokens(down[m.to]) \cup {m}
              /\ ~IsToken(m) => Tokens(down'[m.to]) = Tokens(down[m.to])
              /\ Tidy(down'[m.to]) /\ Quiet(down'[m.to]) /\ ToldOnce(down'[m.to])
              /\ Told(down'[m.to]) = Told(down[m.to])
              /\ phone[m.to].chan # "open" => down'[m.to] = down[m.to]
    <2>1. down[m.to] \in Seq(HeardOf(PcIds)) /\ m \in HeardOf(PcIds)
        BY <1>3, <1>9, <1>10, Domains DEF HeardOf
    <2>2. Tidy(down[m.to]) /\ Quiet(down[m.to]) /\ ToldOnce(down[m.to])
        BY <1>9, <1>10 DEF CalmInv, Net
    <2>3. /\ IsToken(m) => Tokens(Append(down[m.to], m)) = Tokens(down[m.to]) \cup {m}
          /\ ~IsToken(m) => Tokens(Append(down[m.to], m)) = Tokens(down[m.to])
          /\ (IsToken(m) => m \notin Tokens(down[m.to])) => Tidy(Append(down[m.to], m))
          /\ Quiet(Append(down[m.to], m)) /\ ToldOnce(Append(down[m.to], m))
          /\ Told(Append(down[m.to], m)) = Told(down[m.to])
        BY <1>4, <2>1, <2>2, AppendOf
    <2>4. CASE Hears(m.to)
        <3>1. down'[m.to] = Append(down[m.to], m) /\ phone[m.to].chan = "open"
            BY <1>9, <1>10, <2>4 DEF Written, Hears
        <3> QED
            BY <1>9, <1>10, <2>3, <3>1
    <2>5. CASE ~Hears(m.to)
        <3>1. down'[m.to] = down[m.to]
            BY <1>9, <1>10, <2>5 DEF Written
        <3> QED
            BY <1>9, <1>10, <2>2, <2>5, <3>1
    <2> QED
        BY <2>4, <2>5
<1>11. ASSUME NEW w \in User
       PROVE  Net(w)' /\ Told(down'[w]) = Told(down[w])
    <2>1. Net(w)
        BY DEF CalmInv
    <2>2. /\ phone'[w] = phone[w] /\ pcs'[w] = pcs[w] /\ tasks'[w] = tasks[w]
          /\ conn'[w] = conn[w] /\ news'[w] = news[w] /\ waiting' = waiting
        BY <1>1 DEF sockets
    <2>3. /\ Tidy(up'[w]) /\ Tokens(up'[w]) \subseteq Tokens(up[w])
          /\ conn[w] = "none" => up'[w] = <<>>
        BY <1>1, <1>5, <1>7, <2>1 DEF Net
    <2>4. /\ Tidy(down'[w]) /\ Quiet(down'[w]) /\ ToldOnce(down'[w])
          /\ Told(down'[w]) = Told(down[w])
          /\ phone[w].chan # "open" => down'[w] = <<>>
        BY <1>8, <1>10, <2>1 DEF Net
    <2>5. (Fresh(w) /\ (w \in waiting \/ phone[w].chan = "connecting")) => Fresh(w)'
        <3>1. ASSUME w \in waiting \/ phone[w].chan = "connecting"
              PROVE  Tokens(down'[w]) = Tokens(down[w])
            <4>1. ~Steady(w)
                BY <3>1 DEF Steady
            <4> QED
                BY <1>8, <1>9, <1>10, <4>1
        <3>2. Pends(w)' = Pends(w)
            BY <2>2, <2>4 DEF Pends
        <3> QED
            BY <2>2, <2>3, <3>1, <3>2 DEF Fresh, Listening, Cur, Pc, HasToken, Exchange
    <2> QED
        BY <2>1, <2>2, <2>3, <2>4, <2>5 DEF Net
<1>12. \A w \in User : w # m.to => down'[w] = down[w]
    BY <1>8
<1>13. CASE Delivered
    BY <1>1, <1>3, <1>4, <1>5, <1>7, <1>9, <1>10, <1>11, <1>12, <1>13
<1>14. CASE ~Delivered
    BY <1>1, <1>3, <1>4, <1>5, <1>7, <1>11, <1>12, <1>14
<1> QED
    BY <1>13, <1>14

\* A phone of which only messages on their way change, and no match.
Stays(w) ==
    /\ phone'[w] = phone[w] /\ pcs'[w] = pcs[w] /\ tasks'[w] = tasks[w]
    /\ conn'[w] = conn[w] /\ news'[w] = news[w] /\ waiting' = waiting
    /\ Told(down'[w]) = Told(down[w])

\* Only messages to or from a phone change.
LEMMA StaysSteady ==
    ASSUME NEW w \in User, Stays(w)
    PROVE  /\ Steady(w) => Steady(w)'
           /\ Pc(w)' = Pc(w) /\ Cur(w)' = Cur(w) /\ Exchange(w)' = Exchange(w)
           /\ Pends(w)' = Pends(w)
           /\ Held(w) => Held(w)'
           /\ (Tokens(up'[w]) = Tokens(up[w]) /\ Tokens(down'[w]) = Tokens(down[w]))
                 => Keeps(w)
<1>1. Pends(w)' = Pends(w)
    BY DEF Stays, Pends
<1> QED
    BY <1>1 DEF Stays, Steady, Listening, Pc, Cur, Exchange, Held, Does, Keeps

\* The offer is relayed.
LEMMA OfferRelayed ==
    ASSUME Inv, NEW a \in User, NEW b \in User, Baton(a, b, 4), a # b,
           Stays(a), Stays(b),
           Tokens(up'[a]) = {}, Tokens(down'[a]) = Tokens(down[a]),
           Tokens(up'[b]) = Tokens(up[b]),
           Tokens(down'[b]) = Tokens(down[b]) \cup {Offered(a, b)}
    PROVE  Baton(a, b, 5)'
<1>1. /\ Steady(a) => Steady(a)' /\ Pc(a)' = Pc(a) /\ Cur(a)' = Cur(a)
      /\ Steady(b) => Steady(b)' /\ Pc(b)' = Pc(b) /\ Cur(b)' = Cur(b)
      /\ Pends(a)' = Pends(a) /\ Pends(b)' = Pends(b)
      /\ phone'[a] = phone[a] /\ tasks'[a] = tasks[a]
      /\ phone'[b] = phone[b] /\ tasks'[b] = tasks[b]
    BY StaysSteady DEF Stays
<1>2. /\ Steady(a) /\ a < b /\ Cur(a).sig = "local" /\ phone[a].remote = b
      /\ tasks[a] = {} /\ Tokens(down[a]) = {} /\ Pends(a) = {}
    BY DEF Baton, Offerer
<1>3. /\ Steady(b) /\ Cur(b).sig = "stable" /\ Tokens(up[b]) = {} /\ tasks[b] = {}
      /\ Tokens(down[b]) \subseteq {Offered(a, b)} /\ Pends(b) \subseteq {a}
      /\ a \in Pends(b) \/ phone[b].remote = a
    BY DEF Baton, Answerer
<1>4. Offered(a, b)' = Offered(a, b)
    BY <1>1, <1>2 DEF Offered, Id
<1>5. Offerer(a, b, 5)'
    BY <1>1, <1>2 DEF Offerer
<1>6. Answerer(b, a, 5)'
    <2>1. /\ Tokens(down'[b]) \subseteq {Offered(a, b)}
          /\ Offered(a, b) \in Tokens(down'[b])
        BY <1>1, <1>3
    <2> QED
        BY <1>1, <1>3, <1>4, <2>1 DEF Answerer
<1> QED
    BY <1>5, <1>6 DEF Baton

\* The answer is relayed.
LEMMA AnswerRelayed ==
    ASSUME Inv, RemGrows, NEW a \in User, NEW b \in User, Baton(a, b, 8), a # b,
           Stays(a), NEW m, IsAnswer(m, a),
           Tokens(up'[a]) = Tokens(up[a]), Tokens(down'[a]) = {m}
    PROVE  Baton(a, b, 9)'
<1>1. /\ Steady(a) => Steady(a)' /\ Pc(a)' = Pc(a) /\ Cur(a)' = Cur(a)
      /\ phone'[a] = phone[a] /\ tasks'[a] = tasks[a] /\ Pends(a)' = Pends(a)
    BY StaysSteady DEF Stays
<1>2. /\ Steady(a) /\ a < b /\ Cur(a).sig = "local" /\ phone[a].remote = b
      /\ tasks[a] = {} /\ Tokens(up[a]) = {} /\ Pends(a) = {}
    BY DEF Baton, Offerer
<1>3. IsAnswer(m, a)'
    <2>1. m.type = "answer" /\ Answers(m.by, a) /\ Pc(a)' = Pc(a)
        BY <1>1, <1>2 DEF IsAnswer
    <2>2. Answers(m.by, a)'
        BY <2>1, AnswersStay
    <2> QED
        BY <2>1, <2>2 DEF IsAnswer
<1>4. Offerer(a, b, 9)'
    <2>1. \E x : Tokens(down'[a]) = {x} /\ IsAnswer(x, a)'
        BY <1>3
    <2> QED
        BY <1>1, <1>2, <2>1 DEF Offerer
<1>5. Answerer(b, a, 9)'
    BY DEF Answerer
<1> QED
    BY <1>4, <1>5 DEF Baton

\* The server relays an offer, or drops it.
LEMMA OfferHandled ==
    ASSUME Inv, NEW a \in User, NEW b \in User, Baton(a, b, 4), a # b,
           Stays(a), Stays(b),
           Tokens(up'[a]) = {}, Tokens(down'[a]) = Tokens(down[a]),
           Tokens(up'[b]) = Tokens(up[b]),
           \/ Tokens(down'[b]) = Tokens(down[b])
           \/ Tokens(down'[b]) = Tokens(down[b]) \cup {Offered(a, b)}
    PROVE  Baton(a, b, 5)' \/ (~HasToken(a)' /\ ~HasToken(b)')
<1>1. CASE Tokens(down'[b]) = Tokens(down[b]) \cup {Offered(a, b)}
    BY <1>1, OfferRelayed
<1>2. CASE Tokens(down'[b]) = Tokens(down[b])
    <2>1. tasks[a] = {} /\ Tokens(down[a]) = {} /\ Pends(a) = {} /\ a < b
        BY DEF Baton, Offerer
    <2>2. /\ tasks[b] = {} /\ Tokens(up[b]) = {} /\ Pends(b) \subseteq {a}
          /\ Tokens(down[b]) = {}
        BY DEF Baton, Answerer
    <2>3. /\ Exchange(a)' = {} /\ Pends(a)' = {}
          /\ Exchange(b)' = {} /\ Pends(b)' \subseteq {a}
        BY <2>1, <2>2, StaysSteady DEF Exchange
    <2>4. ~(b < a)
        BY <2>1, SignalingAssumption
    <2> QED
        BY <1>2, <2>1, <2>2, <2>3, <2>4 DEF HasToken
<1> QED
    BY <1>1, <1>2

\* The server relays an answer, or drops it.
LEMMA AnswerHandled ==
    ASSUME Inv, RemGrows, NEW a \in User, NEW b \in User, Baton(a, b, 8), a # b,
           Stays(a), Stays(b), NEW m \in Tokens(up[b]),
           Tokens(up'[b]) = Tokens(up[b]) \ {m}, Tokens(down'[b]) = Tokens(down[b]),
           Tokens(up'[a]) = Tokens(up[a]),
           \/ Tokens(down'[a]) = Tokens(down[a])
           \/ Tokens(down'[a]) = Tokens(down[a]) \cup {m}
    PROVE  ~HasToken(b)' /\ (Baton(a, b, 9)' \/ ~HasToken(a)')
<1>1. /\ tasks[a] = {} /\ Tokens(up[a]) = {} /\ Tokens(down[a]) = {}
      /\ Pends(a) = {} /\ a < b
    BY DEF Baton, Offerer
<1>2. /\ Exchange(b) = {} /\ Tokens(down[b]) = {} /\ Pends(b) \subseteq {a}
      /\ \E x : Tokens(up[b]) = {x} /\ IsAnswer(x, a)
    BY DEF Baton, Answerer
<1>3. Tokens(up[b]) = {m} /\ IsAnswer(m, a)
    BY <1>2
<1>4. ~(b < a)
    BY <1>1, SignalingAssumption
<1>5. /\ Exchange(a)' = {} /\ Pends(a)' = {}
      /\ Exchange(b)' = {} /\ Pends(b)' \subseteq {a}
    BY <1>1, <1>2, StaysSteady DEF Exchange
<1>6. ~HasToken(b)'
    BY <1>2, <1>3, <1>4, <1>5 DEF HasToken
<1>7. CASE Tokens(down'[a]) = Tokens(down[a])
    BY <1>1, <1>5, <1>6, <1>7 DEF HasToken
<1>8. CASE Tokens(down'[a]) = Tokens(down[a]) \cup {m}
    <2>1. Tokens(down'[a]) = {m}
        BY <1>1, <1>8
    <2> QED
        BY <1>3, <1>6, <2>1, AnswerRelayed
<1> QED
    BY <1>7, <1>8

\* The server relays a message.
LEMMA RelayCalm == ASSUME Inv, CalmInv, NEW u \in User, Relay(u) PROVE CalmInv'
<1>1. PICK m : m = Head(up[u])
    OBVIOUS
<1>2. /\ m \in MessageOf(PcIds) /\ m.to \in User \cup {None}
      /\ IsToken(m) => m \in Tokens(up[u]) /\ Tokens(up'[u]) = Tokens(up[u]) \ {m}
      /\ ~IsToken(m) => Tokens(up'[u]) = Tokens(up[u])
      /\ \A w \in User \ {u} : up'[w] = up[w]
      /\ \A w \in User : w # m.to => down'[w] = down[w]
      /\ \/ down' = down
         \/ /\ m.to \in User
            /\ IsToken(m) => Tokens(down'[m.to]) = Tokens(down[m.to]) \cup {m}
            /\ ~IsToken(m) => Tokens(down'[m.to]) = Tokens(down[m.to])
      /\ \A w \in User : Net(w)' /\ Told(down'[w]) = Told(down[w])
      /\ UNCHANGED <<phone, pcs, tasks, sockets>>
    BY <1>1, RelayNet
<1>3. RemStays
    BY <1>2 DEF RemStays, Rem, PcIds
<1>4. RemGrows /\ Fit'
    BY <1>3, FitStays DEF RemStays, RemGrows, CalmInv
<1>5. \A w \in User : Stays(w)
    BY <1>2 DEF Stays, sockets
<1>6. \A w \in User : Held(w)'
    BY <1>5, StaysSteady DEF CalmInv
<1>7. CASE ~IsToken(m)
    <2>1. \A w \in User : Tokens(up'[w]) = Tokens(up[w])
                          /\ Tokens(down'[w]) = Tokens(down[w])
        BY <1>2, <1>7
    <2>2. \A w \in User : Keeps(w)
        BY <1>5, <2>1, StaysSteady
    <2>3. BatonInv'
        BY <1>4, <2>2, BatonsStay DEF CalmInv
    <2> QED
        BY <1>2, <1>4, <1>6, <2>3 DEF CalmInv
<1>8. CASE IsToken(m)
    <2>1. PICK a \in User, b \in User, p \in Phase :
              /\ Baton(a, b, p) /\ u \in Party(a, b, p)
              /\ \/ u = a /\ p = 4 /\ m = Offered(a, b)
                 \/ u = b /\ p = 8 /\ IsAnswer(m, a) /\ m.to \in {a, None}
        BY <1>2, <1>8, UpParty
    <2>2. a # b /\ p <= 8 /\ Party(a, b, p) = {a, b} /\ 5 \in Phase /\ 9 \in Phase
        BY <2>1, SteadyParties DEF Party, Phase
    <2>3. m.to \in {a, b, None}
        BY <2>1 DEF Offered
    <2>4. \A w \in User \ {a, b} : Keeps(w)
        <3>1. ASSUME NEW w \in User \ {a, b}
              PROVE  up'[w] = up[w] /\ down'[w] = down[w]
            BY <1>2, <2>1, <2>3, SignalingAssumption
        <3> QED
            BY <1>5, <3>1, StaysSteady
    <2>5. \A x \in Party(a, b, p) : HasToken(x)' =>
              \E c, d \in User, r \in Phase : Baton(c, d, r)' /\ x \in Party(c, d, r)
        <3>1. CASE u = a /\ p = 4 /\ m = Offered(a, b)
            <4>1. m.to = b
                BY <3>1 DEF Offered
            <4>2. Baton(a, b, 4) /\ Tokens(up[a]) = {m}
                BY <2>1, <3>1 DEF Baton, Offerer
            <4>3. /\ Tokens(up'[a]) = {} /\ Tokens(down'[a]) = Tokens(down[a])
                  /\ Tokens(up'[b]) = Tokens(up[b])
                  /\ \/ Tokens(down'[b]) = Tokens(down[b])
                     \/ Tokens(down'[b]) = Tokens(down[b]) \cup {Offered(a, b)}
                BY <1>2, <1>8, <2>2, <3>1, <4>1, <4>2
            <4>4. Baton(a, b, 5)' \/ (~HasToken(a)' /\ ~HasToken(b)')
                BY <1>5, <2>2, <4>2, <4>3, OfferHandled
            <4>5. Party(a, b, 5) = {a, b}
                BY DEF Party
            <4> QED
                BY <2>2, <4>4, <4>5
        <3>2. CASE u = b /\ p = 8 /\ IsAnswer(m, a) /\ m.to \in {a, None}
            <4>1. Baton(a, b, 8) /\ m.to # b
                BY <2>1, <2>2, <3>2, SignalingAssumption
            <4>2. /\ Tokens(up'[b]) = Tokens(up[b]) \ {m} /\ m \in Tokens(up[b])
                  /\ Tokens(down'[b]) = Tokens(down[b]) /\ Tokens(up'[a]) = Tokens(up[a])
                  /\ \/ Tokens(down'[a]) = Tokens(down[a])
                     \/ Tokens(down'[a]) = Tokens(down[a]) \cup {m}
                BY <1>2, <1>8, <2>2, <3>2, <4>1
            <4>3. ~HasToken(b)' /\ (Baton(a, b, 9)' \/ ~HasToken(a)')
                BY <1>4, <1>5, <2>2, <4>1, <4>2, AnswerHandled
            <4>4. a \in Party(a, b, 9)
                BY DEF Party
            <4> QED
                BY <2>2, <4>3, <4>4
        <3> QED
            BY <2>1, <3>1, <3>2
    <2>6. \A x \in User \ Party(a, b, p) : Keeps(x) \/ Loose(x)
        BY <2>2, <2>4
    <2>7. BatonInv'
        BY <1>4, <2>1, <2>5, <2>6, BatonMoves DEF CalmInv
    <2> QED
        BY <1>2, <1>4, <1>6, <2>7 DEF CalmInv
<1> QED
    BY <1>7, <1>8

\* Whoever waits takes part in no exchange.
LEMMA WaitingNoParty ==
    ASSUME Inv, CalmInv, NEW w \in waiting,
           NEW c \in User, NEW d \in User, NEW r \in Phase, Baton(c, d, r)
    PROVE  w \notin Party(c, d, r)
<1>1. w \in User /\ Fresh(w)
    <2>1. w \in User
        BY DEF Inv, Rest1, Sockets
    <2> QED
        BY <2>1 DEF CalmInv, Net
<1>2. w # c /\ (r <= 6 => w # d)
    BY SteadyParties DEF Steady
<1>3. ASSUME r = 7 \/ r = 8
      PROVE  w # d
    <2>1. HasToken(d)
        BY <1>3, AnswererHas DEF Baton, HasToken
    <2> QED
        BY <1>1, <2>1 DEF Fresh
<1>4. r <= 8 => r <= 6 \/ r = 7 \/ r = 8
    BY DEF Phase
<1> QED
    BY <1>2, <1>3, <1>4 DEF Party

\* A waiting user is matched.
LEMMA MatchedUser ==
    ASSUME Inv, CalmInv, NEW u \in waiting, NEW v \in User,
           u \notin waiting', news'[u] = v,
           UNCHANGED <<phone, pcs, tasks, conn, up, down>>
    PROVE  /\ u \in User /\ Steady(u)' /\ (Cur(u).sig)' = "stable"
           /\ tasks'[u] = {} /\ Tokens(up'[u]) = {} /\ Tokens(down'[u]) = {}
           /\ Pends(u)' = {v}
           /\ Net(u)' /\ Held(u)'
<1>1. u \in User /\ v # None
    BY SignalingAssumption DEF Inv, Rest1, Sockets
<1>2. Net(u) /\ Held(u) /\ Fresh(u) /\ phone[u].chan = "open" /\ conn[u] = "open"
    BY <1>1 DEF CalmInv, Net
<1>3. /\ Tokens(down[u]) = {} /\ Tokens(up[u]) = {} /\ tasks[u] = {}
      /\ Told(down[u]) = {} /\ Cur(u).sig = "stable"
    BY <1>2 DEF Fresh, HasToken, Pends
<1>4. Pends(u)' = {v}
    BY <1>1, <1>3 DEF Pends
<1>5. Steady(u)' /\ (Cur(u).sig)' = "stable"
    BY <1>2 DEF Fresh, Steady, Listening, Cur, Pc
<1>6. Net(u)'
    BY <1>2, <1>3 DEF Net
<1>7. Held(u)'
    BY <1>2, <1>3, <1>5 DEF Held, Cur, Pc, Does
<1> QED
    BY <1>1, <1>3, <1>4, <1>5, <1>6, <1>7

\* Two are matched; the one with the lower id will make the offer.
LEMMA MatchedCalm ==
    ASSUME Inv, CalmInv, NEW a \in waiting, NEW b \in waiting, a < b,
           waiting' = waiting \ {a, b}, news'[a] = b, news'[b] = a,
           \A w \in User \ {a, b} : news'[w] = news[w],
           UNCHANGED <<phone, pcs, tasks, conn, up, down>>
    PROVE  CalmInv'
<1>1. a \in User /\ b \in User /\ a # b
    BY SignalingAssumption DEF Inv, Rest1, Sockets
<1>2. /\ Steady(a)' /\ (Cur(a).sig)' = "stable"
      /\ tasks'[a] = {} /\ Tokens(up'[a]) = {} /\ Tokens(down'[a]) = {}
      /\ Pends(a)' = {b} /\ Net(a)' /\ Held(a)'
    <2>1. a \notin waiting'
        OBVIOUS
    <2> QED
        BY <1>1, <2>1, MatchedUser
<1>3. /\ Steady(b)' /\ (Cur(b).sig)' = "stable"
      /\ tasks'[b] = {} /\ Tokens(up'[b]) = {} /\ Tokens(down'[b]) = {}
      /\ Pends(b)' = {a} /\ Net(b)' /\ Held(b)'
    <2>1. b \notin waiting'
        OBVIOUS
    <2> QED
        BY <1>1, <2>1, MatchedUser
<1>4. RemStays
    BY DEF RemStays, Rem, PcIds
<1>5. RemGrows /\ Fit'
    BY <1>4, FitStays DEF RemStays, RemGrows, CalmInv
<1>6. ASSUME NEW w \in User \ {a, b}
      PROVE  Same(w)
    BY <1>6 DEF Same
<1>7. \A w \in User \ {a, b} : Keeps(w) /\ Net(w)' /\ Held(w)'
    BY <1>6, SameKeeps, SameNet, SameHeld DEF CalmInv
<1>8. \A w \in User : Net(w)' /\ Held(w)'
    BY <1>2, <1>3, <1>7
<1>9. Offerer(a, b, 1)'
    BY <1>2 DEF Offerer
<1>10. Answerer(b, a, 1)'
    BY <1>3 DEF Answerer
<1>11. Baton(a, b, 1)' /\ 1 \in Phase /\ Party(a, b, 1) = {a, b}
    BY <1>9, <1>10 DEF Baton, Party, Phase
<1>12. BatonInv'
    <2>1. \A c, d \in User : \A r \in Phase :
              Baton(c, d, r) => \/ Party(c, d, r) \cap {a, b} = {}
                                \/ Party(c, d, r) \subseteq {a, b}
        BY WaitingNoParty
    <2>2. \A x \in User \cap {a, b} : HasToken(x)' =>
              \E c, d \in User, r \in Phase : Baton(c, d, r)' /\ x \in Party(c, d, r)
        BY <1>1, <1>11
    <2>3. \A x \in User \ {a, b} : Keeps(x) \/ Loose(x)
        BY <1>7
    <2> QED
        BY <1>5, <2>1, <2>2, <2>3, BatonsMove DEF CalmInv
<1> QED
    BY <1>5, <1>8, <1>12 DEF CalmInv

\* The server matches two.
LEMMA MatchCalm ==
    ASSUME Inv, CalmInv, NEW u \in User, NEW v \in User, Match(u, v)
    PROVE  CalmInv'
<1>1. /\ u \in waiting /\ v \in waiting /\ u # v /\ waiting' = waiting \ {u, v}
      /\ news' = [news EXCEPT ![u] = v, ![v] = u]
      /\ UNCHANGED <<phone, pcs, tasks, conn, up, down>>
    BY DEF Match
<1>2. /\ news'[u] = v /\ news'[v] = u
      /\ \A w \in User \ {u, v} : news'[w] = news[w]
    BY <1>1, Domains
<1>3. waiting' = waiting \ {v, u} /\ \A w \in User \ {v, u} : news'[w] = news[w]
    BY <1>1, <1>2
<1>4. u < v \/ v < u
    BY <1>1, SignalingAssumption
<1>5. CASE u < v
    BY <1>1, <1>2, <1>5, MatchedCalm
<1>6. CASE v < u
    BY <1>1, <1>2, <1>3, <1>6, MatchedCalm
<1> QED
    BY <1>4, <1>5, <1>6

\* A match that was published is forwarded to its user, or lost with a phone
\* that has hung up.
LEMMA TellCalm == ASSUME Inv, CalmInv, NEW u \in User, Tell(u) PROVE CalmInv'
<1>1. /\ news[u] # None /\ news' = [news EXCEPT ![u] = None]
      /\ down' = [down EXCEPT ![u] = Written(u, [type |-> "match", from |-> news[u]])]
      /\ UNCHANGED <<phone, pcs, tasks, conn, waiting, up>>
    BY DEF Tell
<1>2. PICK v, m : v = news[u] /\ m = [type |-> "match", from |-> v]
    OBVIOUS
<1>3. /\ m.type = "match" /\ m.from = v /\ ~IsToken(m)
      /\ m.type \notin {"closed", "server_shutdown"}
    BY <1>2 DEF IsToken
<1>4. v \in User /\ news'[u] = None /\ down'[u] = Written(u, m)
    BY <1>1, <1>2, Domains DEF Inv, Rest1, Sockets
<1>5. down[u] \in Seq(HeardOf(PcIds)) /\ m \in HeardOf(PcIds)
    BY <1>2, <1>4, Domains DEF HeardOf, FromServer
<1>6. Net(u) /\ Held(u)
    BY DEF CalmInv
<1>7. /\ Told(down[u]) = {} /\ ToldOnce(down[u]) /\ Tidy(down[u]) /\ Quiet(down[u])
      /\ Pends(u) = {v}
    BY <1>1, <1>2, <1>6 DEF Net, Pends
<1>8. ~Fresh(u) /\ u \notin waiting /\ phone[u].chan # "connecting"
    BY <1>6, <1>7 DEF Net, Fresh
<1>9. /\ Tokens(down'[u]) = Tokens(down[u])
      /\ Tidy(down'[u]) /\ Quiet(down'[u]) /\ ToldOnce(down'[u])
      /\ Told(down'[u]) \subseteq {v}
      /\ Hears(u) => Told(down'[u]) = {v}
      /\ phone[u].chan # "open" => down'[u] = down[u]
    <2>1. CASE Hears(u)
        <3>1. down'[u] = Append(down[u], m) /\ phone[u].chan = "open"
            BY <1>4, <2>1 DEF Written, Hears
        <3> QED
            BY <1>3, <1>5, <1>7, <3>1, AppendOf
    <2>2. CASE ~Hears(u)
        <3>1. down'[u] = down[u]
            BY <1>4, <2>2 DEF Written
        <3> QED
            BY <1>7, <2>2, <3>1
    <2> QED
        BY <2>1, <2>2
<1>10. Pends(u)' = Told(down'[u])
    BY <1>4 DEF Pends
<1>11. /\ phone'[u] = phone[u] /\ pcs'[u] = pcs[u] /\ tasks'[u] = tasks[u]
       /\ conn'[u] = conn[u] /\ up'[u] = up[u]
       /\ Pc(u)' = Pc(u) /\ Cur(u)' = Cur(u) /\ Exchange(u)' = Exchange(u)
    BY <1>1 DEF Pc, Cur, Exchange
<1>12. Net(u)'
    BY <1>1, <1>4, <1>6, <1>8, <1>9, <1>11 DEF Net
<1>13. Held(u)'
    <2>1. Pends(u)' \subseteq Pends(u)
        BY <1>7, <1>9, <1>10
    <2> QED
        BY <1>6, <1>11, <2>1 DEF Held, Does
<1>14. OnlyUser(u)
    BY <1>1, Domains DEF OnlyUser, Same
<1>15. RemStays
    BY <1>1 DEF RemStays, Rem, PcIds
<1>16. CASE Hears(u)
    <2>1. Pends(u)' = Pends(u)
        BY <1>7, <1>9, <1>10, <1>16
    <2>2. Steady(u) => Steady(u)'
        BY <1>1, <1>11 DEF Steady, Listening
    <2>3. Keeps(u)
        BY <1>9, <1>11, <2>1, <2>2 DEF Keeps
    <2> QED
        BY <1>12, <1>13, <1>14, <1>15, <2>3, ByTheWay
<1>17. CASE ~Hears(u)
    <2>1. ~Steady(u)
        BY <1>6, <1>17 DEF Net, Hears, Steady
    <2>2. Loose(u)
        BY <1>7, <1>9, <1>10, <1>11, <2>1 DEF Loose
    <2> QED
        BY <1>12, <1>13, <1>14, <1>15, <2>2, ByTheWay
<1> QED
    BY <1>16, <1>17

-----------------------------------------------------------------------------
(***************************************************************************)
(* Calm behaviours: every step.                                            *)
(***************************************************************************)
\* What goes wrong is counted, and what may go wrong is decided beforehand.
LEMMA StaysCalm ==
    ASSUME Inv, [Next]_vars, Calm'
    PROVE  Calm /\ ~Fault /\ drains' = 0
<1>1. faults \in Nat /\ drains \in Nat /\ env.faults \in Nat /\ env.drains \in Nat
    BY SignalingAssumption DEF Inv, Rest1
<1>2. faults' = 0 /\ drains' = 0
    BY DEF Calm
<1>3. ~Fault
    BY <1>1, <1>2 DEF Fault
<1>4. \/ UNCHANGED <<faults, drains, env>> \/ drains' = drains + 1
    <2>1. CASE UNCHANGED vars
        BY <2>1 DEF vars
    <2>2. ASSUME NEW u \in User, Acts(u)
          PROVE  UNCHANGED <<faults, drains, env>> \/ drains' = drains + 1
        <3>1. CASE Join(u) \/ EndCall(u) \/ Swipe(u) \/ Report(u)
            BY <3>1 DEF Join, EndCall, Swipe, FindNextMatch, Report, bounds
        <3>2. CASE \E t \in tasks[u] : AnswerSheet(u, t) \/ Submitted(u, t)
            BY <3>2 DEF AnswerSheet, Submitted, FindNextMatch, bounds
        <3>3. ~Kill(u) /\ ~Refuse(u) /\ ~Lose(u)
            BY <1>3 DEF Kill, Refuse, Lose
        <3>4. ~\E t \in tasks[u] : GiveUp(u, t)
            BY <1>3 DEF GiveUp
        <3>5. ~\E n \in DOMAIN pcs[u] : IceFails(u, n)
            BY <1>3 DEF IceFails
        <3>6. CASE Drain(u)
            BY <3>6 DEF Drain
        <3> QED
            BY <2>2, <3>1, <3>2, <3>3, <3>4, <3>5, <3>6 DEF Acts
    <2>3. ASSUME Proceeds
          PROVE  UNCHANGED <<faults, drains, env>>
        <3>1. PICK u \in User :
                  \/ Accept(u) \/ Tell(u) \/ Relay(u) \/ Cleanup(u)
                  \/ Receive(u) \/ Reports(u)
                  \/ \E t \in tasks[u] : Works(u, t)
                  \/ \E v \in User : Match(u, v)
            BY <2>3 DEF Proceeds
        <3>2. CASE Accept(u) \/ Tell(u) \/ Relay(u) \/ Cleanup(u)
            BY <3>2 DEF Accept, Tell, Relay, Cleanup, bounds
        <3>3. CASE Receive(u)
            BY <3>3 DEF Receive, GetMatch, GetOffer, GetAnswer, GetCandidate, GetBye,
               GetClosed, GetShutdown, bounds
        <3>4. CASE Reports(u)
            BY <3>4 DEF Reports, Gather, Track, PeerGone, bounds
        <3>5. CASE \E t \in tasks[u] : Works(u, t)
            BY <3>5 DEF Works, SetOffer, SendDescription, Make, Apply, Resume,
               SetAnswer, Create, Slide, Reconnect, bounds
        <3>6. CASE \E v \in User : Match(u, v)
            BY <3>6 DEF Match
        <3> QED
            BY <3>1, <3>2, <3>3, <3>4, <3>5, <3>6
    <2> QED
        BY <2>1, <2>2, <2>3 DEF Next
<1>5. UNCHANGED <<faults, drains, env>>
    BY <1>1, <1>2, <1>4
<1> QED
    BY <1>2, <1>3, <1>5 DEF Calm

\* A user acts.
LEMMA ActsCalm ==
    ASSUME Inv, CalmInv, Calm, ~Fault, drains' = 0, NEW u \in User, Acts(u)
    PROVE  CalmInv'
<1>1. ~Kill(u) /\ ~Refuse(u) /\ ~Lose(u)
    BY DEF Kill, Refuse, Lose
<1>2. ~\E t \in tasks[u] : GiveUp(u, t)
    BY DEF GiveUp
<1>3. ~\E n \in DOMAIN pcs[u] : IceFails(u, n)
    BY DEF IceFails
<1>4. ~Drain(u)
    BY DEF Drain, Calm
<1>5. CASE Join(u)
    BY <1>5, JoinCalm
<1>6. CASE EndCall(u)
    BY <1>6, EndCallCalm
<1>7. CASE Swipe(u)
    BY <1>7, SwipeCalm
<1>8. CASE Report(u)
    BY <1>8, ReportCalm
<1>9. CASE \E t \in tasks[u] : AnswerSheet(u, t) \/ Submitted(u, t)
    BY <1>9, AnswerSheetCalm, SubmittedCalm
<1> QED
    BY <1>1, <1>2, <1>3, <1>4, <1>5, <1>6, <1>7, <1>8, <1>9 DEF Acts

\* A phone receives a message; its server has not closed the websocket.
LEMMA ReceiveCalm == ASSUME Inv, CalmInv, NEW u \in User, Receive(u) PROVE CalmInv'
<1>1. ~GetClosed(u) /\ ~GetShutdown(u)
    <2>1. down[u] \in Seq(HeardOf(PcIds)) /\ Quiet(down[u])
        BY Domains DEF CalmInv, Net
    <2>2. down[u] # <<>> => 1 \in DOMAIN down[u] /\ Head(down[u]) = down[u][1]
        BY <2>1
    <2> QED
        BY <2>1, <2>2 DEF Quiet, GetClosed, GetShutdown, Gets
<1> QED
    BY <1>1, GetMatchCalm, GetOfferCalm, GetAnswerCalm, GetCandidateCalm, GetByeCalm
    DEF Receive

\* A method goes on.
LEMMA WorksCalm ==
    ASSUME Inv, CalmInv, NEW u \in User, NEW t \in tasks[u], Works(u, t)
    PROVE  CalmInv'
<1>1. ~Make(u, t) /\ ~Reconnect(u, t)
    BY DEF CalmInv, Net, Make, Reconnect
<1> QED
    BY <1>1, SetOfferCalm, SendDescriptionCalm, ApplyCalm, ResumeCalm, SetAnswerCalm,
       CreateCalm, SlideCalm DEF Works

\* Something proceeds.
LEMMA ProceedsCalm == ASSUME Inv, CalmInv, Proceeds PROVE CalmInv'
<1>1. PICK u \in User :
          \/ Accept(u) \/ Tell(u) \/ Relay(u) \/ Cleanup(u) \/ Receive(u) \/ Reports(u)
          \/ \E t \in tasks[u] : Works(u, t)
          \/ \E v \in User : Match(u, v)
    BY DEF Proceeds
<1>2. CASE Accept(u) \/ Tell(u) \/ Relay(u) \/ Cleanup(u) \/ Receive(u)
    BY <1>2, AcceptCalm, TellCalm, RelayCalm, CleanupCalm, ReceiveCalm
<1>3. CASE Reports(u)
    BY <1>3, GatherCalm, TrackCalm, PeerGoneCalm DEF Reports
<1>4. CASE \E t \in tasks[u] : Works(u, t)
    BY <1>4, WorksCalm
<1>5. CASE \E v \in User : Match(u, v)
    BY <1>5, MatchCalm
<1> QED
    BY <1>1, <1>2, <1>3, <1>4, <1>5

\* It holds initially.
LEMMA InitCalm == Init => CalmInv
<1> SUFFICES ASSUME Init
             PROVE  CalmInv
    OBVIOUS
<1>1. \A u \in User : ~HasToken(u) /\ Pends(u) = {}
    BY EmptyOf DEF Init, HasToken, Exchange, Pends
<1>2. PcIds = {}
    BY DEF Init, PcIds
<1>3. ASSUME NEW u \in User
      PROVE  Net(u) /\ Held(u)
    <2>1. /\ Tokens(up[u]) = {} /\ Tidy(up[u]) /\ Tidy(down[u]) /\ Quiet(down[u])
          /\ ToldOnce(down[u]) /\ Told(down[u]) = {}
        BY EmptyOf DEF Init
    <2>2. /\ phone[u] = Started /\ pcs[u] = <<>> /\ tasks[u] = {} /\ conn[u] = "none"
          /\ up[u] = <<>> /\ down[u] = <<>> /\ u \notin waiting
        BY DEF Init
    <2>3. Pc(u) = 0 /\ phone[u].chan = "none"
        BY <2>2 DEF Started, Pc
    <2> QED
        BY <2>1, <2>2, <2>3 DEF Net, Held
<1> QED
    BY <1>1, <1>2, <1>3 DEF CalmInv, BatonInv, Fit

\* The invariant of calm behaviours.
CInv == Inv /\ (Calm => CalmInv)

\* It is inductive.
LEMMA CNext == CInv /\ [Next]_vars => CInv'
<1> SUFFICES ASSUME CInv, [Next]_vars
             PROVE  CInv'
    OBVIOUS
<1>1. Inv /\ Inv'
    BY NextInv DEF CInv
<1>2. ASSUME Calm'
      PROVE  CalmInv'
    <2>1. Calm /\ CalmInv /\ ~Fault /\ drains' = 0
        BY <1>1, <1>2, StaysCalm DEF CInv
    <2>2. CASE UNCHANGED vars
        <3>1. \A w \in User : Same(w)
            BY <2>2 DEF vars, Same
        <3>2. RemStays
            BY <2>2 DEF vars, RemStays, Rem, PcIds
        <3>3. RemGrows /\ Fit'
            BY <1>1, <2>1, <3>2, FitStays DEF RemStays, RemGrows, CalmInv
        <3>4. BatonInv'
            BY <1>1, <2>1, <3>1, <3>3, SameKeeps, BatonsStay DEF CalmInv
        <3> QED
            BY <2>1, <3>1, <3>3, <3>4, SameNet, SameHeld DEF CalmInv
    <2>3. CASE Proceeds
        BY <1>1, <2>1, <2>3, ProceedsCalm
    <2>4. CASE \E u \in User : Acts(u)
        BY <1>1, <2>1, <2>4, ActsCalm
    <2> QED
        BY <2>2, <2>3, <2>4 DEF Next
<1> QED
    BY <1>1, <1>2 DEF CInv

\* While nothing goes wrong the exchange of every match is where the invariant
\* says it is, and nowhere else.
THEOREM CalmCorrect == Spec => []CInv
<1>1. Init => CInv
    BY InitInv, InitCalm DEF CInv
<1> QED
    BY <1>1, CNext, PTL DEF Spec

\* What the invariant says of the exchange and of the candidates.
LEMMA CalmNoGlare == ASSUME Inv, CalmInv PROVE NoGlare
<1>1. ASSUME NEW u \in User, NEW v \in User, Pc(u) # 0, pcs[u][Pc(u)].sig = "local"
      PROVE  /\ ~\E t \in tasks[u] : t.do = "apply_offer"
             /\ (Pc(v) # 0 /\ phone[u].remote = v /\ phone[v].remote = u)
                   => pcs[v][Pc(v)].sig # "local"
    <2>1. ASSUME NEW t \in tasks[u], t.do = "apply_offer"
          PROVE  FALSE
        <3>1. t.do \in Exchanging
            BY <2>1 DEF Exchanging
        <3>2. PICK a \in User, b \in User, p \in Phase :
                  /\ Baton(a, b, p)
                  /\ \/ /\ u = a /\ t.pc = Pc(a)
                        /\ \/ p = 2 /\ t.do = "set_offer"
                           \/ p = 3 /\ t.do = "send_offer"
                           \/ p = 10 /\ t.do = "apply_answer" /\ Answers(t.by, a)
                     \/ /\ u = b
                        /\ \/ p = 6 /\ t.do = "apply_offer" /\ t.pc = Pc(b) /\ t.by = Id(a)
                           \/ p = 7 /\ t.do \in Answering /\ Answers(<<b, t.pc>>, a)
            BY <3>1, TaskParty
        <3>4. u = b /\ p = 6
            BY <2>1, <3>2 DEF Answering
        <3>3. Cur(b).sig = "stable"
            BY <3>2, <3>4 DEF Baton, Answerer
        <3> QED
            BY <1>1, <3>4, <3>3 DEF Cur
    <2>2. ASSUME Pc(v) # 0, phone[u].remote = v, phone[v].remote = u,
                 pcs[v][Pc(v)].sig = "local"
          PROVE  FALSE
        <3>1. u < v /\ v < u
            BY <1>1, <2>2 DEF CalmInv, Held, Cur
        <3> QED
            BY <3>1, SignalingAssumption
    <2> QED
        BY <2>1, <2>2
<1> QED
    BY <1>1 DEF NoGlare

\* Answers fit the offers.
LEMMA CalmAnswersFit == ASSUME Inv, CalmInv PROVE AnswersFit
<1>1. SUFFICES ASSUME NEW u \in User, NEW n \in DOMAIN pcs[u], Rem(u, n) # None,
                      Rem(u, n).type = "answer"
               PROVE  Rem(Rem(u, n).by[1], Rem(u, n).by[2])
                        = [type |-> "offer", by |-> <<u, n>>]
    BY DEF AnswersFit
<1>2. PICK q : q = <<u, n>>
    OBVIOUS
<1>3. q \in PcIds /\ q[1] = u /\ q[2] = n
    BY <1>2, PhoneTyped
<1>4. Rem(u, n) \in [type : {"offer", "answer"}, by : PcIds]
    BY <1>1, <1>3, RemTyped DEF DescriptionOf
<1>5. PICK r \in PcIds : Rem(u, n) = [type |-> "answer", by |-> r] /\ Rem(u, n).by = r
    BY <1>1, <1>4
<1>6. Rem(r[1], r[2]) = [type |-> "offer", by |-> q]
    BY <1>3, <1>5 DEF CalmInv, Fit
<1> QED
    BY <1>2, <1>5, <1>6

\* Candidates are kept.
LEMMA CalmCandidatesKept == ASSUME Inv, CalmInv PROVE CandidatesKept
<1>1. \A u \in User : (Pc(u) # 0 /\ Cur(u).rem # None) =>
          Cur(u).heard \subseteq Cur(u).added \cup phone[u].pending
    BY DEF CalmInv, Held
<1> QED
    BY <1>1 DEF CandidatesKept, Cur, Rem

\* However many phones call each other, and however often, while nothing goes
\* wrong two phones never have offers for each other at once, every answer that
\* is applied was made for the offer it is applied to, and no candidate of the
\* other side is lost (_handleMessage, _handleOffer, _handleAnswer,
\* _handleIceCandidate).
THEOREM CalmExchange == Spec => [](Calm => NoGlare /\ AnswersFit /\ CandidatesKept)
<1>1. CInv => (Calm => NoGlare /\ AnswersFit /\ CandidatesKept)
    BY CalmNoGlare, CalmAnswersFit, CalmCandidatesKept DEF CInv
<1> QED
    BY <1>1, CalmCorrect, PTL

\* Nothing can go wrong, and nobody joins while a report is being submitted.
CalmEnvironments ==
    \A e \in Environments :
        e.faults = 0 /\ e.drains = 0 /\ \A u \in User : e.reports[u] # "late"

\* So, where nothing can go wrong, the exchanges of any number of phones do not
\* get mixed up ("Glare prevention", _handleMessage; _handleOffer,
\* _handleAnswer).
THEOREM CalmSameExchange == CalmEnvironments => (Spec => []SameExchange)
<1> SUFFICES ASSUME CalmEnvironments
             PROVE  Spec => []SameExchange
    OBVIOUS
<1>1. CInv => SameExchange
    <2>1. CInv => Calm
        BY DEF CInv, Inv, Rest1, Calm, CalmEnvironments
    <2>2. CInv => NoGlare /\ AnswersFit
        BY <2>1, CalmNoGlare, CalmAnswersFit DEF CInv
    <2> QED
        BY <2>2 DEF SameExchange
<1> QED
    BY <1>1, CalmCorrect, PTL

\* And no candidate is lost (_handleIceCandidate, _flushPendingRemoteCandidates).
THEOREM CalmCandidateKept == CalmEnvironments => (Spec => []CandidateKept)
<1> SUFFICES ASSUME CalmEnvironments
             PROVE  Spec => []CandidateKept
    OBVIOUS
<1>1. CInv => CandidateKept
    <2>1. CInv => Calm
        BY DEF CInv, Inv, Rest1, Calm, CalmEnvironments
    <2> QED
        BY <2>1, CalmCandidatesKept DEF CInv, CandidateKept
<1> QED
    BY <1>1, CalmCorrect, PTL
-----------------------------------------------------------------------------
(***************************************************************************)
(* Glare between two phones, whatever goes wrong.                          *)
(*                                                                         *)
(* Only who has been matched with a user of a higher id makes offers, and  *)
(* whoever applies one has a caller below.  Of two nobody has both.        *)
(***************************************************************************)
Callers == {u \in User : env.starts[u] > 0}
Higher(u) == u \in Callers /\ \E v \in Callers : u < v
Lower(u) == u \in Callers /\ \E v \in Callers : v < u
AtMostTwo == \A u, v, w \in Callers : u = v \/ v = w \/ u = w

\* What a phone, a peer connection, a task, and messages say of who calls whom.
PhoneFits(u, r) ==
    /\ r.chan # "none" => u \in Callers
    /\ r.remote \in (Callers \ {u}) \cup {None}
PcFits(u, p) == p.sig = "local" => Higher(u)
TaskFits(u, t) ==
    /\ u \in Callers
    /\ t.do \in {"set_offer", "send_offer"} => Higher(u)
    /\ t.do \in {"make", "apply_offer"} => Lower(u)
SentFits(u, m) ==
    /\ m.from = u /\ m.to \in (Callers \ {u}) \cup {None}
    /\ u \in Callers
    /\ m.type = "offer" => Higher(u)
HeardFits(u, m) ==
    /\ m.type = "match" => m.from \in Callers \ {u}
    /\ m.type = "offer" => m.from \in Callers \ {u} /\ Higher(m.from)

RoleInv(u) ==
    /\ PhoneFits(u, phone[u])
    /\ \A n \in DOMAIN pcs[u] : PcFits(u, pcs[u][n])
    /\ \A t \in tasks[u] : TaskFits(u, t)
    /\ \A i \in DOMAIN up[u] : SentFits(u, up[u][i])
    /\ \A i \in DOMAIN down[u] : HeardFits(u, down[u][i])
    /\ u \in waiting => u \in Callers
    /\ news[u] \in (Callers \ {u}) \cup {None}
Roles == \A u \in User : RoleInv(u)

\* What a step of u's has to show of each variable.
PhonePart(u) ==
    PhoneFits(u, phone'[u]) /\ \A v \in User \ {u} : phone'[v] = phone[v]
PcsPart(u) ==
    /\ \A n \in DOMAIN pcs'[u] : PcFits(u, pcs'[u][n])
    /\ \A v \in User \ {u} : pcs'[v] = pcs[v]
TasksPart(u) ==
    (\A t \in tasks'[u] : TaskFits(u, t)) /\ \A v \in User \ {u} : tasks'[v] = tasks[v]
UpPart(u) ==
    /\ \A i \in DOMAIN up'[u] : SentFits(u, up'[u][i])
    /\ \A v \in User \ {u} : up'[v] = up[v]
DownPart(u) ==
    /\ \A i \in DOMAIN down'[u] : HeardFits(u, down'[u][i])
    /\ \A v \in User \ {u} : down'[v] = down[v]
WaitingPart(u) ==
    /\ waiting' \subseteq waiting \cup {u}
    /\ u \in waiting' => u \in waiting \cup Callers
    /\ \A v \in User : news'[v] \in {news[v], None}

\* Who calls is decided beforehand.
LEMMA FitsStay ==
    ASSUME env' = env
    PROVE  /\ Callers' = Callers
           /\ \A u : (Higher(u)' <=> Higher(u)) /\ (Lower(u)' <=> Lower(u))
<1>1. Callers' = Callers
    BY DEF Callers
<1> QED
    BY <1>1 DEF Higher, Lower

\* A step of one phone.
LEMMA RoleStep ==
    ASSUME Roles, env' = env, NEW u \in User, PhonePart(u), PcsPart(u), TasksPart(u),
           UpPart(u), DownPart(u), WaitingPart(u)
    PROVE  Roles'
<1>1. Callers' = Callers
    BY FitsStay
<1>2. \A v : (Higher(v)' <=> Higher(v)) /\ (Lower(v)' <=> Lower(v))
    BY FitsStay
<1>3. ASSUME NEW w \in User
      PROVE  RoleInv(w)'
    <2>1. RoleInv(w)
        BY DEF Roles
    <2>2. /\ PhoneFits(w, phone'[w]) /\ (w \in waiting' => w \in Callers)
          /\ news'[w] \in (Callers \ {w}) \cup {None}
        BY <2>1 DEF PhonePart, WaitingPart, RoleInv
    <2>3. \A n \in DOMAIN pcs'[w] : PcFits(w, pcs'[w][n])
        BY <2>1 DEF PcsPart, RoleInv
    <2>4. \A t \in tasks'[w] : TaskFits(w, t)
        BY <2>1 DEF TasksPart, RoleInv
    <2>5. \A i \in DOMAIN up'[w] : SentFits(w, up'[w][i])
        BY <2>1 DEF UpPart, RoleInv
    <2>6. \A i \in DOMAIN down'[w] : HeardFits(w, down'[w][i])
        BY <2>1 DEF DownPart, RoleInv
    <2> QED
        BY <1>1, <1>2, <2>2, <2>3, <2>4, <2>5, <2>6
        DEF RoleInv, PhoneFits, PcFits, TaskFits, SentFits, HeardFits
<1> QED
    BY <1>3 DEF Roles

\* What does not change.
LEMMA PartsStay ==
    ASSUME Roles, NEW u \in User
    PROVE  /\ UNCHANGED phone => PhonePart(u)
           /\ UNCHANGED pcs => PcsPart(u)
           /\ UNCHANGED tasks => TasksPart(u)
           /\ UNCHANGED up => UpPart(u)
           /\ UNCHANGED down => DownPart(u)
           /\ (UNCHANGED waiting /\ UNCHANGED news) => WaitingPart(u)
BY DEF Roles, RoleInv, PhonePart, PcsPart, TasksPart, UpPart, DownPart, WaitingPart

\* A phone becomes r.
LEMMA PhoneBecomes ==
    ASSUME Inv, NEW u \in User, NEW r, phone' = [phone EXCEPT ![u] = r], PhoneFits(u, r)
    PROVE  PhonePart(u)
BY Domains DEF PhonePart

\* The tasks of a phone become T.
LEMMA TasksBecome ==
    ASSUME Inv, Roles, NEW u \in User, NEW T, tasks' = [tasks EXCEPT ![u] = T],
           \A t \in T : t \in tasks[u] \/ TaskFits(u, t)
    PROVE  TasksPart(u)
BY Domains DEF TasksPart, Roles, RoleInv

\* A new peer connection has no offer out.
LEMMA FreshFits == ASSUME NEW u PROVE PcFits(u, NewPc)
BY DEF PcFits, NewPc

\* Peer connections are disposed.
LEMMA DisposedFits ==
    ASSUME Inv, Roles, NEW u \in User, NEW N
    PROVE  /\ DOMAIN Disposed(u, N) = DOMAIN pcs[u]
           /\ Disposed(u, N) = [n \in DOMAIN pcs[u] |-> Disposed(u, N)[n]]
           /\ \A n \in DOMAIN pcs[u] : PcFits(u, Disposed(u, N)[n])
<1>1. \A n \in DOMAIN pcs[u] : PcFits(u, pcs[u][n])
    BY DEF Roles, RoleInv
<1>2. \A n \in DOMAIN pcs[u] :
          Disposed(u, N)[n] = IF n \in N THEN [NewPc EXCEPT !.rem = Rem(u, n), !.gone = TRUE]
                                         ELSE pcs[u][n]
    BY DEF Disposed
<1>3. \A n \in DOMAIN pcs[u] : PcFits(u, Disposed(u, N)[n])
    <2>1. ASSUME NEW n \in DOMAIN pcs[u], n \in N
          PROVE  Disposed(u, N)[n].sig = "stable"
        BY <1>2, <2>1 DEF NewPc
    <2> QED
        BY <1>1, <1>2, <2>1 DEF PcFits
<1> QED
    BY <1>3 DEF Disposed

\* That leaves the roles alone.
LEMMA PcsDisposedPart ==
    ASSUME Inv, Roles, NEW u \in User, NEW N, pcs' = [pcs EXCEPT ![u] = Disposed(u, N)]
    PROVE  PcsPart(u)
<1>1. pcs'[u] = Disposed(u, N) /\ \A v \in User \ {u} : pcs'[v] = pcs[v]
    BY Domains
<1> QED
    BY <1>1, DisposedFits DEF PcsPart

\* A peer connection is made.
LEMMA PcsMadePart ==
    ASSUME Inv, Roles, NEW u \in User, NEW d, DOMAIN d = DOMAIN pcs[u],
           d = [n \in DOMAIN pcs[u] |-> d[n]],
           \A n \in DOMAIN pcs[u] : PcFits(u, d[n]),
           pcs' = [pcs EXCEPT ![u] = Append(d, NewPc)]
    PROVE  PcsPart(u)
<1>1. pcs'[u] = Append(d, NewPc) /\ \A v \in User \ {u} : pcs'[v] = pcs[v]
    BY Domains
<1>2. /\ pcs[u] \in Seq(PcOf(PcIds)) /\ DOMAIN pcs[u] = 1 .. Len(pcs[u])
      /\ Len(pcs[u]) \in Nat
    BY PhoneTyped
<1>3. d \in Seq({d[n] : n \in DOMAIN pcs[u]}) /\ Len(d) = Len(pcs[u])
    BY <1>2
<1>4. /\ DOMAIN Append(d, NewPc) = 1 .. Len(pcs[u]) + 1
      /\ \A n \in 1 .. Len(pcs[u]) : Append(d, NewPc)[n] = d[n]
      /\ Append(d, NewPc)[Len(pcs[u]) + 1] = NewPc
    BY <1>2, <1>3
<1>5. \A n \in 1 .. Len(pcs[u]) + 1 : n \in 1 .. Len(pcs[u]) \/ n = Len(pcs[u]) + 1
    BY <1>2
<1>6. \A n \in DOMAIN pcs'[u] : PcFits(u, pcs'[u][n])
    BY <1>1, <1>2, <1>4, <1>5, FreshFits
<1> QED
    BY <1>1, <1>6 DEF PcsPart

\* A peer connection changes.
LEMMA PcsSetPart ==
    ASSUME Inv, Roles, NEW u \in User, NEW n \in DOMAIN pcs[u], NEW r, PcTurns(u, n, r),
           r.sig = pcs[u][n].sig \/ r.sig # "local" \/ Higher(u)
    PROVE  PcsPart(u)
<1>1. /\ pcs'[u][n] = r /\ DOMAIN pcs'[u] = DOMAIN pcs[u]
      /\ \A k \in DOMAIN pcs[u] \ {n} : pcs'[u][k] = pcs[u][k]
      /\ \A v \in User \ {u} : pcs'[v] = pcs[v]
    BY PcSet
<1>2. \A k \in DOMAIN pcs[u] : PcFits(u, pcs[u][k])
    BY DEF Roles, RoleInv
<1> QED
    BY <1>1, <1>2 DEF PcsPart, PcFits

\* A phone sends a message, or two.
LEMMA SentPart ==
    ASSUME Inv, Roles, NEW u \in User, NEW m, up' = Sent(u, <<m>>),
           phone[u].chan = "open" => SentFits(u, m)
    PROVE  UpPart(u)
<1>1. DOMAIN up = User /\ up[u] \in Seq(MessageOf(PcIds)) /\ RoleInv(u)
    BY Domains DEF Roles
<1>2. \A v \in User \ {u} : up'[v] = up[v]
    BY <1>1 DEF Sent
<1>3. CASE phone[u].chan # "open"
    BY <1>1, <1>2, <1>3 DEF Sent, RoleInv, UpPart
<1>4. CASE phone[u].chan = "open"
    <2>1. up'[u] = up[u] \o <<m>>
        BY <1>1, <1>4 DEF Sent
    <2>2. \A i \in DOMAIN up'[u] : \/ i \in DOMAIN up[u] /\ up'[u][i] = up[u][i]
                                   \/ up'[u][i] = m
        BY <1>1, <2>1
    <2> QED
        BY <1>1, <1>2, <1>4, <2>2 DEF RoleInv, UpPart
<1> QED
    BY <1>3, <1>4

\* Two messages are sent.
LEMMA SentTwoPart ==
    ASSUME Inv, Roles, NEW u \in User, NEW m, NEW n, up' = Sent(u, <<m, n>>),
           phone[u].chan = "open" => SentFits(u, m) /\ SentFits(u, n)
    PROVE  UpPart(u)
<1>1. DOMAIN up = User /\ up[u] \in Seq(MessageOf(PcIds)) /\ RoleInv(u)
    BY Domains DEF Roles
<1>2. \A v \in User \ {u} : up'[v] = up[v]
    BY <1>1 DEF Sent
<1>3. CASE phone[u].chan # "open"
    BY <1>1, <1>2, <1>3 DEF Sent, RoleInv, UpPart
<1>4. CASE phone[u].chan = "open"
    <2>1. up'[u] = up[u] \o <<m, n>>
        BY <1>1, <1>4 DEF Sent
    <2>2. \A i \in DOMAIN up'[u] : \/ i \in DOMAIN up[u] /\ up'[u][i] = up[u][i]
                                   \/ up'[u][i] = m \/ up'[u][i] = n
        <3>1. PICK S : up[u] \in Seq(S) /\ m \in S /\ n \in S
            <4>1. up[u] \in Seq(MessageOf(PcIds) \cup {m, n})
                BY <1>1
            <4> QED
                BY <4>1
        <3>2. Len(up[u]) \in Nat /\ DOMAIN up[u] = 1 .. Len(up[u])
            BY <3>1
        <3>3. /\ DOMAIN up'[u] = 1 .. Len(up[u]) + 2
              /\ \A i \in 1 .. Len(up[u]) : up'[u][i] = up[u][i]
              /\ up'[u][Len(up[u]) + 1] = m /\ up'[u][Len(up[u]) + 2] = n
            <4>1. up[u] \o <<m, n>> = Append(Append(up[u], m), n) /\ Append(up[u], m) \in Seq(S)
                BY <3>1
            <4>2. PICK t : t = Append(up[u], m)
                OBVIOUS
            <4>3. /\ t \in Seq(S) /\ Len(t) = Len(up[u]) + 1 /\ t[Len(up[u]) + 1] = m
                  /\ \A i \in 1 .. Len(up[u]) : t[i] = up[u][i]
                BY <3>1, <3>2, <4>1, <4>2
            <4>4. /\ DOMAIN Append(t, n) = 1 .. Len(up[u]) + 2
                  /\ \A i \in 1 .. Len(up[u]) + 1 : Append(t, n)[i] = t[i]
                  /\ Append(t, n)[Len(up[u]) + 2] = n
                BY <3>1, <3>2, <4>3
            <4> QED
                <5>1. up'[u] = Append(t, n)
                    BY <2>1, <4>1, <4>2
                <5>2. /\ Len(up[u]) + 1 \in 1 .. Len(up[u]) + 1
                      /\ \A i \in 1 .. Len(up[u]) : i \in 1 .. Len(up[u]) + 1
                    BY <3>2
                <5> QED
                    BY <4>3, <4>4, <5>1, <5>2
        <3>4. \A i \in 1 .. Len(up[u]) + 2 :
                  i \in 1 .. Len(up[u]) \/ i = Len(up[u]) + 1 \/ i = Len(up[u]) + 2
            BY <3>2
        <3>5. ASSUME NEW i \in DOMAIN up'[u]
              PROVE  \/ i \in DOMAIN up[u] /\ up'[u][i] = up[u][i]
                     \/ up'[u][i] = m \/ up'[u][i] = n
            <4>1. i \in 1 .. Len(up[u]) \/ i = Len(up[u]) + 1 \/ i = Len(up[u]) + 2
                BY <3>3, <3>4, <3>5
            <4> QED
                BY <3>2, <3>3, <4>1
        <3> QED
            BY <3>5
    <2> QED
        BY <1>1, <1>2, <1>4, <2>2 DEF RoleInv, UpPart
<1> QED
    BY <1>3, <1>4

\* The message that a phone sends to its peer fits.
LEMMA MessageFits ==
    ASSUME Roles, NEW u \in User, NEW type, NEW by, type # "offer" \/ Higher(u),
           phone[u].chan = "open"
    PROVE  SentFits(u, Message(u, type, by))
<1>1. u \in Callers /\ phone[u].remote \in (Callers \ {u}) \cup {None}
    BY DEF Roles, RoleInv, PhoneFits
<1> QED
    BY <1>1 DEF SentFits, Message

\* A message is taken, or all are forgotten.
LEMMA TakenPart ==
    ASSUME Inv, Roles, NEW u \in User, down[u] # <<>>, down' = Rest(u)
    PROVE  DownPart(u)
<1>1. DOMAIN down = User /\ down[u] \in Seq(HeardOf(PcIds)) /\ RoleInv(u)
    BY Domains DEF Roles
<1>2. down'[u] = Tail(down[u]) /\ \A v \in User \ {u} : down'[v] = down[v]
    BY <1>1 DEF Rest
<1>3. \A i \in DOMAIN Tail(down[u]) :
          i + 1 \in DOMAIN down[u] /\ Tail(down[u])[i] = down[u][i + 1]
    BY <1>1
<1> QED
    BY <1>1, <1>2, <1>3 DEF RoleInv, DownPart

\* What a phone was sent is forgotten.
LEMMA ForgottenPart ==
    ASSUME Inv, NEW u \in User, down' = [down EXCEPT ![u] = <<>>]
    PROVE  DownPart(u)
BY Domains DEF DownPart

\* The next message to a phone fits.
LEMMA HeadFits ==
    ASSUME Inv, Roles, NEW u \in User, down[u] # <<>>
    PROVE  HeardFits(u, Head(down[u]))
<1>1. down[u] \in Seq(HeardOf(PcIds)) /\ RoleInv(u)
    BY Domains DEF Roles
<1>2. 1 \in DOMAIN down[u] /\ Head(down[u]) = down[u][1]
    BY <1>1
<1> QED
    BY <1>1, <1>2 DEF RoleInv

\* The end of a call.
LEMMA HangUpParts ==
    ASSUME Inv, Roles, NEW u \in User, HangUp(u)
    PROVE  PhonePart(u) /\ PcsPart(u) /\ DownPart(u)
<1> DEFINE r == [phone[u] EXCEPT !.screen = "idle", !.pc = 0, !.chan = "none"]
<1>1. /\ phone' = [phone EXCEPT ![u] = r]
      /\ pcs' = [pcs EXCEPT ![u] = Disposed(u, {Pc(u)})]
      /\ down' = [down EXCEPT ![u] = <<>>]
    BY DEF HangUp
<1>2. r.chan = "none" /\ r.remote = phone[u].remote
    BY PhoneTyped DEF PhoneOf
<1> HIDE DEF r
<1>3. PhoneFits(u, r)
    BY <1>2 DEF Roles, RoleInv, PhoneFits
<1> QED
    BY <1>1, <1>3, PhoneBecomes, PcsDisposedPart, ForgottenPart

-----------------------------------------------------------------------------
\* Join.
LEMMA JoinRoles == ASSUME Inv, Roles, NEW u \in User, Join(u) PROVE Roles'
<1> DEFINE r == [phone[u] EXCEPT !.pc = Next1(u), !.ready = FALSE, !.pending = {},
                                 !.screen = "matching", !.chan = "connecting"]
<1>1. /\ phone' = [phone EXCEPT ![u] = r] /\ pcs' = [pcs EXCEPT ![u] = Append(pcs[u], NewPc)]
      /\ UNCHANGED <<tasks, up, down, waiting, news>> /\ env' = env
    BY DEF Join, Prewarmed, server, sockets, bounds
<1>2. r.remote = phone[u].remote
    BY PhoneTyped DEF PhoneOf
<1> HIDE DEF r
<1>3. u \in Callers
    <2>1. env.starts[u] \in Nat /\ Len(pcs[u]) \in Nat
        <3>1. env.starts \in [User -> Nat]
            BY SignalingAssumption DEF Inv, Rest1
        <3> QED
            BY <3>1, PhoneTyped
    <2> QED
        BY <2>1 DEF Join, MayStart, Callers
<1>4. PhoneFits(u, r)
    BY <1>2, <1>3 DEF PhoneFits, Roles, RoleInv
<1>5. PcsPart(u)
    <2>1. pcs[u] = [n \in DOMAIN pcs[u] |-> pcs[u][n]]
        BY PhoneTyped
    <2>2. \A n \in DOMAIN pcs[u] : PcFits(u, pcs[u][n])
        BY DEF Roles, RoleInv
    <2> QED
        BY <1>1, <2>1, <2>2, PcsMadePart
<1> QED
    BY <1>1, <1>4, <1>5, PhoneBecomes, PartsStay, RoleStep

\* EndCall: the bye is no offer, and the phone has no channel any more.
LEMMA EndCallRoles == ASSUME Inv, Roles, NEW u \in User, EndCall(u) PROVE Roles'
<1>1. /\ up' = Sent(u, <<Message(u, "bye", None)>>) /\ HangUp(u)
      /\ UNCHANGED <<tasks, waiting, news>> /\ env' = env
    BY DEF EndCall, sockets, bounds
<1>2. UpPart(u)
    <2>1. PICK m : m = Message(u, "bye", None)
        OBVIOUS
    <2>2. phone[u].chan = "open" => SentFits(u, m)
        BY <2>1, MessageFits
    <2> QED
        BY <1>1, <2>1, <2>2, SentPart
<1> QED
    BY <1>1, <1>2, HangUpParts, PartsStay, RoleStep

\* FindNextMatch: neither bye nor next_match is an offer.
LEMMA FindNextMatchRoles ==
    ASSUME Inv, Roles, NEW u \in User, u \in Callers, NEW done, FindNextMatch(u, done)
    PROVE  Roles'
<1> DEFINE r == [phone[u] EXCEPT !.pc = 0, !.remote = None, !.ready = FALSE,
                                 !.pending = {}]
           create == Task("create", Next1(u), None)
           slide == Task("slide", 0, None)
           T == (tasks[u] \ done) \cup {create, slide}
           bye == Message(u, "bye", None)
           next == [Message(u, "next_match", None) EXCEPT !.to = None]
<1>1. /\ phone' = [phone EXCEPT ![u] = r]
      /\ pcs' = [pcs EXCEPT ![u] = Append(Disposed(u, {Pc(u)}), NewPc)]
      /\ tasks' = [tasks EXCEPT ![u] = T]
      /\ up' = Sent(u, <<bye, next>>)
      /\ UNCHANGED <<down, waiting, news>> /\ env' = env
    BY DEF FindNextMatch, sockets, bounds
<1>2. r.remote = None /\ r.chan = phone[u].chan
    BY PhoneTyped DEF PhoneOf
<1>3. TaskFits(u, create) /\ TaskFits(u, slide)
    BY DEF Task, TaskFits
<1>4. \A t \in T : t \in tasks[u] \/ TaskFits(u, t)
    BY <1>3
<1>5. phone[u].chan = "open" => SentFits(u, bye) /\ SentFits(u, next)
    <2>1. phone[u].chan = "open" => SentFits(u, bye)
        BY MessageFits
    <2>2. next.from = u /\ next.to = None /\ next.type = "next_match"
        BY DEF Message
    <2> QED
        BY <2>1, <2>2 DEF SentFits
<1> HIDE DEF r, T, bye, next
<1>6. PhonePart(u)
    <2>1. PhoneFits(u, r)
        BY <1>2 DEF PhoneFits, Roles, RoleInv
    <2> QED
        BY <1>1, <2>1, PhoneBecomes
<1>7. PcsPart(u)
    <2>1. PICK d : d = Disposed(u, {Pc(u)})
        OBVIOUS
    <2>2. /\ DOMAIN d = DOMAIN pcs[u] /\ d = [n \in DOMAIN pcs[u] |-> d[n]]
          /\ \A n \in DOMAIN pcs[u] : PcFits(u, d[n])
        BY <2>1, DisposedFits
    <2> QED
        BY <1>1, <2>1, <2>2, PcsMadePart
<1>8. TasksPart(u) /\ UpPart(u)
    BY <1>1, <1>4, <1>5, TasksBecome, SentTwoPart
<1> QED
    BY <1>1, <1>6, <1>7, <1>8, PartsStay, RoleStep

\* Who may start a call is a caller.
LEMMA MayStartCaller == ASSUME Inv, NEW u \in User, MayStart(u) PROVE u \in Callers
<1>1. env.starts \in [User -> Nat]
    BY SignalingAssumption DEF Inv, Rest1
<1>2. env.starts[u] \in Nat /\ Len(pcs[u]) \in Nat
    BY <1>1, PhoneTyped
<1> QED
    BY <1>2 DEF MayStart, Callers

\* Swipe.
LEMMA SwipeRoles == ASSUME Inv, Roles, NEW u \in User, Swipe(u) PROVE Roles'
BY MayStartCaller, FindNextMatchRoles DEF Swipe

\* Submitted.
LEMMA SubmittedRoles ==
    ASSUME Inv, Roles, NEW u \in User, NEW t \in tasks[u], Submitted(u, t)
    PROVE  Roles'
<1>1. u \in Callers
    BY DEF Roles, RoleInv, TaskFits
<1> QED
    BY <1>1, FindNextMatchRoles DEF Submitted

\* Only the screen, the current peer connection and the channel of a phone change,
\* and the channel is not opened by who is no caller; a task begins or goes on.
LEMMA FieldsRoles ==
    ASSUME Inv, Roles, NEW u \in User, NEW r, NEW T,
           phone' = [phone EXCEPT ![u] = r] \/ (UNCHANGED phone /\ r = phone[u]),
           r.remote = phone[u].remote, r.chan \in {phone[u].chan, "none"} \/ u \in Callers,
           tasks' = [tasks EXCEPT ![u] = T] \/ (UNCHANGED tasks /\ T = {}),
           \A t \in T : t \in tasks[u] \/ TaskFits(u, t),
           env' = env, WaitingPart(u), PcsPart(u), UpPart(u), DownPart(u)
    PROVE  Roles'
<1>1. PhoneFits(u, r)
    BY DEF PhoneFits, Roles, RoleInv
<1>2. PhonePart(u) /\ TasksPart(u)
    BY <1>1, PhoneBecomes, TasksBecome, PartsStay
<1> QED
    BY <1>2, RoleStep

\* Report.
LEMMA ReportRoles == ASSUME Inv, Roles, NEW u \in User, Report(u) PROVE Roles'
<1> DEFINE r == [phone[u] EXCEPT !.screen = "reporting"]
           T == tasks[u] \cup {Task("sheet", 0, None)}
<1>1. /\ phone' = [phone EXCEPT ![u] = r] /\ tasks' = [tasks EXCEPT ![u] = T]
      /\ UNCHANGED <<pcs, up, down, waiting, news>> /\ env' = env
    BY DEF Report, server, sockets, bounds
<1>2. r.remote = phone[u].remote /\ r.chan = phone[u].chan
    BY PhoneTyped DEF PhoneOf
<1>3. \A t \in T : t \in tasks[u] \/ TaskFits(u, t)
    BY MayStartCaller DEF Report, TaskFits, Task
<1> HIDE DEF r, T
<1> QED
    BY <1>1, <1>2, <1>3, PartsStay, FieldsRoles

\* AnswerSheet.
LEMMA AnswerSheetRoles ==
    ASSUME Inv, Roles, NEW u \in User, NEW t \in tasks[u], AnswerSheet(u, t)
    PROVE  Roles'
<1> DEFINE r == [phone[u] EXCEPT !.screen = "connected"]
           S == tasks[u] \ {t}
           T == (tasks[u] \ {t}) \cup {Task("submit", 0, None)}
<1>1. /\ \/ phone' = [phone EXCEPT ![u] = r] /\ tasks' = [tasks EXCEPT ![u] = S]
         \/ UNCHANGED phone /\ tasks' = [tasks EXCEPT ![u] = T]
      /\ UNCHANGED <<pcs, up, down, waiting, news>> /\ env' = env
    BY DEF AnswerSheet, server, sockets, bounds
<1>2. r.remote = phone[u].remote /\ r.chan = phone[u].chan
    BY PhoneTyped DEF PhoneOf
<1>3. \A s \in T : s \in tasks[u] \/ TaskFits(u, s)
    BY DEF Roles, RoleInv, TaskFits, Task
<1>4. \A s \in S : s \in tasks[u]
    OBVIOUS
<1> HIDE DEF r, S, T
<1>5. CASE phone' = [phone EXCEPT ![u] = r] /\ tasks' = [tasks EXCEPT ![u] = S]
    BY <1>1, <1>2, <1>4, <1>5, PartsStay, FieldsRoles
<1>6. CASE UNCHANGED phone /\ tasks' = [tasks EXCEPT ![u] = T]
    <2>1. PhonePart(u) /\ TasksPart(u)
        BY <1>3, <1>6, TasksBecome, PartsStay
    <2> QED
        BY <1>1, <2>1, PartsStay, RoleStep
<1> QED
    BY <1>1, <1>5, <1>6

\* A fault happens in an environment that stays.
LEMMA FaultEnv == (Fault \/ UNCHANGED bounds) => env' = env
BY DEF Fault, bounds

\* Kill: nothing is left of the phone.
LEMMA KillRoles == ASSUME Inv, Roles, NEW u \in User, Kill(u) PROVE Roles'
<1> DEFINE N == DOMAIN pcs[u]
<1>1. /\ phone' = [phone EXCEPT ![u] = Started]
      /\ pcs' = [pcs EXCEPT ![u] = Disposed(u, N)]
      /\ tasks' = [tasks EXCEPT ![u] = {}]
      /\ down' = [down EXCEPT ![u] = <<>>]
      /\ UNCHANGED <<up, waiting, news>> /\ env' = env
    BY FaultEnv DEF Kill, server, sockets
<1>2. PhoneFits(u, Started)
    BY DEF PhoneFits, Started
<1> HIDE DEF N
<1>3. PhonePart(u) /\ PcsPart(u) /\ TasksPart(u) /\ DownPart(u)
    <2>1. PhonePart(u) /\ DownPart(u)
        BY <1>1, <1>2, PhoneBecomes, ForgottenPart
    <2>2. PcsPart(u)
        BY <1>1, PcsDisposedPart
    <2>3. TasksPart(u)
        BY <1>1, Domains DEF TasksPart
    <2> QED
        BY <2>1, <2>2, <2>3
<1> QED
    BY <1>1, <1>3, PartsStay, RoleStep

\* Accept: who has a channel is a caller.
LEMMA AcceptRoles == ASSUME Inv, Roles, NEW u \in User, Accept(u) PROVE Roles'
<1> DEFINE r == [phone[u] EXCEPT !.chan = "open"]
<1>1. /\ phone' = [phone EXCEPT ![u] = r] /\ waiting' = waiting \cup {u}
      /\ phone[u].chan = "connecting"
      /\ UNCHANGED <<pcs, tasks, up, down, news>> /\ env' = env
    BY DEF Accept, Registered, bounds
<1>2. r.remote = phone[u].remote
    BY PhoneTyped DEF PhoneOf
<1> HIDE DEF r
<1>3. u \in Callers
    BY <1>1 DEF Roles, RoleInv, PhoneFits
<1>4. PhoneFits(u, r) /\ WaitingPart(u)
    BY <1>1, <1>2, <1>3 DEF PhoneFits, Roles, RoleInv, WaitingPart
<1> QED
    BY <1>1, <1>4, PhoneBecomes, PartsStay, RoleStep

\* Refuse.
LEMMA RefuseRoles == ASSUME Inv, Roles, NEW u \in User, Refuse(u) PROVE Roles'
<1> DEFINE r == [phone[u] EXCEPT !.chan = "none", !.screen = "idle"]
<1>1. /\ phone' = [phone EXCEPT ![u] = r]
      /\ UNCHANGED <<pcs, tasks, up, down, waiting, news>> /\ env' = env
    BY FaultEnv DEF Refuse, server, sockets
<1>2. r.remote = phone[u].remote /\ r.chan = "none"
    BY PhoneTyped DEF PhoneOf
<1> HIDE DEF r
<1>3. PhoneFits(u, r)
    BY <1>2 DEF PhoneFits, Roles, RoleInv
<1> QED
    BY <1>1, <1>3, PhoneBecomes, PartsStay, RoleStep

\* The server writes a message to a phone.
LEMMA WrittenFits ==
    ASSUME Inv, Roles, NEW w \in User, NEW m, HeardFits(w, m), NEW s,
           s = Written(w, m)
    PROVE  \A i \in DOMAIN s : HeardFits(w, s[i])
<1>1. down[w] \in Seq(HeardOf(PcIds)) /\ \A i \in DOMAIN down[w] : HeardFits(w, down[w][i])
    BY Domains DEF Roles, RoleInv
<1>2. CASE s = down[w]
    BY <1>1, <1>2
<1>3. CASE s = Append(down[w], m)
    <2>1. \A i \in DOMAIN s : (i \in DOMAIN down[w] /\ s[i] = down[w][i]) \/ s[i] = m
        BY <1>1, <1>3
    <2> QED
        BY <1>1, <2>1
<1> QED
    BY <1>2, <1>3 DEF Written

\* Match: both are callers.
LEMMA MatchRoles ==
    ASSUME Inv, Roles, NEW u \in User, NEW v \in User, Match(u, v)
    PROVE  Roles'
<1>1. /\ u \in waiting /\ v \in waiting /\ u # v /\ waiting' = waiting \ {u, v}
      /\ news' = [news EXCEPT ![u] = v, ![v] = u]
      /\ UNCHANGED <<phone, pcs, tasks, up, down>> /\ env' = env
    BY DEF Match
<1>2. u \in Callers /\ v \in Callers
    BY <1>1 DEF Roles, RoleInv
<1>3. ASSUME NEW w \in User
      PROVE  news'[w] \in (Callers \ {w}) \cup {None}
    <2>1. news[w] \in (Callers \ {w}) \cup {None}
        BY DEF Roles, RoleInv
    <2> QED
        BY <1>1, <1>2, <2>1, Domains
<1>4. Callers' = Callers /\ \A w : (Higher(w)' <=> Higher(w)) /\ (Lower(w)' <=> Lower(w))
    BY <1>1, FitsStay
<1>5. ASSUME NEW w \in User
      PROVE  RoleInv(w)'
    <2>1. RoleInv(w) /\ (w \in waiting' => w \in waiting)
        BY <1>1 DEF Roles
    <2> QED
        BY <1>1, <1>3, <1>4, <2>1
        DEF RoleInv, PhoneFits, PcFits, TaskFits, SentFits, HeardFits
<1> QED
    BY <1>5 DEF Roles

\* Tell: the match that is forwarded fits.
LEMMA TellRoles == ASSUME Inv, Roles, NEW u \in User, Tell(u) PROVE Roles'
<1>1. PICK m : m = [type |-> "match", from |-> news[u]]
    OBVIOUS
<1>2. /\ news[u] # None /\ news' = [news EXCEPT ![u] = None]
      /\ down' = [down EXCEPT ![u] = Written(u, m)]
      /\ UNCHANGED <<phone, pcs, tasks, waiting, up>> /\ env' = env
    BY <1>1 DEF Tell, bounds
<1>3. HeardFits(u, m)
    BY <1>1, <1>2 DEF Roles, RoleInv, HeardFits
<1>4. DownPart(u)
    <2>1. down'[u] = Written(u, m) /\ \A v \in User \ {u} : down'[v] = down[v]
        BY <1>2, Domains
    <2> QED
        BY <1>3, <2>1, WrittenFits DEF DownPart
<1>5. WaitingPart(u)
    BY <1>2, Domains DEF WaitingPart
<1> QED
    BY <1>2, <1>4, <1>5, PartsStay, RoleStep

\* Relay: what was sent says who sent it.
LEMMA RelayRoles == ASSUME Inv, Roles, NEW u \in User, Relay(u) PROVE Roles'
<1>1. PICK m : m = Head(up[u])
    OBVIOUS
<1>2. /\ up[u] # <<>> /\ up' = [up EXCEPT ![u] = Tail(up[u])]
      /\ \/ down' = down
         \/ m.to # None /\ down' = [down EXCEPT ![m.to] = Written(m.to, m)]
      /\ UNCHANGED <<phone, pcs, tasks, waiting, news>> /\ env' = env
    BY <1>1 DEF Relay, sockets, bounds
<1>3. /\ up[u] \in Seq(MessageOf(PcIds)) /\ DOMAIN up = User /\ DOMAIN down = User
      /\ \A i \in DOMAIN up[u] : SentFits(u, up[u][i])
    BY Domains DEF Roles, RoleInv
<1>4. SentFits(u, m) /\ m.type # "match"
    <2>1. 1 \in DOMAIN up[u] /\ m = up[u][1] /\ m \in MessageOf(PcIds)
        BY <1>1, <1>2, <1>3
    <2> QED
        BY <1>3, <2>1 DEF MessageOf
<1>5. m.to # None => m.to \in User /\ HeardFits(m.to, m)
    <2>1. Callers \subseteq User
        BY DEF Callers
    <2> QED
        BY <1>4, <2>1 DEF SentFits, HeardFits
<1>6. ASSUME NEW w \in User
      PROVE  \A i \in DOMAIN down'[w] : HeardFits(w, down'[w][i])
    <2>1. CASE down' # down /\ w = m.to
        <3>1. down'[w] = Written(w, m) /\ HeardFits(w, m)
            BY <1>2, <1>3, <1>5, <2>1
        <3> QED
            BY <3>1, WrittenFits
    <2>2. CASE ~(down' # down /\ w = m.to)
        BY <1>2, <1>3, <2>2 DEF Roles, RoleInv
    <2> QED
        BY <2>1, <2>2
<1>7. ASSUME NEW w \in User
      PROVE  \A i \in DOMAIN up'[w] : SentFits(w, up'[w][i])
    <2>1. CASE w = u
        <3>1. \A i \in DOMAIN Tail(up[u]) :
                  i + 1 \in DOMAIN up[u] /\ Tail(up[u])[i] = up[u][i + 1]
            BY <1>2, <1>3
        <3>2. up'[u] = Tail(up[u])
            BY <1>2, <1>3
        <3> QED
            BY <1>3, <2>1, <3>1, <3>2
    <2>2. CASE w # u
        BY <1>2, <1>3, <2>2 DEF Roles, RoleInv
    <2> QED
        BY <2>1, <2>2
<1>8. Callers' = Callers /\ \A w : (Higher(w)' <=> Higher(w)) /\ (Lower(w)' <=> Lower(w))
    BY <1>2, FitsStay
<1>9. ASSUME NEW w \in User
      PROVE  RoleInv(w)'
    <2>1. RoleInv(w)
        BY DEF Roles
    <2> QED
        BY <1>2, <1>6, <1>7, <1>8, <2>1
        DEF RoleInv, PhoneFits, PcFits, TaskFits, SentFits, HeardFits
<1> QED
    BY <1>9 DEF Roles

\* The server closes a websocket, having said so or not.
LEMMA ClosesRoles ==
    ASSUME Inv, Roles, NEW u \in User, Lose(u) \/ Drain(u)
    PROVE  Roles'
<1>1. /\ UNCHANGED <<phone, pcs, tasks, up, waiting, news>> /\ env' = env
      /\ \E s : /\ down' = [down EXCEPT ![u] = down[u] \o s]
                /\ s = <<[type |-> "closed"]>>
                      \/ s = <<[type |-> "server_shutdown"], [type |-> "closed"]>>
    BY FaultEnv DEF Lose, Drain, Closes
<1>2. PICK s : /\ down' = [down EXCEPT ![u] = down[u] \o s]
               /\ s = <<[type |-> "closed"]>>
                     \/ s = <<[type |-> "server_shutdown"], [type |-> "closed"]>>
    BY <1>1
<1>3. s \in Seq(HeardOf(PcIds)) /\ \A i \in DOMAIN s : HeardFits(u, s[i])
    <2>1. PICK m : m = [type |-> "closed"]
        OBVIOUS
    <2>2. PICK n : n = [type |-> "server_shutdown"]
        OBVIOUS
    <2>3. m \in HeardOf(PcIds) /\ n \in HeardOf(PcIds)
        <3>1. m \in FromServer /\ n \in FromServer
            BY <2>1, <2>2 DEF FromServer
        <3> QED
            BY <3>1 DEF HeardOf
    <2>4. HeardFits(u, m) /\ HeardFits(u, n)
        <3>1. m.type = "closed" /\ n.type = "server_shutdown"
            BY <2>1, <2>2
        <3> QED
            BY <3>1 DEF HeardFits
    <2>5. s = <<m>> \/ s = <<n, m>>
        BY <1>2, <2>1, <2>2
    <2>6. CASE s = <<m>>
        <3>1. DOMAIN s = {1} /\ s[1] = m /\ s \in Seq(HeardOf(PcIds))
            BY <2>3, <2>6
        <3> QED
            BY <2>4, <3>1
    <2>7. CASE s = <<n, m>>
        <3>1. DOMAIN s = {1, 2} /\ s[1] = n /\ s[2] = m /\ s \in Seq(HeardOf(PcIds))
            BY <2>3, <2>7
        <3> QED
            BY <2>4, <3>1
    <2> QED
        BY <2>5, <2>6, <2>7
<1>5. DownPart(u)
    <2>1. down[u] \in Seq(HeardOf(PcIds)) /\ \A i \in DOMAIN down[u] : HeardFits(u, down[u][i])
        BY Domains DEF Roles, RoleInv
    <2>2. down'[u] = down[u] \o s /\ \A v \in User \ {u} : down'[v] = down[v]
        BY <1>2, Domains
    <2>3. \A i \in DOMAIN (down[u] \o s) :
              \/ i \in DOMAIN down[u] /\ (down[u] \o s)[i] = down[u][i]
              \/ i - Len(down[u]) \in DOMAIN s /\ (down[u] \o s)[i] = s[i - Len(down[u])]
        BY <1>3, <2>1
    <2> QED
        BY <1>3, <2>1, <2>2, <2>3 DEF DownPart
<1> QED
    BY <1>1, <1>5, PartsStay, RoleStep

\* Cleanup.
LEMMA CleanupRoles == ASSUME Inv, Roles, NEW u \in User, Cleanup(u) PROVE Roles'
<1>1. /\ up' = [up EXCEPT ![u] = <<>>] /\ waiting' = waiting \ {u}
      /\ news' = [news EXCEPT ![u] = None]
      /\ UNCHANGED <<phone, pcs, tasks, down>> /\ env' = env
    BY DEF Cleanup, bounds
<1>2. UpPart(u) /\ WaitingPart(u)
    BY <1>1, Domains DEF UpPart, WaitingPart
<1> QED
    BY <1>1, <1>2, PartsStay, RoleStep

\* A phone gets a message.
LEMMA GetMatchRoles == ASSUME Inv, Roles, NEW u \in User, GetMatch(u) PROVE Roles'
<1>1. PICK v : v = Head(down[u]).from
    OBVIOUS
<1> DEFINE r == [phone[u] EXCEPT !.remote = v]
           T == tasks[u] \cup {Task("set_offer", Pc(u), None)}
<1>2. /\ phone' = [phone EXCEPT ![u] = r]
      /\ (tasks' = [tasks EXCEPT ![u] = T] /\ u < v) \/ UNCHANGED tasks
      /\ down[u] # <<>> /\ Head(down[u]).type = "match" /\ phone[u].chan = "open"
      /\ down' = Rest(u)
      /\ UNCHANGED <<pcs, up, waiting, news>> /\ env' = env
    BY <1>1 DEF GetMatch, Gets, Begins, IsOfferer, server, sockets, bounds
<1>3. r.remote = v /\ r.chan = phone[u].chan
    BY PhoneTyped DEF PhoneOf
<1> HIDE DEF r
<1>4. v \in Callers \ {u} /\ u \in Callers
    <2>1. HeardFits(u, Head(down[u]))
        BY <1>2, HeadFits
    <2> QED
        BY <1>1, <1>2, <2>1 DEF HeardFits, Roles, RoleInv, PhoneFits
<1>5. PhonePart(u)
    <2>1. PhoneFits(u, r)
        BY <1>3, <1>4 DEF PhoneFits
    <2> QED
        BY <1>2, <2>1, PhoneBecomes
<1>6. TasksPart(u)
    <2>1. u < v => \A t \in T : t \in tasks[u] \/ TaskFits(u, t)
        BY <1>4 DEF TaskFits, Task, Higher
    <2> HIDE DEF T
    <2> QED
        BY <1>2, <2>1, TasksBecome, PartsStay
<1>7. DownPart(u)
    BY <1>2, TakenPart
<1> QED
    BY <1>2, <1>5, <1>6, <1>7, PartsStay, RoleStep

\* Here it matters that they are two: the offerer has somebody above, who must be u.
LEMMA GetOfferRoles ==
    ASSUME Inv, Roles, AtMostTwo, NEW u \in User, GetOffer(u)
    PROVE  Roles'
<1>1. PICK m : m = Head(down[u])
    OBVIOUS
<1> DEFINE r == [phone[u] EXCEPT !.remote = m.from]
           S == tasks[u] \cup {Task("apply_offer", Pc(u), m.by)}
           T == tasks[u] \cup {Task("make", Next1(u), m.by)}
<1>2. /\ phone' = [phone EXCEPT ![u] = r]
      /\ \/ tasks' = [tasks EXCEPT ![u] = S] /\ UNCHANGED pcs
         \/ /\ tasks' = [tasks EXCEPT ![u] = T]
            /\ pcs' = [pcs EXCEPT ![u] = Append(pcs[u], NewPc)]
      /\ down[u] # <<>> /\ m.type = "offer" /\ phone[u].chan = "open"
      /\ down' = Rest(u)
      /\ UNCHANGED <<up, waiting, news>> /\ env' = env
    BY <1>1 DEF GetOffer, Gets, Begins, server, sockets, bounds
<1>3. r.remote = m.from /\ r.chan = phone[u].chan
    BY PhoneTyped DEF PhoneOf
<1>4. m.from \in Callers \ {u} /\ u \in Callers /\ Higher(m.from)
    <2>1. HeardFits(u, m)
        BY <1>1, <1>2, HeadFits
    <2> QED
        BY <1>2, <2>1 DEF HeardFits, Roles, RoleInv, PhoneFits
<1>5. Lower(u)
    <2>1. PICK v \in Callers : m.from < v
        BY <1>4 DEF Higher
    <2>2. v # m.from
        BY <1>4, <2>1, SignalingAssumption DEF Callers
    <2>3. v = u
        BY <1>4, <2>2 DEF AtMostTwo
    <2> QED
        BY <1>4, <2>1, <2>3 DEF Lower
<1>6. /\ \A t \in S : t \in tasks[u] \/ TaskFits(u, t)
      /\ \A t \in T : t \in tasks[u] \/ TaskFits(u, t)
    BY <1>4, <1>5 DEF TaskFits, Task
<1> HIDE DEF r, S, T
<1>7. PhonePart(u)
    <2>1. PhoneFits(u, r)
        BY <1>3, <1>4 DEF PhoneFits
    <2> QED
        BY <1>2, <2>1, PhoneBecomes
<1>8. DownPart(u)
    BY <1>2, TakenPart
<1>9. CASE tasks' = [tasks EXCEPT ![u] = S] /\ UNCHANGED pcs
    BY <1>2, <1>6, <1>7, <1>8, <1>9, TasksBecome, PartsStay, RoleStep
<1>10. CASE /\ tasks' = [tasks EXCEPT ![u] = T]
            /\ pcs' = [pcs EXCEPT ![u] = Append(pcs[u], NewPc)]
    <2>1. PcsPart(u)
        <3>1. pcs[u] = [n \in DOMAIN pcs[u] |-> pcs[u][n]]
            BY PhoneTyped
        <3>2. \A n \in DOMAIN pcs[u] : PcFits(u, pcs[u][n])
            BY DEF Roles, RoleInv
        <3> QED
            BY <1>10, <3>1, <3>2, PcsMadePart
    <2>2. TasksPart(u)
        BY <1>6, <1>10, TasksBecome
    <2> QED
        BY <1>2, <1>7, <1>8, <2>1, <2>2, PartsStay, RoleStep
<1> QED
    BY <1>2, <1>9, <1>10

\* GetAnswer.
LEMMA GetAnswerRoles == ASSUME Inv, Roles, NEW u \in User, GetAnswer(u) PROVE Roles'
<1> DEFINE T == tasks[u] \cup {Task("apply_answer", Pc(u), Head(down[u]).by)}
<1>1. /\ tasks' = [tasks EXCEPT ![u] = T] \/ UNCHANGED tasks
      /\ down[u] # <<>> /\ phone[u].chan = "open" /\ down' = Rest(u)
      /\ UNCHANGED <<phone, pcs, up, waiting, news>> /\ env' = env
    BY DEF GetAnswer, Gets, Begins, server, sockets, bounds
<1>2. \A t \in T : t \in tasks[u] \/ TaskFits(u, t)
    BY <1>1 DEF TaskFits, Task, Roles, RoleInv, PhoneFits
<1> HIDE DEF T
<1>3. TasksPart(u) /\ DownPart(u)
    BY <1>1, <1>2, TasksBecome, PartsStay, TakenPart
<1> QED
    BY <1>1, <1>3, PartsStay, RoleStep

\* GetCandidate.
LEMMA GetCandidateRoles ==
    ASSUME Inv, Roles, NEW u \in User, GetCandidate(u)
    PROVE  Roles'
<1>1. PICK c, add : add \in BOOLEAN /\ pcs' = [pcs EXCEPT ![u] = [n \in DOMAIN pcs[u] |->
                        IF n = Pc(u) THEN Hearing(pcs[u][n], c, add)
                                     ELSE pcs[u][n]]]
    BY DEF GetCandidate
<1>2. /\ down[u] # <<>> /\ down' = Rest(u)
      /\ UNCHANGED <<tasks, up, waiting, news>> /\ env' = env
      /\ UNCHANGED phone \/ \E x : phone' = [phone EXCEPT ![u] = [phone[u] EXCEPT !.pending = x]]
    BY DEF GetCandidate, Gets, server, sockets, bounds
<1>3. PcsPart(u)
    <2>1. /\ DOMAIN pcs'[u] = DOMAIN pcs[u] /\ \A v \in User \ {u} : pcs'[v] = pcs[v]
          /\ \A n \in DOMAIN pcs[u] :
                pcs'[u][n] = pcs[u][n] \/ pcs'[u][n] = Hearing(pcs[u][n], c, add)
        BY <1>1, Domains
    <2>2. \A n \in DOMAIN pcs[u] : Hearing(pcs[u][n], c, add).sig = pcs[u][n].sig
        BY PhoneTyped DEF Hearing, PcOf
    <2>3. \A n \in DOMAIN pcs[u] : PcFits(u, pcs[u][n])
        BY DEF Roles, RoleInv
    <2> QED
        BY <2>1, <2>2, <2>3 DEF PcsPart, PcFits
<1>4. PhonePart(u)
    <2>1. CASE UNCHANGED phone
        BY <2>1, PartsStay
    <2>2. CASE \E x : phone' = [phone EXCEPT ![u] = [phone[u] EXCEPT !.pending = x]]
        <3>1. PICK x, r : /\ phone' = [phone EXCEPT ![u] = r]
                          /\ r = [phone[u] EXCEPT !.pending = x]
            BY <2>2
        <3>2. r.chan = phone[u].chan /\ r.remote = phone[u].remote
            BY <3>1, PhoneTyped DEF PhoneOf
        <3>3. PhoneFits(u, r)
            BY <3>2 DEF PhoneFits, Roles, RoleInv
        <3> QED
            BY <3>1, <3>3, PhoneBecomes
    <2> QED
        BY <1>2, <2>1, <2>2
<1>5. DownPart(u)
    BY <1>2, TakenPart
<1> QED
    BY <1>2, <1>3, <1>4, <1>5, PartsStay, RoleStep

\* GetBye.
LEMMA GetByeRoles == ASSUME Inv, Roles, NEW u \in User, GetBye(u) PROVE Roles'
<1>1. /\ down[u] # <<>>
      /\ HangUp(u) \/ (down' = Rest(u) /\ UNCHANGED <<phone, pcs>>)
      /\ UNCHANGED <<tasks, up, waiting, news>> /\ env' = env
    BY DEF GetBye, Gets, server, sockets, bounds
<1>2. PhonePart(u) /\ PcsPart(u) /\ DownPart(u)
    BY <1>1, HangUpParts, TakenPart, PartsStay
<1> QED
    BY <1>1, <1>2, PartsStay, RoleStep

\* GetClosed.
LEMMA GetClosedRoles == ASSUME Inv, Roles, NEW u \in User, GetClosed(u) PROVE Roles'
<1> DEFINE r == [phone[u] EXCEPT !.chan = "none"]
<1>1. /\ down[u] # <<>>
      /\ \/ HangUp(u)
         \/ down' = Rest(u) /\ UNCHANGED pcs /\ phone' = [phone EXCEPT ![u] = r]
      /\ UNCHANGED <<tasks, up, waiting, news>> /\ env' = env
    BY DEF GetClosed, Gets, server, sockets, bounds
<1>2. r.remote = phone[u].remote /\ r.chan = "none"
    BY PhoneTyped DEF PhoneOf
<1> HIDE DEF r
<1>3. PhoneFits(u, r)
    BY <1>2 DEF PhoneFits, Roles, RoleInv
<1>4. PhonePart(u) /\ PcsPart(u) /\ DownPart(u)
    <2>1. CASE HangUp(u)
        BY <2>1, HangUpParts
    <2>2. CASE down' = Rest(u) /\ UNCHANGED pcs /\ phone' = [phone EXCEPT ![u] = r]
        BY <1>1, <1>3, <2>2, PhoneBecomes, TakenPart, PartsStay
    <2> QED
        BY <1>1, <2>1, <2>2
<1> QED
    BY <1>1, <1>4, PartsStay, RoleStep

\* GetShutdown.
LEMMA GetShutdownRoles == ASSUME Inv, Roles, NEW u \in User, GetShutdown(u) PROVE Roles'
<1> DEFINE r == [Started EXCEPT !.screen = "matching"]
           T == tasks[u] \cup {Task("reconnect", 0, None)}
<1>1. /\ phone' = [phone EXCEPT ![u] = r]
      /\ tasks' = [tasks EXCEPT ![u] = T]
      /\ phone[u].chan = "open"
      /\ pcs' = [pcs EXCEPT ![u] = Disposed(u, {Pc(u)})]
      /\ down' = [down EXCEPT ![u] = <<>>]
      /\ UNCHANGED <<up, waiting, news>> /\ env' = env
    BY DEF GetShutdown, Gets, Begins, server, sockets, bounds
<1>2. PhoneFits(u, r)
    BY DEF PhoneFits, Started
<1>3. \A t \in T : t \in tasks[u] \/ TaskFits(u, t)
    BY <1>1 DEF TaskFits, Task, Roles, RoleInv, PhoneFits
<1> HIDE DEF r, T
<1>4. PhonePart(u) /\ TasksPart(u) /\ DownPart(u)
    BY <1>1, <1>2, <1>3, PhoneBecomes, TasksBecome, ForgottenPart
<1>5. PcsPart(u)
    BY <1>1, PcsDisposedPart
<1> QED
    BY <1>1, <1>4, <1>5, PartsStay, RoleStep

\* Every message.
LEMMA ReceiveRoles ==
    ASSUME Inv, Roles, AtMostTwo, NEW u \in User, Receive(u)
    PROVE  Roles'
BY GetMatchRoles, GetOfferRoles, GetAnswerRoles, GetCandidateRoles, GetByeRoles,
   GetClosedRoles, GetShutdownRoles DEF Receive

\* A task ends, or goes on as another of the same role.
LEMMA EndsPart ==
    ASSUME Inv, Roles, NEW u \in User, NEW t, Ends(u, t)
    PROVE  TasksPart(u)
<1>1. PICK T : tasks' = [tasks EXCEPT ![u] = T] /\ T = tasks[u] \ {t}
    BY DEF Ends
<1> QED
    BY <1>1, TasksBecome

\* The next step of a task that makes an offer is the same phone's.
LEMMA GoesPart ==
    ASSUME Inv, Roles, NEW u \in User, NEW t \in tasks[u], NEW do, Goes(u, t, do),
           do \in {"set_offer", "send_offer"} => Higher(u),
           do \in {"make", "apply_offer"} => Lower(u)
    PROVE  TasksPart(u)
<1>1. PICK s, T : /\ tasks' = [tasks EXCEPT ![u] = T] /\ T = (tasks[u] \ {t}) \cup {s}
                  /\ s = [t EXCEPT !.do = do]
    BY DEF Goes
<1>2. t \in TaskOf(PcIds) /\ TaskFits(u, t)
    BY DEF Inv, Local, Roles, RoleInv
<1>3. s.do = do
    BY <1>1, <1>2 DEF TaskOf
<1>4. TaskFits(u, s)
    BY <1>2, <1>3 DEF TaskFits
<1>5. \A x \in T : x \in tasks[u] \/ TaskFits(u, x)
    BY <1>1, <1>4
<1> QED
    BY <1>1, <1>5, TasksBecome

\* The engine changes the peer connection of t, or refuses.
LEMMA EngineParts ==
    ASSUME Inv, Roles, NEW u \in User, NEW t \in tasks[u], NEW states, NEW changed, NEW do,
           Engine(u, t, states, changed, do), t.pc \in DOMAIN pcs[u],
           changed.sig # "local" \/ Higher(u),
           do \in {"set_offer", "send_offer"} => Higher(u),
           do \notin {"make", "apply_offer"}
    PROVE  PcsPart(u) /\ TasksPart(u)
<1>1. CASE pcs' = [pcs EXCEPT ![u][t.pc] = changed] /\ Goes(u, t, do)
    <2>1. PICK n : n = t.pc
        OBVIOUS
    <2>2. PcTurns(u, n, changed) /\ n \in DOMAIN pcs[u]
        BY <1>1, <2>1 DEF PcTurns
    <2> QED
        BY <1>1, <2>2, PcsSetPart, GoesPart
<1>2. CASE Ends(u, t) /\ UNCHANGED pcs
    BY <1>2, EndsPart, PartsStay
<1> QED
    BY <1>1, <1>2 DEF Engine

\* A task works on a peer connection there is.
LEMMA TaskHas ==
    ASSUME Inv, NEW u \in User, NEW t \in tasks[u], t.do \in Working
    PROVE  t.pc \in DOMAIN pcs[u]
BY DEF Inv, Local, TaskInv

\* SetOffer: the task says that somebody is above.
LEMMA SetOfferRoles ==
    ASSUME Inv, Roles, NEW u \in User, NEW t \in tasks[u], SetOffer(u, t)
    PROVE  Roles'
<1> DEFINE c == [pcs[u][t.pc] EXCEPT !.sig = "local", !.gather = Gathering(pcs[u][t.pc])]
<1>1. /\ t.do = "set_offer"
      /\ Engine(u, t, {"stable", "local"}, c, "send_offer")
      /\ UNCHANGED <<phone, up, waiting, down, news>> /\ env' = env
    BY DEF SetOffer, server, sockets, bounds
<1>2. Higher(u)
    BY <1>1 DEF Roles, RoleInv, TaskFits
<1>3. t.pc \in DOMAIN pcs[u]
    BY <1>1, TaskHas DEF Working
<1> HIDE DEF c
<1>4. PcsPart(u) /\ TasksPart(u)
    BY <1>1, <1>2, <1>3, EngineParts
<1> QED
    BY <1>1, <1>4, PartsStay, RoleStep

\* SetAnswer.
LEMMA SetAnswerRoles ==
    ASSUME Inv, Roles, NEW u \in User, NEW t \in tasks[u], SetAnswer(u, t)
    PROVE  Roles'
<1> DEFINE c == [pcs[u][t.pc] EXCEPT !.sig = "stable", !.gather = Gathering(pcs[u][t.pc])]
<1>1. /\ t.do = "set_answer"
      /\ Engine(u, t, {"remote"}, c, "send_answer")
      /\ UNCHANGED <<phone, up, waiting, down, news>> /\ env' = env
    BY DEF SetAnswer, server, sockets, bounds
<1>2. t.pc \in DOMAIN pcs[u]
    BY <1>1, TaskHas DEF Working
<1>3. c.sig = "stable"
    BY <1>2, PhoneTyped DEF PcOf
<1> HIDE DEF c
<1>4. PcsPart(u) /\ TasksPart(u)
    BY <1>1, <1>2, <1>3, EngineParts
<1> QED
    BY <1>1, <1>4, PartsStay, RoleStep

\* Apply: no offer of the phone's own is out then.
LEMMA ApplyRoles ==
    ASSUME Inv, Roles, NEW u \in User, NEW t \in tasks[u], Apply(u, t)
    PROVE  Roles'
<1> DEFINE c == [pcs[u][t.pc] EXCEPT !.sig = "remote",
                                     !.rem = [type |-> "offer", by |-> t.by]]
           d == [pcs[u][t.pc] EXCEPT !.sig = "stable",
                                     !.rem = [type |-> "answer", by |-> t.by]]
<1>1. /\ \/ t.do = "apply_offer" /\ Engine(u, t, {"stable", "remote"}, c, "resume_offer")
         \/ t.do = "apply_answer" /\ Engine(u, t, {"local"}, d, "resume_answer")
      /\ UNCHANGED <<phone, up, waiting, down, news>> /\ env' = env
    BY DEF Apply, server, sockets, bounds
<1>2. t.pc \in DOMAIN pcs[u]
    BY <1>1, TaskHas DEF Working
<1>3. c.sig = "remote" /\ d.sig = "stable"
    BY <1>2, PhoneTyped DEF PcOf
<1> HIDE DEF c, d
<1>4. PcsPart(u) /\ TasksPart(u)
    BY <1>1, <1>2, <1>3, EngineParts
<1> QED
    BY <1>1, <1>4, PartsStay, RoleStep

\* SendDescription: an offer is sent by the task that made it.
LEMMA SendDescriptionRoles ==
    ASSUME Inv, Roles, NEW u \in User, NEW t \in tasks[u], SendDescription(u, t)
    PROVE  Roles'
<1>1. PICK type, m : /\ m = Message(u, type, <<u, t.pc>>)
                     /\ type = IF t.do = "send_offer" THEN "offer" ELSE "answer"
    OBVIOUS
<1>2. /\ up' = Sent(u, <<m>>) /\ Ends(u, t)
      /\ UNCHANGED <<phone, pcs, down, waiting, news>> /\ env' = env
    BY <1>1 DEF SendDescription, sockets, bounds
<1>3. type # "offer" \/ Higher(u)
    BY <1>1 DEF Roles, RoleInv, TaskFits
<1>4. UpPart(u) /\ TasksPart(u)
    <2>1. phone[u].chan = "open" => SentFits(u, m)
        BY <1>1, <1>3, MessageFits
    <2> QED
        BY <1>2, <2>1, SentPart, EndsPart
<1> QED
    BY <1>2, <1>4, PartsStay, RoleStep

\* The peer connection of a phone, its screen, and what it has heard of candidates
\* say nothing of roles.
LEMMA PlainFits ==
    ASSUME Roles, NEW u \in User, NEW r, phone' = [phone EXCEPT ![u] = r], Inv,
           r.remote = phone[u].remote, r.chan = phone[u].chan
    PROVE  PhonePart(u)
<1>1. PhoneFits(u, r)
    BY DEF PhoneFits, Roles, RoleInv
<1> QED
    BY <1>1, PhoneBecomes

\* Make.
LEMMA MakeRoles ==
    ASSUME Inv, Roles, NEW u \in User, NEW t \in tasks[u], Make(u, t)
    PROVE  Roles'
<1> DEFINE r == [phone[u] EXCEPT !.pc = t.pc]
<1>1. /\ phone' = [phone EXCEPT ![u] = r] /\ t.do = "make" /\ Goes(u, t, "apply_offer")
      /\ UNCHANGED <<pcs, up, down, waiting, news>> /\ env' = env
    BY DEF Make, server, sockets, bounds
<1>2. r.remote = phone[u].remote /\ r.chan = phone[u].chan
    BY PhoneTyped DEF PhoneOf
<1> HIDE DEF r
<1>3. Lower(u)
    BY <1>1 DEF Roles, RoleInv, TaskFits
<1>4. PhonePart(u) /\ TasksPart(u)
    BY <1>1, <1>2, <1>3, PlainFits, GoesPart
<1> QED
    BY <1>1, <1>4, PartsStay, RoleStep

\* Create.
LEMMA CreateRoles ==
    ASSUME Inv, Roles, NEW u \in User, NEW t \in tasks[u], Create(u, t)
    PROVE  Roles'
<1> DEFINE r == [phone[u] EXCEPT !.pc = t.pc]
<1>1. /\ phone' = [phone EXCEPT ![u] = r] /\ Ends(u, t)
      /\ UNCHANGED <<pcs, up, down, waiting, news>> /\ env' = env
    BY DEF Create, server, sockets, bounds
<1>2. r.remote = phone[u].remote /\ r.chan = phone[u].chan
    BY PhoneTyped DEF PhoneOf
<1> HIDE DEF r
<1>3. PhonePart(u) /\ TasksPart(u)
    BY <1>1, <1>2, PlainFits, EndsPart
<1> QED
    BY <1>1, <1>3, PartsStay, RoleStep

\* Slide.
LEMMA SlideRoles ==
    ASSUME Inv, Roles, NEW u \in User, NEW t \in tasks[u], Slide(u, t)
    PROVE  Roles'
<1> DEFINE r == [phone[u] EXCEPT !.screen = "matching"]
<1>1. /\ phone' = [phone EXCEPT ![u] = r] /\ Ends(u, t)
      /\ UNCHANGED <<pcs, up, down, waiting, news>> /\ env' = env
    BY DEF Slide, server, sockets, bounds
<1>2. r.remote = phone[u].remote /\ r.chan = phone[u].chan
    BY PhoneTyped DEF PhoneOf
<1> HIDE DEF r
<1>3. PhonePart(u) /\ TasksPart(u)
    BY <1>1, <1>2, PlainFits, EndsPart
<1> QED
    BY <1>1, <1>3, PartsStay, RoleStep

\* Resume.
LEMMA ResumeRoles ==
    ASSUME Inv, Roles, NEW u \in User, NEW t \in tasks[u], Resume(u, t)
    PROVE  Roles'
<1>1. PICK x : x = IF Pc(u) = 0 THEN phone[u].pending ELSE {}
    OBVIOUS
<1> DEFINE r == [phone[u] EXCEPT !.ready = TRUE, !.pending = x]
           c == [pcs[u][Pc(u)] EXCEPT !.added = @ \cup phone[u].pending]
<1>2. /\ phone' = [phone EXCEPT ![u] = r]
      /\ \/ Pc(u) # 0 /\ PcTurns(u, Pc(u), c)
         \/ UNCHANGED pcs
      /\ Goes(u, t, "set_answer") \/ Ends(u, t)
      /\ UNCHANGED <<up, down, waiting, news>> /\ env' = env
    BY <1>1 DEF Resume, PcTurns, server, sockets, bounds
<1>3. r.remote = phone[u].remote /\ r.chan = phone[u].chan
    BY PhoneTyped DEF PhoneOf
<1>4. Pc(u) # 0 => Pc(u) \in DOMAIN pcs[u] /\ c.sig = pcs[u][Pc(u)].sig
    BY PhoneTyped DEF PcOf
<1> HIDE DEF r, c
<1>5. PhonePart(u)
    BY <1>2, <1>3, PlainFits
<1>6. TasksPart(u)
    BY <1>2, GoesPart, EndsPart
<1>7. PcsPart(u)
    BY <1>2, <1>4, PcsSetPart, PartsStay
<1> QED
    BY <1>2, <1>5, <1>6, <1>7, PartsStay, RoleStep

\* A new attempt at a call begins.
LEMMA PrewarmedPart ==
    ASSUME Inv, Roles, NEW u \in User, NEW screen, NEW chan, Prewarmed(u, screen, chan),
           chan = phone[u].chan \/ u \in Callers
    PROVE  PhonePart(u) /\ PcsPart(u)
<1> DEFINE r == [phone[u] EXCEPT !.pc = Next1(u), !.ready = FALSE, !.pending = {},
                                 !.screen = screen, !.chan = chan]
<1>1. /\ phone' = [phone EXCEPT ![u] = r]
      /\ pcs' = [pcs EXCEPT ![u] = Append(pcs[u], NewPc)]
    BY DEF Prewarmed
<1>2. r.remote = phone[u].remote /\ r.chan = chan
    BY PhoneTyped DEF PhoneOf
<1> HIDE DEF r
<1>3. PhoneFits(u, r)
    BY <1>2 DEF PhoneFits, Roles, RoleInv
<1>4. PcsPart(u)
    <2>1. pcs[u] = [n \in DOMAIN pcs[u] |-> pcs[u][n]]
        BY PhoneTyped
    <2>2. \A n \in DOMAIN pcs[u] : PcFits(u, pcs[u][n])
        BY DEF Roles, RoleInv
    <2> QED
        BY <1>1, <2>1, <2>2, PcsMadePart
<1> QED
    BY <1>1, <1>3, <1>4, PhoneBecomes

\* Reconnect: who was drained is a caller.
LEMMA ReconnectRoles ==
    ASSUME Inv, Roles, NEW u \in User, NEW t \in tasks[u], Reconnect(u, t)
    PROVE  Roles'
<1>1. PICK s : s = phone[u].screen
    OBVIOUS
<1>2. /\ Prewarmed(u, s, "open") /\ waiting' = waiting \cup {u} /\ Ends(u, t)
      /\ UNCHANGED <<up, down, news>> /\ env' = env
    BY <1>1 DEF Reconnect, Registered, bounds
<1>3. u \in Callers
    BY DEF Roles, RoleInv, TaskFits
<1>4. WaitingPart(u) /\ TasksPart(u)
    BY <1>2, <1>3, EndsPart DEF WaitingPart
<1>5. PhonePart(u) /\ PcsPart(u)
    BY <1>2, <1>3, PrewarmedPart
<1> QED
    BY <1>2, <1>4, <1>5, PartsStay, RoleStep

\* GiveUp.
LEMMA GiveUpRoles ==
    ASSUME Inv, Roles, NEW u \in User, NEW t \in tasks[u], GiveUp(u, t)
    PROVE  Roles'
<1>1. PICK c : c = phone[u].chan
    OBVIOUS
<1>2. /\ Prewarmed(u, "idle", c) /\ Ends(u, t)
      /\ UNCHANGED <<up, down, waiting, news>> /\ env' = env
    BY <1>1, FaultEnv DEF GiveUp, server, sockets
<1>3. PhonePart(u) /\ PcsPart(u)
    BY <1>1, <1>2, PrewarmedPart
<1>4. TasksPart(u)
    BY <1>2, EndsPart
<1> QED
    BY <1>2, <1>3, <1>4, PartsStay, RoleStep

\* Every task.
LEMMA WorksRoles ==
    ASSUME Inv, Roles, NEW u \in User, NEW t \in tasks[u], Works(u, t)
    PROVE  Roles'
BY SetOfferRoles, SendDescriptionRoles, MakeRoles, ApplyRoles, ResumeRoles,
   SetAnswerRoles, CreateRoles, SlideRoles, ReconnectRoles DEF Works

\* What the engine reports.
LEMMA GatherRoles ==
    ASSUME Inv, Roles, NEW u \in User, NEW n \in DOMAIN pcs[u], Gather(u, n)
    PROVE  Roles'
<1> DEFINE c == [pcs[u][n] EXCEPT !.gather = "done"]
           m == Message(u, "ice_candidate", <<u, n>>)
<1>1. /\ PcTurns(u, n, c) /\ up' = Sent(u, <<m>>)
      /\ UNCHANGED <<phone, tasks, down, waiting, news>> /\ env' = env
    BY DEF Gather, PcTurns, sockets, bounds
<1>2. c.sig = pcs[u][n].sig
    BY PhoneTyped DEF PcOf
<1>3. phone[u].chan = "open" => SentFits(u, m)
    BY MessageFits
<1> HIDE DEF c, m
<1>4. PcsPart(u)
    BY <1>1, <1>2, PcsSetPart
<1>5. UpPart(u)
    BY <1>1, <1>3, SentPart
<1> QED
    BY <1>1, <1>4, <1>5, PartsStay, RoleStep

\* Track.
LEMMA TrackRoles ==
    ASSUME Inv, Roles, NEW u \in User, NEW n \in DOMAIN pcs[u], Track(u, n)
    PROVE  Roles'
<1> DEFINE c == [pcs[u][n] EXCEPT !.tracked = TRUE]
           r == [phone[u] EXCEPT !.screen = "connected"]
<1>1. /\ PcTurns(u, n, c) /\ phone' = [phone EXCEPT ![u] = r]
      /\ UNCHANGED <<tasks, up, down, waiting, news>> /\ env' = env
    BY DEF Track, PcTurns, server, sockets, bounds
<1>2. c.sig = pcs[u][n].sig
    BY PhoneTyped DEF PcOf
<1>3. r.remote = phone[u].remote /\ r.chan = phone[u].chan
    BY PhoneTyped DEF PhoneOf
<1> HIDE DEF c, r
<1>4. PcsPart(u) /\ PhonePart(u)
    BY <1>1, <1>2, <1>3, PcsSetPart, PlainFits
<1> QED
    BY <1>1, <1>4, PartsStay, RoleStep

\* Disconnects.
LEMMA DisconnectsRoles ==
    ASSUME Inv, Roles, NEW u \in User, NEW n \in DOMAIN pcs[u], Disconnects(u, n),
           env' = env
    PROVE  Roles'
<1> DEFINE c == [pcs[u][n] EXCEPT !.failed = TRUE]
<1>1. /\ HangUp(u) \/ (PcTurns(u, n, c) /\ UNCHANGED <<phone, down>>)
      /\ UNCHANGED <<tasks, up, waiting, news>>
    BY DEF Disconnects, PcTurns, server, sockets
<1>2. c.sig = pcs[u][n].sig
    BY PhoneTyped DEF PcOf
<1> HIDE DEF c
<1>3. PhonePart(u) /\ PcsPart(u) /\ DownPart(u)
    <2>1. CASE HangUp(u)
        BY <2>1, HangUpParts
    <2>2. CASE PcTurns(u, n, c) /\ UNCHANGED <<phone, down>>
        BY <1>2, <2>2, PcsSetPart, PartsStay
    <2> QED
        BY <1>1, <2>1, <2>2
<1> QED
    BY <1>1, <1>3, PartsStay, RoleStep

\* Every report of the engine.
LEMMA ReportsRoles ==
    ASSUME Inv, Roles, NEW u \in User, Reports(u)
    PROVE  Roles'
<1>1. ASSUME NEW n \in DOMAIN pcs[u], PeerGone(u, n)
      PROVE  Roles'
    BY <1>1, FaultEnv, DisconnectsRoles DEF PeerGone
<1> QED
    BY <1>1, GatherRoles, TrackRoles DEF Reports

\* What happens by itself.
LEMMA ProceedsRoles == ASSUME Inv, Roles, AtMostTwo, Proceeds PROVE Roles'
<1>1. PICK u \in User :
          \/ Accept(u) \/ Tell(u) \/ Relay(u) \/ Cleanup(u) \/ Receive(u) \/ Reports(u)
          \/ \E t \in tasks[u] : Works(u, t)
          \/ \E v \in User : Match(u, v)
    BY DEF Proceeds
<1> QED
    BY <1>1, AcceptRoles, TellRoles, RelayRoles, CleanupRoles, ReceiveRoles, ReportsRoles,
       WorksRoles, MatchRoles

\* What users do, and what goes wrong.
LEMMA ActsRoles == ASSUME Inv, Roles, NEW u \in User, Acts(u) PROVE Roles'
<1>1. ASSUME NEW n \in DOMAIN pcs[u], IceFails(u, n)
      PROVE  Roles'
    BY <1>1, FaultEnv, DisconnectsRoles DEF IceFails
<1>2. ASSUME NEW t \in tasks[u], AnswerSheet(u, t) \/ Submitted(u, t) \/ GiveUp(u, t)
      PROVE  Roles'
    BY <1>2, AnswerSheetRoles, SubmittedRoles, GiveUpRoles
<1>3. CASE Join(u) \/ EndCall(u) \/ Swipe(u) \/ Report(u) \/ Kill(u)
    BY <1>3, JoinRoles, EndCallRoles, SwipeRoles, ReportRoles, KillRoles
<1>4. CASE Refuse(u) \/ Lose(u) \/ Drain(u)
    BY <1>4, RefuseRoles, ClosesRoles
<1> QED
    BY <1>1, <1>2, <1>3, <1>4 DEF Acts

\* Nobody has a role to begin with.
LEMMA InitRoles == Init => Roles
<1> SUFFICES ASSUME Init, NEW u \in User
             PROVE  RoleInv(u)
    BY DEF Roles
<1>1. /\ phone[u] = Started /\ pcs[u] = <<>> /\ tasks[u] = {} /\ up[u] = <<>>
      /\ down[u] = <<>> /\ waiting = {} /\ news[u] = None
    BY DEF Init
<1>2. PhoneFits(u, phone[u])
    BY <1>1 DEF PhoneFits, Started
<1> QED
    BY <1>1, <1>2 DEF RoleInv

\* The environment is what it is.
LEMMA EnvStays == [Next]_vars => env' = env
<1> SUFFICES ASSUME [Next]_vars
             PROVE  env' = env
    OBVIOUS
<1>1. CASE UNCHANGED vars
    BY <1>1 DEF vars
<1>2. ASSUME NEW u \in User, Acts(u)
      PROVE  env' = env
    BY <1>2 DEF Acts, Join, EndCall, Swipe, FindNextMatch, Report, Kill, Fault, AnswerSheet,
       Submitted, GiveUp, IceFails, Refuse, Lose, Drain, bounds
<1>3. ASSUME NEW u \in User, Receive(u)
      PROVE  env' = env
    BY <1>3 DEF Receive, GetMatch, GetOffer, GetAnswer, GetCandidate, GetBye, GetClosed,
       GetShutdown, bounds
<1>4. ASSUME NEW u \in User, NEW t \in tasks[u], Works(u, t)
      PROVE  env' = env
    BY <1>4 DEF Works, SetOffer, SendDescription, Make, Apply, Resume, SetAnswer, Create,
       Slide, Reconnect, bounds
<1>5. ASSUME NEW u \in User, Reports(u)
      PROVE  env' = env
    BY <1>5 DEF Reports, Gather, Track, PeerGone, bounds
<1>6. ASSUME NEW u \in User, Accept(u) \/ Tell(u) \/ Relay(u) \/ Cleanup(u)
      PROVE  env' = env
    BY <1>6 DEF Accept, Tell, Relay, Cleanup, bounds
<1>7. ASSUME NEW u \in User, NEW v \in User, Match(u, v)
      PROVE  env' = env
    BY <1>7 DEF Match
<1> QED
    BY <1>1, <1>2, <1>3, <1>4, <1>5, <1>6, <1>7 DEF Next, Proceeds

\* The roles are inductive between two callers.
LEMMA RolesNext == Inv /\ (AtMostTwo => Roles) /\ [Next]_vars => (AtMostTwo => Roles)'
<1> SUFFICES ASSUME Inv, AtMostTwo => Roles, [Next]_vars, AtMostTwo'
             PROVE  Roles'
    OBVIOUS
<1>1. env' = env
    BY EnvStays
<1>2. AtMostTwo
    BY <1>1, FitsStay DEF AtMostTwo
<1>3. CASE UNCHANGED vars
    <2>1. \A v : (Higher(v)' <=> Higher(v)) /\ (Lower(v)' <=> Lower(v))
        BY <1>1, FitsStay
    <2>2. Callers' = Callers
        BY <1>1, FitsStay
    <2> QED
        BY <1>2, <1>3, <2>1, <2>2
        DEF vars, Roles, RoleInv, PhoneFits, PcFits, TaskFits, SentFits, HeardFits
<1>4. CASE Next
    BY <1>2, <1>4, ProceedsRoles, ActsRoles DEF Next
<1> QED
    BY <1>3, <1>4

\* With two callers the offerer has the higher of them above, and who applies an offer
\* the lower below.
LEMMA RolesNoGlare == ASSUME Inv, Roles, AtMostTwo PROVE NoGlare
<1>1. ASSUME NEW u, Higher(u), Lower(u)
      PROVE  FALSE
    <2>1. PICK v \in Callers, w \in Callers : w < u /\ u < v /\ u \in Callers
        BY <1>1 DEF Higher, Lower
    <2>2. u \in Nat /\ v \in Nat /\ w \in Nat
        BY <2>1, SignalingAssumption DEF Callers
    <2> QED
        BY <2>1, <2>2 DEF AtMostTwo
<1>2. ASSUME NEW u, NEW v, Higher(u), Higher(v), u # v
      PROVE  FALSE
    <2>1. PICK x \in Callers, y \in Callers : u < x /\ v < y
        BY <1>2 DEF Higher
    <2>2. u \in Callers /\ v \in Callers
        BY <1>2 DEF Higher
    <2>3. u \in Nat /\ v \in Nat /\ x \in Nat /\ y \in Nat
        BY <2>1, <2>2, SignalingAssumption DEF Callers
    <2>4. u # x /\ v # y
        BY <2>1, <2>3
    <2>5. x = v /\ y = u
        BY <1>2, <2>1, <2>2, <2>4 DEF AtMostTwo
    <2> QED
        BY <2>1, <2>3, <2>5
<1>3. ASSUME NEW u \in User, Pc(u) # 0, pcs[u][Pc(u)].sig = "local"
      PROVE  Higher(u)
    <2>1. Pc(u) \in DOMAIN pcs[u]
        BY <1>3, PhoneTyped
    <2> QED
        BY <1>3, <2>1 DEF Roles, RoleInv, PcFits
<1>4. ASSUME NEW u \in User, NEW v \in User, Pc(u) # 0, pcs[u][Pc(u)].sig = "local"
      PROVE  /\ ~\E t \in tasks[u] : t.do = "apply_offer"
             /\ (Pc(v) # 0 /\ phone[u].remote = v /\ phone[v].remote = u)
                   => pcs[v][Pc(v)].sig # "local"
    <2>1. Higher(u)
        BY <1>3, <1>4
    <2>2. ASSUME NEW t \in tasks[u], t.do = "apply_offer"
          PROVE  FALSE
        BY <1>1, <2>1, <2>2 DEF Roles, RoleInv, TaskFits
    <2>3. ASSUME Pc(v) # 0, phone[u].remote = v, pcs[v][Pc(v)].sig = "local"
          PROVE  FALSE
        <3>1. u # v
            BY <2>3, SignalingAssumption DEF Roles, RoleInv, PhoneFits
        <3> QED
            BY <1>2, <1>3, <2>1, <2>3, <3>1
    <2> QED
        BY <2>2, <2>3
<1> QED
    BY <1>4 DEF NoGlare

\* Two phones are not more than two callers.
LEMMA TwoCallers == ASSUME IsFiniteSet(User), TwoPhones PROVE AtMostTwo
<1> SUFFICES ASSUME NEW u \in Callers, NEW v \in Callers, NEW w \in Callers,
                    u # v, v # w, u # w
             PROVE  FALSE
    BY DEF AtMostTwo
<1>1. IsFiniteSet(Callers) /\ Cardinality(Callers) <= 2
    <2>1. Callers \subseteq User
        BY DEF Callers
    <2> QED
        BY <2>1, FS_Subset DEF TwoPhones, Callers
<1>2. PICK Q : Q = {u}
    OBVIOUS
<1>3. PICK S : S = {u, v}
    OBVIOUS
<1>4. IsFiniteSet(S) /\ Cardinality(S) = 2
    <2>1. IsFiniteSet(Q) /\ Cardinality(Q) = 1
        BY <1>2, FS_Singleton
    <2>2. S = Q \cup {v} /\ v \notin Q
        BY <1>2, <1>3
    <2>3. IsFiniteSet(S) /\ Cardinality(S) = Cardinality(Q) + 1
        BY <2>1, <2>2, FS_AddElement
    <2> QED
        BY <2>1, <2>3
<1>5. PICK R : R = S \cup {w}
    OBVIOUS
<1>6. /\ R \subseteq Callers /\ Cardinality(R) = 3 /\ Cardinality(R) <= Cardinality(Callers)
    <2>1. w \notin S /\ R \subseteq Callers
        BY <1>3, <1>5
    <2>2. Cardinality(R) = 2 + 1
        BY <1>4, <1>5, <2>1, FS_AddElement
    <2> QED
        BY <1>1, <2>1, <2>2, FS_Subset
<1>7. Cardinality(Callers) \in Nat
    BY <1>1, FS_CardinalityType
<1> QED
    BY <1>1, <1>6, <1>7

\* Two phones never have offers for each other at once, whatever goes wrong, and
\* neither do any number of phones while nothing does ("Glare prevention",
\* _handleMessage): the half of SameExchange that does not depend on how much goes
\* wrong.  That the users are finitely many is what makes two of them countable.
THEOREM NoGlareEver ==
    IsFiniteSet(User) => (Spec => []((Calm \/ TwoPhones) => NoGlare))
<1> SUFFICES ASSUME IsFiniteSet(User)
             PROVE  Spec => []((Calm \/ TwoPhones) => NoGlare)
    OBVIOUS
<1> DEFINE TInv == CInv /\ (AtMostTwo => Roles)
<1>1. Init => TInv
    BY InitInv, InitCalm, InitRoles DEF CInv
<1>2. TInv /\ [Next]_vars => TInv'
    <2>1. TInv /\ [Next]_vars => CInv'
        BY CNext
    <2>2. TInv /\ [Next]_vars => (AtMostTwo => Roles)'
        BY RolesNext DEF CInv
    <2> QED
        BY <2>1, <2>2
<1>3. TInv => ((Calm \/ TwoPhones) => NoGlare)
    <2>1. TInv /\ Calm => NoGlare
        BY CalmNoGlare DEF CInv
    <2>2. TInv /\ TwoPhones => NoGlare
        BY TwoCallers, RolesNoGlare DEF CInv
    <2> QED
        BY <2>1, <2>2
<1> HIDE DEF TInv
<1> QED
    BY <1>1, <1>2, <1>3, PTL DEF Spec
=============================================================================
