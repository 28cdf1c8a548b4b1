--------------------------- MODULE AgentLinkProofs ---------------------------
(***************************************************************************)
(* Theorems about AgentLink, for every set of messages, questions, sockets *)
(* and processes and every bound.                                          *)
(***************************************************************************)
EXTENDS AgentLinkTypes

-----------------------------------------------------------------------------
(* The table: its capacity and its order *)

(* The rows s, accepted in the order b after the last relayed one, r. *)
InOrder(s, b, r) ==
  /\ \A m \in Waiting(s) : r < b[m]
  /\ \A m, n \in Waiting(s) :
       m # n => \/ b[m] < b[n] /\ s[m] < s[n]
                \/ b[n] < b[m] /\ s[n] < s[m]

Fits(s) == IsFiniteSet(Waiting(s)) /\ Cardinality(Waiting(s)) <= MaxQueue

Counted == /\ relayed <= accepted
           /\ \A m \in Msgs : born[m] <= accepted

TableInv == Types /\ RanksBounded /\ Fits(seq) /\ InOrder(seq, born, relayed) /\ Counted

LEMMA FewerRowsFit ==
  ASSUME NEW s, NEW r, Fits(s), Waiting(r) \subseteq Waiting(s)
  PROVE  Fits(r)
<1>1. IsFiniteSet(Waiting(r)) /\ Cardinality(Waiting(r)) <= Cardinality(Waiting(s))
  BY FS_Subset DEF Fits
<1>2. Cardinality(Waiting(r)) \in Nat /\ Cardinality(Waiting(s)) \in Nat
  BY <1>1, FS_CardinalityType DEF Fits
<1>. QED  BY <1>1, <1>2, ConstantsAssumption DEF Fits

LEMMA OneMoreRowFits ==
  ASSUME NEW s \in [Msgs -> Nat], NEW m \in Msgs, NEW k \in Nat, Fits(s), HasRoom, s = seq
  PROVE  Fits([s EXCEPT ![m] = k])
<1>. DEFINE r == [s EXCEPT ![m] = k]
<1>1. Waiting(r) \subseteq Waiting(s) \cup {m}
  BY DEF Waiting
<1>2. /\ IsFiniteSet(Waiting(s) \cup {m})
      /\ Cardinality(Waiting(s) \cup {m}) <= Cardinality(Waiting(s)) + 1
  <2>1. Cardinality(Waiting(s)) \in Nat
    BY FS_CardinalityType DEF Fits
  <2>. QED  BY <2>1, FS_AddElement DEF Fits
<1>3. Cardinality(Waiting(s)) < MaxQueue /\ Cardinality(Waiting(s)) \in Nat
  BY FS_CardinalityType DEF Fits, HasRoom
<1>4. IsFiniteSet(Waiting(r)) /\ Cardinality(Waiting(r)) <= Cardinality(Waiting(s) \cup {m})
  BY <1>1, <1>2, FS_Subset
<1>5. Cardinality(Waiting(r)) \in Nat /\ Cardinality(Waiting(s) \cup {m}) \in Nat
  BY <1>2, <1>4, FS_CardinalityType
<1>. HIDE DEF r
<1>6. Fits(r)
  BY <1>2, <1>3, <1>4, <1>5, ConstantsAssumption DEF Fits
<1>. QED  BY <1>6 DEF r

(* Relaying the oldest row leaves younger rows behind. *)
LEMMA DrainKeepsOrder ==
  ASSUME NEW s \in [Msgs -> Nat], born' \in [Msgs -> Nat], relayed \in Nat,
         NEW c, NEW v, NEW f, DrainQueue(c, v, s, f),
         Fits(s), InOrder(s, born', relayed)
  PROVE  Fits(seq') /\ InOrder(seq', born', relayed')
         /\ (relayed' = relayed \/ \E m \in Msgs : relayed' = born'[m])
<1>1. CASE seq' = s /\ relayed' = relayed
  BY <1>1
<1>2. CASE /\ Waiting(s) # {}
           /\ seq' = TakeRow(s, Oldest(s))
           /\ relayed' = born'[Oldest(s)]
  <2>. DEFINE o == Oldest(s)
  <2>1. o \in Waiting(s) /\ \A n \in Waiting(s) : s[o] <= s[n]
    BY <1>2, OldestWaits
  <2>2. o \in Msgs /\ \A m \in Waiting(seq') : m \in Waiting(s) /\ m # o /\ seq'[m] = s[m]
    BY <1>2, <2>1 DEF TakeRow, Waiting
  <2>. HIDE DEF o
  <2>3. Fits(seq')
    BY <2>2, FewerRowsFit
  <2>4. \A m \in Waiting(s) : m # o => born'[o] < born'[m]
    BY <2>1, <2>2 DEF InOrder, Waiting
  <2>5. InOrder(seq', born', relayed')
    BY <1>2, <2>2, <2>4 DEF InOrder, o
  <2>. QED  BY <1>2, <2>2, <2>3, <2>5 DEF o
<1>. QED  BY <1>1, <1>2 DEF DrainQueue

LEMMA TableInit == Init => TableInv
<1>. SUFFICES ASSUME Init  PROVE TableInv
  OBVIOUS
<1>1. Waiting(seq) = {}
  BY DEF Init, Waiting
<1>2. Fits(seq)
  BY <1>1, FS_EmptySet, ConstantsAssumption DEF Fits
<1>3. InOrder(seq, born, relayed) /\ Counted
  BY <1>1 DEF InOrder, Counted, Init
<1>. QED  BY <1>2, <1>3, InitTypes DEF TableInv

(* Steps that touch neither the rows nor the order of acceptance. *)
LEMMA TableStutter ==
  ASSUME TableInv, UNCHANGED <<seq, accepted, born, relayed>>
  PROVE  Fits(seq') /\ InOrder(seq', born', relayed') /\ Counted'
BY DEF TableInv, Counted

LEMMA TableDrop ==
  ASSUME TableInv, NEW S \in SUBSET Waiting(seq), NEW why, Drop(S, why)
  PROVE  Fits(seq') /\ InOrder(seq', born', relayed') /\ Counted'
<1>1. \A m \in Waiting(seq') : m \in Waiting(seq) /\ seq'[m] = seq[m]
  BY DEF Drop, Waiting
<1>2. Fits(seq')
  BY <1>1, FewerRowsFit DEF TableInv
<1>3. UNCHANGED <<accepted, born, relayed>>
  BY DEF Drop
<1>. QED  BY <1>1, <1>2, <1>3 DEF TableInv, InOrder, Counted

(* The table with the row of a message accepted just now. *)
LEMMA EnqueuedRows ==
  ASSUME TableInv, NEW m \in Msgs, Enqueue(m)
  PROVE  LET s == [seq EXCEPT ![m] = NextRank(seq)] IN
         /\ s \in [Msgs -> Nat] /\ Fits(s) /\ InOrder(s, born', relayed)
         /\ born' \in [Msgs -> Nat] /\ \A n \in Msgs : born'[n] <= accepted'
         /\ accepted' = accepted + 1
         /\ Waiting(s) = Waiting(seq) \cup {m}
<1>. DEFINE s == [seq EXCEPT ![m] = NextRank(seq)]
<1>. USE DEF TableInv
<1>1. /\ NextRank(seq) \in Nat /\ \A n \in Msgs : seq[n] < NextRank(seq)
  BY NextRankType DEF Types, ServerTypes, GhostTypes, RanksBounded
<1>2. s \in [Msgs -> Nat] /\ Fits(s)
  BY <1>1, OneMoreRowFits DEF Types, ServerTypes, Enqueue
<1>3. accepted' = accepted + 1 /\ born' = [born EXCEPT ![m] = accepted']
  BY DEF Enqueue, Accept
<1>4. born' \in [Msgs -> Nat] /\ \A n \in Msgs : born'[n] <= accepted'
  BY <1>3 DEF Counted, Types, GhostTypes
<1>5. \A n \in Waiting(s) : n # m => n \in Waiting(seq) /\ s[n] = seq[n]
  BY <1>1 DEF Waiting, Types, ServerTypes
<1>6. s[m] = NextRank(seq) /\ born'[m] = accepted + 1
  BY <1>3 DEF Types, ServerTypes, GhostTypes
<1>7. Waiting(s) = Waiting(seq) \cup {m}
  BY <1>1 DEF Waiting, Types, ServerTypes
<1>. HIDE DEF s
<1>8. InOrder(s, born', relayed)
  <2>1. \A n \in Waiting(s) : n \in Msgs
    BY DEF Waiting
  <2>2. \A n \in Msgs : n # m => born'[n] = born[n] /\ born[n] <= accepted /\ born[n] \in Nat
    BY <1>3 DEF Counted, Types, GhostTypes
  <2>3. accepted \in Nat /\ relayed \in Nat /\ relayed <= accepted
    BY DEF Counted, Types, GhostTypes
  <2>4. \A n \in Msgs : seq[n] \in Nat
    BY DEF Types, ServerTypes
  <2>. QED  BY <1>1, <1>5, <1>6, <2>1, <2>2, <2>3, <2>4 DEF InOrder
<1>. QED  BY <1>2, <1>3, <1>4, <1>7, <1>8 DEF s

LEMMA TableStep == TableInv /\ [Next]_vars => TableInv'
<1>. SUFFICES ASSUME TableInv, [Next]_vars
              PROVE  Fits(seq') /\ InOrder(seq', born', relayed') /\ Counted'
  BY TypesStep DEF TableInv, Fits, InOrder
<1>. USE DEF TableInv
<1>1. ASSUME NEW m \in Msgs, SendNow(m)
      PROVE  Fits(seq') /\ InOrder(seq', born', relayed') /\ Counted'
  <2>1. Waiting(seq') = {} /\ seq' = seq
    BY <1>1 DEF SendNow, CanSendNow
  <2>2. accepted' = accepted + 1 /\ relayed' = accepted' /\ born' = [born EXCEPT ![m] = accepted']
    BY <1>1 DEF SendNow, Accept, Types, GhostTypes
  <2>. QED  BY <2>1, <2>2 DEF InOrder, Counted, Types, GhostTypes
<1>2. ASSUME NEW m \in Msgs, Enqueue(m)
      PROVE  Fits(seq') /\ InOrder(seq', born', relayed') /\ Counted'
  <2>. DEFINE s == [seq EXCEPT ![m] = NextRank(seq)]
              f == [fate EXCEPT ![m] = "queued"]
  <2>1. /\ s \in [Msgs -> Nat] /\ Fits(s) /\ InOrder(s, born', relayed)
        /\ born' \in [Msgs -> Nat] /\ \A n \in Msgs : born'[n] <= accepted'
        /\ accepted' = accepted + 1
    BY <1>2, EnqueuedRows
  <2>2. DrainQueue(conn, view, s, f)
    BY <1>2 DEF Enqueue
  <2>. HIDE DEF s, f
  <2>3. /\ Fits(seq') /\ InOrder(seq', born', relayed')
        /\ relayed' = relayed \/ \E n \in Msgs : relayed' = born'[n]
    BY <2>1, <2>2, DrainKeepsOrder DEF Types, GhostTypes
  <2>. QED  BY <2>1, <2>3 DEF Counted, Types, GhostTypes
<1>3. ASSUME NEW m \in Msgs, QueueCancel(m)
      PROVE  Fits(seq') /\ InOrder(seq', born', relayed') /\ Counted'
  BY <1>3, TableDrop DEF QueueCancel
<1>4. CASE QueueClear
  BY <1>4, TableDrop DEF QueueClear
<1>5. CASE GiveUp
  BY <1>5, TableDrop DEF GiveUp
<1>6. ASSUME NEW c, NEW v, DrainQueue(c, v, seq, fate), UNCHANGED <<accepted, born>>
      PROVE  Fits(seq') /\ InOrder(seq', born', relayed') /\ Counted'
  <2>1. seq \in [Msgs -> Nat] /\ born' = born /\ born' \in [Msgs -> Nat] /\ relayed \in Nat
    BY <1>6 DEF Types, ServerTypes, GhostTypes
  <2>2. InOrder(seq, born', relayed)
    BY <2>1
  <2>3. /\ Fits(seq') /\ InOrder(seq', born', relayed')
        /\ relayed' = relayed \/ \E n \in Msgs : relayed' = born'[n]
    BY <1>6, <2>1, <2>2, DrainKeepsOrder
  <2>. QED  BY <1>6, <2>3 DEF Counted
<1>7. ASSUME NEW c \in Conns, RecvHello(c) \/ RecvTurnDone(c)
      PROVE  Fits(seq') /\ InOrder(seq', born', relayed') /\ Counted'
  BY <1>6, <1>7 DEF RecvHello, RecvTurnDone
<1>8. CASE UNCHANGED vars \/ AtRest \/ FaultStep \/ RunnerStep
  <2>1. UNCHANGED <<seq, accepted, born, relayed>>
    BY <1>8 DEF vars, AtRest, FaultStep, ServerRestart, CutLink, Crash, Exit, RunnerStep, Hear,
         HearSend, HearStop, HearAnswer, HearDisplaced, StartTurn, StartAutonomousTurn, Ask,
         FinishTurn, LoseSocket, Spawn, Connect, serverVars, wireVars, runnerVars, ghostVars
  <2>. QED  BY <2>1, TableStutter
<1>9. ASSUME \/ \E m \in Msgs : Reject(m)
             \/ Stop \/ AnswerCard \/ SessionFrame \/ SweepDrop \/ Prune
             \/ \E c \in Conns : \/ RecvIgnored(c) \/ RecvTurnStart(c) \/ RecvQuestion(c)
                                 \/ RecvQuestionDone(c) \/ SocketLost(c) \/ SocketClosed(c)
      PROVE  Fits(seq') /\ InOrder(seq', born', relayed') /\ Counted'
  <2>1. UNCHANGED <<seq, accepted, born, relayed>>
    BY <1>9 DEF Reject, Stop, AnswerCard, SessionFrame, SweepDrop, Prune, RecvIgnored, RecvTurnStart,
         RecvQuestion, RecvQuestionDone, SocketLost, SocketClosed, Teardown, serverVars, ghostVars
  <2>. QED  BY <2>1, TableStutter
<1>. QED  BY <1>1, <1>2, <1>3, <1>4, <1>5, <1>7, <1>8, <1>9
          DEF Next, ClientStep, ServerStep, Deliver

LEMMA TableInvariant == Spec => []TableInv
BY TableInit, TableStep, PTL DEF Spec

(* Every variable keeps its type and the queue its cap. *)
THEOREM TypeCorrect == Spec => []TypeOK
<1>1. TableInv => TypeOK
  BY DEF TableInv, Types, TypeOK, Fits, QueueBounded
<1>. QED  BY <1>1, TableInvariant, PTL

(* Rows leave the table in the order in which messages were accepted. *)
THEOREM OrderKept == Spec => []AcceptanceOrder
<1>1. TableInv => AcceptanceOrder
  BY DEF TableInv, InOrder, AcceptanceOrder, Types, ServerTypes, GhostTypes, Waiting
<1>. QED  BY <1>1, TableInvariant, PTL

-----------------------------------------------------------------------------
(* The claim and its mirrors, when a dead socket always closes *)

(* What everybody else sees of the claim c in the view v. *)
Mirrored(c, v) == /\ c.active => v.busy /\ v.row = "running" /\ v.bus = "start"
                  /\ v.busy => c.active

ClaimInv == /\ Types /\ RanksBounded
            /\ Mirrored(conn, view)
            /\ reg # None => srv[reg] = "open"

LEMMA DrainKeepsClaim ==
  ASSUME NEW c \in Claims, NEW v \in Views, NEW s, NEW f, DrainQueue(c, v, s, f),
         Mirrored(c, v), reg # None => srv[reg] = "open", UNCHANGED srv
  PROVE  Mirrored(conn', view') /\ (reg' # None => srv'[reg'] = "open")
<1>1. CASE conn' = c /\ view' = v /\ UNCHANGED reg
  BY <1>1
<1>2. CASE Relay(c, v, Oldest(s)) /\ UNCHANGED reg
  BY <1>2 DEF Relay, Mirrored, Claims, Views
<1>3. CASE reg # None /\ ~SocketOpen
  BY <1>3 DEF SocketOpen
<1>. QED  BY <1>1, <1>2, <1>3 DEF DrainQueue

LEMMA ClaimStep == ~Lingering /\ ClaimInv /\ [Next]_vars => ClaimInv'
<1>. SUFFICES ASSUME ~Lingering, ClaimInv, [Next]_vars
              PROVE  Mirrored(conn', view') /\ (reg' # None => srv'[reg'] = "open")
  BY TypesStep DEF ClaimInv, Mirrored
<1>. USE DEF ClaimInv, Types, ServerTypes, WireTypes
<1>1. ASSUME NEW m \in Msgs, SendNow(m) \/ Enqueue(m)
      PROVE  Mirrored(conn', view') /\ (reg' # None => srv'[reg'] = "open")
  <2>1. CASE SendNow(m)
    BY <2>1 DEF SendNow, Relay, Mirrored, Claims, Views
  <2>2. CASE Enqueue(m)
    BY <2>2, DrainKeepsClaim DEF Enqueue
  <2>. QED  BY <1>1, <2>1, <2>2
<1>2. ASSUME NEW c \in Conns, RecvHello(c)
      PROVE  Mirrored(conn', view') /\ (reg' # None => srv'[reg'] = "open")
  <2>. DEFINE a == Frame(c).by
              k == [conn EXCEPT !.active = a]
              v == [view EXCEPT !.busy = a, !.row = IF a THEN "running" ELSE "idle",
                                !.bus = IF a THEN "start" ELSE @, !.card = Shown(conn.asks)]
  <2>1. a \in BOOLEAN
    BY <1>2, FrameTypes, HeadTailProperties DEF RecvHello, Receive, Pop, Frame
  <2>2. k \in Claims /\ v \in Views
    <3>1. Shown(conn.asks) \in Questions \cup {None}
      BY ShownType DEF Claims
    <3>2. k \in Claims
      BY <2>1 DEF Claims
    <3>. QED  BY <2>1, <3>1, <3>2 DEF Views
  <2>3. Mirrored(k, v)
    BY <2>1 DEF Mirrored, Claims, Views
  <2>4. DrainQueue(k, v, seq, fate) /\ UNCHANGED srv
    BY <1>2 DEF RecvHello
  <2>. HIDE DEF a, k, v
  <2>. QED  BY <2>2, <2>3, <2>4, DrainKeepsClaim
<1>3. ASSUME NEW c \in Conns, RecvTurnDone(c)
      PROVE  Mirrored(conn', view') /\ (reg' # None => srv'[reg'] = "open")
  <2>. DEFINE k == TurnOver(conn)
              v == [view EXCEPT !.busy = FALSE, !.blocked = FALSE, !.row = "idle",
                                !.bus = "done", !.card = None]
  <2>1. k \in Claims /\ v \in Views
    BY TurnOverType DEF Views
  <2>2. Mirrored(k, v)
    BY DEF Mirrored, Claims, Views, TurnOver
  <2>3. DrainQueue(k, v, seq, fate) /\ UNCHANGED srv
    BY <1>3 DEF RecvTurnDone
  <2>. HIDE DEF k, v
  <2>. QED  BY <2>1, <2>2, <2>3, DrainKeepsClaim
<1>4. ASSUME NEW c \in Conns, RecvTurnStart(c)
      PROVE  Mirrored(conn', view') /\ (reg' # None => srv'[reg'] = "open")
  BY <1>4 DEF RecvTurnStart, Mirrored, Claims, Views
<1>5. ASSUME NEW c \in Conns, RecvQuestion(c) \/ RecvQuestionDone(c)
      PROVE  Mirrored(conn', view') /\ (reg' # None => srv'[reg'] = "open")
  BY <1>5 DEF RecvQuestion, RecvQuestionDone, Mirrored, Claims, Views
<1>6. ASSUME NEW c \in Conns, SocketLost(c) \/ SocketClosed(c)
      PROVE  Mirrored(conn', view') /\ (reg' # None => srv'[reg'] = "open")
  <2>1. Teardown(c)
    BY <1>6 DEF SocketLost, SocketClosed
  <2>2. CASE reg = c
    <3>1. reg' = None /\ conn' = NoTurn
      BY <2>1, <2>2 DEF Teardown
    <3>2. EndTurn(view) \in Views
      BY EndTurnType
    <3>3. view'.busy = FALSE
      BY <2>1, <2>2, <3>2 DEF Teardown, Views
    <3>. QED  BY <3>1, <3>3 DEF Mirrored, NoTurn
  <2>3. CASE reg # c
    BY <2>1, <2>3 DEF Teardown
  <2>. QED  BY <2>2, <2>3
<1>7. CASE Stop \/ AnswerCard \/ SessionFrame
  BY <1>7 DEF Stop, Stopped, AnswerCard, SessionFrame, wireVars, Mirrored, Claims, Views
<1>8. CASE SweepDrop
  BY <1>8 DEF SweepDrop, SocketOpen
<1>9. ASSUME NEW p \in Procs, NEW c \in Conns, Connect(p, c)
      PROVE  Mirrored(conn', view') /\ (reg' # None => srv'[reg'] = "open")
  BY <1>9 DEF Connect, EndTurn, Mirrored, NoTurn, Claims, Views
<1>10. CASE ServerRestart
  BY <1>10 DEF ServerRestart, NoTurn, Quiet, Mirrored
<1>11. CASE UNCHANGED <<reg, conn, view, srv>>
  BY <1>11
<1>12. ASSUME \/ UNCHANGED vars \/ AtRest \/ QueueClear \/ GiveUp \/ Prune
              \/ \E m \in Msgs : Reject(m) \/ QueueCancel(m)
              \/ \E c \in Conns : RecvIgnored(c) \/ CutLink(c)
       PROVE  UNCHANGED <<reg, conn, view, srv>>
  BY <1>12 DEF vars, AtRest, QueueClear, GiveUp, Prune, Reject, QueueCancel, Drop, RecvIgnored,
       CutLink, serverVars, wireVars
<1>13. ASSUME NEW p \in Procs,
              \/ Hear(p) \/ StartTurn(p) \/ StartAutonomousTurn(p) \/ FinishTurn(p)
              \/ LoseSocket(p) \/ Spawn(p) \/ Crash(p)
              \/ \E q \in Questions : Ask(p, q)
       PROVE  UNCHANGED <<reg, conn, view, srv>>
  BY <1>13 DEF Hear, HearSend, HearStop, HearAnswer, HearDisplaced, StartTurn,
       StartAutonomousTurn, FinishTurn, LoseSocket, Spawn, Crash, Exit, Ask, serverVars, wireVars
<1>. QED  BY <1>1, <1>2, <1>3, <1>4, <1>5, <1>6, <1>7, <1>8, <1>9, <1>10, <1>11, <1>12, <1>13
          DEF Next, ClientStep, ServerStep, Deliver, RunnerStep, FaultStep

(* With sockets that always fire their close event, the cache, the row and *)
(* the bus agree with the claim in every state.                            *)
THEOREM ClaimShown ==
  ASSUME ~Lingering
  PROVE  Spec => []ClaimVisible
<1>1. Init => ClaimInv
  BY InitTypes DEF Init, ClaimInv, Mirrored, NoTurn, Quiet
<1>2. ClaimInv /\ [Next]_vars => ClaimInv'
  BY ClaimStep
<1>3. ClaimInv => ClaimVisible
  BY DEF ClaimInv, Mirrored, ClaimVisible
<1>. QED  BY <1>1, <1>2, <1>3, PTL DEF Spec

-----------------------------------------------------------------------------
(* Words on a channel *)

LEMMA ConcatAt ==
  ASSUME NEW S, NEW s \in Seq(S), NEW r \in Seq(S)
  PROVE  /\ s \o r \in Seq(S) /\ Len(s) \in Nat /\ Len(r) \in Nat
         /\ DOMAIN s = 1 .. Len(s) /\ DOMAIN r = 1 .. Len(r)
         /\ DOMAIN (s \o r) = 1 .. Len(s) + Len(r)
         /\ \A i \in 1 .. Len(s) : (s \o r)[i] = s[i]
         /\ \A i \in 1 .. Len(r) : (s \o r)[Len(s) + i] = r[i]
         /\ \A i \in 1 .. Len(s) + Len(r) : i > Len(s) => (s \o r)[i] = r[i - Len(s)]
OBVIOUS

LEMMA TailAt ==
  ASSUME NEW S, NEW s \in Seq(S), s # <<>>
  PROVE  /\ Tail(s) \in Seq(S) /\ Len(s) \in Nat /\ Len(s) > 0
         /\ Head(s) = s[1] /\ Head(s) \in S
         /\ DOMAIN s = 1 .. Len(s) /\ DOMAIN Tail(s) = 1 .. Len(s) - 1
         /\ \A i \in 1 .. Len(s) - 1 : Tail(s)[i] = s[i + 1]
OBVIOUS

LEMMA ContainsAt ==
  ASSUME NEW S, NEW s \in Seq(S), NEW x
  PROVE  Contains(s, x) <=> \E i \in 1 .. Len(s) : s[i] = x
BY DEF Contains

LEMMA ContainsConcat ==
  ASSUME NEW S, NEW s \in Seq(S), NEW r \in Seq(S), NEW x
  PROVE  Contains(s \o r, x) <=> Contains(s, x) \/ Contains(r, x)
<1>0. s \o r \in Seq(S) /\ Len(s \o r) = Len(s) + Len(r) /\ Len(s) \in Nat /\ Len(r) \in Nat
  OBVIOUS
<1>1. ASSUME Contains(s \o r, x)
      PROVE  Contains(s, x) \/ Contains(r, x)
  <2>1. PICK i \in 1 .. Len(s) + Len(r) : (s \o r)[i] = x
    BY <1>0, <1>1, ContainsAt
  <2>2. CASE i <= Len(s)
    BY <2>1, <2>2, ConcatAt, ContainsAt
  <2>3. CASE i > Len(s)
    <3>1. i - Len(s) \in 1 .. Len(r) /\ r[i - Len(s)] = x
      BY <2>1, <2>3, ConcatAt
    <3>. QED  BY <3>1, ContainsAt
  <2>. QED  BY <2>1, <2>2, <2>3, ConcatAt
<1>2. ASSUME Contains(s, x)
      PROVE  Contains(s \o r, x)
  <2>1. PICK i \in 1 .. Len(s) : s[i] = x
    BY <1>2, ContainsAt
  <2>2. i \in 1 .. Len(s \o r) /\ (s \o r)[i] = x
    BY <1>0, <2>1, ConcatAt
  <2>. QED  BY <1>0, <2>2, ContainsAt
<1>3. ASSUME Contains(r, x)
      PROVE  Contains(s \o r, x)
  <2>1. PICK i \in 1 .. Len(r) : r[i] = x
    BY <1>3, ContainsAt
  <2>2. Len(s) + i \in 1 .. Len(s \o r) /\ (s \o r)[Len(s) + i] = x
    BY <1>0, <2>1, ConcatAt
  <2>. QED  BY <1>0, <2>2, ContainsAt
<1>. QED  BY <1>1, <1>2, <1>3

LEMMA ContainsAppend ==
  ASSUME NEW S, NEW s \in Seq(S), NEW e \in S, NEW x
  PROVE  Contains(Append(s, e), x) <=> Contains(s, x) \/ x = e
<1>. DEFINE a == Append(s, e)
            n == Len(s)
<1>1. /\ a[n + 1] = e /\ \A i \in 1 .. n : a[i] = s[i]
      /\ Len(a) = n + 1 /\ n \in Nat
  OBVIOUS
<1>2. Contains(a, x) <=> \E i \in 1 .. Len(a) : a[i] = x
  BY DEF Contains
<1>3. Contains(s, x) <=> \E i \in 1 .. n : s[i] = x
  BY DEF Contains
<1>4. n \in Nat => /\ n + 1 \in 1 .. n + 1 /\ \A i \in 1 .. n : i \in 1 .. n + 1
                  /\ \A i \in 1 .. n + 1 : i = n + 1 \/ i \in 1 .. n
  OBVIOUS
<1>. HIDE DEF a, n
<1>5. Contains(a, x) <=> Contains(s, x) \/ x = e
  BY <1>1, <1>2, <1>3, <1>4
<1>. QED  BY <1>5 DEF a

(* A word written behind others. *)
LEMMA ContainsSaid ==
  ASSUME NEW S, NEW s \in Seq(S), NEW e \in S, NEW v, v = s \/ v = s \o <<e>>
  PROVE  /\ \A x : Contains(s, x) => Contains(v, x)
         /\ v = s \o <<e>> => Contains(v, e)
<1>. DEFINE r == <<e>>
<1>1. r \in Seq(S) /\ Contains(r, e)
  BY DEF Contains
<1>2. v = s \/ v = s \o r
  OBVIOUS
<1>. HIDE DEF r
<1>3. /\ \A x : Contains(s, x) => Contains(v, x)
      /\ v = s \o r => Contains(v, e)
  <2>1. \A x : Contains(s \o r, x) <=> Contains(s, x) \/ Contains(r, x)
    BY <1>1, ContainsConcat
  <2>2. CASE v = s \o r
    BY <1>1, <2>1, <2>2
  <2>3. CASE v # s \o r
    BY <1>2, <2>3
  <2>. QED  BY <2>2, <2>3
<1>. QED  BY <1>3 DEF r

LEMMA ContainsTail ==
  ASSUME NEW S, NEW s \in Seq(S), s # <<>>, NEW x
  PROVE  Contains(s, x) <=> Head(s) = x \/ Contains(Tail(s), x)
<1>0. Tail(s) \in Seq(S) /\ Len(Tail(s)) = Len(s) - 1 /\ Len(s) \in Nat
  OBVIOUS
<1>1. ASSUME Contains(s, x), Head(s) # x
      PROVE  Contains(Tail(s), x)
  <2>1. PICK i \in 1 .. Len(s) : s[i] = x
    BY <1>1, ContainsAt
  <2>2. i - 1 \in 1 .. Len(s) - 1 /\ Tail(s)[i - 1] = x
    BY <1>1, <2>1, TailAt
  <2>. QED  BY <1>0, <2>2, ContainsAt
<1>2. Head(s) = x => Contains(s, x)
  BY TailAt, ContainsAt
<1>3. ASSUME Contains(Tail(s), x)
      PROVE  Contains(s, x)
  <2>1. PICK i \in 1 .. Len(s) - 1 : Tail(s)[i] = x
    BY <1>0, <1>3, ContainsAt
  <2>2. i + 1 \in 1 .. Len(s) /\ s[i + 1] = x
    BY <1>0, <2>1, TailAt
  <2>. QED  BY <2>2, ContainsAt
<1>. QED  BY <1>1, <1>2, <1>3

LEMMA Words ==
  /\ \A m, n : Send(m) = Send(n) => m = n
  /\ \A m, n : TurnStart(m) = TurnStart(n) => m = n
  /\ \A m, n : QuestionDone(m) = QuestionDone(n) => m = n
  /\ \A m, n : Answer(m) = Answer(n) => m = n
  /\ \A m : Send(m) # StopFrame /\ Answer(m) # StopFrame /\ Send(m).t = "send"
  /\ \A m : Answer(m).t = "answer" /\ Answer(m).msg = m /\ Send(m).msg = m
  /\ \A m : TurnStart(m).t = "turn-start"
  /\ \A q : Question(q).t = "question" /\ Question(q).by = q
  /\ \A q : QuestionDone(q).t = "question-done" /\ QuestionDone(q).by = q
  /\ \A b : Hello(b).t = "hello" /\ Hello(b).by = b
  /\ StopFrame.t = "stop" /\ TurnDone.t = "turn-done" /\ Displaced.t = "displaced"
BY DEF Send, TurnStart, QuestionDone, Question, Answer, StopFrame, Hello, TurnDone, Displaced

LEMMA FrameIs ==
  ASSUME NEW f \in Frames
  PROVE  /\ f.t = "send" => f = Send(f.msg)
         /\ f.t = "answer" => f = Answer(f.msg)
         /\ f.t = "stop" => f = StopFrame
BY DEF Frames, StopFrame, Displaced, Send, Answer

LEMMA ReportIs ==
  ASSUME NEW f \in Reports
  PROVE  /\ f.t = "hello" => f = Hello(f.by)
         /\ f.t = "turn-start" => f = TurnStart(f.by)
         /\ f.t = "question" => f = Question(f.by)
         /\ f.t = "question-done" => f = QuestionDone(f.by)
         /\ f.t = "turn-done" => f = TurnDone
         /\ f.t \in {"hello", "turn-start", "turn-done", "question", "question-done"}
BY DEF Reports, TurnDone, Hello, TurnStart, Question, QuestionDone

-----------------------------------------------------------------------------
(* The registration and its record *)

(* Nothing is recorded of no connection, and one that is not OPEN is dead. *)
Registered == /\ Types /\ RanksBounded
              /\ reg = None => conn = NoTurn
              /\ reg # None => srv[reg] = "open" \/ ~alive[reg]

LEMMA RegisteredTypes ==
  ASSUME Types
  PROVE  /\ reg \in Conns \cup {None} /\ None \notin Conns /\ conn \in Claims /\ view \in Views
         /\ toRun \in [Conns -> Seq(Frames)] /\ toSrv \in [Conns -> Seq(Reports)]
         /\ alive \in [Conns -> BOOLEAN] /\ srv \in [Conns -> {"closed", "open", "closing"}]
         /\ sock \in [Procs -> Conns \cup {None}] /\ pend \in [Procs -> Seq(Msgs)]
         /\ asking \in [Procs -> Seq(Questions)] /\ asked \in SUBSET Questions
         /\ turn \in [Procs -> Msgs \cup {"auto", None}] /\ seq \in [Msgs -> Nat]
         /\ None \notin Msgs /\ None \notin Questions
BY ConstantsAssumption DEF Types, ServerTypes, WireTypes, RunnerTypes, GhostTypes

(* What a drain does: nothing, a relay, or a registration is dropped.      *)
Outcome(c, v) ==
  \/ conn' = c /\ view' = v /\ UNCHANGED <<reg, toRun>>
  \/ SocketOpen /\ UNCHANGED reg /\ \E m \in Msgs : Relay(c, v, m)
  \/ reg # None /\ ~SocketOpen /\ reg' = None /\ conn' = NoTurn /\ view' = v /\ UNCHANGED toRun

LEMMA DrainOutcome ==
  ASSUME NEW c, NEW v, NEW s \in [Msgs -> Nat], NEW f, DrainQueue(c, v, s, f)
  PROVE  Outcome(c, v)
<1>1. CASE Waiting(s) # {} /\ SocketOpen /\ UNCHANGED reg /\ Relay(c, v, Oldest(s))
  <2>1. Oldest(s) \in Msgs
    BY <1>1, OldestWaits DEF Waiting
  <2>. QED  BY <1>1, <2>1 DEF Outcome
<1>. QED  BY <1>1 DEF DrainQueue, Outcome

(* A message that is accepted: its row may be relayed at once.             *)
LEMMA SubmitOutcome ==
  ASSUME Registered, NEW m \in Msgs, SendNow(m) \/ Enqueue(m)
  PROVE  Outcome(conn, view) /\ UNCHANGED <<srv, alive, toSrv, runnerVars, asked>>
<1>1. CASE SendNow(m)
  BY <1>1 DEF SendNow, CanSendNow, Outcome
<1>2. CASE Enqueue(m)
  <2>1. NextRank(seq) \in Nat
    BY NextRankType DEF Registered, Types, ServerTypes, GhostTypes, RanksBounded
  <2>2. [seq EXCEPT ![m] = NextRank(seq)] \in [Msgs -> Nat]
    BY <2>1 DEF Registered, Types, ServerTypes
  <2>. QED  BY <1>2, <2>2, DrainOutcome DEF Enqueue
<1>. QED  BY <1>1, <1>2

(* The records a hello and the end of a turn leave to the drain.           *)
GreetedConn(c) == [conn EXCEPT !.active = Frame(c).by]
GreetedView(c) == [view EXCEPT !.busy = Frame(c).by,
                               !.row  = IF Frame(c).by THEN "running" ELSE "idle",
                               !.bus  = IF Frame(c).by THEN "start" ELSE @,
                               !.card = Shown(conn.asks)]
IdleView == [view EXCEPT !.busy = FALSE, !.blocked = FALSE, !.row = "idle", !.bus = "done",
                         !.card = None]

LEMMA HelloOutcome ==
  ASSUME Types, NEW c \in Conns, RecvHello(c)
  PROVE  /\ Outcome(GreetedConn(c), GreetedView(c)) /\ UNCHANGED <<srv, alive, runnerVars, asked>>
         /\ Receive(c, "hello")
<1>1. seq \in [Msgs -> Nat]
  BY RegisteredTypes
<1>2. DrainQueue(GreetedConn(c), GreetedView(c), seq, fate)
  BY DEF RecvHello, GreetedConn, GreetedView
<1>. QED  BY <1>1, <1>2, DrainOutcome DEF RecvHello

LEMMA TurnDoneOutcome ==
  ASSUME Types, NEW c \in Conns, RecvTurnDone(c)
  PROVE  /\ Outcome(TurnOver(conn), IdleView) /\ UNCHANGED <<srv, alive, runnerVars, asked>>
         /\ Receive(c, "turn-done")
<1>1. seq \in [Msgs -> Nat]
  BY RegisteredTypes
<1>2. DrainQueue(TurnOver(conn), IdleView, seq, fate)
  BY DEF RecvTurnDone, IdleView
<1>. QED  BY <1>1, <1>2, DrainOutcome DEF RecvTurnDone

(* What the registered runner says is read from the front.                 *)
LEMMA ReceiveTakes ==
  ASSUME Types, NEW c \in Conns, NEW t, Receive(c, t)
  PROVE  /\ reg = c /\ srv[c] = "open" /\ toSrv[c] \in Seq(Reports) /\ toSrv[c] # <<>>
         /\ Frame(c) = Head(toSrv[c]) /\ Frame(c).t = t /\ Frame(c) \in Reports
         /\ toSrv' = [toSrv EXCEPT ![c] = Tail(@)] /\ toSrv'[c] = Tail(toSrv[c])
BY RegisteredTypes, HeadTailProperties DEF Receive, Pop, Frame

LEMMA OutcomeRegistered ==
  ASSUME Registered, NEW c \in Claims, NEW v, Outcome(c, v), UNCHANGED <<srv, alive>>,
         reg = None => c = NoTurn
  PROVE  /\ reg' = None => conn' = NoTurn
         /\ reg' # None => srv'[reg'] = "open" \/ ~alive'[reg']
BY DEF Outcome, Registered, SocketOpen

LEMMA RegisteredStep == Registered /\ [Next]_vars => Registered'
<1>. DEFINE Goal == /\ reg' = None => conn' = NoTurn
                    /\ reg' # None => srv'[reg'] = "open" \/ ~alive'[reg']
<1>. SUFFICES ASSUME Registered, [Next]_vars
              PROVE  Goal
  BY TypesStep DEF Registered
<1>0. Types
  BY DEF Registered
<1>1. ASSUME NEW m \in Msgs, SendNow(m) \/ Enqueue(m)
      PROVE  Goal
  <2>1. conn \in Claims /\ (reg = None => conn = NoTurn)
    BY <1>0, RegisteredTypes DEF Registered
  <2>2. Outcome(conn, view) /\ UNCHANGED <<srv, alive>>
    BY <1>1, SubmitOutcome
  <2>. QED  BY <2>1, <2>2, OutcomeRegistered
<1>2. ASSUME NEW c \in Conns, RecvHello(c)
      PROVE  Goal
  <2>0. Frame(c).by \in BOOLEAN /\ reg # None
    BY <1>0, <1>2, HelloOutcome, ReceiveTakes, RegisteredTypes, FrameTypes
  <2>1. GreetedConn(c) \in Claims /\ reg # None
    BY <1>0, <2>0, RegisteredTypes DEF GreetedConn, Claims
  <2>. QED  BY <1>0, <1>2, <2>1, HelloOutcome, OutcomeRegistered
<1>3. ASSUME NEW c \in Conns, RecvTurnDone(c)
      PROVE  Goal
  <2>1. TurnOver(conn) \in Claims /\ reg # None
    BY <1>0, <1>3, TurnDoneOutcome, ReceiveTakes, RegisteredTypes, TurnOverType
  <2>. QED  BY <1>0, <1>3, <2>1, TurnDoneOutcome, OutcomeRegistered
<1>4. ASSUME NEW c \in Conns,
             RecvTurnStart(c) \/ RecvQuestion(c) \/ RecvQuestionDone(c)
      PROVE  Goal
  <2>1. UNCHANGED <<reg, srv, alive>> /\ reg # None
    BY <1>0, <1>4, ReceiveTakes, RegisteredTypes DEF RecvTurnStart, RecvQuestion, RecvQuestionDone
  <2>. QED  BY <2>1 DEF Registered
<1>5. ASSUME NEW c \in Conns, SocketLost(c) \/ SocketClosed(c)
      PROVE  Goal
  <2>1. alive[c] \in BOOLEAN /\ UNCHANGED alive /\ srv \in [Conns -> {"closed", "open", "closing"}]
    BY <1>0, <1>5, RegisteredTypes DEF SocketLost, SocketClosed, Teardown
  <2>2. CASE Teardown(c)
    BY <2>1, <2>2 DEF Teardown, Registered
  <2>3. CASE UNCHANGED <<reg, conn>> /\ ~alive[c] /\ srv' = [srv EXCEPT ![c] = "closing"]
    BY <2>1, <2>3 DEF Registered
  <2>. QED  BY <1>5, <2>2, <2>3 DEF SocketLost, SocketClosed, serverVars
<1>6. CASE Stop
  <2>1. reg # None /\ UNCHANGED <<reg, srv, alive>>
    BY <1>6 DEF Stop
  <2>. QED  BY <2>1 DEF Registered
<1>7. ASSUME NEW p \in Procs, NEW c \in Conns, Connect(p, c)
      PROVE  Goal
  BY <1>0, <1>7, RegisteredTypes DEF Connect
<1>8. CASE SweepDrop \/ ServerRestart
  BY <1>8 DEF SweepDrop, ServerRestart
<1>9. ASSUME UNCHANGED <<reg, conn, srv>>, \A c \in Conns : alive'[c] => alive[c]
      PROVE  Goal
  BY <1>0, <1>9, RegisteredTypes DEF Registered
<1>10. ASSUME \/ UNCHANGED vars \/ AtRest \/ QueueClear \/ GiveUp \/ Prune
              \/ AnswerCard \/ SessionFrame
              \/ \E m \in Msgs : Reject(m) \/ QueueCancel(m)
              \/ \E c \in Conns : RecvIgnored(c) \/ CutLink(c)
       PROVE  UNCHANGED <<reg, conn, srv>> /\ \A c \in Conns : alive'[c] => alive[c]
  <2>1. alive \in [Conns -> BOOLEAN]
    BY <1>0, RegisteredTypes
  <2>. QED  BY <1>10, <2>1 DEF vars, AtRest, QueueClear, GiveUp, Prune, Reject, QueueCancel, Drop,
              RecvIgnored, CutLink, AnswerCard, SessionFrame, serverVars, wireVars
<1>11. ASSUME NEW p \in Procs,
              \/ Hear(p) \/ StartTurn(p) \/ StartAutonomousTurn(p) \/ FinishTurn(p)
              \/ LoseSocket(p) \/ Spawn(p) \/ Crash(p)
              \/ \E q \in Questions : Ask(p, q)
       PROVE  UNCHANGED <<reg, conn, srv>> /\ \A c \in Conns : alive'[c] => alive[c]
  BY <1>11 DEF Hear, HearSend, HearStop, HearAnswer, HearDisplaced, StartTurn,
       StartAutonomousTurn, FinishTurn, LoseSocket, Spawn, Crash, Exit, Ask, serverVars, wireVars
<1>. HIDE DEF Goal
<1>. QED  BY <1>1, <1>2, <1>3, <1>4, <1>5, <1>6, <1>7, <1>8, <1>9, <1>10, <1>11
          DEF Next, ClientStep, ServerStep, Deliver, RunnerStep, FaultStep

-----------------------------------------------------------------------------
(* The stamp names a send that can still start a turn *)

(* The send is on its way and no Stop is behind it.                        *)
SendAhead(w, m) ==
  \E i \in DOMAIN w : w[i] = Send(m) /\ \A k \in DOMAIN w : k > i => w[k] # StopFrame

(* Of m, relayed over r: the frame, the text or the turn-start, with no    *)
(* Stop on its way that would cancel it.                                   *)
Underway(r, m) ==
  \/ SendAhead(toRun[r], m)
  \/ /\ ~Contains(toRun[r], StopFrame)
     /\ \E p \in Procs : sock[p] = r /\ Contains(pend[p], m)
  \/ Contains(toSrv[r], TurnStart(m))

StampDue == conn.stamp # None /\ alive[reg] => Underway(reg, conn.stamp)
StampInv == Registered /\ StampDue

(* What a frame read or written at either end does to a send under way.    *)
LEMMA AheadConcat ==
  ASSUME NEW w \in Seq(Frames), NEW r \in Seq(Frames), NEW m, SendAhead(w, m),
         ~Contains(r, StopFrame)
  PROVE  SendAhead(w \o r, m)
<1>1. PICK i \in 1 .. Len(w) : w[i] = Send(m) /\ \A k \in 1 .. Len(w) : k > i => w[k] # StopFrame
  BY ConcatAt DEF SendAhead
<1>2. i \in DOMAIN (w \o r) /\ (w \o r)[i] = Send(m)
  BY <1>1, ConcatAt
<1>3. ASSUME NEW k \in DOMAIN (w \o r), k > i
      PROVE  (w \o r)[k] # StopFrame
  <2>1. CASE k <= Len(w)
    BY <1>1, <1>3, <2>1, ConcatAt
  <2>2. CASE k > Len(w)
    <3>1. k - Len(w) \in 1 .. Len(r) /\ (w \o r)[k] = r[k - Len(w)]
      BY <1>3, <2>2, ConcatAt
    <3>. QED  BY <3>1, ContainsAt
  <2>. QED  BY <1>3, <2>1, <2>2, ConcatAt
<1>. QED  BY <1>2, <1>3 DEF SendAhead

LEMMA AheadSent ==
  ASSUME NEW w \in Seq(Frames), NEW m \in Msgs
  PROVE  SendAhead(w \o <<Send(m)>>, m)
<1>. DEFINE v == w \o <<Send(m)>>
<1>1. <<Send(m)>> \in Seq(Frames) /\ Len(<<Send(m)>>) = 1 /\ <<Send(m)>>[1] = Send(m)
  BY WordTypes
<1>2. DOMAIN v = 1 .. Len(w) + 1 /\ v[Len(w) + 1] = Send(m) /\ Len(w) \in Nat
  BY <1>1, ConcatAt
<1>. HIDE DEF v
<1>. QED  BY <1>2 DEF SendAhead, v

LEMMA AheadTail ==
  ASSUME NEW w \in Seq(Frames), w # <<>>, NEW m, SendAhead(w, m)
  PROVE  SendAhead(Tail(w), m) \/ (Head(w) = Send(m) /\ ~Contains(w, StopFrame))
<1>1. PICK i \in 1 .. Len(w) : w[i] = Send(m) /\ \A k \in 1 .. Len(w) : k > i => w[k] # StopFrame
  BY TailAt DEF SendAhead
<1>2. CASE i = 1
  <2>1. Head(w) = Send(m) /\ \A k \in 1 .. Len(w) : w[k] # StopFrame
    BY <1>1, <1>2, TailAt, Words
  <2>. QED  BY <2>1, ContainsAt
<1>3. CASE i # 1
  <2>1. i - 1 \in DOMAIN Tail(w) /\ Tail(w)[i - 1] = Send(m)
    BY <1>1, <1>3, TailAt
  <2>2. \A k \in DOMAIN Tail(w) : k > i - 1 => Tail(w)[k] # StopFrame
    BY <1>1, TailAt
  <2>. QED  BY <2>1, <2>2 DEF SendAhead
<1>. QED  BY <1>2, <1>3

(* A step at the server's end: it reads no turn-start of the stamp, and    *)
(* writes no Stop behind it.                                               *)
LEMMA UnderwayServer ==
  ASSUME Types, reg # None, NEW m, Underway(reg, m), NEW frames \in Seq(Frames),
         UNCHANGED <<reg, sock, pend>>, ~Contains(frames, StopFrame),
         toRun'[reg] = toRun[reg] \/ toRun'[reg] = toRun[reg] \o frames,
         Contains(toSrv[reg], TurnStart(m)) => Contains(toSrv'[reg], TurnStart(m))
  PROVE  Underway(reg, m)'
<1>1. toRun[reg] \in Seq(Frames)
  BY RegisteredTypes
<1>2. SendAhead(toRun[reg], m) => SendAhead(toRun'[reg], m)
  BY <1>1, AheadConcat
<1>3. ~Contains(toRun[reg], StopFrame) => ~Contains(toRun'[reg], StopFrame)
  <2>1. Contains(toRun[reg] \o frames, StopFrame)
          <=> Contains(toRun[reg], StopFrame) \/ Contains(frames, StopFrame)
    BY <1>1, ContainsConcat
  <2>2. CASE toRun'[reg] = toRun[reg]
    BY <2>2
  <2>3. CASE toRun'[reg] = toRun[reg] \o frames
    BY <2>1, <2>3
  <2>. QED  BY <2>2, <2>3
<1>. QED  BY <1>2, <1>3 DEF Underway

(* What is drained does not unmake the stamp, or makes a new one.          *)
LEMMA StampOutcome ==
  ASSUME Types, NEW c \in Claims, NEW v, Outcome(c, v), UNCHANGED <<alive, sock, pend>>,
         reg = None => c.stamp = None,
         c.stamp # None /\ alive[reg] =>
           /\ Underway(reg, c.stamp)
           /\ Contains(toSrv[reg], TurnStart(c.stamp)) => Contains(toSrv'[reg], TurnStart(c.stamp))
  PROVE  StampDue'
<1>. SUFFICES ASSUME conn'.stamp # None, alive'[reg']
              PROVE  StampDue'
  BY DEF StampDue
<1>1. CASE conn' = c /\ UNCHANGED <<reg, toRun>>
  <2>1. Underway(reg, c.stamp)
    BY <1>1
  <2>. QED  BY <1>1, <2>1 DEF StampDue, Underway
<1>2. ASSUME NEW m \in Msgs, SocketOpen, UNCHANGED reg, Relay(c, v, m)
      PROVE  StampDue'
  <2>1. reg \in Conns /\ toRun[reg] \in Seq(Frames) /\ <<Send(m)>> \in Seq(Frames) /\ alive[reg]
    BY <1>2, RegisteredTypes, WordTypes DEF SocketOpen
  <2>2. toRun'[reg] = toRun[reg] \o <<Send(m)>>
    <3>1. toRun \in [Conns -> Seq(Frames)]
      BY RegisteredTypes
    <3>. QED  BY <1>2, <2>1, <3>1 DEF Relay, Push
  <2>3. conn'.stamp = m
    BY <1>2 DEF Relay, Claims
  <2>4. SendAhead(toRun'[reg], m)
    BY <2>1, <2>2, AheadSent
  <2>. QED  BY <1>2, <2>3, <2>4 DEF StampDue, Underway
<1>3. CASE conn' = NoTurn
  BY <1>3 DEF StampDue, NoTurn
<1>. QED  BY <1>1, <1>2, <1>3 DEF Outcome

(* What a process says reaches the connection it holds, if that lives.     *)
LEMMA EmitAt ==
  ASSUME Types, NEW p \in Procs, NEW frames \in Seq(Reports), Emit(p, frames), NEW c \in Conns
  PROVE  toSrv'[c] = IF sock[p] = c /\ alive[c] THEN toSrv[c] \o frames ELSE toSrv[c]
<1>1. toSrv \in [Conns -> Seq(Reports)] /\ None \notin Conns
  BY RegisteredTypes
<1>. QED  BY <1>1 DEF Emit, Push

(* A process says something, and keeps what is pending or starts it.       *)
LEMMA UnderwayRunner ==
  ASSUME Types, NEW p \in Procs, NEW frames \in Seq(Reports), NEW m, Underway(reg, m),
         reg # None, alive[reg], Emit(p, frames), UNCHANGED <<reg, sock>>,
         \A r \in Procs : r # p => pend'[r] = pend[r],
         sock[p] # reg => toRun'[reg] = toRun[reg],
         sock[p] = reg => \/ toRun'[reg] = toRun[reg]
                          \/ toRun[reg] # <<>> /\ toRun'[reg] = Tail(toRun[reg]),
         SendAhead(toRun[reg], m) =>
           \/ SendAhead(toRun'[reg], m)
           \/ sock[p] = reg /\ ~Contains(toRun'[reg], StopFrame) /\ Contains(pend'[p], m),
         ~Contains(toRun[reg], StopFrame) /\ sock[p] = reg /\ Contains(pend[p], m) =>
           Contains(pend'[p], m) \/ Contains(frames, TurnStart(m))
  PROVE  Underway(reg, m)'
<1>1. toRun[reg] \in Seq(Frames) /\ toSrv \in [Conns -> Seq(Reports)] /\ reg \in Conns
      /\ toSrv[reg] \in Seq(Reports) /\ None \notin Conns
  BY RegisteredTypes
<1>2. toSrv'[reg] = IF sock[p] = reg THEN toSrv[reg] \o frames ELSE toSrv[reg]
  BY <1>1, EmitAt
<1>4. Contains(toSrv[reg], TurnStart(m)) => Contains(toSrv'[reg], TurnStart(m))
  BY <1>1, <1>2, ContainsConcat
<1>5. sock[p] = reg /\ Contains(frames, TurnStart(m)) => Contains(toSrv'[reg], TurnStart(m))
  BY <1>1, <1>2, ContainsConcat
<1>6. ~Contains(toRun[reg], StopFrame) => ~Contains(toRun'[reg], StopFrame)
  BY <1>1, ContainsTail
<1>. QED  BY <1>4, <1>5, <1>6 DEF Underway

LEMMA StampServer ==
  ASSUME StampInv, ClientStep \/ ServerStep
  PROVE  StampDue'
<1>0. Types /\ StampDue /\ (reg = None => conn = NoTurn)
  BY DEF StampInv, Registered
<1>1. /\ reg \in Conns \cup {None} /\ None \notin Conns /\ conn \in Claims
      /\ toRun \in [Conns -> Seq(Frames)] /\ toSrv \in [Conns -> Seq(Reports)]
  BY <1>0, RegisteredTypes
<1>2. (reg = None => conn.stamp = None) /\ NoTurn.stamp = None
  BY <1>0 DEF NoTurn
<1>3. ASSUME NEW m \in Msgs, SendNow(m) \/ Enqueue(m)
      PROVE  StampDue'
  <2>1. Outcome(conn, view) /\ UNCHANGED <<alive, toSrv, sock, pend>>
    BY <1>3, SubmitOutcome DEF StampInv, runnerVars
  <2>. QED  BY <1>0, <1>1, <1>2, <2>1, StampOutcome DEF StampDue
(* Reading anything but a turn-start leaves one behind it where it is.     *)
<1>4. ASSUME NEW c \in Conns, NEW t, Receive(c, t), t # "turn-start"
      PROVE  /\ reg = c
             /\ \A m : Contains(toSrv[reg], TurnStart(m)) => Contains(toSrv'[reg], TurnStart(m))
  <2>1. /\ reg = c /\ toSrv[c] \in Seq(Reports) /\ toSrv[c] # <<>> /\ Head(toSrv[c]).t = t
        /\ toSrv'[c] = Tail(toSrv[c])
    BY <1>0, <1>4, ReceiveTakes
  <2>2. \A m : Head(toSrv[c]) # TurnStart(m)
    BY <1>4, <2>1, Words
  <2>. QED  BY <2>1, <2>2, ContainsTail
<1>5. ASSUME NEW c \in Conns, RecvHello(c)
      PROVE  StampDue'
  <2>1. /\ Outcome(GreetedConn(c), GreetedView(c)) /\ UNCHANGED <<alive, sock, pend>>
        /\ Receive(c, "hello")
    BY <1>0, <1>5, HelloOutcome DEF runnerVars
  <2>2. Frame(c).by \in BOOLEAN
    BY <1>0, <2>1, ReceiveTakes, FrameTypes
  <2>3. GreetedConn(c) \in Claims /\ GreetedConn(c).stamp = conn.stamp
    BY <1>1, <2>2 DEF GreetedConn, Claims
  <2>4. /\ reg = c
        /\ \A m : Contains(toSrv[reg], TurnStart(m)) => Contains(toSrv'[reg], TurnStart(m))
    BY <1>4, <2>1
  <2>. HIDE DEF StampDue
  <2>. QED  BY <1>0, <1>1, <2>1, <2>3, <2>4, StampOutcome DEF StampDue
<1>6. ASSUME NEW c \in Conns, RecvTurnDone(c)
      PROVE  StampDue'
  <2>1. Outcome(TurnOver(conn), IdleView) /\ UNCHANGED <<alive, sock, pend>>
    BY <1>0, <1>6, TurnDoneOutcome DEF runnerVars
  <2>2. TurnOver(conn) \in Claims /\ TurnOver(conn).stamp = None
    BY <1>1, TurnOverType DEF TurnOver, Claims
  <2>. QED  BY <1>0, <2>1, <2>2, StampOutcome
<1>7. ASSUME NEW c \in Conns, RecvQuestion(c) \/ RecvQuestionDone(c)
      PROVE  StampDue'
  <2>1. /\ UNCHANGED <<reg, alive, toRun, sock, pend>> /\ conn'.stamp = conn.stamp
        /\ Receive(c, "question") \/ Receive(c, "question-done")
    BY <1>1, <1>7 DEF RecvQuestion, RecvQuestionDone, runnerVars, Claims
  <2>2. /\ reg = c
        /\ \A m : Contains(toSrv[reg], TurnStart(m)) => Contains(toSrv'[reg], TurnStart(m))
    BY <1>4, <2>1
  <2>. QED  BY <1>0, <2>1, <2>2 DEF StampDue, Underway
<1>8. ASSUME conn'.stamp = None
      PROVE  StampDue'
  BY <1>8 DEF StampDue
<1>9. ASSUME NEW c \in Conns, RecvTurnStart(c)
      PROVE  conn'.stamp = None
  BY <1>1, <1>9 DEF RecvTurnStart, Claims
<1>10. CASE Stop
  <2>1. conn'.stamp = None
    BY <1>1, <1>10 DEF Stop, Stopped, Claims
  <2>. QED  BY <1>8, <2>1
<1>11. CASE AnswerCard
  <2>1. /\ UNCHANGED <<reg, conn, alive, toSrv, sock, pend>>
        /\ toRun' = toRun \/ toRun' = Push(toRun, reg, <<Answer(view.card)>>)
        /\ view.card \in Questions
    BY <1>0, <1>11, RegisteredTypes DEF AnswerCard, runnerVars, Views
  <2>2. <<Answer(view.card)>> \in Seq(Frames) /\ ~Contains(<<Answer(view.card)>>, StopFrame)
    <3>1. Answer(view.card) \in Frames /\ Answer(view.card) # StopFrame
      BY <2>1, WordTypes, Words
    <3>. QED  BY <3>1 DEF Contains
  <2>3. reg # None => \/ toRun'[reg] = toRun[reg]
                      \/ toRun'[reg] = toRun[reg] \o <<Answer(view.card)>>
    BY <1>1, <2>1 DEF Push
  <2>4. SUFFICES ASSUME conn.stamp # None, alive[reg]
                 PROVE  Underway(reg, conn.stamp)'
    BY <2>1 DEF StampDue
  <2>5. reg # None /\ Underway(reg, conn.stamp)
    BY <1>0, <1>2, <2>4 DEF StampDue
  <2>. QED  BY <1>0, <2>1, <2>2, <2>3, <2>5, UnderwayServer
<1>12. ASSUME UNCHANGED <<reg, conn, alive, toRun, sock, pend>>,
              reg # None => toSrv'[reg] = toSrv[reg]
       PROVE  StampDue'
  BY <1>0, <1>2, <1>12 DEF StampDue, Underway
<1>13. ASSUME \/ SessionFrame \/ GiveUp \/ Prune \/ QueueClear
              \/ \E m \in Msgs : Reject(m) \/ QueueCancel(m)
       PROVE  UNCHANGED <<reg, conn, alive, toRun, toSrv, sock, pend>>
  BY <1>13 DEF SessionFrame, GiveUp, Prune, QueueClear, Reject, QueueCancel, Drop, serverVars,
     wireVars, runnerVars
<1>14. ASSUME NEW c \in Conns, RecvIgnored(c)
       PROVE  StampDue'
  <2>1. UNCHANGED <<reg, conn, alive, toRun, sock, pend>> /\ reg # c
        /\ toSrv' = [toSrv EXCEPT ![c] = Tail(@)]
    BY <1>14 DEF RecvIgnored, Pop, serverVars, runnerVars
  <2>. QED  BY <1>1, <1>12, <2>1
<1>15. ASSUME NEW c \in Conns, SocketLost(c) \/ SocketClosed(c)
       PROVE  StampDue'
  <2>1. CASE Teardown(c) /\ reg = c
    BY <1>2, <1>8, <2>1 DEF Teardown
  <2>2. CASE Teardown(c) /\ reg # c
    <3>1. UNCHANGED <<reg, conn, alive, toRun, sock, pend>> /\ toSrv' = [toSrv EXCEPT ![c] = <<>>]
      BY <2>2 DEF Teardown, runnerVars
    <3>. QED  BY <1>1, <1>12, <2>2, <3>1
  <2>3. CASE ~alive[c] /\ UNCHANGED <<serverVars, alive, toRun, runnerVars>>
             /\ toSrv' = [toSrv EXCEPT ![c] = <<>>]
    BY <1>0, <1>1, <2>3 DEF StampDue, Underway, serverVars, runnerVars
  <2>. QED  BY <1>15, <2>1, <2>2, <2>3 DEF SocketLost, SocketClosed
<1>16. CASE SweepDrop
  BY <1>2, <1>8, <1>16 DEF SweepDrop
<1>. QED  BY <1>3, <1>5, <1>6, <1>7, <1>8, <1>9, <1>10, <1>11, <1>12, <1>13, <1>14, <1>15, <1>16
          DEF ClientStep, ServerStep, Deliver

LEMMA StampRunner ==
  ASSUME StampInv, RunnerStep \/ FaultStep
  PROVE  StampDue'
<1>0. Types /\ StampDue /\ (reg = None => conn = NoTurn)
  BY DEF StampInv, Registered
<1>1. /\ reg \in Conns \cup {None} /\ None \notin Conns /\ pend \in [Procs -> Seq(Msgs)]
      /\ sock \in [Procs -> Conns \cup {None}] /\ toRun \in [Conns -> Seq(Frames)]
      /\ alive \in [Conns -> BOOLEAN] /\ toSrv \in [Conns -> Seq(Reports)]
  BY <1>0, RegisteredTypes
<1>2. (reg = None => conn.stamp = None) /\ NoTurn.stamp = None
  BY <1>0 DEF NoTurn
<1>3. ASSUME UNCHANGED <<reg, conn>>, alive'[reg] => alive[reg],
             conn.stamp # None /\ reg # None /\ alive[reg] /\ alive'[reg]
               /\ Underway(reg, conn.stamp) => Underway(reg, conn.stamp)'
      PROVE  StampDue'
  BY <1>0, <1>2, <1>3 DEF StampDue
<1>4. ASSUME NEW p \in Procs, HearSend(p)
      PROVE  StampDue'
  <2>1. /\ UNCHANGED <<reg, conn, alive, toSrv, sock>>
        /\ Hears(p, "send") /\ Heard(p) /\ pend' = [pend EXCEPT ![p] = Append(@, Said(p))]
    BY <1>4 DEF HearSend, serverVars
  <2>2. sock[p] \in Conns /\ toRun[sock[p]] # <<>> /\ toRun' = [toRun EXCEPT ![sock[p]] = Tail(@)]
    BY <1>1, <2>1 DEF Hears, Heard
  <2>3. Head(toRun[sock[p]]) \in Frames /\ Head(toRun[sock[p]]).t = "send"
    BY <1>0, <2>1, HeardType DEF Types
  <2>4. Said(p) \in Msgs /\ Head(toRun[sock[p]]) = Send(Said(p))
    BY <2>3, SaidTypes, FrameIs DEF Said
  <2>5. ASSUME NEW m, Underway(reg, m), reg # None
        PROVE  Underway(reg, m)'
    <3>1. pend[p] \in Seq(Msgs) /\ pend'[p] = Append(pend[p], Said(p))
      BY <1>1, <2>1
    <3>2. /\ \A x : Contains(pend[p], x) => Contains(pend'[p], x)
          /\ Contains(pend'[p], Said(p))
      BY <2>4, <3>1, ContainsAppend
    <3>3. CASE sock[p] # reg
      <4>1. toRun'[reg] = toRun[reg] /\ \A r \in Procs : sock[r] = reg => pend'[r] = pend[r]
        BY <1>1, <2>1, <2>2, <2>5, <3>3
      <4>. QED  BY <2>1, <2>5, <4>1 DEF Underway
    <3>4. CASE sock[p] = reg
      <4>1. toRun[reg] \in Seq(Frames) /\ toRun[reg] # <<>> /\ toRun'[reg] = Tail(toRun[reg])
        BY <1>1, <2>2, <3>4
      <4>2. Contains(toRun'[reg], StopFrame) => Contains(toRun[reg], StopFrame)
        BY <4>1, ContainsTail
      <4>3. SendAhead(toRun[reg], m) =>
              \/ SendAhead(toRun'[reg], m)
              \/ Said(p) = m /\ ~Contains(toRun[reg], StopFrame)
        BY <2>4, <3>4, <4>1, AheadTail, Words
      <4>4. \A r \in Procs : Contains(pend[r], m) => Contains(pend'[r], m)
        BY <1>1, <2>1, <3>2
      <4>. QED  BY <2>1, <2>5, <3>2, <3>4, <4>2, <4>3, <4>4 DEF Underway
    <3>. QED  BY <3>3, <3>4
  <2>. QED  BY <1>3, <2>1, <2>5
<1>5. ASSUME NEW p \in Procs, HearStop(p) \/ HearAnswer(p)
      PROVE  StampDue'
  <2>1. /\ UNCHANGED <<reg, conn, alive, sock>> /\ Heard(p)
        /\ Hears(p, "stop") \/ Hears(p, "answer")
        /\ \E frames \in Seq(Reports) : Emit(p, frames)
    <3>1. Dismissals(p) \in Seq(Reports)
      BY <1>0, DismissalsType DEF Types
    <3>2. StopReply(p) \in Seq(Reports)
      BY <3>1, WordTypes DEF StopReply
    <3>3. CASE HearStop(p)
      BY <3>2, <3>3 DEF HearStop, serverVars
    <3>4. CASE HearAnswer(p)
      <4>1. Hears(p, "answer") /\ Heard(p) /\ UNCHANGED <<reg, conn, alive, sock>>
            /\ Emit(p, IF Contains(asking[p], Said(p)) THEN <<QuestionDone(Said(p))>> ELSE <<>>)
        BY <3>4 DEF HearAnswer, serverVars
      <4>2. Head(toRun[sock[p]]) \in Frames /\ Head(toRun[sock[p]]).t = "answer"
        BY <1>0, <4>1, HeardType DEF Types
      <4>3. QuestionDone(Said(p)) \in Reports
        BY <4>2, SaidTypes, WordTypes DEF Said
      <4>4. (IF Contains(asking[p], Said(p)) THEN <<QuestionDone(Said(p))>> ELSE <<>>) \in Seq(Reports)
        BY <4>3
      <4>. QED  BY <4>1, <4>4
    <3>. QED  BY <1>5, <3>3, <3>4
  <2>2. sock[p] \in Conns /\ toRun[sock[p]] # <<>> /\ toRun' = [toRun EXCEPT ![sock[p]] = Tail(@)]
    BY <1>1, <2>1 DEF Hears, Heard
  <2>3. PICK frames \in Seq(Reports) : Emit(p, frames)
    BY <2>1
  <2>4. /\ \A r \in Procs : r # p => pend'[r] = pend[r]
        /\ HearAnswer(p) => pend' = pend
    BY <1>1, <1>5 DEF HearStop, HearAnswer
  <2>5. ASSUME NEW m, Underway(reg, m), reg # None, alive[reg]
        PROVE  Underway(reg, m)'
    <3>1. sock[p] # reg => toRun'[reg] = toRun[reg]
      BY <1>1, <2>2, <2>5
    <3>2. sock[p] = reg => toRun[reg] # <<>> /\ toRun'[reg] = Tail(toRun[reg])
      BY <1>1, <2>2
    <3>3. SendAhead(toRun[reg], m) => SendAhead(toRun'[reg], m)
      <4>1. sock[p] = reg => Head(toRun[reg]) # Send(m)
        BY <2>1, Words DEF Hears
      <4>2. toRun[reg] \in Seq(Frames)
        BY <1>1, <2>5
      <4>. QED  BY <3>1, <3>2, <4>1, <4>2, AheadTail
    <3>4. ASSUME ~Contains(toRun[reg], StopFrame), sock[p] = reg
          PROVE  pend' = pend
      <4>1. toRun[reg] \in Seq(Frames) /\ toRun[reg] # <<>>
        BY <1>1, <2>5, <3>2, <3>4
      <4>2. Head(toRun[reg]) # StopFrame /\ Head(toRun[reg]) \in Frames
        BY <3>4, <4>1, ContainsTail, HeadTailProperties
      <4>3. Head(toRun[reg]).t # "stop"
        BY <4>2, FrameIs
      <4>. QED  BY <1>5, <2>4, <3>4, <4>3 DEF HearStop, Hears
    <3>. QED  BY <1>0, <2>1, <2>3, <2>4, <2>5, <3>1, <3>2, <3>3, <3>4, UnderwayRunner
  <2>. QED  BY <1>3, <2>1, <2>5
(* Steps that only say something, or take the next text and say so.        *)
<1>6. ASSUME NEW p \in Procs, NEW frames \in Seq(Reports), Emit(p, frames),
             UNCHANGED <<reg, conn, alive, sock, toRun>>,
             \A r \in Procs : r # p => pend'[r] = pend[r],
             \A m : Contains(pend[p], m) => Contains(pend'[p], m) \/ Contains(frames, TurnStart(m))
      PROVE  StampDue'
  <2>1. ASSUME NEW m, Underway(reg, m), reg # None, alive[reg]
        PROVE  Underway(reg, m)'
    BY <1>0, <1>6, <2>1, UnderwayRunner
  <2>. QED  BY <1>3, <1>6, <2>1
<1>7. ASSUME NEW p \in Procs, StartTurn(p)
      PROVE  StampDue'
  <2>1. /\ pend[p] # <<>> /\ pend' = [pend EXCEPT ![p] = Tail(@)]
        /\ Emit(p, <<TurnStart(Head(pend[p]))>>) /\ UNCHANGED <<reg, conn, alive, sock, toRun>>
    BY <1>7 DEF StartTurn, serverVars
  <2>2. pend[p] \in Seq(Msgs) /\ Head(pend[p]) \in Msgs /\ pend'[p] = Tail(pend[p])
    BY <1>1, <2>1
  <2>3. <<TurnStart(Head(pend[p]))>> \in Seq(Reports)
    BY <2>2, WordTypes
  <2>4. Contains(<<TurnStart(Head(pend[p]))>>, TurnStart(Head(pend[p])))
    BY DEF Contains
  <2>5. \A m : Contains(pend[p], m) =>
                 Contains(pend'[p], m) \/ Contains(<<TurnStart(Head(pend[p]))>>, TurnStart(m))
    BY <2>1, <2>2, <2>4, ContainsTail
  <2>. QED  BY <1>1, <1>6, <2>1, <2>3, <2>5
<1>8. ASSUME NEW p \in Procs,
             StartAutonomousTurn(p) \/ FinishTurn(p) \/ \E q \in Questions : Ask(p, q)
      PROVE  StampDue'
  <2>1. /\ UNCHANGED <<reg, conn, alive, sock, toRun, pend>>
        /\ \E frames \in Seq(Reports) : Emit(p, frames)
    <3>1. CASE StartAutonomousTurn(p)
      <4>1. <<TurnStart("auto")>> \in Seq(Reports)
        BY WordTypes
      <4>. QED  BY <3>1, <4>1 DEF StartAutonomousTurn, serverVars
    <3>2. CASE FinishTurn(p)
      <4>1. Dismissals(p) \in Seq(Reports) /\ <<TurnDone>> \in Seq(Reports)
        BY <1>0, DismissalsType, WordTypes DEF Types
      <4>2. Dismissals(p) \o <<TurnDone>> \in Seq(Reports)
        BY <4>1, ConcatProperties
      <4>. QED  BY <3>2, <4>2 DEF FinishTurn, serverVars
    <3>3. ASSUME NEW q \in Questions, Ask(p, q)
          PROVE  UNCHANGED <<reg, conn, alive, sock, toRun, pend>> /\ Emit(p, <<Question(q)>>)
                 /\ <<Question(q)>> \in Seq(Reports)
      <4>1. <<Question(q)>> \in Seq(Reports)
        BY WordTypes
      <4>. QED  BY <3>3, <4>1 DEF Ask, serverVars
    <3>. QED  BY <1>8, <3>1, <3>2, <3>3
  <2>. QED  BY <1>6, <2>1
<1>9. ASSUME NEW p \in Procs, Exit(p), \A c \in Conns : c # sock[p] => toRun'[c] = toRun[c],
             UNCHANGED toSrv
      PROVE  StampDue'
  <2>1. /\ UNCHANGED <<reg, conn>> /\ alive' = [c \in Conns |-> alive[c] /\ c # sock[p]]
        /\ sock' = [sock EXCEPT ![p] = None] /\ pend' = [pend EXCEPT ![p] = <<>>]
    BY <1>9 DEF Exit, serverVars
  <2>2. ASSUME reg # None, alive'[reg], NEW m, Underway(reg, m)
        PROVE  Underway(reg, m)'
    <3>1. sock[p] # reg /\ toRun'[reg] = toRun[reg]
      BY <1>1, <1>9, <2>1, <2>2
    <3>2. \A r \in Procs : sock[r] = reg => sock'[r] = reg /\ pend'[r] = pend[r]
      BY <1>1, <2>1, <3>1
    <3>. QED  BY <1>9, <2>1, <2>2, <3>1, <3>2 DEF Underway
  <2>3. reg # None => (alive'[reg] => alive[reg])
    BY <1>1, <2>1
  <2>. QED  BY <1>0, <1>2, <2>1, <2>2, <2>3 DEF StampDue
<1>10. ASSUME NEW p \in Procs, HearDisplaced(p) \/ Crash(p)
       PROVE  StampDue'
  <2>1. Exit(p) /\ UNCHANGED toSrv /\ \A c \in Conns : c # sock[p] => toRun'[c] = toRun[c]
    BY <1>1, <1>10 DEF HearDisplaced, Heard, Crash
  <2>. QED  BY <1>9, <2>1
<1>11. ASSUME NEW p \in Procs, LoseSocket(p)
       PROVE  StampDue'
  <2>1. /\ UNCHANGED <<reg, conn, alive, toRun, toSrv, pend>> /\ sock[p] # None /\ ~alive[sock[p]]
        /\ sock' = [sock EXCEPT ![p] = None]
    BY <1>11 DEF LoseSocket, serverVars, wireVars
  <2>2. ASSUME reg # None, alive[reg], NEW m, Underway(reg, m)
        PROVE  Underway(reg, m)'
    <3>1. \A r \in Procs : sock[r] = reg => sock'[r] = reg
      BY <1>1, <2>1, <2>2
    <3>. QED  BY <2>1, <2>2, <3>1 DEF Underway
  <2>. QED  BY <1>3, <2>1, <2>2
<1>12. ASSUME NEW p \in Procs, Spawn(p)
       PROVE  StampDue'
  BY <1>0, <1>12 DEF Spawn, serverVars, wireVars, StampDue, Underway
<1>13. ASSUME conn' = NoTurn
       PROVE  StampDue'
  BY <1>2, <1>13 DEF StampDue
<1>14. ASSUME NEW c \in Conns, CutLink(c)
       PROVE  StampDue'
  <2>1. /\ UNCHANGED <<reg, conn, sock, pend>> /\ alive' = [alive EXCEPT ![c] = FALSE]
        /\ \E r, s : toRun' = [toRun EXCEPT ![c] = r] /\ toSrv' = [toSrv EXCEPT ![c] = s]
    BY <1>14 DEF CutLink, serverVars, runnerVars
  <2>2. ASSUME reg # None, alive'[reg], NEW m, Underway(reg, m)
        PROVE  Underway(reg, m)'
    <3>1. reg # c /\ toRun'[reg] = toRun[reg] /\ toSrv'[reg] = toSrv[reg]
      BY <1>1, <2>1, <2>2
    <3>. QED  BY <2>1, <2>2, <3>1 DEF Underway
  <2>3. reg # None => (alive'[reg] => alive[reg])
    BY <1>1, <2>1
  <2>. QED  BY <1>0, <1>2, <2>1, <2>2, <2>3 DEF StampDue
<1>15. ASSUME \/ ServerRestart \/ \E p \in Procs, c \in Conns : Connect(p, c)
       PROVE  conn' = NoTurn
  BY <1>15 DEF ServerRestart, Connect
<1>. QED  BY <1>4, <1>5, <1>7, <1>8, <1>10, <1>11, <1>12, <1>13, <1>14, <1>15
          DEF RunnerStep, Hear, FaultStep

LEMMA StampStep == StampInv /\ [Next]_vars => StampInv'
<1>. SUFFICES ASSUME StampInv, [Next]_vars
              PROVE  StampDue'
  BY RegisteredStep DEF StampInv
<1>1. CASE UNCHANGED vars
  BY <1>1 DEF vars, serverVars, wireVars, runnerVars, StampInv, StampDue, Underway
<1>2. CASE AtRest
  BY <1>1, <1>2 DEF AtRest
<1>. QED  BY <1>1, <1>2, StampServer, StampRunner DEF Next

LEMMA RegisteredInit == Init => Registered /\ conn = NoTurn /\ reg = None
BY InitTypes DEF Init, Registered

(* A stamp names a send that can still start a turn: its frame, its text   *)
(* or its turn-start is there, unless the link died (submitSend, drainQueue*)
(* and the handlers that clear the stamp).                                 *)
THEOREM StampIsUnspent == Spec => []StampUnspent
<1>1. Init => StampInv
  BY RegisteredInit DEF StampInv, StampDue, NoTurn
<1>2. StampInv => StampUnspent
  <2>1. SUFFICES ASSUME StampInv, conn.stamp # None, alive[reg]
                 PROVE  StampUnspent
    BY DEF StampUnspent
  <2>2. reg \in Conns /\ Underway(reg, conn.stamp) /\ toRun[reg] \in Seq(Frames)
    BY <2>1, RegisteredTypes DEF StampInv, StampDue, Registered, NoTurn
  <2>3. SendAhead(toRun[reg], conn.stamp) => Contains(toRun[reg], Send(conn.stamp))
    BY <2>2, ContainsAt, ConcatAt DEF SendAhead
  <2>. QED  BY <2>2, <2>3 DEF StampUnspent, Underway
<1>. QED  BY <1>1, <1>2, StampStep, PTL DEF Spec

-----------------------------------------------------------------------------
(* The card on the screen *)

Distinct(s) == \A i, j \in DOMAIN s : s[i] = s[j] => i = j

(* Of the questions asks and the card of the pane, and of what is on its   *)
(* way to a runner (r) and from it (w), which waits on mine: a card is the *)
(* front question's,                                                       *)
FrontCard(asks, card) == asks # <<>> /\ card # None => card = Head(asks)

(* without one, its answer or its dismissal is on its way,                 *)
Due(asks, card, r, w) ==
  asks # <<>> /\ card = None =>
    Contains(r, Answer(Head(asks))) \/ Contains(w, QuestionDone(Head(asks)))

(* a hello comes before anything is asked,                                 *)
Early(asks, w) == \A i \in DOMAIN w : w[i].t = "hello" => i = 1 /\ asks = <<>>

(* and whatever is asked or about to be is waited on or dismissed later.   *)
Settles(asks, w, mine) ==
  /\ \A q \in Questions : Contains(asks, q) => Contains(mine, q) \/ Contains(w, QuestionDone(q))
  /\ \A i \in DOMAIN w : w[i].t = "question" =>
       \/ Contains(mine, w[i].by)
       \/ \E j \in DOMAIN w : j > i /\ w[j] = QuestionDone(w[i].by)

OneOwner == \A p, r \in Procs : sock[p] = sock[r] /\ sock[p] # None => p = r

CardDue ==
  /\ Distinct(conn.asks) /\ FrontCard(conn.asks, view.card)
  /\ reg # None => Early(conn.asks, toSrv[reg])
  /\ reg # None /\ alive[reg] =>
       /\ Due(conn.asks, view.card, toRun[reg], toSrv[reg])
       /\ \A p \in Procs : sock[p] = reg => Settles(conn.asks, toSrv[reg], asking[p])

CardInv == Registered /\ OneOwner /\ CardDue

(* What is left of a question list without x.                              *)
LEMMA WithoutAt ==
  ASSUME NEW S, NEW s \in Seq(S), NEW x, Contains(s, x)
  PROVE  \E k \in 1 .. Len(s) :
           /\ s[k] = x /\ Without(s, x) \in Seq(S) /\ Len(Without(s, x)) = Len(s) - 1
           /\ \A i \in 1 .. Len(s) - 1 : Without(s, x)[i] = IF i < k THEN s[i] ELSE s[i + 1]
<1>. DEFINE k == Position(s, x)
            a == SubSeq(s, 1, k - 1)
            b == SubSeq(s, k + 1, Len(s))
<1>1. k \in 1 .. Len(s) /\ s[k] = x /\ Len(s) \in Nat
  BY DEF Contains, Position
<1>2. /\ a \in Seq(S) /\ Len(a) = k - 1 /\ \A i \in 1 .. k - 1 : a[i] = s[i]
      /\ b \in Seq(S) /\ Len(b) = Len(s) - k /\ \A i \in 1 .. Len(s) - k : b[i] = s[k + i]
  BY <1>1
<1>3. Without(s, x) = a \o b
  BY DEF Without, RemoveAt
<1>. HIDE DEF k, a, b
<1>4. /\ a \o b \in Seq(S) /\ Len(a \o b) = Len(s) - 1
      /\ \A i \in 1 .. k - 1 : (a \o b)[i] = s[i]
  <2>0. a \in Seq(S) /\ b \in Seq(S)
    BY <1>2
  <2>1. a \o b \in Seq(S) /\ Len(a \o b) = Len(a) + Len(b)
    BY ONLY <2>0
  <2>2. \A i \in 1 .. Len(a) : (a \o b)[i] = a[i]
    BY ONLY <2>0
  <2>. QED  BY <1>1, <1>2, <2>1, <2>2
<1>5. ASSUME NEW i \in 1 .. Len(s) - 1, ~(i < k)
      PROVE  (a \o b)[i] = s[i + 1]
  <2>1. i - Len(a) \in 1 .. Len(b) /\ i > Len(a) /\ i \in 1 .. Len(a) + Len(b)
    BY <1>1, <1>2, <1>5
  <2>2. (a \o b)[i] = b[i - Len(a)]
    BY <1>2, <2>1, ConcatAt
  <2>3. b[i - Len(a)] = s[k + (i - Len(a))] /\ k + (i - Len(a)) = i + 1
    BY <1>1, <1>2, <2>1
  <2>. QED  BY <2>2, <2>3
<1>6. \A i \in 1 .. Len(s) - 1 : i < k => i \in 1 .. k - 1
  BY <1>1
<1>. QED  BY <1>1, <1>3, <1>4, <1>5, <1>6

LEMMA WithoutKeeps ==
  ASSUME NEW S, NEW s \in Seq(S), Distinct(s), NEW x
  PROVE  /\ Without(s, x) \in Seq(S) /\ Distinct(Without(s, x))
         /\ \A y : Contains(Without(s, x), y) => Contains(s, y) /\ y # x
         /\ s # <<>> /\ Head(s) # x => Without(s, x) # <<>> /\ Head(Without(s, x)) = Head(s)
<1>. DEFINE v == Without(s, x)
<1>1. CASE ~Contains(s, x)
  BY <1>1 DEF Without
<1>2. CASE Contains(s, x)
  <2>1. PICK k \in 1 .. Len(s) :
          /\ s[k] = x /\ v \in Seq(S) /\ Len(v) = Len(s) - 1
          /\ \A i \in 1 .. Len(s) - 1 : v[i] = IF i < k THEN s[i] ELSE s[i + 1]
    BY <1>2, WithoutAt
  <2>. HIDE DEF v
  <2>2. Len(s) \in Nat /\ DOMAIN s = 1 .. Len(s) /\ DOMAIN v = 1 .. Len(s) - 1
    BY <2>1
  <2>3. \A i \in 1 .. Len(s) - 1 : i \in 1 .. Len(s) /\ i + 1 \in 1 .. Len(s)
    BY <2>2
  <2>4. ASSUME NEW i \in 1 .. Len(s) - 1, NEW j \in 1 .. Len(s) - 1, v[i] = v[j]
        PROVE  i = j
    <3>. DEFINE g == IF i < k THEN i ELSE i + 1
                h == IF j < k THEN j ELSE j + 1
    <3>1. g \in 1 .. Len(s) /\ h \in 1 .. Len(s) /\ s[g] = v[i] /\ s[h] = v[j]
      BY <2>1, <2>2, <2>3
    <3>2. g = h
      <4>. HIDE DEF g, h
      <4>. QED  BY <2>2, <2>4, <3>1 DEF Distinct
    <3>3. k \in Nat /\ i \in Nat /\ j \in Nat
      BY <2>1, <2>2
    <3>. QED  BY <3>2, <3>3
  <2>5. Distinct(v)
    BY <2>2, <2>4 DEF Distinct
  <2>6. ASSUME NEW y, Contains(v, y)
        PROVE  Contains(s, y) /\ y # x
    <3>1. PICK i \in 1 .. Len(s) - 1 : v[i] = y
      BY <2>1, <2>6, ContainsAt
    <3>2. CASE i < k
      BY <2>1, <2>2, <2>3, <3>1, <3>2, ContainsAt DEF Distinct
    <3>3. CASE ~(i < k)
      <4>1. i + 1 \in 1 .. Len(s) /\ s[i + 1] = y /\ i + 1 # k
        BY <2>1, <2>2, <2>3, <3>1, <3>3
      <4>. QED  BY <2>1, <2>2, <4>1, ContainsAt DEF Distinct
    <3>. QED  BY <3>2, <3>3
  <2>7. ASSUME s # <<>>, Head(s) # x
        PROVE  v # <<>> /\ Head(v) = Head(s)
    <3>1. Head(s) = s[1] /\ k > 1
      BY <2>1, <2>7
    <3>2. 1 \in 1 .. Len(s) - 1 /\ v[1] = s[1]
      BY <2>1, <2>2, <3>1
    <3>3. Len(v) > 0
      BY <2>1, <2>2, <3>2
    <3>. QED  BY <2>1, <3>1, <3>2, <3>3
  <2>. QED  BY <2>1, <2>5, <2>6, <2>7 DEF v
<1>. QED  BY <1>1, <1>2

LEMMA HeldKeeps ==
  ASSUME NEW s \in Seq(Questions), Distinct(s), NEW q \in Questions
  PROVE  /\ Held(s, q) \in Seq(Questions) /\ Distinct(Held(s, q)) /\ Held(s, q) # <<>>
         /\ \A y : Contains(Held(s, q), y) => Contains(s, y) \/ y = q
         /\ s # <<>> => Head(Held(s, q)) = Head(s)
         /\ s = <<>> => Head(Held(s, q)) = q
<1>1. CASE Contains(s, q)
  BY <1>1 DEF Held, Contains
<1>2. CASE ~Contains(s, q)
  <2>. DEFINE a == Append(s, q)
              n == Len(s)
  <2>1. /\ DOMAIN a = 1 .. n + 1 /\ a[n + 1] = q /\ \A i \in 1 .. n : a[i] = s[i]
        /\ a \in Seq(Questions) /\ Len(a) = n + 1 /\ n \in Nat /\ a # <<>> /\ DOMAIN s = 1 .. n
        /\ Head(a) = a[1] /\ (s # <<>> => Head(s) = s[1] /\ n > 0) /\ (s = <<>> => n = 0)
    OBVIOUS
  <2>2. \A i \in 1 .. n : s[i] # q
    BY <1>2 DEF Contains
  <2>3. Held(s, q) = a
    BY <1>2 DEF Held
  <2>4. \A y : Contains(a, y) => Contains(s, y) \/ y = q
    BY ContainsAppend
  <2>. HIDE DEF a, n
  <2>5. Distinct(a)
    <3>1. ASSUME NEW i \in 1 .. n + 1, NEW j \in 1 .. n + 1, a[i] = a[j]
          PROVE  i = j
      <4>1. (i \in 1 .. n \/ i = n + 1) /\ (j \in 1 .. n \/ j = n + 1)
        BY <2>1
      <4>. QED  BY <2>1, <2>2, <3>1, <4>1 DEF Distinct
    <3>. QED  BY <2>1, <3>1 DEF Distinct
  <2>6. s # <<>> => Head(a) = Head(s)
    BY <2>1
  <2>7. s = <<>> => Head(a) = q
    BY <2>1
  <2>. QED  BY <2>1, <2>3, <2>4, <2>5, <2>6, <2>7
<1>. QED  BY <1>1, <1>2

(* What a runner says, and what is read of it.                             *)
LEMMA SettlesSaid ==
  ASSUME NEW asks, NEW w \in Seq(Reports), NEW frames \in Seq(Reports), NEW mine, NEW new,
         Settles(asks, w, mine),
         \A q \in Questions : Contains(mine, q) => Contains(new, q) \/ Contains(frames, QuestionDone(q)),
         \A i \in DOMAIN frames : frames[i].t = "question" => Contains(new, frames[i].by)
  PROVE  Settles(asks, w \o frames, new)
<1>. DEFINE v == w \o frames
<1>1. ASSUME NEW q \in Questions, Contains(asks, q)
      PROVE  Contains(new, q) \/ Contains(v, QuestionDone(q))
  BY <1>1, ContainsConcat DEF Settles
<1>2. ASSUME NEW i \in DOMAIN v, v[i].t = "question"
      PROVE  \/ Contains(new, v[i].by)
             \/ \E j \in DOMAIN v : j > i /\ v[j] = QuestionDone(v[i].by)
  <2>1. CASE i \in DOMAIN w
    <3>1. v[i] = w[i] /\ w[i] \in Reports /\ DOMAIN w \subseteq DOMAIN v
      BY <2>1, ConcatAt
    <3>2. w[i].by \in Questions
      BY <1>2, <3>1, FrameTypes
    <3>3. CASE Contains(mine, w[i].by)
      <4>1. CASE Contains(frames, QuestionDone(w[i].by))
        <5>1. PICK j \in 1 .. Len(frames) : frames[j] = QuestionDone(w[i].by)
          BY <4>1, ContainsAt
        <5>2. Len(w) + j \in DOMAIN v /\ v[Len(w) + j] = frames[j] /\ Len(w) + j > i
          BY <2>1, <5>1, ConcatAt
        <5>. QED  BY <3>1, <5>1, <5>2
      <4>. QED  BY <3>1, <3>2, <3>3, <4>1
    <3>4. CASE \E j \in DOMAIN w : j > i /\ w[j] = QuestionDone(w[i].by)
      <4>1. PICK j \in DOMAIN w : j > i /\ w[j] = QuestionDone(w[i].by)
        BY <3>4
      <4>2. j \in DOMAIN v /\ v[j] = w[j]
        BY <3>1, <4>1, ConcatAt
      <4>. QED  BY <3>1, <4>1, <4>2
    <3>. QED  BY <1>2, <2>1, <3>1, <3>3, <3>4 DEF Settles
  <2>2. CASE i \notin DOMAIN w
    <3>1. i - Len(w) \in DOMAIN frames /\ v[i] = frames[i - Len(w)]
      BY <1>2, <2>2, ConcatAt
    <3>. QED  BY <1>2, <3>1
  <2>. QED  BY <2>1, <2>2
<1>. QED  BY <1>1, <1>2 DEF Settles

LEMMA SettlesRead ==
  ASSUME NEW asks, NEW left, NEW w \in Seq(Reports), w # <<>>, NEW mine, Settles(asks, w, mine),
         \A q \in Questions : Contains(left, q) =>
           \/ Contains(asks, q) /\ Head(w) # QuestionDone(q)
           \/ Head(w) = Question(q)
  PROVE  Settles(left, Tail(w), mine)
<1>. DEFINE v == Tail(w)
<1>1. /\ v \in Seq(Reports) /\ DOMAIN w = 1 .. Len(w) /\ DOMAIN v = 1 .. Len(w) - 1 /\ Head(w) = w[1]
      /\ Len(w) \in Nat /\ Len(w) > 0 /\ \A i \in 1 .. Len(w) - 1 : v[i] = w[i + 1]
  BY TailAt
<1>. HIDE DEF v
<1>2. ASSUME NEW q \in Questions, Contains(left, q)
      PROVE  Contains(mine, q) \/ Contains(v, QuestionDone(q))
  <2>1. CASE Contains(asks, q) /\ Head(w) # QuestionDone(q)
    BY <1>2, <2>1, ContainsTail DEF Settles, v
  <2>2. CASE Head(w) = Question(q)
    <3>1. w[1].t = "question" /\ w[1].by = q /\ 1 \in DOMAIN w
      BY <1>1, <2>2, Words
    <3>2. CASE \E j \in DOMAIN w : j > 1 /\ w[j] = QuestionDone(q)
      <4>1. PICK j \in 1 .. Len(w) : j > 1 /\ w[j] = QuestionDone(q)
        BY <1>1, <3>2
      <4>2. j - 1 \in 1 .. Len(w) - 1 /\ v[j - 1] = w[j]
        BY <1>1, <4>1
      <4>. QED  BY <1>1, <4>1, <4>2 DEF Contains
    <3>. QED  BY <3>1, <3>2 DEF Settles
  <2>. QED  BY <1>2, <2>1, <2>2
<1>3. ASSUME NEW i \in DOMAIN v, v[i].t = "question", ~Contains(mine, v[i].by)
      PROVE  \E j \in DOMAIN v : j > i /\ v[j] = QuestionDone(v[i].by)
  <2>1. i + 1 \in DOMAIN w /\ v[i] = w[i + 1]
    BY <1>1
  <2>2. PICK j \in DOMAIN w : j > i + 1 /\ w[j] = QuestionDone(w[i + 1].by)
    BY <1>3, <2>1 DEF Settles
  <2>3. j - 1 \in DOMAIN v /\ v[j - 1] = w[j] /\ j - 1 > i
    BY <1>1, <2>1, <2>2
  <2>. QED  BY <2>1, <2>2, <2>3
<1>. QED  BY <1>2, <1>3 DEF Settles, v

LEMMA EarlyTail ==
  ASSUME NEW asks, NEW w \in Seq(Reports), w # <<>>, Early(asks, w), NEW left
  PROVE  Early(left, Tail(w))
BY TailAt DEF Early

LEMMA EarlySaid ==
  ASSUME NEW asks, NEW w \in Seq(Reports), NEW frames \in Seq(Reports), Early(asks, w),
         \A i \in DOMAIN frames : frames[i].t # "hello"
  PROVE  Early(asks, w \o frames)
<1>1. ASSUME NEW i \in DOMAIN (w \o frames), (w \o frames)[i].t = "hello"
      PROVE  i = 1 /\ asks = <<>>
  <2>1. CASE i \in DOMAIN w
    BY <1>1, <2>1, ConcatAt DEF Early
  <2>2. CASE i \notin DOMAIN w
    BY <1>1, <2>2, ConcatAt
  <2>. QED  BY <2>1, <2>2
<1>. QED  BY <1>1 DEF Early

(* Steps that say nothing new and answer nothing.                          *)
LEMMA CardQuiet ==
  ASSUME CardInv, reg' = reg, conn'.asks = conn.asks, view'.card = view.card,
         reg # None => toSrv'[reg] = toSrv[reg],
         reg # None /\ alive'[reg] =>
           /\ alive[reg]
           /\ \A q \in Questions : Contains(toRun[reg], Answer(q)) => Contains(toRun'[reg], Answer(q))
           /\ \A p \in Procs : sock'[p] = reg => sock[p] = reg /\ asking'[p] = asking[p]
  PROVE  CardDue'
<1>1. conn.asks \in Seq(Questions)
  BY RegisteredTypes DEF CardInv, Registered, Claims
<1>2. conn.asks # <<>> => Head(conn.asks) \in Questions
  BY <1>1
<1>3. CardDue
  BY DEF CardInv
<1>. QED  BY <1>2, <1>3 DEF CardDue, Due

(* The record and the card a handler leaves to the drain.                  *)
LEMMA CardOutcome ==
  ASSUME Types, NEW c \in Claims, NEW v \in Views, Outcome(c, v), UNCHANGED <<alive, sock, asking>>,
         Distinct(c.asks), FrontCard(c.asks, v.card),
         reg # None => Early(c.asks, toSrv'[reg]),
         reg # None /\ alive[reg] =>
           /\ Due(c.asks, v.card, toRun[reg], toSrv'[reg])
           /\ \A p \in Procs : sock[p] = reg => Settles(c.asks, toSrv'[reg], asking[p])
  PROVE  CardDue'
<1>1. CASE conn' = c /\ view' = v /\ UNCHANGED <<reg, toRun>>
  BY <1>1 DEF CardDue
<1>2. ASSUME NEW m \in Msgs, SocketOpen, UNCHANGED reg, Relay(c, v, m)
      PROVE  CardDue'
  <2>1. conn'.asks = c.asks /\ view'.card = v.card
    BY <1>2 DEF Relay, Claims, Views
  <2>2. reg \in Conns /\ toRun[reg] \in Seq(Frames) /\ <<Send(m)>> \in Seq(Frames)
        /\ toRun \in [Conns -> Seq(Frames)]
    BY <1>2, RegisteredTypes, WordTypes DEF SocketOpen
  <2>3. toRun'[reg] = toRun[reg] \/ toRun'[reg] = toRun[reg] \o <<Send(m)>>
    BY <1>2, <2>2 DEF Relay, Push
  <2>4. \A x : Contains(toRun[reg], x) => Contains(toRun'[reg], x)
    BY <2>2, <2>3, ContainsSaid, WordTypes
  <2>. QED  BY <1>2, <2>1, <2>4 DEF CardDue, Due
<1>3. CASE reg' = None /\ conn' = NoTurn
  BY <1>3 DEF CardDue, NoTurn, Distinct, FrontCard
<1>. QED  BY <1>1, <1>2, <1>3 DEF Outcome

(* What a server or a client does to the questions and the card.           *)
LEMMA CardServer ==
  ASSUME CardInv, ClientStep \/ ServerStep
  PROVE  CardDue'
<1>0. Types /\ CardDue /\ (reg = None => conn = NoTurn)
  BY DEF CardInv, Registered
<1>1. /\ reg \in Conns \cup {None} /\ None \notin Conns /\ conn \in Claims /\ view \in Views
      /\ toRun \in [Conns -> Seq(Frames)] /\ toSrv \in [Conns -> Seq(Reports)]
      /\ conn.asks \in Seq(Questions) /\ view.card \in Questions \cup {None}
      /\ None \notin Questions
  BY <1>0, RegisteredTypes DEF Claims, Views
<1>2. ASSUME NEW m \in Msgs, SendNow(m) \/ Enqueue(m)
      PROVE  CardDue'
  <2>1. Outcome(conn, view) /\ UNCHANGED <<alive, toSrv, sock, asking>>
    BY <1>2, SubmitOutcome DEF CardInv, runnerVars
  <2>. QED  BY <1>0, <1>1, <2>1, CardOutcome DEF CardDue
(* A frame is read: what stays due, and what stays to be settled. *)
<1>3. ASSUME NEW c \in Conns, NEW t, Receive(c, t)
      PROVE  /\ reg = c /\ toSrv[reg] \in Seq(Reports) /\ toSrv[reg] # <<>>
             /\ Head(toSrv[reg]) \in Reports /\ Head(toSrv[reg]).t = t
             /\ Frame(c) = Head(toSrv[reg]) /\ toSrv'[reg] = Tail(toSrv[reg])
             /\ Early(conn.asks, toSrv[reg]) /\ \A left : Early(left, toSrv'[reg])
  <2>1. /\ reg = c /\ toSrv[reg] \in Seq(Reports) /\ toSrv[reg] # <<>>
        /\ Frame(c) = Head(toSrv[reg]) /\ Frame(c).t = t /\ Frame(c) \in Reports
        /\ toSrv'[reg] = Tail(toSrv[reg])
    BY <1>0, <1>3, ReceiveTakes
  <2>2. Early(conn.asks, toSrv[reg])
    BY <1>0, <1>1, <2>1 DEF CardDue
  <2>. QED  BY <2>1, <2>2, EarlyTail
<1>4. ASSUME NEW c \in Conns, NEW t, Receive(c, t), NEW left, alive[reg],
             \A q \in Questions : Contains(left, q) =>
               \/ Contains(conn.asks, q) /\ Frame(c) # QuestionDone(q)
               \/ Frame(c) = Question(q)
      PROVE  \A p \in Procs : sock[p] = reg => Settles(left, toSrv'[reg], asking[p])
  BY <1>0, <1>1, <1>3, <1>4, SettlesRead DEF CardDue
<1>5. ASSUME NEW c \in Conns, RecvHello(c)
      PROVE  CardDue'
  <2>1. /\ Outcome(GreetedConn(c), GreetedView(c)) /\ UNCHANGED <<alive, sock, asking>>
        /\ Receive(c, "hello")
    BY <1>0, <1>5, HelloOutcome DEF runnerVars
  <2>2. Frame(c).by \in BOOLEAN
    BY <1>3, <2>1, FrameTypes
  <2>3. conn.asks = <<>>
    <3>1. 1 \in DOMAIN toSrv[reg] /\ toSrv[reg][1].t = "hello"
      BY <1>3, <2>1
    <3>. QED  BY <1>3, <2>1, <3>1 DEF Early
  <2>4. /\ GreetedConn(c) \in Claims /\ GreetedView(c) \in Views
        /\ GreetedConn(c).asks = <<>> /\ GreetedView(c).card = None
    BY <1>1, <2>2, <2>3 DEF GreetedConn, GreetedView, Claims, Views, Shown
  <2>5. \A q \in Questions : ~Contains(<<>>, q)
    BY DEF Contains
  <2>6. alive[reg] => \A p \in Procs : sock[p] = reg => Settles(<<>>, toSrv'[reg], asking[p])
    BY <1>4, <2>1, <2>5
  <2>. QED  BY <1>0, <1>3, <2>1, <2>4, <2>6, CardOutcome DEF Distinct, FrontCard, Due
<1>6. ASSUME NEW c \in Conns, RecvTurnDone(c)
      PROVE  CardDue'
  <2>1. /\ Outcome(TurnOver(conn), IdleView) /\ UNCHANGED <<alive, sock, asking>>
        /\ Receive(c, "turn-done")
    BY <1>0, <1>6, TurnDoneOutcome DEF runnerVars
  <2>2. /\ TurnOver(conn) \in Claims /\ IdleView \in Views
        /\ TurnOver(conn).asks = <<>> /\ IdleView.card = None
    BY <1>1, TurnOverType DEF TurnOver, IdleView, Claims, Views
  <2>3. \A q \in Questions : ~Contains(<<>>, q)
    BY DEF Contains
  <2>4. alive[reg] => \A p \in Procs : sock[p] = reg => Settles(<<>>, toSrv'[reg], asking[p])
    BY <1>4, <2>1, <2>3
  <2>. QED  BY <1>0, <1>3, <2>1, <2>2, <2>4, CardOutcome DEF Distinct, FrontCard, Due
<1>7. ASSUME NEW c \in Conns, RecvTurnStart(c)
      PROVE  CardDue'
  <2>1. /\ UNCHANGED <<reg, alive, toRun, sock, asking>> /\ conn'.asks = conn.asks
        /\ view'.card = view.card /\ Receive(c, "turn-start")
    BY <1>1, <1>7 DEF RecvTurnStart, runnerVars, Claims, Views
  <2>2. \A q : Frame(c) # QuestionDone(q)
    BY <1>3, <2>1, Words
  <2>3. alive[reg] => \A p \in Procs : sock[p] = reg => Settles(conn.asks, toSrv'[reg], asking[p])
    BY <1>4, <2>1, <2>2
  <2>4. \A q : Contains(toSrv[reg], QuestionDone(q)) => Contains(toSrv'[reg], QuestionDone(q))
    BY <1>3, <2>1, <2>2, ContainsTail
  <2>. QED  BY <1>0, <1>3, <2>1, <2>3, <2>4 DEF CardDue, Due
<1>8. ASSUME NEW c \in Conns, RecvQuestion(c)
      PROVE  CardDue'
  <2>. DEFINE q == Frame(c).by
              old == conn.asks
  <2>1. /\ UNCHANGED <<reg, alive, toRun, sock, asking>> /\ conn'.asks = Held(old, q)
        /\ view'.card = (IF old = <<>> THEN q ELSE view.card) /\ Receive(c, "question")
    BY <1>1, <1>8 DEF RecvQuestion, runnerVars, Claims, Views
  <2>2. q \in Questions /\ Frame(c) = Question(q) /\ \A x : Frame(c) # QuestionDone(x)
    BY <1>3, <2>1, FrameTypes, ReportIs, Words
  <2>3. old \in Seq(Questions) /\ Distinct(old) /\ FrontCard(old, view.card)
    BY <1>0, <1>1 DEF CardDue
  <2>. HIDE DEF q, old
  <2>4. /\ Distinct(Held(old, q)) /\ Held(old, q) # <<>>
        /\ \A y : Contains(Held(old, q), y) => Contains(old, y) \/ y = q
        /\ old # <<>> => Head(Held(old, q)) = Head(old)
        /\ old = <<>> => Head(Held(old, q)) = q
    BY <2>2, <2>3, HeldKeeps
  <2>5. alive[reg] => \A p \in Procs : sock[p] = reg => Settles(conn'.asks, toSrv'[reg], asking[p])
    BY <1>4, <2>1, <2>2, <2>4 DEF old
  <2>6. FrontCard(conn'.asks, view'.card)
    BY <2>1, <2>3, <2>4 DEF FrontCard
  <2>7. \A x : Contains(toSrv[reg], QuestionDone(x)) => Contains(toSrv'[reg], QuestionDone(x))
    BY <1>3, <2>1, <2>2, ContainsTail
  <2>8. alive[reg] => Due(conn'.asks, view'.card, toRun'[reg], toSrv'[reg])
    <3>1. q # None /\ reg # None
      BY <1>1, <1>3, <2>1, <2>2
    <3>2. alive[reg] => Due(old, view.card, toRun[reg], toSrv[reg])
      BY <1>0, <3>1 DEF CardDue, old
    <3>. QED  BY <2>1, <2>4, <2>7, <3>1, <3>2 DEF Due
  <2>. QED  BY <1>3, <2>1, <2>4, <2>5, <2>6, <2>8 DEF CardDue
<1>9. ASSUME NEW c \in Conns, RecvQuestionDone(c)
      PROVE  CardDue'
  <2>. DEFINE q == Frame(c).by
              old == conn.asks
              left == Without(old, q)
  <2>1. /\ UNCHANGED <<reg, alive, toRun, sock, asking>> /\ conn'.asks = left
        /\ view'.card = Promoted(q) /\ Receive(c, "question-done")
    BY <1>1, <1>9 DEF RecvQuestionDone, runnerVars, Claims, Views
  <2>2. q \in Questions /\ Frame(c) = QuestionDone(q)
    BY <1>3, <2>1, FrameTypes, ReportIs
  <2>3. old \in Seq(Questions) /\ Distinct(old) /\ FrontCard(old, view.card)
    BY <1>0, <1>1 DEF CardDue
  <2>4. /\ left \in Seq(Questions) /\ Distinct(left)
        /\ \A y : Contains(left, y) => Contains(old, y) /\ y # q
        /\ old # <<>> /\ Head(old) # q => left # <<>> /\ Head(left) = Head(old)
    BY <2>3, WithoutKeeps
  <2>5. old = <<>> => left = <<>>
    BY DEF Without, Contains
  <2>6. Shown(old) = (IF old = <<>> THEN None ELSE Head(old))
        /\ Shown(left) = (IF left = <<>> THEN None ELSE Head(left))
    BY DEF Shown
  <2>7. view'.card = IF Shown(old) = q THEN Shown(left) ELSE IF view.card = q THEN None ELSE view.card
    BY <2>1 DEF Promoted
  <2>. HIDE DEF q, old, left
  <2>8. left # <<>> => old # <<>> /\ Head(left) \in Questions
    BY <2>4, <2>5
  <2>9. FrontCard(conn'.asks, view'.card)
    BY <2>1, <2>3, <2>4, <2>6, <2>7, <2>8 DEF FrontCard
  <2>10. \A x : QuestionDone(x) = Frame(c) => x = q
    BY <2>2, Words
  <2>11. \A x : x # q /\ Contains(toSrv[reg], QuestionDone(x)) => Contains(toSrv'[reg], QuestionDone(x))
    BY <1>3, <2>1, <2>10, ContainsTail
  <2>12. alive[reg] => \A p \in Procs : sock[p] = reg => Settles(conn'.asks, toSrv'[reg], asking[p])
    BY <1>4, <2>1, <2>4, <2>10 DEF old
  <2>13. alive[reg] => Due(conn'.asks, view'.card, toRun'[reg], toSrv'[reg])
    <3>1. alive[reg] => Due(old, view.card, toRun[reg], toSrv[reg])
      BY <1>0, <1>1, <1>3, <2>1 DEF CardDue, old
    <3>. QED  BY <1>1, <2>1, <2>2, <2>3, <2>4, <2>6, <2>7, <2>8, <2>11, <3>1 DEF Due, FrontCard
  <2>. QED  BY <1>3, <2>1, <2>4, <2>9, <2>12, <2>13 DEF CardDue
<1>10. CASE Stop
  <2>1. /\ UNCHANGED <<reg, alive, toSrv, sock, asking, view>> /\ conn'.asks = conn.asks
        /\ toRun' = toRun \/ toRun' = Push(toRun, reg, <<StopFrame>>)
    BY <1>1, <1>10 DEF Stop, Stopped, runnerVars, Claims
  <2>2. reg # None => toRun'[reg] = toRun[reg] \/ toRun'[reg] = toRun[reg] \o <<StopFrame>>
    BY <1>1, <2>1 DEF Push
  <2>3. reg # None => toRun[reg] \in Seq(Frames) /\ StopFrame \in Frames
    BY <1>1, WordTypes
  <2>4. reg # None => \A x : Contains(toRun[reg], x) => Contains(toRun'[reg], x)
    BY <2>2, <2>3, ContainsSaid
  <2>. QED  BY <2>1, <2>4, CardQuiet
<1>11. CASE AnswerCard
  <2>1. /\ UNCHANGED <<reg, conn, alive, toSrv, sock, asking>> /\ view'.card = None /\ view.card # None
        /\ SocketOpen => toRun' = Push(toRun, reg, <<Answer(view.card)>>)
    BY <1>1, <1>11 DEF AnswerCard, runnerVars, Views
  <2>2. ASSUME reg # None, alive[reg], conn.asks # <<>>
        PROVE  Contains(toRun'[reg], Answer(Head(conn.asks)))
    <3>1. SocketOpen /\ view.card = Head(conn.asks)
      BY <1>0, <2>1, <2>2 DEF CardInv, Registered, SocketOpen, CardDue, FrontCard
    <3>2. Answer(view.card) \in Frames
      BY <1>1, <2>1, WordTypes
    <3>3. toRun'[reg] = toRun[reg] \o <<Answer(view.card)>>
      BY <1>1, <2>1, <2>2, <3>1 DEF Push
    <3>4. toRun[reg] \in Seq(Frames)
      BY <1>1, <2>2
    <3>. QED  BY <3>1, <3>2, <3>3, <3>4, ContainsSaid
  <2>. QED  BY <1>0, <2>1, <2>2 DEF CardDue, FrontCard, Due
<1>12. CASE SessionFrame
  <2>1. UNCHANGED <<reg, conn, alive, toRun, toSrv, sock, asking>> /\ view'.card = Shown(conn.asks)
    BY <1>1, <1>12 DEF SessionFrame, wireVars, runnerVars, Views
  <2>2. conn.asks # <<>> => view'.card = Head(conn.asks) /\ view'.card # None
    BY <1>1, <2>1 DEF Shown
  <2>. QED  BY <1>0, <2>1, <2>2 DEF CardDue, FrontCard, Due
<1>13. ASSUME \/ GiveUp \/ Prune \/ QueueClear
              \/ \E m \in Msgs : Reject(m) \/ QueueCancel(m)
       PROVE  CardDue'
  <2>1. UNCHANGED <<reg, conn, view, alive, toRun, toSrv, sock, asking>>
    BY <1>13 DEF GiveUp, Prune, QueueClear, Reject, QueueCancel, Drop, serverVars,
       wireVars, runnerVars
  <2>. QED  BY <2>1, CardQuiet
<1>14. ASSUME NEW c \in Conns, RecvIgnored(c)
       PROVE  CardDue'
  <2>1. UNCHANGED <<reg, conn, view, alive, toRun, sock, asking>> /\ reg # c
        /\ toSrv' = [toSrv EXCEPT ![c] = Tail(@)]
    BY <1>14 DEF RecvIgnored, Pop, serverVars, runnerVars
  <2>2. reg # None => toSrv'[reg] = toSrv[reg]
    BY <1>1, <2>1
  <2>. QED  BY <2>1, <2>2, CardQuiet
<1>15. ASSUME reg' = None, conn' = NoTurn
       PROVE  CardDue'
  BY <1>15 DEF CardDue, NoTurn, Distinct, FrontCard
<1>16. ASSUME NEW c \in Conns, SocketLost(c) \/ SocketClosed(c)
       PROVE  CardDue'
  <2>1. CASE Teardown(c) /\ reg = c
    BY <1>15, <2>1 DEF Teardown
  <2>2. CASE Teardown(c) /\ reg # c
    <3>1. UNCHANGED <<reg, conn, view, alive, toRun, sock, asking>> /\ toSrv' = [toSrv EXCEPT ![c] = <<>>]
      BY <2>2 DEF Teardown, runnerVars
    <3>2. reg # None => toSrv'[reg] = toSrv[reg]
      BY <1>1, <2>2, <3>1
    <3>. QED  BY <3>1, <3>2, CardQuiet
  <2>3. CASE ~alive[c] /\ UNCHANGED <<serverVars, alive, toRun, runnerVars>>
             /\ toSrv' = [toSrv EXCEPT ![c] = <<>>]
    <3>1. UNCHANGED <<reg, conn, view, alive, toRun, sock, asking>>
      BY <2>3 DEF serverVars, runnerVars
    <3>2. CASE reg = c
      <4>1. toSrv'[reg] = <<>> /\ ~alive'[reg]
        BY <1>1, <2>3, <3>1, <3>2
      <4>. QED  BY <1>0, <3>1, <4>1 DEF CardDue, Early
    <3>3. CASE reg # c
      <4>1. reg # None => toSrv'[reg] = toSrv[reg]
        BY <1>1, <2>3, <3>3
      <4>. QED  BY <3>1, <4>1, CardQuiet
    <3>. QED  BY <3>2, <3>3
  <2>. QED  BY <1>16, <2>1, <2>2, <2>3 DEF SocketLost, SocketClosed
<1>17. CASE SweepDrop
  BY <1>15, <1>17 DEF SweepDrop
<1>. QED  BY <1>2, <1>5, <1>6, <1>7, <1>8, <1>9, <1>10, <1>11, <1>12, <1>13, <1>14, <1>16, <1>17
          DEF ClientStep, ServerStep, Deliver

-----------------------------------------------------------------------------
(* What a runner says *)

(* Frames that tell the server of a turn, or of none.                      *)
Raises(f) == f.t = "turn-start" \/ f = Hello(TRUE)
Lowers(f) == f.t = "turn-done" \/ f = Hello(FALSE)

(* p says the frames: only in a turn it asks, every question it no longer  *)
(* waits on is dismissed, and every answer it heard was to one it dismisses *)
(* or waits on no more.                                                    *)
Speaks(p, frames) ==
  /\ Emit(p, frames)
  /\ UNCHANGED <<reg, conn, view, alive, sock>>
  /\ \A r \in Procs : r # p => asking'[r] = asking[r] /\ turn'[r] = turn[r]
  /\ \A i \in DOMAIN frames :
       /\ frames[i].t # "hello"
       /\ frames[i].t = "question" => Contains(asking'[p], frames[i].by) /\ turn[p] # None
       /\ Lowers(frames[i]) => turn'[p] = None
  /\ \A q \in Questions : Contains(asking[p], q) => Contains(asking'[p], q) \/ Contains(frames, QuestionDone(q))
  /\ turn'[p] # None => turn[p] # None \/ \E f : frames = <<f>> /\ Raises(f)
  /\ (turn[p] = None => asking[p] = <<>>) => (turn'[p] = None => asking'[p] = <<>>)
  /\ \A c \in Conns, q \in Questions : Contains(toRun[c], Answer(q)) =>
       \/ Contains(toRun'[c], Answer(q))
       \/ sock[p] = c /\ (Contains(asking[p], q) => Contains(frames, QuestionDone(q)))

LEMMA DismissalsSay ==
  ASSUME Types, NEW p \in Procs
  PROVE  /\ Dismissals(p) \in Seq(Reports)
         /\ \A i \in DOMAIN Dismissals(p) : Dismissals(p)[i].t = "question-done"
         /\ \A q \in Questions : Contains(asking[p], q) => Contains(Dismissals(p), QuestionDone(q))
<1>1. asking[p] \in Seq(Questions) /\ Dismissals(p) \in Seq(Reports)
  BY RegisteredTypes, DismissalsType DEF Types
<1>2. \A i \in DOMAIN Dismissals(p) : Dismissals(p)[i].t = "question-done"
  BY Words DEF Dismissals
<1>3. /\ DOMAIN Dismissals(p) = DOMAIN asking[p] /\ DOMAIN asking[p] = 1 .. Len(asking[p])
      /\ \A i \in DOMAIN asking[p] : Dismissals(p)[i] = QuestionDone(asking[p][i])
  BY <1>1 DEF Dismissals
<1>4. DOMAIN Dismissals(p) = 1 .. Len(Dismissals(p))
  BY <1>1
<1>5. ASSUME NEW q \in Questions, Contains(asking[p], q)
      PROVE  Contains(Dismissals(p), QuestionDone(q))
  <2>1. PICK i \in DOMAIN asking[p] : asking[p][i] = q
    BY <1>3, <1>5 DEF Contains
  <2>2. i \in 1 .. Len(Dismissals(p)) /\ Dismissals(p)[i] = QuestionDone(q)
    BY <1>3, <1>4, <2>1
  <2>. QED  BY <2>2 DEF Contains
<1>. QED  BY <1>1, <1>2, <1>5

(* A frame read off a socket takes no other answer with it.                *)
LEMMA HeardAnswers ==
  ASSUME Types, NEW p \in Procs, NEW t, Hears(p, t), Heard(p)
  PROVE  /\ sock[p] \in Conns /\ Head(toRun[sock[p]]) \in Frames /\ Head(toRun[sock[p]]).t = t
         /\ \A c \in Conns : c # sock[p] => toRun'[c] = toRun[c]
         /\ \A c \in Conns, q \in Questions : Contains(toRun[c], Answer(q)) =>
              Contains(toRun'[c], Answer(q)) \/ (sock[p] = c /\ t = "answer" /\ Said(p) = q)
<1>1. /\ sock[p] \in Conns /\ toRun \in [Conns -> Seq(Frames)]
      /\ Head(toRun[sock[p]]) \in Frames /\ Head(toRun[sock[p]]).t = t
  BY RegisteredTypes, HeardType DEF Hears, Types
<1>2. toRun[sock[p]] # <<>> /\ toRun' = [toRun EXCEPT ![sock[p]] = Tail(@)]
  BY DEF Hears, Heard
<1>3. \A q \in Questions : Head(toRun[sock[p]]) = Answer(q) => t = "answer" /\ Said(p) = q
  BY <1>1, Words DEF Said
<1>4. ASSUME NEW c \in Conns, NEW q \in Questions, Contains(toRun[c], Answer(q)), c = sock[p]
      PROVE  Contains(toRun'[c], Answer(q)) \/ (t = "answer" /\ Said(p) = q)
  <2>1. toRun[c] \in Seq(Frames) /\ toRun[c] # <<>> /\ toRun'[c] = Tail(toRun[c])
    BY <1>1, <1>2, <1>4
  <2>. QED  BY <1>3, <1>4, <2>1, ContainsTail
<1>5. \A c \in Conns : c # sock[p] => toRun'[c] = toRun[c]
  BY <1>1, <1>2
<1>6. ASSUME NEW c \in Conns, NEW q \in Questions, Contains(toRun[c], Answer(q))
      PROVE  Contains(toRun'[c], Answer(q)) \/ (sock[p] = c /\ t = "answer" /\ Said(p) = q)
  <2>1. CASE c = sock[p]
    BY <1>4, <1>6, <2>1
  <2>2. CASE c # sock[p]
    BY <1>5, <1>6, <2>2
  <2>. QED  BY <2>1, <2>2
<1>. QED  BY <1>1, <1>5, <1>6

LEMMA RunnerSpeaks ==
  ASSUME Types, NEW p \in Procs,
         \/ HearStop(p) \/ HearAnswer(p) \/ StartTurn(p) \/ StartAutonomousTurn(p) \/ FinishTurn(p)
         \/ \E q \in Questions : Ask(p, q)
  PROVE  \E frames \in Seq(Reports) : Speaks(p, frames)
<1>1. /\ asking \in [Procs -> Seq(Questions)] /\ turn \in [Procs -> Msgs \cup {"auto", None}]
      /\ pend \in [Procs -> Seq(Msgs)] /\ toRun \in [Conns -> Seq(Frames)]
  BY RegisteredTypes
<1>2. \A f \in Reports : <<f>> \in Seq(Reports) /\ DOMAIN <<f>> = {1} /\ <<f>>[1] = f
  OBVIOUS
<1>3. <<>> \in Seq(Reports) /\ DOMAIN <<>> = {}
  OBVIOUS
<1>4. /\ \A q : ~Lowers(Question(q)) /\ ~Lowers(QuestionDone(q))
      /\ \A m : ~Lowers(TurnStart(m)) /\ Raises(TurnStart(m))
  <2>1. Hello(FALSE).t = "hello"
    BY DEF Hello
  <2>2. \A f : f.t \in {"turn-start", "question", "question-done"} => ~Lowers(f)
    BY <2>1 DEF Lowers
  <2>3. ASSUME NEW q
        PROVE  ~Lowers(Question(q)) /\ ~Lowers(QuestionDone(q))
    <3>1. Question(q).t = "question" /\ QuestionDone(q).t = "question-done"
      BY Words
    <3>. QED  BY <2>2, <3>1
  <2>4. ASSUME NEW m
        PROVE  ~Lowers(TurnStart(m)) /\ Raises(TurnStart(m))
    <3>1. TurnStart(m).t = "turn-start"
      BY Words
    <3>. QED  BY <2>2, <3>1 DEF Raises
  <2>. QED  BY <2>3, <2>4
<1>5. CASE HearStop(p) /\ turn[p] # None
  <2>1. /\ Emit(p, Dismissals(p)) /\ UNCHANGED <<reg, conn, view, alive, sock, turn>>
        /\ asking' = [asking EXCEPT ![p] = <<>>] /\ Hears(p, "stop") /\ Heard(p)
    BY <1>5 DEF HearStop, StopReply, serverVars
  <2>2. \A c \in Conns, q \in Questions : Contains(toRun[c], Answer(q)) => Contains(toRun'[c], Answer(q))
    BY <2>1, HeardAnswers
  <2>3. \A i \in DOMAIN Dismissals(p) : ~Lowers(Dismissals(p)[i]) /\ Dismissals(p)[i].t = "question-done"
    BY DismissalsSay, Words DEF Lowers
  <2>4. asking'[p] = <<>> /\ \A r \in Procs : r # p => asking'[r] = asking[r]
    BY <1>1, <2>1
  <2>. QED  BY <1>5, <2>1, <2>2, <2>3, <2>4, DismissalsSay DEF Speaks
<1>6. CASE HearStop(p) /\ turn[p] = None
  <2>1. /\ Emit(p, IF pend[p] # <<>> THEN <<TurnDone>> ELSE <<>>)
        /\ UNCHANGED <<reg, conn, view, alive, sock, turn>>
        /\ asking' = asking /\ Hears(p, "stop") /\ Heard(p)
    BY <1>1, <1>6 DEF HearStop, StopReply, serverVars
  <2>2. \A c \in Conns, q \in Questions : Contains(toRun[c], Answer(q)) => Contains(toRun'[c], Answer(q))
    BY <2>1, HeardAnswers
  <2>3. TurnDone \in Reports /\ TurnDone.t = "turn-done"
    BY WordTypes, Words
  <2>4. CASE pend[p] # <<>>
    <3>1. Emit(p, <<TurnDone>>)
      BY <2>1, <2>4
    <3>2. Speaks(p, <<TurnDone>>)
      BY <1>2, <1>6, <2>1, <2>2, <2>3, <3>1 DEF Speaks
    <3>. QED  BY <1>2, <2>3, <3>2
  <2>5. CASE pend[p] = <<>>
    <3>1. Emit(p, <<>>)
      BY <2>1, <2>5
    <3>2. Speaks(p, <<>>)
      BY <1>3, <1>6, <2>1, <2>2, <3>1 DEF Speaks
    <3>. QED  BY <1>3, <3>2
  <2>. QED  BY <2>4, <2>5
<1>7. CASE HearAnswer(p)
  <2>. DEFINE a == Said(p)
              frames == IF Contains(asking[p], a) THEN <<QuestionDone(a)>> ELSE <<>>
  <2>1. /\ Emit(p, frames) /\ UNCHANGED <<reg, conn, view, alive, sock, turn>>
        /\ asking' = [asking EXCEPT ![p] = Without(@, a)] /\ Hears(p, "answer") /\ Heard(p)
    BY <1>7 DEF HearAnswer, serverVars
  <2>2. a \in Questions
    BY <2>1, HeardAnswers, SaidTypes DEF Said
  <2>3. \A c \in Conns, q \in Questions : Contains(toRun[c], Answer(q)) =>
          Contains(toRun'[c], Answer(q)) \/ (sock[p] = c /\ a = q)
    BY <2>1, HeardAnswers
  <2>4. asking'[p] = Without(asking[p], a) /\ \A r \in Procs : r # p => asking'[r] = asking[r]
    BY <1>1, <2>1
  <2>. HIDE DEF a
  <2>5. CASE Contains(asking[p], a)
    <3>1. Emit(p, <<QuestionDone(a)>>) /\ QuestionDone(a) \in Reports /\ QuestionDone(a).t = "question-done"
      BY <2>1, <2>2, <2>5, WordTypes, Words
    <3>2. Contains(<<QuestionDone(a)>>, QuestionDone(a))
      BY DEF Contains
    <3>3. PICK k \in 1 .. Len(asking[p]) :
            /\ asking[p][k] = a /\ Len(asking'[p]) = Len(asking[p]) - 1 /\ asking'[p] \in Seq(Questions)
            /\ \A i \in 1 .. Len(asking[p]) - 1 :
                 asking'[p][i] = IF i < k THEN asking[p][i] ELSE asking[p][i + 1]
      BY <1>1, <2>4, <2>5, WithoutAt
    <3>4. ASSUME NEW q \in Questions, Contains(asking[p], q), q # a
          PROVE  Contains(asking'[p], q)
      <4>1. asking[p] \in Seq(Questions) /\ Len(asking[p]) \in Nat
        BY <1>1
      <4>2. PICK i \in 1 .. Len(asking[p]) : asking[p][i] = q
        BY <3>4, <4>1, ContainsAt
      <4>3. i # k
        BY <3>3, <3>4, <4>2
      <4>4. CASE i < k
        <5>1. i \in 1 .. Len(asking[p]) - 1 /\ asking'[p][i] = q
          BY <3>3, <4>1, <4>2, <4>4
        <5>. QED  BY <3>3, <5>1, ContainsAt
      <4>5. CASE i > k
        <5>1. i - 1 \in 1 .. Len(asking[p]) - 1 /\ asking'[p][i - 1] = q
          BY <3>3, <4>1, <4>2, <4>5
        <5>. QED  BY <3>3, <5>1, ContainsAt
      <4>. QED  BY <3>3, <4>1, <4>2, <4>3, <4>4, <4>5
    <3>5. \A q \in Questions : Contains(asking[p], q) =>
            Contains(asking'[p], q) \/ Contains(<<QuestionDone(a)>>, QuestionDone(q))
      BY <3>2, <3>4
    <3>6. asking[p] = <<>> => asking'[p] = <<>>
      BY <2>5 DEF Contains
    <3>7. Speaks(p, <<QuestionDone(a)>>)
      BY <1>2, <1>4, <2>1, <2>3, <2>4, <3>1, <3>2, <3>5, <3>6 DEF Speaks
    <3>. QED  BY <1>2, <3>1, <3>7
  <2>6. CASE ~Contains(asking[p], a)
    <3>1. Emit(p, <<>>) /\ asking'[p] = asking[p]
      BY <2>1, <2>4, <2>6 DEF Without
    <3>2. Speaks(p, <<>>)
      BY <1>3, <2>1, <2>3, <2>4, <2>6, <3>1 DEF Speaks
    <3>. QED  BY <1>3, <3>2
  <2>. QED  BY <2>5, <2>6
<1>8. ASSUME NEW m \in Msgs \cup {"auto"}, Emit(p, <<TurnStart(m)>>),
             UNCHANGED <<reg, conn, view, alive, sock, toRun, asking>>,
             turn' = [turn EXCEPT ![p] = m], turn[p] = None
      PROVE  \E frames \in Seq(Reports) : Speaks(p, frames)
  <2>1. TurnStart(m) \in Reports /\ TurnStart(m).t = "turn-start"
    BY WordTypes, Words
  <2>2. turn'[p] = m /\ \A r \in Procs : r # p => turn'[r] = turn[r]
    BY <1>1, <1>8
  <2>3. Speaks(p, <<TurnStart(m)>>)
    BY <1>2, <1>4, <1>8, <2>1, <2>2 DEF Speaks
  <2>. QED  BY <1>2, <2>1, <2>3
<1>9. CASE StartTurn(p)
  <2>1. Head(pend[p]) \in Msgs
    BY <1>1, <1>9 DEF StartTurn
  <2>. QED  BY <1>8, <1>9, <2>1 DEF StartTurn, serverVars
<1>10. CASE StartAutonomousTurn(p)
  BY <1>8, <1>10 DEF StartAutonomousTurn, serverVars
<1>11. ASSUME NEW q \in Questions, Ask(p, q)
       PROVE  \E frames \in Seq(Reports) : Speaks(p, frames)
  <2>1. /\ Emit(p, <<Question(q)>>) /\ UNCHANGED <<reg, conn, view, alive, sock, toRun, turn>>
        /\ asking' = [asking EXCEPT ![p] = Append(@, q)] /\ turn[p] # None
    BY <1>11 DEF Ask, serverVars
  <2>2. Question(q) \in Reports /\ Question(q).t = "question" /\ Question(q).by = q
    BY WordTypes, Words
  <2>3. /\ asking'[p] = Append(asking[p], q) /\ \A r \in Procs : r # p => asking'[r] = asking[r]
        /\ asking[p] \in Seq(Questions)
    BY <1>1, <2>1
  <2>4. \A x : Contains(asking'[p], x) <=> Contains(asking[p], x) \/ x = q
    BY <2>3, ContainsAppend
  <2>5. Speaks(p, <<Question(q)>>)
    BY <1>2, <1>4, <2>1, <2>2, <2>3, <2>4 DEF Speaks
  <2>. QED  BY <1>2, <2>2, <2>5
<1>12. CASE FinishTurn(p)
  <2>. DEFINE d == Dismissals(p)
              e == <<TurnDone>>
  <2>1. /\ Emit(p, d \o e) /\ UNCHANGED <<reg, conn, view, alive, sock, toRun>>
        /\ asking' = [asking EXCEPT ![p] = <<>>] /\ turn' = [turn EXCEPT ![p] = None]
    BY <1>12 DEF FinishTurn, serverVars
  <2>2. /\ asking'[p] = <<>> /\ turn'[p] = None
        /\ \A r \in Procs : r # p => asking'[r] = asking[r] /\ turn'[r] = turn[r]
    BY <1>1, <2>1
  <2>3. /\ d \in Seq(Reports) /\ e \in Seq(Reports)
        /\ \A i \in DOMAIN d : d[i].t = "question-done"
        /\ \A i \in DOMAIN e : e[i].t = "turn-done"
        /\ \A q \in Questions : Contains(asking[p], q) => Contains(d, QuestionDone(q))
    <3>1. TurnDone \in Reports /\ TurnDone.t = "turn-done"
      BY WordTypes, Words
    <3>. QED  BY <1>2, <3>1, DismissalsSay
  <2>. HIDE DEF d, e
  <2>4. d \o e \in Seq(Reports)
    BY <2>3, ConcatAt
  <2>5. ASSUME NEW i \in DOMAIN (d \o e)
        PROVE  (d \o e)[i].t \in {"question-done", "turn-done"}
    <3>1. CASE i \in DOMAIN d
      BY <2>3, <3>1, ConcatAt
    <3>2. CASE i \notin DOMAIN d
      <4>1. i - Len(d) \in DOMAIN e /\ (d \o e)[i] = e[i - Len(d)]
        BY <2>3, <2>5, <3>2, ConcatAt
      <4>. QED  BY <2>3, <4>1
    <3>. QED  BY <3>1, <3>2
  <2>6. \A q \in Questions : Contains(asking[p], q) => Contains(d \o e, QuestionDone(q))
    BY <2>3, ContainsConcat
  <2>7. \A i \in DOMAIN (d \o e) : (d \o e)[i].t # "hello" /\ (d \o e)[i].t # "question"
    BY <2>5
  <2>8. Speaks(p, d \o e)
    BY <2>1, <2>2, <2>6, <2>7 DEF Speaks
  <2>. QED  BY <2>4, <2>8
<1>. QED  BY <1>5, <1>6, <1>7, <1>9, <1>10, <1>11, <1>12

LEMMA CardSpoken ==
  ASSUME CardInv, NEW p \in Procs, NEW frames \in Seq(Reports), Speaks(p, frames)
  PROVE  CardDue'
<1>0. Types /\ CardDue /\ OneOwner
  BY DEF CardInv, Registered
<1>1. /\ reg \in Conns \cup {None} /\ None \notin Conns /\ conn.asks \in Seq(Questions)
      /\ toSrv \in [Conns -> Seq(Reports)] /\ toRun \in [Conns -> Seq(Frames)]
  BY <1>0, RegisteredTypes DEF Claims
<1>2. UNCHANGED <<reg, conn, view, alive, sock>>
  BY DEF Speaks
<1>3. CASE reg = None
  BY <1>0, <1>2, <1>3 DEF CardDue
<1>4. CASE reg # None
  <2>1. toSrv'[reg] = IF sock[p] = reg /\ alive[reg] THEN toSrv[reg] \o frames ELSE toSrv[reg]
    BY <1>0, <1>1, <1>4, EmitAt DEF Speaks
  <2>2. toSrv[reg] \in Seq(Reports) /\ Early(conn.asks, toSrv[reg])
    BY <1>0, <1>1, <1>4 DEF CardDue
  <2>3. Early(conn.asks, toSrv'[reg])
    <3>1. Early(conn.asks, toSrv[reg] \o frames)
      BY <2>2, EarlySaid DEF Speaks
    <3>. QED  BY <2>1, <2>2, <3>1
  <2>4. ASSUME alive[reg], NEW r \in Procs, sock[r] = reg
        PROVE  Settles(conn.asks, toSrv'[reg], asking'[r])
    <3>1. Settles(conn.asks, toSrv[reg], asking[r])
      BY <1>0, <1>4, <2>4 DEF CardDue
    <3>2. CASE sock[p] = reg
      <4>1. r = p /\ toSrv'[reg] = toSrv[reg] \o frames
        BY <1>0, <1>4, <2>1, <2>4, <3>2 DEF OneOwner
      <4>2. Settles(conn.asks, toSrv[reg] \o frames, asking'[p])
        BY <2>2, <3>1, <4>1, SettlesSaid DEF Speaks
      <4>. QED  BY <4>1, <4>2
    <3>3. CASE sock[p] # reg
      BY <2>1, <2>4, <3>1, <3>3 DEF Speaks
    <3>. QED  BY <3>2, <3>3
  <2>5. ASSUME alive[reg]
        PROVE  Due(conn.asks, view.card, toRun'[reg], toSrv'[reg])
    <3>1. SUFFICES ASSUME conn.asks # <<>>, view.card = None
                   PROVE  \/ Contains(toRun'[reg], Answer(Head(conn.asks)))
                          \/ Contains(toSrv'[reg], QuestionDone(Head(conn.asks)))
      BY DEF Due
    <3>. DEFINE h == Head(conn.asks)
    <3>2. h \in Questions /\ Contains(conn.asks, h)
      <4>1. Len(conn.asks) > 0 /\ h = conn.asks[1] /\ 1 \in 1 .. Len(conn.asks)
        BY <1>1, <3>1
      <4>. QED  BY <1>1, <3>1, <4>1, ContainsAt
    <3>. HIDE DEF h
    <3>3. Contains(toRun[reg], Answer(h)) \/ Contains(toSrv[reg], QuestionDone(h))
      BY <1>0, <1>4, <2>5, <3>1 DEF CardDue, Due, h
    <3>4. Contains(toSrv[reg], QuestionDone(h)) => Contains(toSrv'[reg], QuestionDone(h))
      BY <2>1, <2>2, ContainsConcat
    <3>5. ASSUME sock[p] = reg, Contains(asking[p], h) => Contains(frames, QuestionDone(h))
          PROVE  Contains(toSrv'[reg], QuestionDone(h))
      <4>1. Contains(asking[p], h) \/ Contains(toSrv[reg], QuestionDone(h))
        BY <1>0, <1>4, <2>5, <3>2, <3>5 DEF CardDue, Settles
      <4>2. toSrv'[reg] = toSrv[reg] \o frames
        BY <2>1, <2>5, <3>5
      <4>. QED  BY <2>2, <3>5, <4>1, <4>2, ContainsConcat
    <3>6. reg \in Conns
      BY <1>1, <1>4
    <3>. QED  BY <3>2, <3>3, <3>4, <3>5, <3>6 DEF Speaks, h
  <2>. QED  BY <1>0, <1>2, <2>3, <2>4, <2>5 DEF CardDue
<1>. QED  BY <1>3, <1>4

(* What a runner announces is what it waits on.                            *)
LEMMA AnnounceAt ==
  ASSUME Types, NEW p \in Procs
  PROVE  /\ Announce(p) \in Seq(Reports) /\ DOMAIN Announce(p) = 1 .. Len(asking[p]) + 1
         /\ Len(asking[p]) \in Nat /\ Announce(p)[1] = Hello(turn[p] # None)
         /\ \A i \in 1 .. Len(asking[p]) + 1 : i > 1 =>
              /\ i - 1 \in 1 .. Len(asking[p]) /\ Announce(p)[i] = Question(asking[p][i - 1])
<1>. DEFINE qs == [i \in DOMAIN asking[p] |-> Question(asking[p][i])]
            h == <<Hello(turn[p] # None)>>
<1>1. asking[p] \in Seq(Questions)
  BY RegisteredTypes
<1>2. qs \in Seq(Reports) /\ Len(qs) = Len(asking[p]) /\ DOMAIN qs = 1 .. Len(asking[p])
      /\ \A i \in 1 .. Len(asking[p]) : qs[i] = Question(asking[p][i])
  <2>1. \A i \in DOMAIN asking[p] : Question(asking[p][i]) \in Reports
    BY <1>1, WordTypes
  <2>. QED  BY <1>1, <2>1
<1>3. h \in Seq(Reports) /\ Len(h) = 1 /\ h[1] = Hello(turn[p] # None)
  <2>1. Hello(turn[p] # None) \in Reports
    BY WordTypes
  <2>. QED  BY <2>1
<1>4. Announce(p) = h \o qs
  BY DEF Announce
<1>. HIDE DEF qs, h
<1>5. /\ h \o qs \in Seq(Reports) /\ DOMAIN (h \o qs) = 1 .. 1 + Len(asking[p])
      /\ (h \o qs)[1] = h[1]
      /\ \A i \in 1 .. 1 + Len(asking[p]) : i > 1 => (h \o qs)[i] = qs[i - 1]
  <2>1. h \in Seq(Reports) /\ qs \in Seq(Reports)
    BY <1>2, <1>3
  <2>2. /\ h \o qs \in Seq(Reports) /\ DOMAIN (h \o qs) = 1 .. Len(h) + Len(qs)
        /\ \A i \in 1 .. Len(h) : (h \o qs)[i] = h[i]
        /\ \A i \in 1 .. Len(h) + Len(qs) : i > Len(h) => (h \o qs)[i] = qs[i - Len(h)]
    BY <2>1, ConcatAt
  <2>3. Len(h) = 1 /\ Len(qs) = Len(asking[p])
    BY <1>2, <1>3
  <2>4. 1 \in 1 .. 1
    OBVIOUS
  <2>. QED  BY <2>2, <2>3, <2>4
<1>6. Len(asking[p]) \in Nat
  BY <1>1
<1>7. \A i \in 1 .. 1 + Len(asking[p]) : i > 1 => i - 1 \in 1 .. Len(asking[p])
  BY <1>6
<1>8. 1 + Len(asking[p]) = Len(asking[p]) + 1
  BY <1>6
<1>. QED  BY <1>2, <1>3, <1>4, <1>5, <1>6, <1>7, <1>8

LEMMA CardRunner ==
  ASSUME CardInv, RunnerStep \/ FaultStep
  PROVE  CardDue'
<1>0. Types /\ CardDue /\ (reg = None => conn = NoTurn)
  BY DEF CardInv, Registered
<1>1. /\ reg \in Conns \cup {None} /\ None \notin Conns /\ asking \in [Procs -> Seq(Questions)]
      /\ sock \in [Procs -> Conns \cup {None}] /\ toRun \in [Conns -> Seq(Frames)]
      /\ alive \in [Conns -> BOOLEAN] /\ toSrv \in [Conns -> Seq(Reports)]
  BY <1>0, RegisteredTypes
<1>2. ASSUME NEW p \in Procs,
             \/ HearStop(p) \/ HearAnswer(p) \/ StartTurn(p) \/ StartAutonomousTurn(p)
             \/ FinishTurn(p) \/ \E q \in Questions : Ask(p, q)
      PROVE  CardDue'
  BY <1>0, <1>2, RunnerSpeaks, CardSpoken
<1>3. ASSUME NEW p \in Procs, HearSend(p)
      PROVE  CardDue'
  <2>1. UNCHANGED <<reg, conn, view, alive, toSrv, sock, asking>> /\ Hears(p, "send") /\ Heard(p)
    BY <1>3 DEF HearSend, serverVars
  <2>2. \A c \in Conns, q \in Questions : Contains(toRun[c], Answer(q)) => Contains(toRun'[c], Answer(q))
    BY <1>0, <2>1, HeardAnswers
  <2>. QED  BY <1>1, <2>1, <2>2, CardQuiet
<1>4. ASSUME NEW p \in Procs, Exit(p), \A c \in Conns : c # sock[p] => toRun'[c] = toRun[c],
             UNCHANGED toSrv
      PROVE  CardDue'
  <2>1. /\ UNCHANGED <<reg, conn, view>> /\ alive' = [c \in Conns |-> alive[c] /\ c # sock[p]]
        /\ sock' = [sock EXCEPT ![p] = None] /\ asking' = [asking EXCEPT ![p] = <<>>]
    BY <1>4 DEF Exit, serverVars
  <2>2. ASSUME reg # None, alive'[reg]
        PROVE  /\ alive[reg] /\ toRun'[reg] = toRun[reg]
               /\ \A r \in Procs : sock'[r] = reg => sock[r] = reg /\ asking'[r] = asking[r]
    BY <1>1, <1>4, <2>1, <2>2
  <2>. QED  BY <1>4, <2>1, <2>2, CardQuiet
<1>5. ASSUME NEW p \in Procs, HearDisplaced(p) \/ Crash(p)
      PROVE  CardDue'
  <2>1. Exit(p) /\ UNCHANGED toSrv /\ \A c \in Conns : c # sock[p] => toRun'[c] = toRun[c]
    BY <1>1, <1>5 DEF HearDisplaced, Heard, Crash
  <2>. QED  BY <1>4, <2>1
<1>6. ASSUME NEW p \in Procs, LoseSocket(p) \/ Spawn(p)
      PROVE  CardDue'
  <2>1. /\ UNCHANGED <<reg, conn, view, alive, toRun, toSrv, asking>>
        /\ sock' = [sock EXCEPT ![p] = None] \/ sock' = sock
    BY <1>6 DEF LoseSocket, Spawn, serverVars, wireVars
  <2>2. reg # None => \A r \in Procs : sock'[r] = reg => sock[r] = reg
    BY <1>1, <2>1
  <2>. QED  BY <2>1, <2>2, CardQuiet
<1>7. ASSUME NEW p \in Procs, NEW c \in Conns, Connect(p, c)
      PROVE  CardDue'
  <2>1. /\ reg' = c /\ conn' = NoTurn /\ sock' = [sock EXCEPT ![p] = c] /\ asking' = asking
        /\ toSrv'[c] = Announce(p) /\ \A r \in Procs : sock[r] # c
    BY <1>1, <1>7 DEF Connect
  <2>2. conn'.asks = <<>> /\ \A q : ~Contains(<<>>, q)
    BY <2>1 DEF NoTurn, Contains
  <2>3. Early(<<>>, Announce(p))
    <3>1. \A i \in DOMAIN Announce(p) : Announce(p)[i].t = "hello" => i = 1
      BY <1>0, AnnounceAt, Words
    <3>. QED  BY <3>1 DEF Early
  <2>4. Settles(<<>>, Announce(p), asking[p])
    <3>1. ASSUME NEW i \in DOMAIN Announce(p), Announce(p)[i].t = "question"
          PROVE  Contains(asking[p], Announce(p)[i].by)
      <4>1. i \in 1 .. Len(asking[p]) + 1 /\ i > 1
        BY <1>0, <3>1, AnnounceAt, Words
      <4>2. i - 1 \in 1 .. Len(asking[p]) /\ Announce(p)[i] = Question(asking[p][i - 1])
        BY <1>0, <4>1, AnnounceAt
      <4>3. Announce(p)[i].by = asking[p][i - 1]
        BY <4>2, Words
      <4>. QED  BY <1>1, <4>2, <4>3 DEF Contains
    <3>. QED  BY <2>2, <3>1 DEF Settles
  <2>5. \A r \in Procs : sock'[r] = c => r = p
    BY <1>1, <2>1
  <2>. QED  BY <2>1, <2>2, <2>3, <2>4, <2>5 DEF CardDue, Distinct, FrontCard, Due
<1>8. CASE ServerRestart
  BY <1>8 DEF ServerRestart, CardDue, NoTurn, Distinct, FrontCard
<1>9. ASSUME NEW c \in Conns, CutLink(c)
      PROVE  CardDue'
  <2>1. /\ UNCHANGED <<reg, conn, view, sock, asking>> /\ alive' = [alive EXCEPT ![c] = FALSE]
        /\ \E r \in Prefixes(toRun[c]), s \in Prefixes(toSrv[c]) :
             toRun' = [toRun EXCEPT ![c] = r] /\ toSrv' = [toSrv EXCEPT ![c] = s]
    BY <1>9 DEF CutLink, serverVars, runnerVars
  <2>2. CASE reg # c
    <3>1. reg # None => /\ toRun'[reg] = toRun[reg] /\ toSrv'[reg] = toSrv[reg]
                        /\ alive'[reg] = alive[reg]
      BY <1>1, <2>1, <2>2
    <3>. QED  BY <2>1, <3>1, CardQuiet
  <2>3. CASE reg = c
    <3>1. PICK s \in Prefixes(toSrv[c]) : toSrv'[c] = s
      BY <1>1, <2>1
    <3>2. ~alive'[c]
      BY <1>1, <2>1
    <3>3. \A i \in DOMAIN s : i \in DOMAIN toSrv[c] /\ s[i] = toSrv[c][i]
      <4>1. PICK n \in 0 .. Len(toSrv[c]) : s = [i \in 1 .. n |-> toSrv[c][i]]
        BY <3>1 DEF Prefixes
      <4>2. toSrv[c] \in Seq(Reports)
        BY <1>1
      <4>. QED  BY <4>1, <4>2
    <3>4. Early(conn.asks, toSrv[c])
      BY <1>0, <1>1, <2>3 DEF CardDue
    <3>5. Early(conn.asks, s)
      BY <3>3, <3>4 DEF Early
    <3>. QED  BY <1>0, <2>1, <2>3, <3>1, <3>2, <3>5 DEF CardDue
  <2>. QED  BY <2>2, <2>3
<1>. QED  BY <1>2, <1>3, <1>5, <1>6, <1>7, <1>8, <1>9 DEF RunnerStep, Hear, FaultStep

(* A connection has one owner: Connect takes one that nobody holds.        *)
LEMMA OwnerStep ==
  ASSUME Types, OneOwner, [Next]_vars
  PROVE  OneOwner'
<1>1. sock \in [Procs -> Conns \cup {None}] /\ None \notin Conns
  BY RegisteredTypes
<1>2. ASSUME NEW p \in Procs, NEW c \in Conns, Connect(p, c)
      PROVE  OneOwner'
  BY <1>1, <1>2 DEF Connect, OneOwner
<1>3. ASSUME sock' = sock \/ \E p \in Procs : sock' = [sock EXCEPT ![p] = None]
      PROVE  OneOwner'
  BY <1>1, <1>3 DEF OneOwner
<1>4. ASSUME NEW p \in Procs,
             \/ HearSend(p) \/ HearStop(p) \/ HearAnswer(p) \/ HearDisplaced(p) \/ StartTurn(p)
             \/ StartAutonomousTurn(p) \/ FinishTurn(p) \/ LoseSocket(p) \/ Spawn(p) \/ Crash(p)
             \/ \E q \in Questions : Ask(p, q)
      PROVE  sock' = sock \/ sock' = [sock EXCEPT ![p] = None]
  BY <1>4 DEF HearSend, HearStop, HearAnswer, HearDisplaced, StartTurn, StartAutonomousTurn,
     FinishTurn, LoseSocket, Spawn, Crash, Exit, Ask
<1>5. ASSUME UNCHANGED vars \/ AtRest \/ ClientStep \/ ServerStep \/ ServerRestart
             \/ \E c \in Conns : CutLink(c)
      PROVE  sock' = sock
  BY <1>5 DEF vars, AtRest, ClientStep, ServerStep, ServerRestart, CutLink, SendNow, Reject, Enqueue,
     QueueCancel, QueueClear, Drop, Stop, AnswerCard, SessionFrame, Deliver, RecvIgnored, RecvHello,
     RecvTurnStart, RecvTurnDone, RecvQuestion, RecvQuestionDone, SocketLost, SocketClosed, Teardown,
     SweepDrop, GiveUp, Prune, runnerVars
<1>. QED  BY <1>2, <1>3, <1>4, <1>5 DEF Next, RunnerStep, Hear, FaultStep

LEMMA CardStep == CardInv /\ [Next]_vars => CardInv'
<1>. SUFFICES ASSUME CardInv, [Next]_vars
              PROVE  CardDue' /\ OneOwner'
  BY RegisteredStep DEF CardInv
<1>1. OneOwner'
  BY OwnerStep DEF CardInv, Registered
<1>2. CASE UNCHANGED vars \/ AtRest
  <2>1. UNCHANGED <<reg, conn, view, alive, toRun, toSrv, sock, asking>>
    BY <1>2 DEF AtRest, vars, serverVars, wireVars, runnerVars
  <2>. QED  BY <1>1, <2>1, CardQuiet
<1>. QED  BY <1>1, <1>2, CardServer, CardRunner DEF Next

LEMMA CardInvariant == Spec => []CardInv
<1>1. Init => CardInv
  <2>1. SUFFICES ASSUME Init
                 PROVE  OneOwner /\ CardDue
    BY RegisteredInit DEF CardInv
  <2>2. reg = None /\ conn.asks = <<>> /\ sock = [p \in Procs |-> None]
    BY <2>1 DEF Init, NoTurn
  <2>. QED  BY <2>2 DEF OneOwner, CardDue, Distinct, FrontCard
<1>. QED  BY <1>1, CardStep, PTL DEF Spec

(* A held question whose card is gone is being answered or its socket is   *)
(* dying (the question handlers of ws.ts, answerQuestion of the runner).   *)
THEOREM CardKept == Spec => []CardNeverLost
<1>1. CardInv => CardNeverLost
  <2>1. CardInv /\ reg = None => conn.asks = <<>>
    BY DEF CardInv, Registered, NoTurn
  <2>. QED  BY <2>1 DEF CardInv, CardDue, Due, CardNeverLost
<1>. QED  BY <1>1, CardInvariant, PTL

-----------------------------------------------------------------------------
(* The front question *)

(* A server that had a turn running (a) still has one running when it has  *)
(* read of w all that comes before the i-th word.                          *)
Active(a, w, i) ==
  \/ a /\ \A k \in DOMAIN w : k < i => ~Lowers(w[k])
  \/ \E j \in DOMAIN w : /\ j < i /\ Raises(w[j])
                         /\ \A k \in DOMAIN w : j < k /\ k < i => ~Lowers(w[k])

(* Every question of w is read while a turn runs; one runs at its end.     *)
Timely(a, w) == \A i \in DOMAIN w : w[i].t = "question" => Active(a, w, i)
Ends(a, w)   == Active(a, w, Len(w) + 1)

(* What the record of a connection and the view of the pane owe each other, *)
(* and what the turn of a runner owes its questions and its words.         *)
Turned(asks, active, blocked, card) ==
  /\ asks # <<>> => active
  /\ blocked <=> asks # <<>>
  /\ asks = <<>> => card = None

TurnDue ==
  /\ \A p \in Procs : turn[p] = None => asking[p] = <<>>
  /\ Turned(conn.asks, conn.active, view.blocked, view.card)
  /\ reg # None => Timely(conn.active, toSrv[reg])
  /\ reg # None /\ alive[reg] =>
       \A p \in Procs : sock[p] = reg /\ turn[p] # None => Ends(conn.active, toSrv[reg])

FrontInv == CardInv /\ ClaimInv /\ TurnDue

LEMMA Signals ==
  ASSUME NEW f \in Reports
  PROVE  /\ f.t = "hello" => (Raises(f) <=> f.by = TRUE) /\ (Lowers(f) <=> f.by = FALSE)
         /\ f.t = "turn-start" => Raises(f) /\ ~Lowers(f)
         /\ f.t = "turn-done" => Lowers(f) /\ ~Raises(f)
         /\ f.t \in {"question", "question-done"} => ~Raises(f) /\ ~Lowers(f)
BY DEF Reports, Raises, Lowers, Hello, TurnDone

(* A running turn is forgotten no sooner than before.                      *)
LEMMA ActiveMore ==
  ASSUME NEW a \in BOOLEAN, NEW b \in BOOLEAN, NEW w, a => b
  PROVE  /\ \A i : Active(a, w, i) => Active(b, w, i)
         /\ Timely(a, w) => Timely(b, w)
         /\ Ends(a, w) => Ends(b, w)
BY DEF Active, Timely, Ends

(* The first word of w is read.                                            *)
LEMMA ActiveTail ==
  ASSUME NEW w \in Seq(Reports), w # <<>>, NEW a \in BOOLEAN, NEW b \in BOOLEAN,
         Raises(Head(w)) => b, a /\ ~Lowers(Head(w)) => b,
         NEW i \in 2 .. Len(w) + 1, Active(a, w, i)
  PROVE  Active(b, Tail(w), i - 1)
<1>. DEFINE t == Tail(w)
            n == Len(w)
<1>1. /\ n \in Nat /\ n > 0 /\ Head(w) = w[1] /\ DOMAIN w = 1 .. n /\ DOMAIN t = 1 .. n - 1
      /\ \A k \in 1 .. n - 1 : t[k] = w[k + 1]
  BY TailAt
<1>. HIDE DEF t, n
<1>2. i \in 2 .. n + 1 /\ 1 \in 1 .. n /\ 1 < i
  BY <1>1 DEF n
<1>3. \A k \in 1 .. n - 1 : k + 1 \in 1 .. n /\ (k < i - 1 => k + 1 < i)
  BY <1>1, <1>2
<1>4. CASE a /\ \A k \in 1 .. n : k < i => ~Lowers(w[k])
  <2>1. b
    BY <1>1, <1>2, <1>4
  <2>2. \A k \in 1 .. n - 1 : k < i - 1 => ~Lowers(t[k])
    BY <1>1, <1>3, <1>4
  <2>. QED  BY <1>1, <2>1, <2>2 DEF Active, t
<1>5. ASSUME NEW j \in 1 .. n, j < i, Raises(w[j]),
             \A k \in 1 .. n : j < k /\ k < i => ~Lowers(w[k])
      PROVE  Active(b, t, i - 1)
  <2>1. \A k \in 1 .. n - 1 : j < k + 1 /\ k < i - 1 => ~Lowers(t[k])
    BY <1>1, <1>3, <1>5
  <2>2. CASE j = 1
    <3>1. \A k \in 1 .. n - 1 : k < i - 1 => ~Lowers(t[k])
      BY <1>1, <2>1, <2>2
    <3>. QED  BY <1>1, <1>5, <2>2, <3>1 DEF Active
  <2>3. CASE j # 1
    <3>1. j - 1 \in 1 .. n - 1 /\ j - 1 < i - 1 /\ t[j - 1] = w[j]
      BY <1>1, <1>2, <1>5, <2>3
    <3>2. \A k \in 1 .. n - 1 : j - 1 < k /\ k < i - 1 => ~Lowers(t[k])
      BY <1>1, <2>1
    <3>. QED  BY <1>1, <1>5, <3>1, <3>2 DEF Active
  <2>. QED  BY <2>2, <2>3
<1>. QED  BY <1>1, <1>4, <1>5 DEF Active, t

LEMMA TimelyTail ==
  ASSUME NEW w \in Seq(Reports), w # <<>>, NEW a \in BOOLEAN, NEW b \in BOOLEAN,
         Raises(Head(w)) => b, a /\ ~Lowers(Head(w)) => b, Timely(a, w)
  PROVE  /\ Timely(b, Tail(w))
         /\ Ends(a, w) => Ends(b, Tail(w))
<1>. DEFINE t == Tail(w)
            n == Len(w)
<1>1. /\ n \in Nat /\ n > 0 /\ DOMAIN w = 1 .. n /\ DOMAIN t = 1 .. n - 1 /\ Len(t) = n - 1
      /\ \A k \in 1 .. n - 1 : t[k] = w[k + 1]
  BY TailAt
<1>2. \A i \in 2 .. n + 1 : Active(a, w, i) => Active(b, t, i - 1)
  BY ActiveTail
<1>. HIDE DEF t, n
<1>3. ASSUME NEW i \in 1 .. n - 1, t[i].t = "question"
      PROVE  Active(b, t, i)
  <2>1. i + 1 \in 1 .. n /\ i + 1 \in 2 .. n + 1 /\ w[i + 1].t = "question" /\ i + 1 - 1 = i
    BY <1>1, <1>3
  <2>2. Active(a, w, i + 1)
    BY <1>1, <2>1 DEF Timely
  <2>3. Active(b, t, i + 1 - 1)
    BY <1>2, <2>1, <2>2
  <2>. QED  BY <2>1, <2>3
<1>4. ASSUME Active(a, w, n + 1)
      PROVE  Active(b, t, n)
  <2>1. PICK i \in 2 .. n + 1 : i = n + 1
    BY <1>1
  <2>2. Active(b, t, i - 1) /\ i - 1 = n
    BY <1>1, <1>2, <1>4, <2>1
  <2>. QED  BY <2>2
<1>5. Len(t) + 1 = n
  BY <1>1
<1>. QED  BY <1>1, <1>3, <1>4, <1>5 DEF Timely, Ends, t, n

(* A suffix of what was said is lost.                                      *)
LEMMA TimelyPrefix ==
  ASSUME NEW w \in Seq(Reports), NEW s \in Prefixes(w), NEW a \in BOOLEAN, Timely(a, w)
  PROVE  Timely(a, s)
<1>1. PICK n \in 0 .. Len(w) : s = [i \in 1 .. n |-> w[i]]
  BY DEF Prefixes
<1>2. DOMAIN w = 1 .. Len(w) /\ DOMAIN s = 1 .. n /\ Len(w) \in Nat
  BY <1>1
<1>3. \A k \in 1 .. n : k \in 1 .. Len(w) /\ s[k] = w[k]
  BY <1>1, <1>2
<1>4. ASSUME NEW i \in 1 .. n, w[i].t = "question"
      PROVE  Active(a, s, i)
  <2>1. Active(a, w, i)
    BY <1>2, <1>3, <1>4 DEF Timely
  <2>2. CASE a /\ \A k \in DOMAIN w : k < i => ~Lowers(w[k])
    BY <1>2, <1>3, <2>2 DEF Active
  <2>3. ASSUME NEW j \in DOMAIN w, j < i, Raises(w[j]),
               \A k \in DOMAIN w : j < k /\ k < i => ~Lowers(w[k])
        PROVE  Active(a, s, i)
    <3>1. j \in 1 .. n
      BY <1>2, <1>4, <2>3
    <3>. QED  BY <1>2, <1>3, <2>3, <3>1 DEF Active
  <2>. QED  BY <2>1, <2>2, <2>3 DEF Active
<1>. QED  BY <1>2, <1>3, <1>4 DEF Timely

(* The words behind w do not change what it said.                          *)
LEMMA ActiveConcat ==
  ASSUME NEW w \in Seq(Reports), NEW f \in Seq(Reports), NEW a \in BOOLEAN
  PROVE  /\ \A i \in 1 .. Len(w) : Active(a, w, i) => Active(a, w \o f, i)
         /\ Ends(a, w) => \A i \in 1 .. Len(f) + 1 :
              (\A k \in 1 .. Len(f) : k < i => ~Lowers(f[k])) => Active(a, w \o f, Len(w) + i)
<1>. DEFINE v == w \o f
            n == Len(w)
            m == Len(f)
<1>1. /\ n \in Nat /\ m \in Nat /\ DOMAIN w = 1 .. n /\ DOMAIN v = 1 .. n + m
      /\ \A i \in 1 .. n : v[i] = w[i]
      /\ \A i \in 1 .. n + m : i > n => v[i] = f[i - n]
  BY ConcatAt
<1>. HIDE DEF v, n, m
<1>2. \A k \in 1 .. n : k \in 1 .. n + m
  BY <1>1
<1>3. ASSUME NEW i \in 1 .. n, Active(a, w, i)
      PROVE  Active(a, v, i)
  <2>1. \A k \in 1 .. n + m : k < i => k \in 1 .. n
    BY <1>1
  <2>2. CASE a /\ \A k \in 1 .. n : k < i => ~Lowers(w[k])
    BY <1>1, <2>1, <2>2 DEF Active
  <2>3. ASSUME NEW j \in 1 .. n, j < i, Raises(w[j]),
               \A k \in 1 .. n : j < k /\ k < i => ~Lowers(w[k])
        PROVE  Active(a, v, i)
    BY <1>1, <1>2, <2>1, <2>3 DEF Active
  <2>. QED  BY <1>1, <1>3, <2>2, <2>3 DEF Active
<1>4. ASSUME Active(a, w, n + 1), NEW i \in 1 .. m + 1, \A k \in 1 .. m : k < i => ~Lowers(f[k])
      PROVE  Active(a, v, n + i)
  <2>1. \A k \in 1 .. n : k < n + 1 /\ k < n + i
    BY <1>1
  <2>2. ASSUME NEW k \in 1 .. n + m, k < n + i, k \notin 1 .. n
        PROVE  ~Lowers(v[k])
    <3>1. k > n /\ k - n \in 1 .. m /\ k - n < i
      BY <1>1, <2>2
    <3>. QED  BY <1>1, <1>4, <3>1
  <2>3. CASE a /\ \A k \in 1 .. n : k < n + 1 => ~Lowers(w[k])
    <3>1. \A k \in 1 .. n + m : k < n + i => ~Lowers(v[k])
      BY <1>1, <2>1, <2>2, <2>3
    <3>. QED  BY <1>1, <2>3, <3>1 DEF Active
  <2>4. ASSUME NEW j \in 1 .. n, Raises(w[j]),
               \A k \in 1 .. n : j < k /\ k < n + 1 => ~Lowers(w[k])
        PROVE  Active(a, v, n + i)
    <3>1. \A k \in 1 .. n + m : j < k /\ k < n + i => ~Lowers(v[k])
      BY <1>1, <2>1, <2>2, <2>4
    <3>. QED  BY <1>1, <1>2, <2>1, <2>4, <3>1 DEF Active
  <2>. QED  BY <1>1, <1>4, <2>3, <2>4 DEF Active
<1>. QED  BY <1>3, <1>4 DEF Ends, v, n, m

(* A step that leaves the record, the turns and what is said alone.        *)
LEMMA TurnQuiet ==
  ASSUME TurnDue, reg' = reg, conn'.asks = conn.asks, conn'.active = conn.active,
         view'.blocked = view.blocked, view'.card = view.card \/ view'.card = None,
         reg # None => toSrv'[reg] = toSrv[reg],
         \A p \in Procs : turn'[p] = None => asking'[p] = <<>>,
         reg # None /\ alive'[reg] =>
           /\ alive[reg]
           /\ \A p \in Procs : sock'[p] = reg /\ turn'[p] # None => sock[p] = reg /\ turn[p] # None
  PROVE  TurnDue'
<1>1. Turned(conn'.asks, conn'.active, view'.blocked, view'.card)
  BY DEF TurnDue, Turned
<1>. QED  BY <1>1 DEF TurnDue

(* Nothing is registered any more.                                         *)
LEMMA TurnCleared ==
  ASSUME TurnDue, reg' = None, conn' = NoTurn, ~view'.blocked, view'.card = None,
         UNCHANGED <<turn, asking>>
  PROVE  TurnDue'
<1>1. Turned(conn'.asks, conn'.active, view'.blocked, view'.card)
  BY DEF Turned, NoTurn
<1>. QED  BY <1>1 DEF TurnDue

(* The record and the view a handler leaves to the drain.                  *)
LEMMA TurnOutcome ==
  ASSUME Types, TurnDue, reg # None => SocketOpen, NEW c \in Claims, NEW v \in Views, Outcome(c, v),
         UNCHANGED <<alive, sock, turn, asking>>, Turned(c.asks, c.active, v.blocked, v.card),
         reg # None =>
           /\ Timely(c.active, toSrv'[reg])
           /\ alive[reg] => \A p \in Procs : sock[p] = reg /\ turn[p] # None => Ends(c.active, toSrv'[reg])
  PROVE  TurnDue'
<1>1. CASE conn' = c /\ view' = v /\ UNCHANGED reg
  BY <1>1 DEF TurnDue
<1>2. ASSUME NEW m \in Msgs, SocketOpen, UNCHANGED reg, Relay(c, v, m)
      PROVE  TurnDue'
  <2>1. /\ conn'.asks = c.asks /\ conn'.active = TRUE
        /\ view'.blocked = v.blocked /\ view'.card = v.card
    BY <1>2 DEF Relay, Claims, Views
  <2>2. Turned(conn'.asks, conn'.active, view'.blocked, view'.card)
    BY <2>1 DEF Turned
  <2>3. c.active \in BOOLEAN
    BY DEF Claims
  <2>4. \A w : (Timely(c.active, w) => Timely(TRUE, w)) /\ (Ends(c.active, w) => Ends(TRUE, w))
    BY <2>3, ActiveMore
  <2>. QED  BY <1>2, <2>1, <2>2, <2>4 DEF TurnDue
<1>. QED  BY <1>1, <1>2 DEF Outcome

LEMMA TurnServer ==
  ASSUME ~Lingering, FrontInv, ClientStep \/ ServerStep
  PROVE  TurnDue'
<1>0. Types /\ CardDue /\ TurnDue /\ Registered /\ (reg # None => SocketOpen)
  BY DEF FrontInv, CardInv, Registered, ClaimInv, SocketOpen
<1>1. /\ reg \in Conns \cup {None} /\ None \notin Conns /\ conn \in Claims /\ view \in Views
      /\ toSrv \in [Conns -> Seq(Reports)] /\ conn.asks \in Seq(Questions)
      /\ conn.active \in BOOLEAN /\ view.blocked \in BOOLEAN
      /\ view.card \in Questions \cup {None} /\ None \notin Questions
  BY <1>0, RegisteredTypes DEF Claims, Views
<1>2. Turned(conn.asks, conn.active, view.blocked, view.card)
  BY <1>0 DEF TurnDue
<1>3. ASSUME NEW m \in Msgs, SendNow(m) \/ Enqueue(m)
      PROVE  TurnDue'
  <2>1. Outcome(conn, view) /\ UNCHANGED <<alive, toSrv, sock, turn, asking>>
    BY <1>0, <1>3, SubmitOutcome DEF runnerVars
  <2>. QED  BY <1>0, <1>1, <1>2, <2>1, TurnOutcome DEF TurnDue
(* A frame is read: what a server that knows of a turn (b) still awaits. *)
<1>4. ASSUME NEW c \in Conns, NEW t, Receive(c, t)
      PROVE  /\ reg = c /\ toSrv[reg] \in Seq(Reports) /\ toSrv[reg] # <<>>
             /\ Frame(c) \in Reports /\ Frame(c).t = t /\ Frame(c) = Head(toSrv[reg])
             /\ Frame(c) = toSrv[reg][1] /\ 1 \in DOMAIN toSrv[reg] /\ toSrv'[reg] = Tail(toSrv[reg])
  <2>1. /\ reg = c /\ toSrv[reg] \in Seq(Reports) /\ toSrv[reg] # <<>>
        /\ Frame(c) = Head(toSrv[reg]) /\ Frame(c).t = t /\ Frame(c) \in Reports
        /\ toSrv'[reg] = Tail(toSrv[reg])
    BY <1>0, <1>4, ReceiveTakes
  <2>. QED  BY <2>1
<1>5. ASSUME NEW c \in Conns, NEW t, Receive(c, t), NEW b \in BOOLEAN,
             Raises(Frame(c)) => b, conn.active /\ ~Lowers(Frame(c)) => b
      PROVE  /\ Timely(b, toSrv'[reg])
             /\ alive[reg] => \A p \in Procs : sock[p] = reg /\ turn[p] # None => Ends(b, toSrv'[reg])
  <2>1. Timely(conn.active, toSrv[reg])
    BY <1>0, <1>1, <1>4, <1>5 DEF TurnDue
  <2>2. Timely(b, toSrv'[reg]) /\ (Ends(conn.active, toSrv[reg]) => Ends(b, toSrv'[reg]))
    BY <1>1, <1>4, <1>5, <2>1, TimelyTail
  <2>3. reg # None
    BY <1>1, <1>4, <1>5
  <2>. QED  BY <1>0, <2>2, <2>3 DEF TurnDue
<1>6. ASSUME NEW c \in Conns, RecvHello(c)
      PROVE  TurnDue'
  <2>1. /\ Outcome(GreetedConn(c), GreetedView(c)) /\ UNCHANGED <<alive, sock, turn, asking>>
        /\ Receive(c, "hello")
    BY <1>0, <1>6, HelloOutcome DEF runnerVars
  <2>2. Frame(c).by \in BOOLEAN /\ reg # None
    BY <1>1, <1>4, <2>1, FrameTypes
  <2>3. conn.asks = <<>>
    <3>1. 1 \in DOMAIN toSrv[reg] /\ toSrv[reg][1].t = "hello"
      BY <1>4, <2>1
    <3>. QED  BY <1>0, <2>2, <3>1 DEF CardDue, Early
  <2>4. /\ GreetedConn(c) \in Claims /\ GreetedView(c) \in Views
        /\ GreetedConn(c).asks = <<>> /\ GreetedConn(c).active = Frame(c).by
        /\ GreetedView(c).card = None /\ GreetedView(c).blocked = view.blocked
    BY <1>1, <2>2, <2>3 DEF GreetedConn, GreetedView, Claims, Views, Shown
  <2>5. (Raises(Frame(c)) => Frame(c).by) /\ (conn.active /\ ~Lowers(Frame(c)) => Frame(c).by)
    BY <1>4, <2>1, <2>2, Signals
  <2>6. /\ Timely(Frame(c).by, toSrv'[reg])
        /\ alive[reg] => \A p \in Procs : sock[p] = reg /\ turn[p] # None => Ends(Frame(c).by, toSrv'[reg])
    BY <1>5, <2>1, <2>2, <2>5
  <2>7. Turned(<<>>, Frame(c).by, view.blocked, None)
    BY <1>2, <2>3 DEF Turned
  <2>. QED  BY <1>0, <2>1, <2>4, <2>6, <2>7, TurnOutcome
<1>7. ASSUME NEW c \in Conns, RecvTurnDone(c)
      PROVE  TurnDue'
  <2>1. /\ Outcome(TurnOver(conn), IdleView) /\ UNCHANGED <<alive, sock, turn, asking>>
        /\ Receive(c, "turn-done")
    BY <1>0, <1>7, TurnDoneOutcome DEF runnerVars
  <2>2. /\ TurnOver(conn) \in Claims /\ IdleView \in Views
        /\ TurnOver(conn).asks = <<>> /\ TurnOver(conn).active = FALSE
        /\ IdleView.card = None /\ IdleView.blocked = FALSE
    BY <1>1, TurnOverType DEF TurnOver, IdleView, Claims, Views
  <2>3. ~Raises(Frame(c)) /\ Lowers(Frame(c))
    BY <1>4, <2>1, Signals
  <2>4. /\ Timely(FALSE, toSrv'[reg])
        /\ alive[reg] => \A p \in Procs : sock[p] = reg /\ turn[p] # None => Ends(FALSE, toSrv'[reg])
    BY <1>5, <2>1, <2>3
  <2>5. Turned(<<>>, FALSE, FALSE, None)
    BY DEF Turned
  <2>. QED  BY <1>0, <2>1, <2>2, <2>4, <2>5, TurnOutcome
(* The other reports: no drain follows. *)
<1>8. ASSUME NEW c \in Conns, NEW t, Receive(c, t), UNCHANGED <<reg, alive, sock, turn, asking>>,
             Raises(Frame(c)) => conn'.active, conn.active /\ ~Lowers(Frame(c)) => conn'.active,
             conn'.active \in BOOLEAN,
             Turned(conn'.asks, conn'.active, view'.blocked, view'.card)
      PROVE  TurnDue'
  <2>1. /\ Timely(conn'.active, toSrv'[reg])
        /\ alive[reg] => \A p \in Procs : sock[p] = reg /\ turn[p] # None => Ends(conn'.active, toSrv'[reg])
    BY <1>5, <1>8
  <2>. QED  BY <1>0, <1>8, <2>1 DEF TurnDue
<1>9. ASSUME NEW c \in Conns, RecvTurnStart(c)
      PROVE  TurnDue'
  <2>1. /\ UNCHANGED <<reg, alive, sock, turn, asking>> /\ conn'.asks = conn.asks /\ conn'.active = TRUE
        /\ view'.card = view.card /\ view'.blocked = view.blocked /\ Receive(c, "turn-start")
    BY <1>1, <1>9 DEF RecvTurnStart, runnerVars, Claims, Views
  <2>2. Turned(conn'.asks, conn'.active, view'.blocked, view'.card)
    BY <1>2, <2>1 DEF Turned
  <2>. QED  BY <1>8, <2>1, <2>2
<1>10. ASSUME NEW c \in Conns, RecvQuestion(c)
       PROVE  TurnDue'
  <2>1. /\ UNCHANGED <<reg, alive, sock, turn, asking>> /\ conn'.asks = Held(conn.asks, Frame(c).by)
        /\ conn'.active = conn.active /\ view'.blocked = TRUE /\ Receive(c, "question")
    BY <1>1, <1>10 DEF RecvQuestion, runnerVars, Claims, Views
  <2>2. Frame(c).by \in Questions /\ ~Raises(Frame(c)) /\ reg # None
    BY <1>1, <1>4, <2>1, FrameTypes, Signals
  <2>3. conn.active
    <3>1. toSrv[reg][1].t = "question" /\ 1 \in DOMAIN toSrv[reg] /\ Timely(conn.active, toSrv[reg])
      BY <1>0, <1>4, <2>1, <2>2 DEF TurnDue
    <3>2. Active(conn.active, toSrv[reg], 1) /\ \A j \in DOMAIN toSrv[reg] : ~(j < 1)
      BY <1>4, <2>1, <3>1 DEF Timely
    <3>. QED  BY <3>2 DEF Active
  <2>4. Held(conn.asks, Frame(c).by) # <<>>
    BY <1>0, <1>1, <2>2, HeldKeeps DEF CardDue
  <2>5. Turned(conn'.asks, conn'.active, view'.blocked, view'.card)
    BY <2>1, <2>3, <2>4 DEF Turned
  <2>. QED  BY <1>1, <1>8, <2>1, <2>2, <2>5
<1>11. ASSUME NEW c \in Conns, RecvQuestionDone(c)
       PROVE  TurnDue'
  <2>. DEFINE q == Frame(c).by
              old == conn.asks
              left == Without(old, q)
  <2>1. /\ UNCHANGED <<reg, alive, sock, turn, asking>> /\ conn'.asks = left
        /\ conn'.active = conn.active /\ Receive(c, "question-done")
        /\ view'.blocked = (IF left = <<>> THEN FALSE ELSE view.blocked) /\ view'.card = Promoted(q)
    BY <1>1, <1>11 DEF RecvQuestionDone, runnerVars, Claims, Views
  <2>2. q \in Questions /\ ~Raises(Frame(c)) /\ reg # None
    BY <1>1, <1>4, <2>1, FrameTypes, Signals
  <2>3. old \in Seq(Questions) /\ Distinct(old) /\ FrontCard(old, view.card)
    BY <1>0, <1>1 DEF CardDue
  <2>4. old # <<>> /\ Head(old) # q => left # <<>>
    BY <2>3, WithoutKeeps
  <2>5. old = <<>> => left = <<>>
    BY DEF Without, Contains
  <2>6. Shown(old) = (IF old = <<>> THEN None ELSE Head(old))
        /\ Shown(left) = (IF left = <<>> THEN None ELSE Head(left))
    BY DEF Shown
  <2>7. view'.card = IF Shown(old) = q THEN Shown(left) ELSE IF view.card = q THEN None ELSE view.card
    BY <2>1 DEF Promoted
  <2>8. Turned(old, conn.active, view.blocked, view.card)
    BY <1>2
  <2>9. Turned(conn'.asks, conn'.active, view'.blocked, view'.card)
    <3>. HIDE DEF q, old, left
    <3>. QED  BY <2>1, <2>3, <2>4, <2>5, <2>6, <2>7, <2>8 DEF Turned, FrontCard
  <2>. QED  BY <1>1, <1>8, <2>1, <2>2, <2>9
<1>12. CASE Stop
  <2>1. /\ UNCHANGED <<reg, alive, toSrv, sock, turn, asking, view>>
        /\ conn'.asks = conn.asks /\ conn'.active = conn.active
    BY <1>1, <1>12 DEF Stop, Stopped, runnerVars, Claims
  <2>. QED  BY <1>0, <2>1, TurnQuiet DEF TurnDue
<1>13. CASE AnswerCard
  <2>1. /\ UNCHANGED <<reg, conn, alive, toSrv, sock, turn, asking>>
        /\ view'.card = None /\ view'.blocked = view.blocked
    BY <1>1, <1>13 DEF AnswerCard, runnerVars, Views
  <2>. QED  BY <1>0, <2>1, TurnQuiet DEF TurnDue
<1>14. CASE SessionFrame
  <2>1. /\ UNCHANGED <<reg, conn, alive, toSrv, sock, turn, asking>>
        /\ view'.card = Shown(conn.asks) /\ view'.blocked = view.blocked
    BY <1>1, <1>14 DEF SessionFrame, wireVars, runnerVars, Views
  <2>2. Turned(conn'.asks, conn'.active, view'.blocked, view'.card)
    BY <1>2, <2>1 DEF Turned, Shown
  <2>. QED  BY <1>0, <2>1, <2>2 DEF TurnDue
<1>15. ASSUME \/ GiveUp \/ Prune \/ QueueClear
              \/ \E m \in Msgs : Reject(m) \/ QueueCancel(m)
       PROVE  TurnDue'
  <2>1. UNCHANGED <<reg, conn, view, alive, toSrv, sock, turn, asking>>
    BY <1>15 DEF GiveUp, Prune, QueueClear, Reject, QueueCancel, Drop, serverVars,
       wireVars, runnerVars
  <2>. QED  BY <1>0, <2>1, TurnQuiet DEF TurnDue
<1>16. ASSUME NEW c \in Conns, RecvIgnored(c)
       PROVE  TurnDue'
  <2>1. UNCHANGED <<reg, conn, view, alive, sock, turn, asking>> /\ reg # c
        /\ toSrv' = [toSrv EXCEPT ![c] = Tail(@)]
    BY <1>16 DEF RecvIgnored, Pop, serverVars, runnerVars
  <2>2. reg # None => toSrv'[reg] = toSrv[reg]
    BY <1>1, <2>1
  <2>. QED  BY <1>0, <2>1, <2>2, TurnQuiet DEF TurnDue
<1>17. ASSUME NEW c \in Conns, SocketLost(c) \/ SocketClosed(c)
       PROVE  TurnDue'
  <2>1. Teardown(c) /\ UNCHANGED <<alive, sock, turn, asking>>
    BY <1>17 DEF SocketLost, SocketClosed, Teardown, runnerVars
  <2>2. CASE reg = c
    <3>1. /\ reg' = None /\ conn' = NoTurn
          /\ view' = [EndTurn(view) EXCEPT !.busy = FALSE, !.blocked = FALSE,
                                           !.row = "idle", !.card = None]
      BY <2>1, <2>2 DEF Teardown
    <3>2. EndTurn(view) \in Views
      BY <1>1 DEF EndTurn, Views
    <3>3. ~view'.blocked /\ view'.card = None
      BY <3>1, <3>2 DEF Views
    <3>. QED  BY <1>0, <2>1, <3>1, <3>3, TurnCleared
  <2>3. CASE reg # c
    <3>1. UNCHANGED <<reg, conn, view>> /\ toSrv' = [toSrv EXCEPT ![c] = <<>>]
      BY <2>1, <2>3 DEF Teardown
    <3>2. reg # None => toSrv'[reg] = toSrv[reg]
      BY <1>1, <2>3, <3>1
    <3>. QED  BY <1>0, <2>1, <3>1, <3>2, TurnQuiet DEF TurnDue
  <2>. QED  BY <2>2, <2>3
<1>18. ~SweepDrop
  BY <1>0 DEF SweepDrop
<1>. QED  BY <1>3, <1>6, <1>7, <1>9, <1>10, <1>11, <1>12, <1>13, <1>14, <1>15, <1>16, <1>17, <1>18
          DEF ClientStep, ServerStep, Deliver

(* The words of a runner: only a turn asks, and the end of one comes last. *)
LEMMA TurnSpoken ==
  ASSUME CardInv, TurnDue, NEW p \in Procs, NEW frames \in Seq(Reports), Speaks(p, frames)
  PROVE  TurnDue'
<1>0. Types /\ OneOwner
  BY DEF CardInv, Registered
<1>1. /\ reg \in Conns \cup {None} /\ conn.active \in BOOLEAN
      /\ toSrv \in [Conns -> Seq(Reports)]
  BY <1>0, RegisteredTypes DEF Claims
<1>2. UNCHANGED <<reg, conn, view, alive, sock>>
  BY DEF Speaks
<1>3. \A r \in Procs : turn'[r] = None => asking'[r] = <<>>
  BY DEF Speaks, TurnDue
<1>4. CASE reg = None
  BY <1>2, <1>3, <1>4 DEF TurnDue
<1>5. CASE reg # None
  <2>1. toSrv'[reg] = IF sock[p] = reg /\ alive[reg] THEN toSrv[reg] \o frames ELSE toSrv[reg]
    BY <1>0, <1>1, <1>5, EmitAt DEF Speaks
  <2>2. CASE ~(sock[p] = reg /\ alive[reg])
    <3>1. \A r \in Procs : alive[reg] /\ sock[r] = reg => r # p
      BY <2>2
    <3>. QED  BY <1>2, <1>3, <2>1, <2>2, <3>1 DEF TurnDue, Speaks
  <2>3. CASE sock[p] = reg /\ alive[reg]
    <3>. DEFINE w == toSrv[reg]
                a == conn.active
                n == Len(w)
                m == Len(frames)
    <3>1. /\ w \in Seq(Reports) /\ a \in BOOLEAN /\ toSrv'[reg] = w \o frames
          /\ Timely(a, w) /\ (turn[p] # None => Ends(a, w))
      BY <1>1, <1>5, <2>1, <2>3 DEF TurnDue
    <3>. HIDE DEF w, a
    <3>2. /\ \A i \in 1 .. n : Active(a, w, i) => Active(a, w \o frames, i)
          /\ Ends(a, w) => \A i \in 1 .. m + 1 :
               (\A k \in 1 .. m : k < i => ~Lowers(frames[k])) => Active(a, w \o frames, n + i)
      BY <3>1, ActiveConcat
    <3>3. /\ n \in Nat /\ m \in Nat /\ DOMAIN w = 1 .. n /\ DOMAIN frames = 1 .. m
          /\ DOMAIN (w \o frames) = 1 .. n + m /\ Len(w \o frames) = n + m
          /\ \A i \in 1 .. n : (w \o frames)[i] = w[i]
          /\ \A i \in 1 .. n + m : i > n => (w \o frames)[i] = frames[i - n]
      <4>1. w \o frames \in Seq(Reports)
        BY <3>1, ConcatAt
      <4>. QED  BY <3>1, <4>1, ConcatAt
    <3>. HIDE DEF n, m
    <3>4. ASSUME NEW i \in 1 .. n + m, (w \o frames)[i].t = "question"
          PROVE  Active(a, w \o frames, i)
      <4>1. CASE i \in 1 .. n
        BY <3>1, <3>2, <3>3, <3>4, <4>1 DEF Timely
      <4>2. CASE i \notin 1 .. n
        <5>1. PICK j \in 1 .. m : i = n + j
          <6>1. i - n \in 1 .. m /\ i = n + (i - n)
            BY <3>3, <4>2
          <6>. QED  BY <6>1
        <5>2. i > n /\ i - n = j
          BY <3>3, <5>1
        <5>3. frames[j].t = "question"
          BY <3>3, <3>4, <5>2
        <5>4. Contains(asking'[p], frames[j].by) /\ turn[p] # None
          BY <3>3, <5>3 DEF Speaks
        <5>5. turn'[p] # None
          BY <1>3, <5>4 DEF Contains
        <5>6. \A k \in 1 .. m : ~Lowers(frames[k])
          BY <3>3, <5>5 DEF Speaks
        <5>7. j \in 1 .. m + 1
          BY <3>3
        <5>8. Active(a, w \o frames, n + j)
          BY <3>1, <3>2, <5>4, <5>6, <5>7
        <5>. QED  BY <5>1, <5>8
      <4>. QED  BY <4>1, <4>2
    <3>5. ASSUME turn'[p] # None
          PROVE  Active(a, w \o frames, n + m + 1)
      <4>1. \A k \in 1 .. m : ~Lowers(frames[k])
        BY <3>3, <3>5 DEF Speaks
      <4>2. CASE turn[p] # None
        <5>1. PICK i \in 1 .. m + 1 : i = m + 1
          BY <3>3
        <5>2. \A k \in 1 .. m : k < i => ~Lowers(frames[k])
          BY <4>1
        <5>3. Active(a, w \o frames, n + i)
          BY <3>1, <3>2, <4>2, <5>2
        <5>4. n + i = n + m + 1
          BY <3>3, <5>1
        <5>. QED  BY <5>3, <5>4
      <4>3. CASE \E f : frames = <<f>> /\ Raises(f)
        <5>1. m = 1 /\ Raises(frames[1])
          BY <4>3 DEF m
        <5>2. /\ n + 1 \in 1 .. n + m /\ n + 1 < n + m + 1 /\ (w \o frames)[n + 1] = frames[1]
              /\ \A k \in 1 .. n + m : ~(n + 1 < k)
          BY <3>3, <5>1
        <5>. QED  BY <3>3, <5>1, <5>2 DEF Active
      <4>. QED  BY <3>5, <4>2, <4>3 DEF Speaks
    <3>6. Timely(a, w \o frames)
      BY <3>3, <3>4 DEF Timely
    <3>7. turn'[p] # None => Ends(a, w \o frames)
      BY <3>3, <3>5 DEF Ends
    <3>8. \A r \in Procs : sock[r] = reg => r = p
      BY <1>0, <1>5, <2>3 DEF OneOwner
    <3>9. Turned(conn.asks, conn.active, view.blocked, view.card)
      BY DEF TurnDue
    <3>. QED  BY <1>2, <1>3, <3>1, <3>6, <3>7, <3>8, <3>9 DEF TurnDue, a
  <2>. QED  BY <2>2, <2>3
<1>. QED  BY <1>4, <1>5

(* A runner that connects in a turn says so before it asks.                *)
LEMMA AnnounceTimely ==
  ASSUME Types, NEW p \in Procs, turn[p] = None => asking[p] = <<>>
  PROVE  /\ Timely(FALSE, Announce(p))
         /\ turn[p] # None => Ends(FALSE, Announce(p))
<1>. DEFINE w == Announce(p)
            n == Len(asking[p])
<1>1. /\ n \in Nat /\ w \in Seq(Reports) /\ DOMAIN w = 1 .. n + 1 /\ w[1] = Hello(turn[p] # None)
      /\ \A i \in 1 .. n + 1 : i > 1 => i - 1 \in 1 .. n /\ w[i] = Question(asking[p][i - 1])
  BY AnnounceAt
<1>2. Len(w) = n + 1
  <2>. HIDE DEF n, w
  <2>. QED  BY <1>1
<1>3. w[1].t = "hello" /\ (turn[p] # None => w[1].by = TRUE)
  <2>1. w[1].t = "hello"
    BY <1>1, Words
  <2>2. Hello(TRUE).by = TRUE
    BY DEF Hello
  <2>3. turn[p] # None => w[1] = Hello(TRUE)
    BY <1>1
  <2>. QED  BY <2>1, <2>2, <2>3
<1>4. asking[p] = <<>> => n = 0
  OBVIOUS
<1>. HIDE DEF n, w
<1>5. w[1] \in Reports
  BY <1>1, <1>2
<1>6. \A i \in 1 .. n + 1 : i > 1 => ~Lowers(w[i])
  <2>1. SUFFICES ASSUME NEW i \in 1 .. n + 1, i > 1
                 PROVE  ~Lowers(w[i])
    OBVIOUS
  <2>2. w[i] = Question(asking[p][i - 1]) /\ w[i] \in Reports
    BY <1>1, <1>2, <2>1
  <2>3. w[i].t = "question"
    BY <2>2, Words
  <2>. QED  BY <2>2, <2>3, Signals
<1>7. turn[p] # None => Raises(w[1])
  BY <1>3, <1>5, Signals
<1>8. ASSUME turn[p] # None, NEW i \in 2 .. n + 2
      PROVE  Active(FALSE, w, i)
  <2>1. /\ 1 \in 1 .. n + 1 /\ 1 < i
        /\ \A k \in 1 .. n + 1 : 1 < k /\ k < i => ~Lowers(w[k])
    BY <1>1, <1>6
  <2>. QED  BY <1>1, <1>7, <1>8, <2>1 DEF Active
<1>9. ASSUME NEW i \in 1 .. n + 1, w[i].t = "question"
      PROVE  Active(FALSE, w, i)
  <2>1. i # 1
    BY <1>3, <1>9
  <2>2. i \in 2 .. n + 2 /\ n # 0
    BY <1>1, <2>1
  <2>3. turn[p] # None
    BY <1>4, <2>2
  <2>. QED  BY <1>8, <2>2, <2>3
<1>10. turn[p] # None => Active(FALSE, w, Len(w) + 1)
  <2>1. Len(w) + 1 \in 2 .. n + 2
    BY <1>1, <1>2
  <2>. QED  BY <1>8, <2>1
<1>. QED  BY <1>1, <1>9, <1>10 DEF Timely, Ends, w

LEMMA TurnRunner ==
  ASSUME FrontInv, RunnerStep \/ FaultStep
  PROVE  TurnDue'
<1>0. Types /\ CardInv /\ TurnDue
  BY DEF FrontInv, CardInv, Registered
<1>1. /\ reg \in Conns \cup {None} /\ None \notin Conns /\ asking \in [Procs -> Seq(Questions)]
      /\ sock \in [Procs -> Conns \cup {None}] /\ turn \in [Procs -> Msgs \cup {"auto", None}]
      /\ alive \in [Conns -> BOOLEAN] /\ toSrv \in [Conns -> Seq(Reports)] /\ view \in Views
      /\ conn.active \in BOOLEAN
  BY <1>0, RegisteredTypes DEF Claims
<1>2. ASSUME NEW p \in Procs,
             \/ HearStop(p) \/ HearAnswer(p) \/ StartTurn(p) \/ StartAutonomousTurn(p)
             \/ FinishTurn(p) \/ \E q \in Questions : Ask(p, q)
      PROVE  TurnDue'
  BY <1>0, <1>2, RunnerSpeaks, TurnSpoken
<1>3. ASSUME NEW p \in Procs, HearSend(p) \/ LoseSocket(p) \/ Spawn(p)
      PROVE  TurnDue'
  <2>1. /\ UNCHANGED <<reg, conn, view, alive, toSrv, turn, asking>>
        /\ sock' = [sock EXCEPT ![p] = None] \/ sock' = sock
    BY <1>3 DEF HearSend, LoseSocket, Spawn, serverVars, wireVars
  <2>2. reg # None => \A r \in Procs : sock'[r] = reg => sock[r] = reg
    BY <1>1, <2>1
  <2>. QED  BY <1>0, <2>1, <2>2, TurnQuiet DEF TurnDue
<1>4. ASSUME NEW p \in Procs, HearDisplaced(p) \/ Crash(p)
      PROVE  TurnDue'
  <2>1. /\ UNCHANGED <<reg, conn, view, toSrv>> /\ alive' = [c \in Conns |-> alive[c] /\ c # sock[p]]
        /\ sock' = [sock EXCEPT ![p] = None] /\ asking' = [asking EXCEPT ![p] = <<>>]
        /\ turn' = [turn EXCEPT ![p] = None]
    BY <1>4 DEF HearDisplaced, Crash, Exit, serverVars
  <2>2. ASSUME reg # None, alive'[reg]
        PROVE  /\ alive[reg]
               /\ \A r \in Procs : sock'[r] = reg /\ turn'[r] # None => sock[r] = reg /\ turn[r] # None
    BY <1>1, <2>1, <2>2
  <2>3. \A r \in Procs : turn'[r] = None => asking'[r] = <<>>
    BY <1>0, <1>1, <2>1 DEF TurnDue
  <2>. QED  BY <1>0, <2>1, <2>2, <2>3, TurnQuiet
<1>5. ASSUME NEW p \in Procs, NEW c \in Conns, Connect(p, c)
      PROVE  TurnDue'
  <2>1. /\ reg' = c /\ conn' = NoTurn /\ sock' = [sock EXCEPT ![p] = c] /\ UNCHANGED <<turn, asking>>
        /\ toSrv'[c] = Announce(p) /\ \A r \in Procs : sock[r] # c
        /\ view' = [EndTurn(view) EXCEPT !.blocked = FALSE]
    BY <1>1, <1>5 DEF Connect
  <2>2. EndTurn(view) \in Views /\ EndTurn(view).card = IF conn.active THEN None ELSE view.card
    BY <1>1, <1>0, RegisteredTypes DEF EndTurn, Views
  <2>3. view'.blocked = FALSE /\ view'.card = None
    BY <1>0, <2>1, <2>2 DEF TurnDue, Turned, Views
  <2>4. conn'.asks = <<>> /\ conn'.active = FALSE
    BY <2>1 DEF NoTurn
  <2>5. Turned(conn'.asks, conn'.active, view'.blocked, view'.card)
    BY <2>3, <2>4 DEF Turned
  <2>6. Timely(FALSE, Announce(p)) /\ (turn[p] # None => Ends(FALSE, Announce(p)))
    BY <1>0, AnnounceTimely DEF TurnDue
  <2>7. \A r \in Procs : sock'[r] = c => r = p
    BY <1>1, <2>1
  <2>. QED  BY <1>0, <2>1, <2>4, <2>5, <2>6, <2>7 DEF TurnDue
<1>6. CASE ServerRestart
  <2>1. /\ reg' = None /\ conn' = NoTurn /\ view' = Quiet /\ UNCHANGED <<turn, asking>>
    BY <1>6 DEF ServerRestart, runnerVars
  <2>2. ~view'.blocked /\ view'.card = None
    BY <2>1 DEF Quiet
  <2>. QED  BY <1>0, <2>1, <2>2, TurnCleared
<1>7. ASSUME NEW c \in Conns, CutLink(c)
      PROVE  TurnDue'
  <2>1. /\ UNCHANGED <<reg, conn, view, sock, turn, asking>> /\ alive' = [alive EXCEPT ![c] = FALSE]
        /\ \E s \in Prefixes(toSrv[c]) : toSrv' = [toSrv EXCEPT ![c] = s]
    BY <1>7 DEF CutLink, serverVars, runnerVars
  <2>2. CASE reg # c
    <3>1. reg # None => toSrv'[reg] = toSrv[reg] /\ alive'[reg] = alive[reg]
      BY <1>1, <2>1, <2>2
    <3>. QED  BY <1>0, <2>1, <3>1, TurnQuiet DEF TurnDue
  <2>3. CASE reg = c
    <3>1. PICK s \in Prefixes(toSrv[c]) : toSrv'[c] = s
      BY <1>1, <2>1
    <3>2. ~alive'[c]
      BY <1>1, <2>1
    <3>3. Timely(conn.active, toSrv[c]) /\ toSrv[c] \in Seq(Reports)
      BY <1>0, <1>1, <2>3 DEF TurnDue
    <3>4. Timely(conn.active, s)
      BY <1>1, <3>3, TimelyPrefix
    <3>. QED  BY <1>0, <2>1, <2>3, <3>1, <3>2, <3>4 DEF TurnDue
  <2>. QED  BY <2>2, <2>3
<1>. QED  BY <1>2, <1>3, <1>4, <1>5, <1>6, <1>7 DEF RunnerStep, Hear, FaultStep

LEMMA FrontStep == ~Lingering /\ FrontInv /\ [Next]_vars => FrontInv'
<1>. SUFFICES ASSUME ~Lingering, FrontInv, [Next]_vars
              PROVE  TurnDue'
  BY CardStep, ClaimStep DEF FrontInv
<1>1. CASE UNCHANGED vars \/ AtRest
  <2>1. UNCHANGED <<reg, conn, view, alive, toSrv, sock, turn, asking>>
    BY <1>1 DEF AtRest, vars, serverVars, wireVars, runnerVars
  <2>. QED  BY <2>1, TurnQuiet DEF TurnDue, FrontInv
<1>. QED  BY <1>1, TurnServer, TurnRunner DEF Next

(* With sockets that always fire their close event, the pane reads blocked *)
(* exactly while a question is held, and the card on the screen is the     *)
(* front one (setBlocked in the question handlers and the teardowns).     *)
THEOREM FrontIsShown ==
  ASSUME ~Lingering
  PROVE  Spec => []CardIsFront
<1>1. Init => FrontInv
  <2>1. Init => CardInv
    <3>1. Init => OneOwner /\ CardDue
      <4>1. Init => reg = None /\ conn.asks = <<>> /\ sock = [p \in Procs |-> None]
        BY DEF Init, NoTurn
      <4>. QED  BY <4>1 DEF OneOwner, CardDue, Distinct, FrontCard
    <3>. QED  BY <3>1, RegisteredInit DEF CardInv
  <2>2. Init => ClaimInv
    BY InitTypes DEF Init, ClaimInv, Mirrored, NoTurn, Quiet
  <2>3. Init => TurnDue
    BY DEF Init, NoTurn, Quiet, TurnDue, Turned
  <2>. QED  BY <2>1, <2>2, <2>3 DEF FrontInv
<1>2. FrontInv /\ [Next]_vars => FrontInv'
  BY FrontStep
<1>3. FrontInv => CardIsFront
  <2>1. SUFFICES ASSUME FrontInv
                 PROVE  CardIsFront
    OBVIOUS
  <2>2. FrontCard(conn.asks, view.card) /\ Turned(conn.asks, conn.active, view.blocked, view.card)
    BY <2>1 DEF FrontInv, CardInv, CardDue, TurnDue
  <2>3. conn.asks # <<>> => Shown(conn.asks) = Head(conn.asks)
    BY DEF Shown
  <2>. QED  BY <2>2, <2>3 DEF Turned, FrontCard, CardIsFront
<1>. QED  BY <1>1, <1>2, <1>3, PTL DEF Spec
=============================================================================
