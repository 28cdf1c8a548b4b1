--------------------------- MODULE AgentLinkTypes ----------------------------
(***************************************************************************)
(* The types of AgentLink's variables are invariant, for every set of      *)
(* messages, questions, sockets and processes and every bound; and the     *)
(* lemmas on sequences and channels that the other proofs use.             *)
(***************************************************************************)
EXTENDS AgentLink, FiniteSetTheorems, SequenceTheorems, WellFoundedInduction, TLAPS

-----------------------------------------------------------------------------
(* Sequences and channels *)

LEMMA PositionInRange ==
  ASSUME NEW S, NEW s \in Seq(S), NEW x, Contains(s, x)
  PROVE  Position(s, x) \in 1 .. Len(s)
BY DEF Contains, Position

LEMMA WithoutType ==
  ASSUME NEW S, NEW s \in Seq(S), NEW x
  PROVE  Without(s, x) \in Seq(S)
<1>1. CASE Contains(s, x)
  <2>1. Position(s, x) \in 1 .. Len(s)
    BY <1>1, PositionInRange
  <2>2. /\ SubSeq(s, 1, Position(s, x) - 1) \in Seq(S)
        /\ SubSeq(s, Position(s, x) + 1, Len(s)) \in Seq(S)
    BY <2>1
  <2>. QED  BY <1>1, <2>2, ConcatProperties DEF Without, RemoveAt
<1>2. CASE ~ Contains(s, x)
  BY <1>2 DEF Without
<1>. QED  BY <1>1, <1>2

LEMMA ShownType ==
  ASSUME NEW s \in Seq(Questions)
  PROVE  Shown(s) \in Questions \cup {None}
BY HeadTailProperties DEF Shown

LEMMA PushType ==
  ASSUME NEW S, NEW chan \in [Conns -> Seq(S)], NEW c, NEW frames \in Seq(S)
  PROVE  Push(chan, c, frames) \in [Conns -> Seq(S)]
BY ConcatProperties DEF Push

LEMMA PrefixType ==
  ASSUME NEW S, NEW s \in Seq(S), NEW r \in Prefixes(s)
  PROVE  r \in Seq(S)
BY DEF Prefixes

LEMMA LeastNatural ==
  ASSUME NEW T \in SUBSET Nat, T # {}
  PROVE  \E x \in T : \A y \in T : x <= y
<1>. DEFINE F == {0 .. j : j \in T}
<1>1. F \subseteq FiniteSubsetsOf(Nat) /\ F # {}
  <2>1. \A j \in Nat : IsFiniteSet(0 .. j)
    BY FS_Interval
  <2>2. \A j \in Nat : 0 .. j \in SUBSET Nat
    OBVIOUS
  <2>3. \A j \in T : 0 .. j \in FiniteSubsetsOf(Nat)
    BY <2>1, <2>2 DEF FiniteSubsetsOf
  <2>4. F # {}
    OBVIOUS
  <2>. QED  BY <2>3, <2>4
<1>2. PICK X \in F : \A Y \in F : <<Y, X>> \notin StrictSubsetOrdering(Nat)
  <2>. HIDE DEF F
  <2>. QED  BY <1>1, WFMin, FS_StrictSubsetOrderingWellFounded
<1>3. PICK x \in T : X = 0 .. x
  BY <1>2
<1>4. SUFFICES ASSUME NEW y \in T, ~ (x <= y)
               PROVE  FALSE
  BY <1>3
<1>5. (0 .. y) \in SUBSET Nat /\ (0 .. x) \in SUBSET Nat
  OBVIOUS
<1>6. (0 .. y) \subseteq (0 .. x) /\ x \in 0 .. x /\ x \notin 0 .. y
  BY <1>4
<1>7. <<0 .. y, 0 .. x>> \in StrictSubsetOrdering(Nat)
  BY <1>5, <1>6 DEF StrictSubsetOrdering
<1>. QED  BY <1>7, <1>2, <1>3

-----------------------------------------------------------------------------
(* Types *)

Types == ServerTypes /\ WireTypes /\ RunnerTypes /\ GhostTypes

LEMMA WordTypes ==
  /\ \A m \in Msgs : Send(m) \in Frames
  /\ \A q \in Questions : Answer(q) \in Frames
  /\ StopFrame \in Frames /\ Displaced \in Frames
  /\ \A b \in BOOLEAN : Hello(b) \in Reports
  /\ \A by \in Msgs \cup {"auto"} : TurnStart(by) \in Reports
  /\ \A q \in Questions : Question(q) \in Reports /\ QuestionDone(q) \in Reports
  /\ TurnDone \in Reports
BY DEF Send, Answer, StopFrame, Displaced, Hello, TurnStart, Question, QuestionDone, TurnDone,
       Frames, Reports

LEMMA FrameTypes ==
  ASSUME NEW r \in Reports
  PROVE  /\ r.t = "hello" => r.by \in BOOLEAN
         /\ r.t = "turn-start" => r.by \in Msgs \cup {"auto"}
         /\ r.t \in {"question", "question-done"} => r.by \in Questions
BY DEF Reports, TurnDone

LEMMA SaidTypes ==
  ASSUME NEW r \in Frames
  PROVE  /\ r.t = "send" => r.msg \in Msgs
         /\ r.t = "answer" => r.msg \in Questions
BY DEF Frames, StopFrame, Displaced

LEMMA RelayTypes ==
  ASSUME WireTypes, NEW c \in Claims, NEW v \in Views, NEW m \in Msgs, Relay(c, v, m)
  PROVE  conn' \in Claims /\ view' \in Views /\ toRun' \in [Conns -> Seq(Frames)]
<1>1. <<Send(m)>> \in Seq(Frames)
  BY WordTypes
<1>2. toRun' \in [Conns -> Seq(Frames)]
  BY <1>1, PushType DEF WireTypes, Relay
<1>3. conn' \in Claims /\ view' \in Views
  BY DEF Relay, Claims, Views
<1>. QED  BY <1>2, <1>3

LEMMA OldestWaits ==
  ASSUME NEW s \in [Msgs -> Nat], Waiting(s) # {}
  PROVE  /\ Oldest(s) \in Waiting(s)
         /\ \A n \in Waiting(s) : s[Oldest(s)] <= s[n]
<1>. DEFINE T == {s[m] : m \in Waiting(s)}
<1>1. T \in SUBSET Nat /\ T # {}
  BY DEF Waiting
<1>2. \E x \in T : \A y \in T : x <= y
  <2>. HIDE DEF T
  <2>. QED  BY <1>1, LeastNatural
<1>3. \E m \in Waiting(s) : \A n \in Waiting(s) : s[m] <= s[n]
  BY <1>2
<1>. QED  BY <1>3 DEF Oldest

LEMMA DrainTypes ==
  ASSUME ServerTypes, WireTypes, relayed \in Nat, born' \in [Msgs -> Nat],
         NEW c \in Claims, NEW v \in Views, NEW s \in [Msgs -> Nat], NEW f \in [Msgs -> Fates],
         DrainQueue(c, v, s, f)
  PROVE  /\ conn' \in Claims /\ view' \in Views /\ seq' \in [Msgs -> Nat]
         /\ fate' \in [Msgs -> Fates] /\ reg' \in Conns \cup {None}
         /\ toRun' \in [Conns -> Seq(Frames)] /\ relayed' \in Nat
<1>1. CASE UNCHANGED <<reg, toRun, relayed>> /\ conn' = c /\ view' = v /\ seq' = s /\ fate' = f
  BY <1>1 DEF ServerTypes, WireTypes
<1>2. CASE /\ Waiting(s) # {}
           /\ Relay(c, v, Oldest(s))
           /\ seq' = TakeRow(s, Oldest(s))
           /\ fate' = [f EXCEPT ![Oldest(s)] = "relayed"]
           /\ relayed' = born'[Oldest(s)]
           /\ UNCHANGED reg
  <2>1. Oldest(s) \in Msgs
    BY <1>2, OldestWaits DEF Waiting
  <2>2. conn' \in Claims /\ view' \in Views /\ toRun' \in [Conns -> Seq(Frames)]
    BY <1>2, <2>1, RelayTypes
  <2>3. seq' \in [Msgs -> Nat] /\ fate' \in [Msgs -> Fates] /\ relayed' \in Nat
    BY <1>2, <2>1 DEF TakeRow, Fates
  <2>. QED  BY <1>2, <2>2, <2>3 DEF ServerTypes
<1>3. CASE /\ reg' = None /\ conn' = NoTurn
           /\ view' = v /\ seq' = s /\ fate' = f
           /\ UNCHANGED <<toRun, relayed>>
  BY <1>3 DEF WireTypes, NoTurn, Claims
<1>. QED  BY <1>1, <1>2, <1>3 DEF DrainQueue

LEMMA GreatestNatural ==
  ASSUME NEW T \in SUBSET Nat, T # {}, NEW b \in Nat, \A x \in T : x <= b
  PROVE  Max(T) \in T /\ \A y \in T : y <= Max(T)
<1>. DEFINE U == {k \in Nat : \A x \in T : x <= k}
<1>1. PICK k \in U : \A j \in U : k <= j
  <2>1. U \in SUBSET Nat /\ b \in U
    OBVIOUS
  <2>. HIDE DEF U
  <2>. QED  BY <2>1, LeastNatural
<1>2. k \in T
  <2>1. SUFFICES ASSUME k \notin T  PROVE FALSE
    OBVIOUS
  <2>2. k > 0
    <3>1. PICK x \in T : TRUE
      OBVIOUS
    <3>. QED  BY <1>1, <2>1, <3>1
  <2>3. k - 1 \in U
    BY <1>1, <2>1, <2>2
  <2>. QED  BY <1>1, <2>3
<1>3. \E x \in T : \A y \in T : x >= y
  BY <1>1, <1>2
<1>. QED  BY <1>3 DEF Max

LEMMA NextRankType ==
  ASSUME NEW s \in [Msgs -> Nat], NEW a \in Nat, \A m \in Msgs : s[m] <= a
  PROVE  /\ NextRank(s) \in Nat /\ NextRank(s) <= a + 1
         /\ \A m \in Msgs : s[m] < NextRank(s)
<1>. DEFINE T == {s[m] : m \in Waiting(s)}
<1>1. CASE Waiting(s) = {}
  BY <1>1 DEF NextRank, Waiting
<1>2. CASE Waiting(s) # {}
  <2>1. T \in SUBSET Nat /\ T # {} /\ \A x \in T : x <= a
    BY <1>2 DEF Waiting
  <2>2. Max(T) \in T /\ \A y \in T : y <= Max(T)
    <3>. HIDE DEF T
    <3>. QED  BY <2>1, GreatestNatural
  <2>3. Max(T) \in Nat /\ Max(T) <= a /\ Max(T) > 0
    BY <2>1, <2>2 DEF Waiting
  <2>4. \A m \in Msgs : s[m] <= Max(T)
    BY <2>2, <2>3 DEF Waiting
  <2>5. NextRank(s) = 1 + Max(T)
    BY <1>2 DEF NextRank
  <2>. HIDE DEF T
  <2>. QED  BY <2>3, <2>4, <2>5
<1>. QED  BY <1>1, <1>2

(* No row's rank exceeds the number of messages accepted. *)
RanksBounded == \A m \in Msgs : seq[m] <= accepted

LEMMA RestTypes == NoTurn \in Claims /\ Quiet \in Views
<1>1. NoTurn \in Claims
  BY DEF NoTurn, Claims
<1>2. Quiet \in Views
  BY DEF Quiet, Views
<1>. QED  BY <1>1, <1>2

LEMMA InitTypes == Init => Types /\ RanksBounded
<1>1. Init => ServerTypes
  <2>1. Init => seq \in [Msgs -> Nat]
    BY DEF Init
  <2>2. Init => gaveUp \in BOOLEAN /\ reg \in Conns \cup {None}
    BY DEF Init
  <2>3. Init => conn \in Claims /\ view \in Views
    BY RestTypes DEF Init
  <2>. QED  BY <2>1, <2>2, <2>3 DEF ServerTypes
<1>2. Init => WireTypes
  BY DEF Init, WireTypes
<1>3. Init => RunnerTypes
  BY DEF Init, RunnerTypes
<1>4. Init => GhostTypes /\ RanksBounded
  BY ConstantsAssumption DEF Init, GhostTypes, RanksBounded, Fates
<1>. QED  BY <1>1, <1>2, <1>3, <1>4 DEF Types

(* A step of a client. *)
LEMMA ClientTypes ==
  ASSUME Types, RanksBounded, ClientStep
  PROVE  Types' /\ RanksBounded'
<1>. USE DEF Types
<1>1. ASSUME NEW m \in Msgs, SendNow(m)
      PROVE  Types' /\ RanksBounded'
  <2>1. conn \in Claims /\ view \in Views /\ WireTypes
    BY DEF ServerTypes
  <2>2. conn' \in Claims /\ view' \in Views /\ toRun' \in [Conns -> Seq(Frames)]
    BY <1>1, <2>1, RelayTypes DEF SendNow
  <2>3. accepted' \in Nat /\ born' \in [Msgs -> Nat] /\ relayed' \in Nat
        /\ fate' \in [Msgs -> Fates] /\ accepted' = accepted + 1
    BY <1>1 DEF SendNow, Accept, GhostTypes, Fates
  <2>. QED  BY <1>1, <2>2, <2>3 DEF SendNow, ServerTypes, WireTypes, RunnerTypes, runnerVars,
              GhostTypes, RanksBounded
<1>2. ASSUME NEW m \in Msgs, Reject(m)
      PROVE  Types' /\ RanksBounded'
  BY <1>2 DEF Reject, serverVars, wireVars, runnerVars, ServerTypes, WireTypes, RunnerTypes,
              GhostTypes, RanksBounded, Fates
<1>3. ASSUME NEW m \in Msgs, Enqueue(m)
      PROVE  Types' /\ RanksBounded'
  <2>. DEFINE s == [seq EXCEPT ![m] = NextRank(seq)]
              f == [fate EXCEPT ![m] = "queued"]
  <2>1. accepted' = accepted + 1 /\ accepted' \in Nat /\ born' \in [Msgs -> Nat]
    BY <1>3 DEF Enqueue, Accept, GhostTypes
  <2>2. NextRank(seq) \in Nat /\ NextRank(seq) <= accepted + 1
    BY NextRankType DEF ServerTypes, GhostTypes, RanksBounded
  <2>3. s \in [Msgs -> Nat] /\ \A n \in Msgs : s[n] <= accepted'
    BY <2>1, <2>2 DEF ServerTypes, RanksBounded, GhostTypes
  <2>4. f \in [Msgs -> Fates]
    BY DEF GhostTypes, Fates
  <2>5. DrainQueue(conn, view, s, f)
    BY <1>3 DEF Enqueue
  <2>. HIDE DEF s, f
  <2>6. /\ conn' \in Claims /\ view' \in Views /\ seq' \in [Msgs -> Nat]
        /\ fate' \in [Msgs -> Fates] /\ reg' \in Conns \cup {None}
        /\ toRun' \in [Conns -> Seq(Frames)] /\ relayed' \in Nat
    BY <2>1, <2>3, <2>4, <2>5, DrainTypes DEF ServerTypes, GhostTypes
  <2>7. \A n \in Msgs : seq'[n] <= accepted'
    BY <2>1, <2>3, <2>5 DEF DrainQueue, TakeRow
  <2>. QED  BY <1>3, <2>1, <2>6, <2>7 DEF Enqueue, ServerTypes, WireTypes, RunnerTypes,
              runnerVars, GhostTypes, RanksBounded
<1>4. ASSUME NEW m \in Msgs, QueueCancel(m)
      PROVE  Types' /\ RanksBounded'
  BY <1>4 DEF QueueCancel, Drop, wireVars, runnerVars, ServerTypes, WireTypes, RunnerTypes,
              GhostTypes, RanksBounded, Fates
<1>5. CASE QueueClear
  BY <1>5 DEF QueueClear, Drop, wireVars, runnerVars, ServerTypes, WireTypes, RunnerTypes,
              GhostTypes, RanksBounded, Fates
<1>6. CASE Stop
  <2>1. conn' \in Claims
    BY <1>6 DEF Stop, Stopped, ServerTypes, Claims
  <2>2. toRun' \in [Conns -> Seq(Frames)]
    <3>1. <<StopFrame>> \in Seq(Frames)
      BY WordTypes
    <3>. QED  BY <1>6, <3>1, PushType DEF Stop, WireTypes
  <2>. QED  BY <1>6, <2>1, <2>2 DEF Stop, ServerTypes, WireTypes, RunnerTypes, runnerVars,
              GhostTypes, ghostVars, RanksBounded
<1>7. CASE AnswerCard
  <2>1. view' \in Views
    BY <1>7 DEF AnswerCard, ServerTypes, Views
  <2>2. toRun' \in [Conns -> Seq(Frames)]
    <3>1. <<Answer(view.card)>> \in Seq(Frames)
      BY <1>7, WordTypes DEF AnswerCard, ServerTypes, Views
    <3>. QED  BY <1>7, <3>1, PushType DEF AnswerCard, WireTypes
  <2>. QED  BY <1>7, <2>1, <2>2 DEF AnswerCard, ServerTypes, WireTypes, RunnerTypes, runnerVars,
              GhostTypes, ghostVars, RanksBounded
<1>8. CASE SessionFrame
  <2>1. view' \in Views
    BY <1>8, ShownType DEF SessionFrame, ServerTypes, Views, Claims
  <2>. QED  BY <1>8, <2>1 DEF SessionFrame, ServerTypes, WireTypes, wireVars, RunnerTypes,
              runnerVars, GhostTypes, ghostVars, RanksBounded
<1>. QED  BY <1>1, <1>2, <1>3, <1>4, <1>5, <1>6, <1>7, <1>8 DEF ClientStep

LEMMA TurnOverType ==
  ASSUME NEW c \in Claims
  PROVE  TurnOver(c) \in Claims
<1>1. <<>> \in Seq(Questions)
  OBVIOUS
<1>. QED  BY <1>1 DEF TurnOver, Claims

(* What a handler does to the row, the rank and the type of the rest. *)
LEMMA DrainRanks ==
  ASSUME RanksBounded, seq \in [Msgs -> Nat], accepted \in Nat, NEW c, NEW v, NEW f, DrainQueue(c, v, seq, f)
  PROVE  \A m \in Msgs : seq'[m] <= accepted
<1>1. seq' = seq \/ seq' = TakeRow(seq, Oldest(seq))
  BY DEF DrainQueue
<1>. QED  BY <1>1 DEF TakeRow, RanksBounded

(* A step of the server's end of the runner socket. *)
LEMMA ServerStepTypes ==
  ASSUME Types, RanksBounded, ServerStep
  PROVE  Types' /\ RanksBounded'
<1>. USE DEF Types
<1>. USE DEF ServerTypes, WireTypes, RunnerTypes, GhostTypes, RanksBounded
<1>0. ASSUME NEW c \in Conns, Pop(c)
      PROVE  /\ Frame(c) \in Reports
             /\ toSrv' \in [Conns -> Seq(Reports)]
  BY <1>0, HeadTailProperties DEF Pop, Frame
<1>1. ASSUME NEW c \in Conns, RecvIgnored(c)
      PROVE  Types' /\ RanksBounded'
  <2>1. toSrv' \in [Conns -> Seq(Reports)]
    BY <1>0, <1>1 DEF RecvIgnored
  <2>. QED  BY <1>1, <2>1 DEF RecvIgnored, serverVars, runnerVars, ghostVars
<1>2. ASSUME NEW c \in Conns, RecvHello(c)
      PROVE  Types' /\ RanksBounded'
  <2>. DEFINE a == Frame(c).by
              k == [conn EXCEPT !.active = a]
              v == [view EXCEPT !.busy = a, !.row = IF a THEN "running" ELSE "idle",
                                !.bus = IF a THEN "start" ELSE @, !.card = Shown(conn.asks)]
  <2>1. a \in BOOLEAN /\ toSrv' \in [Conns -> Seq(Reports)]
    BY <1>0, <1>2, FrameTypes DEF RecvHello, Receive
  <2>2. k \in Claims
    BY <2>1 DEF Claims
  <2>3. v \in Views
    <3>1. Shown(conn.asks) \in Questions \cup {None}
      BY ShownType DEF Claims
    <3>. QED  BY <2>1, <3>1 DEF Views
  <2>4. DrainQueue(k, v, seq, fate) /\ born' = born
    BY <1>2 DEF RecvHello
  <2>. HIDE DEF a, k, v
  <2>5. /\ conn' \in Claims /\ view' \in Views /\ seq' \in [Msgs -> Nat]
        /\ fate' \in [Msgs -> Fates] /\ reg' \in Conns \cup {None}
        /\ toRun' \in [Conns -> Seq(Frames)] /\ relayed' \in Nat
    BY <2>2, <2>3, <2>4, DrainTypes
  <2>6. \A m \in Msgs : seq'[m] <= accepted
    BY <2>4, DrainRanks
  <2>. QED  BY <1>2, <2>1, <2>5, <2>6 DEF RecvHello, runnerVars
<1>3. ASSUME NEW c \in Conns, RecvTurnStart(c)
      PROVE  Types' /\ RanksBounded'
  <2>1. toSrv' \in [Conns -> Seq(Reports)]
    BY <1>0, <1>3 DEF RecvTurnStart, Receive
  <2>2. conn' \in Claims /\ view' \in Views
    BY <1>3 DEF RecvTurnStart, Claims, Views
  <2>. QED  BY <1>3, <2>1, <2>2 DEF RecvTurnStart, runnerVars, ghostVars
<1>4. ASSUME NEW c \in Conns, RecvTurnDone(c)
      PROVE  Types' /\ RanksBounded'
  <2>. DEFINE v == [view EXCEPT !.busy = FALSE, !.blocked = FALSE, !.row = "idle",
                                !.bus = "done", !.card = None]
  <2>1. toSrv' \in [Conns -> Seq(Reports)]
    BY <1>0, <1>4 DEF RecvTurnDone, Receive
  <2>2. TurnOver(conn) \in Claims
    BY TurnOverType
  <2>3. v \in Views
    BY DEF Views
  <2>4. DrainQueue(TurnOver(conn), v, seq, fate) /\ born' = born
    BY <1>4 DEF RecvTurnDone
  <2>. HIDE DEF v
  <2>5. /\ conn' \in Claims /\ view' \in Views /\ seq' \in [Msgs -> Nat]
        /\ fate' \in [Msgs -> Fates] /\ reg' \in Conns \cup {None}
        /\ toRun' \in [Conns -> Seq(Frames)] /\ relayed' \in Nat
    BY <2>2, <2>3, <2>4, DrainTypes
  <2>6. \A m \in Msgs : seq'[m] <= accepted
    BY <2>4, DrainRanks
  <2>. QED  BY <1>4, <2>1, <2>5, <2>6 DEF RecvTurnDone, runnerVars
<1>5. ASSUME NEW c \in Conns, RecvQuestion(c)
      PROVE  Types' /\ RanksBounded'
  <2>1. Frame(c).by \in Questions /\ toSrv' \in [Conns -> Seq(Reports)]
    BY <1>0, <1>5, FrameTypes DEF RecvQuestion, Receive
  <2>2. Held(conn.asks, Frame(c).by) \in Seq(Questions)
    BY <2>1 DEF Held, Claims
  <2>3. conn' \in Claims
    BY <1>5, <2>2 DEF RecvQuestion, Claims
  <2>4. view' \in Views
    BY <1>5, <2>1 DEF RecvQuestion, Views
  <2>. QED  BY <1>5, <2>1, <2>3, <2>4 DEF RecvQuestion, runnerVars, ghostVars
<1>6. ASSUME NEW c \in Conns, RecvQuestionDone(c)
      PROVE  Types' /\ RanksBounded'
  <2>. DEFINE q == Frame(c).by
              left == Without(conn.asks, q)
  <2>1. toSrv' \in [Conns -> Seq(Reports)]
    BY <1>0, <1>6 DEF RecvQuestionDone, Receive
  <2>2. left \in Seq(Questions)
    BY WithoutType DEF Claims
  <2>3. Promoted(q) \in Questions \cup {None}
    <3>1. Shown(left) \in Questions \cup {None}
      BY <2>2, ShownType
    <3>. QED  BY <3>1 DEF Promoted, Views
  <2>4. conn' = [conn EXCEPT !.asks = left]
    BY <1>6 DEF RecvQuestionDone
  <2>5. view' = [view EXCEPT !.blocked = IF left = <<>> THEN FALSE ELSE @, !.card = Promoted(q)]
    BY <1>6 DEF RecvQuestionDone
  <2>. HIDE DEF q, left
  <2>6. conn' \in Claims
    BY <2>2, <2>4 DEF Claims
  <2>7. view' \in Views
    BY <2>3, <2>5 DEF Views
  <2>. QED  BY <1>6, <2>1, <2>6, <2>7 DEF RecvQuestionDone, runnerVars, ghostVars
<1>7. EndTurn(view) \in Views
  BY DEF EndTurn, Views
<1>8. ASSUME NEW c \in Conns, Teardown(c)
      PROVE  Types' /\ RanksBounded'
  <2>1. srv' \in [Conns -> {"closed", "open", "closing"}] /\ toSrv' \in [Conns -> Seq(Reports)]
    BY <1>8 DEF Teardown
  <2>2. reg' \in Conns \cup {None} /\ conn' \in Claims
    BY <1>8, RestTypes DEF Teardown
  <2>3. view' \in Views
    BY <1>7, <1>8 DEF Teardown, Views
  <2>. QED  BY <1>8, <2>1, <2>2, <2>3 DEF Teardown, runnerVars, ghostVars
<1>9. ASSUME NEW c \in Conns, SocketLost(c)
      PROVE  Types' /\ RanksBounded'
  <2>1. CASE Teardown(c)
    BY <1>8, <2>1
  <2>2. CASE ~ Teardown(c)
    <3>1. /\ srv' = [srv EXCEPT ![c] = "closing"]
          /\ toSrv' = [toSrv EXCEPT ![c] = <<>>]
          /\ UNCHANGED <<serverVars, alive, toRun, runnerVars, faults, autos, ghostVars>>
      BY <1>9, <2>2 DEF SocketLost
    <3>2. srv' \in [Conns -> {"closed", "open", "closing"}]
      BY <3>1
    <3>3. toSrv' \in [Conns -> Seq(Reports)]
      BY <3>1
    <3>. QED  BY <3>1, <3>2, <3>3 DEF serverVars, runnerVars, ghostVars
  <2>. QED  BY <2>1, <2>2
<1>10. ASSUME NEW c \in Conns, SocketClosed(c)
       PROVE  Types' /\ RanksBounded'
  BY <1>8, <1>10 DEF SocketClosed
<1>11. CASE SweepDrop
  BY <1>11, RestTypes DEF SweepDrop, wireVars, runnerVars, ghostVars
<1>12. CASE GiveUp
  BY <1>12 DEF GiveUp, Drop, wireVars, runnerVars, Fates
<1>13. CASE Prune
  BY <1>13 DEF Prune, wireVars, runnerVars, ghostVars
<1>. QED  BY <1>1, <1>2, <1>3, <1>4, <1>5, <1>6, <1>9, <1>10, <1>11, <1>12, <1>13
          DEF ServerStep, Deliver

LEMMA DismissalsType ==
  ASSUME NEW p \in Procs, RunnerTypes
  PROVE  Dismissals(p) \in Seq(Reports)
<1>1. asking[p] \in Seq(Questions)
  BY DEF RunnerTypes
<1>2. \A i \in DOMAIN asking[p] : QuestionDone(asking[p][i]) \in Reports
  BY <1>1, WordTypes
<1>. QED  BY <1>1, <1>2 DEF Dismissals

LEMMA AnnounceType ==
  ASSUME NEW p \in Procs, RunnerTypes
  PROVE  Announce(p) \in Seq(Reports)
<1>. DEFINE qs == [i \in DOMAIN asking[p] |-> Question(asking[p][i])]
<1>1. asking[p] \in Seq(Questions)
  BY DEF RunnerTypes
<1>2. \A i \in DOMAIN asking[p] : Question(asking[p][i]) \in Reports
  BY <1>1, WordTypes
<1>3. qs \in Seq(Reports)
  BY <1>1, <1>2
<1>4. <<Hello(turn[p] # None)>> \in Seq(Reports)
  <2>1. Hello(turn[p] # None) \in Reports
    BY WordTypes
  <2>. QED  BY <2>1
<1>. QED  BY <1>3, <1>4, ConcatProperties DEF Announce

LEMMA EmitType ==
  ASSUME WireTypes, NEW p, NEW frames \in Seq(Reports), Emit(p, frames)
  PROVE  toSrv' \in [Conns -> Seq(Reports)]
BY PushType DEF Emit, WireTypes

LEMMA HeardType ==
  ASSUME WireTypes, RunnerTypes, NEW p \in Procs, NEW t, Hears(p, t), Heard(p)
  PROVE  /\ toRun' \in [Conns -> Seq(Frames)]
         /\ Head(toRun[sock[p]]) \in Frames
         /\ Head(toRun[sock[p]]).t = t
<1>1. sock[p] \in Conns
  BY DEF RunnerTypes, Hears
<1>2. toRun[sock[p]] \in Seq(Frames) /\ toRun[sock[p]] # <<>>
  BY <1>1 DEF WireTypes, Hears
<1>3. Tail(toRun[sock[p]]) \in Seq(Frames) /\ Head(toRun[sock[p]]) \in Frames
  BY <1>2, HeadTailProperties
<1>. QED  BY <1>1, <1>3 DEF Heard, Hears, WireTypes

LEMMA ExitTypes ==
  ASSUME Types, NEW p \in Procs, Exit(p)
  PROVE  ServerTypes' /\ RunnerTypes' /\ srv' = srv /\ alive' \in [Conns -> BOOLEAN]
<1>1. ServerTypes' /\ srv' = srv
  BY DEF Exit, serverVars, Types, ServerTypes
<1>2. RunnerTypes'
  BY DEF Exit, Types, RunnerTypes
<1>3. alive' \in [Conns -> BOOLEAN]
  BY DEF Exit
<1>. QED  BY <1>1, <1>2, <1>3

LEMMA EndTurnType ==
  ASSUME NEW v \in Views
  PROVE  EndTurn(v) \in Views
BY DEF EndTurn, Views

(* A step of a runner process. *)
LEMMA RunnerStepTypes ==
  ASSUME Types, RanksBounded, RunnerStep
  PROVE  Types' /\ RanksBounded'
<1>. USE DEF Types
<1>1. ASSUME NEW p \in Procs, HearSend(p)
      PROVE  Types' /\ RanksBounded'
  <2>1. toRun' \in [Conns -> Seq(Frames)] /\ Said(p) \in Msgs
    BY <1>1, HeardType, SaidTypes DEF HearSend, Said
  <2>2. pend' \in [Procs -> Seq(Msgs)]
    BY <1>1, <2>1 DEF HearSend, RunnerTypes
  <2>. QED  BY <1>1, <2>1, <2>2 DEF HearSend, serverVars, ghostVars, ServerTypes, WireTypes,
              RunnerTypes, GhostTypes, RanksBounded
<1>2. ASSUME NEW p \in Procs, HearStop(p)
      PROVE  Types' /\ RanksBounded'
  <2>1. toRun' \in [Conns -> Seq(Frames)]
    BY <1>2, HeardType DEF HearStop
  <2>2. StopReply(p) \in Seq(Reports)
    <3>1. <<TurnDone>> \in Seq(Reports) /\ <<>> \in Seq(Reports)
      BY WordTypes
    <3>. QED  BY <3>1, DismissalsType DEF StopReply
  <2>3. toSrv' \in [Conns -> Seq(Reports)]
    BY <1>2, <2>2, EmitType DEF HearStop
  <2>4. pend' \in [Procs -> Seq(Msgs)] /\ asking' \in [Procs -> Seq(Questions)]
    BY <1>2 DEF HearStop, RunnerTypes
  <2>5. fate' \in [Msgs -> Fates]
    BY <1>2 DEF HearStop, GhostTypes, Fates
  <2>. QED  BY <1>2, <2>1, <2>3, <2>4, <2>5 DEF HearStop, serverVars, ServerTypes, WireTypes,
              RunnerTypes, GhostTypes, RanksBounded
<1>3. ASSUME NEW p \in Procs, HearAnswer(p)
      PROVE  Types' /\ RanksBounded'
  <2>1. toRun' \in [Conns -> Seq(Frames)] /\ Said(p) \in Questions
    BY <1>3, HeardType, SaidTypes DEF HearAnswer, Said
  <2>2. Without(asking[p], Said(p)) \in Seq(Questions)
    BY WithoutType DEF RunnerTypes
  <2>3. asking' \in [Procs -> Seq(Questions)]
    BY <1>3, <2>2 DEF HearAnswer, RunnerTypes
  <2>4. <<QuestionDone(Said(p))>> \in Seq(Reports) /\ <<>> \in Seq(Reports)
    BY <2>1, WordTypes
  <2>5. toSrv' \in [Conns -> Seq(Reports)]
    BY <1>3, <2>4, EmitType DEF HearAnswer
  <2>. QED  BY <1>3, <2>1, <2>3, <2>5 DEF HearAnswer, serverVars, ghostVars, ServerTypes,
              WireTypes, RunnerTypes, GhostTypes, RanksBounded
<1>4. ASSUME NEW p \in Procs, HearDisplaced(p)
      PROVE  Types' /\ RanksBounded'
  <2>1. ServerTypes' /\ RunnerTypes' /\ srv' = srv /\ alive' \in [Conns -> BOOLEAN]
    BY <1>4, ExitTypes DEF HearDisplaced
  <2>2. toRun' \in [Conns -> Seq(Frames)]
    BY <1>4, HeardType DEF HearDisplaced
  <2>. QED  BY <1>4, <2>1, <2>2 DEF HearDisplaced, Exit, serverVars, ghostVars, WireTypes,
              GhostTypes, RanksBounded
<1>5. ASSUME NEW p \in Procs, StartTurn(p)
      PROVE  Types' /\ RanksBounded'
  <2>1. Head(pend[p]) \in Msgs /\ Tail(pend[p]) \in Seq(Msgs)
    BY <1>5, HeadTailProperties DEF StartTurn, RunnerTypes
  <2>2. turn' \in [Procs -> Msgs \cup {"auto", None}] /\ pend' \in [Procs -> Seq(Msgs)]
    BY <1>5, <2>1 DEF StartTurn, RunnerTypes
  <2>3. <<TurnStart(Head(pend[p]))>> \in Seq(Reports)
    BY <2>1, WordTypes
  <2>4. toSrv' \in [Conns -> Seq(Reports)]
    BY <1>5, <2>3, EmitType DEF StartTurn
  <2>5. fate' \in [Msgs -> Fates]
    BY <1>5, <2>1 DEF StartTurn, GhostTypes, Fates
  <2>. QED  BY <1>5, <2>2, <2>4, <2>5 DEF StartTurn, serverVars, ServerTypes, WireTypes,
              RunnerTypes, GhostTypes, RanksBounded
<1>6. ASSUME NEW p \in Procs, StartAutonomousTurn(p)
      PROVE  Types' /\ RanksBounded'
  <2>1. turn' \in [Procs -> Msgs \cup {"auto", None}]
    BY <1>6 DEF StartAutonomousTurn, RunnerTypes
  <2>2. <<TurnStart("auto")>> \in Seq(Reports)
    BY WordTypes
  <2>3. toSrv' \in [Conns -> Seq(Reports)]
    BY <1>6, <2>2, EmitType DEF StartAutonomousTurn
  <2>4. autos' \in 0 .. MaxAuto
    BY <1>6, ConstantsAssumption DEF StartAutonomousTurn, GhostTypes
  <2>. QED  BY <1>6, <2>1, <2>3, <2>4 DEF StartAutonomousTurn, serverVars, ghostVars, ServerTypes,
              WireTypes, RunnerTypes, GhostTypes, RanksBounded
<1>7. ASSUME NEW p \in Procs, NEW q \in Questions, Ask(p, q)
      PROVE  Types' /\ RanksBounded'
  <2>1. asking' \in [Procs -> Seq(Questions)]
    BY <1>7 DEF Ask, RunnerTypes
  <2>2. <<Question(q)>> \in Seq(Reports)
    BY WordTypes
  <2>3. toSrv' \in [Conns -> Seq(Reports)]
    BY <1>7, <2>2, EmitType DEF Ask
  <2>. QED  BY <1>7, <2>1, <2>3 DEF Ask, serverVars, ServerTypes, WireTypes, RunnerTypes,
              GhostTypes, RanksBounded
<1>8. ASSUME NEW p \in Procs, FinishTurn(p)
      PROVE  Types' /\ RanksBounded'
  <2>1. turn' \in [Procs -> Msgs \cup {"auto", None}] /\ asking' \in [Procs -> Seq(Questions)]
    BY <1>8 DEF FinishTurn, RunnerTypes
  <2>2. Dismissals(p) \o <<TurnDone>> \in Seq(Reports)
    <3>1. <<TurnDone>> \in Seq(Reports)
      BY WordTypes
    <3>. QED  BY <3>1, DismissalsType, ConcatProperties
  <2>3. toSrv' \in [Conns -> Seq(Reports)]
    BY <1>8, <2>2, EmitType DEF FinishTurn
  <2>. QED  BY <1>8, <2>1, <2>3 DEF FinishTurn, serverVars, ghostVars, ServerTypes, WireTypes,
              RunnerTypes, GhostTypes, RanksBounded
<1>9. ASSUME NEW p \in Procs, LoseSocket(p)
      PROVE  Types' /\ RanksBounded'
  BY <1>9 DEF LoseSocket, serverVars, wireVars, ghostVars, ServerTypes, WireTypes, RunnerTypes,
              GhostTypes, RanksBounded
<1>10. ASSUME NEW p \in Procs, Spawn(p)
       PROVE  Types' /\ RanksBounded'
  BY <1>10 DEF Spawn, serverVars, wireVars, ghostVars, ServerTypes, WireTypes, RunnerTypes,
               GhostTypes, RanksBounded
<1>11. ASSUME NEW p \in Procs, NEW c \in Conns, Connect(p, c)
       PROVE  Types' /\ RanksBounded'
  <2>1. ServerTypes'
    <3>1. conn' \in Claims
      BY <1>11, RestTypes DEF Connect
    <3>2. view' \in Views
      BY <1>11, EndTurnType DEF Connect, ServerTypes, Views
    <3>. QED  BY <1>11, <3>1, <3>2 DEF Connect, ServerTypes
  <2>2. toRun' \in [Conns -> Seq(Frames)]
    <3>1. <<Displaced>> \in Seq(Frames) /\ <<>> \in Seq(Frames)
      BY WordTypes
    <3>2. Push(toRun, reg, <<Displaced>>) \in [Conns -> Seq(Frames)]
      BY <3>1, PushType DEF WireTypes
    <3>. QED  BY <1>11, <3>1, <3>2 DEF Connect
  <2>3. toSrv' \in [Conns -> Seq(Reports)]
    BY <1>11, AnnounceType DEF Connect, WireTypes
  <2>4. WireTypes'
    BY <1>11, <2>2, <2>3 DEF Connect, WireTypes
  <2>5. RunnerTypes'
    BY <1>11 DEF Connect, RunnerTypes
  <2>. QED  BY <1>11, <2>1, <2>4, <2>5 DEF Connect, ghostVars, GhostTypes, RanksBounded
<1>. QED  BY <1>1, <1>2, <1>3, <1>4, <1>5, <1>6, <1>7, <1>8, <1>9, <1>10, <1>11
          DEF RunnerStep, Hear

(* A fault. *)
LEMMA FaultTypes ==
  ASSUME Types, RanksBounded, FaultStep
  PROVE  Types' /\ RanksBounded'
<1>. USE DEF Types
<1>1. CASE ServerRestart
  <2>1. ServerTypes'
    BY <1>1, RestTypes DEF ServerRestart, ServerTypes
  <2>2. WireTypes'
    BY <1>1 DEF ServerRestart, WireTypes
  <2>. QED  BY <1>1, <2>1, <2>2, ConstantsAssumption DEF ServerRestart, runnerVars, ghostVars,
              RunnerTypes, GhostTypes, RanksBounded
<1>2. ASSUME NEW c \in Conns, CutLink(c)
      PROVE  Types' /\ RanksBounded'
  <2>1. PICK r \in Prefixes(toRun[c]), s \in Prefixes(toSrv[c]) :
          toRun' = [toRun EXCEPT ![c] = r] /\ toSrv' = [toSrv EXCEPT ![c] = s]
    BY <1>2 DEF CutLink
  <2>2. r \in Seq(Frames) /\ s \in Seq(Reports)
    BY PrefixType DEF WireTypes
  <2>3. WireTypes'
    BY <1>2, <2>1, <2>2 DEF CutLink, WireTypes
  <2>. QED  BY <1>2, <2>3, ConstantsAssumption DEF CutLink, serverVars, runnerVars, ghostVars,
              ServerTypes, RunnerTypes, GhostTypes, RanksBounded
<1>3. ASSUME NEW p \in Procs, Crash(p)
      PROVE  Types' /\ RanksBounded'
  <2>1. ServerTypes' /\ RunnerTypes' /\ srv' = srv /\ alive' \in [Conns -> BOOLEAN]
    BY <1>3, ExitTypes DEF Crash
  <2>2. toRun' \in [Conns -> Seq(Frames)]
    BY <1>3 DEF Crash, WireTypes
  <2>. QED  BY <1>3, <2>1, <2>2, ConstantsAssumption DEF Crash, Exit, serverVars, ghostVars,
              WireTypes, GhostTypes, RanksBounded
<1>. QED  BY <1>1, <1>2, <1>3 DEF FaultStep

LEMMA TypesStep == Types /\ RanksBounded /\ [Next]_vars => Types' /\ RanksBounded'
<1>. SUFFICES ASSUME Types, RanksBounded, [Next]_vars
              PROVE  Types' /\ RanksBounded'
  OBVIOUS
<1>1. CASE UNCHANGED vars
  BY <1>1 DEF vars, serverVars, wireVars, runnerVars, ghostVars, Types, ServerTypes, WireTypes,
              RunnerTypes, GhostTypes, RanksBounded
<1>2. CASE AtRest
  BY <1>1, <1>2 DEF AtRest
<1>. QED  BY <1>1, <1>2, ClientTypes, ServerStepTypes, RunnerStepTypes, FaultTypes DEF Next

(* Every reachable state has well-typed variables, and no row's rank       *)
(* exceeds the number of messages accepted.                                *)
THEOREM TypesInvariant == Spec => [](Types /\ RanksBounded)
BY InitTypes, TypesStep, PTL DEF Spec

=============================================================================
