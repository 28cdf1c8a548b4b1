--------------------------- MODULE AgentLinkCopies ---------------------------
(***************************************************************************)
(* A message relayed to a runner is in one place only: one frame, one      *)
(* pending text or one turn; and so the link keeps the promise of          *)
(* MessageLine: each step of AgentLink is a step of the line or changes    *)
(* nothing a client was promised.  For every set of messages, sockets and  *)
(* processes and every bound.                                              *)
(***************************************************************************)
EXTENDS AgentLinkProofs

-----------------------------------------------------------------------------
(* Families of sequences that carry each value of S at most once *)

Present(f, I, x) == \E i \in I : Contains(f[i], x)

Single(f, I, S) ==
  \A i, j \in I : \A k \in 1 .. Len(f[i]), l \in 1 .. Len(f[j]) :
    f[i][k] \in S /\ f[i][k] = f[j][l] => i = j /\ k = l

(* What g carries of S, f carried, each sequence short of h[i] first ones. *)
Shifted(f, g, I, S, h) ==
  \A i \in I : \A k \in 1 .. Len(g[i]) :
    g[i][k] \in S => k + h[i] \in 1 .. Len(f[i]) /\ g[i][k] = f[i][k + h[i]]

Part(f, g, I, S) == \E h \in [I -> Nat] : Shifted(f, g, I, S, h)

LEMMA PartKeeps ==
  ASSUME NEW f, NEW I, NEW S, NEW g, NEW T,
         f \in [I -> Seq(T)], g \in [I -> Seq(T)], Single(f, I, S), Part(f, g, I, S)
  PROVE  /\ Single(g, I, S)
         /\ \A x \in S : Present(g, I, x) => Present(f, I, x)
<1>1. PICK h \in [I -> Nat] : Shifted(f, g, I, S, h)
  BY DEF Part
<1>2. Single(g, I, S)
  <2>1. SUFFICES ASSUME NEW i \in I, NEW j \in I,
                        NEW k \in 1 .. Len(g[i]), NEW l \in 1 .. Len(g[j]),
                        g[i][k] \in S, g[i][k] = g[j][l]
                 PROVE  i = j /\ k = l
    BY DEF Single
  <2>2. /\ k + h[i] \in 1 .. Len(f[i]) /\ g[i][k] = f[i][k + h[i]]
        /\ l + h[j] \in 1 .. Len(f[j]) /\ g[j][l] = f[j][l + h[j]]
    BY <1>1, <2>1 DEF Shifted
  <2>3. i = j /\ k + h[i] = l + h[j]
    BY <2>1, <2>2 DEF Single
  <2>. QED  BY <2>3
<1>3. ASSUME NEW x \in S, Present(g, I, x)
      PROVE  Present(f, I, x)
  <2>1. PICK i \in I : \E k \in 1 .. Len(g[i]) : g[i][k] = x
    BY <1>3 DEF Present, Contains
  <2>2. PICK k \in 1 .. Len(g[i]) : g[i][k] = x
    BY <2>1
  <2>3. k + h[i] \in 1 .. Len(f[i]) /\ f[i][k + h[i]] = x
    BY <1>1, <2>2 DEF Shifted
  <2>. QED  BY <2>3 DEF Present, Contains
<1>. QED  BY <1>2, <1>3

LEMMA Same ==
  ASSUME NEW f, NEW I, NEW S, NEW T, f \in [I -> Seq(T)]
  PROVE  Part(f, f, I, S)
<1>. DEFINE h == [i \in I |-> 0]
<1>1. h \in [I -> Nat] /\ Shifted(f, f, I, S, h)
  BY DEF Shifted
<1>. QED  BY <1>1 DEF Part

LEMMA Emptied ==
  ASSUME NEW f, NEW I, NEW S, NEW T, f \in [I -> Seq(T)], NEW g,
         \A i \in I : g[i] = f[i] \/ g[i] = <<>>
  PROVE  Part(f, g, I, S)
<1>. DEFINE h == [i \in I |-> 0]
<1>1. h \in [I -> Nat] /\ Shifted(f, g, I, S, h)
  BY DEF Shifted
<1>. QED  BY <1>1 DEF Part

LEMMA TailIsPart ==
  ASSUME NEW f, NEW I, NEW S, NEW T, f \in [I -> Seq(T)], NEW i \in I, f[i] # <<>>,
         NEW g, g = [f EXCEPT ![i] = Tail(@)]
  PROVE  Part(f, g, I, S)
<1>. DEFINE h == [j \in I |-> IF j = i THEN 1 ELSE 0]
<1>1. h \in [I -> Nat]
  OBVIOUS
<1>2. Shifted(f, g, I, S, h)
  <2>1. ASSUME NEW j \in I, NEW k \in 1 .. Len(g[j]), j # i
        PROVE  k + h[j] \in 1 .. Len(f[j]) /\ g[j][k] = f[j][k + h[j]]
    BY <2>1
  <2>2. ASSUME NEW k \in 1 .. Len(g[i])
        PROVE  k + h[i] \in 1 .. Len(f[i]) /\ g[i][k] = f[i][k + h[i]]
    <3>1. f[i] \in Seq(T) /\ g[i] = Tail(f[i])
      OBVIOUS
    <3>2. Len(g[i]) = Len(f[i]) - 1 /\ g[i][k] = f[i][k + 1]
      BY <2>2, <3>1
    <3>. QED  BY <3>1, <3>2
  <2>. QED  BY <2>1, <2>2 DEF Shifted
<1>. QED  BY <1>1, <1>2 DEF Part

(* The value that left is nowhere any more. *)
LEMMA HeadLeaves ==
  ASSUME NEW f, NEW I, NEW S, NEW T, f \in [I -> Seq(T)], NEW i \in I, f[i] # <<>>,
         NEW g, g = [f EXCEPT ![i] = Tail(@)], Single(f, I, S), Head(f[i]) \in S
  PROVE  ~Present(g, I, Head(f[i]))
<1>1. SUFFICES ASSUME NEW j \in I, NEW k \in 1 .. Len(g[j]), g[j][k] = Head(f[i])
               PROVE  FALSE
  BY DEF Present, Contains
<1>2. f[i] \in Seq(T) /\ Len(f[i]) > 0 /\ Head(f[i]) = f[i][1]
  OBVIOUS
<1>3. CASE j = i
  <2>1. g[i] = Tail(f[i])
    OBVIOUS
  <2>2. k + 1 \in 1 .. Len(f[i]) /\ g[i][k] = f[i][k + 1]
    BY <1>1, <1>2, <1>3, <2>1
  <2>3. f[i][k + 1] \in S /\ f[i][k + 1] = f[i][1] /\ 1 \in 1 .. Len(f[i])
    BY <1>1, <1>2, <1>3, <2>2
  <2>4. k + 1 = 1
    BY <2>2, <2>3 DEF Single
  <2>. QED  BY <2>4
<1>4. CASE j # i
  <2>1. g[j] = f[j]
    BY <1>4
  <2>2. f[j][k] = f[i][1] /\ 1 \in 1 .. Len(f[i]) /\ f[j][k] \in S
    BY <1>1, <1>2, <2>1
  <2>. QED  BY <1>1, <1>4, <2>1, <2>2 DEF Single
<1>. QED  BY <1>3, <1>4

(* A value nobody carries is added at one end. *)
LEMMA OneMore ==
  ASSUME NEW f, NEW I, NEW S, NEW T, f \in [I -> Seq(T)], NEW i \in I,
         NEW x \in T, NEW g, g[i] = Append(f[i], x), \A j \in I : j # i => g[j] = f[j],
         Single(f, I, S), ~Present(f, I, x)
  PROVE  /\ Single(g, I, S)
         /\ \A y \in T : Present(g, I, y) => Present(f, I, y) \/ y = x
<1>1. ASSUME NEW j \in I, NEW k \in 1 .. Len(g[j])
      PROVE  \/ k \in 1 .. Len(f[j]) /\ g[j][k] = f[j][k]
             \/ j = i /\ k = Len(f[i]) + 1 /\ g[j][k] = x
  <2>1. f[j] \in Seq(T) /\ f[i] \in Seq(T)
    OBVIOUS
  <2>2. CASE j = i
    <3>1. g[j] = Append(f[i], x)
      BY <2>2
    <3>. QED  BY <1>1, <2>1, <2>2, <3>1
  <2>3. CASE j # i
    BY <1>1, <2>3
  <2>. QED  BY <2>2, <2>3
<1>2. \A j \in I : \A k \in 1 .. Len(f[j]) : f[j][k] # x
  BY DEF Present, Contains
<1>3. Single(g, I, S)
  <2>1. SUFFICES ASSUME NEW a \in I, NEW b \in I,
                        NEW k \in 1 .. Len(g[a]), NEW l \in 1 .. Len(g[b]),
                        g[a][k] \in S, g[a][k] = g[b][l]
                 PROVE  a = b /\ k = l
    BY DEF Single
  <2>2. \/ k \in 1 .. Len(f[a]) /\ g[a][k] = f[a][k]
        \/ a = i /\ k = Len(f[i]) + 1 /\ g[a][k] = x
    BY <1>1
  <2>3. \/ l \in 1 .. Len(f[b]) /\ g[b][l] = f[b][l]
        \/ b = i /\ l = Len(f[i]) + 1 /\ g[b][l] = x
    BY <1>1
  <2>. QED  BY <1>2, <2>1, <2>2, <2>3 DEF Single
<1>4. ASSUME NEW y \in T, Present(g, I, y)
      PROVE  Present(f, I, y) \/ y = x
  BY <1>1, <1>4 DEF Present, Contains
<1>. QED  BY <1>3, <1>4

(* Frames that carry no message are added, or whole channels dropped. *)
LEMMA PushedOther ==
  ASSUME NEW f, NEW S, NEW T, f \in [Conns -> Seq(T)], NEW x \in T, x \notin S,
         NEW g, \A j \in Conns : g[j] = f[j] \/ g[j] = f[j] \o <<x>> \/ g[j] = <<>>
  PROVE  Part(f, g, Conns, S)
<1>. DEFINE h == [j \in Conns |-> 0]
<1>1. ASSUME NEW j \in Conns, NEW k \in 1 .. Len(g[j]), g[j][k] \in S
      PROVE  k \in 1 .. Len(f[j]) /\ g[j][k] = f[j][k]
  <2>1. f[j] \in Seq(T)
    OBVIOUS
  <2>2. CASE g[j] = f[j]
    BY <1>1, <2>2
  <2>3. CASE g[j] = f[j] \o <<x>>
    BY <1>1, <2>1, <2>3
  <2>4. CASE g[j] = <<>>
    BY <1>1, <2>4
  <2>. QED  BY <2>2, <2>3, <2>4
<1>2. h \in [Conns -> Nat] /\ Shifted(f, g, Conns, S, h)
  BY <1>1 DEF Shifted
<1>. QED  BY <1>2 DEF Part

LEMMA CutIsPart ==
  ASSUME NEW f, NEW S, NEW T, f \in [Conns -> Seq(T)], NEW c \in Conns,
         NEW r \in Prefixes(f[c]), NEW g, g = [f EXCEPT ![c] = r]
  PROVE  Part(f, g, Conns, S)
<1>. DEFINE h == [j \in Conns |-> 0]
<1>1. PICK n \in 0 .. Len(f[c]) : r = SubSeq(f[c], 1, n)
  BY DEF Prefixes
<1>2. ASSUME NEW j \in Conns, NEW k \in 1 .. Len(g[j])
      PROVE  k \in 1 .. Len(f[j]) /\ g[j][k] = f[j][k]
  <2>1. f[j] \in Seq(T) /\ f[c] \in Seq(T)
    OBVIOUS
  <2>2. CASE j = c
    <3>1. g[j] = SubSeq(f[c], 1, n)
      BY <1>1, <2>2
    <3>. QED  BY <1>1, <1>2, <2>1, <2>2, <3>1
  <2>3. CASE j # c
    BY <1>2, <2>3
  <2>. QED  BY <2>2, <2>3
<1>3. h \in [Conns -> Nat] /\ Shifted(f, g, Conns, S, h)
  BY <1>2 DEF Shifted
<1>. QED  BY <1>3 DEF Part

-----------------------------------------------------------------------------
(* The invariant *)

Sends == {Send(m) : m \in Msgs}

(* A row is there exactly as long as its message waits. *)
RowsMatch == \A m \in Msgs : seq[m] > 0 <=> fate[m] = "queued"

CopiesInv ==
  /\ TableInv /\ RowsMatch
  /\ Single(toRun, Conns, Sends) /\ Single(pend, Procs, Msgs)
  /\ \A m \in Msgs : /\ Present(toRun, Conns, Send(m)) => fate[m] = "relayed"
                     /\ Present(pend, Procs, m) => fate[m] = "relayed"
                     /\ ~(Present(toRun, Conns, Send(m)) /\ Present(pend, Procs, m))
  /\ \A p \in Procs : turn[p] \in Msgs => fate[turn[p]] = "ran"
  /\ \A p, r \in Procs : turn[p] \in Msgs /\ turn[p] = turn[r] => p = r

LEMMA SendIsInjective == \A m, n : Send(m) = Send(n) => m = n
BY DEF Send

LEMMA CopiesNext ==
  CopiesInv' <=>
    /\ TableInv' /\ RowsMatch'
    /\ Single(toRun', Conns, Sends) /\ Single(pend', Procs, Msgs)
    /\ \A m \in Msgs : /\ Present(toRun', Conns, Send(m)) => fate'[m] = "relayed"
                       /\ Present(pend', Procs, m) => fate'[m] = "relayed"
                       /\ ~(Present(toRun', Conns, Send(m)) /\ Present(pend', Procs, m))
    /\ \A p \in Procs : turn'[p] \in Msgs => fate'[turn'[p]] = "ran"
    /\ \A p, r \in Procs : turn'[p] \in Msgs /\ turn'[p] = turn'[r] => p = r
BY DEF CopiesInv, Single, Present, Sends, Send, Contains

(* Steps that lose copies, or none. *)
LEMMA CopiesShrink ==
  ASSUME CopiesInv, TableInv', RowsMatch',
         Part(toRun, toRun', Conns, Sends), Part(pend, pend', Procs, Msgs),
         \A m \in Msgs : Present(toRun', Conns, Send(m)) \/ Present(pend', Procs, m)
                           => fate'[m] = fate[m],
         \A p \in Procs : turn'[p] \in Msgs
                            => turn'[p] = turn[p] /\ fate'[turn[p]] = fate[turn[p]]
  PROVE  CopiesInv'
<1>1. /\ toRun \in [Conns -> Seq(Frames)] /\ toRun' \in [Conns -> Seq(Frames)]
      /\ pend \in [Procs -> Seq(Msgs)] /\ pend' \in [Procs -> Seq(Msgs)]
  BY DEF CopiesInv, TableInv, Types, WireTypes, RunnerTypes
<1>2. /\ Single(toRun', Conns, Sends)
      /\ \A x \in Sends : Present(toRun', Conns, x) => Present(toRun, Conns, x)
  BY <1>1, PartKeeps DEF CopiesInv
<1>3. /\ Single(pend', Procs, Msgs)
      /\ \A m \in Msgs : Present(pend', Procs, m) => Present(pend, Procs, m)
  BY <1>1, PartKeeps DEF CopiesInv
<1>4. \A m \in Msgs : Present(toRun', Conns, Send(m)) => Present(toRun, Conns, Send(m))
  BY <1>2 DEF Sends
<1>5. \A m \in Msgs : /\ Present(toRun', Conns, Send(m)) => fate'[m] = "relayed"
                      /\ Present(pend', Procs, m) => fate'[m] = "relayed"
                      /\ ~(Present(toRun', Conns, Send(m)) /\ Present(pend', Procs, m))
  BY <1>3, <1>4 DEF CopiesInv
<1>6. \A p \in Procs : turn'[p] \in Msgs => fate'[turn'[p]] = "ran"
  BY DEF CopiesInv
<1>7. \A p, r \in Procs : turn'[p] \in Msgs /\ turn'[p] = turn'[r] => p = r
  BY DEF CopiesInv
<1>. QED  BY <1>2, <1>3, <1>5, <1>6, <1>7, CopiesNext

(* The relay of a message that waited, or of a new one. *)
LEMMA CopiesRelay ==
  ASSUME CopiesInv, TableInv', RowsMatch', NEW m \in Msgs,
         fate[m] \notin {"relayed", "ran"}, fate'[m] = "relayed",
         \A n \in Msgs : fate[n] \in {"relayed", "ran"} => fate'[n] = fate[n],
         toRun' = Push(toRun, reg, <<Send(m)>>), UNCHANGED <<pend, turn>>
  PROVE  CopiesInv'
<1>1. /\ toRun \in [Conns -> Seq(Frames)] /\ toRun' \in [Conns -> Seq(Frames)]
      /\ Send(m) \in Frames
  BY WordTypes DEF CopiesInv, TableInv, Types, WireTypes
<1>2. ~Present(toRun, Conns, Send(m)) /\ ~Present(pend, Procs, m)
  BY DEF CopiesInv
<1>3. /\ Single(toRun', Conns, Sends)
      /\ \A n \in Msgs : Present(toRun', Conns, Send(n)) => Present(toRun, Conns, Send(n)) \/ n = m
  <2>1. CASE reg \in Conns /\ alive[reg]
    <3>1. toRun' = [toRun EXCEPT ![reg] = Append(@, Send(m))]
      <4>1. \A s \in Seq(Frames) : s \o <<Send(m)>> = Append(s, Send(m))
        BY <1>1, AppendIsConcat
      <4>2. toRun' = [toRun EXCEPT ![reg] = @ \o <<Send(m)>>] /\ toRun[reg] \in Seq(Frames)
        BY <1>1, <2>1 DEF Push
      <4>. QED  BY <4>1, <4>2
    <3>2. /\ Single(toRun', Conns, Sends)
          /\ \A y \in Frames : Present(toRun', Conns, y) => Present(toRun, Conns, y) \/ y = Send(m)
      <4>1. Single(toRun, Conns, Sends) /\ ~Present(toRun, Conns, Send(m))
        BY <1>2 DEF CopiesInv
      <4>2. reg \in Conns /\ toRun \in [Conns -> Seq(Frames)] /\ Send(m) \in Frames
        BY <1>1, <2>1
      <4>. DEFINE g == [toRun EXCEPT ![reg] = Append(@, Send(m))]
      <4>3. /\ Single(g, Conns, Sends)
            /\ \A y \in Frames : Present(g, Conns, y) => Present(toRun, Conns, y) \/ y = Send(m)
        <5>1. g[reg] = Append(toRun[reg], Send(m)) /\ \A j \in Conns : j # reg => g[j] = toRun[j]
          BY <4>2
        <5>. HIDE DEF g
        <5>2. reg \in Conns /\ Send(m) \in Frames
          BY <4>2
        <5>3. toRun \in [Conns -> Seq(Frames)]
          BY <4>2
        <5>. QED  BY ONLY <4>1, <5>1, <5>2, <5>3, OneMore
      <4>4. toRun' = g
        BY <3>1
      <4>. HIDE DEF g
      <4>. QED  BY <4>3, <4>4
    <3>. QED  BY <3>2, SendIsInjective, WordTypes
  <2>2. CASE ~(reg \in Conns /\ alive[reg])
    BY <2>2 DEF Push, CopiesInv
  <2>. QED  BY <2>1, <2>2
<1>4. pend' = pend /\ turn' = turn
  OBVIOUS
<1>. QED  BY <1>2, <1>3, <1>4 DEF CopiesInv

LEMMA NotSends ==
  /\ StopFrame \notin Sends /\ Displaced \notin Sends
  /\ \A q : Answer(q) \notin Sends
BY DEF StopFrame, Displaced, Answer, Sends, Send

LEMMA Channels ==
  ASSUME TableInv
  PROVE  /\ toRun \in [Conns -> Seq(Frames)] /\ pend \in [Procs -> Seq(Msgs)]
         /\ turn \in [Procs -> Msgs \cup {"auto", None}] /\ sock \in [Procs -> Conns \cup {None}]
         /\ seq \in [Msgs -> Nat] /\ fate \in [Msgs -> Fates]
BY DEF TableInv, Types, WireTypes, RunnerTypes, ServerTypes, GhostTypes

LEMMA PushPart ==
  ASSUME toRun \in [Conns -> Seq(Frames)], NEW x \in Frames, x \notin Sends,
         NEW d, NEW g, g = Push(toRun, d, <<x>>)
  PROVE  Part(toRun, g, Conns, Sends)
<1>1. \A j \in Conns : g[j] = toRun[j] \/ g[j] = toRun[j] \o <<x>> \/ g[j] = <<>>
  BY DEF Push
<1>. QED  BY <1>1, PushedOther

(* Steps that neither relay a message nor change the fate of a relayed one. *)
LEMMA CopiesStay ==
  ASSUME CopiesInv, TableInv', RowsMatch',
         Part(toRun, toRun', Conns, Sends), UNCHANGED <<pend, turn>>,
         \A m \in Msgs : fate[m] \in {"relayed", "ran"} => fate'[m] = fate[m]
  PROVE  CopiesInv'
<1>1. Part(pend, pend', Procs, Msgs) /\ pend' = pend /\ turn' = turn
  BY Channels, Same DEF CopiesInv
<1>2. \A m \in Msgs : Present(toRun', Conns, Send(m)) => Present(toRun, Conns, Send(m))
  <2>1. toRun \in [Conns -> Seq(Frames)] /\ toRun' \in [Conns -> Seq(Frames)]
    BY DEF CopiesInv, TableInv, Types, WireTypes
  <2>2. Single(toRun, Conns, Sends)
    BY DEF CopiesInv
  <2>3. \A x \in Sends : Present(toRun', Conns, x) => Present(toRun, Conns, x)
    BY <2>1, <2>2, PartKeeps
  <2>. QED  BY <2>3 DEF Sends
<1>3. \A m \in Msgs : Present(toRun', Conns, Send(m)) \/ Present(pend', Procs, m)
                        => fate'[m] = fate[m]
  BY <1>1, <1>2 DEF CopiesInv
<1>4. \A p \in Procs : turn'[p] \in Msgs
                         => turn'[p] = turn[p] /\ fate'[turn[p]] = fate[turn[p]]
  BY <1>1 DEF CopiesInv
<1>. QED  BY <1>1, <1>3, <1>4, CopiesShrink

LEMMA CopiesDrain ==
  ASSUME CopiesInv, TableInv', UNCHANGED <<pend, turn>>,
         NEW s \in [Msgs -> Nat], NEW f \in [Msgs -> Fates], NEW c, NEW v,
         \A m \in Msgs : f[m] = fate[m] \/ (fate[m] = "new" /\ f[m] = "queued"),
         \A m \in Msgs : s[m] > 0 <=> f[m] = "queued",
         DrainQueue(c, v, s, f)
  PROVE  CopiesInv'
<1>1. CASE seq' = s /\ fate' = f /\ UNCHANGED toRun
  <2>1. RowsMatch'
    BY <1>1 DEF RowsMatch
  <2>2. Part(toRun, toRun', Conns, Sends)
    BY <1>1, Channels, Same DEF CopiesInv
  <2>3. \A m \in Msgs : fate[m] \in {"relayed", "ran"} => fate'[m] = fate[m]
    BY <1>1
  <2>. QED  BY <2>1, <2>2, <2>3, CopiesStay
<1>2. CASE /\ Waiting(s) # {} /\ Relay(c, v, Oldest(s)) /\ seq' = TakeRow(s, Oldest(s))
           /\ fate' = [f EXCEPT ![Oldest(s)] = "relayed"]
  <2>. DEFINE o == Oldest(s)
  <2>1. o \in Msgs /\ s[o] > 0
    BY <1>2, OldestWaits DEF Waiting
  <2>2. fate' = [f EXCEPT ![o] = "relayed"] /\ seq' = [s EXCEPT ![o] = 0]
    BY <1>2 DEF TakeRow
  <2>3. toRun' = Push(toRun, reg, <<Send(o)>>)
    BY <1>2 DEF Relay
  <2>. HIDE DEF o
  <2>4. fate[o] \notin {"relayed", "ran"} /\ fate'[o] = "relayed"
    BY <2>1, <2>2
  <2>5. \A m \in Msgs : fate[m] \in {"relayed", "ran"} => fate'[m] = fate[m]
    BY <2>1, <2>2
  <2>6. RowsMatch'
    BY <2>1, <2>2 DEF RowsMatch
  <2>. QED  BY <2>1, <2>3, <2>4, <2>5, <2>6, CopiesRelay
<1>. QED  BY <1>1, <1>2 DEF DrainQueue

(* The clients. *)
LEMMA ClientCopies ==
  ASSUME CopiesInv, TableInv', ClientStep
  PROVE  CopiesInv'
<1>0. TableInv /\ RowsMatch
  BY DEF CopiesInv
<1>. USE Channels, <1>0
<1>1. ASSUME NEW m \in Msgs, SendNow(m)
      PROVE  CopiesInv'
  <2>1. fate[m] = "new" /\ fate' = [fate EXCEPT ![m] = "relayed"] /\ seq' = seq
        /\ toRun' = Push(toRun, reg, <<Send(m)>>) /\ UNCHANGED <<pend, turn>>
    BY <1>1 DEF SendNow, Accept, Relay, runnerVars
  <2>2. RowsMatch'
    BY <2>1 DEF RowsMatch
  <2>. QED  BY <2>1, <2>2, CopiesRelay
<1>2. ASSUME NEW m \in Msgs, Enqueue(m)
      PROVE  CopiesInv'
  <2>. DEFINE s == [seq EXCEPT ![m] = NextRank(seq)]
              f == [fate EXCEPT ![m] = "queued"]
  <2>1. s \in [Msgs -> Nat]
    BY <1>2, EnqueuedRows
  <2>2. NextRank(seq) > 0 /\ NextRank(seq) \in Nat
    <3>1. seq \in [Msgs -> Nat]
      OBVIOUS
    <3>2. accepted \in Nat /\ \A n \in Msgs : seq[n] <= accepted
      BY DEF TableInv, Types, GhostTypes, RanksBounded
    <3>. QED  BY <3>1, <3>2, NextRankType
  <2>3. f \in [Msgs -> Fates] /\ fate[m] = "new"
    BY <1>2 DEF Fates, Enqueue, Accept
  <2>4. \A n \in Msgs : s[n] > 0 <=> f[n] = "queued"
    BY <2>2 DEF RowsMatch
  <2>5. \A n \in Msgs : f[n] = fate[n] \/ (fate[n] = "new" /\ f[n] = "queued")
    BY <2>3
  <2>6. DrainQueue(conn, view, s, f) /\ UNCHANGED <<pend, turn>>
    BY <1>2 DEF Enqueue, runnerVars
  <2>. HIDE DEF s, f
  <2>. QED  BY <2>1, <2>3, <2>4, <2>5, <2>6, CopiesDrain
<1>3. ASSUME NEW m \in Msgs, Reject(m)
      PROVE  CopiesInv'
  <2>1. fate[m] = "new" /\ fate' = [fate EXCEPT ![m] = "rejected"]
        /\ UNCHANGED <<seq, toRun, pend, turn>>
    BY <1>3 DEF Reject, serverVars, wireVars, runnerVars
  <2>2. RowsMatch'
    BY <2>1 DEF RowsMatch
  <2>3. Part(toRun, toRun', Conns, Sends)
    BY <2>1, Same
  <2>. QED  BY <2>1, <2>2, <2>3, CopiesStay
<1>4. ASSUME NEW S \in SUBSET Waiting(seq), NEW why \in {"cancelled", "dropped"}, Drop(S, why)
      PROVE  CopiesInv'
  <2>1. /\ seq' = [m \in Msgs |-> IF m \in S THEN 0 ELSE seq[m]]
        /\ fate' = [m \in Msgs |-> IF m \in S THEN why ELSE fate[m]]
        /\ UNCHANGED <<toRun, pend, turn>>
    BY <1>4 DEF Drop, wireVars, runnerVars
  <2>2. \A m \in S : fate[m] = "queued"
    BY DEF RowsMatch, Waiting
  <2>3. RowsMatch'
    BY <2>1, <2>2 DEF RowsMatch
  <2>4. Part(toRun, toRun', Conns, Sends)
    BY <2>1, Same
  <2>5. \A m \in Msgs : fate[m] \in {"relayed", "ran"} => fate'[m] = fate[m]
    BY <2>1, <2>2
  <2>. QED  BY <2>1, <2>3, <2>4, <2>5, CopiesStay
<1>5. ASSUME NEW m \in Msgs, QueueCancel(m)
      PROVE  CopiesInv'
  BY <1>4, <1>5 DEF QueueCancel
<1>6. CASE QueueClear
  BY <1>4, <1>6 DEF QueueClear
<1>7. CASE Stop \/ AnswerCard \/ SessionFrame
  <2>1. UNCHANGED <<seq, fate, pend, turn>>
    BY <1>7 DEF Stop, AnswerCard, SessionFrame, runnerVars, ghostVars
  <2>2. Part(toRun, toRun', Conns, Sends)
    <3>1. CASE UNCHANGED toRun
      BY <3>1, Same
    <3>2. CASE toRun' = Push(toRun, reg, <<StopFrame>>)
      BY <3>2, WordTypes, NotSends, PushPart
    <3>3. CASE AnswerCard /\ toRun' = Push(toRun, reg, <<Answer(view.card)>>)
      <4>1. view \in Views /\ view.card # None
        BY <3>3 DEF AnswerCard, TableInv, Types, ServerTypes
      <4>2. Answer(view.card) \in Frames
        BY <4>1, WordTypes DEF Views
      <4>. QED  BY <3>3, <4>2, NotSends, PushPart
    <3>4. Stop => UNCHANGED toRun \/ toRun' = Push(toRun, reg, <<StopFrame>>)
      BY DEF Stop
    <3>5. AnswerCard => UNCHANGED toRun \/ toRun' = Push(toRun, reg, <<Answer(view.card)>>)
      BY DEF AnswerCard
    <3>6. SessionFrame => UNCHANGED toRun
      BY DEF SessionFrame, wireVars
    <3>. QED  BY <1>7, <3>1, <3>2, <3>3, <3>4, <3>5, <3>6
  <2>3. RowsMatch'
    BY <2>1 DEF RowsMatch
  <2>. QED  BY <2>1, <2>2, <2>3, CopiesStay
<1>. QED  BY <1>1, <1>2, <1>3, <1>5, <1>6, <1>7 DEF ClientStep

(* The server's end of the runner socket. *)
LEMMA ServerCopies ==
  ASSUME CopiesInv, TableInv', ServerStep
  PROVE  CopiesInv'
<1>0. TableInv /\ RowsMatch
  BY DEF CopiesInv
<1>. USE Channels, <1>0
<1>1. ASSUME NEW c, NEW v, DrainQueue(c, v, seq, fate), UNCHANGED <<pend, turn>>
      PROVE  CopiesInv'
  <2>1. seq \in [Msgs -> Nat] /\ fate \in [Msgs -> Fates]
    OBVIOUS
  <2>2. \A m \in Msgs : seq[m] > 0 <=> fate[m] = "queued"
    BY DEF RowsMatch
  <2>. QED  BY <1>1, <2>1, <2>2, CopiesDrain
<1>2. ASSUME NEW c \in Conns, RecvHello(c) \/ RecvTurnDone(c)
      PROVE  CopiesInv'
  BY <1>1, <1>2 DEF RecvHello, RecvTurnDone, runnerVars
<1>3. CASE GiveUp
  <2>1. /\ seq' = [m \in Msgs |-> IF m \in Waiting(seq) THEN 0 ELSE seq[m]]
        /\ fate' = [m \in Msgs |-> IF m \in Waiting(seq) THEN "dropped" ELSE fate[m]]
        /\ UNCHANGED <<toRun, pend, turn>>
    BY <1>3 DEF GiveUp, Drop, wireVars, runnerVars
  <2>2. \A m \in Waiting(seq) : fate[m] = "queued"
    BY DEF RowsMatch, Waiting
  <2>3. RowsMatch'
    BY <2>1, <2>2 DEF RowsMatch
  <2>4. Part(toRun, toRun', Conns, Sends)
    BY <2>1, Same
  <2>5. \A m \in Msgs : fate[m] \in {"relayed", "ran"} => fate'[m] = fate[m]
    BY <2>1, <2>2
  <2>. QED  BY <2>1, <2>3, <2>4, <2>5, CopiesStay
<1>4. ASSUME UNCHANGED <<seq, fate, toRun, pend, turn>>
      PROVE  CopiesInv'
  <2>1. Part(toRun, toRun', Conns, Sends)
    BY <1>4, Same
  <2>2. RowsMatch'
    BY <1>4 DEF RowsMatch
  <2>. QED  BY <1>4, <2>1, <2>2, CopiesStay
<1>5. ASSUME NEW c \in Conns,
             RecvIgnored(c) \/ RecvTurnStart(c) \/ RecvQuestion(c) \/ RecvQuestionDone(c)
      PROVE  UNCHANGED <<seq, fate, toRun, pend, turn>>
  BY <1>5 DEF RecvIgnored, RecvTurnStart, RecvQuestion, RecvQuestionDone, serverVars,
       runnerVars, ghostVars
<1>6. ASSUME NEW c \in Conns, SocketLost(c) \/ SocketClosed(c)
      PROVE  UNCHANGED <<seq, fate, toRun, pend, turn>>
  <2>1. Teardown(c) => UNCHANGED <<seq, fate, toRun, pend, turn>>
    BY DEF Teardown, runnerVars, ghostVars
  <2>. QED  BY <1>6, <2>1 DEF SocketLost, SocketClosed, serverVars, runnerVars, ghostVars
<1>7. CASE SweepDrop \/ Prune
  BY <1>4, <1>7 DEF SweepDrop, Prune, wireVars, runnerVars, ghostVars
<1>. QED  BY <1>2, <1>3, <1>4, <1>5, <1>6, <1>7 DEF ServerStep, Deliver

(* The frame that leaves a channel. *)
LEMMA HeardPart ==
  ASSUME TableInv, NEW p \in Procs, NEW t, Hears(p, t), Heard(p)
  PROVE  /\ sock[p] \in Conns /\ toRun[sock[p]] # <<>>
         /\ toRun' = [toRun EXCEPT ![sock[p]] = Tail(@)]
         /\ Part(toRun, toRun', Conns, Sends)
<1>1. sock[p] \in Conns /\ toRun[sock[p]] # <<>>
  BY Channels DEF Hears
<1>2. toRun' = [toRun EXCEPT ![sock[p]] = Tail(@)]
  BY DEF Heard
<1>3. Part(toRun, toRun', Conns, Sends)
  BY <1>1, <1>2, Channels, TailIsPart
<1>. QED  BY <1>1, <1>2, <1>3

(* Steps that only lose what was said, pending or running. *)
LEMMA CopiesLose ==
  ASSUME CopiesInv, TableInv', UNCHANGED <<seq, fate>>, Part(toRun, toRun', Conns, Sends),
         \A r \in Procs : pend'[r] = pend[r] \/ pend'[r] = <<>>,
         \A r \in Procs : turn'[r] = turn[r] \/ turn'[r] \notin Msgs
  PROVE  CopiesInv'
<1>1. TableInv /\ RowsMatch
  BY DEF CopiesInv
<1>2. RowsMatch'
  BY <1>1 DEF RowsMatch
<1>3. Part(pend, pend', Procs, Msgs)
  BY <1>1, Channels, Emptied
<1>. QED  BY <1>2, <1>3, CopiesShrink

LEMMA SendFrames ==
  ASSUME NEW r \in Frames, r.t = "send"
  PROVE  r.msg \in Msgs /\ r = Send(r.msg)
BY DEF Frames, Send, StopFrame, Displaced

LEMMA HeadIsThere ==
  ASSUME NEW f, NEW I, NEW T, f \in [I -> Seq(T)], NEW i \in I, f[i] # <<>>
  PROVE  Present(f, I, Head(f[i])) /\ Head(f[i]) \in T
<1>1. f[i] \in Seq(T) /\ 1 \in 1 .. Len(f[i]) /\ Head(f[i]) = f[i][1]
  OBVIOUS
<1>. QED  BY <1>1 DEF Present, Contains

(* The runner takes a send from its socket into pendingTexts. *)
LEMMA HearSendCopies ==
  ASSUME CopiesInv, TableInv', NEW p \in Procs, HearSend(p)
  PROVE  CopiesInv'
<1>0. TableInv /\ RowsMatch /\ Single(toRun, Conns, Sends) /\ Single(pend, Procs, Msgs)
  BY DEF CopiesInv
<1>. DEFINE m == Said(p)
<1>1. /\ sock[p] \in Conns /\ toRun[sock[p]] # <<>>
      /\ toRun' = [toRun EXCEPT ![sock[p]] = Tail(@)]
      /\ Part(toRun, toRun', Conns, Sends)
  BY <1>0, HeardPart DEF HearSend
<1>2. toRun \in [Conns -> Seq(Frames)] /\ pend \in [Procs -> Seq(Msgs)]
  BY <1>0, Channels
<1>3. toRun' \in [Conns -> Seq(Frames)]
  BY Channels DEF TableInv, Types, WireTypes
<1>4. Present(toRun, Conns, Head(toRun[sock[p]])) /\ Head(toRun[sock[p]]) \in Frames
  BY <1>1, <1>2, HeadIsThere
<1>5. m \in Msgs /\ Head(toRun[sock[p]]) = Send(m)
  BY <1>4, SendFrames DEF HearSend, Hears, Said
<1>6. pend' = [pend EXCEPT ![p] = Append(@, m)] /\ UNCHANGED <<seq, fate, turn>>
  BY DEF HearSend, serverVars, ghostVars
<1>. HIDE DEF m
<1>7. fate[m] = "relayed" /\ ~Present(pend, Procs, m)
  BY <1>4, <1>5 DEF CopiesInv
<1>8. ~Present(toRun', Conns, Send(m))
  <2>1. Head(toRun[sock[p]]) \in Sends
    BY <1>5 DEF Sends
  <2>. QED  BY <1>0, <1>1, <1>2, <1>5, <2>1, HeadLeaves
<1>9. /\ Single(toRun', Conns, Sends)
      /\ \A x \in Sends : Present(toRun', Conns, x) => Present(toRun, Conns, x)
  BY <1>0, <1>1, <1>2, <1>3, PartKeeps
<1>10. /\ Single(pend', Procs, Msgs)
       /\ \A y \in Msgs : Present(pend', Procs, y) => Present(pend, Procs, y) \/ y = m
  <2>1. pend'[p] = Append(pend[p], m) /\ \A r \in Procs : r # p => pend'[r] = pend[r]
    BY <1>2, <1>6
  <2>. QED  BY <1>0, <1>2, <1>5, <1>7, <2>1, OneMore
<1>11. \A n \in Msgs : Present(toRun', Conns, Send(n)) => Present(toRun, Conns, Send(n))
  BY <1>9 DEF Sends
<1>12. \A n \in Msgs : /\ Present(toRun', Conns, Send(n)) => fate'[n] = "relayed"
                       /\ Present(pend', Procs, n) => fate'[n] = "relayed"
                       /\ ~(Present(toRun', Conns, Send(n)) /\ Present(pend', Procs, n))
  BY <1>5, <1>6, <1>7, <1>8, <1>10, <1>11 DEF CopiesInv
<1>13. RowsMatch'
  BY <1>0, <1>6 DEF RowsMatch
<1>14. /\ \A r \in Procs : turn'[r] \in Msgs => fate'[turn'[r]] = "ran"
       /\ \A r, k \in Procs : turn'[r] \in Msgs /\ turn'[r] = turn'[k] => r = k
  BY <1>6 DEF CopiesInv
<1>. QED  BY <1>9, <1>10, <1>12, <1>13, <1>14, CopiesNext

(* The next pending text becomes the turn. *)
LEMMA StartTurnCopies ==
  ASSUME CopiesInv, TableInv', NEW p \in Procs, StartTurn(p)
  PROVE  CopiesInv'
<1>0. TableInv /\ RowsMatch /\ Single(toRun, Conns, Sends) /\ Single(pend, Procs, Msgs)
  BY DEF CopiesInv
<1>. DEFINE m == Head(pend[p])
<1>1. pend \in [Procs -> Seq(Msgs)] /\ turn \in [Procs -> Msgs \cup {"auto", None}]
      /\ fate \in [Msgs -> Fates] /\ pend' \in [Procs -> Seq(Msgs)]
  BY <1>0, Channels DEF TableInv, Types, RunnerTypes
<1>2. pend[p] # <<>> /\ pend' = [pend EXCEPT ![p] = Tail(@)]
      /\ turn' = [turn EXCEPT ![p] = m] /\ fate' = [fate EXCEPT ![m] = "ran"]
      /\ UNCHANGED <<seq, toRun>>
  BY DEF StartTurn, serverVars
<1>3. Present(pend, Procs, m) /\ m \in Msgs
  BY <1>1, <1>2, HeadIsThere
<1>4. ~Present(pend', Procs, m)
  BY <1>0, <1>1, <1>2, <1>3, HeadLeaves
<1>5. Part(pend, pend', Procs, Msgs)
  BY <1>1, <1>2, TailIsPart
<1>. HIDE DEF m
<1>6. fate[m] = "relayed" /\ ~Present(toRun, Conns, Send(m))
  BY <1>3 DEF CopiesInv
<1>7. /\ Single(pend', Procs, Msgs)
      /\ \A y \in Msgs : Present(pend', Procs, y) => Present(pend, Procs, y)
  BY <1>0, <1>1, <1>5, PartKeeps
<1>8. \A n \in Msgs : /\ Present(toRun', Conns, Send(n)) => fate'[n] = "relayed"
                      /\ Present(pend', Procs, n) => fate'[n] = "relayed"
                      /\ ~(Present(toRun', Conns, Send(n)) /\ Present(pend', Procs, n))
  BY <1>1, <1>2, <1>3, <1>4, <1>6, <1>7 DEF CopiesInv
<1>9. \A r \in Procs : turn[r] # m
  BY <1>3, <1>6 DEF CopiesInv
<1>10. /\ \A r \in Procs : turn'[r] \in Msgs => fate'[turn'[r]] = "ran"
       /\ \A r, k \in Procs : turn'[r] \in Msgs /\ turn'[r] = turn'[k] => r = k
  BY <1>1, <1>2, <1>3, <1>9 DEF CopiesInv
<1>11. RowsMatch'
  BY <1>0, <1>1, <1>2, <1>3, <1>6 DEF RowsMatch
<1>12. Single(toRun', Conns, Sends)
  BY <1>0, <1>2
<1>. QED  BY <1>7, <1>8, <1>10, <1>11, <1>12, CopiesNext

(* Stop cancels what is pending. *)
LEMMA HearStopCopies ==
  ASSUME CopiesInv, TableInv', NEW p \in Procs, HearStop(p)
  PROVE  CopiesInv'
<1>0. TableInv /\ RowsMatch /\ Single(toRun, Conns, Sends) /\ Single(pend, Procs, Msgs)
  BY DEF CopiesInv
<1>1. Part(toRun, toRun', Conns, Sends)
  BY <1>0, HeardPart DEF HearStop
<1>2. /\ toRun \in [Conns -> Seq(Frames)] /\ toRun' \in [Conns -> Seq(Frames)]
      /\ pend \in [Procs -> Seq(Msgs)] /\ pend' \in [Procs -> Seq(Msgs)]
  BY <1>0, Channels DEF TableInv, Types, WireTypes, RunnerTypes
<1>3. /\ pend' = [pend EXCEPT ![p] = <<>>]
      /\ fate' = [n \in Msgs |-> IF Contains(pend[p], n) THEN "stopped" ELSE fate[n]]
      /\ UNCHANGED <<seq, turn>>
  BY DEF HearStop, serverVars
<1>4. Part(pend, pend', Procs, Msgs)
  BY <1>2, <1>3, Emptied
<1>5. \A n \in Msgs : Contains(pend[p], n) => Present(pend, Procs, n) /\ fate[n] = "relayed"
  BY DEF CopiesInv, Present
<1>6. ASSUME NEW n \in Msgs, Present(pend', Procs, n)
      PROVE  ~Contains(pend[p], n)
  <2>1. PICK r \in Procs : Contains(pend'[r], n)
    BY <1>6 DEF Present
  <2>2. r # p /\ pend'[r] = pend[r]
    BY <1>2, <1>3, <2>1 DEF Contains
  <2>3. PICK k \in 1 .. Len(pend[r]) : pend[r][k] = n
    BY <2>1, <2>2 DEF Contains
  <2>. QED  BY <1>0, <1>6, <2>2, <2>3 DEF Single, Contains
<1>7. \A x \in Sends : Present(toRun', Conns, x) => Present(toRun, Conns, x)
  BY <1>0, <1>1, <1>2, PartKeeps
<1>8. ASSUME NEW n \in Msgs, Present(toRun', Conns, Send(n))
      PROVE  ~Contains(pend[p], n)
  BY <1>5, <1>7, <1>8 DEF CopiesInv, Sends
<1>9. \A n \in Msgs : Present(toRun', Conns, Send(n)) \/ Present(pend', Procs, n)
                        => fate'[n] = fate[n]
  BY <1>3, <1>6, <1>8
<1>10. \A r \in Procs : turn'[r] \in Msgs
                          => turn'[r] = turn[r] /\ fate'[turn[r]] = fate[turn[r]]
  <2>1. \A r \in Procs : turn[r] \in Msgs => ~Contains(pend[p], turn[r])
    BY <1>5 DEF CopiesInv
  <2>. QED  BY <1>3, <2>1
<1>11. RowsMatch'
  BY <1>0, <1>3, <1>5 DEF RowsMatch
<1>. QED  BY <1>1, <1>4, <1>9, <1>10, <1>11, CopiesShrink

(* The runner and its sockets. *)
LEMMA RunnerCopies ==
  ASSUME CopiesInv, TableInv', RunnerStep
  PROVE  CopiesInv'
<1>0. TableInv
  BY DEF CopiesInv
<1>1. /\ toRun \in [Conns -> Seq(Frames)] /\ pend \in [Procs -> Seq(Msgs)]
      /\ turn \in [Procs -> Msgs \cup {"auto", None}]
  BY <1>0, Channels
<1>2. "auto" \notin Msgs /\ None \notin Msgs
  BY ConstantsAssumption
<1>3. ASSUME UNCHANGED toRun
      PROVE  Part(toRun, toRun', Conns, Sends)
  BY <1>1, <1>3, Same
<1>4. ASSUME NEW p \in Procs, Exit(p)
      PROVE  /\ UNCHANGED <<seq, fate>>
             /\ \A r \in Procs : pend'[r] = pend[r] \/ pend'[r] = <<>>
             /\ \A r \in Procs : turn'[r] = turn[r] \/ turn'[r] \notin Msgs
  BY <1>1, <1>2, <1>4 DEF Exit, serverVars, ghostVars
<1>5. ASSUME NEW p \in Procs, HearDisplaced(p)
      PROVE  CopiesInv'
  <2>1. Part(toRun, toRun', Conns, Sends)
    BY <1>0, <1>5, HeardPart DEF HearDisplaced
  <2>. QED  BY <1>4, <1>5, <2>1, CopiesLose DEF HearDisplaced
<1>6. ASSUME NEW p \in Procs, HearAnswer(p)
      PROVE  CopiesInv'
  <2>1. Part(toRun, toRun', Conns, Sends)
    BY <1>0, <1>6, HeardPart DEF HearAnswer
  <2>2. UNCHANGED <<seq, fate, pend, turn>>
    BY <1>6 DEF HearAnswer, serverVars, ghostVars
  <2>. QED  BY <2>1, <2>2, CopiesLose
<1>7. ASSUME NEW p \in Procs, StartAutonomousTurn(p) \/ FinishTurn(p)
      PROVE  CopiesInv'
  <2>1. /\ UNCHANGED <<seq, fate, toRun, pend>>
        /\ turn' = [turn EXCEPT ![p] = "auto"] \/ turn' = [turn EXCEPT ![p] = None]
    BY <1>7 DEF StartAutonomousTurn, FinishTurn, serverVars, ghostVars
  <2>2. \A r \in Procs : turn'[r] = turn[r] \/ turn'[r] \notin Msgs
    BY <1>1, <1>2, <2>1
  <2>. QED  BY <1>3, <2>1, <2>2, CopiesLose
<1>8. ASSUME NEW p \in Procs, LoseSocket(p) \/ Spawn(p) \/ \E q \in Questions : Ask(p, q)
      PROVE  CopiesInv'
  <2>1. UNCHANGED <<seq, fate, toRun, pend, turn>>
    BY <1>8 DEF LoseSocket, Spawn, Ask, serverVars, wireVars, ghostVars
  <2>. QED  BY <1>3, <2>1, CopiesLose
<1>9. ASSUME NEW p \in Procs, NEW c \in Conns, Connect(p, c)
      PROVE  CopiesInv'
  <2>1. /\ UNCHANGED <<seq, fate, pend, turn>>
        /\ toRun' = [Push(toRun, reg, <<Displaced>>) EXCEPT ![c] = <<>>]
    BY <1>9 DEF Connect, ghostVars
  <2>2. \A j \in Conns : \/ toRun'[j] = toRun[j] \/ toRun'[j] = toRun[j] \o <<Displaced>>
                         \/ toRun'[j] = <<>>
    BY <1>1, <2>1 DEF Push
  <2>3. Displaced \in Frames /\ Displaced \notin Sends
    BY WordTypes, NotSends
  <2>4. Part(toRun, toRun', Conns, Sends)
    BY <1>1, <2>2, <2>3, PushedOther
  <2>. QED  BY <2>1, <2>4, CopiesLose
<1>. QED
  BY <1>5, <1>6, <1>7, <1>8, <1>9, HearSendCopies, HearStopCopies, StartTurnCopies
     DEF RunnerStep, Hear

(* The faults. *)
LEMMA FaultCopies ==
  ASSUME CopiesInv, TableInv', FaultStep
  PROVE  CopiesInv'
<1>0. TableInv
  BY DEF CopiesInv
<1>1. /\ toRun \in [Conns -> Seq(Frames)] /\ pend \in [Procs -> Seq(Msgs)]
      /\ turn \in [Procs -> Msgs \cup {"auto", None}] /\ None \notin Msgs
  BY <1>0, Channels, ConstantsAssumption
<1>2. CASE ServerRestart
  <2>1. UNCHANGED <<seq, fate, toRun, pend, turn>>
    BY <1>2 DEF ServerRestart, runnerVars, ghostVars
  <2>2. Part(toRun, toRun', Conns, Sends)
    BY <1>1, <2>1, Same
  <2>. QED  BY <2>1, <2>2, CopiesLose
<1>3. ASSUME NEW c \in Conns, CutLink(c)
      PROVE  CopiesInv'
  <2>1. PICK r \in Prefixes(toRun[c]) : toRun' = [toRun EXCEPT ![c] = r]
    BY <1>3 DEF CutLink
  <2>2. Part(toRun, toRun', Conns, Sends)
    BY <1>1, <2>1, CutIsPart
  <2>3. UNCHANGED <<seq, fate, pend, turn>>
    BY <1>3 DEF CutLink, serverVars, runnerVars, ghostVars
  <2>. QED  BY <2>2, <2>3, CopiesLose
<1>4. ASSUME NEW p \in Procs, Crash(p)
      PROVE  CopiesInv'
  <2>1. \A j \in Conns : toRun'[j] = toRun[j] \/ toRun'[j] = <<>>
    BY <1>4 DEF Crash
  <2>2. Part(toRun, toRun', Conns, Sends)
    BY <1>1, <2>1, Emptied
  <2>3. /\ UNCHANGED <<seq, fate>>
        /\ \A r \in Procs : pend'[r] = pend[r] \/ pend'[r] = <<>>
        /\ \A r \in Procs : turn'[r] = turn[r] \/ turn'[r] \notin Msgs
    BY <1>1, <1>4 DEF Crash, Exit, serverVars, ghostVars
  <2>. QED  BY <2>2, <2>3, CopiesLose
<1>. QED  BY <1>2, <1>3, <1>4 DEF FaultStep

LEMMA CopiesInit ==
  ASSUME Init
  PROVE  CopiesInv
<1>1. TableInv
  BY TableInit
<1>2. /\ \A c \in Conns : toRun[c] = <<>>
      /\ \A p \in Procs : pend[p] = <<>> /\ turn[p] = None
      /\ \A m \in Msgs : seq[m] = 0 /\ fate[m] = "new"
  BY DEF Init
<1>3. /\ Single(toRun, Conns, Sends) /\ Single(pend, Procs, Msgs)
      /\ \A m \in Msgs : ~Present(toRun, Conns, Send(m)) /\ ~Present(pend, Procs, m)
  BY <1>2 DEF Single, Present, Contains
<1>. QED  BY <1>1, <1>2, <1>3, ConstantsAssumption DEF CopiesInv, RowsMatch

LEMMA CopiesStep ==
  ASSUME CopiesInv, [Next]_vars
  PROVE  CopiesInv'
<1>1. TableInv'
  BY TableStep DEF CopiesInv
<1>2. CASE UNCHANGED vars
  <2>1. UNCHANGED <<seq, fate, toRun, pend, turn>>
    BY <1>2 DEF vars, serverVars, wireVars, runnerVars, ghostVars
  <2>2. toRun \in [Conns -> Seq(Frames)]
    BY Channels DEF CopiesInv
  <2>3. Part(toRun, toRun', Conns, Sends)
    BY <2>1, <2>2, Same
  <2>. QED  BY <1>1, <2>1, <2>3, CopiesLose
<1>3. CASE Next
  BY <1>1, <1>2, <1>3, ClientCopies, ServerCopies, RunnerCopies, FaultCopies DEF Next, AtRest
<1>. QED  BY <1>2, <1>3

LEMMA CopiesInvariant == Spec => []CopiesInv
<1>1. CopiesInv /\ [Next]_vars => CopiesInv'
  BY CopiesStep
<1>. QED  BY CopiesInit, <1>1, PTL DEF Spec

(* A message is a row, one frame, one pending text or one turn, and never  *)
(* two of them: no reconnect, displaced runner, crash or restart of the    *)
(* server makes a copy (submitSend, drainQueue, the runner's pendingTexts).*)
THEOREM OneCopyKept == Spec => []OneCopy
<1>1. ASSUME CopiesInv, NEW m \in Msgs
      PROVE  \A x, y \in Holding(m) : x = y
  <2>1. \A c, d \in Conns : Contains(toRun[c], Send(m)) /\ Contains(toRun[d], Send(m)) => c = d
    <3>1. Single(toRun, Conns, Sends) /\ Send(m) \in Sends
      BY <1>1 DEF CopiesInv, Sends
    <3>. QED  BY <3>1 DEF Single, Contains
  <2>2. \A p, r \in Procs : Contains(pend[p], m) /\ Contains(pend[r], m) => p = r
    BY <1>1 DEF CopiesInv, Single, Contains
  <2>3. \A p, r \in Procs : turn[p] = m /\ turn[r] = m => p = r
    BY <1>1 DEF CopiesInv
  <2>4. \A c \in Conns : Contains(toRun[c], Send(m)) => Present(toRun, Conns, Send(m))
    BY DEF Present
  <2>5. \A p \in Procs : Contains(pend[p], m) => Present(pend, Procs, m)
    BY DEF Present
  <2>6. \A p, r \in Procs : ~(Contains(pend[p], m) /\ turn[r] = m)
    BY <1>1, <2>5 DEF CopiesInv
  <2>7. \A c \in Conns, p \in Procs :
          Contains(toRun[c], Send(m)) => ~Contains(pend[p], m) /\ turn[p] # m
    BY <1>1, <2>4, <2>5 DEF CopiesInv
  <2>. QED  BY <2>1, <2>2, <2>3, <2>6, <2>7 DEF Holding
<1>2. ASSUME NEW S, \A x, y \in S : x = y
      PROVE  Cardinality(S) <= 1
  <2>1. CASE S = {}
    BY <2>1, FS_EmptySet
  <2>2. CASE S # {}
    <3>1. PICK x \in S : S = {x}
      BY <1>2, <2>2
    <3>. QED  BY <3>1, FS_Singleton
  <2>. QED  BY <2>1, <2>2
<1>3. ASSUME CopiesInv, NEW m \in Msgs
      PROVE  /\ Holding(m) # {} => fate[m] \in {"relayed", "ran"}
             /\ \A p \in Procs : Contains(pend[p], m) => fate[m] = "relayed"
  BY <1>3 DEF CopiesInv, Holding, Present
<1>4. CopiesInv => OneCopy
  <2>1. SUFFICES ASSUME CopiesInv, NEW m \in Msgs
                 PROVE  /\ Cardinality(Holding(m)) <= 1
                        /\ seq[m] > 0 <=> fate[m] = "queued"
                        /\ Holding(m) # {} => fate[m] \in {"relayed", "ran"}
                        /\ \A p \in Procs : Contains(pend[p], m) => fate[m] = "relayed"
    BY DEF OneCopy
  <2>2. Cardinality(Holding(m)) <= 1
    BY <1>1, <1>2, <2>1
  <2>3. seq[m] > 0 <=> fate[m] = "queued"
    BY <2>1 DEF CopiesInv, RowsMatch
  <2>. QED  BY <1>3, <2>1, <2>2, <2>3
<1>. QED  BY <1>4, CopiesInvariant, PTL

-----------------------------------------------------------------------------
(* The link keeps the promise of MessageLine: the mapping *)

StateOf(f) == [m \in Msgs |-> Promised(f[m])]

LEMMA PromisedValues ==
  /\ Promised("new") = "new" /\ Promised("rejected") = "refused"
  /\ Promised("queued") = "waiting" /\ Promised("relayed") = "handed"
  /\ Promised("ran") = "begun" /\ Promised("stopped") = "stopped"
  /\ Promised("cancelled") = "withdrawn" /\ Promised("dropped") = "withdrawn"
BY DEF Promised

LEMMA PromisedBack ==
  ASSUME NEW v \in Fates
  PROVE  /\ Promised(v) = "waiting" <=> v = "queued"
         /\ Promised(v) = "handed" <=> v = "relayed"
         /\ Promised(v) = "new" <=> v = "new"
BY PromisedValues DEF Fates

LEMMA LineIsTable ==
  ASSUME CopiesInv
  PROVE  Promise!Line = Waiting(seq)
<1>1. \A m \in Msgs : Promised(fate[m]) = "waiting" <=> seq[m] > 0
  BY PromisedBack, Channels DEF CopiesInv, RowsMatch
<1>. QED  BY <1>1 DEF Promise!Line, Waiting

(* Steps a client is not told of. *)
LEMMA Unpromised ==
  ASSUME UNCHANGED <<accepted, born>>,
         \A m \in Msgs : Promised(fate'[m]) = Promised(fate[m])
  PROVE  UNCHANGED Promise!vars
BY DEF Promise!vars, Promised

(* The front of the table is the front of the line. *)
LEMMA OldestIsFirst ==
  ASSUME NEW s \in [Msgs -> Nat], NEW b \in [Msgs -> Nat], NEW r \in Nat, InOrder(s, b, r),
         Waiting(s) # {}
  PROVE  Oldest(s) \in Msgs /\ Promise!IsFirst(Oldest(s), Waiting(s), b)
<1>1. Oldest(s) \in Waiting(s) /\ \A n \in Waiting(s) : s[Oldest(s)] <= s[n]
  BY OldestWaits
<1>. DEFINE o == Oldest(s)
<1>2. \A n \in Waiting(s) : n \in Msgs
  BY DEF Waiting
<1>. HIDE DEF o
<1>3. \A n \in Waiting(s) : b[o] <= b[n]
  <2>1. SUFFICES ASSUME NEW n \in Waiting(s), n # o
                 PROVE  b[o] <= b[n]
    BY <1>1, <1>2 DEF o
  <2>2. s[o] <= s[n] /\ s[o] \in Nat /\ s[n] \in Nat /\ b[o] \in Nat /\ b[n] \in Nat
    BY <1>1, <1>2 DEF o
  <2>. QED  BY <1>1, <2>1, <2>2 DEF InOrder, o
<1>. QED  BY <1>1, <1>2, <1>3 DEF o, Promise!IsFirst

(* A drain that follows no submission hands the front one over. *)
LEMMA DrainHands ==
  ASSUME CopiesInv, NEW c, NEW v, DrainQueue(c, v, seq, fate), UNCHANGED <<accepted, born>>
  PROVE  [Promise!Next]_Promise!vars
<1>1. /\ seq \in [Msgs -> Nat] /\ fate \in [Msgs -> Fates] /\ born \in [Msgs -> Nat]
      /\ relayed \in Nat /\ InOrder(seq, born, relayed)
  BY DEF CopiesInv, TableInv, Types, ServerTypes, GhostTypes
<1>2. CASE fate' = fate
  BY <1>2, Unpromised
<1>3. CASE Waiting(seq) # {} /\ fate' = [fate EXCEPT ![Oldest(seq)] = "relayed"]
  <2>. DEFINE o == Oldest(seq)
  <2>1. o \in Msgs /\ Promise!IsFirst(o, Promise!Line, born)
    BY <1>1, <1>3, OldestIsFirst, LineIsTable
  <2>. HIDE DEF o
  <2>2. fate' = [fate EXCEPT ![o] = "relayed"]
    BY <1>3 DEF o
  <2>3. StateOf(fate') = [StateOf(fate) EXCEPT ![o] = "handed"]
    BY <1>1, <2>1, <2>2, PromisedValues DEF StateOf
  <2>4. Promise!Hand(o)
    BY <2>1, <2>3 DEF Promise!Hand, StateOf, Promised
  <2>. QED  BY <2>1, <2>4 DEF Promise!Next
<1>. QED  BY <1>2, <1>3 DEF DrainQueue

LEMMA SameCardinality == \A S : Promise!Cardinality(S) = Cardinality(S)
BY DEF Promise!Cardinality, Cardinality

(* A message is accepted: it waits, or the front of the line it joined is  *)
(* handed over at once, which may be itself.                               *)
LEMMA TakesPlace ==
  ASSUME CopiesInv, NEW m \in Msgs, Accept(m), Cardinality(Waiting(seq)) < MaxQueue
  PROVE  Promise!Take(m)
<1>1. Promised(fate[m]) = "new"
  BY PromisedValues DEF Accept
<1>2. Promise!Cardinality(Promise!Line) < MaxQueue
  BY LineIsTable, SameCardinality
<1>3. accepted' = accepted + 1 /\ born' = [born EXCEPT ![m] = accepted']
  BY DEF Accept
<1>. QED  BY <1>1, <1>2, <1>3 DEF Promise!Take

LEMMA SendNowHands ==
  ASSUME CopiesInv, NEW m \in Msgs, SendNow(m)
  PROVE  Promise!AcceptAndHand(m, m)
<1>1. Waiting(seq) = {} /\ Accept(m) /\ fate' = [fate EXCEPT ![m] = "relayed"]
  BY DEF SendNow, CanSendNow
<1>2. Promise!Take(m)
  BY <1>1, FS_EmptySet, ConstantsAssumption, TakesPlace
<1>3. fate \in [Msgs -> Fates] /\ born' \in [Msgs -> Nat]
  BY <1>1 DEF CopiesInv, TableInv, Types, GhostTypes, Accept
<1>4. Promise!IsFirst(m, Promise!Line \cup {m}, born')
  BY <1>1, <1>3, LineIsTable DEF Promise!IsFirst
<1>5. StateOf(fate') = [[StateOf(fate) EXCEPT ![m] = "waiting"] EXCEPT ![m] = "handed"]
  BY <1>1, <1>3, PromisedValues DEF StateOf
<1>. QED  BY <1>2, <1>4, <1>5 DEF Promise!AcceptAndHand, StateOf

LEMMA EnqueueTakes ==
  ASSUME CopiesInv, NEW m \in Msgs, Enqueue(m)
  PROVE  [Promise!Next]_Promise!vars
<1>. DEFINE s == [seq EXCEPT ![m] = NextRank(seq)]
            f == [fate EXCEPT ![m] = "queued"]
<1>1. Promise!Take(m)
  BY TakesPlace DEF Enqueue, HasRoom
<1>2. /\ s \in [Msgs -> Nat] /\ InOrder(s, born', relayed) /\ born' \in [Msgs -> Nat]
      /\ Waiting(s) = Waiting(seq) \cup {m}
  BY EnqueuedRows DEF CopiesInv
<1>3. DrainQueue(conn, view, s, f)
  BY DEF Enqueue
<1>4. fate \in [Msgs -> Fates] /\ relayed \in Nat
  BY DEF CopiesInv, TableInv, Types, GhostTypes
<1>5. StateOf(f) = [StateOf(fate) EXCEPT ![m] = "waiting"] /\ f \in [Msgs -> Fates]
  BY <1>4, PromisedValues DEF StateOf, Fates
<1>. HIDE DEF s, f
<1>6. CASE fate' = f
  <2>1. Promise!Accept(m)
    BY <1>1, <1>5, <1>6 DEF Promise!Accept, StateOf
  <2>. QED  BY <2>1 DEF Promise!Next
<1>7. CASE fate' = [f EXCEPT ![Oldest(s)] = "relayed"]
  <2>. DEFINE o == Oldest(s)
  <2>1. o \in Msgs /\ Promise!IsFirst(o, Waiting(s), born')
    BY <1>2, <1>4, OldestIsFirst
  <2>. HIDE DEF o
  <2>2. fate' = [f EXCEPT ![o] = "relayed"]
    BY <1>7 DEF o
  <2>3. StateOf(fate') = [StateOf(f) EXCEPT ![o] = "handed"]
    BY <1>5, <2>1, <2>2, PromisedValues DEF StateOf
  <2>4. Promise!IsFirst(o, Promise!Line \cup {m}, born')
    BY <1>2, <2>1, LineIsTable
  <2>5. Promise!AcceptAndHand(m, o)
    BY <1>1, <1>5, <2>3, <2>4 DEF Promise!AcceptAndHand, StateOf
  <2>. QED  BY <2>1, <2>5 DEF Promise!Next
<1>. QED  BY <1>3, <1>6, <1>7 DEF DrainQueue

LEMMA DropWithdraws ==
  ASSUME CopiesInv, NEW S \in SUBSET Waiting(seq), NEW why \in {"cancelled", "dropped"},
         Drop(S, why)
  PROVE  [Promise!Next]_Promise!vars
<1>1. fate' = [m \in Msgs |-> IF m \in S THEN why ELSE fate[m]] /\ UNCHANGED <<accepted, born>>
  BY DEF Drop
<1>2. CASE S = {}
  BY <1>1, <1>2, Unpromised
<1>3. CASE S # {}
  <2>1. StateOf(fate') = [m \in Msgs |-> IF m \in S THEN "withdrawn" ELSE StateOf(fate)[m]]
    BY <1>1, PromisedValues DEF StateOf
  <2>2. Promise!Withdraw(S)
    BY <1>1, <1>3, <2>1, LineIsTable DEF Promise!Withdraw, StateOf
  <2>3. S \in SUBSET Msgs
    BY DEF Waiting
  <2>. QED  BY <2>2, <2>3 DEF Promise!Next
<1>. QED  BY <1>2, <1>3

LEMMA RejectRefuses ==
  ASSUME CopiesInv, NEW m \in Msgs, Reject(m)
  PROVE  Promise!Refuse(m)
<1>1. fate[m] = "new" /\ fate' = [fate EXCEPT ![m] = "rejected"] /\ UNCHANGED <<accepted, born>>
  BY DEF Reject
<1>2. StateOf(fate') = [StateOf(fate) EXCEPT ![m] = "refused"] /\ StateOf(fate)[m] = "new"
  BY <1>1, PromisedValues, Channels DEF StateOf, CopiesInv
<1>. QED  BY <1>1, <1>2 DEF Promise!Refuse, StateOf

LEMMA StartTurnBegins ==
  ASSUME CopiesInv, NEW p \in Procs, StartTurn(p)
  PROVE  [Promise!Next]_Promise!vars
<1>. DEFINE m == Head(pend[p])
<1>1. pend[p] # <<>> /\ fate' = [fate EXCEPT ![m] = "ran"] /\ UNCHANGED <<accepted, born>>
  BY DEF StartTurn
<1>2. pend \in [Procs -> Seq(Msgs)] /\ fate \in [Msgs -> Fates]
  BY Channels DEF CopiesInv
<1>3. m \in Msgs /\ Present(pend, Procs, m)
  BY <1>1, <1>2, HeadIsThere
<1>. HIDE DEF m
<1>4. fate[m] = "relayed"
  BY <1>3 DEF CopiesInv
<1>5. StateOf(fate') = [StateOf(fate) EXCEPT ![m] = "begun"] /\ StateOf(fate)[m] = "handed"
  BY <1>1, <1>2, <1>3, <1>4, PromisedValues DEF StateOf
<1>6. Promise!Begin(m)
  BY <1>1, <1>5 DEF Promise!Begin, StateOf
<1>. QED  BY <1>3, <1>6 DEF Promise!Next

LEMMA HearStopStops ==
  ASSUME CopiesInv, NEW p \in Procs, HearStop(p)
  PROVE  [Promise!Next]_Promise!vars
<1>. DEFINE S == {m \in Msgs : Contains(pend[p], m)}
<1>1. /\ fate' = [m \in Msgs |-> IF m \in S THEN "stopped" ELSE fate[m]]
      /\ UNCHANGED <<accepted, born>>
  BY DEF HearStop
<1>2. \A m \in S : fate[m] = "relayed"
  BY DEF CopiesInv, Present
<1>3. S \in SUBSET Msgs
  OBVIOUS
<1>. HIDE DEF S
<1>4. CASE S = {}
  BY <1>1, <1>4, Unpromised
<1>5. CASE S # {}
  <2>1. StateOf(fate') = [m \in Msgs |-> IF m \in S THEN "stopped" ELSE StateOf(fate)[m]]
    BY <1>1, PromisedValues DEF StateOf
  <2>2. \A m \in S : StateOf(fate)[m] = "handed"
    BY <1>2, <1>3, PromisedValues DEF StateOf
  <2>3. Promise!Stop(S)
    BY <1>1, <1>5, <2>1, <2>2 DEF Promise!Stop, StateOf
  <2>. QED  BY <1>3, <2>3 DEF Promise!Next
<1>. QED  BY <1>4, <1>5

-----------------------------------------------------------------------------
(* The refinement *)

LEMMA Silent ==
  ASSUME UNCHANGED <<accepted, born, fate>>
  PROVE  [Promise!Next]_Promise!vars
BY Unpromised

LEMMA PromiseStep ==
  ASSUME CopiesInv, [Next]_vars
  PROVE  [Promise!Next]_Promise!vars
<1>. USE Silent
<1>1. CASE UNCHANGED vars
  BY <1>1 DEF vars, ghostVars
<1>2. CASE ClientStep
  <2>1. ASSUME NEW m \in Msgs, SendNow(m)
        PROVE  [Promise!Next]_Promise!vars
    BY <2>1, SendNowHands DEF Promise!Next
  <2>2. ASSUME NEW m \in Msgs, Reject(m)
        PROVE  [Promise!Next]_Promise!vars
    BY <2>2, RejectRefuses DEF Promise!Next
  <2>3. ASSUME NEW m \in Msgs, QueueCancel(m)
        PROVE  [Promise!Next]_Promise!vars
    BY <2>3, DropWithdraws DEF QueueCancel
  <2>4. CASE QueueClear
    BY <2>4, DropWithdraws DEF QueueClear
  <2>5. CASE Stop \/ AnswerCard \/ SessionFrame
    BY <2>5 DEF Stop, AnswerCard, SessionFrame, ghostVars
  <2>. QED  BY <1>2, <2>1, <2>2, <2>3, <2>4, <2>5, EnqueueTakes DEF ClientStep
<1>3. CASE ServerStep
  <2>1. ASSUME NEW c \in Conns, RecvHello(c) \/ RecvTurnDone(c)
        PROVE  [Promise!Next]_Promise!vars
    BY <2>1, DrainHands DEF RecvHello, RecvTurnDone
  <2>2. ASSUME NEW c \in Conns,
               RecvIgnored(c) \/ RecvTurnStart(c) \/ RecvQuestion(c) \/ RecvQuestionDone(c)
        PROVE  [Promise!Next]_Promise!vars
    BY <2>2 DEF RecvIgnored, RecvTurnStart, RecvQuestion, RecvQuestionDone, ghostVars
  <2>3. ASSUME NEW c \in Conns, SocketLost(c) \/ SocketClosed(c)
        PROVE  [Promise!Next]_Promise!vars
    <3>1. Teardown(c) => UNCHANGED <<accepted, born, fate>>
      BY DEF Teardown, ghostVars
    <3>. QED  BY <2>3, <3>1 DEF SocketLost, SocketClosed, ghostVars
  <2>4. CASE SweepDrop \/ Prune
    BY <2>4 DEF SweepDrop, Prune, ghostVars
  <2>5. CASE GiveUp
    BY <2>5, DropWithdraws DEF GiveUp
  <2>. QED  BY <1>3, <2>1, <2>2, <2>3, <2>4, <2>5 DEF ServerStep, Deliver
<1>4. CASE RunnerStep
  <2>1. ASSUME NEW p \in Procs, HearSend(p) \/ HearAnswer(p) \/ HearDisplaced(p)
        PROVE  [Promise!Next]_Promise!vars
    BY <2>1 DEF HearSend, HearAnswer, HearDisplaced, Exit, ghostVars
  <2>2. ASSUME NEW p \in Procs, \/ StartAutonomousTurn(p) \/ FinishTurn(p) \/ LoseSocket(p)
                                \/ Spawn(p) \/ \E q \in Questions : Ask(p, q)
        PROVE  [Promise!Next]_Promise!vars
    BY <2>2 DEF StartAutonomousTurn, FinishTurn, LoseSocket, Spawn, Ask, ghostVars
  <2>3. ASSUME NEW p \in Procs, NEW c \in Conns, Connect(p, c)
        PROVE  [Promise!Next]_Promise!vars
    BY <2>3 DEF Connect, ghostVars
  <2>. QED  BY <1>4, <2>1, <2>2, <2>3, StartTurnBegins, HearStopStops DEF RunnerStep, Hear
<1>5. CASE FaultStep
  BY <1>5 DEF FaultStep, ServerRestart, CutLink, Crash, Exit, ghostVars
<1>6. CASE AtRest
  BY <1>6 DEF AtRest, vars, ghostVars
<1>. QED  BY <1>1, <1>2, <1>3, <1>4, <1>5, <1>6 DEF Next

(* Whatever the sockets, processes and restarts do, a client sees a        *)
(* bounded line handed over in order, each message once (submitSend,       *)
(* drainQueue, the queue frames, the runner's pendingTexts).               *)
THEOREM PromiseKept == Spec => KeepsPromise
<1>1. Init => Promise!Init
  <2>1. SUFFICES ASSUME Init
                 PROVE  Promise!Init
    OBVIOUS
  <2>2. \A m \in Msgs : fate[m] = "new"
    BY <2>1 DEF Init
  <2>3. StateOf(fate) = [m \in Msgs |-> "new"]
    BY <2>2, PromisedValues DEF StateOf
  <2>. QED  BY <2>1, <2>3 DEF Promise!Init, StateOf, Init
<1>2. CopiesInv /\ [Next]_vars => [Promise!Next]_Promise!vars
  BY PromiseStep
<1>. QED  BY <1>1, <1>2, CopiesInvariant, PTL DEF Spec, KeepsPromise, Promise!Spec
=============================================================================
