-------------------------- MODULE SpawnRoundsProofs --------------------------
(***************************************************************************)
(* What rounds, results, cards and hand-overs keep, for any number of      *)
(* sub-chats, rounds, acts and faults.                                     *)
(***************************************************************************)
EXTENDS SpawnRounds, SequenceTheorems, TLAPS

(* The rounds seen at one time: stamps are at most k, turns at most n, the *)
(* stamps in T were handed over.                                           *)
RoundOf(k, n) == [turn : 1..n, end : 0..k, got : 0..k, sent : BOOLEAN]

Fits(r, T) == /\ r.got # 0 => r.got = r.end
              /\ r.end # 0 /\ ~r.sent => r.end \notin T

Sound(R, k, n, T) ==
  /\ R \in [Kids -> Seq(RoundOf(k, n))]
  /\ \A c \in Kids :
       /\ Len(R[c]) \in 1..MaxRounds
       /\ \A i \in 1..Len(R[c]) : /\ i < Len(R[c]) => R[c][i].end # 0
                                  /\ Fits(R[c][i], T)
  /\ T \subseteq 1..k

(* No two closures have the same stamp. *)
Apart(R) ==
  \A c, d \in Kids : \A i \in 1..Len(R[c]), m \in 1..Len(R[d]) :
     R[c][i].end # 0 /\ R[c][i].end = R[d][m].end => c = d /\ i = m

(* Q has the verdicts of R. *)
Grows(R, Q) ==
  \A c \in Kids : /\ Len(Q[c]) >= Len(R[c])
                  /\ \A i \in 1..Len(R[c]) : R[c][i].got # 0 => Q[c][i].got = R[c][i].got

(* Q is R but for the round at place i of kid c, which is r. *)
Replaces(R, Q, c, i, r) ==
  /\ \A d \in Kids : Len(Q[d]) = Len(R[d])
  /\ \A d \in Kids : d # c => Q[d] = R[d]
  /\ \A m \in 1..Len(R[c]) : Q[c][m] = IF m = i THEN r ELSE R[c][m]

LEMMA EndSet ==
  ASSUME NEW k \in Nat, NEW n, NEW r \in RoundOf(k, n), NEW k2 \in Nat, k <= k2, NEW e \in 0..k2
  PROVE  /\ [r EXCEPT !.end = e] \in RoundOf(k2, n)
         /\ [r EXCEPT !.end = e].end = e /\ [r EXCEPT !.end = e].got = r.got
<1>1. /\ r.turn \in 1..n /\ r.got \in 0..k /\ r.sent \in BOOLEAN
      /\ r = [turn |-> r.turn, end |-> r.end, got |-> r.got, sent |-> r.sent]
  BY DEF RoundOf
<1>2. [r EXCEPT !.end = e] = [turn |-> r.turn, end |-> e, got |-> r.got, sent |-> r.sent]
  BY <1>1
<1>3. r.got \in 0..k2
  BY <1>1
<1> QED
  BY <1>1, <1>2, <1>3 DEF RoundOf

LEMMA GotSet ==
  ASSUME NEW k \in Nat, NEW n, NEW r \in RoundOf(k, n), NEW e \in 0..k
  PROVE  /\ [r EXCEPT !.got = e] \in RoundOf(k, n) /\ [r EXCEPT !.got = e].got = e
         /\ [r EXCEPT !.got = e].end = r.end /\ [r EXCEPT !.got = e].sent = r.sent
<1>1. /\ r.turn \in 1..n /\ r.end \in 0..k /\ r.sent \in BOOLEAN
      /\ r = [turn |-> r.turn, end |-> r.end, got |-> r.got, sent |-> r.sent]
  BY DEF RoundOf
<1>2. [r EXCEPT !.got = e] = [turn |-> r.turn, end |-> r.end, got |-> e, sent |-> r.sent]
  BY <1>1
<1> QED
  BY <1>1, <1>2 DEF RoundOf

LEMMA SentSet ==
  ASSUME NEW k \in Nat, NEW n, NEW r \in RoundOf(k, n)
  PROVE  /\ [r EXCEPT !.sent = TRUE] \in RoundOf(k, n) /\ [r EXCEPT !.sent = TRUE].sent
         /\ [r EXCEPT !.sent = TRUE].end = r.end /\ [r EXCEPT !.sent = TRUE].got = r.got
         /\ [r EXCEPT !.sent = TRUE].turn = r.turn
<1>1. /\ r.turn \in 1..n /\ r.end \in 0..k /\ r.got \in 0..k
      /\ DOMAIN r = {"turn", "end", "got", "sent"}
  BY DEF RoundOf
<1> DEFINE q == [r EXCEPT !.sent = TRUE]
<1>2. q \in RoundOf(k, n)
  BY DEF RoundOf
<1>3. q.end = r.end /\ q.got = r.got /\ q.turn = r.turn
  BY <1>1
<1>4. q.sent
  BY <1>1
<1> QED
  BY <1>2, <1>3, <1>4

LEMMA Larger ==
  ASSUME NEW k \in Nat, NEW n \in Nat, NEW k2 \in Nat, NEW n2 \in Nat, k <= k2, n <= n2,
         NEW R, NEW T, Sound(R, k, n, T)
  PROVE  Sound(R, k2, n2, T)
<1>1. RoundOf(k, n) \subseteq RoundOf(k2, n2)
  BY DEF RoundOf
<1>2. \A c \in Kids : R[c] \in Seq(RoundOf(k2, n2))
  BY <1>1, SeqMonotonic DEF Sound
<1>3. R \in [Kids -> Seq(RoundOf(k2, n2))]
  BY <1>2 DEF Sound
<1> QED
  BY <1>3 DEF Sound

(* Where the rounds are, and what one of them is. *)
LEMMA Places ==
  ASSUME NEW k, NEW n, NEW R, NEW T, Sound(R, k, n, T), NEW c \in Kids
  PROVE  /\ R[c] \in Seq(RoundOf(k, n)) /\ Len(R[c]) \in Nat \ {0}
         /\ Len(R[c]) \in 1..Len(R[c]) /\ DOMAIN R[c] = 1..Len(R[c])
         /\ \A i \in 1..Len(R[c]) : R[c][i] \in RoundOf(k, n)
         /\ Tip(R, c) \in RoundOf(k, n)
<1>1. R[c] \in Seq(RoundOf(k, n)) /\ Len(R[c]) \in 1..MaxRounds
  BY DEF Sound
<1>2. DOMAIN R[c] = 1..Len(R[c]) /\ \A i \in 1..Len(R[c]) : R[c][i] \in RoundOf(k, n)
  BY <1>1, LenProperties, ElementOfSeq
<1>3. Len(R[c]) \in Nat \ {0}
  BY <1>1, RoundsAssumption
<1> QED
  BY <1>1, <1>2, <1>3 DEF Tip

(* One round is replaced, at place i of kid c. *)
LEMMA Replaced ==
  ASSUME NEW k \in Nat, NEW n \in Nat, NEW T, NEW R, Sound(R, k, n, T),
         NEW c \in Kids, NEW i \in 1..Len(R[c]), NEW k2 \in Nat, k <= k2,
         NEW r \in RoundOf(k2, n), Fits(r, T), i < Len(R[c]) => r.end # 0,
         NEW Q, Q = [R EXCEPT ![c] = [R[c] EXCEPT ![i] = r]]
  PROVE  Sound(Q, k2, n, T) /\ Replaces(R, Q, c, i, r)
<1>1. Sound(R, k2, n, T)
  BY Larger
<1>2. /\ [R[c] EXCEPT ![i] = r] \in Seq(RoundOf(k2, n))
      /\ Len([R[c] EXCEPT ![i] = r]) = Len(R[c])
      /\ \A m \in 1..Len(R[c]) : [R[c] EXCEPT ![i] = r][m] = IF m = i THEN r ELSE R[c][m]
  BY <1>1, Places, ExceptSeq
<1>3. R \in [Kids -> Seq(RoundOf(k2, n))]
  BY <1>1 DEF Sound
<1>4. /\ Q \in [Kids -> Seq(RoundOf(k2, n))]
      /\ Q[c] = [R[c] EXCEPT ![i] = r] /\ \A d \in Kids : d # c => Q[d] = R[d]
  BY <1>2, <1>3
<1>5. \A d \in Kids : Len(Q[d]) = Len(R[d])
  BY <1>2, <1>4
<1>6. \A m \in 1..Len(R[c]) : Q[c][m] = IF m = i THEN r ELSE R[c][m]
  BY <1>2, <1>4
<1>7. \A d \in Kids : /\ Len(Q[d]) \in 1..MaxRounds
                      /\ \A m \in 1..Len(Q[d]) : /\ m < Len(Q[d]) => Q[d][m].end # 0
                                                 /\ Fits(Q[d][m], T)
  <2> TAKE d \in Kids
  <2>1. CASE d # c
    BY <2>1, <1>1, <1>4 DEF Sound
  <2>2. CASE d = c
    BY <2>2, <1>1, <1>5, <1>6 DEF Sound
  <2> QED
    BY <2>1, <2>2
<1> QED
  BY <1>1, <1>4, <1>5, <1>6, <1>7 DEF Sound, Replaces

(* ... and stays apart, if its stamp is new or none. *)
LEMMA ReplacedApart ==
  ASSUME NEW R, NEW Q, NEW c \in Kids, NEW i \in 1..Len(R[c]), NEW r, Apart(R),
         Replaces(R, Q, c, i, r),
         \/ r.end = 0 \/ r.end = R[c][i].end
         \/ \A d \in Kids : \A m \in 1..Len(R[d]) : R[d][m].end # r.end
  PROVE  Apart(Q)
<1> SUFFICES ASSUME NEW d \in Kids, NEW e \in Kids, NEW m \in 1..Len(R[d]), NEW l \in 1..Len(R[e]),
                    Q[d][m].end # 0, Q[d][m].end = Q[e][l].end
             PROVE  d = e /\ m = l
  BY DEF Apart, Replaces
<1> USE DEF Replaces
<1>1. CASE d = c /\ m = i /\ e = c /\ l = i
  BY <1>1
<1>2. CASE d = c /\ m = i /\ ~(e = c /\ l = i)
  <2>1. Q[d][m] = r /\ Q[e][l] = R[e][l]
    BY <1>2
  <2> QED
    BY <2>1, <1>2 DEF Apart
<1>3. CASE ~(d = c /\ m = i) /\ e = c /\ l = i
  <2>1. Q[e][l] = r /\ Q[d][m] = R[d][m]
    BY <1>3
  <2> QED
    BY <2>1, <1>3 DEF Apart
<1>4. CASE ~(d = c /\ m = i) /\ ~(e = c /\ l = i)
  <2>1. Q[e][l] = R[e][l] /\ Q[d][m] = R[d][m]
    BY <1>4
  <2> QED
    BY <2>1 DEF Apart
<1> QED
  BY <1>1, <1>2, <1>3, <1>4

(* Closing stamps the open round with the next stamp. *)
LEMMA CloseKeeps ==
  ASSUME clock \in Nat, NEW n \in Nat, NEW T, NEW R, Sound(R, clock, n, T), NEW c \in Kids,
         NEW k, k = IF IsOpen(R, c) THEN clock + 1 ELSE clock
  PROVE  /\ Sound(Close(R, c), k, n, T)
         /\ Apart(R) => Apart(Close(R, c))
         /\ Grows(R, Close(R, c))
         /\ \A d \in Kids : Len(Close(R, c)[d]) = Len(R[d])
         /\ \A d \in Kids : d # c => Close(R, c)[d] = R[d]
         /\ ~IsOpen(Close(R, c), c) /\ Tip(Close(R, c), c).end \in 1..k
<1>1. CASE IsOpen(R, c)
  <2> DEFINE i == Len(R[c])
             r == [Tip(R, c) EXCEPT !.end = clock + 1]
             Q == [R EXCEPT ![c] = [R[c] EXCEPT ![i] = r]]
  <2>1. Close(R, c) = Q /\ k = clock + 1
    BY <1>1 DEF Close, SetTip, Set
  <2>2. i \in 1..Len(R[c]) /\ Tip(R, c) \in RoundOf(clock, n) /\ Tip(R, c) = R[c][i]
    BY Places DEF Tip
  <2>3. Tip(R, c).end = 0 /\ Fits(Tip(R, c), T)
    BY <1>1, <2>2 DEF IsOpen, Sound
  <2>4. r \in RoundOf(k, n) /\ r.end = clock + 1 /\ r.got = 0 /\ T \subseteq 1..clock
    <3>1. clock + 1 \in 0..(clock + 1) /\ Tip(R, c).got = 0
      BY <2>2, <2>3 DEF Fits
    <3> QED
      BY <2>1, <2>2, <3>1, EndSet DEF Sound
  <2>5. Fits(r, T)
    BY <2>4 DEF Fits
  <2>6. Sound(Q, k, n, T) /\ Replaces(R, Q, c, i, r)
    <3> HIDE DEF r, i
    <3>1. k \in Nat /\ clock <= k /\ (i < Len(R[c]) => r.end # 0)
      BY <2>1, <2>4
    <3> QED
      BY <2>2, <2>4, <2>5, <3>1, <2>1, Replaced
  <2>7. \A d \in Kids : \A m \in 1..Len(R[d]) : R[d][m].end # r.end
    <3> TAKE d \in Kids
    <3> TAKE m \in 1..Len(R[d])
    <3>1. R[d][m] \in RoundOf(clock, n)
      BY Places
    <3> QED
      BY <3>1, <2>4 DEF RoundOf
  <2>8. Apart(R) => Apart(Q)
    <3> HIDE DEF Q, r, i
    <3> QED
      BY <2>2, <2>6, <2>7, ReplacedApart
  <2>9. Tip(Q, c) = r
    BY <2>2, <2>6 DEF Tip, Replaces
  <2>10. Grows(R, Q)
    <3> HIDE DEF Q, r
    <3>1. \A d \in Kids : Len(R[d]) \in Nat
      BY Places
    <3> QED
      BY <2>2, <2>3, <2>4, <2>6, <3>1 DEF Grows, Fits, Replaces
  <2> HIDE DEF Q, r
  <2> QED
    BY <2>1, <2>4, <2>6, <2>8, <2>9, <2>10 DEF IsOpen, Replaces
<1>2. CASE ~IsOpen(R, c)
  <2>1. Close(R, c) = R /\ k = clock
    BY <1>2 DEF Close
  <2>2. \A d \in Kids : Len(R[d]) \in Nat
    BY Places
  <2>3. Tip(R, c).end \in 1..clock
    <3>1. Tip(R, c) \in RoundOf(clock, n)
      BY Places
    <3>2. Tip(R, c).end \in 0..clock
      BY <3>1 DEF RoundOf
    <3> QED
      BY <1>2, <3>2 DEF IsOpen
  <2> QED
    BY <2>1, <2>2, <2>3, <1>2 DEF Grows
<1> QED
  BY <1>1, <1>2

(* A new round, of the parent's turn, while none is open. *)
LEMMA OpenKeeps ==
  ASSUME NEW k \in Nat, parTurn \in Nat \ {0}, NEW T, NEW R, Sound(R, k, parTurn, T), NEW c \in Kids,
         ~IsOpen(R, c) => Len(R[c]) < MaxRounds
  PROVE  /\ Sound(Open(R, c), k, parTurn, T)
         /\ Apart(R) => Apart(Open(R, c))
         /\ Grows(R, Open(R, c))
         /\ \A d \in Kids : d # c => Open(R, c)[d] = R[d]
<1>0. \A d \in Kids : Len(R[d]) \in Nat /\ R[d] \in Seq(RoundOf(k, parTurn))
  BY Places
<1>1. CASE IsOpen(R, c)
  BY <1>0, <1>1 DEF Open, Grows
<1>2. CASE ~IsOpen(R, c)
  <2> DEFINE r == Fresh(parTurn)
             Q == [R EXCEPT ![c] = Append(R[c], r)]
  <2>1. Open(R, c) = Q
    BY <1>2 DEF Open, Set
  <2>2. r \in RoundOf(k, parTurn) /\ r.end = 0 /\ Fits(r, T)
    BY DEF Fresh, RoundOf, Fits
  <2> HIDE DEF r
  <2>3. /\ Append(R[c], r) \in Seq(RoundOf(k, parTurn)) /\ Len(Append(R[c], r)) = Len(R[c]) + 1
        /\ \A m \in 1..Len(R[c]) : Append(R[c], r)[m] = R[c][m]
        /\ Append(R[c], r)[Len(R[c]) + 1] = r
    BY <1>0, <2>2, AppendProperties
  <2>4. Q \in [Kids -> Seq(RoundOf(k, parTurn))] /\ Q[c] = Append(R[c], r)
        /\ \A d \in Kids : d # c => Q[d] = R[d]
    BY <2>3 DEF Sound
  <2>5. R[c][Len(R[c])].end # 0
    BY <1>2 DEF IsOpen, Tip
  <2> HIDE DEF Q
  <2>6. \A d \in Kids : /\ Len(Q[d]) \in 1..MaxRounds
                        /\ \A m \in 1..Len(Q[d]) : /\ m < Len(Q[d]) => Q[d][m].end # 0
                                                   /\ Fits(Q[d][m], T)
    <3> TAKE d \in Kids
    <3>1. CASE d # c
      BY <3>1, <2>4 DEF Sound
    <3>2. CASE d = c
      <4>1. Len(R[c]) \in 1..MaxRounds /\ Len(R[c]) < MaxRounds /\ Len(Q[c]) = Len(R[c]) + 1
        BY <2>3, <2>4, <1>2 DEF Sound
      <4>2. \A m \in 1..Len(R[c]) : Q[c][m] = R[c][m] /\ Fits(R[c][m], T)
                                    /\ (m < Len(R[c]) => R[c][m].end # 0)
        BY <2>3, <2>4 DEF Sound
      <4>3. Q[c][Len(R[c]) + 1] = r
        BY <2>3, <2>4
      <4>4. Len(R[c]) \in Nat
        BY <1>0
      <4>5. Len(Q[c]) \in 1..MaxRounds
        BY <4>1, <4>4, RoundsAssumption
      <4>6. ASSUME NEW m \in 1..Len(Q[c])
            PROVE  (m < Len(Q[c]) => Q[c][m].end # 0) /\ Fits(Q[c][m], T)
        <5>1. CASE m = Len(R[c]) + 1
          BY <5>1, <4>1, <4>3, <4>4, <2>2
        <5>2. CASE m \in 1..Len(R[c]) /\ m < Len(R[c])
          BY <5>2, <4>2
        <5>3. CASE m = Len(R[c])
          BY <5>3, <4>1, <4>2, <4>4, <2>5
        <5> QED
          BY <5>1, <5>2, <5>3, <4>1, <4>4, <4>6
      <4> QED
        BY <3>2, <4>5, <4>6
    <3> QED
      BY <3>1, <3>2
  <2>7. Sound(Q, k, parTurn, T)
    BY <2>4, <2>6 DEF Sound
  <2>8. \A d \in Kids : \A m \in 1..Len(Q[d]) : Q[d][m].end # 0 => m \in 1..Len(R[d]) /\ Q[d][m] = R[d][m]
    <3> TAKE d \in Kids
    <3>1. CASE d # c
      BY <3>1, <2>4
    <3>2. CASE d = c
      BY <3>2, <2>3, <2>4, <2>2, <1>0
    <3> QED
      BY <3>1, <3>2
  <2>9. Apart(R) => Apart(Q)
    <3>1. ASSUME NEW d \in Kids, NEW e \in Kids, NEW m \in 1..Len(Q[d]), NEW l \in 1..Len(Q[e]),
                 Apart(R), Q[d][m].end # 0, Q[d][m].end = Q[e][l].end
          PROVE  d = e /\ m = l
      <4>1. /\ m \in 1..Len(R[d]) /\ Q[d][m] = R[d][m]
            /\ l \in 1..Len(R[e]) /\ Q[e][l] = R[e][l]
        BY <3>1, <2>8
      <4> QED
        BY <3>1, <4>1 DEF Apart
    <3>2. Apart(R) => \A d, e \in Kids : \A m \in 1..Len(Q[d]), l \in 1..Len(Q[e]) :
                        Q[d][m].end # 0 /\ Q[d][m].end = Q[e][l].end => d = e /\ m = l
      BY <3>1
    <3> QED
      BY <3>2 DEF Apart
  <2>10. Grows(R, Q)
    <3>1. Len(Q[c]) = Len(R[c]) + 1 /\ \A m \in 1..Len(R[c]) : Q[c][m] = R[c][m]
      BY <2>3, <2>4
    <3>2. \A d \in Kids : Len(Q[d]) >= Len(R[d])
      <4> TAKE d \in Kids
      <4>1. Len(R[d]) \in 1..MaxRounds /\ MaxRounds \in Nat
        BY RoundsAssumption DEF Sound
      <4>2. CASE d = c
        BY <3>1, <4>1, <4>2
      <4>3. CASE d # c
        BY <2>4, <4>1, <4>3
      <4> QED
        BY <4>2, <4>3
    <3>3. \A d \in Kids : \A m \in 1..Len(R[d]) : Q[d][m] = R[d][m]
      BY <3>1, <2>4
    <3> QED
      BY <3>2, <3>3 DEF Grows
  <2> QED
    BY <2>1, <2>4, <2>7, <2>9, <2>10
<1> QED
  BY <1>1, <1>2

(* The last round of a kid is reopened; nothing else changes. *)
LEMMA ReopenKeeps ==
  ASSUME NEW k \in Nat, NEW n \in Nat, NEW T, NEW R, Sound(R, k, n, T), NEW c \in Kids
  PROVE  /\ Sound(Reopen(R, c), k, n, T)
         /\ Apart(R) => Apart(Reopen(R, c))
         /\ \A d \in Kids : Len(Reopen(R, c)[d]) = Len(R[d])
         /\ \A d \in Kids : d # c => Reopen(R, c)[d] = R[d]
<1>1. CASE IsOpen(R, c)
  BY <1>1 DEF Reopen
<1>2. CASE ~IsOpen(R, c)
  <2> DEFINE i == Len(R[c])
             r == Fresh(Tip(R, c).turn)
             Q == [R EXCEPT ![c] = [R[c] EXCEPT ![i] = r]]
  <2>1. Reopen(R, c) = Q
    BY <1>2 DEF Reopen, SetTip, Set
  <2>2. i \in 1..Len(R[c]) /\ Tip(R, c) \in RoundOf(k, n)
    BY Places
  <2>3. r \in RoundOf(k, n) /\ r.end = 0 /\ Fits(r, T)
    BY <2>2 DEF Fresh, RoundOf, Fits
  <2>4. Sound(Q, k, n, T) /\ Replaces(R, Q, c, i, r)
    <3>1. k <= k /\ (i < Len(R[c]) => r.end # 0)
      BY <2>2, Places
    <3> HIDE DEF r, i
    <3> QED
      BY <2>2, <2>3, <3>1, Replaced
  <2>5. Apart(R) => Apart(Q)
    <3> HIDE DEF Q, r, i
    <3> QED
      BY <2>2, <2>3, <2>4, ReplacedApart
  <2> QED
    BY <2>1, <2>4, <2>5 DEF Replaces
<1> QED
  BY <1>1, <1>2

(* A result for the closure a round has. *)
LEMMA WriteKeeps ==
  ASSUME NEW k \in Nat, NEW n \in Nat, NEW T, NEW R, Sound(R, k, n, T),
         NEW j, j.kid \in Kids, j.round \in 1..Len(R[j.kid]), j.end \in 1..k, IsCurrent(R, j)
  PROVE  /\ Sound(WriteResult(R, j), k, n, T)
         /\ Apart(R) => Apart(WriteResult(R, j))
         /\ Grows(R, WriteResult(R, j))
         /\ \A d \in Kids : /\ Len(WriteResult(R, j)[d]) = Len(R[d])
                             /\ \A m \in 1..Len(R[d]) : WriteResult(R, j)[d][m].end = R[d][m].end
         /\ WriteResult(R, j)[j.kid][j.round].got = j.end
<1> DEFINE c == j.kid
           i == j.round
           r == [R[c][i] EXCEPT !.got = j.end]
           Q == [R EXCEPT ![c] = [R[c] EXCEPT ![i] = r]]
<1>0. R[c][i] \in RoundOf(k, n) /\ R[c] \in Seq(RoundOf(k, n)) /\ DOMAIN R = Kids
      /\ i \in DOMAIN R[c]
  BY Places DEF Sound
<1>1. WriteResult(R, j) = Q
  BY <1>0 DEF WriteResult
<1>2. R[c][i].end = j.end
  BY DEF IsCurrent
<1>3. r \in RoundOf(k, n) /\ r.end = R[c][i].end /\ r.got = j.end /\ r.sent = R[c][i].sent
  <2>1. j.end \in 0..k
    OBVIOUS
  <2> QED
    BY <1>0, <2>1, GotSet
<1>4. Fits(r, T) /\ (i < Len(R[c]) => r.end # 0)
  BY <1>2, <1>3 DEF Fits, Sound
<1>5. Sound(Q, k, n, T) /\ Replaces(R, Q, c, i, r)
  <2>1. k <= k
    OBVIOUS
  <2> HIDE DEF r, i, c
  <2>2. c \in Kids /\ i \in 1..Len(R[c])
    BY DEF c, i
  <2> QED
    BY <1>3, <1>4, <2>1, <2>2, Replaced
<1>6. c \in Kids /\ i \in 1..Len(R[c])
  OBVIOUS
<1>7. \A d \in Kids : Len(R[d]) \in Nat
  BY Places
<1> HIDE DEF Q, r, i, c
<1>8. Apart(R) => Apart(Q)
  BY <1>3, <1>5, <1>6, ReplacedApart
<1>9. \A d \in Kids : \A m \in 1..Len(R[d]) :
         /\ Q[d][m].end = R[d][m].end
         /\ R[d][m].got # 0 => Q[d][m].got = R[d][m].got
  <2> TAKE d \in Kids
  <2> TAKE m \in 1..Len(R[d])
  <2>1. CASE d = c /\ m = i
    BY <2>1, <1>5, <1>6, <1>3, <1>2 DEF Sound, Fits, Replaces
  <2>2. CASE ~(d = c /\ m = i)
    BY <2>2, <1>5 DEF Replaces
  <2> QED
    BY <2>1, <2>2
<1>10. Q[c][i].got = j.end
  BY <1>3, <1>5, <1>6 DEF Replaces
<1> QED
  BY <1>1, <1>5, <1>7, <1>8, <1>9, <1>10 DEF Grows, Replaces, c, i

(* Q has the closures and the verdicts of R, round by round. *)
SameEnds(R, Q) ==
  \A c \in Kids : /\ Len(Q[c]) = Len(R[c])
                  /\ \A i \in 1..Len(R[c]) : Q[c][i].end = R[c][i].end /\ Q[c][i].got = R[c][i].got

LEMMA SameTips ==
  ASSUME NEW k, NEW n, NEW R, NEW T, Sound(R, k, n, T), NEW Q, SameEnds(R, Q), NEW c \in Kids
  PROVE  Tip(Q, c).end = Tip(R, c).end /\ (IsOpen(Q, c) <=> IsOpen(R, c))
<1>1. Len(R[c]) \in 1..Len(R[c])
  BY Places
<1> QED
  BY <1>1 DEF SameEnds, Tip, IsOpen

(* Rounds are marked as delivered; nothing else changes. *)
LEMMA MarkKeeps ==
  ASSUME NEW k \in Nat, NEW n \in Nat, NEW T, NEW R, Sound(R, k, n, T), NEW P,
         NEW Q, Q = MarkDelivered(R, P)
  PROVE  /\ Sound(Q, k, n, T) /\ SameEnds(R, Q) /\ (Apart(R) => Apart(Q))
         /\ \A c \in Kids : \A i \in 1..Len(R[c]) :
              /\ <<c, i>> \in P => Q[c][i].sent
              /\ <<c, i>> \notin P => Q[c][i] = R[c][i]
<1> DEFINE q(c, i) == IF <<c, i>> \in P THEN [R[c][i] EXCEPT !.sent = TRUE] ELSE R[c][i]
<1>1. \A c \in Kids : /\ Len(R[c]) \in Nat
                      /\ \A i \in 1..Len(R[c]) :
                           /\ q(c, i) \in RoundOf(k, n)
                           /\ q(c, i).end = R[c][i].end /\ q(c, i).got = R[c][i].got
                           /\ <<c, i>> \in P => q(c, i).sent
                           /\ <<c, i>> \notin P => q(c, i) = R[c][i]
  BY Places, SentSet
<1>2. Q = [c \in Kids |-> [i \in 1..Len(R[c]) |-> q(c, i)]]
  BY DEF MarkDelivered
<1> HIDE DEF q
<1>3. \A c \in Kids : /\ Q[c] = [i \in 1..Len(R[c]) |-> q(c, i)]
                      /\ Q[c] \in Seq(RoundOf(k, n)) /\ Len(Q[c]) = Len(R[c])
  <2> TAKE c \in Kids
  <2>1. Q[c] = [i \in 1..Len(R[c]) |-> q(c, i)]
    BY <1>2
  <2>2. Q[c] \in Seq(RoundOf(k, n))
    <3>1. Len(R[c]) \in Nat /\ \A i \in 1..Len(R[c]) : q(c, i) \in RoundOf(k, n)
      BY <1>1
    <3>2. Q[c] \in [1..Len(R[c]) -> RoundOf(k, n)]
      BY <3>1, <2>1
    <3> QED
      BY <3>1, <3>2, SeqDef
  <2>3. Len(Q[c]) = Len(R[c])
    BY <2>1, <2>2, <1>1, LenProperties
  <2> QED
    BY <2>1, <2>2, <2>3
<1>4. \A c \in Kids : \A i \in 1..Len(R[c]) : Q[c][i] = q(c, i)
  BY <1>3
<1>5. SameEnds(R, Q)
  <2>1. \A c \in Kids : Len(Q[c]) = Len(R[c])
    BY <1>3
  <2>2. \A c \in Kids : \A i \in 1..Len(R[c]) : Q[c][i].end = R[c][i].end /\ Q[c][i].got = R[c][i].got
    <3> TAKE c \in Kids
    <3> TAKE i \in 1..Len(R[c])
    <3>1. q(c, i).end = R[c][i].end /\ q(c, i).got = R[c][i].got
      BY <1>1
    <3> QED
      BY <3>1, <1>4
  <2> QED
    BY <2>1, <2>2 DEF SameEnds
<1>6. \A c \in Kids : \A i \in 1..Len(R[c]) : Fits(Q[c][i], T)
  <2> TAKE c \in Kids
  <2> TAKE i \in 1..Len(R[c])
  <2>1. Fits(R[c][i], T)
    BY DEF Sound
  <2> QED
    BY <2>1, <1>1, <1>4 DEF Fits
<1>7. Q \in [Kids -> Seq(RoundOf(k, n))]
  BY <1>2, <1>3
<1>8. Sound(Q, k, n, T)
  <2>1. \A c \in Kids : \A i \in 1..Len(Q[c]) : i < Len(Q[c]) => Q[c][i].end # 0
    BY <1>3, <1>5 DEF Sound, SameEnds
  <2>2. \A c \in Kids : Len(Q[c]) \in 1..MaxRounds
    BY <1>3 DEF Sound
  <2>3. \A c \in Kids : \A i \in 1..Len(Q[c]) : Fits(Q[c][i], T)
    BY <1>3, <1>6
  <2>4. T \subseteq 1..k
    BY DEF Sound
  <2> QED
    BY <1>7, <2>1, <2>2, <2>3, <2>4 DEF Sound
<1>9. Apart(R) => Apart(Q)
  <2>1. ASSUME Apart(R), NEW c \in Kids, NEW d \in Kids, NEW i \in 1..Len(Q[c]), NEW m \in 1..Len(Q[d]),
               Q[c][i].end # 0, Q[c][i].end = Q[d][m].end
        PROVE  c = d /\ i = m
    <3>1. /\ i \in 1..Len(R[c]) /\ Q[c][i].end = R[c][i].end
          /\ m \in 1..Len(R[d]) /\ Q[d][m].end = R[d][m].end
      BY <1>5 DEF SameEnds
    <3>2. R[c][i].end # 0 /\ R[c][i].end = R[d][m].end
      BY <2>1, <3>1
    <3>3. \A x, y \in Kids : \A l \in 1..Len(R[x]), o \in 1..Len(R[y]) :
             R[x][l].end # 0 /\ R[x][l].end = R[y][o].end => x = y /\ l = o
      BY <2>1 DEF Apart
    <3> QED
      BY <3>1, <3>2, <3>3
  <2> QED
    BY <2>1 DEF Apart
<1> QED
  BY <1>1, <1>4, <1>5, <1>8, <1>9

LEMMA PendingAre ==
  ASSUME NEW R, NEW p \in Pending(R)
  PROVE  /\ p[1] \in Kids /\ p[2] \in 1..Len(R[p[1]]) /\ p = <<p[1], p[2]>>
         /\ R[p[1]][p[2]].end # 0 /\ ~R[p[1]][p[2]].sent
<1>1. p \in Kids \X (1..MaxRounds) /\ p[2] <= Len(R[p[1]])
  BY DEF Pending
<1>2. p[1] \in Kids /\ p[2] \in 1..MaxRounds /\ p = <<p[1], p[2]>>
  BY <1>1
<1>3. MaxRounds \in Nat
  BY RoundsAssumption
<1>4. p[2] \in 1..Len(R[p[1]])
  BY <1>1, <1>2, <1>3
<1> QED
  BY <1>2, <1>4 DEF Pending

(* A hand-over: what goes out was never out before. *)
LEMMA HandKeeps ==
  ASSUME NEW k \in Nat, parTurn \in Nat \ {0}, NEW R, Sound(R, k, parTurn, told), again = FALSE,
         Sub => Apart(R), Hand(R)
  PROVE  /\ Sound(rounds', k, parTurn', told') /\ parTurn' \in Nat \ {0} /\ again' = FALSE
         /\ Sub => Apart(rounds')
         /\ SameEnds(R, rounds')
<1> DEFINE P == Pending(R)
           Q == MarkDelivered(R, P)
<1>0. /\ Sound(Q, k, parTurn, told) /\ SameEnds(R, Q) /\ (Apart(R) => Apart(Q))
      /\ \A c \in Kids : \A i \in 1..Len(R[c]) : <<c, i>> \in P => Q[c][i].sent
  BY MarkKeeps
<1>1. CASE rounds' = R /\ UNCHANGED handed
  BY <1>1 DEF handed, SameEnds
<1>2. CASE rounds' = Q /\ UNCHANGED handed
  BY <1>2, <1>0 DEF handed
<1>3. CASE /\ par = "live" /\ rounds' = Q /\ parTurn' = parTurn + 1
           /\ told' = told \cup Stamps(R, P) /\ again' = (again \/ Stamps(R, P) \cap told # {})
  <2>1. Apart(R)
    BY <1>3 DEF Sub
  <2>2. \A p \in P : /\ R[p[1]][p[2]].end \in 1..k /\ R[p[1]][p[2]].end \notin told
                     /\ p[1] \in Kids /\ p[2] \in 1..Len(R[p[1]]) /\ p = <<p[1], p[2]>>
                     /\ R[p[1]][p[2]].end # 0
    <3> TAKE p \in P
    <3>1. /\ p[1] \in Kids /\ p[2] \in 1..Len(R[p[1]]) /\ p = <<p[1], p[2]>>
          /\ R[p[1]][p[2]].end # 0 /\ ~R[p[1]][p[2]].sent
      BY PendingAre
    <3>2. R[p[1]][p[2]] \in RoundOf(k, parTurn)
      BY <3>1, Places
    <3>3. Fits(R[p[1]][p[2]], told)
      BY <3>1 DEF Sound
    <3>4. R[p[1]][p[2]].end \in 0..k
      BY <3>2 DEF RoundOf
    <3> QED
      BY <3>1, <3>3, <3>4 DEF Fits
  <2>3. Stamps(R, P) \subseteq 1..k /\ Stamps(R, P) \cap told = {}
    BY <2>2 DEF Stamps
  <2>4. Sound(Q, k, parTurn + 1, told)
    BY <1>0, Larger
  <2> HIDE DEF P, Q
  <2>5. \A c \in Kids : \A i \in 1..Len(Q[c]) :
           Q[c][i].end # 0 /\ ~Q[c][i].sent => Q[c][i].end \notin Stamps(R, P)
    <3> SUFFICES ASSUME NEW c \in Kids, NEW i \in 1..Len(Q[c]), NEW p \in P,
                        Q[c][i].end # 0, ~Q[c][i].sent, Q[c][i].end = R[p[1]][p[2]].end
                 PROVE  FALSE
      BY DEF Stamps
    <3>1. i \in 1..Len(R[c]) /\ R[c][i].end = Q[c][i].end
      BY <1>0 DEF SameEnds
    <3>2. c = p[1] /\ i = p[2]
      BY <3>1, <2>1, <2>2 DEF Apart
    <3> QED
      BY <3>1, <3>2, <2>2, <1>0
  <2>6. \A c \in Kids : \A i \in 1..Len(Q[c]) : Fits(Q[c][i], told \cup Stamps(R, P))
    <3> TAKE c \in Kids
    <3> TAKE i \in 1..Len(Q[c])
    <3>1. Fits(Q[c][i], told)
      BY <1>0 DEF Sound
    <3> QED
      BY <3>1, <2>5 DEF Fits
  <2>7. Sound(Q, k, parTurn + 1, told \cup Stamps(R, P))
    BY <2>3, <2>4, <2>6 DEF Sound
  <2>8. rounds' = Q /\ parTurn' = parTurn + 1 /\ told' = told \cup Stamps(R, P) /\ again' = FALSE
    BY <1>3, <2>3
  <2>9. Sound(rounds', k, parTurn', told') /\ SameEnds(R, rounds') /\ Apart(rounds')
    BY <2>7, <2>8, <1>0, <2>1
  <2>10. parTurn' \in Nat \ {0}
    BY <2>8
  <2> QED
    BY <2>8, <2>9, <2>10
<1> QED
  BY <1>1, <1>2, <1>3 DEF Hand

(* The stamps of Q are those of R. *)
SameStamps(R, Q) ==
  \A c \in Kids : /\ Len(Q[c]) = Len(R[c])
                  /\ \A i \in 1..Len(R[c]) : Q[c][i].end = R[c][i].end

(* A card shows the verdict of some round. *)
Verdicts(K, R) == \A c \in Kids : K[c] # 0 => \E i \in 1..Len(R[c]) : R[c][i].got = K[c]

LEMMA VerdictsGrow ==
  ASSUME NEW k, NEW n, NEW R, NEW T, Sound(R, k, n, T), NEW Q, Grows(R, Q), NEW K, Verdicts(K, R),
         \A c \in Kids : Len(Q[c]) \in Nat
  PROVE  Verdicts(K, Q)
<1> SUFFICES ASSUME NEW c \in Kids, K[c] # 0 PROVE \E i \in 1..Len(Q[c]) : Q[c][i].got = K[c]
  BY DEF Verdicts
<1>1. PICK i \in 1..Len(R[c]) : R[c][i].got = K[c]
  BY DEF Verdicts
<1>2. Len(R[c]) \in Nat
  BY Places
<1>3. Q[c][i].got = K[c] /\ i \in 1..Len(Q[c])
  BY <1>1, <1>2 DEF Grows
<1> QED
  BY <1>3

LEMMA SameGrows ==
  ASSUME NEW k, NEW n, NEW R, NEW T, Sound(R, k, n, T), NEW P, NEW Q, Grows(P, R), SameEnds(R, Q),
         \A c \in Kids : Len(P[c]) \in Nat
  PROVE  Grows(P, Q) /\ SameStamps(R, Q)
<1>1. \A c \in Kids : Len(R[c]) \in Nat
  BY Places
<1>2. \A c \in Kids : \A i \in 1..Len(P[c]) : i \in 1..Len(R[c])
  BY <1>1 DEF Grows
<1> QED
  BY <1>1, <1>2 DEF Grows, SameEnds, SameStamps

(* A result arrives: on the round, on the card if it is the newest, at the parent. *)
LEMMA DeliverKeeps ==
  ASSUME NEW k \in Nat, parTurn \in Nat \ {0}, NEW R, Sound(R, k, parTurn, told), again = FALSE,
         Sub => Apart(R), card \in [Kids -> 0..k], Verdicts(card, R),
         NEW j, j.kid \in Kids, j.round \in 1..Len(R[j.kid]), j.end \in 1..k, IsCurrent(R, j),
         Deliver(R, j)
  PROVE  /\ Sound(rounds', k, parTurn', told') /\ parTurn' \in Nat \ {0} /\ again' = FALSE
         /\ Sub => Apart(rounds')
         /\ SameStamps(R, rounds')
         /\ card' \in [Kids -> 0..k] /\ Verdicts(card', rounds')
         /\ \A d \in Kids : card'[d] \notin {0, card[d]} => card'[d] = Tip(rounds', d).end
<1> DEFINE W == WriteResult(R, j)
<1>1. /\ Sound(W, k, parTurn, told) /\ (Sub => Apart(W)) /\ Grows(R, W)
      /\ \A d \in Kids : Len(W[d]) = Len(R[d]) /\ \A m \in 1..Len(R[d]) : W[d][m].end = R[d][m].end
      /\ W[j.kid][j.round].got = j.end
  BY WriteKeeps
<1>2. Hand(W)
  BY DEF Deliver
<1> HIDE DEF W
<1>3. /\ Sound(rounds', k, parTurn', told') /\ parTurn' \in Nat \ {0} /\ again' = FALSE
      /\ Sub => Apart(rounds')
      /\ SameEnds(W, rounds')
  BY <1>1, <1>2, HandKeeps
<1>4. \A d \in Kids : Len(R[d]) \in Nat
  BY Places
<1>5. Grows(R, rounds') /\ SameStamps(W, rounds')
  BY <1>1, <1>3, <1>4, SameGrows
<1>6. SameStamps(R, rounds')
  BY <1>1, <1>5 DEF SameStamps
<1>7. rounds'[j.kid][j.round].got = j.end
  BY <1>1, <1>3 DEF SameEnds
<1>8. Verdicts(card, rounds')
  <2>1. \A d \in Kids : Len(rounds'[d]) \in Nat
    BY <1>4, <1>6 DEF SameStamps
  <2> QED
    BY <2>1, <1>5, VerdictsGrow
<1>9. CASE OwnsTab(R, j)
  <2>1. card' = [card EXCEPT ![j.kid] = j.end]
    BY <1>9 DEF Deliver, Set
  <2>2. card' \in [Kids -> 0..k] /\ card'[j.kid] = j.end
    BY <2>1
  <2>3. \A d \in Kids : d # j.kid => card'[d] = card[d]
    BY <2>1
  <2>4. Verdicts(card', rounds')
    <3> SUFFICES ASSUME NEW d \in Kids, card'[d] # 0
                 PROVE  \E i \in 1..Len(rounds'[d]) : rounds'[d][i].got = card'[d]
      BY DEF Verdicts
    <3>1. CASE d = j.kid
      BY <3>1, <2>2, <1>6, <1>7 DEF SameStamps
    <3>2. CASE d # j.kid
      BY <3>2, <2>3, <1>8 DEF Verdicts
    <3> QED
      BY <3>1, <3>2
  <2>5. Tip(rounds', j.kid).end = j.end
    <3>1. Len(rounds'[j.kid]) = j.round /\ R[j.kid][j.round].end = j.end
      BY <1>9, <1>6 DEF OwnsTab, SameStamps, IsCurrent
    <3>2. rounds'[j.kid][j.round].end = j.end
      BY <3>1, <1>6 DEF SameStamps
    <3> QED
      BY <3>1, <3>2 DEF Tip
  <2> QED
    BY <1>3, <1>6, <2>2, <2>3, <2>4, <2>5
<1>10. CASE ~OwnsTab(R, j)
  <2>1. card' = card
    BY <1>10 DEF Deliver
  <2> QED
    BY <2>1, <1>3, <1>6, <1>8
<1> QED
  BY <1>9, <1>10

-----------------------------------------------------------------------------
(* What holds of the rounds, their verdicts and their jobs between steps,   *)
(* and what a step does to them.                                            *)
JobType(k) == [kid : Kids, round : 1..MaxRounds, end : 1..k]

Core ==
  /\ clock \in Nat /\ parTurn \in Nat \ {0}
  /\ Sound(rounds, clock, parTurn, told) /\ again = FALSE /\ (Sub => Apart(rounds))
  /\ card \in [Kids -> 0..clock] /\ Verdicts(card, rounds)
  /\ jobs \subseteq JobType(clock) /\ \A j \in jobs : j.round <= Len(rounds[j.kid])

CardStep == \A c \in Kids : card'[c] \notin {0, card[c]} => card'[c] = Tip(rounds', c).end
Advances == clock <= clock' /\ CardStep

LEMMA JobsAre ==
  ASSUME Core, NEW j \in jobs
  PROVE  j.kid \in Kids /\ j.round \in 1..Len(rounds[j.kid]) /\ j.end \in 1..clock
<1>1. j \in JobType(clock) /\ j.round <= Len(rounds[j.kid])
  BY DEF Core
<1>2. j.kid \in Kids /\ j.round \in 1..MaxRounds /\ j.end \in 1..clock
  BY <1>1 DEF JobType
<1>3. Len(rounds[j.kid]) \in Nat
  BY <1>2, Places DEF Core
<1> QED
  BY <1>1, <1>2, <1>3, RoundsAssumption

(* Jobs keep their places when the clock and the rounds only grow. *)
LEMMA JobsStay ==
  ASSUME Core, NEW k \in Nat, clock <= k, NEW Q, \A c \in Kids : Len(Q[c]) \in Nat /\ Len(Q[c]) >= Len(rounds[c])
  PROVE  jobs \subseteq JobType(k) /\ \A j \in jobs : j.round <= Len(Q[j.kid])
<1>1. JobType(clock) \subseteq JobType(k)
  BY DEF JobType, Core
<1>2. \A j \in jobs : j.round <= Len(Q[j.kid])
  <2> TAKE j \in jobs
  <2>1. j.kid \in Kids /\ j.round \in 1..Len(rounds[j.kid])
    BY JobsAre
  <2>2. Len(rounds[j.kid]) \in Nat
    BY <2>1, Places DEF Core
  <2> QED
    BY <2>1, <2>2
<1> QED
  BY <1>1, <1>2 DEF Core

LEMMA FinishedKeeps ==
  ASSUME Core, NEW c \in Kids, Finished(c), Sub' => Sub
  PROVE  /\ Core' /\ Advances
         /\ ~IsOpen(rounds', c)
         /\ \A d \in Kids : d # c => (IsOpen(rounds', d) <=> IsOpen(rounds, d))
<1> DEFINE R == Close(rounds, c)
           j == Job(R, c)
           k == IF IsOpen(rounds, c) THEN clock + 1 ELSE clock
<1>0. clock \in Nat /\ parTurn \in Nat \ {0} /\ Sound(rounds, clock, parTurn, told) /\ again = FALSE
      /\ k \in Nat /\ clock <= k /\ clock' = k /\ (Sub => Apart(rounds))
  BY DEF Core, Finished, Stamped
<1>1. /\ Sound(R, k, parTurn, told) /\ (Sub => Apart(R)) /\ Grows(rounds, R)
      /\ \A d \in Kids : Len(R[d]) = Len(rounds[d])
      /\ \A d \in Kids : d # c => R[d] = rounds[d]
      /\ ~IsOpen(R, c) /\ Tip(R, c).end \in 1..k
  BY <1>0, CloseKeeps
<1> HIDE DEF k
<1>2. \A d \in Kids : Len(rounds[d]) \in Nat /\ Len(R[d]) \in Nat
  BY <1>0, <1>1, Places
<1>3. card \in [Kids -> 0..k] /\ Verdicts(card, R)
  <2>1. card \in [Kids -> 0..k]
    BY <1>0 DEF Core
  <2>2. Verdicts(card, R)
    BY <1>0, <1>1, <1>2, VerdictsGrow DEF Core
  <2> QED
    BY <2>1, <2>2
<1>4. j \in JobType(k) /\ j.round = Len(R[c]) /\ j.kid = c /\ j.end = Tip(R, c).end
  <2>1. Len(R[c]) \in 1..MaxRounds
    BY <1>1 DEF Sound
  <2> QED
    BY <2>1, <1>1 DEF Job, JobType
<1>5. IsCurrent(R, j) /\ j.round \in 1..Len(R[j.kid]) /\ j.kid \in Kids /\ j.end \in 1..k
  <2>1. Len(R[c]) \in 1..Len(R[c])
    BY <1>1, Places
  <2> QED
    BY <1>1, <1>4, <2>1 DEF IsCurrent, Tip
<1>6. jobs \subseteq JobType(k) /\ \A i \in jobs : i.round <= Len(R[i.kid])
  <2>1. \A d \in Kids : Len(R[d]) \in Nat /\ Len(R[d]) >= Len(rounds[d])
    BY <1>1, <1>2
  <2> QED
    BY <1>0, <2>1, JobsStay
<1>7. CASE rounds' = R /\ jobs' \in {jobs, jobs \cup {j}} /\ UNCHANGED <<card, handed>>
  <2>1. parTurn' = parTurn /\ told' = told /\ again' = again /\ card' = card
    BY <1>7 DEF handed
  <2>2. jobs' \subseteq JobType(k) /\ \A i \in jobs' : i.round <= Len(R[i.kid])
    BY <1>7, <1>6, <1>4, <1>2
  <2>3. Core'
    BY <1>7, <2>1, <2>2, <1>0, <1>1, <1>3 DEF Core, Sub
  <2>4. Advances
    BY <2>1, <1>0 DEF Advances, CardStep
  <2> QED
    BY <2>3, <2>4, <1>1, <1>7 DEF IsOpen, Tip
<1>8. CASE Deliver(R, j) /\ UNCHANGED jobs
  <2>1. /\ Sound(rounds', k, parTurn', told') /\ parTurn' \in Nat \ {0} /\ again' = FALSE
        /\ Sub => Apart(rounds')
        /\ SameStamps(R, rounds')
        /\ card' \in [Kids -> 0..k] /\ Verdicts(card', rounds')
        /\ \A d \in Kids : card'[d] \notin {0, card[d]} => card'[d] = Tip(rounds', d).end
    <3> HIDE DEF R, j
    <3> QED
      BY <1>0, <1>1, <1>3, <1>5, <1>8, DeliverKeeps
  <2>2. jobs' \subseteq JobType(k) /\ \A i \in jobs' : i.round <= Len(rounds'[i.kid])
    <3>1. \A i \in jobs : i.kid \in Kids
      BY JobsAre
    <3> QED
      BY <1>8, <1>6, <2>1, <3>1 DEF SameStamps
  <2>3. Core'
    BY <2>1, <2>2, <1>0 DEF Core
  <2>4. Advances
    BY <2>1, <1>0 DEF Advances, CardStep
  <2>5. \A d \in Kids : IsOpen(rounds', d) <=> IsOpen(R, d)
    <3> TAKE d \in Kids
    <3>1. Len(R[d]) \in 1..Len(R[d]) /\ Len(rounds'[d]) = Len(R[d])
      BY <1>1, <2>1, Places DEF SameStamps
    <3> QED
      BY <3>1, <2>1 DEF SameStamps, IsOpen, Tip
  <2>6. \A d \in Kids : d # c => (IsOpen(R, d) <=> IsOpen(rounds, d))
    BY <1>1 DEF IsOpen, Tip
  <2> QED
    BY <2>3, <2>4, <2>5, <2>6, <1>1
<1> QED
  BY <1>7, <1>8 DEF Finished

(* The ways in which a step touches the rounds.  A message opens one ...    *)
Opens(c) ==
  /\ ~IsOpen(rounds, c) => Len(rounds[c]) < MaxRounds
  /\ rounds' = Open(rounds, c) /\ retired' = Set(retired, c, "no")
  /\ card' \in {card, Set(card, c, 0)}
  /\ UNCHANGED <<jobs, clock, handed>>

(* ... a turn that starts reopens it, without its verdict ...               *)
Reopens(c) ==
  /\ rounds' = Reopen(rounds, c) /\ retired' = Set(retired, c, "no")
  /\ card' = Set(card, c, 0)
  /\ UNCHANGED <<jobs, clock, handed>>

(* ... the user closes it ...                                               *)
Closes(c) ==
  /\ rounds' = Close(rounds, c) /\ Stamped(rounds, c)
  /\ UNCHANGED <<card, jobs, handed>>

(* ... a summary arrives, or the parent is told.                            *)
Delivers ==
  /\ \E j \in jobs : IsCurrent(rounds, j) /\ Deliver(rounds, j)
  /\ jobs' \subseteq jobs /\ UNCHANGED clock
Hands == Hand(rounds) /\ UNCHANGED <<card, jobs, clock>>

LEMMA CardCleared ==
  ASSUME Core, NEW c \in Kids, NEW K, K \in {card, Set(card, c, 0)}
  PROVE  /\ K \in [Kids -> 0..clock] /\ Verdicts(K, rounds)
         /\ \A d \in Kids : K[d] \in {0, card[d]}
         /\ K = Set(card, c, 0) => K[c] = 0
<1>1. K \in [Kids -> 0..clock] /\ \A d \in Kids : K[d] \in {0, card[d]}
  BY DEF Core, Set
<1>2. Verdicts(K, rounds)
  BY <1>1 DEF Core, Verdicts
<1>3. K = Set(card, c, 0) => K[c] = 0
  BY DEF Core, Set
<1> QED
  BY <1>1, <1>2, <1>3

LEMMA OpensKeeps ==
  ASSUME Core, NEW c \in Kids, Opens(c), Sub' => Sub
  PROVE  Core' /\ Advances /\ \A d \in Kids : d # c => rounds'[d] = rounds[d]
<1>1. /\ Sound(rounds', clock, parTurn, told) /\ (Apart(rounds) => Apart(rounds'))
      /\ Grows(rounds, rounds') /\ \A d \in Kids : d # c => rounds'[d] = rounds[d]
  BY OpenKeeps DEF Core, Opens
<1>2. /\ clock' = clock /\ parTurn' = parTurn /\ told' = told /\ again' = again /\ jobs' = jobs
      /\ clock \in Nat
  BY DEF Opens, handed, Core
<1>3. \A d \in Kids : Len(rounds'[d]) \in Nat
  BY <1>1, Places
<1>4. card' \in [Kids -> 0..clock] /\ Verdicts(card', rounds) /\ \A d \in Kids : card'[d] \in {0, card[d]}
  BY CardCleared DEF Opens
<1>5. Verdicts(card', rounds')
  BY <1>1, <1>3, <1>4, VerdictsGrow DEF Core
<1>6. jobs \subseteq JobType(clock) /\ \A j \in jobs : j.round <= Len(rounds'[j.kid])
  <2>1. \A d \in Kids : Len(rounds'[d]) \in Nat /\ Len(rounds'[d]) >= Len(rounds[d])
    BY <1>1, <1>3 DEF Grows
  <2> QED
    BY <1>2, <2>1, JobsStay
<1>7. Core'
  BY <1>1, <1>2, <1>4, <1>5, <1>6 DEF Core
<1> QED
  BY <1>1, <1>2, <1>4, <1>7 DEF Advances, CardStep

LEMMA ReopensKeeps ==
  ASSUME Core, NEW c \in Kids, Reopens(c), Sub' => Sub
  PROVE  Core' /\ Advances /\ \A d \in Kids : d # c => rounds'[d] = rounds[d]
<1>0. clock \in Nat /\ parTurn \in Nat /\ Sound(rounds, clock, parTurn, told) /\ rounds' = Reopen(rounds, c)
  BY DEF Core, Reopens
<1>1. /\ Sound(rounds', clock, parTurn, told) /\ (Apart(rounds) => Apart(rounds'))
      /\ \A d \in Kids : Len(rounds'[d]) = Len(rounds[d])
      /\ \A d \in Kids : d # c => rounds'[d] = rounds[d]
  BY <1>0, ReopenKeeps
<1>2. /\ clock' = clock /\ parTurn' = parTurn /\ told' = told /\ again' = again /\ jobs' = jobs
  BY DEF Reopens, handed
<1>3. \A d \in Kids : Len(rounds'[d]) \in Nat
  BY <1>1, Places
<1>4. /\ card' \in [Kids -> 0..clock] /\ Verdicts(card', rounds) /\ card'[c] = 0
      /\ \A d \in Kids : card'[d] \in {0, card[d]}
  BY CardCleared DEF Reopens
<1>5. Verdicts(card', rounds')
  <2> SUFFICES ASSUME NEW d \in Kids, card'[d] # 0
               PROVE  \E i \in 1..Len(rounds'[d]) : rounds'[d][i].got = card'[d]
    BY DEF Verdicts
  <2>1. d # c
    BY <1>4
  <2> QED
    BY <2>1, <1>1, <1>4 DEF Verdicts
<1>6. jobs \subseteq JobType(clock) /\ \A j \in jobs : j.round <= Len(rounds'[j.kid])
  <2>1. \A d \in Kids : Len(rounds'[d]) \in Nat /\ Len(rounds'[d]) >= Len(rounds[d])
    BY <1>1, <1>3
  <2> QED
    BY <1>0, <2>1, JobsStay
<1>7. Core'
  BY <1>1, <1>2, <1>4, <1>5, <1>6 DEF Core
<1> QED
  BY <1>0, <1>1, <1>2, <1>4, <1>7 DEF Advances, CardStep

LEMMA ClosesKeeps ==
  ASSUME Core, NEW c \in Kids, Closes(c), Sub' => Sub
  PROVE  Core' /\ Advances /\ ~IsOpen(rounds', c) /\ \A d \in Kids : d # c => rounds'[d] = rounds[d]
<1> DEFINE k == IF IsOpen(rounds, c) THEN clock + 1 ELSE clock
<1>0. clock \in Nat /\ parTurn \in Nat \ {0} /\ Sound(rounds, clock, parTurn, told) /\ again = FALSE
      /\ k \in Nat /\ clock <= k /\ clock' = k /\ (Sub => Apart(rounds))
  BY DEF Core, Closes, Stamped
<1>1. /\ Sound(rounds', k, parTurn, told) /\ (Sub => Apart(rounds')) /\ Grows(rounds, rounds')
      /\ \A d \in Kids : Len(rounds'[d]) = Len(rounds[d])
      /\ \A d \in Kids : d # c => rounds'[d] = rounds[d]
      /\ ~IsOpen(rounds', c)
  BY <1>0, CloseKeeps DEF Closes
<1> HIDE DEF k
<1>2. \A d \in Kids : Len(rounds'[d]) \in Nat
  BY <1>1, Places
<1>3. card \in [Kids -> 0..k] /\ Verdicts(card, rounds')
  <2>1. card \in [Kids -> 0..k]
    BY <1>0 DEF Core
  <2>2. Verdicts(card, rounds')
    BY <1>0, <1>1, <1>2, VerdictsGrow DEF Core
  <2> QED
    BY <2>1, <2>2
<1>4. jobs \subseteq JobType(k) /\ \A i \in jobs : i.round <= Len(rounds'[i.kid])
  <2>1. \A d \in Kids : Len(rounds'[d]) \in Nat /\ Len(rounds'[d]) >= Len(rounds[d])
    BY <1>1, <1>2
  <2> QED
    BY <1>0, <2>1, JobsStay
<1>5. parTurn' = parTurn /\ told' = told /\ again' = again /\ card' = card /\ jobs' = jobs
  BY DEF Closes, handed
<1>6. Core'
  BY <1>0, <1>1, <1>3, <1>4, <1>5 DEF Core
<1> QED
  BY <1>0, <1>1, <1>5, <1>6 DEF Advances, CardStep

(* Rounds whose stamps stay are open when they were. *)
LEMMA StampsOpen ==
  ASSUME Core, SameStamps(rounds, rounds')
  PROVE  \A d \in Kids : IsOpen(rounds', d) <=> IsOpen(rounds, d)
<1> TAKE d \in Kids
<1>1. Len(rounds[d]) \in 1..Len(rounds[d]) /\ Len(rounds'[d]) = Len(rounds[d])
  BY Places DEF SameStamps, Core
<1> QED
  BY <1>1 DEF SameStamps, IsOpen, Tip

LEMMA DeliversKeeps ==
  ASSUME Core, Delivers, Sub' => Sub
  PROVE  Core' /\ Advances /\ \A d \in Kids : IsOpen(rounds', d) <=> IsOpen(rounds, d)
<1>1. PICK j \in jobs : IsCurrent(rounds, j) /\ Deliver(rounds, j)
  BY DEF Delivers
<1>2. j.kid \in Kids /\ j.round \in 1..Len(rounds[j.kid]) /\ j.end \in 1..clock
  BY JobsAre
<1>3. /\ Sound(rounds', clock, parTurn', told') /\ parTurn' \in Nat \ {0} /\ again' = FALSE
      /\ Sub => Apart(rounds')
      /\ SameStamps(rounds, rounds')
      /\ card' \in [Kids -> 0..clock] /\ Verdicts(card', rounds')
      /\ \A d \in Kids : card'[d] \notin {0, card[d]} => card'[d] = Tip(rounds', d).end
  BY <1>1, <1>2, DeliverKeeps DEF Core
<1>4. jobs' \subseteq JobType(clock) /\ \A i \in jobs' : i.round <= Len(rounds'[i.kid])
  <2>1. \A i \in jobs : i.kid \in Kids
    BY JobsAre
  <2> QED
    BY <2>1, <1>3 DEF SameStamps, Delivers, Core
<1>5. clock' = clock /\ clock \in Nat
  BY DEF Delivers, Core
<1>6. Core'
  BY <1>3, <1>4, <1>5 DEF Core
<1> QED
  BY <1>3, <1>5, <1>6, StampsOpen DEF Advances, CardStep

LEMMA HandsKeeps ==
  ASSUME Core, Hands, Sub' => Sub
  PROVE  Core' /\ Advances /\ \A d \in Kids : IsOpen(rounds', d) <=> IsOpen(rounds, d)
<1>1. /\ Sound(rounds', clock, parTurn', told') /\ parTurn' \in Nat \ {0} /\ again' = FALSE
      /\ Sub => Apart(rounds')
      /\ SameEnds(rounds, rounds')
  BY HandKeeps DEF Core, Hands
<1>2. /\ clock \in Nat /\ Sound(rounds, clock, parTurn, told) /\ Verdicts(card, rounds)
      /\ \A d \in Kids : Len(rounds[d]) \in Nat
  BY Places DEF Core
<1>3. Grows(rounds, rounds)
  BY <1>2 DEF Grows
<1>4. Grows(rounds, rounds') /\ SameStamps(rounds, rounds')
  BY <1>1, <1>2, <1>3, SameGrows
<1>5. \A d \in Kids : Len(rounds'[d]) \in Nat
  BY <1>2, <1>4 DEF SameStamps
<1>6. Verdicts(card, rounds')
  BY <1>2, <1>4, <1>5, VerdictsGrow
<1>7. clock' = clock /\ card' = card /\ jobs' = jobs
  BY DEF Hands
<1>8. \A j \in jobs : j.round <= Len(rounds'[j.kid])
  <2>1. \A j \in jobs : j.kid \in Kids
    BY JobsAre
  <2> QED
    BY <2>1, <1>4 DEF SameStamps, Core
<1>9. Core'
  BY <1>1, <1>6, <1>7, <1>8 DEF Core
<1> QED
  BY <1>2, <1>4, <1>7, <1>9, StampsOpen DEF Advances, CardStep

(* A restart closes what a retired chat left open: at most one round, as   *)
(* long as the parent's row is there.                                       *)
Boots(R, ret) ==
  /\ R \in {rounds, MarkDelivered(rounds, Pending(rounds))}
  /\ Boot(R, ret) /\ UNCHANGED <<card, told, parTurn, again>>

AtMostOne(R, ret) == \E c : \A d \in Kids : ret[d] # "no" /\ IsOpen(R, d) => d = c

LEMMA ReconcileKeeps ==
  ASSUME clock \in Nat, NEW n \in Nat, NEW T, NEW R, Sound(R, clock, n, T), NEW ret,
         NEW Q, Q = Reconcile(R, ret),
         NEW k, k = IF Q = R THEN clock ELSE clock + 1
  PROVE  /\ Sound(Q, k, n, T) /\ Grows(R, Q)
         /\ \A d \in Kids : Len(Q[d]) = Len(R[d])
         /\ \A d \in Kids : ret[d] # "no" => ~IsOpen(Q, d) /\ Tip(Q, d).end \in 1..k
         /\ AtMostOne(R, ret) /\ Apart(R) => Apart(Q)
<1> DEFINE l(d) == IF IsOpen(R, d) THEN clock + 1 ELSE clock
           C(d) == Close(R, d)
<1>1. \A d \in Kids : /\ Sound(C(d), l(d), n, T) /\ Grows(R, C(d)) /\ (Apart(R) => Apart(C(d)))
                      /\ \A e \in Kids : Len(C(d)[e]) = Len(R[e])
                      /\ \A e \in Kids : e # d => C(d)[e] = R[e]
                      /\ ~IsOpen(C(d), d) /\ Tip(C(d), d).end \in 1..l(d)
  BY CloseKeeps
<1>2. \A d \in Kids : ~IsOpen(R, d) => C(d) = R
  BY DEF Close
<1>3. /\ Q = [d \in Kids |-> IF ret[d] # "no" THEN C(d)[d] ELSE R[d]]
      /\ R \in [Kids -> Seq(RoundOf(clock, n))]
  BY DEF Reconcile, Sound
<1> HIDE DEF C
<1>4. \A d \in Kids : ret[d] # "no" => Q[d] = C(d)[d] /\ Tip(Q, d) = Tip(C(d), d)
  BY <1>3 DEF Tip
<1>5. k \in Nat /\ clock <= k /\ \A d \in Kids : ret[d] # "no" => l(d) <= k
  <2>1. ASSUME NEW d \in Kids, ret[d] # "no", IsOpen(R, d) PROVE Q # R
    <3>1. Tip(Q, d).end # 0
      BY <2>1, <1>1, <1>4 DEF IsOpen
    <3> QED
      BY <3>1, <2>1 DEF IsOpen
  <2> QED
    BY <2>1
<1>6. \A d \in Kids : ret[d] # "no" => Sound(C(d), k, n, T)
  <2> SUFFICES ASSUME NEW d \in Kids, ret[d] # "no" PROVE Sound(C(d), k, n, T)
    OBVIOUS
  <2>1. l(d) \in Nat /\ l(d) <= k
    BY <1>5
  <2> QED
    BY <2>1, <1>1, <1>5, Larger
<1>7. Sound(R, k, n, T)
  BY <1>5, Larger
<1> HIDE DEF l
<1>8. \A d \in Kids : Q[d] = IF ret[d] # "no" THEN C(d)[d] ELSE R[d]
  BY <1>3
<1>9. \A d \in Kids : /\ Q[d] \in Seq(RoundOf(k, n)) /\ Len(Q[d]) \in 1..MaxRounds
                      /\ \A i \in 1..Len(Q[d]) : /\ i < Len(Q[d]) => Q[d][i].end # 0
                                                 /\ Fits(Q[d][i], T)
  <2> TAKE d \in Kids
  <2>1. CASE ret[d] # "no"
    BY <2>1, <1>6, <1>8 DEF Sound
  <2>2. CASE ret[d] = "no"
    BY <2>2, <1>7, <1>8 DEF Sound
  <2> QED
    BY <2>1, <2>2
<1>10. Sound(Q, k, n, T)
  <2>1. Q \in [Kids -> Seq(RoundOf(k, n))]
    BY <1>3, <1>9
  <2>2. T \subseteq 1..k
    BY <1>7 DEF Sound
  <2> QED
    BY <1>9, <2>1, <2>2 DEF Sound
<1>11. \A d \in Kids : Len(Q[d]) = Len(R[d]) /\ Len(R[d]) \in Nat
  BY <1>1, <1>8, Places
<1>12. Grows(R, Q)
  <2>1. \A d \in Kids : \A i \in 1..Len(R[d]) : R[d][i].got # 0 => Q[d][i].got = R[d][i].got
    BY <1>1, <1>8 DEF Grows
  <2> QED
    BY <2>1, <1>11 DEF Grows
<1>13. \A d \in Kids : ret[d] # "no" => ~IsOpen(Q, d) /\ Tip(Q, d).end \in 1..k
  <2> SUFFICES ASSUME NEW d \in Kids, ret[d] # "no" PROVE ~IsOpen(Q, d) /\ Tip(Q, d).end \in 1..k
    OBVIOUS
  <2>1. Tip(Q, d) \in RoundOf(k, n) /\ Tip(Q, d).end # 0
    BY <1>1, <1>4, <1>10, Places DEF IsOpen
  <2>2. Tip(Q, d).end \in 0..k
    BY <2>1 DEF RoundOf
  <2> QED
    BY <2>1, <2>2, <1>5 DEF IsOpen
<1>14. ASSUME AtMostOne(R, ret), Apart(R) PROVE Apart(Q)
  <2>1. CASE \E c \in Kids : ret[c] # "no" /\ IsOpen(R, c)
    <3>1. PICK c \in Kids : ret[c] # "no" /\ IsOpen(R, c)
      BY <2>1
    <3>2. \A d \in Kids : Q[d] = C(c)[d]
      <4> TAKE d \in Kids
      <4>1. CASE d = c
        BY <4>1, <3>1, <1>8
      <4>2. CASE d # c
        <5>1. ret[d] # "no" => ~IsOpen(R, d)
          BY <4>2, <3>1, <1>14 DEF AtMostOne
        <5>2. Q[d] = R[d]
          BY <5>1, <1>8, <1>2
        <5> QED
          BY <5>2, <4>2, <1>1
      <4> QED
        BY <4>1, <4>2
    <3>3. Apart(C(c))
      BY <1>1, <1>14
    <3> QED
      BY <3>2, <3>3 DEF Apart
  <2>2. CASE ~\E c \in Kids : ret[c] # "no" /\ IsOpen(R, c)
    <3>1. \A d \in Kids : Q[d] = R[d]
      BY <2>2, <1>8, <1>2
    <3>2. ASSUME NEW d \in Kids, NEW e \in Kids, NEW i \in 1..Len(Q[d]), NEW m \in 1..Len(Q[e]),
                 Q[d][i].end # 0, Q[d][i].end = Q[e][m].end
          PROVE  d = e /\ i = m
      <4>1. Q[d] = R[d] /\ Q[e] = R[e]
        BY <3>1
      <4> QED
        BY <4>1, <3>2, <1>14 DEF Apart
    <3> QED
      BY <3>2 DEF Apart
  <2> QED
    BY <2>1, <2>2
<1> QED
  BY <1>10, <1>11, <1>12, <1>13, <1>14

LEMMA BootsKeeps ==
  ASSUME Core, NEW R, NEW ret, Boots(R, ret), Sub' => Sub,
         Sub => AtMostOne(rounds, ret)
  PROVE  /\ Core' /\ Advances
         /\ \A d \in Kids : ret[d] # "no" => ~IsOpen(rounds', d)
<1>1. Sound(R, clock, parTurn, told) /\ SameEnds(rounds, R) /\ (Apart(rounds) => Apart(R))
  <2>1. clock \in Nat /\ parTurn \in Nat /\ Sound(rounds, clock, parTurn, told)
    BY DEF Core
  <2>2. CASE R = rounds
    BY <2>1, <2>2 DEF SameEnds
  <2>3. CASE R = MarkDelivered(rounds, Pending(rounds))
    BY <2>1, <2>3, MarkKeeps
  <2> QED
    BY <2>2, <2>3 DEF Boots
<1>2. clock \in Nat /\ parTurn \in Nat \ {0} /\ Sound(rounds, clock, parTurn, told)
      /\ (Sub => Apart(rounds)) /\ \A d \in Kids : Len(rounds[d]) \in Nat
  BY Places DEF Core
<1>3. \A d \in Kids : IsOpen(R, d) <=> IsOpen(rounds, d)
  BY <1>1, <1>2, SameTips
<1>4. /\ Sound(rounds', clock', parTurn, told) /\ Grows(R, rounds')
      /\ \A d \in Kids : Len(rounds'[d]) = Len(R[d])
      /\ \A d \in Kids : ret[d] # "no" => ~IsOpen(rounds', d) /\ Tip(rounds', d).end \in 1..clock'
      /\ AtMostOne(R, ret) /\ Apart(R) => Apart(rounds')
  <2>1. rounds' = Reconcile(R, ret) /\ clock' = IF rounds' = R THEN clock ELSE clock + 1
    BY DEF Boots, Boot
  <2> QED
    BY <1>1, <1>2, <2>1, ReconcileKeeps
<1>5. clock' \in Nat /\ clock <= clock'
  BY <1>2 DEF Boots, Boot
<1>6. Sub => Apart(rounds')
  <2>1. AtMostOne(rounds, ret) => AtMostOne(R, ret)
    BY <1>3 DEF AtMostOne
  <2> QED
    BY <2>1, <1>1, <1>2, <1>4
<1>7. \A d \in Kids : Len(rounds'[d]) \in Nat /\ Len(rounds'[d]) = Len(rounds[d])
  BY <1>1, <1>2, <1>4 DEF SameEnds
<1>8. Grows(rounds, rounds')
  BY <1>1, <1>2, <1>4, <1>7 DEF Grows, SameEnds
<1>9. card' = card /\ told' = told /\ parTurn' = parTurn /\ again' = again
  BY DEF Boots
<1>10. Verdicts(card, rounds')
  BY <1>2, <1>7, <1>8, VerdictsGrow DEF Core
<1>11. card \in [Kids -> 0..clock']
  BY <1>2, <1>5 DEF Core
<1>12. jobs' \subseteq JobType(clock') /\ \A j \in jobs' : j.round <= Len(rounds'[j.kid])
  <2> SUFFICES ASSUME NEW j \in jobs'
               PROVE  j \in JobType(clock') /\ j.round <= Len(rounds'[j.kid])
    OBVIOUS
  <2>1. PICK c \in Kids : ret[c] # "no" /\ j = Job(rounds', c)
    BY DEF Boots, Boot
  <2>2. Len(rounds'[c]) \in 1..MaxRounds /\ Tip(rounds', c).end \in 1..clock'
    BY <1>4, <2>1 DEF Sound
  <2> QED
    BY <2>1, <2>2 DEF Job, JobType
<1>13. Core'
  BY <1>2, <1>4, <1>5, <1>6, <1>9, <1>10, <1>11, <1>12 DEF Core
<1> QED
  BY <1>4, <1>5, <1>9, <1>13 DEF Advances, CardStep

-----------------------------------------------------------------------------
(* Every step is one of these.                                              *)
Stays ==
  /\ UNCHANGED <<rounds, card, told, again, clock>>
  /\ jobs' \subseteq jobs /\ parTurn' \in {parTurn, parTurn + 1}
  /\ \A d \in Kids : retired'[d] \in {retired[d], "no"}

Only(c) == \A d \in Kids : d # c => retired'[d] = retired[d]
Files(ret) == \/ ret = retired
              \/ \E c \in Kids : retired[c] = "no" /\ ret = Set(retired, c, "archived")

Effect ==
  \/ Stays
  \/ \E c \in Kids : Opens(c) \/ Reopens(c)
  \/ \E c \in Kids : (Finished(c) \/ Closes(c)) /\ Only(c)
  \/ (Delivers \/ Hands) /\ retired' = retired
  \/ \E R, ret : Boots(R, ret) /\ Files(ret) /\ retired' = ret

Whys == {"no", "delivered", "died", "archived"}

LEMMA EffectKeeps ==
  ASSUME Core, retired \in [Kids -> Whys], RetiredHasNoOpenRound, Effect, Sub' => Sub
  PROVE  Core' /\ Advances /\ RetiredHasNoOpenRound'
<1>1. CASE Stays
  <2>1. jobs' \subseteq JobType(clock) /\ \A j \in jobs' : j.round <= Len(rounds[j.kid])
    BY <1>1 DEF Stays, Core
  <2>2. Sound(rounds, clock, parTurn', told) /\ parTurn' \in Nat \ {0}
    <3>1. parTurn \in Nat \ {0} /\ parTurn + 1 \in Nat /\ clock \in Nat
      BY DEF Core
    <3>2. Sound(rounds, clock, parTurn + 1, told)
      BY <3>1, Larger DEF Core
    <3> QED
      BY <1>1, <3>1, <3>2 DEF Stays, Core
  <2>3. /\ rounds' = rounds /\ card' = card /\ told' = told /\ again' = again /\ clock' = clock
        /\ \A d \in Kids : retired'[d] \in {retired[d], "no"}
    BY <1>1 DEF Stays
  <2>4. Core'
    BY <2>1, <2>2, <2>3 DEF Core
  <2>5. Advances
    BY <2>3 DEF Core, Advances, CardStep
  <2>6. RetiredHasNoOpenRound'
    BY <2>3 DEF RetiredHasNoOpenRound, IsOpen, Tip
  <2> QED
    BY <2>4, <2>5, <2>6
<1>2. ASSUME NEW c \in Kids, Opens(c) \/ Reopens(c) PROVE Core' /\ Advances /\ RetiredHasNoOpenRound'
  <2>1. Core' /\ Advances /\ \A d \in Kids : d # c => rounds'[d] = rounds[d]
    BY <1>2, OpensKeeps, ReopensKeeps
  <2>2. retired' = Set(retired, c, "no")
    BY <1>2 DEF Opens, Reopens
  <2>3. RetiredHasNoOpenRound'
    BY <2>1, <2>2 DEF RetiredHasNoOpenRound, Set, IsOpen, Tip
  <2> QED
    BY <2>1, <2>3
<1>3. ASSUME NEW c \in Kids, Finished(c) \/ Closes(c), Only(c)
      PROVE  Core' /\ Advances /\ RetiredHasNoOpenRound'
  <2>1. CASE Finished(c)
    <3>1. /\ Core' /\ Advances /\ ~IsOpen(rounds', c)
          /\ \A d \in Kids : d # c => (IsOpen(rounds', d) <=> IsOpen(rounds, d))
      BY <2>1, FinishedKeeps
    <3> QED
      BY <3>1, <1>3 DEF RetiredHasNoOpenRound, Only
  <2>2. CASE Closes(c)
    <3>1. Core' /\ Advances /\ ~IsOpen(rounds', c) /\ \A d \in Kids : d # c => rounds'[d] = rounds[d]
      BY <2>2, ClosesKeeps
    <3>2. \A d \in Kids : d # c => (IsOpen(rounds', d) <=> IsOpen(rounds, d))
      BY <3>1 DEF IsOpen, Tip
    <3> QED
      BY <3>1, <3>2, <1>3 DEF RetiredHasNoOpenRound, Only
  <2> QED
    BY <1>3, <2>1, <2>2
<1>4. ASSUME Delivers \/ Hands, retired' = retired PROVE Core' /\ Advances /\ RetiredHasNoOpenRound'
  <2>1. Core' /\ Advances /\ \A d \in Kids : IsOpen(rounds', d) <=> IsOpen(rounds, d)
    BY <1>4, DeliversKeeps, HandsKeeps
  <2> QED
    BY <2>1, <1>4 DEF RetiredHasNoOpenRound
<1>5. ASSUME NEW R, NEW ret, Boots(R, ret), Files(ret), retired' = ret
      PROVE  Core' /\ Advances /\ RetiredHasNoOpenRound'
  <2>1. Sub => AtMostOne(rounds, ret)
    <3>1. PICK c : \A d \in Kids : d # c => ret[d] = retired[d]
      <4>1. CASE ret = retired
        BY <4>1
      <4>2. ASSUME NEW b \in Kids, ret = Set(retired, b, "archived")
            PROVE  \E c : \A d \in Kids : d # c => ret[d] = retired[d]
        <5>1. \A d \in Kids : d # b => ret[d] = retired[d]
          BY <4>2 DEF Set
        <5> QED
          BY <5>1
      <4> QED
        BY <1>5, <4>1, <4>2 DEF Files
    <3>2. Sub => \A d \in Kids : ret[d] # "no" /\ IsOpen(rounds, d) => d = c
      BY <3>1 DEF RetiredHasNoOpenRound
    <3> QED
      BY <3>2 DEF AtMostOne
  <2>2. Core' /\ Advances /\ \A d \in Kids : ret[d] # "no" => ~IsOpen(rounds', d)
    BY <1>5, <2>1, BootsKeeps
  <2> QED
    BY <2>2, <1>5 DEF RetiredHasNoOpenRound
<1> QED
  BY <1>1, <1>2, <1>3, <1>4, <1>5 DEF Effect

(* The rest of the types. *)
Rest ==
  /\ retired \in [Kids -> Whys] /\ pinned \in [Kids -> BOOLEAN]
  /\ queued \in [Kids -> 0..1] /\ stated \in [Kids -> 0..MaxRounds]
  /\ settle \in [Kids -> {"none", "done", "fatal"}]
  /\ conn \in [Kids -> {"up", "away", "gone", "dead", "none"}]
  /\ turn \in [Kids -> BOOLEAN] /\ back \in [Kids -> {"none", "roster", "commands"}]
  /\ par \in {"live", "archived", "gone"} /\ deaf \in BOOLEAN
  /\ grace \in 0..clock /\ ceiling \in 0..grace
  /\ acts \in 0..MaxActs /\ faults \in 0..MaxFaults

Nowhere == UNCHANGED <<rounds, card, jobs, handed, clock>>

LEMMA NowhereStays ==
  ASSUME Nowhere, \A d \in Kids : retired'[d] \in {retired[d], "no"}
  PROVE  Effect
BY DEF Nowhere, handed, Stays, Effect

LEMMA SettlesEffect ==
  ASSUME Rest, NEW c \in Kids, NEW phase, NEW idle, NEW b, Settles(c, phase, idle, b)
  PROVE  Effect
<1>1. CASE Nothing
  BY <1>1, NowhereStays DEF Nothing, Nowhere, tabs
<1>2. CASE /\ Finished(c)
           /\ \E hold \in BOOLEAN :
                retired' = IF hold \/ pinned[c] \/ retired[c] # "no"
                           THEN retired ELSE Set(retired, c, "delivered")
  <2>1. Only(c)
    BY <1>2 DEF Only, Set, Rest
  <2> QED
    BY <1>2, <2>1 DEF Effect
<1> QED
  BY <1>1, <1>2 DEF Settles

LEMMA TurnEndedEffect ==
  ASSUME Rest, NEW c \in Kids, NEW phase, NEW idle, NEW b, TurnEnded(c, phase, idle, b)
  PROVE  Effect
<1>1. CASE Nothing
  BY <1>1, NowhereStays DEF Nothing, Nowhere, tabs
<1>2. CASE Settles(c, phase, idle, b)
  BY <1>2, SettlesEffect
<1> QED
  BY <1>1, <1>2 DEF TurnEnded

LEMMA StartsEffect ==
  ASSUME Rest, NEW c \in Kids, NEW was, was \in {"no", retired[c]}, Starts(c, rounds, was),
         UNCHANGED <<jobs, clock, handed>>
  PROVE  Effect
<1>1. CASE Sub /\ was # "archived"
  BY <1>1 DEF Starts, Reopens, Effect
<1>2. CASE ~(Sub /\ was # "archived")
  <2>1. \A d \in Kids : retired'[d] \in {retired[d], "no"}
    BY <1>2 DEF Starts, Set, Rest
  <2> QED
    BY <1>2, <2>1, NowhereStays DEF Starts, Nowhere
<1> QED
  BY <1>1, <1>2

LEMMA OpenIsOpen ==
  ASSUME Core, NEW c \in Kids PROVE IsOpen(Open(rounds, c), c)
<1>1. CASE IsOpen(rounds, c)
  BY <1>1 DEF Open
<1>2. CASE ~IsOpen(rounds, c)
  <2> DEFINE q == Append(rounds[c], Fresh(parTurn))
  <2>1. rounds[c] \in Seq(RoundOf(clock, parTurn)) /\ rounds \in [Kids -> Seq(RoundOf(clock, parTurn))]
    BY DEF Core, Sound
  <2>2. Fresh(parTurn) \in RoundOf(clock, parTurn) /\ Fresh(parTurn).end = 0
    BY DEF Fresh, RoundOf, Core
  <2>3. Len(q) = Len(rounds[c]) + 1 /\ q[Len(rounds[c]) + 1] = Fresh(parTurn)
    <3> HIDE DEF Fresh
    <3> QED
      BY <2>1, <2>2, AppendProperties
  <2>4. Open(rounds, c)[c] = q
    BY <1>2, <2>1 DEF Open, Set
  <2> QED
    BY <2>2, <2>3, <2>4 DEF IsOpen, Tip
<1> QED
  BY <1>1, <1>2

LEMMA TaskEffect ==
  ASSUME Core, Rest, NEW c \in Kids, Task(c)
  PROVE  Effect
<1> DEFINE R == IF Sub THEN Open(rounds, c) ELSE rounds
<1>0. UNCHANGED <<jobs, clock, handed>> /\ (~IsOpen(rounds, c) => Len(rounds[c]) < MaxRounds)
  BY DEF Task
<1>1. CASE ~Sub
  <2>1. rounds' = rounds /\ retired' = Set(retired, c, "no") /\ card' = card
    BY <1>1 DEF Task, Starts
  <2>2. \A d \in Kids : retired'[d] \in {retired[d], "no"}
    BY <2>1 DEF Set, Rest
  <2> QED
    BY <1>0, <2>1, <2>2, NowhereStays DEF Nowhere
<1>2. CASE Sub
  <2>1. Reopen(R, c) = R /\ R = Open(rounds, c)
    BY <1>2, OpenIsOpen DEF Reopen
  <2>2. rounds' = R /\ retired' = Set(retired, c, "no") /\ card' \in {card, Set(card, c, 0)}
    <3> HIDE DEF R
    <3>1. CASE Starts(c, R, "no")
      BY <3>1, <1>2, <2>1 DEF Starts
    <3>2. CASE rounds' = R /\ retired' = Set(retired, c, "no") /\ UNCHANGED card
      BY <3>2
    <3> QED
      BY <3>1, <3>2 DEF Task, R
  <2> QED
    BY <1>0, <2>1, <2>2 DEF Opens, Effect
<1> QED
  BY <1>1, <1>2

LEMMA HelloEffect ==
  ASSUME Rest, NEW c \in Kids, Hello(c)
  PROVE  Effect
<1>1. UNCHANGED <<jobs, clock, handed>>
  BY DEF Hello
<1>2. CASE Starts(c, rounds, retired[c])
  BY <1>1, <1>2, StartsEffect
<1>3. CASE UNCHANGED <<rounds, retired, card>>
  BY <1>1, <1>3, NowhereStays DEF Nowhere
<1> QED
  BY <1>2, <1>3 DEF Hello

LEMMA KidEffect ==
  ASSUME Core, Rest, NEW c \in Kids, KidStep(c)
  PROVE  Effect
<1>1. CASE Task(c)
  BY <1>1, TaskEffect
<1>2. CASE AutoStart(c)
  BY <1>2, StartsEffect DEF AutoStart
<1>3. CASE State(c)
  BY <1>3, NowhereStays DEF State, Nowhere, tabs
<1>4. CASE TurnEnd(c)
  <2>1. CASE Starts(c, rounds, retired[c]) /\ UNCHANGED <<jobs, handed, clock>>
    BY <2>1, StartsEffect
  <2>2. ASSUME NEW b, TurnEnded(c, "done", TRUE, b) PROVE Effect
    BY <2>2, TurnEndedEffect
  <2> QED
    BY <1>4, <2>1, <2>2 DEF TurnEnd
<1>5. CASE TurnEndUnseen(c)
  BY <1>5, NowhereStays DEF TurnEndUnseen, Nowhere, tabs, memory
<1>6. CASE Drain(c)
  <2>1. CASE TurnEnded(c, "done", TRUE, "none")
    BY <2>1, TurnEndedEffect
  <2>2. CASE Nothing
    BY <2>2, NowhereStays DEF Nothing, Nowhere, tabs
  <2> QED
    BY <1>6, <2>1, <2>2 DEF Drain
<1>7. CASE Settle(c)
  <2>1. CASE Settles(c, settle[c], conn[c] = "up" /\ ~turn[c], back[c])
    BY <2>1, SettlesEffect
  <2>2. CASE Nothing
    BY <2>2, NowhereStays DEF Nothing, Nowhere, tabs
  <2> QED
    BY <1>7, <2>1, <2>2 DEF Settle
<1>8. CASE Blip(c)
  <2>1. CASE TurnEnded(c, "done", FALSE, "none")
    BY <2>1, TurnEndedEffect
  <2>2. CASE Nothing
    BY <2>2, NowhereStays DEF Nothing, Nowhere, tabs
  <2> QED
    BY <1>8, <2>1, <2>2 DEF Blip
<1>9. CASE Die(c)
  <2>1. CASE TurnEnded(c, "done", FALSE, "none")
    BY <2>1, TurnEndedEffect
  <2>2. CASE TurnEnded(c, "fatal", TRUE, back[c])
    BY <2>2, TurnEndedEffect
  <2>3. CASE Nothing
    BY <2>3, NowhereStays DEF Nothing, Nowhere, tabs
  <2> QED
    BY <1>9, <2>1, <2>2, <2>3 DEF Die
<1>10. CASE Reconnect(c) \/ Respawn(c) \/ UserRespawn(c)
  BY <1>10, HelloEffect DEF Reconnect, Respawn, UserRespawn
<1>11. CASE GiveUp(c)
  <2>1. CASE Sub
    <3>1. Finished(c) /\ Only(c)
      BY <1>11, <2>1 DEF GiveUp, Only, Set, Rest
    <3> QED
      BY <3>1 DEF Effect
  <2>2. CASE ~Sub
    BY <1>11, <2>2, NowhereStays DEF GiveUp, Nowhere
  <2> QED
    BY <2>1, <2>2
<1>12. CASE Archive(c)
  <2>1. Closes(c) /\ Only(c)
    BY <1>12 DEF Archive, Retire, Closes, Only, Set, Rest, memory
  <2> QED
    BY <2>1 DEF Effect
<1>13. CASE Unarchive(c)
  <2>1. \A d \in Kids : retired'[d] \in {retired[d], "no"}
    BY <1>13 DEF Unarchive, Set, Rest
  <2> QED
    BY <1>13, <2>1, NowhereStays DEF Unarchive, Nowhere, memory
<1>14. CASE Pin(c)
  BY <1>14, NowhereStays DEF Pin, Nowhere, memory
<1>15. CASE DeletePane(c)
  <2>1. CASE Sub /\ retired[c] = "no"
    <3>1. Closes(c) /\ Only(c)
      BY <1>15, <2>1 DEF DeletePane, Retire, Closes, Only, Set, Rest
    <3> QED
      BY <3>1 DEF Effect
  <2>2. CASE ~(Sub /\ retired[c] = "no")
    BY <1>15, <2>2, NowhereStays DEF DeletePane, Nowhere
  <2> QED
    BY <2>1, <2>2
<1> QED
  BY <1>1, <1>2, <1>3, <1>4, <1>5, <1>6, <1>7, <1>8, <1>9, <1>10, <1>11, <1>12, <1>13, <1>14, <1>15
     DEF KidStep

LEMMA StepEffect ==
  ASSUME Core, Rest, Next
  PROVE  Effect
<1>1. ASSUME NEW c \in Kids, KidStep(c) PROVE Effect
  BY <1>1, KidEffect
<1>2. ASSUME NEW j \in jobs, NEW result \in BOOLEAN, Generated(j, result) PROVE Effect
  <2>1. CASE IsCurrent(rounds, j) /\ Deliver(rounds, j)
    BY <1>2, <2>1 DEF Generated, Delivers, Effect
  <2>2. CASE UNCHANGED <<rounds, card, handed>>
    BY <1>2, <2>2 DEF Generated, Stays, handed, Effect
  <2> QED
    BY <1>2, <2>1, <2>2 DEF Generated
<1>3. CASE ParentMessage
  BY <1>3 DEF ParentMessage, tabs, memory, Stays, Effect
<1>4. CASE ParentLeaves \/ Tick \/ Deafen \/ Hears
  BY <1>4, NowhereStays DEF ParentLeaves, Tick, Deafen, Hears, Nowhere, tabs, memory
<1>5. CASE Sweep
  BY <1>5 DEF Sweep, Hands, Effect, memory
<1>6. CASE Restart
  <2>1. UNCHANGED <<card, parTurn, again>>
    BY <1>6 DEF Restart
  <2>2. CASE Boot(rounds, retired) /\ UNCHANGED told
    <3>1. Boots(rounds, retired) /\ Files(retired) /\ retired' = retired
      BY <2>1, <2>2 DEF Boots, Files, Boot
    <3> QED
      BY <3>1 DEF Effect
  <2>3. ASSUME NEW c \in Kids, retired[c] = "no", Boot(rounds, Set(retired, c, "archived")), UNCHANGED told
        PROVE  Effect
    <3> DEFINE ret == Set(retired, c, "archived")
    <3>1. Boots(rounds, ret) /\ Files(ret) /\ retired' = ret
      BY <2>1, <2>3 DEF Boots, Files, Boot
    <3> QED
      BY <3>1 DEF Effect
  <2>4. CASE Boot(Cut(rounds, Pending(rounds)).rounds, retired) /\ told' = Cut(rounds, Pending(rounds)).told
    <3> DEFINE R == MarkDelivered(rounds, Pending(rounds))
    <3>1. Cut(rounds, Pending(rounds)).rounds = R /\ Cut(rounds, Pending(rounds)).told = told
      BY DEF Cut
    <3> HIDE DEF R
    <3>2. Boots(R, retired) /\ Files(retired) /\ retired' = retired
      <4>1. Boot(R, retired) /\ told' = told /\ R \in {rounds, MarkDelivered(rounds, Pending(rounds))}
        BY <2>4, <3>1 DEF R
      <4>2. retired' = retired
        BY <4>1 DEF Boot
      <4> QED
        BY <2>1, <4>1, <4>2 DEF Boots, Files
    <3> QED
      BY <3>2 DEF Effect
  <2> QED
    BY <1>6, <2>2, <2>3, <2>4 DEF Restart
<1> QED
  BY <1>1, <1>2, <1>3, <1>4, <1>5, <1>6 DEF Next

-----------------------------------------------------------------------------
(* The types of the rest, part by part.                                     *)
Tabbed  == retired \in [Kids -> Whys] /\ pinned \in [Kids -> BOOLEAN]
Recalls == /\ stated \in [Kids -> 0..MaxRounds]
           /\ settle \in [Kids -> {"none", "done", "fatal"}]
Running == /\ conn \in [Kids -> {"up", "away", "gone", "dead", "none"}]
           /\ turn \in [Kids -> BOOLEAN] /\ back \in [Kids -> {"none", "roster", "commands"}]
           /\ queued \in [Kids -> 0..1]
Parents == par \in {"live", "archived", "gone"} /\ deaf \in BOOLEAN
Times   == grace \in 0..clock /\ ceiling \in 0..grace
Bounds  == acts \in 0..MaxActs /\ faults \in 0..MaxFaults

LEMMA RestParts == Rest <=> Tabbed /\ Recalls /\ Running /\ Parents /\ Times /\ Bounds
BY DEF Rest, Tabbed, Recalls, Running, Parents, Times, Bounds

LEMMA RestPartsNext == Rest' <=> (Tabbed /\ Recalls /\ Running /\ Parents /\ Times /\ Bounds)'
BY DEF Rest, Tabbed, Recalls, Running, Parents, Times, Bounds

LEMMA TimesStay ==
  ASSUME Core, Times, clock' \in Nat, clock <= clock', UNCHANGED time PROVE Times'
BY DEF Core, Times, time

LEMMA BoundsStay ==
  ASSUME Bounds,
         \/ Act
         \/ \E kind : Fault(kind)
         \/ Calm
  PROVE  Bounds'
BY RoundsAssumption DEF Bounds, Act, Fault, Calm

LEMMA FinishedRest ==
  ASSUME Recalls, NEW c \in Kids, Finished(c) PROVE stated' \in [Kids -> 0..MaxRounds]
<1>1. 0 \in 0..MaxRounds
  BY RoundsAssumption
<1>2. stated' \in {stated, Set(stated, c, 0)}
  BY DEF Finished
<1> QED
  BY <1>1, <1>2 DEF Recalls, Set

LEMMA SettlesRest ==
  ASSUME Tabbed, Recalls, NEW c \in Kids, NEW phase \in {"done", "fatal"}, NEW idle, NEW b,
         Settles(c, phase, idle, b)
  PROVE  Tabbed' /\ Recalls'
<1>1. settle' \in {Set(settle, c, "none"), Set(settle, c, phase)}
  BY DEF Settles
<1>2. settle' \in [Kids -> {"none", "done", "fatal"}]
  BY <1>1 DEF Recalls, Set
<1>3. stated' \in [Kids -> 0..MaxRounds]
  BY FinishedRest DEF Settles, Nothing, Recalls
<1>4. retired' \in {retired, Set(retired, c, "delivered")} /\ pinned' = pinned
  BY DEF Settles, Nothing, tabs
<1>5. retired' \in [Kids -> Whys]
  BY <1>4 DEF Tabbed, Whys, Set
<1> QED
  BY <1>2, <1>3, <1>4, <1>5 DEF Tabbed, Recalls

LEMMA TurnEndedRest ==
  ASSUME Tabbed, Recalls, NEW c \in Kids, NEW phase \in {"done", "fatal"}, NEW idle, NEW b,
         TurnEnded(c, phase, idle, b)
  PROVE  Tabbed' /\ Recalls'
<1>1. CASE Settles(c, phase, idle, b)
  BY <1>1, SettlesRest
<1>2. CASE Nothing /\ settle' \in {settle, Set(settle, c, "none"), Set(settle, c, phase)}
  <2>1. settle' \in [Kids -> {"none", "done", "fatal"}]
    BY <1>2 DEF Recalls, Set
  <2> QED
    BY <1>2, <2>1 DEF Nothing, tabs, Tabbed, Recalls
<1> QED
  BY <1>1, <1>2 DEF TurnEnded

LEMMA NothingRest ==
  ASSUME Tabbed, Recalls, Nothing, UNCHANGED settle PROVE Tabbed' /\ Recalls'
BY DEF Nothing, tabs, Tabbed, Recalls

LEMMA StartsRest ==
  ASSUME Tabbed, Recalls, NEW c \in Kids, NEW R, NEW was \in Whys, Starts(c, R, was),
         UNCHANGED <<pinned, stated>>
  PROVE  Tabbed' /\ Recalls'
<1>1. settle' = Set(settle, c, "none") /\ retired' \in {Set(retired, c, "no"), Set(retired, c, was)}
  BY DEF Starts
<1>2. settle' \in [Kids -> {"none", "done", "fatal"}]
  BY <1>1 DEF Recalls, Set
<1>3. retired' \in [Kids -> Whys]
  BY <1>1 DEF Tabbed, Whys, Set
<1> QED
  BY <1>2, <1>3 DEF Tabbed, Recalls

(* ... and of the runners: each of their parts is kept or set at one kid.   *)
Becomes(f, S, c) == f' = f \/ \E v \in S : f' = Set(f, c, v)

LEMMA RunningBecomes ==
  ASSUME Running, NEW c \in Kids,
         Becomes(conn, {"up", "away", "gone", "dead", "none"}, c), Becomes(turn, BOOLEAN, c),
         Becomes(back, {"none", "roster", "commands"}, c), Becomes(queued, 0..1, c)
  PROVE  Running'
<1>1. conn' \in [Kids -> {"up", "away", "gone", "dead", "none"}]
  BY DEF Running, Becomes, Set
<1>2. turn' \in [Kids -> BOOLEAN]
  BY DEF Running, Becomes, Set
<1>3. back' \in [Kids -> {"none", "roster", "commands"}]
  BY DEF Running, Becomes, Set
<1>4. queued' \in [Kids -> 0..1]
  BY DEF Running, Becomes, Set
<1> QED
  BY <1>1, <1>2, <1>3, <1>4 DEF Running

LEMMA KidFrame ==
  ASSUME Rest, Core, NEW c \in Kids, KidStep(c), clock' \in Nat, clock <= clock'
  PROVE  Parents' /\ Times' /\ Bounds'
<1> USE DEF KidStep, Task, AutoStart, State, TurnEnd, TurnEndUnseen, Drain, Settle, Blip, Die,
        Reconnect, Respawn, UserRespawn, Hello, GiveUp, Archive, Unarchive, Pin, DeletePane
<1>1. UNCHANGED <<parent, time>>
  OBVIOUS
<1>2. Act \/ Calm \/ Fault("blip") \/ Fault("die")
  OBVIOUS
<1> QED
  BY <1>1, <1>2, RestParts, TimesStay, BoundsStay DEF Parents, parent

LEMMA KidRunning ==
  ASSUME Running, Tabbed, Recalls, NEW c \in Kids, KidStep(c)
  PROVE  Running'
<1>0. UNCHANGED <<conn, turn, back, queued>> => Running'
  BY DEF Running
<1>a. ASSUME UNCHANGED <<conn, back>>, Becomes(turn, BOOLEAN, c), Becomes(queued, 0..1, c)
      PROVE  Running'
  BY <1>a, RunningBecomes DEF Becomes
<1>1. CASE Task(c) \/ AutoStart(c)
  <2>1. UNCHANGED <<conn, back>>
    BY <1>1 DEF Task, AutoStart
  <2>2. turn' = turn \/ turn' = Set(turn, c, TRUE)
    BY <1>1 DEF Task, AutoStart
  <2>3. queued' = queued \/ queued' = Set(queued, c, 1)
    BY <1>1 DEF Task, AutoStart
  <2>4. Becomes(turn, BOOLEAN, c)
    BY <2>2 DEF Becomes
  <2>5. Becomes(queued, 0..1, c)
    BY <2>3 DEF Becomes
  <2> QED
    BY <2>1, <2>4, <2>5, <1>a
<1>2. CASE State(c) \/ Settle(c)
  BY <1>2, <1>0 DEF State, Settle, runners
<1>3. CASE TurnEnd(c)
  <2>1. CASE queued' = Set(queued, c, 0) /\ UNCHANGED <<conn, turn, back>>
    BY <2>1, <1>a DEF Becomes
  <2>2. ASSUME NEW b \in {"none", "roster", "commands"},
               back' = Set(back, c, b), turn' = Set(turn, c, FALSE), UNCHANGED <<conn, queued>>
        PROVE  Running'
    BY <2>2, RunningBecomes DEF Becomes
  <2>3. CASE queued[c] > 0
    BY <1>3, <2>1, <2>3 DEF TurnEnd
  <2>4. CASE ~(queued[c] > 0)
    <3>1. PICK b \in {"none", "roster", "commands"} :
            back' = Set(back, c, b) /\ turn' = Set(turn, c, FALSE) /\ UNCHANGED queued
      BY <1>3, <2>4 DEF TurnEnd
    <3>2. UNCHANGED conn
      BY <1>3 DEF TurnEnd
    <3> QED
      BY <2>2, <3>1, <3>2
  <2> QED
    BY <2>3, <2>4
<1>4. CASE TurnEndUnseen(c)
  <2>1. UNCHANGED <<conn, back, queued>> /\ turn' = Set(turn, c, FALSE)
    BY <1>4 DEF TurnEndUnseen
  <2> QED
    BY <2>1, <1>a DEF Becomes
<1>5. CASE Drain(c)
  BY <1>5, RunningBecomes DEF Drain, Becomes
<1>6. CASE Blip(c)
  BY <1>6, RunningBecomes DEF Blip, Becomes
<1>7. CASE Die(c) \/ DeletePane(c)
  <2>1. turn' = Set(turn, c, FALSE) /\ back' = Set(back, c, "none")
    BY <1>7 DEF Die, DeletePane
  <2>2. conn' = Set(conn, c, "gone") \/ conn' = Set(conn, c, "none")
    BY <1>7 DEF Die, DeletePane
  <2>3. queued' = queued \/ queued' = Set(queued, c, 0)
    BY <1>7 DEF Die, DeletePane
  <2>4. Becomes(conn, {"up", "away", "gone", "dead", "none"}, c)
    BY <2>2 DEF Becomes
  <2>5. Becomes(turn, BOOLEAN, c)
    BY <2>1 DEF Becomes
  <2>6. Becomes(back, {"none", "roster", "commands"}, c)
    BY <2>1 DEF Becomes
  <2>7. Becomes(queued, 0..1, c)
    BY <2>3 DEF Becomes
  <2> QED
    BY <2>4, <2>5, <2>6, <2>7, RunningBecomes
<1>8. CASE Reconnect(c) \/ Respawn(c) \/ UserRespawn(c)
  <2>1. Hello(c)
    BY <1>8 DEF Reconnect, Respawn, UserRespawn
  <2>2. conn' = Set(conn, c, "up") /\ back' = back
    BY <2>1 DEF Hello
  <2>3. turn' = turn \/ turn' = Set(turn, c, TRUE)
    BY <2>1 DEF Hello
  <2>4. queued' = queued \/ queued' = Set(queued, c, 0)
    BY <2>1 DEF Hello
  <2>5. Becomes(conn, {"up", "away", "gone", "dead", "none"}, c)
    BY <2>2 DEF Becomes
  <2>6. Becomes(turn, BOOLEAN, c)
    BY <2>3 DEF Becomes
  <2>7. Becomes(back, {"none", "roster", "commands"}, c)
    BY <2>2 DEF Becomes
  <2>8. Becomes(queued, 0..1, c)
    BY <2>4 DEF Becomes
  <2> QED
    BY <2>5, <2>6, <2>7, <2>8, RunningBecomes
<1>9. CASE GiveUp(c)
  BY <1>9, RunningBecomes DEF GiveUp, Becomes
<1>10. CASE Archive(c) \/ Unarchive(c) \/ Pin(c)
  BY <1>10, <1>0 DEF Archive, Unarchive, Pin, runners
<1> QED
  BY <1>1, <1>2, <1>3, <1>4, <1>5, <1>6, <1>7, <1>8, <1>9, <1>10 DEF KidStep

LEMMA KidTabs ==
  ASSUME Core, Running, Tabbed, Recalls, NEW c \in Kids, KidStep(c)
  PROVE  Tabbed' /\ Recalls'
<1>0. retired[c] \in Whys /\ back[c] \in {"none", "roster", "commands"}
  BY DEF Tabbed, Running
<1>1. CASE Task(c)
  <2>1. UNCHANGED <<pinned, stated>>
    BY <1>1 DEF Task
  <2>2. ASSUME NEW R, Starts(c, R, "no") PROVE Tabbed' /\ Recalls'
    BY <2>1, <2>2, StartsRest DEF Whys
  <2>3. CASE retired' = Set(retired, c, "no") /\ UNCHANGED settle
    BY <2>1, <2>3 DEF Tabbed, Recalls, Set, Whys
  <2> QED
    BY <1>1, <2>2, <2>3 DEF Task
<1>2. CASE AutoStart(c)
  BY <1>0, <1>2, StartsRest DEF AutoStart
<1>3. CASE State(c)
  <2>1. Len(rounds[c]) \in 0..MaxRounds
    <3>1. Len(rounds[c]) \in 1..MaxRounds
      BY DEF Core, Sound
    <3> QED
      BY <3>1, RoundsAssumption
  <2> QED
    BY <1>3, <2>1 DEF State, tabs, Tabbed, Recalls, Set
<1>4. CASE TurnEnd(c)
  <2>1. CASE Starts(c, rounds, retired[c]) /\ UNCHANGED <<pinned, stated>>
    BY <1>0, <2>1, StartsRest
  <2>2. ASSUME NEW b, TurnEnded(c, "done", TRUE, b) PROVE Tabbed' /\ Recalls'
    BY <2>2, TurnEndedRest
  <2> QED
    BY <1>4, <2>1, <2>2 DEF TurnEnd
<1>5. CASE TurnEndUnseen(c)
  BY <1>5 DEF TurnEndUnseen, tabs, memory, Tabbed, Recalls
<1>6. CASE Drain(c)
  BY <1>6, TurnEndedRest, NothingRest DEF Drain
<1>7. CASE Settle(c)
  <2>1. settle[c] \in {"done", "fatal"}
    BY <1>7 DEF Settle, Recalls
  <2>2. CASE Settles(c, settle[c], conn[c] = "up" /\ ~turn[c], back[c])
    BY <2>1, <2>2, SettlesRest
  <2>3. CASE Nothing /\ settle' = Set(settle, c, "none")
    BY <2>3 DEF Nothing, tabs, Tabbed, Recalls, Set
  <2> QED
    BY <1>7, <2>2, <2>3 DEF Settle
<1>8. CASE Blip(c)
  BY <1>8, TurnEndedRest, NothingRest DEF Blip
<1>9. CASE Die(c)
  BY <1>9, TurnEndedRest, NothingRest DEF Die
<1>10. CASE Reconnect(c) \/ Respawn(c) \/ UserRespawn(c)
  <2>1. Hello(c)
    BY <1>10 DEF Reconnect, Respawn, UserRespawn
  <2>2. UNCHANGED <<pinned, stated>>
    BY <2>1 DEF Hello
  <2>3. CASE Starts(c, rounds, retired[c])
    BY <1>0, <2>2, <2>3, StartsRest
  <2>4. CASE UNCHANGED <<settle, retired>>
    BY <2>2, <2>4 DEF Tabbed, Recalls
  <2> QED
    BY <2>1, <2>3, <2>4 DEF Hello
<1>11. CASE GiveUp(c)
  <2>1. stated' \in [Kids -> 0..MaxRounds]
    BY <1>11, FinishedRest DEF GiveUp, Recalls
  <2>2. settle' \in [Kids -> {"none", "done", "fatal"}]
    BY <1>11 DEF GiveUp, Recalls, Set
  <2>3. Tabbed'
    BY <1>11 DEF GiveUp, Tabbed, Set, Whys
  <2> QED
    BY <2>1, <2>2, <2>3 DEF Recalls
<1>12. CASE Archive(c)
  BY <1>12 DEF Archive, Retire, memory, Tabbed, Recalls, Set, Whys
<1>13. CASE Unarchive(c)
  BY <1>13 DEF Unarchive, memory, Tabbed, Recalls, Set, Whys
<1>14. CASE Pin(c)
  BY <1>14 DEF Pin, memory, Tabbed, Recalls, Set
<1>15. CASE DeletePane(c)
  <2>1. settle' \in [Kids -> {"none", "done", "fatal"}] /\ stated' = stated /\ pinned' = pinned
    BY <1>15 DEF DeletePane, Recalls, Set
  <2>2. retired' \in {retired, Set(retired, c, "died")}
    BY <1>15 DEF DeletePane, Retire
  <2> QED
    BY <2>1, <2>2 DEF Tabbed, Recalls, Set, Whys
<1> QED
  BY <1>1, <1>2, <1>3, <1>4, <1>5, <1>6, <1>7, <1>8, <1>9, <1>10, <1>11, <1>12, <1>13, <1>14, <1>15
     DEF KidStep

LEMMA RestStep ==
  ASSUME Core, Rest, Next, clock' \in Nat, clock <= clock'
  PROVE  Rest'
<1>0. Tabbed /\ Recalls /\ Running /\ Parents /\ Times /\ Bounds
  BY RestParts
<1>1. ASSUME NEW c \in Kids, KidStep(c) PROVE Rest'
  <2>1. Running' /\ Tabbed' /\ Recalls' /\ Parents' /\ Times' /\ Bounds'
    BY <1>0, <1>1, KidFrame, KidRunning, KidTabs
  <2> QED
    BY <2>1, RestPartsNext
<1>2. ASSUME NEW j \in jobs, NEW result \in BOOLEAN, Generated(j, result) PROVE Rest'
  <2>1. Calm /\ UNCHANGED <<retired, pinned, stated, settle, runners, parent, time>>
    BY <1>2 DEF Generated
  <2>2. Times' /\ Bounds'
    BY <1>0, <2>1, TimesStay, BoundsStay
  <2> QED
    BY <1>0, <2>1, <2>2, RestPartsNext DEF Tabbed, Recalls, Running, Parents, runners, parent
<1>3. CASE ParentMessage \/ ParentLeaves \/ Sweep \/ Deafen \/ Hears
  <2>1. UNCHANGED <<retired, pinned, stated, settle, runners, time>>
    BY <1>3 DEF ParentMessage, ParentLeaves, Sweep, Deafen, Hears, tabs, memory
  <2>2. par' \in {"live", "archived", "gone"} /\ deaf' \in BOOLEAN
    BY <1>0, <1>3 DEF ParentMessage, ParentLeaves, Sweep, Deafen, Hears, Parents, parent
  <2>3. Act \/ Calm \/ Fault("deaf")
    BY <1>3 DEF ParentMessage, ParentLeaves, Sweep, Deafen, Hears
  <2>4. Times' /\ Bounds'
    BY <1>0, <2>1, <2>3, TimesStay, BoundsStay
  <2> QED
    BY <1>0, <2>1, <2>2, <2>4, RestPartsNext DEF Tabbed, Recalls, Running, Parents, runners
<1>4. CASE Tick
  <2>1. UNCHANGED <<retired, pinned, stated, settle, runners, parent>> /\ clock' = clock /\ Calm
        /\ grace' = clock /\ ceiling' = grace
    BY <1>4 DEF Tick, tabs, memory
  <2>2. Times'
    BY <1>0, <2>1 DEF Times
  <2>3. Bounds'
    BY <1>0, <2>1, BoundsStay
  <2> QED
    BY <1>0, <2>1, <2>2, <2>3, RestPartsNext DEF Tabbed, Recalls, Running, Parents, runners, parent
<1>5. CASE Restart
  <2>1. /\ Fault("restart") /\ UNCHANGED <<turn, back, queued, parent, time>>
        /\ pinned' \in {pinned} \cup {Set(pinned, c, FALSE) : c \in Kids}
    BY <1>5 DEF Restart
  <2>2. ASSUME NEW R, NEW ret, Boot(R, ret)
        PROVE  /\ retired' = ret /\ stated' \in [Kids -> 0..MaxRounds]
               /\ settle' \in [Kids -> {"none", "done", "fatal"}]
               /\ conn' \in [Kids -> {"up", "away", "gone", "dead", "none"}]
    <3>1. retired' = ret
      BY <2>2 DEF Boot
    <3>2. stated' \in [Kids -> 0..MaxRounds]
      BY <2>2, RoundsAssumption DEF Boot
    <3>3. settle' \in [Kids -> {"none", "done", "fatal"}]
      BY <2>2 DEF Boot
    <3>4. conn' \in [Kids -> {"up", "away", "gone", "dead", "none"}]
      BY <1>0, <2>2 DEF Boot, Running
    <3> QED
      BY <3>1, <3>2, <3>3, <3>4
  <2>3. PICK R, ret : Boot(R, ret) /\ (ret = retired \/ \E c \in Kids : ret = Set(retired, c, "archived"))
    BY <1>5 DEF Restart
  <2>4. Recalls' /\ Running'
    BY <1>0, <2>1, <2>2, <2>3 DEF Recalls, Running
  <2>5. Tabbed'
    <3>1. retired' \in [Kids -> Whys]
      BY <1>0, <2>2, <2>3 DEF Tabbed, Set, Whys
    <3>2. pinned' \in [Kids -> BOOLEAN]
      BY <1>0, <2>1 DEF Tabbed, Set
    <3> QED
      BY <3>1, <3>2 DEF Tabbed
  <2>6. Times' /\ Bounds' /\ Parents'
    BY <1>0, <2>1, TimesStay, BoundsStay DEF Parents, parent
  <2> QED
    BY <2>4, <2>5, <2>6, RestPartsNext
<1> QED
  BY <1>1, <1>2, <1>3, <1>4, <1>5 DEF Next

-----------------------------------------------------------------------------
(* A chat that is filed as delivered or dead is quiet.                      *)
Filed == {"delivered", "died"}

LEMMA SubStays ==
  ASSUME Next, Rest PROVE Sub' => Sub
<1>1. CASE \E c \in Kids : KidStep(c)
  <2>1. par' = par
    <3> USE DEF KidStep, Task, AutoStart, State, TurnEnd, TurnEndUnseen, Drain, Settle, Blip, Die,
            Reconnect, Respawn, UserRespawn, Hello, GiveUp, Archive, Unarchive, Pin, DeletePane, parent
    <3> QED
      BY <1>1
  <2> QED
    BY <2>1 DEF Sub
<1>2. CASE \E j \in jobs, result \in BOOLEAN : Generated(j, result)
  BY <1>2 DEF Generated, parent, Sub
<1>3. CASE ParentMessage \/ ParentLeaves \/ Tick \/ Sweep \/ Deafen \/ Hears \/ Restart
  BY <1>3 DEF ParentMessage, ParentLeaves, Tick, Sweep, Deafen, Hears, Restart, parent, Sub
<1> QED
  BY <1>1, <1>2, <1>3 DEF Next

(* A kid of which the step may change nothing but the archive.              *)
Still(d) == /\ retired'[d] \in {retired[d], "no", "archived"}
            /\ queued'[d] = queued[d] /\ turn'[d] = turn[d] /\ conn'[d] = conn[d]

LEMMA StillQuiet ==
  ASSUME DoneIsQuiet, Sub' => Sub, NEW d \in Kids, Still(d)
  PROVE  retired'[d] \in Filed /\ Sub' => queued'[d] = 0 /\ ~(conn'[d] = "up" /\ turn'[d])
BY DEF DoneIsQuiet, Still, Filed

(* Where the verdict comes from: only a settle of an idle kid with an empty *)
(* queue files it as delivered.                                             *)
LEMMA SettlesFiles ==
  ASSUME Rest, NEW c \in Kids, NEW phase, NEW idle, NEW b,
         Settles(c, phase, idle, b) \/ TurnEnded(c, phase, idle, b)
  PROVE  \/ retired' = retired
         \/ retired' = Set(retired, c, "delivered") /\ idle /\ queued[c] = 0 /\ phase # "fatal"
<1>1. queued[c] \in 0..1
  BY DEF Rest
<1>2. CASE Settles(c, phase, idle, b)
  <2>1. CASE ~idle \/ queued[c] > 0 \/ b = "roster"
    BY <1>2, <2>1 DEF Settles, Nothing, tabs
  <2>2. CASE ~(~idle \/ queued[c] > 0 \/ b = "roster")
    <3>1. PICK hold \in BOOLEAN :
            /\ phase = "fatal" => hold
            /\ retired' = IF hold \/ pinned[c] \/ retired[c] # "no"
                          THEN retired ELSE Set(retired, c, "delivered")
      BY <1>2, <2>2 DEF Settles
    <3> QED
      BY <1>1, <2>2, <3>1
  <2> QED
    BY <2>1, <2>2
<1>3. CASE ~Settles(c, phase, idle, b)
  BY <1>3 DEF TurnEnded, Nothing, tabs
<1> QED
  BY <1>2, <1>3

LEMMA StartsFiles ==
  ASSUME Rest, NEW c \in Kids, NEW R, NEW was, Starts(c, R, was)
  PROVE  /\ \A d \in Kids : d # c => retired'[d] = retired[d]
         /\ (retired'[c] \in Filed => ~Sub)
BY DEF Starts, Set, Filed, Rest

(* The steps of a kid leave the others as they are ...                      *)
LEMMA OthersStill ==
  ASSUME Rest, NEW c \in Kids, KidStep(c), NEW d \in Kids, d # c
  PROVE  Still(d)
<1>1. /\ retired \in [Kids -> Whys] /\ conn \in [Kids -> {"up", "away", "gone", "dead", "none"}]
      /\ turn \in [Kids -> BOOLEAN] /\ queued \in [Kids -> 0..1]
  BY DEF Rest
<1>2. \A v : /\ Set(retired, c, v)[d] = retired[d] /\ Set(conn, c, v)[d] = conn[d]
             /\ Set(turn, c, v)[d] = turn[d] /\ Set(queued, c, v)[d] = queued[d]
  BY <1>1 DEF Set
<1>3. retired' = retired \/ \E v : retired' = Set(retired, c, v)
  <2>1. CASE Task(c)
    BY <2>1 DEF Task, Starts
  <2>2. CASE AutoStart(c) \/ TurnEnd(c)
    BY <2>2, SettlesFiles DEF AutoStart, TurnEnd, Starts
  <2>3. CASE Drain(c)
    BY <2>3, SettlesFiles DEF Drain, Nothing, tabs
  <2>4. CASE Settle(c)
    BY <2>4, SettlesFiles DEF Settle, Nothing, tabs
  <2>5. CASE Blip(c)
    BY <2>5, SettlesFiles DEF Blip, Nothing, tabs
  <2>6. CASE Die(c)
    BY <2>6, SettlesFiles DEF Die, Nothing, tabs
  <2>7. CASE Reconnect(c) \/ Respawn(c) \/ UserRespawn(c)
    BY <2>7 DEF Reconnect, Respawn, UserRespawn, Hello, Starts
  <2>8. CASE State(c) \/ TurnEndUnseen(c) \/ Pin(c)
    BY <2>8 DEF State, TurnEndUnseen, Pin, tabs
  <2>9. CASE GiveUp(c) \/ Archive(c) \/ Unarchive(c) \/ DeletePane(c)
    BY <2>9 DEF GiveUp, Archive, Unarchive, DeletePane, Retire
  <2> QED
    BY <2>1, <2>2, <2>3, <2>4, <2>5, <2>6, <2>7, <2>8, <2>9 DEF KidStep
<1>4. /\ (conn' = conn \/ \E v : conn' = Set(conn, c, v))
      /\ (turn' = turn \/ \E v : turn' = Set(turn, c, v))
      /\ (queued' = queued \/ \E v : queued' = Set(queued, c, v))
  <2> USE DEF Task, AutoStart, State, TurnEnd, TurnEndUnseen, Drain, Settle, Blip, Die,
          Reconnect, Respawn, UserRespawn, Hello, GiveUp, Archive, Unarchive, Pin, DeletePane, runners
  <2>1. CASE Task(c) \/ AutoStart(c) \/ State(c) \/ TurnEnd(c) \/ TurnEndUnseen(c)
    BY <2>1
  <2>2. CASE Drain(c) \/ Settle(c) \/ Blip(c) \/ Die(c)
    BY <2>2
  <2>3. CASE Reconnect(c) \/ Respawn(c) \/ UserRespawn(c)
    BY <2>3
  <2>4. CASE GiveUp(c) \/ Archive(c) \/ Unarchive(c) \/ Pin(c) \/ DeletePane(c)
    BY <2>4
  <2> QED
    BY <2>1, <2>2, <2>3, <2>4 DEF KidStep
<1> QED
  BY <1>2, <1>3, <1>4 DEF Still

(* ... and the kid itself quiet, if it is filed.                            *)
LEMMA KidQuiet ==
  ASSUME Rest, DoneIsQuiet, Sub' => Sub, NEW c \in Kids, KidStep(c)
  PROVE  retired'[c] \in Filed /\ Sub' => queued'[c] = 0 /\ ~(conn'[c] = "up" /\ turn'[c])
<1> SUFFICES ASSUME retired'[c] \in Filed, Sub'
             PROVE  queued'[c] = 0 /\ ~(conn'[c] = "up" /\ turn'[c])
  OBVIOUS
<1>0. /\ retired \in [Kids -> Whys] /\ conn \in [Kids -> {"up", "away", "gone", "dead", "none"}]
      /\ turn \in [Kids -> BOOLEAN] /\ queued \in [Kids -> 0..1] /\ queued[c] \in 0..1 /\ Sub
  BY DEF Rest
<1>1. \A v : /\ Set(retired, c, v)[c] = v /\ Set(conn, c, v)[c] = v
             /\ Set(turn, c, v)[c] = v /\ Set(queued, c, v)[c] = v
  BY <1>0 DEF Set
<1>2. retired' = retired => queued[c] = 0 /\ ~(conn[c] = "up" /\ turn[c])
  BY <1>0 DEF DoneIsQuiet, Filed
<1>3. \A R, was : ~Starts(c, R, was)
  BY <1>0, StartsFiles
<1>4. CASE Task(c) \/ AutoStart(c)
  BY <1>1, <1>3, <1>4 DEF Task, AutoStart, Filed
<1>5. CASE TurnEnd(c)
  <2>1. PICK b \in {"none", "roster", "commands"} :
          turn' = Set(turn, c, FALSE) /\ TurnEnded(c, "done", TRUE, b) /\ UNCHANGED queued
    BY <1>3, <1>5 DEF TurnEnd
  <2> QED
    BY <1>1, <1>2, <2>1, SettlesFiles
<1>6. CASE Drain(c)
  <2>1. UNCHANGED <<conn, turn, queued>>
    BY <1>6 DEF Drain
  <2>2. CASE Nothing
    BY <1>2, <2>1, <2>2 DEF Nothing, tabs
  <2>3. CASE TurnEnded(c, "done", TRUE, "none") /\ conn[c] = "up" /\ ~turn[c]
    BY <1>2, <2>1, <2>3, SettlesFiles
  <2> QED
    BY <1>6, <2>2, <2>3 DEF Drain
<1>7. CASE Settle(c)
  <2>1. UNCHANGED <<conn, turn, queued>>
    BY <1>7 DEF Settle, runners
  <2>2. Settles(c, settle[c], conn[c] = "up" /\ ~turn[c], back[c])
    BY <1>0, <1>7 DEF Settle
  <2> QED
    BY <1>2, <2>1, <2>2, SettlesFiles
<1>8. CASE Blip(c) \/ Die(c)
  <2>1. conn' \in {Set(conn, c, "away"), Set(conn, c, "gone")} /\ queued' = queued
    BY <1>8 DEF Blip, Die
  <2>2. retired' = retired
    <3>1. CASE Nothing
      BY <3>1 DEF Nothing, tabs
    <3>2. CASE TurnEnded(c, "done", FALSE, "none") \/ TurnEnded(c, "fatal", TRUE, back[c])
      BY <3>2, SettlesFiles
    <3> QED
      BY <1>8, <3>1, <3>2 DEF Blip, Die
  <2> QED
    BY <1>1, <1>2, <2>1, <2>2
<1>9. CASE Reconnect(c) \/ Respawn(c) \/ UserRespawn(c)
  <2>1. Hello(c)
    BY <1>9 DEF Reconnect, Respawn, UserRespawn
  <2>2. ~(turn[c] \/ queued[c] > 0) /\ UNCHANGED <<turn, queued>>
    BY <1>3, <2>1 DEF Hello
  <2> QED
    BY <1>0, <2>2
<1>10. CASE GiveUp(c) \/ DeletePane(c)
  <2>1. conn' \in {Set(conn, c, "dead"), Set(conn, c, "none")} /\ queued' = Set(queued, c, 0)
    BY <1>10 DEF GiveUp, DeletePane
  <2> QED
    BY <1>1, <2>1
<1>11. CASE State(c) \/ Pin(c)
  BY <1>2, <1>11 DEF State, Pin, tabs, runners
<1>12. CASE TurnEndUnseen(c)
  BY <1>1, <1>2, <1>12 DEF TurnEndUnseen, tabs
<1>13. CASE Archive(c)
  <2>1. retired' \in {retired, Set(retired, c, "archived")} /\ UNCHANGED <<conn, turn, queued>>
    BY <1>13 DEF Archive, Retire, runners
  <2> QED
    BY <1>1, <1>2, <2>1 DEF Filed
<1>14. CASE Unarchive(c)
  BY <1>1, <1>14 DEF Unarchive, Filed
<1> QED
  BY <1>4, <1>5, <1>6, <1>7, <1>8, <1>9, <1>10, <1>11, <1>12, <1>13, <1>14 DEF KidStep

LEMMA QuietStep ==
  ASSUME Rest, DoneIsQuiet, Next, Sub' => Sub
  PROVE  DoneIsQuiet'
<1> SUFFICES ASSUME NEW d \in Kids
             PROVE  retired'[d] \in Filed /\ Sub' => queued'[d] = 0 /\ ~(conn'[d] = "up" /\ turn'[d])
  BY DEF DoneIsQuiet, Filed
<1>1. ASSUME NEW c \in Kids, KidStep(c)
      PROVE  retired'[d] \in Filed /\ Sub' => queued'[d] = 0 /\ ~(conn'[d] = "up" /\ turn'[d])
  <2>1. CASE c = d
    BY <1>1, <2>1, KidQuiet
  <2>2. CASE c # d
    <3>1. Still(d)
      BY <1>1, <2>2, OthersStill
    <3> QED
      BY <3>1, StillQuiet
  <2> QED
    BY <2>1, <2>2
<1>2. ASSUME UNCHANGED <<retired, queued, turn, conn>>
      PROVE  retired'[d] \in Filed /\ Sub' => queued'[d] = 0 /\ ~(conn'[d] = "up" /\ turn'[d])
  <2>1. Still(d)
    BY <1>2 DEF Still
  <2> QED
    BY <2>1, StillQuiet
<1>3. CASE \E j \in jobs, result \in BOOLEAN : Generated(j, result)
  BY <1>2, <1>3 DEF Generated, runners
<1>4. CASE ParentMessage \/ ParentLeaves \/ Tick \/ Sweep \/ Deafen \/ Hears
  BY <1>2, <1>4 DEF ParentMessage, ParentLeaves, Tick, Sweep, Deafen, Hears, tabs, runners
<1>5. CASE Restart
  <2>1. UNCHANGED <<queued, turn>>
    BY <1>5 DEF Restart
  <2>2. PICK R, ret : Boot(R, ret) /\ (ret = retired \/ \E c \in Kids : ret = Set(retired, c, "archived"))
    BY <1>5 DEF Restart
  <2>3. retired'[d] \in {retired[d], "archived"}
    BY <2>2 DEF Boot, Set, Rest
  <2>4. conn'[d] # "up"
    BY <2>2 DEF Boot, Rest
  <2> QED
    BY <2>1, <2>3, <2>4 DEF DoneIsQuiet, Filed
<1> QED
  BY <1>1, <1>3, <1>4, <1>5 DEF Next

-----------------------------------------------------------------------------
(* The inductive invariant.  RetiredHasNoOpenRound needs no more than the   *)
(* parent's row, ResultOfItsClosure and HandedOnce need that stamps are     *)
(* Sound and Apart, and those need each other.                              *)
RoundsInv == Core /\ Rest /\ RetiredHasNoOpenRound /\ DoneIsQuiet

LEMMA InitCore == Init => Core
<1> SUFFICES ASSUME Init PROVE Core
  OBVIOUS
<1> DEFINE r == Fresh(1)
<1>1. r \in RoundOf(0, 1) /\ r.got = 0 /\ r.end = 0
  BY DEF Fresh, RoundOf
<1>2. \A c \in Kids : rounds[c] = <<r>>
  BY DEF Init
<1> HIDE DEF r
<1>3. <<r>> \in Seq(RoundOf(0, 1)) /\ Len(<<r>>) = 1 /\ <<r>>[1] = r
  BY <1>1
<1>4. rounds \in [Kids -> Seq(RoundOf(0, 1))]
  BY <1>3 DEF Init, r
<1>5. \A c \in Kids : Len(rounds[c]) = 1 /\ rounds[c][1].got = 0 /\ rounds[c][1].end = 0
  BY <1>1, <1>2, <1>3
<1>6. 1 \in 1..MaxRounds
  BY RoundsAssumption
<1>7. Sound(rounds, 0, 1, {})
  <2>1. \A c \in Kids : \A i \in 1..Len(rounds[c]) :
          (i < Len(rounds[c]) => rounds[c][i].end # 0) /\ Fits(rounds[c][i], {})
    <3> SUFFICES ASSUME NEW c \in Kids, NEW i \in 1..Len(rounds[c])
                 PROVE  (i < Len(rounds[c]) => rounds[c][i].end # 0) /\ Fits(rounds[c][i], {})
      OBVIOUS
    <3>0. Len(rounds[c]) = 1 /\ rounds[c][1].got = 0 /\ rounds[c][1].end = 0
      BY <1>5, Zenon
    <3> DEFINE n == Len(rounds[c])
    <3>a. n = 1 /\ i \in 1..n
      BY <3>0
    <3> HIDE DEF n
    <3>b. i = 1
      BY <3>a
    <3>1. i = 1 /\ Len(rounds[c]) = 1 /\ rounds[c][1].got = 0 /\ rounds[c][1].end = 0
      BY <3>0, <3>b
    <3>2. Fits(rounds[c][1], {})
      BY <3>1 DEF Fits
    <3>3. ~(i < Len(rounds[c]))
      BY <3>1
    <3>4. Fits(rounds[c][i], {})
      BY <3>1, <3>2
    <3> QED
      BY <3>3, <3>4
  <2>2. \A c \in Kids : Len(rounds[c]) \in 1..MaxRounds
    BY <1>5, <1>6
  <2> QED
    BY <1>4, <2>1, <2>2 DEF Sound
<1>8. Apart(rounds)
  BY <1>5 DEF Apart
<1>9. Verdicts(card, rounds)
  BY DEF Init, Verdicts
<1> QED
  BY <1>7, <1>8, <1>9 DEF Init, Core

LEMMA InitRest == Init => Rest
<1> SUFFICES ASSUME Init PROVE Rest
  OBVIOUS
<1>1. 0 \in 0..MaxRounds /\ 0 \in 0..MaxActs /\ 0 \in 0..MaxFaults
  BY RoundsAssumption
<1>2. /\ retired \in [Kids -> Whys] /\ pinned \in [Kids -> BOOLEAN]
      /\ queued \in [Kids -> 0..1] /\ stated \in [Kids -> 0..MaxRounds]
      /\ settle \in [Kids -> {"none", "done", "fatal"}]
  BY <1>1 DEF Init, Whys
<1>3. /\ conn \in [Kids -> {"up", "away", "gone", "dead", "none"}]
      /\ turn \in [Kids -> BOOLEAN] /\ back \in [Kids -> {"none", "roster", "commands"}]
  BY DEF Init
<1>4. grace \in 0..clock /\ ceiling \in 0..grace
  BY DEF Init
<1>5. /\ par \in {"live", "archived", "gone"} /\ deaf \in BOOLEAN
      /\ acts \in 0..MaxActs /\ faults \in 0..MaxFaults
  BY <1>1 DEF Init
<1> QED
  BY <1>2, <1>3, <1>4, <1>5 DEF Rest

LEMMA InitInv == Init => RoundsInv
<1>1. Init => RetiredHasNoOpenRound /\ DoneIsQuiet
  BY DEF Init, RetiredHasNoOpenRound, DoneIsQuiet
<1> QED
  BY <1>1, InitCore, InitRest DEF RoundsInv

LEMMA NextInv == RoundsInv /\ Next => RoundsInv' /\ Advances
<1> SUFFICES ASSUME RoundsInv, Next PROVE RoundsInv' /\ Advances
  OBVIOUS
<1>1. Core /\ Rest /\ RetiredHasNoOpenRound /\ DoneIsQuiet /\ retired \in [Kids -> Whys]
  BY DEF RoundsInv, Rest
<1>2. Effect /\ (Sub' => Sub)
  BY <1>1, StepEffect, SubStays
<1>3. Core' /\ Advances /\ RetiredHasNoOpenRound'
  BY <1>1, <1>2, EffectKeeps
<1>4. clock' \in Nat /\ clock <= clock'
  BY <1>3 DEF Core, Advances
<1>5. Rest'
  BY <1>1, <1>4, RestStep
<1>6. DoneIsQuiet'
  BY <1>1, <1>2, QuietStep
<1> QED
  BY <1>3, <1>5, <1>6 DEF RoundsInv

LEMMA StutterInv == RoundsInv /\ UNCHANGED vars => RoundsInv' /\ CardStep
<1> SUFFICES ASSUME RoundsInv, UNCHANGED vars PROVE RoundsInv' /\ CardStep
  OBVIOUS
<1> USE DEF vars, tabs, memory, runners, parent, handed, time
<1>1. Core'
  BY DEF RoundsInv, Core, Sub
<1>2. Rest'
  BY DEF RoundsInv, Rest
<1>3. RetiredHasNoOpenRound' /\ DoneIsQuiet'
  BY DEF RoundsInv, RetiredHasNoOpenRound, DoneIsQuiet, Sub
<1>4. CardStep
  BY DEF CardStep
<1> QED
  BY <1>1, <1>2, <1>3, <1>4 DEF RoundsInv

(* Every reachable state satisfies the invariant.                           *)
THEOREM RoundsInvHolds == Spec => []RoundsInv
<1>1. RoundsInv /\ [Next]_vars => RoundsInv'
  BY NextInv, StutterInv
<1> QED
  BY InitInv, <1>1, PTL DEF Spec

(* The rows and the memory of the server have their types.                  *)
THEOREM TypeCorrect == Spec => []TypeOK
<1>1. RoundsInv => TypeOK
  <2> SUFFICES ASSUME RoundsInv PROVE TypeOK
    OBVIOUS
  <2>1. Core /\ Rest
    BY DEF RoundsInv
  <2>2. Round = RoundOf(clock, parTurn) /\ JobType(clock) = [kid : Kids, round : 1..MaxRounds, end : 1..clock]
    BY DEF Round, RoundOf, JobType
  <2>3. \A c \in Kids : rounds[c] \in Seq(Round) /\ Len(rounds[c]) \in 1..MaxRounds
    BY <2>1, <2>2 DEF Core, Sound
  <2>4. told \subseteq 1..clock /\ again \in BOOLEAN
    BY <2>1 DEF Core, Sound
  <2>5. /\ jobs \subseteq [kid : Kids, round : 1..MaxRounds, end : 1..clock]
        /\ card \in [Kids -> 0..clock] /\ clock \in Nat /\ parTurn \in Nat
    BY <2>1, <2>2 DEF Core
  <2> QED
    BY <2>1, <2>3, <2>4, <2>5 DEF TypeOK, Rest, Whys
<1> QED
  BY <1>1, RoundsInvHolds, PTL

(* A retired chat has no open round (tab-retire.ts), through every door,    *)
(* every crash in the middle of one and every boot.                         *)
THEOREM RetiredIsClosed == Spec => []RetiredHasNoOpenRound
<1>1. RoundsInv => RetiredHasNoOpenRound
  BY DEF RoundsInv
<1> QED
  BY <1>1, RoundsInvHolds, PTL

(* A chat filed as delivered or dead has no turn and no message: the sweep  *)
(* of finished work never files a chat that has work left.                  *)
THEOREM FiledIsQuiet == Spec => []DoneIsQuiet
<1>1. RoundsInv => DoneIsQuiet
  BY DEF RoundsInv
<1> QED
  BY <1>1, RoundsInvHolds, PTL

(* A generation that ends late writes nothing to a round that was reopened, *)
(* or closed anew: SpawnReportWriter.ts compares the stamp of the closure.  *)
THEOREM ResultsFit == Spec => []ResultOfItsClosure
<1>1. RoundsInv => ResultOfItsClosure
  BY DEF RoundsInv, Core, Sound, Fits, ResultOfItsClosure
<1> QED
  BY <1>1, RoundsInvHolds, PTL

(* No closure reaches the parent twice, however the sweep, the nudge, a     *)
(* refusal and a crash interleave: report-delivery.ts marks before it sends. *)
THEOREM NeverTwice == Spec => []HandedOnce
<1>1. RoundsInv => HandedOnce
  BY DEF RoundsInv, Core, HandedOnce
<1> QED
  BY <1>1, RoundsInvHolds, PTL

(* What a card shows is the result of one of the rounds of its chat.        *)
THEOREM CardsAreResults == Spec => []CardHasResult
<1>1. RoundsInv => CardHasResult
  BY DEF RoundsInv, Core, Verdicts, CardHasResult
<1> QED
  BY <1>1, RoundsInvHolds, PTL

(* A verdict is written to a card for the newest round only, once closed.   *)
THEOREM CardsAreNew == Spec => CardOfNewestJob
<1>1. RoundsInv /\ [Next]_vars => [CardStep]_vars
  BY NextInv, StutterInv DEF Advances
<1> QED
  BY <1>1, RoundsInvHolds, PTL DEF Spec, CardOfNewestJob, CardStep
=============================================================================
