----------------------------- MODULE MessageLine -----------------------------
(***************************************************************************)
(* What the server promises of the messages submitted to one pane, with    *)
(* the sockets, the processes and the table left out: each is refused,     *)
(* or accepted into a bounded line; the line is handed to the agent from   *)
(* its front, each message once; a waiting message may be withdrawn; and   *)
(* a message handed over becomes a turn or is stopped, at most once.  It   *)
(* promises no more: a message handed over may stay so for ever.           *)
(***************************************************************************)
EXTENDS Naturals, FiniteSets

CONSTANTS
  Msgs,
  Capacity    \* the longest line

VARIABLES
  state,   \* new, refused, waiting, handed, withdrawn, begun or stopped
  count,   \* the messages accepted so far
  place    \* the place each of them was given, 0 before

vars == <<state, count, place>>

Line == {m \in Msgs : state[m] = "waiting"}

(* m stands before everybody else of L, by the places pl. *)
IsFirst(m, L, pl) == m \in L /\ \A n \in L : pl[m] <= pl[n]

Init == /\ state = [m \in Msgs |-> "new"]
        /\ count = 0
        /\ place = [m \in Msgs |-> 0]

Refuse(m) == /\ state[m] = "new"
             /\ state' = [state EXCEPT ![m] = "refused"]
             /\ UNCHANGED <<count, place>>

Take(m) == /\ state[m] = "new"
           /\ Cardinality(Line) < Capacity
           /\ count' = count + 1
           /\ place' = [place EXCEPT ![m] = count']

Accept(m) == /\ Take(m)
             /\ state' = [state EXCEPT ![m] = "waiting"]

Hand(m) == /\ IsFirst(m, Line, place)
           /\ state' = [state EXCEPT ![m] = "handed"]
           /\ UNCHANGED <<count, place>>

(* m joins the line and the front one, which may be m, is handed over. *)
AcceptAndHand(m, n) ==
  /\ Take(m)
  /\ IsFirst(n, Line \cup {m}, place')
  /\ state' = [[state EXCEPT ![m] = "waiting"] EXCEPT ![n] = "handed"]

Withdraw(S) == /\ S # {} /\ S \subseteq Line
               /\ state' = [m \in Msgs |-> IF m \in S THEN "withdrawn" ELSE state[m]]
               /\ UNCHANGED <<count, place>>

Begin(m) == /\ state[m] = "handed"
            /\ state' = [state EXCEPT ![m] = "begun"]
            /\ UNCHANGED <<count, place>>

Stop(S) == /\ S # {} /\ \A m \in S : state[m] = "handed"
           /\ state' = [m \in Msgs |-> IF m \in S THEN "stopped" ELSE state[m]]
           /\ UNCHANGED <<count, place>>

Next == \/ \E m \in Msgs : Refuse(m) \/ Accept(m) \/ Hand(m) \/ Begin(m)
        \/ \E m, n \in Msgs : AcceptAndHand(m, n)
        \/ \E S \in SUBSET Msgs : Withdraw(S) \/ Stop(S)

Spec == Init /\ [][Next]_vars
=============================================================================
