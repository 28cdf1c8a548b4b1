--------------------------- MODULE HostedAppsProofs ---------------------------
(***************************************************************************)
(* The pointer of an app, the ptys of the apps that were stopped and the   *)
(* count of the supervisor, for any number of apps, panes, requests,       *)
(* attempts, acts and faults.                                              *)
(***************************************************************************)
EXTENDS HostedApps, FiniteSetTheorems, SequenceTheorems, WellFoundedInduction, TLAPS

-----------------------------------------------------------------------------
(* Choices *)

LEMMA LeastIs ==
  ASSUME NEW S \in SUBSET Nat, S # {}
  PROVE  LeastOf(S) \in S /\ \A m \in S : LeastOf(S) <= m
<1>1. PICK x \in S : \A y \in S : ~(<<y, x>> \in OpToRel(<, Nat))
  BY WFMin, NatLessThanWellFounded
<1>2. ASSUME NEW y \in S PROVE x <= y
  <2>1. <<y, x>> \in Nat \X Nat
    OBVIOUS
  <2>2. y < x => <<y, x>> \in OpToRel(<, Nat)
    BY <2>1 DEF OpToRel
  <2>3. ~(y < x)
    BY <1>1, <2>2, Zenon
  <2> QED
    BY <2>3
<1> QED
  BY <1>2 DEF LeastOf

LEMMA NextRowIs ==
  ASSUME AppsAssumption, NEW L, \A s \in L : s.app \in Apps, L = list, list # {}
  PROVE  NextRow \in list
<1> DEFINE S == {s.app : s \in list}
<1>1. S \in SUBSET Nat /\ S # {}
  BY DEF AppsAssumption
<1>2. LeastOf(S) \in S /\ \A m \in S : LeastOf(S) <= m
  BY <1>1, LeastIs
<1>3. PICK s \in list : s.app = LeastOf(S)
  BY <1>2
<1>4. \A t \in list : s.app <= t.app
  BY <1>2, <1>3
<1> QED
  BY <1>4 DEF NextRow

LEMMA JobsFinite == IsFiniteSet(Jobs)
<1>1. IsFiniteSet(Requests)
  BY AppsAssumption
<1>2. IsFiniteSet({"reconcile"}) /\ IsFiniteSet({"sweep"}) /\ IsFiniteSet({"reaper"})
  BY FS_Singleton
<1>3. IsFiniteSet({"reconcile"} \cup {"sweep"} \cup {"reaper"})
  BY <1>2, FS_Union
<1>4. Jobs = Requests \cup ({"reconcile"} \cup {"sweep"} \cup {"reaper"})
  BY DEF Jobs
<1> QED
  BY <1>1, <1>3, <1>4, FS_Union

(* Every pending call is failed once.                                       *)
LEMMA FailedIs ==
  ASSUME FailPending
  PROVE  /\ wire' \in Seq([to : Pending, ans : {"fail"}])
         /\ \A i, k \in DOMAIN wire' : wire'[i].to = wire'[k].to => i = k
<1> DEFINE n == Cardinality(Pending)
           calls == SetToSeq(Pending)
<1>1. IsFiniteSet(Pending)
  <2>1. Pending \in SUBSET Jobs
    BY DEF Pending
  <2> QED
    BY <2>1, JobsFinite, FS_Subset
<1>2. n \in Nat /\ ExistsBijection(1 .. n, Pending)
  BY <1>1, FS_CardinalityType
<1>3. PICK f \in [1 .. n -> Pending] : IsInjective(f)
  BY <1>2 DEF ExistsBijection, Bijection, Injection, IsInjective
<1>4. calls \in [1 .. n -> Pending] /\ IsInjective(calls)
  BY <1>3 DEF SetToSeq
<1> HIDE DEF calls, n
<1>5. wire' = [i \in 1 .. n |-> [to |-> calls[i], ans |-> "fail"]]
  BY <1>4 DEF FailPending, calls
<1>6. wire' \in [1 .. n -> [to : Pending, ans : {"fail"}]]
  BY <1>4, <1>5
<1>7. wire' \in Seq([to : Pending, ans : {"fail"}])
  <2> DEFINE S == [to : Pending, ans : {"fail"}]
  <2>1. \E m \in Nat : wire' \in [1 .. m -> S]
    BY <1>2, <1>6
  <2>2. Seq(S) = UNION {[1 .. m -> S] : m \in Nat}
    BY SeqDef
  <2> QED
    BY <2>1, <2>2, Zenon
<1>8. \A i, k \in 1 .. n : calls[i] = calls[k] => i = k
  BY <1>4 DEF IsInjective
<1> QED
  BY <1>5, <1>7, <1>8

-----------------------------------------------------------------------------
(* Jobs: where each may be, and what it holds there.                        *)
Pcs == {"idle", "materialize", "ensure", "teardown", "kill", "start", "remove", "seen", "delete",
        "loop", "look", "has", "spawn", "queue", "qkill", "list", "orphans", "okill"}
JobRec == [pc : Pcs, app : Apps \cup {0}, pane : Panes \cup {0},
           next : {"idle", "start", "remove", "loop"}]

RequestOK(r) ==
  /\ r.pc \in {"idle", "materialize", "ensure", "teardown", "kill", "start", "remove", "seen", "delete"}
  /\ r.pc # "idle" => r.app \in Apps
  /\ r.next # "loop"
  /\ r.pc \in {"kill", "delete"} => r.pane \in Panes
ReconcileOK(r) ==
  /\ r.pc \in {"idle", "loop", "teardown", "kill", "materialize", "ensure"}
  /\ r.pc \notin {"idle", "loop"} => r.app \in Apps
  /\ r.pc \in {"teardown", "kill"} => r.next = "loop"
  /\ r.pc = "kill" => r.pane \in Panes
SweepOK(r) ==
  /\ r.pc \in {"idle", "look", "has", "spawn"}
  /\ r.pc \in {"has", "spawn"} => r.pane \in Panes
ReaperOK(r) ==
  /\ r.pc \in {"idle", "queue", "qkill", "list", "orphans", "okill"}
  /\ r.pc \in {"qkill", "okill"} => r.pane \in Panes

JobIs(j, r) ==
  /\ r \in JobRec /\ (r.pc = "idle" => r = Idle)
  /\ (j \in Requests => RequestOK(r)) /\ (j = "reconcile" => ReconcileOK(r))
  /\ (j = "sweep" => SweepOK(r)) /\ (j = "reaper" => ReaperOK(r))

JobsOK == job \in [Jobs -> JobRec] /\ \A j \in Jobs : JobIs(j, job[j])

(* A step moves one job at most.                                            *)
Moves(j, r) == j \in Jobs /\ JobIs(j, r) /\ job' = [job EXCEPT ![j] = r]

LEMMA MovesKeeps ==
  ASSUME JobsOK, NEW j, NEW r, Moves(j, r) PROVE JobsOK'
<1>1. r \in JobRec
  BY DEF Moves, JobIs
<1>2. job' \in [Jobs -> JobRec] /\ \A i \in Jobs : job'[i] = IF i = j THEN r ELSE job[i]
  BY <1>1 DEF Moves, JobsOK
<1>3. \A i \in Jobs : JobIs(i, job'[i])
  BY <1>2 DEF Moves, JobsOK
<1> QED
  BY <1>2, <1>3 DEF JobsOK

LEMMA IdleIs == \A j \in Jobs : JobIs(j, Idle)
BY DEF JobIs, JobRec, Pcs, Idle, RequestOK, ReconcileOK, SweepOK, ReaperOK

LEMMA JobNames == /\ Requests \subseteq Jobs /\ {"reconcile", "sweep", "reaper"} \subseteq Jobs
                  /\ "reconcile" \notin Requests /\ "sweep" \notin Requests /\ "reaper" \notin Requests
BY AppsAssumption DEF Jobs

-----------------------------------------------------------------------------
(* Types *)

Msg     == [to : Jobs, ans : {"ok", "fail", "yes", "no"}]
ListRec == [app : Apps, on : BOOLEAN, pane : Panes \cup {0}, drop : BOOLEAN]
StRec   == [attempts : 0 .. MaxAttempts + 1, cooling : BOOLEAN, gaveUp : BOOLEAN, alive : BOOLEAN]

DbOK    == /\ mode \in [Apps -> {"absent", "off", "on"}] /\ ptr \in [Apps -> Panes \cup {0}]
           /\ rows \subseteq Panes /\ doomed \subseteq Panes
PassOK  == /\ list \subseteq ListRec /\ look \subseteq Panes /\ due \subseteq Panes
           /\ booting \in BOOLEAN /\ relist \in BOOLEAN
SuperOK == /\ st \in [Panes -> StRec] /\ young \subseteq Panes
           /\ \A p \in Panes : st[p].gaveUp \/ st[p].attempts <= MaxAttempts
LinkOK  == /\ link \in BOOLEAN /\ wire \in Seq(Msg)
           /\ pty \in [Panes -> {"none", "live", "dying"}] /\ waits \in [Panes -> Seq(Jobs)]
PastOK  == /\ acts \in 0 .. MaxActs /\ faults \in 0 .. MaxFaults
           /\ made \in [Panes -> Apps \cup {0}] /\ raced \subseteq Apps /\ byHand \subseteq Panes

TypeInv == JobsOK /\ DbOK /\ PassOK /\ SuperOK /\ LinkOK /\ PastOK /\ recent \subseteq Apps

LEMMA Numbers == /\ Apps \in SUBSET Nat /\ 0 \notin Apps /\ Panes \in SUBSET Nat /\ 0 \notin Panes
                 /\ MaxPanes \in Nat /\ MaxAttempts \in Nat /\ MaxAttempts # 0
                 /\ MaxActs \in Nat /\ MaxFaults \in Nat
  BY AppsAssumption DEF Panes

LEMMA TypesImply == TypeInv => TypeOK
<1> SUFFICES ASSUME TypeInv PROVE TypeOK
  OBVIOUS
<1>1. \A j \in Jobs : /\ job[j].app \in Apps \cup {0} /\ job[j].pane \in Panes \cup {0}
                      /\ job[j].pc = "idle" => job[j] = Idle
  BY DEF TypeInv, JobsOK, JobIs, JobRec
<1>2. DbOK /\ PassOK /\ SuperOK /\ LinkOK /\ PastOK /\ recent \subseteq Apps
  BY DEF TypeInv
<1> QED
  BY <1>1, <1>2 DEF TypeOK, DbOK, PassOK, SuperOK, LinkOK, PastOK, Msg, StRec

(* What is left alone keeps its type.                                       *)
LEMMA KeepsDb == DbOK /\ UNCHANGED dbVars => DbOK'
  BY DEF DbOK, dbVars
LEMMA KeepsPass == PassOK /\ UNCHANGED passVars => PassOK'
  BY DEF PassOK, passVars
LEMMA KeepsSuper == SuperOK /\ UNCHANGED superVars => SuperOK'
  BY DEF SuperOK, superVars
LEMMA KeepsLink == LinkOK /\ UNCHANGED ptydVars => LinkOK'
  BY DEF LinkOK, ptydVars
LEMMA KeepsPast == PastOK /\ UNCHANGED histVars => PastOK'
  BY DEF PastOK, histVars
LEMMA KeepsJobs == JobsOK /\ UNCHANGED job => JobsOK'
  BY DEF JobsOK

(* Calls to ptyd and their answers.                                         *)
LEMMA Appended ==
  ASSUME NEW w, w \in Seq(Msg), NEW j \in Jobs, NEW a \in {"ok", "fail", "yes", "no"}
  PROVE  Append(w, [to |-> j, ans |-> a]) \in Seq(Msg)
<1>1. [to |-> j, ans |-> a] \in Msg
  BY DEF Msg
<1> QED
  BY <1>1

LEMMA Delivered ==
  ASSUME LinkOK, wire # <<>>
  PROVE  Head(wire) \in Msg /\ Tail(wire) \in Seq(Msg)
  BY HeadTailProperties DEF LinkOK

LEMMA AskKillDoes ==
  ASSUME NEW j, NEW p, AskKill(j, p), link \in BOOLEAN
  PROVE  \/ \E a \in {"ok", "fail"} : /\ wire' = Append(wire, [to |-> j, ans |-> a])
                                      /\ a = "ok" => link /\ pty[p] = "none"
                                      /\ a = "fail" => ~link
                                      /\ UNCHANGED <<pty, waits>>
         \/ /\ link /\ pty[p] # "none" /\ pty' = [pty EXCEPT ![p] = "dying"]
            /\ waits' = [waits EXCEPT ![p] = Append(@, j)] /\ wire' = wire
<1>1. CASE ~link
  BY <1>1 DEF AskKill, Answer
<1>2. CASE link /\ pty[p] = "none"
  BY <1>2 DEF AskKill, Answer
<1>3. CASE link /\ pty[p] # "none"
  BY <1>3 DEF AskKill, Answer
<1> QED
  BY <1>1, <1>2, <1>3

LEMMA AskKillKeeps ==
  ASSUME LinkOK, NEW j \in Jobs, NEW p \in Panes, AskKill(j, p), UNCHANGED link
  PROVE  LinkOK'
<1>0. link \in BOOLEAN
  BY DEF LinkOK
<1>1. CASE \E a \in {"ok", "fail"} : /\ wire' = Append(wire, [to |-> j, ans |-> a])
                                     /\ UNCHANGED <<pty, waits>>
  BY <1>1, Appended DEF LinkOK
<1>2. CASE /\ pty' = [pty EXCEPT ![p] = "dying"]
           /\ waits' = [waits EXCEPT ![p] = Append(@, j)] /\ wire' = wire
  <2>1. waits[p] \in Seq(Jobs)
    BY DEF LinkOK
  <2>2. Append(waits[p], j) \in Seq(Jobs)
    BY <2>1
  <2>3. waits' \in [Panes -> Seq(Jobs)] /\ pty' \in [Panes -> {"none", "live", "dying"}]
    BY <1>2, <2>2 DEF LinkOK
  <2> QED
    BY <1>2, <2>3 DEF LinkOK
<1> QED
  BY <1>0, <1>1, <1>2, AskKillDoes

LEMMA AskEnsureKeeps ==
  ASSUME LinkOK, PastOK, NEW j \in Jobs, NEW p \in Panes, AskEnsure(j, p), UNCHANGED <<link, waits>>
  PROVE  LinkOK' /\ faults' \in 0 .. MaxFaults
<1>1. \E a \in {"ok", "fail"} : wire' = Append(wire, [to |-> j, ans |-> a])
  BY DEF AskEnsure, Answer
<1>2. wire' \in Seq(Msg)
  BY <1>1, Appended DEF LinkOK
<1>3. pty' \in [Panes -> {"none", "live", "dying"}]
  BY DEF AskEnsure, LinkOK
<1>4. faults' \in 0 .. MaxFaults
  BY Numbers DEF AskEnsure, PastOK
<1> QED
  BY <1>2, <1>3, <1>4 DEF LinkOK

LEMMA AskHasKeeps ==
  ASSUME LinkOK, NEW j \in Jobs, NEW p \in Panes, AskHas(j, p), UNCHANGED <<link, pty, waits>>
  PROVE  LinkOK'
<1>1. \E a \in {"fail", "no", "yes"} : wire' = Append(wire, [to |-> j, ans |-> a])
  BY DEF AskHas, Answer
<1>2. wire' \in Seq(Msg)
  BY <1>1, Appended DEF LinkOK
<1> QED
  BY <1>2 DEF LinkOK

LEMMA TailKeeps ==
  ASSUME LinkOK, wire # <<>>, wire' = Tail(wire), UNCHANGED <<link, pty, waits>>
  PROVE  LinkOK'
  BY Delivered DEF LinkOK

(* Where a call returns to.                                                 *)
LEMMA ReturnMoves ==
  ASSUME JobsOK, NEW j \in Requests \cup {"reconcile"}, Return(j) PROVE JobsOK'
<1>1. JobIs("reconcile", [Idle EXCEPT !.pc = "loop"])
  BY JobNames DEF JobIs, JobRec, Pcs, Idle, ReconcileOK
<1>2. Moves(j, IF j = "reconcile" THEN [Idle EXCEPT !.pc = "loop"] ELSE Idle)
  BY <1>1, IdleIs, JobNames DEF Moves, Return
<1> QED
  BY <1>2, MovesKeeps

LEMMA EndsMoves ==
  ASSUME JobsOK, NEW j \in Jobs, Ends(j) PROVE JobsOK'
<1>1. Moves(j, Idle)
  BY IdleIs DEF Moves, Ends
<1> QED
  BY <1>1, MovesKeeps

LEMMA GoesOnMoves ==
  ASSUME JobsOK, NEW j \in Requests \cup {"reconcile"}, job[j].pc \in {"teardown", "kill"}, GoesOn(j)
  PROVE  JobsOK'
<1> DEFINE r == [job[j] EXCEPT !.pc = job[j].next, !.pane = 0]
<1>1. j \in Jobs /\ job[j] \in JobRec /\ JobIs(j, job[j])
  BY JobNames DEF JobsOK
<1>2. CASE job[j].next = "idle"
  <2>1. Moves(j, Idle)
    BY <1>1, <1>2, IdleIs DEF Moves, GoesOn
  <2> QED
    BY <2>1, MovesKeeps
<1>3. CASE job[j].next # "idle"
  <2>1. r \in JobRec
    BY <1>1 DEF JobRec, Pcs
  <2>2. r.pc = job[j].next /\ r.app = job[j].app /\ r.next = job[j].next
    BY <1>1 DEF JobRec
  <2>3. j \in Requests => RequestOK(r)
    BY <1>1, <1>3, <2>2 DEF JobIs, RequestOK, JobRec
  <2>4. j = "reconcile" => ReconcileOK(r)
    BY <1>1, <1>3, <2>2 DEF JobIs, ReconcileOK
  <2>5. Moves(j, r)
    BY <1>1, <1>3, <2>1, <2>2, <2>3, <2>4, JobNames DEF Moves, JobIs, GoesOn
  <2> QED
    BY <2>5, MovesKeeps
<1> QED
  BY <1>2, <1>3

-----------------------------------------------------------------------------
(* Steps of the registry keep the types.                                    *)

Regs == Requests \cup {"reconcile"}

LEMMA RegJobs == Regs \subseteq Jobs
  BY JobNames DEF Regs

(* What a job of the registry holds at work.                                *)
LEMMA HeldBy ==
  ASSUME TypeInv, NEW j \in Regs,
         job[j].pc \in {"materialize", "ensure", "teardown", "kill", "start", "remove", "seen", "delete"}
  PROVE  /\ job[j] \in JobRec /\ job[j].app \in Apps /\ job[j].pane \in Panes \cup {0}
         /\ job[j].pc \in {"kill", "delete"} => job[j].pane \in Panes
<1>1. JobIs(j, job[j])
  BY RegJobs DEF TypeInv, JobsOK
<1>2. job[j] \in JobRec /\ job[j].pane \in Panes \cup {0}
  BY <1>1 DEF JobIs, JobRec
<1>3. j \in Requests \/ j = "reconcile"
  BY DEF Regs
<1> QED
  BY <1>1, <1>2, <1>3 DEF JobIs, RequestOK, ReconcileOK

(* A job goes on to another pc, with what it holds.                         *)
LEMMA GotoRequest ==
  ASSUME TypeInv, NEW j \in Regs, NEW pc \in {"ensure", "kill"},
         job[j].pc \in {"materialize", "teardown"},
         pc = "kill" => job[j].pane \in Panes /\ job[j].pc = "teardown",
         Goto(j, pc)
  PROVE  JobsOK'
<1> DEFINE r == [job[j] EXCEPT !.pc = pc]
<1>1. job[j] \in JobRec /\ job[j].app \in Apps /\ JobIs(j, job[j]) /\ j \in Jobs /\ JobsOK
  BY HeldBy, RegJobs DEF TypeInv, JobsOK
<1>2. r \in JobRec /\ r.pc = pc /\ r.app = job[j].app /\ r.pane = job[j].pane /\ r.next = job[j].next
  BY <1>1 DEF JobRec, Pcs
<1>3. j \in Requests => RequestOK(r)
  BY <1>1, <1>2 DEF JobIs, RequestOK
<1>4. j = "reconcile" => ReconcileOK(r)
  BY <1>1, <1>2 DEF JobIs, ReconcileOK
<1>5. Moves(j, r)
  BY <1>1, <1>2, <1>3, <1>4, JobNames DEF Moves, JobIs, Goto, Regs
<1> QED
  BY <1>1, <1>5, MovesKeeps

LEMMA FreeIs == Free \subseteq Panes /\ (Free # {} => LeastOf(Free) \in Free)
<1>1. Free \subseteq Panes
  BY DEF Free
<1>2. Free \in SUBSET Nat
  BY <1>1, Numbers
<1> QED
  BY <1>1, <1>2, LeastIs

LEMMA MaterializeSkipsType ==
  ASSUME TypeInv, NEW j \in Regs, MaterializeSkips(j) PROVE TypeInv'
<1>1. JobsOK'
  BY ReturnMoves DEF MaterializeSkips, TypeInv, Regs
<1> QED
  BY <1>1, KeepsDb, KeepsPass, KeepsSuper, KeepsLink, KeepsPast DEF TypeInv, MaterializeSkips

LEMMA MaterializeType ==
  ASSUME TypeInv, NEW j \in Regs, Materialize(j) PROVE TypeInv'
<1> DEFINE a == job[j].app
           p == LeastOf(Free)
<1>1. a \in Apps /\ p \in Panes /\ j \in Jobs
  BY HeldBy, FreeIs, RegJobs DEF Materialize
<1>2. JobsOK'
  BY GotoRequest DEF Materialize
<1>3. LinkOK' /\ faults' \in 0 .. MaxFaults
  BY <1>1, AskEnsureKeeps DEF TypeInv, Materialize
<1>4. DbOK'
  BY <1>1 DEF Materialize, DbOK, TypeInv
<1>5. PassOK'
  BY KeepsPass DEF Materialize, TypeInv
<1>6. SuperOK'
  BY <1>1 DEF Materialize, SuperOK, TypeInv
<1>7. PastOK'
  BY <1>1, <1>3 DEF Materialize, PastOK, TypeInv
<1>8. recent' \subseteq Apps
  BY <1>1 DEF Materialize, TypeInv
<1> QED
  BY <1>2, <1>3, <1>4, <1>5, <1>6, <1>7, <1>8 DEF TypeInv

LEMMA MaterializedType ==
  ASSUME TypeInv, NEW j \in Regs, Materialized(j) PROVE TypeInv'
<1>1. JobsOK'
  BY ReturnMoves DEF Materialized, TypeInv, Regs
<1>2. LinkOK'
  BY TailKeeps DEF Materialized, Delivers, TypeInv
<1> QED
  BY <1>1, <1>2, KeepsDb, KeepsPass, KeepsSuper, KeepsPast DEF TypeInv, Materialized

LEMMA TeardownType ==
  ASSUME TypeInv, NEW j \in Regs, Teardown(j) PROVE TypeInv'
<1> DEFINE a == job[j].app
           p == job[j].pane
<1>1. a \in Apps /\ p \in Panes \cup {0} /\ j \in Jobs /\ job[j].pc = "teardown"
  BY HeldBy, RegJobs DEF Teardown
<1>2. CASE p \in rows
  <2>1. p \in Panes
    BY <1>2 DEF TypeInv, DbOK
  <2>2. JobsOK'
    BY <1>1, <1>2, <2>1, GotoRequest DEF Teardown
  <2>3. LinkOK'
    BY <1>1, <1>2, <2>1, AskKillKeeps DEF Teardown, TypeInv
  <2>4. UNCHANGED ptr /\ UNCHANGED recent
    BY <1>2 DEF Teardown, ForgetsFirst
  <2> QED
    BY <2>2, <2>3, <2>4, KeepsDb, KeepsPass, KeepsSuper, KeepsPast DEF TypeInv, Teardown, dbVars
<1>3. CASE p \notin rows
  <2>1. JobsOK'
    BY <1>1, <1>3, GoesOnMoves DEF Teardown, TypeInv, Regs
  <2>2. LinkOK'
    BY <1>3, KeepsLink DEF Teardown, TypeInv, ptydVars
  <2>3. DbOK' /\ recent' \subseteq Apps
    BY <1>1, <1>3 DEF Teardown, TypeInv, DbOK
  <2> QED
    BY <2>1, <2>2, <2>3, KeepsPass, KeepsSuper, KeepsPast DEF TypeInv, Teardown
<1> QED
  BY <1>2, <1>3

LEMMA TornDownType ==
  ASSUME TypeInv, NEW j \in Regs, TornDown(j) PROVE TypeInv'
<1>1. job[j].app \in Apps /\ job[j].pane \in Panes /\ job[j].pc = "kill"
  BY HeldBy DEF TornDown, Delivers
<1>2. JobsOK'
  BY <1>1, GoesOnMoves DEF TornDown, TypeInv, Regs
<1>3. LinkOK'
  BY TailKeeps DEF TornDown, Delivers, TypeInv
<1>4. DbOK' /\ recent' \subseteq Apps
  BY <1>1 DEF TornDown, TypeInv, DbOK
<1> QED
  BY <1>2, <1>3, <1>4, KeepsPass, KeepsSuper, KeepsPast DEF TypeInv, TornDown

LEMMA StartAgainType ==
  ASSUME TypeInv, NEW j \in Requests, StartAgain(j) PROVE TypeInv'
<1> DEFINE r == [job[j] EXCEPT !.pc = "materialize"]
<1>1. job[j].app \in Apps /\ j \in Jobs /\ job[j] \in JobRec /\ JobIs(j, job[j]) /\ JobsOK
  BY HeldBy, RegJobs DEF StartAgain, Regs, TypeInv, JobsOK
<1>2. JobsOK'
  <2>1. CASE mode[job[j].app] = "absent"
    BY <1>1, <2>1, EndsMoves DEF StartAgain, TypeInv
  <2>2. CASE mode[job[j].app] # "absent"
    <3>1. r \in JobRec /\ r.pc = "materialize" /\ r.app = job[j].app /\ r.next = job[j].next
      BY <1>1 DEF JobRec, Pcs
    <3>2. Moves(j, r)
      BY <1>1, <2>2, <3>1, JobNames DEF Moves, JobIs, RequestOK, StartAgain, Goto
    <3> QED
      BY <1>1, <3>2, MovesKeeps
  <2> QED
    BY <2>1, <2>2
<1>3. DbOK'
  BY <1>1 DEF StartAgain, DbOK, TypeInv
<1> QED
  BY <1>2, <1>3, KeepsPass, KeepsSuper, KeepsLink, KeepsPast DEF TypeInv, StartAgain

LEMMA RemoveRowType ==
  ASSUME TypeInv, NEW j \in Requests, RemoveRow(j) PROVE TypeInv'
<1>1. job[j].app \in Apps /\ j \in Jobs
  BY HeldBy, RegJobs DEF RemoveRow, Regs
<1>2. JobsOK'
  BY <1>1, EndsMoves DEF RemoveRow, TypeInv
<1>3. DbOK' /\ recent' \subseteq Apps
  BY <1>1 DEF RemoveRow, DbOK, TypeInv
<1> QED
  BY <1>2, <1>3, KeepsPass, KeepsSuper, KeepsLink, KeepsPast DEF TypeInv, RemoveRow

-----------------------------------------------------------------------------
(* ... and so do the requests ...                                           *)

(* A request that begins.                                                   *)
LEMMA BeginsType ==
  ASSUME TypeInv, NEW j \in Requests, NEW a \in Apps,
         NEW pc \in {"idle", "materialize", "teardown", "seen", "delete"},
         NEW p \in Panes \cup {0}, NEW next \in {"idle", "start", "remove"},
         pc = "delete" => p \in Panes, Begins(j, a, pc, p, next)
  PROVE  JobsOK' /\ acts' \in 0 .. MaxActs /\ raced' \subseteq Apps
<1> DEFINE r == [pc |-> pc, app |-> a, pane |-> p, next |-> next]
<1>1. JobsOK /\ j \in Jobs /\ acts \in 0 .. MaxActs /\ raced \subseteq Apps
  BY JobNames DEF TypeInv, PastOK
<1>2. acts' \in 0 .. MaxActs
  BY <1>1, Numbers DEF Begins
<1>3. raced' \subseteq Apps
  BY <1>1 DEF Begins, Overlaps
<1>4. JobsOK'
  <2>1. CASE pc = "idle"
    BY <1>1, <2>1, KeepsJobs DEF Begins
  <2>2. CASE pc # "idle"
    <3>1. r \in JobRec
      BY DEF JobRec, Pcs
    <3>2. Moves(j, r)
      BY <1>1, <2>2, <3>1, JobNames DEF Moves, JobIs, RequestOK, Begins
    <3> QED
      BY <1>1, <3>2, MovesKeeps
  <2> QED
    BY <2>1, <2>2
<1> QED
  BY <1>2, <1>3, <1>4

LEMMA PostAppType ==
  ASSUME TypeInv, NEW j \in Requests, NEW a \in Apps, PostApp(j, a) PROVE TypeInv'
<1>1. JobsOK' /\ acts' \in 0 .. MaxActs /\ raced' \subseteq Apps
  BY BeginsType DEF PostApp
<1>2. DbOK'
  BY DEF PostApp, DbOK, TypeInv
<1>3. PastOK'
  BY <1>1 DEF PostApp, PastOK, TypeInv
<1> QED
  BY <1>1, <1>2, <1>3, KeepsPass, KeepsSuper, KeepsLink DEF TypeInv, PostApp

LEMMA StartType ==
  ASSUME TypeInv, NEW j \in Requests, NEW a \in Apps, Start(j, a) PROVE TypeInv'
<1>1. JobsOK' /\ acts' \in 0 .. MaxActs /\ raced' \subseteq Apps
  BY BeginsType DEF Start
<1>2. DbOK'
  BY DEF Start, DbOK, TypeInv
<1>3. PastOK'
  BY <1>1 DEF Start, PastOK, TypeInv
<1> QED
  BY <1>1, <1>2, <1>3, KeepsPass, KeepsSuper, KeepsLink DEF TypeInv, Start

LEMMA StopType ==
  ASSUME TypeInv, NEW j \in Requests, NEW a \in Apps, Stop(j, a) PROVE TypeInv'
<1>0. ptr[a] \in Panes \cup {0}
  BY DEF TypeInv, DbOK
<1>1. JobsOK' /\ acts' \in 0 .. MaxActs /\ raced' \subseteq Apps
  BY <1>0, BeginsType DEF Stop
<1>2. DbOK'
  BY DEF Stop, DbOK, TypeInv
<1>3. PastOK'
  BY <1>1 DEF Stop, PastOK, TypeInv
<1> QED
  BY <1>1, <1>2, <1>3, KeepsPass, KeepsSuper, KeepsLink DEF TypeInv, Stop

LEMMA SeesRunningType ==
  ASSUME TypeInv, NEW j \in Requests, NEW a \in Apps, SeesRunning(j, a) PROVE TypeInv'
<1>1. JobsOK' /\ acts' \in 0 .. MaxActs /\ raced' \subseteq Apps
  BY BeginsType DEF SeesRunning
<1>2. PastOK'
  BY <1>1 DEF SeesRunning, PastOK, TypeInv
<1> QED
  BY <1>1, <1>2, KeepsDb, KeepsPass, KeepsSuper, KeepsLink DEF TypeInv, SeesRunning

LEMMA RebuildType ==
  ASSUME TypeInv, NEW j \in Requests, Rebuild(j) PROVE TypeInv'
<1> DEFINE a == job[j].app
           r == [job[j] EXCEPT !.pc = "teardown", !.pane = ptr[a]]
<1>1. a \in Apps /\ j \in Jobs /\ job[j] \in JobRec /\ JobIs(j, job[j]) /\ JobsOK
      /\ ptr[a] \in Panes \cup {0}
  BY HeldBy, RegJobs DEF Rebuild, Regs, TypeInv, JobsOK, DbOK
<1>2. JobsOK'
  <2>1. CASE mode[a] = "absent"
    BY <1>1, <2>1, EndsMoves DEF Rebuild
  <2>2. CASE mode[a] # "absent"
    <3>1. r \in JobRec /\ r.pc = "teardown" /\ r.app = a /\ r.next = job[j].next
      BY <1>1 DEF JobRec, Pcs
    <3>2. Moves(j, r)
      BY <1>1, <2>2, <3>1, JobNames DEF Moves, JobIs, RequestOK, Rebuild
    <3> QED
      BY <1>1, <3>2, MovesKeeps
  <2> QED
    BY <2>1, <2>2
<1>3. DbOK'
  BY <1>1 DEF Rebuild, DbOK, TypeInv
<1> QED
  BY <1>2, <1>3, KeepsPass, KeepsSuper, KeepsLink, KeepsPast DEF TypeInv, Rebuild

LEMMA PaneDeletedType ==
  ASSUME TypeInv, NEW j \in Requests, PaneDeleted(j) PROVE TypeInv'
<1>1. job[j].pane \in Panes /\ j \in Jobs
  BY HeldBy, RegJobs DEF PaneDeleted, Delivers, Regs
<1>2. JobsOK'
  BY <1>1, EndsMoves DEF PaneDeleted, TypeInv
<1>3. LinkOK'
  BY TailKeeps DEF PaneDeleted, Delivers, TypeInv
<1>4. DbOK' /\ PastOK'
  BY <1>1 DEF PaneDeleted, DbOK, PastOK, TypeInv
<1> QED
  BY <1>2, <1>3, <1>4, KeepsPass, KeepsSuper DEF TypeInv, PaneDeleted

-----------------------------------------------------------------------------
(* ... and the reconciler ...                                               *)

LEMMA ReconcileType == ASSUME TypeInv, Reconcile PROVE TypeInv'
<1> DEFINE r == [Idle EXCEPT !.pc = "loop"]
<1>1. JobIs("reconcile", r)
  BY JobNames DEF JobIs, JobRec, Pcs, Idle, ReconcileOK
<1>2. Moves("reconcile", r)
  BY <1>1, JobNames DEF Moves, Reconcile, Goto, TypeInv, JobsOK
<1>3. JobsOK'
  BY <1>2, MovesKeeps DEF TypeInv
<1>4. list' \subseteq ListRec
  <2>1. ASSUME NEW a \in Apps, NEW on \in BOOLEAN, NEW drop \in BOOLEAN
        PROVE  [app |-> a, on |-> on, pane |-> ptr[a], drop |-> drop] \in ListRec
    BY DEF ListRec, TypeInv, DbOK
  <2>2. \A a \in Apps : (mode[a] = "on") \in BOOLEAN
                       /\ (booting /\ mode[a] = "on" /\ a \in Manual) \in BOOLEAN
    OBVIOUS
  <2>3. RowsRead \subseteq ListRec
    BY <2>1, <2>2, Zenon DEF RowsRead
  <2> QED
    BY <2>3 DEF Reconcile
<1>5. PassOK'
  BY <1>4 DEF Reconcile, PassOK, TypeInv
<1>6. PastOK'
  BY DEF Reconcile, PastOK, TypeInv, Overlaps
<1> QED
  BY <1>3, <1>5, <1>6, KeepsDb, KeepsSuper, KeepsLink DEF TypeInv, Reconcile

LEMMA NextRowType == ASSUME TypeInv, list # {} PROVE NextRow \in list /\ NextRow \in ListRec
<1>1. list \subseteq ListRec /\ \A s \in list : s.app \in Apps
  BY DEF TypeInv, PassOK, ListRec
<1>2. NextRow \in list
  BY <1>1, NextRowIs, AppsAssumption, Zenon
<1> QED
  BY <1>1, <1>2

LEMMA EntersMoves ==
  ASSUME TypeInv, NEW pc \in {"teardown", "materialize"}, NEW s \in ListRec, Enters(pc, s)
  PROVE  JobsOK'
<1> DEFINE r == [pc |-> pc, app |-> s.app, pane |-> s.pane, next |-> "loop"]
<1>1. r \in JobRec /\ s.app \in Apps
  BY DEF JobRec, Pcs, ListRec
<1>2. Moves("reconcile", r)
  BY <1>1, JobNames DEF Moves, JobIs, ReconcileOK, Enters
<1> QED
  BY <1>2, MovesKeeps DEF TypeInv

LEMMA ReconcileRowType == ASSUME TypeInv, ReconcileRow PROVE TypeInv'
<1> DEFINE s == NextRow
           s0 == [s EXCEPT !.pane = 0]
<1>1. s \in ListRec /\ s.app \in Apps /\ s0 \in ListRec
  BY NextRowType DEF ReconcileRow, ListRec
<1>2. \/ Enters("teardown", s) \/ UNCHANGED job \/ Enters("materialize", s0)
  BY DEF ReconcileRow
<1>3. JobsOK'
  BY <1>1, <1>2, EntersMoves, KeepsJobs DEF TypeInv
<1>4. mode' \in [Apps -> {"absent", "off", "on"}] /\ ptr' \in [Apps -> Panes \cup {0}]
  BY <1>1 DEF ReconcileRow, TypeInv, DbOK
<1>5. DbOK'
  BY <1>4 DEF ReconcileRow, TypeInv, DbOK
<1>6. PassOK' /\ PastOK' /\ SuperOK' /\ LinkOK'
  BY KeepsLink, KeepsSuper, KeepsPast DEF ReconcileRow, PassOK, TypeInv, ptydVars, histVars
<1> QED
  BY <1>3, <1>5, <1>6 DEF TypeInv, ReconcileRow

LEMMA ReconcileEndsType == ASSUME TypeInv, ReconcileEnds PROVE TypeInv'
<1>1. JobsOK'
  BY EndsMoves, JobNames DEF ReconcileEnds, TypeInv
<1> QED
  BY <1>1, KeepsDb, KeepsPass, KeepsSuper, KeepsLink, KeepsPast DEF TypeInv, ReconcileEnds

-----------------------------------------------------------------------------
(* ... and the sweep of the supervisor ...                                  *)

LEMMA LeastLook == ASSUME TypeInv, look # {} PROVE LeastOf(look) \in look /\ LeastOf(look) \in Panes
<1>1. look \subseteq Panes
  BY DEF TypeInv, PassOK
<1> QED
  BY <1>1, LeastIs, Numbers

LEMMA SweepJob ==
  ASSUME TypeInv, NEW r \in JobRec, SweepOK(r), r.pc # "idle", job' = [job EXCEPT !["sweep"] = r]
  PROVE  JobsOK'
<1>1. Moves("sweep", r)
  BY JobNames DEF Moves, JobIs
<1> QED
  BY <1>1, MovesKeeps DEF TypeInv

LEMMA SweepGoesOnType == ASSUME TypeInv, SweepGoesOn PROVE JobsOK'
<1> DEFINE r == [Idle EXCEPT !.pc = "look"]
<1>1. r \in JobRec /\ SweepOK(r) /\ r.pc # "idle"
  BY DEF JobRec, Pcs, Idle, SweepOK
<1> QED
  BY <1>1, SweepJob DEF SweepGoesOn

LEMMA FreshIs == Fresh \in StRec /\ Fresh.attempts <= MaxAttempts /\ Fresh.attempts = 0 /\ ~Fresh.gaveUp
  BY Numbers DEF Fresh, StRec

LEMMA SweepType == ASSUME TypeInv, Sweep PROVE TypeInv'
<1> DEFINE r == [Idle EXCEPT !.pc = "look"]
<1>1. r \in JobRec /\ SweepOK(r) /\ r.pc # "idle"
  BY DEF JobRec, Pcs, Idle, SweepOK
<1>2. JobsOK'
  BY <1>1, SweepJob DEF Sweep, Goto
<1>3. PassOK'
  BY DEF Sweep, PassOK, TypeInv, listServePanes, DbOK
<1>4. SuperOK'
  BY FreshIs DEF Sweep, SuperOK, TypeInv
<1> QED
  BY <1>2, <1>3, <1>4, KeepsDb, KeepsLink, KeepsPast DEF TypeInv, Sweep

LEMMA SweepSkipsType == ASSUME TypeInv, SweepSkips PROVE TypeInv'
<1>1. PassOK'
  BY DEF SweepSkips, PassOK, TypeInv
<1> QED
  BY <1>1, KeepsJobs, KeepsDb, KeepsSuper, KeepsLink, KeepsPast DEF TypeInv, SweepSkips

LEMMA SweepAsksType == ASSUME TypeInv, SweepAsks PROVE TypeInv'
<1> DEFINE p == LeastOf(look)
           r == [job["sweep"] EXCEPT !.pc = "has", !.pane = p]
<1>1. p \in Panes /\ "sweep" \in Jobs /\ job["sweep"] \in JobRec
  BY LeastLook, JobNames DEF SweepAsks, TypeInv, JobsOK
<1>2. r \in JobRec /\ r.pc = "has" /\ r.pane = p
  BY <1>1 DEF JobRec, Pcs
<1>3. JobsOK'
  BY <1>1, <1>2, SweepJob DEF SweepAsks, SweepOK
<1>4. LinkOK'
  BY <1>1, AskHasKeeps DEF SweepAsks, TypeInv
<1>5. PassOK' /\ SuperOK'
  BY DEF SweepAsks, PassOK, SuperOK, TypeInv
<1> QED
  BY <1>3, <1>4, <1>5, KeepsDb, KeepsPast DEF TypeInv, SweepAsks

LEMMA SweepEndsType == ASSUME TypeInv, SweepEnds PROVE TypeInv'
<1>1. JobsOK'
  BY EndsMoves, JobNames DEF SweepEnds, TypeInv
<1> QED
  BY <1>1, KeepsDb, KeepsPass, KeepsSuper, KeepsLink, KeepsPast DEF TypeInv, SweepEnds

(* The pane that is being probed, and its record.                           *)
LEMMA Probed ==
  ASSUME TypeInv, job["sweep"].pc = "has"
  PROVE  /\ job["sweep"].pane \in Panes /\ st[job["sweep"].pane] \in StRec
         /\ st[job["sweep"].pane].gaveUp \/ st[job["sweep"].pane].attempts <= MaxAttempts
<1>1. job["sweep"].pane \in Panes
  BY JobNames DEF TypeInv, JobsOK, JobIs, SweepOK
<1> QED
  BY <1>1 DEF TypeInv, SuperOK

LEMMA NotSeen ==
  ASSUME TypeInv, NEW p \in Panes, st' = [st EXCEPT ![p].alive = FALSE], UNCHANGED young
  PROVE  SuperOK'
<1>1. st[p] \in StRec
  BY DEF TypeInv, SuperOK
<1>2. [st[p] EXCEPT !.alive = FALSE] \in StRec
  BY <1>1 DEF StRec
<1>3. st' = [st EXCEPT ![p] = [st[p] EXCEPT !.alive = FALSE]]
  OBVIOUS
<1>4. /\ [st[p] EXCEPT !.alive = FALSE].gaveUp = st[p].gaveUp
      /\ [st[p] EXCEPT !.alive = FALSE].attempts = st[p].attempts
  BY <1>1 DEF StRec
<1> QED
  BY <1>2, <1>3, <1>4 DEF SuperOK, TypeInv

LEMMA SweepUnsureType == ASSUME TypeInv, SweepUnsure PROVE TypeInv'
<1>1. JobsOK' /\ SuperOK'
  BY SweepGoesOnType, NotSeen, Probed DEF SweepUnsure, Sees, Delivers
<1>2. LinkOK'
  BY TailKeeps DEF SweepUnsure, Sees, Delivers, TypeInv
<1> QED
  BY <1>1, <1>2, KeepsDb, KeepsPass, KeepsPast DEF TypeInv, SweepUnsure

LEMMA SweepRestsType == ASSUME TypeInv, SweepRests PROVE TypeInv'
<1>1. JobsOK' /\ SuperOK'
  BY SweepGoesOnType, NotSeen, Probed DEF SweepRests, Delivers
<1>2. LinkOK'
  BY TailKeeps DEF SweepRests, Delivers, TypeInv
<1> QED
  BY <1>1, <1>2, KeepsDb, KeepsPass, KeepsPast DEF TypeInv, SweepRests

LEMMA SweepAliveType == ASSUME TypeInv, SweepAlive PROVE TypeInv'
<1> DEFINE p == job["sweep"].pane
           up == [st[p] EXCEPT !.alive = TRUE]
<1>1. /\ p \in Panes /\ st[p] \in StRec /\ (st[p].gaveUp \/ st[p].attempts <= MaxAttempts)
      /\ st \in [Panes -> StRec]
  BY Probed DEF SweepAlive, Sees, Delivers, TypeInv, SuperOK
<1>2. up \in StRec /\ up.gaveUp = st[p].gaveUp /\ up.attempts = st[p].attempts
  BY <1>1 DEF StRec
<1>3. \/ st' = [st EXCEPT ![p] = Fresh] \/ st' = [st EXCEPT ![p] = up]
  BY DEF SweepAlive
<1>4. SuperOK'
  BY <1>1, <1>2, <1>3, FreshIs DEF SweepAlive, SuperOK, TypeInv
<1>5. JobsOK'
  BY SweepGoesOnType DEF SweepAlive
<1>6. LinkOK'
  BY TailKeeps DEF SweepAlive, Sees, Delivers, TypeInv
<1> QED
  BY <1>4, <1>5, <1>6, KeepsDb, KeepsPass, KeepsPast DEF TypeInv, SweepAlive

LEMMA SweepDeadType == ASSUME TypeInv, SweepDead PROVE TypeInv'
<1> DEFINE p == job["sweep"].pane
           next == [st[p] EXCEPT !.attempts = @ + 1, !.cooling = TRUE, !.alive = FALSE]
           off == [next EXCEPT !.gaveUp = TRUE]
           rest == Tail(wire)
<1>0. Delivers("sweep", "has") /\ ~st[p].gaveUp /\ job["sweep"].pc = "has" /\ wire # <<>>
  BY DEF SweepDead, Delivers
<1>1. /\ p \in Panes /\ st[p] \in StRec /\ (st[p].gaveUp \/ st[p].attempts <= MaxAttempts)
      /\ st \in [Panes -> StRec] /\ rest \in Seq(Msg) /\ LinkOK
  BY <1>0, Probed, Delivered DEF TypeInv, SuperOK
<1>2. st[p].attempts \in Nat /\ st[p].attempts + 1 \in 0 .. MaxAttempts + 1
  BY <1>0, <1>1, Numbers DEF StRec
<1>3. next \in StRec /\ next.attempts = st[p].attempts + 1
  BY <1>1, <1>2 DEF StRec
<1>4. off \in StRec /\ off.gaveUp
  BY <1>3 DEF StRec
<1>5. SuperOK'
  <2>1. CASE WrittenOff(next.attempts)
    <3>1. st' = [st EXCEPT ![p] = off]
      BY <2>1 DEF SweepDead
    <3> QED
      BY <1>1, <1>4, <3>1 DEF SweepDead, SuperOK, TypeInv
  <2>2. CASE ~WrittenOff(next.attempts)
    <3>1. st' = [st EXCEPT ![p] = next]
      BY <2>2 DEF SweepDead
    <3>2. next.attempts <= MaxAttempts
      BY <1>2, <1>3, <2>2, Numbers DEF WrittenOff
    <3> QED
      BY <1>1, <1>3, <3>1, <3>2 DEF SweepDead, SuperOK, TypeInv
  <2> QED
    BY <2>1, <2>2
<1>6. \/ Goto("sweep", "spawn") /\ (\E a \in {"ok", "fail"} : wire' = Append(rest, [to |-> "sweep", ans |-> a]))
      \/ wire' = rest /\ SweepGoesOn
  BY DEF SweepDead
<1>7. pty' \in [Panes -> {"none", "live", "dying"}] /\ faults' \in 0 .. MaxFaults
  <2>1. \/ UNCHANGED <<pty, faults>>
        \/ pty' = [pty EXCEPT ![p] = IF @ = "none" THEN "live" ELSE @] /\ UNCHANGED faults
        \/ UNCHANGED pty /\ faults < MaxFaults /\ faults' = faults + 1
    BY DEF SweepDead
  <2>2. faults \in 0 .. MaxFaults /\ pty \in [Panes -> {"none", "live", "dying"}]
    BY DEF TypeInv, PastOK, LinkOK
  <2>3. faults' \in 0 .. MaxFaults
    BY <2>1, <2>2, Numbers
  <2>4. pty' \in [Panes -> {"none", "live", "dying"}]
    BY <1>1, <2>1, <2>2
  <2> QED
    BY <2>3, <2>4
<1>8. wire' \in Seq(Msg)
  BY <1>1, <1>6, Appended, JobNames
<1>9. JobsOK'
  <2>1. CASE SweepGoesOn
    BY <2>1, SweepGoesOnType
  <2>2. CASE Goto("sweep", "spawn")
    <3> DEFINE r == [job["sweep"] EXCEPT !.pc = "spawn"]
    <3>1. job["sweep"] \in JobRec
      BY JobNames DEF TypeInv, JobsOK
    <3>2. r \in JobRec /\ r.pc = "spawn" /\ r.pane = p
      BY <3>1 DEF JobRec, Pcs
    <3> QED
      BY <1>1, <2>2, <3>2, SweepJob DEF SweepOK, Goto
  <2> QED
    BY <1>6, <2>1, <2>2
<1>10. LinkOK' /\ PastOK'
  BY <1>7, <1>8 DEF SweepDead, LinkOK, PastOK, TypeInv
<1> QED
  BY <1>5, <1>9, <1>10, KeepsDb, KeepsPass DEF TypeInv, SweepDead

LEMMA SweepSpawnedType == ASSUME TypeInv, SweepSpawned PROVE TypeInv'
<1>1. JobsOK'
  BY SweepGoesOnType DEF SweepSpawned
<1>2. LinkOK'
  BY TailKeeps DEF SweepSpawned, Delivers, TypeInv
<1> QED
  BY <1>1, <1>2, KeepsDb, KeepsPass, KeepsSuper, KeepsPast DEF TypeInv, SweepSpawned

-----------------------------------------------------------------------------
(* ... and the reaper, and what fails.                                      *)

LEMMA ReaperJob ==
  ASSUME TypeInv, NEW r \in JobRec, ReaperOK(r), r.pc # "idle", job' = [job EXCEPT !["reaper"] = r]
  PROVE  JobsOK'
<1>1. Moves("reaper", r)
  BY JobNames DEF Moves, JobIs
<1> QED
  BY <1>1, MovesKeeps DEF TypeInv

LEMMA ReaperGoto ==
  ASSUME TypeInv, NEW pc \in {"queue", "list", "orphans"}, Goto("reaper", pc)
  PROVE  JobsOK'
<1> DEFINE r == [job["reaper"] EXCEPT !.pc = pc]
<1>1. job["reaper"] \in JobRec
  BY JobNames DEF TypeInv, JobsOK
<1>2. r \in JobRec /\ r.pc = pc
  BY <1>1 DEF JobRec, Pcs
<1> QED
  BY <1>2, ReaperJob DEF ReaperOK, Goto

LEMMA ReapType == ASSUME TypeInv, Reap PROVE TypeInv'
<1>1. JobsOK'
  BY ReaperGoto DEF Reap
<1>2. PassOK'
  BY DEF Reap, PassOK, TypeInv, DbOK
<1> QED
  BY <1>1, <1>2, KeepsDb, KeepsSuper, KeepsLink, KeepsPast DEF TypeInv, Reap

LEMMA LeastDue == ASSUME TypeInv, due # {} PROVE LeastOf(due) \in due /\ LeastOf(due) \in Panes
<1>1. due \subseteq Panes
  BY DEF TypeInv, PassOK
<1> QED
  BY <1>1, LeastIs, Numbers

LEMMA ReaperKillsType ==
  ASSUME TypeInv, NEW p \in Panes, NEW pc \in {"qkill", "okill"}, ReaperKills(p, pc), UNCHANGED link
  PROVE  JobsOK' /\ LinkOK' /\ due' \subseteq Panes
<1> DEFINE r == [job["reaper"] EXCEPT !.pc = pc, !.pane = p]
<1>1. job["reaper"] \in JobRec /\ "reaper" \in Jobs
  BY JobNames DEF TypeInv, JobsOK
<1>2. r \in JobRec /\ r.pc = pc /\ r.pane = p
  BY <1>1 DEF JobRec, Pcs
<1>3. JobsOK'
  BY <1>2, ReaperJob DEF ReaperOK, ReaperKills
<1>4. LinkOK'
  BY <1>1, AskKillKeeps DEF ReaperKills, TypeInv
<1> QED
  BY <1>3, <1>4 DEF ReaperKills, TypeInv, PassOK

LEMMA ReapQueuedType == ASSUME TypeInv, ReapQueued PROVE TypeInv'
<1>1. CASE due # {} /\ ReaperKills(LeastOf(due), "qkill") /\ UNCHANGED relist
  <2>1. JobsOK' /\ LinkOK' /\ due' \subseteq Panes
    BY <1>1, ReaperKillsType, LeastDue DEF ReapQueued
  <2> QED
    BY <1>1, <2>1, KeepsDb, KeepsSuper, KeepsPast DEF TypeInv, ReapQueued, PassOK
<1>2. CASE /\ due = {} /\ relist /\ relist' = FALSE
           /\ due' = IF link THEN {p \in Panes : pty[p] # "none"} ELSE {}
           /\ Answer("reaper", IF link THEN "ok" ELSE "fail")
           /\ Goto("reaper", "list") /\ UNCHANGED <<pty, waits>>
  <2>1. JobsOK'
    BY <1>2, ReaperGoto
  <2>2. \E a \in {"ok", "fail"} : wire' = Append(wire, [to |-> "reaper", ans |-> a])
    BY <1>2 DEF Answer
  <2>3. wire' \in Seq(Msg)
    BY <2>2, Appended, JobNames DEF TypeInv, LinkOK
  <2>4. LinkOK'
    BY <1>2, <2>3 DEF TypeInv, LinkOK, ReapQueued
  <2>5. PassOK'
    BY <1>2 DEF TypeInv, PassOK, ReapQueued
  <2> QED
    BY <2>1, <2>4, <2>5, KeepsDb, KeepsSuper, KeepsPast DEF TypeInv, ReapQueued
<1>3. CASE due = {} /\ ~relist /\ Ends("reaper") /\ UNCHANGED <<due, relist, wire, pty, waits>>
  <2>1. JobsOK' /\ LinkOK'
    BY <1>3, EndsMoves, JobNames, KeepsLink DEF TypeInv, ReapQueued, ptydVars
  <2> QED
    BY <1>3, <2>1, KeepsDb, KeepsSuper, KeepsPast, KeepsPass DEF TypeInv, ReapQueued, passVars
<1> QED
  BY <1>1, <1>2, <1>3 DEF ReapQueued

LEMMA ReapOrphansType == ASSUME TypeInv, ReapOrphans PROVE TypeInv'
<1> DEFINE p == LeastOf(due)
<1>1. CASE Ends("reaper") /\ UNCHANGED <<due, wire, pty, waits>>
  <2>1. JobsOK' /\ LinkOK'
    BY <1>1, EndsMoves, JobNames, KeepsLink DEF TypeInv, ReapOrphans, ptydVars
  <2> QED
    BY <1>1, <2>1, KeepsDb, KeepsSuper, KeepsPast, KeepsPass DEF TypeInv, ReapOrphans, passVars
<1>2. CASE due' = due \ {p} /\ UNCHANGED <<job, wire, pty, waits>>
  <2>1. JobsOK' /\ LinkOK' /\ due' \subseteq Panes
    BY <1>2, KeepsJobs, KeepsLink DEF TypeInv, ReapOrphans, ptydVars, PassOK
  <2> QED
    BY <2>1, KeepsDb, KeepsSuper, KeepsPast DEF TypeInv, ReapOrphans, PassOK
<1>3. CASE due # {} /\ ReaperKills(p, "okill")
  <2>1. JobsOK' /\ LinkOK' /\ due' \subseteq Panes
    BY <1>3, ReaperKillsType, LeastDue DEF ReapOrphans
  <2> QED
    BY <2>1, KeepsDb, KeepsSuper, KeepsPast DEF TypeInv, ReapOrphans, PassOK
<1> QED
  BY <1>1, <1>2, <1>3 DEF ReapOrphans

LEMMA ReaperAnsweredType == ASSUME TypeInv, ReaperAnswered PROVE TypeInv'
<1> DEFINE r(pc) == [job["reaper"] EXCEPT !.pc = pc, !.pane = 0]
<1>1. job["reaper"] \in JobRec /\ JobIs("reaper", job["reaper"])
  BY JobNames DEF TypeInv, JobsOK
<1>2. \A pc \in {"queue", "orphans"} : r(pc) \in JobRec /\ r(pc).pc = pc
  BY <1>1 DEF JobRec, Pcs
<1>3. JobsOK'
  <2>1. CASE \E pc \in {"queue", "orphans"} : job' = [job EXCEPT !["reaper"] = r(pc)]
    BY <1>2, <2>1, ReaperJob DEF ReaperOK
  <2>2. CASE Goto("reaper", "orphans")
    BY <2>2, ReaperGoto
  <2> QED
    BY <2>1, <2>2 DEF ReaperAnswered
<1>4. LinkOK'
  BY TailKeeps DEF ReaperAnswered, Delivers, TypeInv
<1>5. DbOK' /\ PassOK'
  <2>1. job["reaper"].pc \in {"qkill", "okill"} => job["reaper"].pane \in Panes
    BY <1>1, JobNames DEF JobIs, ReaperOK
  <2> QED
    BY <2>1 DEF ReaperAnswered, Delivers, DbOK, PassOK, TypeInv
<1> QED
  BY <1>3, <1>4, <1>5, KeepsSuper, KeepsPast DEF TypeInv, ReaperAnswered

LEMMA PtyExitsType == ASSUME TypeInv, NEW p \in Panes, PtyExits(p) PROVE TypeInv'
<1> DEFINE w == waits[p]
           m == [i \in DOMAIN w |-> [to |-> w[i], ans |-> "ok"]]
<1>1. w \in Seq(Jobs) /\ wire \in Seq(Msg)
  BY DEF TypeInv, LinkOK
<1>2. Len(w) \in Nat /\ DOMAIN w = 1 .. Len(w) /\ \A i \in 1 .. Len(w) : w[i] \in Jobs
  BY <1>1
<1>3. m \in [1 .. Len(w) -> Msg]
  BY <1>2 DEF Msg
<1>4. m \in Seq(Msg)
  <2>1. \E n \in Nat : m \in [1 .. n -> Msg]
    BY <1>2, <1>3
  <2>2. Seq(Msg) = UNION {[1 .. n -> Msg] : n \in Nat}
    BY SeqDef
  <2> QED
    BY <2>1, <2>2, Zenon
<1>5. wire \o m \in Seq(Msg)
  BY <1>1, <1>4, ConcatProperties
<1>6. <<>> \in Seq(Jobs)
  OBVIOUS
<1>7. LinkOK'
  BY <1>5, <1>6 DEF PtyExits, LinkOK, TypeInv
<1> QED
  BY <1>7, KeepsJobs, KeepsDb, KeepsPass, KeepsSuper, KeepsPast DEF TypeInv, PtyExits

LEMMA ConnectType == ASSUME TypeInv, Connect PROVE TypeInv'
<1>1. LinkOK' /\ PassOK'
  BY DEF Connect, LinkOK, PassOK, TypeInv
<1> QED
  BY <1>1, KeepsJobs, KeepsDb, KeepsSuper, KeepsPast DEF TypeInv, Connect

LEMMA FailedType == ASSUME FailPending PROVE wire' \in Seq(Msg)
<1>1. Pending \subseteq Jobs
  BY DEF Pending
<1>2. [to : Pending, ans : {"fail"}] \subseteq Msg
  BY <1>1 DEF Msg
<1>3. wire' \in Seq([to : Pending, ans : {"fail"}])
  BY FailedIs
<1> QED
  BY <1>2, <1>3, SeqMonotonic

LEMMA OneFault ==
  ASSUME TypeInv, faults < MaxFaults, faults' = faults + 1, UNCHANGED <<acts, made, raced, byHand>>
  PROVE  PastOK'
<1>1. faults \in 0 .. MaxFaults
  BY DEF TypeInv, PastOK
<1>2. faults' \in 0 .. MaxFaults
  BY <1>1, Numbers
<1> QED
  BY <1>2 DEF TypeInv, PastOK

LEMMA NobodyWaits == [p \in Panes |-> <<>>] \in [Panes -> Seq(Jobs)]
<1>1. <<>> \in Seq(Jobs)
  OBVIOUS
<1> QED
  BY <1>1

LEMMA FaultsType ==
  ASSUME TypeInv, LinkDrops \/ PtydRestarts \/ ServerRestarts \/ (\E p \in Panes : ShellExits(p))
  PROVE  TypeInv'
<1>1. CASE LinkDrops
  <2>1. PastOK' /\ LinkOK'
    BY <1>1, OneFault, FailedType, NobodyWaits DEF LinkDrops, LinkOK, TypeInv, Unlinks
  <2> QED
    BY <1>1, <2>1, KeepsJobs, KeepsDb, KeepsPass, KeepsSuper DEF TypeInv, LinkDrops
<1>2. CASE PtydRestarts
  <2>1. PastOK' /\ LinkOK'
    BY <1>2, OneFault, FailedType, NobodyWaits DEF PtydRestarts, LinkOK, TypeInv, Unlinks
  <2> QED
    BY <1>2, <2>1, KeepsJobs, KeepsDb, KeepsPass, KeepsSuper DEF TypeInv, PtydRestarts
<1>3. CASE ServerRestarts
  <2>1. PastOK'
    BY <1>3, OneFault DEF ServerRestarts
  <2>2. LinkOK'
    <3>1. <<>> \in Seq(Msg)
      OBVIOUS
    <3> QED
      BY <1>3, <3>1, NobodyWaits DEF ServerRestarts, LinkOK, TypeInv, Unlinks
  <2>3. JobsOK'
    <3>1. Idle \in JobRec /\ \A j \in Jobs : JobIs(j, Idle)
      BY IdleIs DEF JobIs, JobRec, Pcs, Idle
    <3> QED
      BY <1>3, <3>1 DEF ServerRestarts, JobsOK
  <2>4. PassOK' /\ SuperOK' /\ recent' \subseteq Apps
    BY <1>3, FreshIs DEF ServerRestarts, PassOK, SuperOK, TypeInv
  <2> QED
    BY <1>3, <2>1, <2>2, <2>3, <2>4, KeepsDb DEF TypeInv, ServerRestarts
<1>4. ASSUME NEW p \in Panes, ShellExits(p) PROVE TypeInv'
  <2>1. PastOK' /\ LinkOK'
    BY <1>4, OneFault DEF ShellExits, LinkOK, TypeInv
  <2> QED
    BY <1>4, <2>1, KeepsJobs, KeepsDb, KeepsPass, KeepsSuper DEF TypeInv, ShellExits
<1> QED
  BY <1>1, <1>2, <1>3, <1>4

-----------------------------------------------------------------------------
(* The pane rows are those of apps.                                         *)

MadeForApps == \A p \in rows : made[p] \in Apps

LEMMA DeletePaneType ==
  ASSUME TypeInv, MadeForApps, NEW j \in Requests, NEW p \in Panes, DeletePane(j, p) PROVE TypeInv'
<1>0. made[p] \in Apps /\ j \in Jobs
  BY JobNames DEF DeletePane, MadeForApps
<1>1. JobsOK' /\ acts' \in 0 .. MaxActs /\ raced' \subseteq Apps
  BY <1>0, BeginsType DEF DeletePane
<1>2. PastOK'
  BY <1>1 DEF DeletePane, PastOK, TypeInv
<1>3. LinkOK'
  BY <1>0, AskKillKeeps DEF DeletePane, TypeInv
<1> QED
  BY <1>1, <1>2, <1>3, KeepsDb, KeepsPass, KeepsSuper DEF TypeInv, DeletePane

(* The steps, one by one.                                                   *)
RequestStep(j) == \/ Registers(j) \/ StartAgain(j) \/ RemoveRow(j)
                  \/ Materialized(j) \/ TornDown(j) \/ PaneDeleted(j) \/ Rebuild(j)
                  \/ \E a \in Apps : PostApp(j, a) \/ Start(j, a) \/ Stop(j, a) \/ SeesRunning(j, a)
                  \/ \E p \in Panes : DeletePane(j, p)
ReconcileStep == \/ Registers("reconcile") \/ Materialized("reconcile") \/ TornDown("reconcile")
                 \/ ReconcileRow \/ ReconcileEnds \/ Reconcile
SweepStep  == \/ SweepSkips \/ SweepAsks \/ SweepEnds \/ Sweep
              \/ SweepUnsure \/ SweepAlive \/ SweepRests \/ SweepDead \/ SweepSpawned
ReaperStep == ReapQueued \/ ReapOrphans \/ ReaperAnswered \/ Reap

LEMMA Steps ==
  ASSUME Next
  PROVE  \/ \E j \in Requests : RequestStep(j)
         \/ ReconcileStep \/ SweepStep \/ ReaperStep
         \/ (\E p \in Panes : PtyExits(p)) \/ Connect
         \/ (\E p \in Panes : ShellExits(p)) \/ LinkDrops \/ PtydRestarts \/ ServerRestarts
BY Zenon DEF Next, Asks, Continues, Resumes, Arrives, Exits, Faults, Registers, RequestStep, ReconcileStep,
       SweepStep, ReaperStep

LEMMA RegisterSteps ==
  ASSUME TypeInv, NEW j \in Regs, Registers(j) \/ Materialized(j) \/ TornDown(j)
  PROVE  TypeInv'
BY MaterializeSkipsType, MaterializeType, TeardownType, MaterializedType, TornDownType DEF Registers

LEMMA TypeStep == ASSUME TypeInv, MadeForApps, Next PROVE TypeInv'
<1>1. ASSUME NEW j \in Requests, RequestStep(j) PROVE TypeInv'
  BY <1>1, RegisterSteps, StartAgainType, RemoveRowType, PaneDeletedType, RebuildType, PostAppType,
     StartType, StopType, SeesRunningType, DeletePaneType DEF RequestStep, Regs
<1>2. CASE ReconcileStep
  BY <1>2, RegisterSteps, ReconcileRowType, ReconcileEndsType, ReconcileType DEF ReconcileStep, Regs
<1>3. CASE SweepStep
  BY <1>3, SweepSkipsType, SweepAsksType, SweepEndsType, SweepType, SweepUnsureType, SweepAliveType,
     SweepRestsType, SweepDeadType, SweepSpawnedType DEF SweepStep
<1>4. CASE ReaperStep
  BY <1>4, ReapQueuedType, ReapOrphansType, ReaperAnsweredType, ReapType DEF ReaperStep
<1>5. CASE \/ (\E p \in Panes : PtyExits(p)) \/ Connect
           \/ (\E p \in Panes : ShellExits(p)) \/ LinkDrops \/ PtydRestarts \/ ServerRestarts
  BY <1>5, PtyExitsType, ConnectType, FaultsType
<1> QED
  BY <1>1, <1>2, <1>3, <1>4, <1>5, Steps

(* Rows are made by materialize and by nothing else.                        *)
LEMMA RowsOnlyGo ==
  ASSUME Next, \A j \in Regs : ~Materialize(j)
  PROVE  rows' \subseteq rows /\ made' = made
<1>1. ASSUME NEW j \in Regs, Registers(j) \/ Materialized(j) \/ TornDown(j)
      PROVE  rows' \subseteq rows /\ made' = made
  BY <1>1 DEF Registers, MaterializeSkips, Teardown, Materialized, TornDown, dbVars, histVars
<1>2. ASSUME NEW j \in Requests, RequestStep(j) PROVE rows' \subseteq rows /\ made' = made
  BY <1>1, <1>2 DEF RequestStep, Regs, StartAgain, RemoveRow, PaneDeleted, Rebuild, PostApp, Start, Stop,
     SeesRunning, DeletePane, dbVars, histVars
<1>3. CASE ReconcileStep
  BY <1>1, <1>3 DEF ReconcileStep, Regs, ReconcileRow, ReconcileEnds, Reconcile, dbVars, histVars
<1>4. CASE SweepStep \/ ReaperStep
  BY <1>4 DEF SweepStep, ReaperStep, SweepSkips, SweepAsks, SweepEnds, Sweep, SweepUnsure, SweepAlive,
     SweepRests, SweepDead, SweepSpawned, ReapQueued, ReapOrphans, ReaperAnswered, Reap, dbVars, histVars
<1>5. CASE \/ (\E p \in Panes : PtyExits(p)) \/ Connect
           \/ (\E p \in Panes : ShellExits(p)) \/ LinkDrops \/ PtydRestarts \/ ServerRestarts
  BY <1>5 DEF PtyExits, Connect, ShellExits, LinkDrops, PtydRestarts, ServerRestarts, dbVars, histVars
<1> QED
  BY <1>2, <1>3, <1>4, <1>5, Steps

LEMMA MadeStep == ASSUME TypeInv, MadeForApps, Next PROVE MadeForApps'
<1>1. ASSUME NEW j \in Regs, Materialize(j) PROVE MadeForApps'
  <2>1. job[j].app \in Apps /\ LeastOf(Free) \in Panes /\ made \in [Panes -> Apps \cup {0}]
        /\ rows \subseteq Panes
    BY <1>1, HeldBy, FreeIs DEF Materialize, TypeInv, PastOK, DbOK
  <2> QED
    BY <1>1, <2>1 DEF Materialize, MadeForApps
<1>2. CASE \A j \in Regs : ~Materialize(j)
  BY <1>2, RowsOnlyGo DEF MadeForApps
<1> QED
  BY <1>1, <1>2

LEMMA TypeInit == Init => TypeInv /\ MadeForApps
<1> SUFFICES ASSUME NEW On \in SUBSET Apps, On \subseteq Panes, NEW Off \in SUBSET (Apps \ On),
       mode = [a \in Apps |-> IF a \in On THEN "on" ELSE IF a \in Off THEN "off" ELSE "absent"],
       ptr = [a \in Apps |-> IF a \in On THEN a ELSE 0],
       rows = On, made = [p \in Panes |-> IF p \in On THEN p ELSE 0],
       pty = [p \in Panes |-> IF p \in On THEN "live" ELSE "none"],
       doomed = {}, job = [j \in Jobs |-> Idle],
       list = {}, look = {}, due = {}, st = [p \in Panes |-> Fresh],
       young = {}, recent = {}, booting = TRUE, relist = FALSE, wire = <<>>,
       link = FALSE, waits = [p \in Panes |-> <<>>],
       acts = 0, faults = 0, raced = {}, byHand = {}
     PROVE TypeInv /\ MadeForApps
  BY DEF Init
<1>1. JobsOK
  <2>1. Idle \in JobRec /\ \A j \in Jobs : JobIs(j, Idle)
    BY IdleIs DEF JobIs, JobRec, Pcs, Idle
  <2> QED
    BY <2>1 DEF JobsOK
<1>2. DbOK /\ PassOK
  BY DEF DbOK, PassOK
<1>3. SuperOK
  BY FreshIs DEF SuperOK
<1>4. LinkOK
  <2>1. <<>> \in Seq(Msg)
    OBVIOUS
  <2> QED
    BY <2>1, NobodyWaits DEF LinkOK
<1>5. PastOK
  BY Numbers DEF PastOK
<1>6. MadeForApps
  BY DEF MadeForApps
<1> QED
  BY <1>1, <1>2, <1>3, <1>4, <1>5, <1>6 DEF TypeInv

LEMMA TypeStutters == TypeInv /\ MadeForApps /\ UNCHANGED vars => TypeInv' /\ MadeForApps'
<1> SUFFICES ASSUME TypeInv, MadeForApps, UNCHANGED vars PROVE TypeInv' /\ MadeForApps'
  OBVIOUS
<1>1. JobsOK' /\ DbOK' /\ PassOK' /\ SuperOK' /\ LinkOK' /\ PastOK'
  BY KeepsJobs, KeepsDb, KeepsPass, KeepsSuper, KeepsLink, KeepsPast DEF TypeInv, vars
<1> QED
  BY <1>1 DEF TypeInv, MadeForApps, vars, dbVars, histVars

(* The database, the memory of the server, ptyd and what is on its way to  *)
(* it have their types in every state, over every fault.                   *)
THEOREM TypeCorrect == Spec => []TypeOK
<1>1. Init => TypeInv /\ MadeForApps
  BY TypeInit
<1>2. TypeInv /\ MadeForApps /\ [Next]_vars => TypeInv' /\ MadeForApps'
  BY TypeStep, MadeStep, TypeStutters
<1>3. TypeInv => TypeOK
  BY TypesImply
<1> QED
  BY <1>1, <1>2, <1>3, PTL DEF Spec

-----------------------------------------------------------------------------
(* Whose pane it is: what a row of an app, a job of the registry and a row *)
(* of the reconciler's list call a pane of an app was made for it.          *)

PtrMade    == \A a \in Apps : ptr[a] # 0 => made[ptr[a]] = a
JobMade    == \A j \in Regs : job[j].pc \in {"teardown", "kill"} /\ job[j].pane # 0
                                 => made[job[j].pane] = job[j].app
ListMade   == \A s \in list : s.pane # 0 => made[s.pane] = s.app
ListInHand == list # {} => job["reconcile"].pc # "idle"
Owners     == PtrMade /\ JobMade /\ ListMade /\ ListInHand

OwnInv == TypeInv /\ MadeForApps /\ Owners

(* A step that makes no pane, moves no pointer but to clear it, and gives  *)
(* a job of the registry no pane it had not.                                *)
Disowns ==
  /\ made' = made /\ \A a \in Apps : ptr'[a] \in {ptr[a], 0}
  /\ \A j \in Regs : job'[j].pc \in {"teardown", "kill"} /\ job'[j].pane # 0
                       => /\ job[j].pc \in {"teardown", "kill"}
                          /\ job'[j].pane = job[j].pane /\ job'[j].app = job[j].app
  /\ list' \subseteq list
  /\ list' # {} => (job'["reconcile"].pc = "idle" => job["reconcile"].pc = "idle")

LEMMA DisownsKeeps == ASSUME Owners, Disowns PROVE Owners'
<1>1. PtrMade'
  BY DEF Owners, PtrMade, Disowns
<1>2. JobMade'
  BY DEF Owners, JobMade, Disowns
<1>3. ListMade'
  BY DEF Owners, ListMade, Disowns
<1>4. ListInHand'
  BY DEF Owners, ListInHand, Disowns
<1> QED
  BY <1>1, <1>2, <1>3, <1>4 DEF Owners

(* A job of the registry, moved.                                            *)
LEMMA Moved ==
  ASSUME TypeInv, NEW j \in Jobs, NEW r, job' = [job EXCEPT ![j] = r]
  PROVE  job'[j] = r /\ \A i \in Jobs : i # j => job'[i] = job[i]
BY DEF TypeInv, JobsOK

LEMMA MovedPc ==
  ASSUME TypeInv, NEW j \in Jobs, NEW pc, Goto(j, pc)
  PROVE  /\ job'[j].pc = pc /\ job'[j].app = job[j].app /\ job'[j].pane = job[j].pane
         /\ job'[j].next = job[j].next /\ \A i \in Jobs : i # j => job'[i] = job[i]
<1>1. job[j] \in JobRec
  BY DEF TypeInv, JobsOK
<1>2. job'[j] = [job[j] EXCEPT !.pc = pc] /\ \A i \in Jobs : i # j => job'[i] = job[i]
  BY Moved DEF Goto
<1> QED
  BY <1>1, <1>2 DEF JobRec

LEMMA ReturnDoes ==
  ASSUME TypeInv, NEW j \in Regs, Return(j)
  PROVE  /\ job'[j].pc \in {"idle", "loop"} /\ (j = "reconcile" => job'[j].pc = "loop")
         /\ \A i \in Jobs : i # j => job'[i] = job[i]
<1>1. /\ job'[j] = IF j = "reconcile" THEN [Idle EXCEPT !.pc = "loop"] ELSE Idle
      /\ \A i \in Jobs : i # j => job'[i] = job[i]
  BY Moved, RegJobs DEF Return
<1> QED
  BY <1>1 DEF Idle

LEMMA EndsDoes ==
  ASSUME TypeInv, NEW j \in Jobs, Ends(j)
  PROVE  job'[j].pc = "idle" /\ \A i \in Jobs : i # j => job'[i] = job[i]
<1>1. job'[j] = Idle /\ \A i \in Jobs : i # j => job'[i] = job[i]
  BY Moved DEF Ends
<1> QED
  BY <1>1 DEF Idle

LEMMA GoesOnDoes ==
  ASSUME TypeInv, NEW j \in Regs, job[j].pc \in {"teardown", "kill"}, GoesOn(j)
  PROVE  /\ job'[j].pc \in {"idle", "start", "remove", "loop"}
         /\ job'[j].pc # "idle" => job'[j].app = job[j].app
         /\ j = "reconcile" => job'[j].pc = "loop"
         /\ j # "reconcile" => job'[j].pc # "loop"
         /\ \A i \in Jobs : i # j => job'[i] = job[i]
<1> DEFINE r == [job[j] EXCEPT !.pc = job[j].next, !.pane = 0]
<1>1. job[j] \in JobRec /\ JobIs(j, job[j]) /\ j \in Jobs
  BY RegJobs DEF TypeInv, JobsOK
<1>2. /\ job'[j] = IF job[j].next = "idle" THEN Idle ELSE r
      /\ \A i \in Jobs : i # j => job'[i] = job[i]
  BY <1>1, Moved DEF GoesOn
<1>3. r.pc = job[j].next /\ r.app = job[j].app
  BY <1>1 DEF JobRec
<1>4. job[j].next \in {"idle", "start", "remove", "loop"}
  BY <1>1 DEF JobRec
<1>5. j = "reconcile" => job[j].next = "loop"
  BY <1>1 DEF JobIs, ReconcileOK
<1>6. j # "reconcile" => job[j].next # "loop"
  BY <1>1 DEF JobIs, RequestOK, Regs
<1> QED
  BY <1>2, <1>3, <1>4, <1>5, <1>6 DEF Idle

-----------------------------------------------------------------------------
(* The registry, on an app on which no two of its activities have          *)
(* overlapped: one of them is at work on it at most, the reconciler does   *)
(* not have its row in hand meanwhile, and its rows point to its panes.     *)

Hold(j, a) == job[j].app = a /\ job[j].pc \notin {"idle", "loop"}

Alone(a) ==
  /\ \A i, j \in Regs : Hold(i, a) /\ Hold(j, a) => i = j
  /\ \A j \in Regs : Hold(j, a) => \A s \in list : s.app # a
  /\ \A s, t \in list : s.app = a /\ t.app = a => s = t
Points(a) ==
  /\ \A p \in rows : made[p] = a => ptr[a] = p
  /\ \A j \in Regs : Hold(j, a) /\ job[j].pc \in {"teardown", "kill"}
                       => ptr[a] = job[j].pane /\ mode[a] = "off"
  /\ \A j \in Regs : Hold(j, a) /\ job[j].pc = "remove" => \A p \in rows : made[p] # a
  /\ \A s \in list : s.app = a => /\ s.pane = ptr[a] /\ (s.on <=> mode[a] = "on")
                                  /\ mode[a] # "absent" /\ (s.drop => s.on)
Registry == \A a \in Apps \ raced : Alone(a) /\ Points(a)

RegInv == TypeInv /\ MadeForApps /\ Owners /\ Registry

LEMMA RegistryGives ==
  ASSUME RegInv PROVE PanesArePointedTo
<1>1. \A p \in rows : made[p] \in Apps
  BY DEF RegInv, MadeForApps
<1>2. \A a \in Apps \ raced : \A p \in rows : made[p] = a => ptr[a] = p
  BY DEF RegInv, Registry, Points
<1> QED
  BY <1>1, <1>2 DEF PanesArePointedTo

(* A step that does nothing to app a that concerns its panes.               *)
Quiet(a) ==
  /\ \A j \in Regs : job'[j].app = a /\ job'[j].pc \notin {"idle", "loop"}
                       => /\ Hold(j, a)
                          /\ job'[j].pc \in {"teardown", "kill"}
                               => job[j].pc \in {"teardown", "kill"} /\ job'[j].pane = job[j].pane
                          /\ job'[j].pc = "remove" => job[j].pc = "remove"
  /\ \A s \in list' : s.app = a => s \in list
  /\ ptr'[a] = ptr[a] /\ mode'[a] = mode[a]
  /\ \A p \in rows' : made'[p] = a => p \in rows /\ made[p] = a

LEMMA QuietKeeps ==
  ASSUME NEW a, Alone(a), Points(a), Quiet(a) PROVE Alone(a)' /\ Points(a)'
<1>1. Alone(a)'
  BY DEF Alone, Quiet, Hold
<1>2. Points(a)'
  BY DEF Points, Quiet, Hold
<1> QED
  BY <1>1, <1>2

(* A step of the sweep, of the reaper or of ptyd.                           *)
Sleeps == /\ UNCHANGED <<mode, ptr, made, raced>> /\ rows' \subseteq rows /\ list' \subseteq list
          /\ \A j \in Regs : job'[j] = job[j]

LEMMA SleepsKeeps == ASSUME RegInv, Sleeps PROVE Owners' /\ Registry'
<1>1. "reconcile" \in Regs
  BY DEF Regs
<1>2. Owners'
  BY <1>1, DisownsKeeps DEF Disowns, Sleeps, RegInv
<1>3. \A a \in Apps : Quiet(a)
  BY DEF Sleeps, Quiet, Hold
<1>4. Registry'
  BY <1>3, QuietKeeps DEF Registry, RegInv, Sleeps
<1> QED
  BY <1>2, <1>4

LEMMA OthersSleep ==
  ASSUME RegInv, SweepStep \/ ReaperStep \/ (\E p \in Panes : PtyExits(p)) \/ Connect
                 \/ (\E p \in Panes : ShellExits(p)) \/ LinkDrops \/ PtydRestarts
  PROVE  Sleeps
<1>1. /\ "sweep" \in Jobs \ Regs /\ "reaper" \in Jobs \ Regs /\ Regs \subseteq Jobs
      /\ job \in [Jobs -> JobRec]
  BY JobNames DEF Regs, RegInv, TypeInv, JobsOK
<1>2. CASE SweepStep
  <2>1. job' = job \/ \E r : job' = [job EXCEPT !["sweep"] = r]
    BY <1>2 DEF SweepStep, SweepSkips, SweepAsks, SweepEnds, Sweep, SweepUnsure, SweepAlive,
        SweepRests, SweepDead, SweepSpawned, SweepGoesOn, Ends, Goto, dbVars, passVars, histVars
  <2>2. \A j \in Regs : job'[j] = job[j]
    BY <1>1, <2>1
  <2> QED
    BY <1>2, <2>2 DEF SweepStep, SweepSkips, SweepAsks, SweepEnds, Sweep, SweepUnsure, SweepAlive,
        SweepRests, SweepDead, SweepSpawned, Sleeps, dbVars, passVars, histVars
<1>3. CASE ReaperStep
  <2>1. job' = job \/ \E r : job' = [job EXCEPT !["reaper"] = r]
    BY <1>3 DEF ReaperStep, ReapQueued, ReapOrphans, ReaperAnswered, Reap, ReaperKills, Ends, Goto
  <2>2. \A j \in Regs : job'[j] = job[j]
    BY <1>1, <2>1
  <2> QED
    BY <1>3, <2>2 DEF ReaperStep, ReapQueued, ReapOrphans, ReaperAnswered, Reap, Sleeps,
        dbVars, passVars, histVars
<1>4. CASE \/ (\E p \in Panes : PtyExits(p)) \/ Connect
           \/ (\E p \in Panes : ShellExits(p)) \/ LinkDrops \/ PtydRestarts
  BY <1>4 DEF PtyExits, Connect, ShellExits, LinkDrops, PtydRestarts, Sleeps, dbVars, passVars, histVars
<1> QED
  BY <1>2, <1>3, <1>4

LEMMA RestartKeeps == ASSUME RegInv, ServerRestarts PROVE Owners' /\ Registry'
<1>1. \A j \in Regs : job'[j].pc = "idle"
  BY RegJobs DEF ServerRestarts, Idle
<1>2. /\ list' = {} /\ made' = made /\ ptr' = ptr /\ mode' = mode /\ rows' = rows /\ raced' = raced
  BY DEF ServerRestarts, dbVars
<1>3. Disowns
  BY <1>1, <1>2 DEF Disowns
<1>4. \A a \in Apps : Quiet(a)
  BY <1>1, <1>2 DEF Quiet
<1> QED
  BY <1>2, <1>3, <1>4, DisownsKeeps, QuietKeeps DEF RegInv, Registry

-----------------------------------------------------------------------------
(* Steps of the registry.  The app its job holds is the only one disturbed. *)

(* The proof of a step: the apps it leaves alone, and the one it does not.  *)
LEMMA AllButOne ==
  ASSUME RegInv, NEW a, raced \subseteq raced',
         \A b \in Apps \ {a} : Quiet(b),
         a \in Apps \ raced => Alone(a)' /\ Points(a)'
  PROVE  Registry'
BY QuietKeeps DEF RegInv, Registry

(* What the invariant says of the one job that holds an app.                *)
LEMMA HoldsAlone ==
  ASSUME RegInv, NEW j \in Regs, NEW a \in Apps \ raced, Hold(j, a)
  PROVE  /\ \A i \in Regs : Hold(i, a) => i = j
         /\ \A s \in list : s.app # a
         /\ \A p \in rows : made[p] = a => ptr[a] = p
         /\ job[j].pc \in {"teardown", "kill"} => ptr[a] = job[j].pane /\ mode[a] = "off"
         /\ job[j].pc = "remove" => \A p \in rows : made[p] # a
BY DEF RegInv, Registry, Alone, Points

LEMMA SkipsReg ==
  ASSUME RegInv, NEW j \in Regs, MaterializeSkips(j) \/ Materialized(j) PROVE Owners' /\ Registry'
<1>1. /\ job'[j].pc \in {"idle", "loop"} /\ (j = "reconcile" => job'[j].pc = "loop")
      /\ \A i \in Jobs : i # j => job'[i] = job[i]
  <2>1. TypeInv /\ Return(j)
    BY Zenon DEF MaterializeSkips, Materialized, RegInv
  <2> QED
    BY <2>1, ReturnDoes
<1>2. UNCHANGED <<mode, ptr, rows, made, raced, list>>
  BY DEF MaterializeSkips, Materialized, dbVars, passVars, histVars
<1>3. Disowns
  BY <1>1, <1>2, RegJobs DEF Disowns, Regs
<1>4. \A a \in Apps : Quiet(a)
  BY <1>1, <1>2, RegJobs DEF Quiet, Hold
<1> QED
  BY <1>2, <1>3, <1>4, DisownsKeeps, QuietKeeps DEF RegInv, Registry

LEMMA MaterializeReg ==
  ASSUME RegInv, NEW j \in Regs, Materialize(j) PROVE Owners' /\ Registry'
<1> SUFFICES ASSUME NEW a, a = job[j].app PROVE Owners' /\ Registry'
  OBVIOUS
<1> DEFINE p == LeastOf(Free)
<1>1. /\ a \in Apps /\ p \in Panes /\ p \in Free /\ p # 0
      /\ ptr \in [Apps -> Panes \cup {0}] /\ made \in [Panes -> Apps \cup {0}] /\ rows \subseteq Panes
  BY HeldBy, FreeIs, Numbers DEF Materialize, RegInv, TypeInv, DbOK, PastOK
<1>2. /\ job'[j].pc = "ensure" /\ job'[j].app = a
      /\ \A i \in Jobs : i # j => job'[i] = job[i]
  BY MovedPc, RegJobs DEF Materialize, RegInv
<1>3. /\ p \notin rows /\ (\A b \in Apps : ptr[b] # p) /\ (\A i \in Jobs : job[i].pane # p)
      /\ (\A s \in list : s.pane # p)
  BY <1>1 DEF Free
<1>4. /\ rows' = rows \cup {p} /\ ptr' = [ptr EXCEPT ![a] = p] /\ made' = [made EXCEPT ![p] = a]
      /\ mode' = mode /\ list' = list /\ raced' = raced /\ job[j].pc = "materialize"
      /\ ptr[a] \notin rows
  BY DEF Materialize, passVars, NeedsNone
<1>5. made'[p] = a /\ \A q \in Panes : q # p => made'[q] = made[q]
  BY <1>1, <1>4
<1>6. ptr'[a] = p /\ \A b \in Apps : b # a => ptr'[b] = ptr[b]
  BY <1>1, <1>4
<1>7. Owners'
  <2>1. PtrMade'
    BY <1>1, <1>3, <1>5, <1>6 DEF PtrMade, RegInv, Owners
  <2>2. JobMade'
    <3> SUFFICES ASSUME NEW i \in Regs, job'[i].pc \in {"teardown", "kill"}, job'[i].pane # 0
                 PROVE  made'[job'[i].pane] = job'[i].app
      BY DEF JobMade
    <3>1. i # j /\ i \in Jobs /\ job'[i] = job[i]
      BY <1>2, RegJobs
    <3>2. job[i].pane \in Panes
      BY <3>1, HeldBy DEF RegInv
    <3> QED
      BY <3>1, <3>2, <1>3, <1>5 DEF JobMade, RegInv, Owners
  <2>3. ListMade'
    BY <1>3, <1>4, <1>5 DEF ListMade, RegInv, Owners, TypeInv, PassOK, ListRec
  <2>4. ListInHand'
    BY <1>2, <1>4, JobNames DEF ListInHand, RegInv, Owners, Regs
  <2> QED
    BY <2>1, <2>2, <2>3, <2>4 DEF Owners
<1>8. \A b \in Apps \ {a} : Quiet(b)
  BY <1>1, <1>2, <1>4, <1>5, <1>6, RegJobs DEF Quiet, Hold
<1>9. ASSUME a \notin raced PROVE Alone(a)' /\ Points(a)'
  <2>1. Hold(j, a)
    BY <1>4 DEF Hold
  <2>2. \A i \in Regs : Hold(i, a)' => i = j
    BY <1>1, <1>2, <1>9, <2>1, HoldsAlone, RegJobs DEF Hold
  <2>3. \A s \in list' : s.app # a
    BY <1>1, <1>4, <1>9, <2>1, HoldsAlone
  <2>4. \A q \in rows' : made'[q] = a => q = p
    BY <1>1, <1>4, <1>5, <1>9, <2>1, HoldsAlone
  <2>5. Alone(a)'
    BY <2>2, <2>3 DEF Alone
  <2>6. Points(a)'
    BY <1>2, <1>6, <2>2, <2>3, <2>4 DEF Points
  <2> QED
    BY <2>5, <2>6
<1> QED
  BY <1>1, <1>4, <1>7, <1>8, <1>9, AllButOne

(* An app that has been torn down.                                          *)
LEMMA Cleared ==
  ASSUME RegInv, NEW j \in Regs, job[j].pc \in {"teardown", "kill"},
         raced' = raced, mode' = mode, made' = made, list' = list,
         rows' = rows \ {job[j].pane},
         \/ job[j].pane # 0 /\ ptr' = [ptr EXCEPT ![job[j].app] = 0]
         \/ job[j].pane = 0 /\ ptr' = ptr,
         GoesOn(j)
  PROVE  Owners' /\ Registry'
<1> SUFFICES ASSUME NEW a, a = job[j].app PROVE Owners' /\ Registry'
  OBVIOUS
<1>1. /\ a \in Apps /\ Hold(j, a) /\ "reconcile" \in Regs
      /\ ptr \in [Apps -> Panes \cup {0}] /\ job[j].pane \in Panes \cup {0}
  BY HeldBy DEF RegInv, TypeInv, DbOK, Hold, Regs
<1>2. /\ job'[j].pc \in {"idle", "start", "remove", "loop"}
      /\ job'[j].pc # "idle" => job'[j].app = a
      /\ j = "reconcile" => job'[j].pc = "loop"
      /\ \A i \in Jobs : i # j => job'[i] = job[i]
  BY GoesOnDoes DEF RegInv
<1>3. \A b \in Apps : b # a => ptr'[b] = ptr[b]
  BY <1>1
<1>4. Disowns
  BY <1>1, <1>2, RegJobs DEF Disowns
<1>5. \A b \in Apps \ {a} : Quiet(b)
  BY <1>2, <1>3, RegJobs DEF Quiet, Hold
<1>6. ASSUME a \notin raced PROVE Alone(a)' /\ Points(a)'
  <2>1. \A i \in Regs : Hold(i, a)' => i = j
    BY <1>1, <1>2, <1>6, HoldsAlone, RegJobs DEF Hold
  <2>2. \A s \in list' : s.app # a
    BY <1>1, <1>6, HoldsAlone
  <2>3. \A q \in rows' : made'[q] # a
    BY <1>1, <1>6, HoldsAlone
  <2>4. Alone(a)'
    BY <2>1, <2>2 DEF Alone
  <2>5. Points(a)'
    BY <1>2, <2>1, <2>2, <2>3 DEF Points
  <2> QED
    BY <2>4, <2>5
<1> QED
  BY <1>4, <1>5, <1>6, DisownsKeeps, AllButOne DEF RegInv

LEMMA TeardownReg ==
  ASSUME RegInv, NEW j \in Regs, Teardown(j) PROVE Owners' /\ Registry'
<1>1. UNCHANGED <<mode, rows, made, raced, list>> /\ job[j].pc = "teardown" /\ TypeInv
  BY DEF Teardown, passVars, histVars, RegInv
<1>2. CASE job[j].pane \in rows
  <2>1. /\ job'[j].pc = "kill" /\ job'[j].app = job[j].app /\ job'[j].pane = job[j].pane
        /\ \A i \in Jobs : i # j => job'[i] = job[i]
    BY <1>2, MovedPc, RegJobs DEF Teardown, RegInv
  <2>2. ptr' = ptr
    BY <1>2 DEF Teardown, ForgetsFirst
  <2>3. Disowns
    BY <1>1, <2>1, <2>2, RegJobs DEF Disowns, Regs
  <2>4. \A b \in Apps : Quiet(b)
    BY <1>1, <2>1, <2>2, RegJobs DEF Quiet, Hold
  <2> QED
    BY <1>1, <2>3, <2>4, DisownsKeeps, QuietKeeps DEF RegInv, Registry
<1>3. CASE job[j].pane \notin rows
  <2>1. rows' = rows \ {job[j].pane}
    BY <1>1, <1>3
  <2>2. /\ GoesOn(j)
        /\ \/ job[j].pane # 0 /\ ptr' = [ptr EXCEPT ![job[j].app] = 0]
           \/ job[j].pane = 0 /\ ptr' = ptr
    BY <1>3 DEF Teardown
  <2> QED
    BY <1>1, <2>1, <2>2, Cleared
<1> QED
  BY <1>2, <1>3

LEMMA TornDownReg ==
  ASSUME RegInv, NEW j \in Regs, TornDown(j) PROVE Owners' /\ Registry'
<1>1. /\ UNCHANGED <<mode, made, raced, list>> /\ job[j].pc = "kill" /\ rows' = rows \ {job[j].pane}
      /\ ptr' = [ptr EXCEPT ![job[j].app] = 0] /\ GoesOn(j) /\ TypeInv
  BY DEF TornDown, Delivers, passVars, histVars, RegInv
<1>2. job[j].pane # 0
  BY <1>1, HeldBy, Numbers
<1> QED
  BY <1>1, <1>2, Cleared

LEMMA StartAgainReg ==
  ASSUME RegInv, NEW j \in Requests, StartAgain(j) PROVE Owners' /\ Registry'
<1> SUFFICES ASSUME NEW a, a = job[j].app PROVE Owners' /\ Registry'
  OBVIOUS
<1>1. /\ UNCHANGED <<ptr, rows, made, raced, list>> /\ job[j].pc = "start" /\ j \in Regs /\ TypeInv
      /\ "reconcile" \in Regs /\ j # "reconcile"
  BY JobNames DEF StartAgain, dbVars, passVars, histVars, Regs, RegInv
<1>2. a \in Apps /\ Hold(j, a) /\ mode \in [Apps -> {"absent", "off", "on"}]
  BY <1>1, HeldBy DEF Hold, TypeInv, DbOK
<1>3. /\ job'[j].pc \in {"idle", "materialize"} /\ (job'[j].pc = "materialize" => job'[j].app = a)
      /\ \A i \in Jobs : i # j => job'[i] = job[i]
  BY <1>1, MovedPc, EndsDoes, RegJobs DEF StartAgain
<1>4. \A b \in Apps : b # a => mode'[b] = mode[b]
  BY <1>2 DEF StartAgain
<1>5. Disowns
  BY <1>1, <1>3, RegJobs DEF Disowns
<1>6. \A b \in Apps \ {a} : Quiet(b)
  BY <1>1, <1>3, <1>4, RegJobs DEF Quiet, Hold
<1>7. ASSUME a \notin raced PROVE Alone(a)' /\ Points(a)'
  <2>1. \A i \in Regs : Hold(i, a)' => i = j
    BY <1>1, <1>2, <1>3, <1>7, HoldsAlone, RegJobs DEF Hold
  <2>2. \A s \in list' : s.app # a
    BY <1>1, <1>2, <1>7, HoldsAlone
  <2>3. \A q \in rows' : made'[q] = a => ptr'[a] = q
    BY <1>1, <1>2, <1>7, HoldsAlone
  <2>4. Alone(a)'
    BY <2>1, <2>2 DEF Alone
  <2>5. Points(a)'
    BY <1>3, <2>1, <2>2, <2>3 DEF Points
  <2> QED
    BY <2>4, <2>5
<1> QED
  BY <1>1, <1>5, <1>6, <1>7, DisownsKeeps, AllButOne DEF RegInv

LEMMA RemoveRowReg ==
  ASSUME RegInv, NEW j \in Requests, RemoveRow(j) PROVE Owners' /\ Registry'
<1> SUFFICES ASSUME NEW a, a = job[j].app PROVE Owners' /\ Registry'
  OBVIOUS
<1>1. /\ UNCHANGED <<rows, made, raced, list>> /\ job[j].pc = "remove" /\ j \in Regs /\ TypeInv
      /\ "reconcile" \in Regs /\ j # "reconcile"
      /\ mode' = [mode EXCEPT ![a] = "absent"] /\ ptr' = [ptr EXCEPT ![a] = 0]
  BY JobNames DEF RemoveRow, dbVars, passVars, histVars, Regs, RegInv
<1>2. /\ a \in Apps /\ Hold(j, a) /\ mode \in [Apps -> {"absent", "off", "on"}]
      /\ ptr \in [Apps -> Panes \cup {0}]
  BY <1>1, HeldBy DEF Hold, TypeInv, DbOK
<1>3. job'[j].pc = "idle" /\ \A i \in Jobs : i # j => job'[i] = job[i]
  BY <1>1, EndsDoes, RegJobs DEF RemoveRow
<1>4. \A b \in Apps : b # a => mode'[b] = mode[b] /\ ptr'[b] = ptr[b]
  BY <1>1, <1>2
<1>5. Disowns
  BY <1>1, <1>2, <1>3, RegJobs DEF Disowns
<1>6. \A b \in Apps \ {a} : Quiet(b)
  BY <1>1, <1>3, <1>4, RegJobs DEF Quiet, Hold
<1>7. ASSUME a \notin raced PROVE Alone(a)' /\ Points(a)'
  <2>1. \A i \in Regs : ~Hold(i, a)'
    BY <1>1, <1>2, <1>3, <1>7, HoldsAlone, RegJobs DEF Hold
  <2>2. \A s \in list' : s.app # a
    BY <1>1, <1>2, <1>7, HoldsAlone
  <2>3. \A q \in rows' : made'[q] # a
    BY <1>1, <1>2, <1>7, HoldsAlone
  <2>4. Alone(a)'
    BY <2>1, <2>2 DEF Alone
  <2>5. Points(a)'
    BY <2>1, <2>2, <2>3 DEF Points
  <2> QED
    BY <2>4, <2>5
<1> QED
  BY <1>1, <1>5, <1>6, <1>7, DisownsKeeps, AllButOne DEF RegInv

-----------------------------------------------------------------------------
(* Requests.  One that begins on an app that another activity of the       *)
(* registry is at work on makes the two overlap.                            *)

LEMMA BeginsAlone ==
  ASSUME RegInv, NEW j \in Requests, NEW a \in Apps, NEW pc, NEW p, NEW next,
         Begins(j, a, pc, p, next)
  PROVE  /\ raced \subseteq raced'
         /\ pc # "idle" => job'[j] = [pc |-> pc, app |-> a, pane |-> p, next |-> next]
         /\ pc = "idle" => job'[j] = job[j]
         /\ job[j] = Idle /\ \A i \in Jobs : i # j => job'[i] = job[i]
         /\ a \notin raced' => /\ \A i \in Regs : ~Hold(i, a)
                               /\ \A s \in list : s.app # a
                               /\ a \notin raced
<1>1. /\ raced \subseteq raced' /\ job[j] = Idle /\ (Busy(a) => a \in raced')
  BY DEF Begins, Overlaps
<1>2. /\ pc # "idle" => job'[j] = [pc |-> pc, app |-> a, pane |-> p, next |-> next]
      /\ pc = "idle" => job'[j] = job[j]
      /\ \A i \in Jobs : i # j => job'[i] = job[i]
  <2>1. j \in Jobs /\ TypeInv
    BY JobNames DEF RegInv
  <2>2. CASE pc = "idle"
    BY <2>2 DEF Begins
  <2>3. CASE pc # "idle"
    BY <2>1, <2>3, Moved DEF Begins
  <2> QED
    BY <2>2, <2>3
<1>3. ASSUME ~Busy(a) PROVE (\A i \in Regs : ~Hold(i, a)) /\ list = {}
  BY <1>3 DEF Busy, Hold, Regs, RegInv, Owners, ListInHand
<1> QED
  BY <1>1, <1>2, <1>3

(* What a request that has begun leaves to be shown.                        *)
LEMMA BeginsReg ==
  ASSUME RegInv, NEW j \in Requests, NEW a \in Apps,
         NEW pc \in {"idle", "materialize", "teardown", "seen", "delete"}, NEW p, NEW next,
         Begins(j, a, pc, p, next),
         UNCHANGED <<ptr, rows, made, list>>,
         \A b \in Apps : b # a => mode'[b] = mode[b],
         pc = "teardown" => p = ptr[a] /\ mode'[a] = "off"
  PROVE  Owners' /\ Registry'
<1>1. /\ raced \subseteq raced'
      /\ pc # "idle" => job'[j] = [pc |-> pc, app |-> a, pane |-> p, next |-> next]
      /\ pc = "idle" => job'[j] = job[j]
      /\ job[j] = Idle /\ \A i \in Jobs : i # j => job'[i] = job[i]
      /\ a \notin raced' => /\ \A i \in Regs : ~Hold(i, a)
                            /\ \A s \in list : s.app # a
                            /\ a \notin raced
  BY BeginsAlone
<1>2. j \in Regs /\ "reconcile" \in Regs /\ j # "reconcile" /\ Idle.pc = "idle"
  BY JobNames DEF Regs, Idle
<1>3. /\ job'[j].pc = pc /\ (pc # "idle" => job'[j].app = a /\ job'[j].pane = p)
  BY <1>1, <1>2
<1>4. Owners'
  <2>1. PtrMade' /\ ListMade'
    BY DEF RegInv, Owners, PtrMade, ListMade
  <2>2. JobMade'
    BY <1>1, <1>3, RegJobs DEF RegInv, Owners, PtrMade, JobMade
  <2>3. ListInHand'
    BY <1>1, <1>2, JobNames DEF RegInv, Owners, ListInHand
  <2> QED
    BY <2>1, <2>2, <2>3 DEF Owners
<1>5. \A b \in Apps \ {a} : Quiet(b)
  BY <1>1, <1>3, RegJobs DEF Quiet, Hold
<1>6. ASSUME a \notin raced' PROVE Alone(a)' /\ Points(a)'
  <2>1. \A i \in Regs : Hold(i, a)' => i = j
    BY <1>1, <1>6, RegJobs DEF Hold
  <2>2. \A s \in list' : s.app # a
    BY <1>1, <1>6
  <2>3. \A q \in rows' : made'[q] = a => ptr'[a] = q
    BY <1>1, <1>6 DEF RegInv, Registry, Points
  <2>4. Alone(a)'
    BY <2>1, <2>2 DEF Alone
  <2>5. Points(a)'
    BY <1>3, <2>1, <2>2, <2>3 DEF Points
  <2> QED
    BY <2>4, <2>5
<1>7. \A b \in Apps \ raced' : Alone(b)' /\ Points(b)'
  BY <1>1, <1>5, <1>6, QuietKeeps DEF RegInv, Registry
<1> QED
  BY <1>4, <1>7 DEF Registry

LEMMA RequestsReg ==
  ASSUME RegInv, NEW j \in Requests, NEW a \in Apps,
         PostApp(j, a) \/ Start(j, a) \/ Stop(j, a) \/ SeesRunning(j, a)
  PROVE  Owners' /\ Registry'
<1>1. UNCHANGED <<ptr, rows, made, list>>
  BY DEF PostApp, Start, Stop, SeesRunning, dbVars, passVars, histVars
<1>2. \A b \in Apps : b # a => mode'[b] = mode[b]
  BY DEF PostApp, Start, Stop, SeesRunning, dbVars, RegInv, TypeInv, DbOK
<1>3. CASE PostApp(j, a)
  <2>1. \/ Begins(j, a, "materialize", 0, "idle") \/ Begins(j, a, "idle", 0, "idle")
    BY <1>3 DEF PostApp
  <2> QED
    BY <1>1, <1>2, <2>1, BeginsReg
<1>4. CASE Start(j, a)
  <2>1. Begins(j, a, "materialize", 0, "idle")
    BY <1>4 DEF Start
  <2> QED
    BY <1>1, <1>2, <2>1, BeginsReg
<1>5. CASE Stop(j, a)
  <2>1. PICK next \in {"idle", "remove"} : Begins(j, a, "teardown", ptr[a], next)
    BY <1>5 DEF Stop
  <2>2. mode'[a] = "off"
    BY <1>5 DEF Stop, RegInv, TypeInv, DbOK
  <2>3. PICK p : p = ptr[a]
    OBVIOUS
  <2> QED
    BY <1>1, <1>2, <2>1, <2>2, <2>3, BeginsReg
<1>6. CASE SeesRunning(j, a)
  <2>1. Begins(j, a, "seen", 0, "start")
    BY <1>6 DEF SeesRunning
  <2> QED
    BY <1>1, <1>2, <2>1, BeginsReg
<1> QED
  BY <1>3, <1>4, <1>5, <1>6

LEMMA DeletePaneReg ==
  ASSUME RegInv, NEW j \in Requests, NEW p \in Panes, DeletePane(j, p) PROVE Owners' /\ Registry'
<1>1. UNCHANGED <<mode, ptr, rows, made, list>>
  BY DEF DeletePane, dbVars, passVars
<1>2. PICK a \in Apps : a = made[p]
  BY DEF DeletePane, RegInv, MadeForApps
<1>3. Begins(j, a, "delete", p, "idle")
  BY <1>2 DEF DeletePane
<1> QED
  BY <1>1, <1>3, BeginsReg

LEMMA RebuildReg ==
  ASSUME RegInv, NEW j \in Requests, Rebuild(j) PROVE Owners' /\ Registry'
<1> SUFFICES ASSUME NEW a, a = job[j].app PROVE Owners' /\ Registry'
  OBVIOUS
<1>1. /\ UNCHANGED <<ptr, rows, made, raced, list>> /\ job[j].pc = "seen" /\ j \in Regs /\ TypeInv
      /\ "reconcile" \in Regs /\ j # "reconcile" /\ j \in Jobs
  BY JobNames DEF Rebuild, dbVars, passVars, histVars, Regs, RegInv
<1>2. /\ a \in Apps /\ Hold(j, a) /\ mode \in [Apps -> {"absent", "off", "on"}]
      /\ job[j] \in JobRec
  BY <1>1, HeldBy DEF Hold, TypeInv, DbOK
<1>3. CASE mode[a] = "absent"
  <2>1. job'[j].pc = "idle" /\ (\A i \in Jobs : i # j => job'[i] = job[i]) /\ mode' = mode
    BY <1>1, <1>3, EndsDoes DEF Rebuild
  <2>2. Disowns
    BY <1>1, <2>1, RegJobs DEF Disowns
  <2>3. \A b \in Apps : Quiet(b)
    BY <1>1, <2>1, RegJobs DEF Quiet, Hold
  <2> QED
    BY <1>1, <2>2, <2>3, DisownsKeeps, QuietKeeps DEF RegInv, Registry
<1>4. CASE mode[a] # "absent"
  <2> DEFINE r == [job[j] EXCEPT !.pc = "teardown", !.pane = ptr[a]]
  <2>0. job' = [job EXCEPT ![j] = r] /\ mode' = [mode EXCEPT ![a] = "off"]
    BY <1>4 DEF Rebuild
  <2>1. job'[j] = r /\ \A i \in Jobs : i # j => job'[i] = job[i]
    BY <1>1, <2>0, Moved
  <2>2. job'[j].pc = "teardown" /\ job'[j].app = a /\ job'[j].pane = ptr[a]
    BY <1>2, <2>1 DEF JobRec
  <2>3. mode'[a] = "off" /\ \A b \in Apps : b # a => mode'[b] = mode[b]
    BY <1>2, <2>0
  <2>4. Owners'
    <3>1. PtrMade' /\ ListMade'
      BY <1>1 DEF RegInv, Owners, PtrMade, ListMade
    <3>2. JobMade'
      <4>1. ptr[a] # 0 => made'[ptr[a]] = a
        BY <1>1, <1>2 DEF RegInv, Owners, PtrMade
      <4>2. \A i \in Regs : i # j => job'[i] = job[i]
        BY <2>1, RegJobs
      <4> QED
        BY <1>1, <2>2, <4>1, <4>2 DEF RegInv, Owners, JobMade
    <3>3. ListInHand'
      BY <1>1, <2>1, JobNames DEF RegInv, Owners, ListInHand
    <3> QED
      BY <3>1, <3>2, <3>3 DEF Owners
  <2>5. \A b \in Apps \ {a} : Quiet(b)
    BY <1>1, <2>1, <2>2, <2>3, RegJobs DEF Quiet, Hold
  <2>6. ASSUME a \notin raced PROVE Alone(a)' /\ Points(a)'
    <3>1. \A i \in Regs : Hold(i, a)' => i = j
      BY <1>1, <1>2, <2>1, <2>6, HoldsAlone, RegJobs DEF Hold
    <3>2. \A s \in list' : s.app # a
      BY <1>1, <1>2, <2>6, HoldsAlone
    <3>3. \A q \in rows' : made'[q] = a => ptr'[a] = q
      BY <1>1, <1>2, <2>6, HoldsAlone
    <3>4. Alone(a)'
      BY <3>1, <3>2 DEF Alone
    <3>5. Points(a)'
      BY <1>1, <2>2, <2>3, <3>1, <3>2, <3>3 DEF Points
    <3> QED
      BY <3>4, <3>5
  <2> QED
    BY <1>1, <2>4, <2>5, <2>6, AllButOne
<1> QED
  BY <1>3, <1>4

LEMMA PaneDeletedReg ==
  ASSUME RegInv, NEW j \in Requests, PaneDeleted(j) PROVE Owners' /\ Registry'
<1>1. /\ UNCHANGED <<mode, ptr, made, raced, list>> /\ rows' \subseteq rows /\ j \in Regs /\ TypeInv
      /\ j # "reconcile" /\ j \in Jobs /\ "reconcile" \in Regs
  BY JobNames DEF PaneDeleted, passVars, Regs, RegInv
<1>2. job'[j].pc = "idle" /\ \A i \in Jobs : i # j => job'[i] = job[i]
  BY <1>1, EndsDoes DEF PaneDeleted
<1>3. Disowns
  BY <1>1, <1>2, RegJobs DEF Disowns
<1>4. \A b \in Apps : Quiet(b)
  BY <1>1, <1>2, RegJobs DEF Quiet, Hold
<1> QED
  BY <1>1, <1>3, <1>4, DisownsKeeps, QuietKeeps DEF RegInv, Registry

-----------------------------------------------------------------------------
(* The reconciler.                                                          *)

LEMMA ReconcileReg == ASSUME RegInv, Reconcile PROVE Owners' /\ Registry'
<1>1. /\ UNCHANGED <<mode, ptr, rows, made>> /\ list' = RowsRead /\ raced \subseteq raced' /\ TypeInv
      /\ "reconcile" \in Jobs /\ job["reconcile"] = Idle
      /\ \A a \in Apps : mode[a] # "absent" /\ Busy(a) => a \in raced'
  BY JobNames DEF Reconcile, dbVars, RegInv, Overlaps
<1>2. job'["reconcile"].pc = "loop" /\ \A i \in Jobs : i # "reconcile" => job'[i] = job[i]
  BY <1>1, MovedPc DEF Reconcile
<1>3. \A s \in list' : /\ s.app \in Apps /\ s.pane = ptr[s.app] /\ (s.on <=> mode[s.app] = "on")
                       /\ mode[s.app] # "absent" /\ (s.drop => s.on)
  <2> SUFFICES ASSUME NEW s \in list'
               PROVE  /\ s.app \in Apps /\ s.pane = ptr[s.app] /\ (s.on <=> mode[s.app] = "on")
                      /\ mode[s.app] # "absent" /\ (s.drop => s.on)
    OBVIOUS
  <2>1. PICK b \in {c \in Apps : mode[c] # "absent"} :
          s = [app |-> b, on |-> mode[b] = "on", pane |-> ptr[b],
               drop |-> booting /\ mode[b] = "on" /\ b \in Manual]
    BY <1>1, Zenon DEF RowsRead
  <2> QED
    BY <2>1
<1>4. \A s, t \in list' : s.app = t.app => s = t
  <2> SUFFICES ASSUME NEW s \in list', NEW t \in list', s.app = t.app PROVE s = t
    OBVIOUS
  <2>1. PICK b \in {c \in Apps : mode[c] # "absent"} :
          s = [app |-> b, on |-> mode[b] = "on", pane |-> ptr[b],
               drop |-> booting /\ mode[b] = "on" /\ b \in Manual]
    BY <1>1, Zenon DEF RowsRead
  <2>2. PICK d \in {c \in Apps : mode[c] # "absent"} :
          t = [app |-> d, on |-> mode[d] = "on", pane |-> ptr[d],
               drop |-> booting /\ mode[d] = "on" /\ d \in Manual]
    BY <1>1, Zenon DEF RowsRead
  <2>3. b = d
    BY <2>1, <2>2
  <2> QED
    BY <2>1, <2>2, <2>3, Zenon
<1>5. Owners'
  <2>1. PtrMade'
    BY <1>1 DEF RegInv, Owners, PtrMade
  <2>2. ListMade'
    BY <1>1, <1>3 DEF RegInv, Owners, PtrMade, ListMade
  <2>3. JobMade'
    BY <1>1, <1>2, RegJobs DEF RegInv, Owners, JobMade
  <2>4. ListInHand'
    BY <1>2 DEF ListInHand
  <2> QED
    BY <2>1, <2>2, <2>3, <2>4 DEF Owners
<1>6. ASSUME NEW a \in Apps \ raced' PROVE Alone(a)' /\ Points(a)'
  <2>1. \A i \in Regs : Hold(i, a)' => Hold(i, a) /\ i \in Requests /\ job'[i] = job[i]
    BY <1>2, RegJobs DEF Hold, Regs
  <2>2. \A i \in Regs : Hold(i, a)' => mode[a] = "absent"
    BY <1>1, <1>6, <2>1 DEF Hold, Busy
  <2>3. Alone(a) /\ Points(a)
    BY <1>1, <1>6 DEF RegInv, Registry
  <2>4. Alone(a)'
    BY <1>3, <1>4, <2>1, <2>2, <2>3 DEF Alone
  <2>5. Points(a)'
    BY <1>1, <1>3, <2>1, <2>2, <2>3 DEF Points
  <2> QED
    BY <2>4, <2>5
<1> QED
  BY <1>5, <1>6 DEF Registry

(* A row that the reconciler takes in hand.                                 *)
LEMMA EntersDoes ==
  ASSUME TypeInv, NEW pc, NEW s, Enters(pc, s)
  PROVE  /\ job'["reconcile"] = [pc |-> pc, app |-> s.app, pane |-> s.pane, next |-> "loop"]
         /\ \A i \in Jobs : i # "reconcile" => job'[i] = job[i]
BY Moved, JobNames DEF Enters

LEMMA ReconcileRowReg == ASSUME RegInv, ReconcileRow PROVE Owners' /\ Registry'
<1>0. PICK s : s = NextRow
  OBVIOUS
<1>1. /\ s \in list /\ s \in ListRec /\ s.app \in Apps /\ TypeInv
      /\ job["reconcile"].pc = "loop" /\ "reconcile" \in Regs /\ "reconcile" \in Jobs
  BY <1>0, NextRowType, JobNames DEF ReconcileRow, RegInv, ListRec, Regs
<1>2. PICK a \in Apps : a = s.app
  BY <1>1
<1>3. /\ UNCHANGED <<rows, made, raced>> /\ list' = list \ {s}
      /\ mode \in [Apps -> {"absent", "off", "on"}] /\ ptr \in [Apps -> Panes \cup {0}]
  BY <1>0, <1>1 DEF ReconcileRow, TypeInv, DbOK
<1>4. \/ /\ s.drop /\ Enters("teardown", s)
         /\ mode' = [mode EXCEPT ![a] = IF @ = "on" THEN "off" ELSE @] /\ ptr' = ptr
      \/ ~s.drop /\ ~s.on /\ Enters("teardown", s) /\ mode' = mode /\ ptr' = ptr
      \/ UNCHANGED <<job, mode, ptr>>
      \/ /\ s.pane \notin rows /\ Enters("materialize", [s EXCEPT !.pane = 0])
         /\ ptr' = (IF s.pane = 0 THEN ptr ELSE [ptr EXCEPT ![a] = 0]) /\ mode' = mode
  BY <1>0, <1>2 DEF ReconcileRow, Rebuilds
<1>5. a \notin raced => /\ \A i \in Regs : ~Hold(i, a)
                        /\ \A t \in list : t.app = a => t = s
                        /\ s.pane = ptr[a] /\ (s.on <=> mode[a] = "on")
                        /\ mode[a] # "absent" /\ (s.drop => s.on)
                        /\ \A p \in rows : made[p] = a => ptr[a] = p
  BY <1>1, <1>2 DEF RegInv, Registry, Alone, Points
<1>6. s.pane # 0 => made[s.pane] = a
  BY <1>1, <1>2 DEF RegInv, Owners, ListMade
<1>7. CASE UNCHANGED <<job, mode, ptr>>
  <2>1. Disowns
    BY <1>3, <1>7 DEF Disowns
  <2>2. \A b \in Apps : Quiet(b)
    BY <1>3, <1>7 DEF Quiet, Hold
  <2> QED
    BY <1>3, <2>1, <2>2, DisownsKeeps, QuietKeeps DEF RegInv, Registry
<1>8. CASE /\ Enters("teardown", s) /\ ptr' = ptr
           /\ \/ /\ s.drop
                 /\ mode' = [mode EXCEPT ![a] = IF @ = "on" THEN "off" ELSE @]
              \/ ~s.drop /\ ~s.on /\ mode' = mode
  <2>1. /\ job'["reconcile"] = [pc |-> "teardown", app |-> s.app, pane |-> s.pane, next |-> "loop"]
        /\ \A i \in Jobs : i # "reconcile" => job'[i] = job[i]
    BY <1>1, <1>8, EntersDoes
  <2>2. job'["reconcile"].pc = "teardown" /\ job'["reconcile"].app = a /\ job'["reconcile"].pane = s.pane
    BY <1>2, <2>1
  <2>3. \A b \in Apps : b # a => mode'[b] = mode[b]
    BY <1>2, <1>3, <1>8
  <2>4. Owners'
    <3>1. PtrMade' /\ ListMade'
      BY <1>3, <1>8 DEF RegInv, Owners, PtrMade, ListMade
    <3>2. JobMade'
      BY <1>3, <1>6, <2>1, <2>2, RegJobs DEF RegInv, Owners, JobMade
    <3>3. ListInHand'
      BY <2>2 DEF ListInHand
    <3> QED
      BY <3>1, <3>2, <3>3 DEF Owners
  <2>5. \A b \in Apps \ {a} : Quiet(b)
    BY <1>3, <1>8, <2>1, <2>2, <2>3, RegJobs DEF Quiet, Hold
  <2>6. ASSUME a \notin raced PROVE Alone(a)' /\ Points(a)'
    <3>1. \A i \in Regs : Hold(i, a)' => i = "reconcile"
      BY <1>5, <2>1, <2>6, RegJobs DEF Hold
    <3>2. \A t \in list' : t.app # a
      BY <1>3, <1>5, <2>6
    <3>3. \A q \in rows' : made'[q] = a => ptr'[a] = q
      BY <1>3, <1>5, <1>8, <2>6
    <3>4. ptr'[a] = s.pane /\ mode'[a] = "off"
      BY <1>3, <1>5, <1>8, <2>6
    <3>5. Alone(a)'
      BY <3>1, <3>2 DEF Alone
    <3>6. Points(a)'
      BY <2>2, <3>1, <3>2, <3>3, <3>4 DEF Points
    <3> QED
      BY <3>5, <3>6
  <2> QED
    BY <1>3, <2>4, <2>5, <2>6, AllButOne
<1>9. CASE /\ s.pane \notin rows /\ Enters("materialize", [s EXCEPT !.pane = 0])
           /\ ptr' = (IF s.pane = 0 THEN ptr ELSE [ptr EXCEPT ![a] = 0]) /\ mode' = mode
  <2> DEFINE t == [s EXCEPT !.pane = 0]
  <2>0. t.app = a /\ t.pane = 0
    BY <1>1, <1>2 DEF ListRec
  <2>1. /\ job'["reconcile"] = [pc |-> "materialize", app |-> t.app, pane |-> t.pane, next |-> "loop"]
        /\ \A i \in Jobs : i # "reconcile" => job'[i] = job[i]
    BY <1>1, <1>9, EntersDoes
  <2>2. job'["reconcile"].pc = "materialize" /\ job'["reconcile"].app = a
    BY <2>0, <2>1
  <2>3. /\ \A b \in Apps : b # a => ptr'[b] = ptr[b]
        /\ \A b \in Apps : ptr'[b] \in {ptr[b], 0}
    BY <1>3, <1>9
  <2>4. Disowns
    BY <1>3, <2>1, <2>2, <2>3, RegJobs DEF Disowns
  <2>5. \A b \in Apps \ {a} : Quiet(b)
    BY <1>3, <1>9, <2>1, <2>2, <2>3, RegJobs DEF Quiet, Hold
  <2>6. ASSUME a \notin raced PROVE Alone(a)' /\ Points(a)'
    <3>1. \A i \in Regs : Hold(i, a)' => i = "reconcile"
      BY <1>5, <2>1, <2>6, RegJobs DEF Hold
    <3>2. \A u \in list' : u.app # a
      BY <1>3, <1>5, <2>6
    <3>3. \A q \in rows' : made'[q] # a
      BY <1>3, <1>5, <1>9, <2>6
    <3>4. Alone(a)'
      BY <3>1, <3>2 DEF Alone
    <3>5. Points(a)'
      BY <2>2, <3>1, <3>2, <3>3 DEF Points
    <3> QED
      BY <3>4, <3>5
  <2> QED
    BY <1>3, <2>4, <2>5, <2>6, DisownsKeeps, AllButOne DEF RegInv
<1> QED
  BY <1>4, <1>7, <1>8, <1>9

LEMMA ReconcileEndsReg == ASSUME RegInv, ReconcileEnds PROVE Owners' /\ Registry'
<1>1. /\ UNCHANGED <<mode, ptr, rows, made, raced, list>> /\ TypeInv /\ list = {}
      /\ "reconcile" \in Jobs /\ "reconcile" \in Regs
  BY JobNames DEF ReconcileEnds, dbVars, passVars, histVars, RegInv, Regs
<1>2. job'["reconcile"].pc = "idle" /\ \A i \in Jobs : i # "reconcile" => job'[i] = job[i]
  BY <1>1, EndsDoes DEF ReconcileEnds
<1>3. Disowns
  BY <1>1, <1>2, RegJobs DEF Disowns
<1>4. \A a \in Apps : Quiet(a)
  BY <1>1, <1>2, RegJobs DEF Quiet, Hold
<1> QED
  BY <1>1, <1>3, <1>4, DisownsKeeps, QuietKeeps DEF RegInv, Registry

-----------------------------------------------------------------------------
LEMMA RegistrySteps ==
  ASSUME RegInv, NEW j \in Regs, Registers(j) \/ Materialized(j) \/ TornDown(j)
  PROVE  Owners' /\ Registry'
BY SkipsReg, MaterializeReg, TeardownReg, TornDownReg DEF Registers

LEMMA RegStep == ASSUME RegInv, Next PROVE RegInv'
<1>1. TypeInv' /\ MadeForApps'
  BY TypeStep, MadeStep DEF RegInv
<1> SUFFICES Owners' /\ Registry'
  BY <1>1 DEF RegInv
<1>2. ASSUME NEW j \in Requests, RequestStep(j) PROVE Owners' /\ Registry'
  BY <1>2, RegistrySteps, StartAgainReg, RemoveRowReg, PaneDeletedReg, RebuildReg, RequestsReg,
     DeletePaneReg DEF RequestStep, Regs
<1>3. CASE ReconcileStep
  BY <1>3, RegistrySteps, ReconcileRowReg, ReconcileEndsReg, ReconcileReg DEF ReconcileStep, Regs
<1>4. CASE SweepStep \/ ReaperStep \/ (\E p \in Panes : PtyExits(p)) \/ Connect
           \/ (\E p \in Panes : ShellExits(p)) \/ LinkDrops \/ PtydRestarts
  BY <1>4, OthersSleep, SleepsKeeps
<1>5. CASE ServerRestarts
  BY <1>5, RestartKeeps
<1> QED
  BY <1>2, <1>3, <1>4, <1>5, Steps

LEMMA RegInit == Init => RegInv
<1> SUFFICES ASSUME Init PROVE RegInv
  OBVIOUS
<1>1. TypeInv /\ MadeForApps
  BY TypeInit
<1>2. PICK On \in SUBSET Apps : /\ On \subseteq Panes /\ rows = On
                              /\ ptr = [a \in Apps |-> IF a \in On THEN a ELSE 0]
                              /\ made = [p \in Panes |-> IF p \in On THEN p ELSE 0]
                              /\ job = [j \in Jobs |-> Idle] /\ list = {}
  BY Zenon DEF Init
<1>5. /\ \A j \in Regs : job[j].pc = "idle"
      /\ list = {}
      /\ \A a \in Apps : ptr[a] # 0 => made[ptr[a]] = a
      /\ \A p \in rows : p \in Apps /\ made[p] = p /\ ptr[p] = p
  BY <1>2, RegJobs, Numbers DEF Idle
<1>3. Owners
  BY <1>5 DEF Owners, PtrMade, JobMade, ListMade, ListInHand
<1>4. Registry
  BY <1>5 DEF Registry, Alone, Points, Hold
<1> QED
  BY <1>1, <1>3, <1>4 DEF RegInv

LEMMA RegStutters == RegInv /\ UNCHANGED vars => RegInv'
<1> SUFFICES ASSUME RegInv, UNCHANGED vars PROVE RegInv'
  OBVIOUS
<1>1. TypeInv' /\ MadeForApps'
  BY TypeStutters DEF RegInv
<1>2. Sleeps
  BY DEF vars, dbVars, passVars, histVars, Sleeps
<1> QED
  BY <1>1, <1>2, SleepsKeeps DEF RegInv

(* A pane made for an app is the one its row points to, at every await and *)
(* over every restart, as long as no two activities of the registry have   *)
(* overlapped on that app: none is left behind with nobody to take it down. *)
THEOREM PointersHold == Spec => []PanesArePointedTo
<1>1. RegInv /\ [Next]_vars => RegInv'
  BY RegStep, RegStutters
<1>2. RegInv => PanesArePointedTo
  BY RegistryGives
<1> QED
  BY RegInit, <1>1, <1>2, PTL DEF Spec

-----------------------------------------------------------------------------
(* What is on its way, as a set, and each of it for another job.            *)

In(s)   == {s[i] : i \in DOMAIN s}
Once(w) == \A i, k \in DOMAIN w : w[i].to = w[k].to => i = k
Inj(s)  == \A i, k \in DOMAIN s : s[i] = s[k] => i = k

LEMMA InIs == ASSUME NEW S, NEW s \in Seq(S), NEW x \in In(s) PROVE x \in S
<1>1. PICK i \in DOMAIN s : x = s[i]
  BY DEF In
<1> QED
  BY <1>1, LenProperties, ElementOfSeq

LEMMA AppendIn ==
  ASSUME NEW S, NEW w \in Seq(S), NEW m \in S
  PROVE  In(Append(w, m)) = In(w) \cup {m}
<1>1. /\ Append(w, m) \in Seq(S) /\ Len(w) \in Nat /\ Len(Append(w, m)) = Len(w) + 1
      /\ DOMAIN w = 1 .. Len(w) /\ DOMAIN Append(w, m) = 1 .. Len(w) + 1
      /\ \A i \in 1 .. Len(w) : Append(w, m)[i] = w[i]
      /\ Append(w, m)[Len(w) + 1] = m
  BY AppendProperties
<1>2. \A i \in 1 .. Len(w) + 1 : i \in 1 .. Len(w) \/ i = Len(w) + 1
  BY <1>1
<1>3. 1 .. Len(w) \subseteq 1 .. Len(w) + 1 /\ Len(w) + 1 \in 1 .. Len(w) + 1
  BY <1>1
<1> QED
  BY <1>1, <1>2, <1>3, Zenon DEF In

LEMMA AppendOnce ==
  ASSUME NEW w \in Seq(Msg), NEW m \in Msg, Once(w), \A k \in In(w) : k.to # m.to
  PROVE  Once(Append(w, m))
<1>1. /\ Append(w, m) \in Seq(Msg) /\ Len(w) \in Nat
      /\ DOMAIN w = 1 .. Len(w) /\ DOMAIN Append(w, m) = 1 .. Len(w) + 1
      /\ \A i \in 1 .. Len(w) : Append(w, m)[i] = w[i]
      /\ Append(w, m)[Len(w) + 1] = m
  BY AppendProperties
<1>2. \A i \in 1 .. Len(w) : w[i].to # m.to
  BY <1>1 DEF In
<1>3. \A i \in 1 .. Len(w) + 1 : i \in 1 .. Len(w) \/ i = Len(w) + 1
  BY <1>1
<1> QED
  BY <1>1, <1>2, <1>3 DEF Once

LEMMA AppendInj ==
  ASSUME NEW S, NEW w \in Seq(S), NEW m \in S, Inj(w), m \notin In(w)
  PROVE  Inj(Append(w, m))
<1>1. /\ Append(w, m) \in Seq(S) /\ Len(w) \in Nat
      /\ DOMAIN w = 1 .. Len(w) /\ DOMAIN Append(w, m) = 1 .. Len(w) + 1
      /\ \A i \in 1 .. Len(w) : Append(w, m)[i] = w[i]
      /\ Append(w, m)[Len(w) + 1] = m
  BY AppendProperties
<1>2. \A i \in 1 .. Len(w) : w[i] # m
  BY <1>1 DEF In
<1>3. \A i \in 1 .. Len(w) + 1 : i \in 1 .. Len(w) \/ i = Len(w) + 1
  BY <1>1
<1> QED
  BY <1>1, <1>2, <1>3 DEF Inj

LEMMA TailIn ==
  ASSUME NEW w \in Seq(Msg), w # <<>>, Once(w)
  PROVE  /\ Head(w) \in In(w) /\ In(Tail(w)) \subseteq In(w) /\ Once(Tail(w))
         /\ Tail(w) \in Seq(Msg)
         /\ \A k \in In(Tail(w)) : k.to # Head(w).to
<1> DEFINE t == Tail(w)
           n == Len(w)
<1>1. /\ n \in Nat /\ n # 0 /\ DOMAIN w = 1 .. n /\ Head(w) = w[1] /\ t \in Seq(Msg)
      /\ Len(t) = n - 1 /\ \A i \in 1 .. n - 1 : t[i] = w[i + 1]
  OBVIOUS
<1>2. DOMAIN t = 1 .. n - 1
  BY <1>1
<1>3. \A i \in 1 .. n - 1 : i + 1 \in 1 .. n /\ i + 1 # 1
  BY <1>1
<1>4. 1 \in 1 .. n
  BY <1>1
<1> HIDE DEF t, n
<1>5. In(t) \subseteq In(w) /\ Head(w) \in In(w)
  BY <1>1, <1>2, <1>3, <1>4 DEF In
<1>6. Once(t)
  <2> SUFFICES ASSUME NEW i \in 1 .. n - 1, NEW k \in 1 .. n - 1, t[i].to = t[k].to PROVE i = k
    BY <1>2 DEF Once
  <2>1. w[i + 1].to = w[k + 1].to
    BY <1>1
  <2>2. i + 1 = k + 1
    BY <1>1, <1>3, <2>1 DEF Once
  <2> QED
    BY <1>1, <2>2
<1>7. \A k \in In(t) : k.to # Head(w).to
  <2> SUFFICES ASSUME NEW i \in 1 .. n - 1, t[i].to = Head(w).to PROVE FALSE
    BY <1>2 DEF In
  <2> QED
    BY <1>1, <1>3, <1>4 DEF Once
<1> QED
  BY <1>1, <1>5, <1>6, <1>7 DEF t

LEMMA ConcatIn ==
  ASSUME NEW w \in Seq(Msg), NEW m \in Seq(Msg), Once(w), Once(m),
         \A x \in In(w) : \A y \in In(m) : x.to # y.to
  PROVE  Once(w \o m) /\ In(w \o m) \subseteq In(w) \cup In(m)
<1> DEFINE c == w \o m
           n == Len(w)
           k == Len(m)
<1>1. /\ n \in Nat /\ k \in Nat /\ c \in Seq(Msg) /\ Len(c) = n + k
      /\ \A i \in 1 .. n + k : c[i] = IF i <= n THEN w[i] ELSE m[i - n]
      /\ DOMAIN w = 1 .. n /\ DOMAIN m = 1 .. k
  BY ConcatProperties
<1>2. DOMAIN c = 1 .. n + k
  BY <1>1
<1> HIDE DEF c, n, k
<1>3. \A i \in 1 .. n + k : \/ i \in 1 .. n /\ c[i] = w[i]
                            \/ i - n \in 1 .. k /\ c[i] = m[i - n]
  BY <1>1
<1>4. In(c) \subseteq In(w) \cup In(m)
  BY <1>1, <1>2, <1>3 DEF In
<1>5. Once(c)
  <2> SUFFICES ASSUME NEW i \in 1 .. n + k, NEW j \in 1 .. n + k, c[i].to = c[j].to PROVE i = j
    BY <1>2 DEF Once
  <2>1. CASE i \in 1 .. n /\ c[i] = w[i] /\ j \in 1 .. n /\ c[j] = w[j]
    BY <1>1, <2>1 DEF Once
  <2>2. CASE i - n \in 1 .. k /\ c[i] = m[i - n] /\ j - n \in 1 .. k /\ c[j] = m[j - n]
    <3>1. i - n = j - n
      BY <1>1, <2>2 DEF Once
    <3> QED
      BY <1>1, <3>1
  <2>3. CASE i \in 1 .. n /\ c[i] = w[i] /\ j - n \in 1 .. k /\ c[j] = m[j - n]
    BY <1>1, <2>3 DEF In
  <2>4. CASE j \in 1 .. n /\ c[j] = w[j] /\ i - n \in 1 .. k /\ c[i] = m[i - n]
    BY <1>1, <2>4 DEF In
  <2> QED
    BY <1>3, <2>1, <2>2, <2>3, <2>4
<1> QED
  BY <1>4, <1>5 DEF c

-----------------------------------------------------------------------------
(* Answers: every one is for a job that waits for it, one for each, and    *)
(* what it says of a pane is still so when it arrives.                      *)

KillPcs == {"kill", "delete", "qkill", "okill"}
WaitPcs == KillPcs \cup {"ensure", "has", "spawn", "list"}
Waiting(j) == j \in Jobs /\ job[j].pc \in WaitPcs

MsgOK(m) ==
  /\ Waiting(m.to)
  /\ m.ans = "yes" => m.to = "sweep"
  /\ m.ans = "no" => /\ m.to = "sweep" /\ job["sweep"].pc = "has"
                     /\ pty[job["sweep"].pane] = "none"
  /\ m.ans = "ok" /\ job[m.to].pc = "kill" /\ job[m.to].pane \in rows
                  /\ made[job[m.to].pane] \notin raced => pty[job[m.to].pane] # "live"
  /\ m.ans = "ok" /\ job[m.to].pc = "qkill" => pty[job[m.to].pane] # "live"

WaitOK(p) ==
  /\ Inj(waits[p])
  /\ \A j \in In(waits[p]) : /\ j \in Jobs /\ job[j].pc \in KillPcs /\ job[j].pane = p
                             /\ \A m \in In(wire) : m.to # j

AnsInv == (\A m \in In(wire) : MsgOK(m)) /\ Once(wire) /\ \A p \in Panes : WaitOK(p)

(* A step of job j leaves alone what others wait for.                       *)
Spared(j, q) == \A i \in Jobs \ {j} : job[i].pane = q =>
                  /\ ~(job[i].pc = "kill" /\ q \in rows /\ made[q] \notin raced)
                  /\ job[i].pc # "qkill" /\ i # "sweep"
Frame(j) ==
  /\ \A i \in Jobs \ {j} : Waiting(i) => job'[i] = job[i]
  /\ \A q \in Panes : \/ pty'[q] = pty[q] \/ pty'[q] = "none"
                      \/ (pty[q] # "none" /\ pty'[q] = "dying") \/ Spared(j, q)
  /\ raced \subseteq raced'
  /\ \A q \in rows' : (q \in rows /\ made'[q] = made[q]) \/ \A i \in Jobs \ {j} : job[i].pane # q

LEMMA WaitPane ==
  ASSUME TypeInv, NEW j \in Jobs, job[j].pc \in {"kill", "delete", "qkill", "okill", "has", "spawn"}
  PROVE  job[j].pane \in Panes
BY DEF TypeInv, JobsOK, JobIs, Jobs, RequestOK, ReconcileOK, SweepOK, ReaperOK

LEMMA MsgKept ==
  ASSUME TypeInv, NEW j, NEW m, MsgOK(m), m.to # j, Frame(j)
  PROVE  MsgOK(m)'
<1> PICK i : i = m.to
  OBVIOUS
<1>1. i \in Jobs /\ i # j /\ Waiting(i) /\ job'[i] = job[i]
  BY DEF MsgOK, Frame, Waiting
<1>2. Waiting(m.to)' /\ (m.ans = "yes" => m.to = "sweep")
  BY <1>1 DEF Waiting, MsgOK
<1>3. ASSUME m.ans = "no" PROVE m.to = "sweep" /\ job'["sweep"].pc = "has" /\ pty'[job'["sweep"].pane] = "none"
  BY <1>1, <1>3, WaitPane DEF MsgOK, Frame, Spared
<1>4. ASSUME m.ans = "ok", job'[i].pc = "kill", job'[i].pane \in rows', made'[job'[i].pane] \notin raced'
      PROVE  pty'[job'[i].pane] # "live"
  BY <1>1, <1>4, WaitPane DEF MsgOK, Frame, Spared
<1>5. ASSUME m.ans = "ok", job'[i].pc = "qkill" PROVE pty'[job'[i].pane] # "live"
  BY <1>1, <1>5, WaitPane DEF MsgOK, Frame, Spared
<1> QED
  BY <1>2, <1>3, <1>4, <1>5 DEF MsgOK

(* Job j waits no more, or waits anew.                                      *)
LEMMA AnsCore ==
  ASSUME TypeInv, AnsInv, NEW j, Frame(j), NEW w \in Seq(Msg), In(w) \subseteq In(wire), Once(w),
         \A m \in In(w) : m.to # j,
         \A p \in Panes : j \notin In(waits[p]),
         waits' = waits,
         \/ wire' = w
         \/ \E m \in Msg : m.to = j /\ wire' = Append(w, m) /\ MsgOK(m)'
  PROVE  AnsInv'
<1>1. \A m \in In(w) : MsgOK(m)'
  BY MsgKept DEF AnsInv
<1>2. (\A m \in In(wire') : MsgOK(m)') /\ Once(wire') /\ \A m \in In(wire') : m \in In(wire) \/ m.to = j
  <2>1. CASE wire' = w
    BY <1>1, <2>1
  <2>2. ASSUME NEW m \in Msg, m.to = j, wire' = Append(w, m), MsgOK(m)'
        PROVE  (\A k \in In(wire') : MsgOK(k)') /\ Once(wire') /\ \A k \in In(wire') : k \in In(wire) \/ k.to = j
    <3>1. In(wire') = In(w) \cup {m} /\ Once(wire')
      BY <2>2, AppendIn, AppendOnce
    <3> QED
      BY <1>1, <2>2, <3>1
  <2> QED
    BY <2>1, <2>2
<1>3. ASSUME NEW p \in Panes PROVE WaitOK(p)'
  <2>1. \A i \in In(waits[p]) : i \in Jobs \ {j} /\ Waiting(i) /\ job'[i] = job[i]
    BY DEF AnsInv, WaitOK, Waiting, WaitPcs, Frame
  <2> QED
    BY <1>2, <2>1 DEF AnsInv, WaitOK
<1> QED
  BY <1>2, <1>3 DEF AnsInv

(* Job j waits for the exit of pane q.                                      *)
LEMMA AnsWaits ==
  ASSUME TypeInv, AnsInv, NEW j \in Jobs, Frame(j), ~Waiting(j), NEW q \in Panes,
         job'[j].pc \in KillPcs, job'[j].pane = q,
         wire' = wire, waits' = [waits EXCEPT ![q] = Append(@, j)]
  PROVE  AnsInv'
<1>1. \A m \in In(wire) : m.to # j
  BY DEF AnsInv, MsgOK
<1>2. \A p \in Panes : j \notin In(waits[p])
  BY DEF AnsInv, WaitOK, Waiting, WaitPcs
<1>3. \A m \in In(wire) : MsgOK(m)'
  BY <1>1, MsgKept DEF AnsInv
<1>4. waits \in [Panes -> Seq(Jobs)]
  BY DEF TypeInv, LinkOK
<1>5. ASSUME NEW p \in Panes PROVE WaitOK(p)'
  <2>1. \A i \in In(waits[p]) : i \in Jobs \ {j} /\ Waiting(i) /\ job'[i] = job[i]
    BY <1>2 DEF AnsInv, WaitOK, Waiting, WaitPcs, Frame
  <2>2. CASE p # q
    <3>1. waits'[p] = waits[p]
      BY <1>4, <2>2
    <3> QED
      BY <2>1, <3>1 DEF AnsInv, WaitOK
  <2>3. CASE p = q
    <3>1. waits'[p] = Append(waits[p], j)
      BY <1>4, <2>3
    <3>2. In(waits'[p]) = In(waits[p]) \cup {j} /\ Inj(waits'[p])
      BY <1>2, <1>4, <3>1, AppendIn, AppendInj DEF AnsInv, WaitOK
    <3> QED
      BY <1>1, <2>1, <2>3, <3>2 DEF AnsInv, WaitOK
  <2> QED
    BY <2>2, <2>3
<1> QED
  BY <1>3, <1>5 DEF AnsInv

-----------------------------------------------------------------------------
(* How a step may change the answers.                                       *)

Others(j) == \A i \in Jobs : i # j => job'[i] = job[i]
SameRows  == raced \subseteq raced' /\ rows' \subseteq rows /\ made' = made

LEMMA FrameOf ==
  ASSUME NEW j, Others(j), SameRows,
         \A q \in Panes : \/ pty'[q] = pty[q] \/ pty'[q] = "none"
                          \/ pty[q] # "none" /\ pty'[q] = "dying"
  PROVE  Frame(j)
BY DEF Others, SameRows, Frame

(* A job that waits for nothing takes a step of its own.                    *)
LEMMA AnsStays ==
  ASSUME TypeInv, AnsInv, NEW j, ~Waiting(j), Frame(j), UNCHANGED <<wire, waits>>
  PROVE  AnsInv'
<1>1. \A m \in In(wire) : m.to # j
  BY DEF AnsInv, MsgOK
<1>2. \A p \in Panes : j \notin In(waits[p])
  BY DEF AnsInv, WaitOK, Waiting, WaitPcs
<1>3. wire \in Seq(Msg) /\ Once(wire)
  BY DEF TypeInv, LinkOK, AnsInv
<1> QED
  BY <1>1, <1>2, <1>3, AnsCore

(* The answer that has come: nothing else is on its way to the job.         *)
LEMMA Arrived ==
  ASSUME TypeInv, AnsInv, NEW j \in Jobs, NEW pc, Delivers(j, pc)
  PROVE  /\ job[j].pc = pc /\ Head(wire) \in Msg /\ Head(wire).to = j /\ MsgOK(Head(wire))
         /\ In(Tail(wire)) \subseteq In(wire) /\ Once(Tail(wire)) /\ Tail(wire) \in Seq(Msg)
         /\ \A m \in In(Tail(wire)) : m.to # j
         /\ \A p \in Panes : j \notin In(waits[p])
<1>1. wire # <<>> /\ Head(wire).to = j /\ job[j].pc = pc /\ wire \in Seq(Msg) /\ Once(wire)
  BY DEF Delivers, TypeInv, LinkOK, AnsInv
<1>2. /\ Head(wire) \in In(wire) /\ In(Tail(wire)) \subseteq In(wire) /\ Once(Tail(wire))
      /\ Tail(wire) \in Seq(Msg) /\ \A m \in In(Tail(wire)) : m.to # Head(wire).to
  BY <1>1, TailIn
<1>3. Head(wire) \in Msg
  BY <1>1
<1> QED
  BY <1>1, <1>2, <1>3 DEF AnsInv, WaitOK

LEMMA AnsTakes ==
  ASSUME TypeInv, AnsInv, NEW j \in Jobs, NEW pc, Delivers(j, pc), Frame(j),
         wire' = Tail(wire), waits' = waits
  PROVE  AnsInv'
<1>1. /\ In(Tail(wire)) \subseteq In(wire) /\ Once(Tail(wire)) /\ Tail(wire) \in Seq(Msg)
      /\ \A m \in In(Tail(wire)) : m.to # j
      /\ \A p \in Panes : j \notin In(waits[p])
  BY Arrived
<1> QED
  BY <1>1, AnsCore

(* A job that waited for nothing has asked ptyd.                            *)
LEMMA AnsAsks ==
  ASSUME TypeInv, AnsInv, NEW j \in Jobs, ~Waiting(j), Frame(j),
         NEW a \in {"ok", "fail", "yes", "no"}, wire' = Append(wire, [to |-> j, ans |-> a]),
         waits' = waits, MsgOK([to |-> j, ans |-> a])'
  PROVE  AnsInv'
<1>1. \A m \in In(wire) : m.to # j
  BY DEF AnsInv, MsgOK
<1>2. \A p \in Panes : j \notin In(waits[p])
  BY DEF AnsInv, WaitOK, Waiting, WaitPcs
<1>3. wire \in Seq(Msg) /\ Once(wire)
  BY DEF TypeInv, LinkOK, AnsInv
<1>4. [to |-> j, ans |-> a] \in Msg /\ [to |-> j, ans |-> a].to = j
  BY DEF Msg
<1> QED
  BY <1>1, <1>2, <1>3, <1>4, AnsCore

LEMMA AnsKill ==
  ASSUME TypeInv, AnsInv, NEW j \in Jobs, ~Waiting(j), NEW q \in Panes, AskKill(j, q),
         job'[j].pc \in KillPcs, job'[j].pane = q, Others(j), SameRows
  PROVE  AnsInv'
<1>1. pty \in [Panes -> {"none", "live", "dying"}] /\ link \in BOOLEAN
  BY DEF TypeInv, LinkOK
<1>2. CASE \E a \in {"ok", "fail"} : /\ wire' = Append(wire, [to |-> j, ans |-> a])
                                     /\ a = "ok" => pty[q] = "none"
                                     /\ UNCHANGED <<pty, waits>>
  <2>1. PICK a \in {"ok", "fail"} : /\ wire' = Append(wire, [to |-> j, ans |-> a])
                                    /\ a = "ok" => pty[q] = "none"
                                    /\ UNCHANGED <<pty, waits>>
    BY <1>2
  <2>2. Frame(j)
    BY <2>1, FrameOf
  <2>3. MsgOK([to |-> j, ans |-> a])'
    BY <2>1 DEF MsgOK, Waiting, WaitPcs
  <2> QED
    BY <2>1, <2>2, <2>3, AnsAsks
<1>3. CASE /\ pty[q] # "none" /\ pty' = [pty EXCEPT ![q] = "dying"]
           /\ waits' = [waits EXCEPT ![q] = Append(@, j)] /\ wire' = wire
  <2>1. Frame(j)
    BY <1>1, <1>3, FrameOf
  <2> QED
    BY <1>3, <2>1, AnsWaits
<1> QED
  BY <1>1, <1>2, <1>3, AskKillDoes

-----------------------------------------------------------------------------
(* ptyd itself.                                                             *)

LEMMA NothingIn == In(<<>>) = {} /\ Once(<<>>) /\ Inj(<<>>)
  BY DEF In, Once, Inj

LEMMA ExitsAns == ASSUME TypeInv, AnsInv, NEW p \in Panes, PtyExits(p) PROVE AnsInv'
<1> DEFINE w == waits[p]
           m == [i \in DOMAIN w |-> [to |-> w[i], ans |-> "ok"]]
<1>1. w \in Seq(Jobs) /\ wire \in Seq(Msg) /\ waits \in [Panes -> Seq(Jobs)]
      /\ pty \in [Panes -> {"none", "live", "dying"}]
  BY DEF TypeInv, LinkOK
<1>2. Len(w) \in Nat /\ DOMAIN w = 1 .. Len(w) /\ \A i \in 1 .. Len(w) : w[i] \in Jobs
  BY <1>1
<1>3. m \in [1 .. Len(w) -> Msg]
  BY <1>2 DEF Msg
<1>4. m \in Seq(Msg)
  <2>1. \E n \in Nat : m \in [1 .. n -> Msg]
    BY <1>2, <1>3
  <2>2. Seq(Msg) = UNION {[1 .. n -> Msg] : n \in Nat}
    BY SeqDef
  <2> QED
    BY <2>1, <2>2, Zenon
<1>5. Inj(w) /\ \A j \in In(w) : /\ j \in Jobs /\ job[j].pc \in KillPcs /\ job[j].pane = p
                                 /\ \A k \in In(wire) : k.to # j
  BY DEF AnsInv, WaitOK
<1>6. Once(m)
  BY <1>2, <1>5 DEF Once, Inj
<1>7. \A y \in In(m) : y.to \in In(w) /\ y.ans = "ok"
  <2> SUFFICES ASSUME NEW y \in In(m) PROVE y.to \in In(w) /\ y.ans = "ok"
    OBVIOUS
  <2>1. PICK i \in DOMAIN m : y = m[i]
    BY DEF In
  <2>2. i \in DOMAIN w /\ m[i] = [to |-> w[i], ans |-> "ok"]
    BY <2>1
  <2>3. w[i] \in In(w)
    BY <2>2 DEF In
  <2> QED
    BY <2>1, <2>2, <2>3
<1>8. \A x \in In(wire) : \A y \in In(m) : x.to # y.to
  BY <1>5, <1>7
<1>9. wire' = wire \o m /\ Once(wire)
  BY DEF PtyExits, AnsInv
<1> HIDE DEF m, w
<1>10. Once(wire') /\ In(wire') \subseteq In(wire) \cup In(m)
  BY <1>1, <1>4, <1>6, <1>8, <1>9, ConcatIn
<1>11. /\ pty' = [pty EXCEPT ![p] = "none"] /\ waits' = [waits EXCEPT ![p] = <<>>] /\ job' = job
       /\ rows' = rows /\ made' = made /\ raced' = raced
  BY DEF PtyExits, dbVars, histVars
<1>12. Frame("none")
  BY <1>1, <1>11 DEF Frame
<1>13. "none" \notin Jobs
  BY AppsAssumption DEF Jobs
<1>14. \A x \in In(wire) : MsgOK(x)'
  <2>1. \A x \in In(wire) : MsgOK(x) /\ x.to # "none"
    BY <1>13 DEF AnsInv, MsgOK, Waiting
  <2> QED
    BY <1>12, <2>1, MsgKept
<1>15. \A y \in In(m) : MsgOK(y)'
  <2> SUFFICES ASSUME NEW y \in In(m) PROVE MsgOK(y)'
    OBVIOUS
  <2>1. y.to \in Jobs /\ job[y.to].pc \in KillPcs /\ job[y.to].pane = p /\ y.ans = "ok"
    BY <1>5, <1>7
  <2>2. pty'[p] = "none"
    BY <1>1, <1>11
  <2> QED
    BY <1>11, <2>1, <2>2 DEF MsgOK, Waiting, WaitPcs
<1>16. ASSUME NEW q \in Panes PROVE WaitOK(q)'
  <2>1. CASE q = p
    <3>1. waits'[q] = <<>>
      BY <1>1, <1>11, <2>1
    <3> QED
      BY <3>1, NothingIn DEF WaitOK
  <2>2. CASE q # p
    <3>1. waits'[q] = waits[q] /\ WaitOK(q)
      BY <1>1, <1>11, <2>2 DEF AnsInv
    <3>2. \A j \in In(waits[q]) : j \notin In(w)
      BY <1>5, <2>2, <3>1 DEF WaitOK
    <3>3. \A j \in In(waits[q]) : \A x \in In(wire') : x.to # j
      BY <1>7, <1>10, <3>1, <3>2 DEF WaitOK
    <3> QED
      BY <1>11, <3>1, <3>3 DEF WaitOK
  <2> QED
    BY <2>1, <2>2
<1> QED
  BY <1>10, <1>14, <1>15, <1>16 DEF AnsInv

LEMMA FailsAns ==
  ASSUME TypeInv, FailPending, Unlinks, UNCHANGED job PROVE AnsInv'
<1>1. wire' \in Seq([to : Pending, ans : {"fail"}]) /\ Once(wire')
  BY FailedIs DEF Once
<1>2. \A m \in In(wire') : m.to \in Pending /\ m.ans = "fail"
  <2>1. \A m \in In(wire') : m \in [to : Pending, ans : {"fail"}]
    BY <1>1, InIs
  <2> QED
    BY <2>1
<1>3. \A m \in In(wire') : MsgOK(m)'
  BY <1>2 DEF MsgOK, Waiting, Pending, WaitPcs, KillPcs
<1>4. \A p \in Panes : waits'[p] = <<>>
  BY DEF Unlinks
<1>5. \A p \in Panes : WaitOK(p)'
  BY <1>4, NothingIn DEF WaitOK
<1> QED
  BY <1>1, <1>3, <1>5 DEF AnsInv

LEMMA RestartAns == ASSUME ServerRestarts PROVE AnsInv'
<1>1. wire' = <<>> /\ \A p \in Panes : waits'[p] = <<>>
  BY DEF ServerRestarts, Unlinks
<1>2. \A p \in Panes : WaitOK(p)'
  BY <1>1, NothingIn DEF WaitOK
<1> QED
  BY <1>1, <1>2, NothingIn DEF AnsInv

-----------------------------------------------------------------------------
(* The answers, over the steps of the registry and of the requests.         *)

LEMMA Unasked ==
  ASSUME NEW j, job[j].pc \in {"idle", "materialize", "teardown", "start", "remove", "seen", "loop",
                               "look", "queue", "orphans"}
  PROVE  ~Waiting(j)
BY DEF Waiting, WaitPcs, KillPcs

(* Steps that ask ptyd for nothing.                                         *)
LEMMA QuietAns ==
  ASSUME TypeInv, AnsInv, NEW j,
         job[j].pc \in {"idle", "materialize", "teardown", "start", "remove", "seen", "loop",
                        "look", "queue", "orphans"},
         Others(j), SameRows, UNCHANGED <<wire, waits, pty>>
  PROVE  AnsInv'
BY Unasked, FrameOf, AnsStays

LEMMA IdleOrNone == Idle.pc = "idle" /\ "none" \notin Jobs
  BY AppsAssumption DEF Idle, Jobs

LEMMA RegisterAns ==
  ASSUME RegInv, AnsInv, NEW j \in Regs, Registers(j) \/ Materialized(j) \/ TornDown(j)
  PROVE  AnsInv'
<1>0. TypeInv /\ j \in Jobs
  BY RegJobs DEF RegInv
<1>1. CASE MaterializeSkips(j)
  <2>1. Others(j)
    BY <1>0, <1>1, ReturnDoes DEF MaterializeSkips, Others
  <2> QED
    BY <1>0, <1>1, <2>1, QuietAns DEF MaterializeSkips, SameRows, dbVars, ptydVars, histVars
<1>2. CASE Materialize(j)
  <2> DEFINE p == LeastOf(Free)
  <2>1. p \in Free /\ p \in Panes /\ job[j].pc = "materialize"
    BY <1>2, FreeIs DEF Materialize
  <2>2. \A i \in Jobs : job[i].pane # p
    BY <2>1 DEF Free
  <2>3. job'[j].pc = "ensure" /\ Others(j)
    BY <1>0, <1>2, MovedPc DEF Materialize, Others
  <2>4. /\ \A q \in Panes : q # p => pty'[q] = pty[q] /\ made'[q] = made[q]
        /\ raced' = raced /\ rows' = rows \cup {p} /\ waits' = waits /\ rows \subseteq Panes
    BY <1>0, <1>2, <2>1 DEF Materialize, AskEnsure, TypeInv, LinkOK, PastOK, DbOK
  <2>5. Frame(j)
    BY <2>2, <2>3, <2>4 DEF Frame, Others, Spared
  <2>6. \E a \in {"ok", "fail"} : wire' = Append(wire, [to |-> j, ans |-> a])
    BY <1>2 DEF Materialize, AskEnsure, Answer
  <2>7. \A a \in {"ok", "fail"} : MsgOK([to |-> j, ans |-> a])'
    BY <1>0, <2>3 DEF MsgOK, Waiting, WaitPcs
  <2>8. ~Waiting(j)
    BY <2>1, Unasked
  <2> QED
    BY <1>0, <2>4, <2>5, <2>6, <2>7, <2>8, AnsAsks
<1>3. CASE Teardown(j)
  <2>1. job[j].pc = "teardown" /\ SameRows
    BY <1>3 DEF Teardown, SameRows, histVars
  <2>2. CASE job[j].pane \in rows
    <3>1. job[j].pane \in Panes
      BY <1>0, <2>2 DEF TypeInv, DbOK
    <3>2. job'[j].pc = "kill" /\ job'[j].pane = job[j].pane /\ Others(j)
      BY <1>0, <1>3, <2>2, MovedPc DEF Teardown, Others
    <3>3. AskKill(j, job[j].pane)
      BY <1>3, <2>2 DEF Teardown
    <3> QED
      BY <1>0, <2>1, <3>1, <3>2, <3>3, Unasked, AnsKill DEF KillPcs
  <2>3. CASE job[j].pane \notin rows
    <3>1. Others(j)
      BY <1>0, <1>3, <2>1, <2>3, GoesOnDoes DEF Teardown, Others
    <3> QED
      BY <1>0, <1>3, <2>1, <2>3, <3>1, QuietAns DEF Teardown
  <2> QED
    BY <2>2, <2>3
<1>4. CASE Materialized(j)
  <2>1. Others(j)
    BY <1>0, <1>4, ReturnDoes DEF Materialized, Others
  <2>2. Frame(j)
    BY <1>4, <2>1, FrameOf DEF Materialized, SameRows, dbVars, histVars
  <2> QED
    BY <1>0, <1>4, <2>2, AnsTakes DEF Materialized
<1>5. CASE TornDown(j)
  <2>1. Others(j)
    BY <1>0, <1>5, GoesOnDoes DEF TornDown, Delivers, Others
  <2>2. Frame(j)
    BY <1>5, <2>1, FrameOf DEF TornDown, SameRows, histVars
  <2> QED
    BY <1>0, <1>5, <2>2, AnsTakes DEF TornDown
<1> QED
  BY <1>1, <1>2, <1>3, <1>4, <1>5 DEF Registers

LEMMA RequestAns ==
  ASSUME RegInv, AnsInv, NEW j \in Requests, RequestStep(j)
  PROVE  AnsInv'
<1>0. TypeInv /\ j \in Jobs /\ j \in Regs
  BY JobNames DEF RegInv, Regs
<1>1. CASE Registers(j) \/ Materialized(j) \/ TornDown(j)
  BY <1>0, <1>1, RegisterAns
<1>2. CASE StartAgain(j)
  <2>1. Others(j)
    BY <1>0, <1>2, MovedPc, EndsDoes DEF StartAgain, Others
  <2> QED
    BY <1>0, <1>2, <2>1, QuietAns DEF StartAgain, SameRows, ptydVars, histVars
<1>3. CASE RemoveRow(j)
  <2>1. Others(j)
    BY <1>0, <1>3, EndsDoes DEF RemoveRow, Others
  <2> QED
    BY <1>0, <1>3, <2>1, QuietAns DEF RemoveRow, SameRows, ptydVars, histVars
<1>4. CASE PaneDeleted(j)
  <2>1. Others(j)
    BY <1>0, <1>4, EndsDoes DEF PaneDeleted, Others
  <2>2. Frame(j)
    BY <1>4, <2>1, FrameOf DEF PaneDeleted, SameRows
  <2> QED
    BY <1>0, <1>4, <2>2, AnsTakes DEF PaneDeleted
<1>5. CASE Rebuild(j)
  <2>0. \E r : job' = [job EXCEPT ![j] = r]
    BY <1>5, Zenon DEF Rebuild, Ends
  <2>1. Others(j)
    BY <1>0, <2>0, Moved DEF Others
  <2> QED
    BY <1>0, <1>5, <2>1, QuietAns DEF Rebuild, SameRows, ptydVars, histVars
<1>6. ASSUME NEW a \in Apps, PostApp(j, a) \/ Start(j, a) \/ Stop(j, a) \/ SeesRunning(j, a)
      PROVE  AnsInv'
  <2>1. PICK pc, p, next : Begins(j, a, pc, p, next)
    BY <1>6, Zenon DEF PostApp, Start, Stop, SeesRunning
  <2>2. Others(j) /\ raced \subseteq raced' /\ job[j] = Idle
    BY <2>1, BeginsAlone DEF Others
  <2>3. SameRows /\ UNCHANGED <<wire, waits, pty>>
    BY <1>6, <2>2 DEF PostApp, Start, Stop, SeesRunning, SameRows, dbVars, ptydVars
  <2> QED
    BY <1>0, <2>2, <2>3, IdleOrNone, QuietAns
<1>7. ASSUME NEW p \in Panes, DeletePane(j, p) PROVE AnsInv'
  <2>1. PICK a \in Apps : a = made[p]
    BY <1>7 DEF DeletePane, RegInv, MadeForApps
  <2>2. Begins(j, a, "delete", p, "idle") /\ AskKill(j, p)
    BY <1>7, <2>1 DEF DeletePane
  <2>3. /\ Others(j) /\ raced \subseteq raced' /\ job[j] = Idle
        /\ job'[j].pc = "delete" /\ job'[j].pane = p
    <3>1. /\ job'[j] = [pc |-> "delete", app |-> a, pane |-> p, next |-> "idle"]
          /\ raced \subseteq raced' /\ job[j] = Idle /\ Others(j)
      BY <2>2, BeginsAlone DEF Others
    <3> QED
      BY <3>1
  <2>4. SameRows
    BY <1>7, <2>3 DEF DeletePane, SameRows, dbVars
  <2> QED
    BY <1>0, <2>2, <2>3, <2>4, IdleOrNone, Unasked, AnsKill DEF KillPcs
<1> QED
  BY <1>1, <1>2, <1>3, <1>4, <1>5, <1>6, <1>7 DEF RequestStep

LEMMA ReconcileAns == ASSUME RegInv, AnsInv, ReconcileStep PROVE AnsInv'
<1>0. TypeInv /\ "reconcile" \in Jobs /\ "reconcile" \in Regs
  BY JobNames DEF RegInv, Regs
<1>1. CASE Registers("reconcile") \/ Materialized("reconcile") \/ TornDown("reconcile")
  BY <1>0, <1>1, RegisterAns
<1>2. CASE ReconcileRow
  <2>1. \/ UNCHANGED job
        \/ \E pc, s : Enters(pc, s)
    BY <1>2, Zenon DEF ReconcileRow
  <2>2. Others("reconcile")
    BY <1>0, <2>1, EntersDoes DEF Others
  <2> QED
    BY <1>0, <1>2, <2>2, QuietAns DEF ReconcileRow, SameRows, ptydVars
<1>3. CASE ReconcileEnds
  <2>1. Others("reconcile")
    BY <1>0, <1>3, EndsDoes DEF ReconcileEnds, Others
  <2> QED
    BY <1>0, <1>3, <2>1, QuietAns DEF ReconcileEnds, SameRows, dbVars, ptydVars, histVars
<1>4. CASE Reconcile
  <2>1. Others("reconcile") /\ raced \subseteq raced' /\ job["reconcile"].pc = "idle"
    BY <1>0, <1>4, MovedPc, IdleOrNone DEF Reconcile, Others, Overlaps
  <2> QED
    BY <1>0, <1>4, <2>1, QuietAns DEF Reconcile, SameRows, dbVars, ptydVars
<1> QED
  BY <1>1, <1>2, <1>3, <1>4 DEF ReconcileStep

-----------------------------------------------------------------------------
(* The queue of kills: what is in it, or in hand of the reaper, has no row. *)

DoomInv ==
  /\ doomed \cap rows = {}
  /\ job["reaper"].pc \in {"queue", "qkill"} => due \cap rows = {}
  /\ job["reaper"].pc \in {"qkill", "okill"} => job["reaper"].pane \notin rows

AppsInv == RegInv /\ AnsInv /\ DoomInv /\ TornDownStaysDown

LEMMA SweepIs == "sweep" \in Jobs /\ "sweep" \notin Regs /\ "reaper" \in Jobs /\ "reaper" \notin Regs
  BY JobNames DEF Regs

LEMMA SweepOthers ==
  ASSUME TypeInv, SweepStep
  PROVE  Others("sweep")
<1>1. job' = job \/ \E r : job' = [job EXCEPT !["sweep"] = r]
  BY DEF SweepStep, SweepSkips, SweepAsks, SweepEnds, Sweep, SweepUnsure, SweepAlive,
     SweepRests, SweepDead, SweepSpawned, SweepGoesOn, Ends, Goto, dbVars
<1> QED
  BY <1>1, Moved, SweepIs DEF Others

LEMMA SweepRows == ASSUME SweepStep PROVE SameRows /\ UNCHANGED <<rows, doomed, due, waits, byHand, raced>>
  BY DEF SweepStep, SweepSkips, SweepAsks, SweepEnds, Sweep, SweepUnsure, SweepAlive,
     SweepRests, SweepDead, SweepSpawned, SameRows, dbVars, passVars, ptydVars, histVars

LEMMA SweepGoesOnDoes == ASSUME TypeInv, SweepGoesOn PROVE job'["sweep"].pc = "look"
<1>1. job'["sweep"] = [Idle EXCEPT !.pc = "look"]
  BY Moved, SweepIs DEF SweepGoesOn
<1> QED
  BY <1>1 DEF Idle

(* The pane that is spawned is served, and so nobody's of the stopped apps. *)
LEMMA SelectedSpared ==
  ASSUME AppsInv, NEW p \in Panes, Selected(p) PROVE Spared("sweep", p)
<1> SUFFICES ASSUME NEW i \in Jobs \ {"sweep"}, job[i].pane = p
             PROVE  /\ ~(job[i].pc = "kill" /\ p \in rows /\ made[p] \notin raced)
                    /\ job[i].pc # "qkill" /\ i # "sweep"
  BY DEF Spared
<1>1. p \in rows /\ \A a \in Apps : ~(mode[a] = "off" /\ ptr[a] = p)
  BY DEF Selected, listServePanes
<1>2. JobIs(i, job[i]) /\ p # 0
  BY Numbers DEF AppsInv, RegInv, TypeInv, JobsOK
<1>3. job[i].pc # "qkill"
  <2>1. job[i].pc = "qkill" => i = "reaper"
    BY <1>2 DEF JobIs, RequestOK, ReconcileOK, Jobs
  <2> QED
    BY <1>1, <2>1 DEF AppsInv, DoomInv
<1>4. ASSUME job[i].pc = "kill", made[p] \notin raced PROVE FALSE
  <2>1. i \in Regs
    BY <1>2, <1>4 DEF JobIs, ReaperOK, SweepOK, Jobs, Regs
  <2>2. PICK a \in Apps : a = job[i].app
    BY <1>4, <2>1, HeldBy DEF AppsInv, RegInv
  <2>3. made[p] = a
    BY <1>2, <1>4, <2>1, <2>2 DEF AppsInv, RegInv, Owners, JobMade
  <2>4. Hold(i, a)
    BY <1>4, <2>2 DEF Hold
  <2>5. ptr[a] = p /\ mode[a] = "off"
    BY <1>4, <2>1, <2>3, <2>4, HoldsAlone DEF AppsInv
  <2> QED
    BY <1>1, <2>5
<1> QED
  BY <1>3, <1>4

LEMMA SweepAns == ASSUME AppsInv, SweepStep PROVE AnsInv'
<1>0. TypeInv /\ AnsInv /\ "sweep" \in Jobs /\ Others("sweep") /\ SameRows /\ waits' = waits
  BY SweepIs, SweepOthers, SweepRows DEF AppsInv, RegInv
<1>1. CASE SweepSkips \/ SweepEnds \/ Sweep
  <2>1. /\ job["sweep"].pc \in {"idle", "look"}
        /\ UNCHANGED <<wire, pty>>
    BY <1>1, IdleOrNone DEF SweepSkips, SweepEnds, Sweep, ptydVars
  <2> QED
    BY <1>0, <2>1, QuietAns
<1>2. CASE SweepAsks
  <2> DEFINE p == LeastOf(look)
             r == [job["sweep"] EXCEPT !.pc = "has", !.pane = p]
  <2>1. job["sweep"] \in JobRec /\ job["sweep"].pc = "look" /\ pty' = pty
    BY <1>0, <1>2 DEF TypeInv, JobsOK, SweepAsks
  <2>2. job'["sweep"] = r
    BY <1>0, <1>2 DEF SweepAsks, TypeInv, JobsOK
  <2>3. job'["sweep"].pc = "has" /\ job'["sweep"].pane = p
    BY <2>1, <2>2 DEF JobRec
  <2>4. PICK a \in {"fail", "no", "yes"} : /\ wire' = Append(wire, [to |-> "sweep", ans |-> a])
                                           /\ a = "no" => pty[p] = "none"
    BY <1>2 DEF SweepAsks, AskHas, Answer
  <2>5. Frame("sweep")
    BY <1>0, <2>1, FrameOf
  <2>6. MsgOK([to |-> "sweep", ans |-> a])'
    BY <1>0, <2>1, <2>3, <2>4 DEF MsgOK, Waiting, WaitPcs
  <2>7. ~Waiting("sweep")
    BY <2>1, Unasked
  <2> QED
    BY <1>0, <2>4, <2>5, <2>6, <2>7, AnsAsks
<1>3. CASE SweepUnsure \/ SweepAlive \/ SweepRests \/ SweepSpawned
  <2>1. /\ Delivers("sweep", "has") \/ Delivers("sweep", "spawn")
        /\ wire' = Tail(wire) /\ pty' = pty
    BY <1>3 DEF SweepUnsure, SweepAlive, SweepRests, SweepSpawned, Sees
  <2>2. Frame("sweep")
    BY <1>0, <2>1, FrameOf
  <2> QED
    BY <1>0, <2>1, <2>2, AnsTakes
<1>4. CASE SweepDead
  <2> DEFINE p == job["sweep"].pane
             rest == Tail(wire)
  <2>1. Delivers("sweep", "has") /\ job["sweep"].pc = "has" /\ p \in Panes
    BY <1>0, <1>4, WaitPane DEF SweepDead, Delivers
  <2>2. /\ In(rest) \subseteq In(wire) /\ Once(rest) /\ rest \in Seq(Msg)
        /\ \A m \in In(rest) : m.to # "sweep"
        /\ \A q \in Panes : "sweep" \notin In(waits[q])
    BY <1>0, <2>1, Arrived
  <2>3. CASE wire' = rest /\ pty' = pty
    <3>1. Frame("sweep")
      BY <1>0, <2>3, FrameOf
    <3> QED
      BY <1>0, <2>2, <2>3, <3>1, AnsCore
  <2>4. CASE /\ Selected(p) /\ Goto("sweep", "spawn")
             /\ pty' = pty \/ pty' = [pty EXCEPT ![p] = IF @ = "none" THEN "live" ELSE @]
             /\ \E a \in {"ok", "fail"} : wire' = Append(rest, [to |-> "sweep", ans |-> a])
    <3>1. Spared("sweep", p)
      BY <2>1, <2>4, SelectedSpared
    <3>2. \A q \in Panes : q # p => pty'[q] = pty[q]
      BY <1>0, <2>1, <2>4 DEF TypeInv, LinkOK
    <3>3. Frame("sweep")
      BY <1>0, <3>1, <3>2 DEF Frame, Others, SameRows
    <3>4. job'["sweep"].pc = "spawn"
      BY <1>0, <2>4, MovedPc
    <3>5. PICK a \in {"ok", "fail"} : wire' = Append(rest, [to |-> "sweep", ans |-> a])
      BY <2>4
    <3>6. PICK m : m = [to |-> "sweep", ans |-> a]
      OBVIOUS
    <3>7. m \in Msg /\ m.to = "sweep" /\ wire' = Append(rest, m) /\ MsgOK(m)'
      BY <1>0, <3>4, <3>5, <3>6 DEF MsgOK, Waiting, WaitPcs, Msg
    <3> QED
      BY <1>0, <2>2, <3>3, <3>7, AnsCore
  <2> QED
    BY <1>4, <2>3, <2>4 DEF SweepDead
<1> QED
  BY <1>1, <1>2, <1>3, <1>4 DEF SweepStep

LEMMA ReaperOthers ==
  ASSUME TypeInv, ReaperStep PROVE Others("reaper") /\ SameRows /\ rows' = rows
<1>1. job' = job \/ \E r : job' = [job EXCEPT !["reaper"] = r]
  BY DEF ReaperStep, ReapQueued, ReapOrphans, ReaperAnswered, Reap, ReaperKills, Ends, Goto
<1>2. Others("reaper")
  BY <1>1, Moved, SweepIs DEF Others
<1> QED
  BY <1>2 DEF ReaperStep, ReapQueued, ReapOrphans, ReaperAnswered, Reap, SameRows, dbVars, histVars

(* The reaper kills.                                                        *)
LEMMA ReaperKillsDoes ==
  ASSUME TypeInv, NEW p, NEW pc, ReaperKills(p, pc)
  PROVE  job'["reaper"].pc = pc /\ job'["reaper"].pane = p
<1>1. job["reaper"] \in JobRec /\ "reaper" \in Jobs
  BY SweepIs DEF TypeInv, JobsOK
<1>2. job'["reaper"] = [job["reaper"] EXCEPT !.pc = pc, !.pane = p]
  BY <1>1 DEF ReaperKills, TypeInv, JobsOK
<1> QED
  BY <1>1, <1>2 DEF JobRec

LEMMA ReaperAns == ASSUME AppsInv, ReaperStep PROVE AnsInv'
<1>0. TypeInv /\ AnsInv /\ "reaper" \in Jobs /\ Others("reaper") /\ SameRows
  BY SweepIs, ReaperOthers DEF AppsInv, RegInv
<1>1. CASE Reap
  BY <1>0, <1>1, IdleOrNone, QuietAns DEF Reap, ptydVars
<1>2. CASE ReaperAnswered
  <2>1. PICK pc : Delivers("reaper", pc)
    BY <1>2, Zenon DEF ReaperAnswered
  <2>2. wire' = Tail(wire) /\ pty' = pty /\ waits' = waits
    BY <1>2 DEF ReaperAnswered
  <2>3. Frame("reaper")
    BY <1>0, <2>2, FrameOf
  <2> QED
    BY <1>0, <2>1, <2>2, <2>3, AnsTakes
<1>3. ASSUME NEW p \in Panes, NEW pc \in {"qkill", "okill"}, ReaperKills(p, pc),
             job["reaper"].pc \in {"queue", "orphans"}
      PROVE  AnsInv'
  <2>1. job'["reaper"].pc = pc /\ job'["reaper"].pane = p /\ AskKill("reaper", p)
    BY <1>0, <1>3, ReaperKillsDoes DEF ReaperKills
  <2> QED
    BY <1>0, <1>3, <2>1, Unasked, AnsKill DEF KillPcs
<1>4. CASE ReapQueued
  <2>1. CASE due # {} /\ ReaperKills(LeastOf(due), "qkill")
    BY <1>0, <1>3, <1>4, <2>1, LeastDue DEF ReapQueued
  <2>2. CASE Answer("reaper", IF link THEN "ok" ELSE "fail") /\ Goto("reaper", "list") /\ UNCHANGED <<pty, waits>>
    <3>1. job'["reaper"].pc = "list"
      BY <1>0, <2>2, MovedPc
    <3>2. PICK a \in {"ok", "fail"} : wire' = Append(wire, [to |-> "reaper", ans |-> a])
      BY <2>2 DEF Answer
    <3>3. Frame("reaper")
      BY <1>0, <2>2, FrameOf
    <3>4. MsgOK([to |-> "reaper", ans |-> a])'
      BY <1>0, <3>1 DEF MsgOK, Waiting, WaitPcs
    <3>5. ~Waiting("reaper")
      BY <1>4, Unasked DEF ReapQueued
    <3> QED
      BY <1>0, <2>2, <3>2, <3>3, <3>4, <3>5, AnsAsks
  <2>3. CASE UNCHANGED <<wire, pty, waits>>
    BY <1>0, <1>4, <2>3, QuietAns DEF ReapQueued
  <2> QED
    BY <1>4, <2>1, <2>2, <2>3 DEF ReapQueued
<1>5. CASE ReapOrphans
  <2>1. CASE due # {} /\ ReaperKills(LeastOf(due), "okill")
    BY <1>0, <1>3, <1>5, <2>1, LeastDue DEF ReapOrphans
  <2>2. CASE UNCHANGED <<wire, pty, waits>>
    BY <1>0, <1>5, <2>2, QuietAns DEF ReapOrphans
  <2> QED
    BY <1>5, <2>1, <2>2 DEF ReapOrphans
<1> QED
  BY <1>1, <1>2, <1>4, <1>5 DEF ReaperStep

LEMMA AnsStep == ASSUME AppsInv, Next PROVE AnsInv'
<1>0. TypeInv /\ RegInv /\ AnsInv
  BY DEF AppsInv, RegInv
<1>1. CASE \E j \in Requests : RequestStep(j)
  BY <1>0, <1>1, RequestAns
<1>2. CASE ReconcileStep
  BY <1>0, <1>2, ReconcileAns
<1>3. CASE SweepStep \/ ReaperStep
  BY <1>3, SweepAns, ReaperAns
<1>4. CASE \E p \in Panes : PtyExits(p)
  BY <1>0, <1>4, ExitsAns
<1>5. CASE Connect
  BY <1>0, <1>5, IdleOrNone, FrameOf, AnsStays DEF Connect, Others, SameRows, dbVars, histVars, Waiting
<1>6. ASSUME NEW p \in Panes, ShellExits(p) PROVE AnsInv'
  <2>1. pty' = [pty EXCEPT ![p] = "none"] /\ pty \in [Panes -> {"none", "live", "dying"}]
    BY <1>0, <1>6 DEF ShellExits, TypeInv, LinkOK
  <2>2. Frame("none")
    BY <1>6, <2>1, FrameOf DEF ShellExits, Others, SameRows, dbVars
  <2> QED
    BY <1>0, <1>6, <2>2, IdleOrNone, AnsStays DEF ShellExits, Waiting
<1>7. CASE LinkDrops \/ PtydRestarts
  BY <1>0, <1>7, FailsAns DEF LinkDrops, PtydRestarts
<1>8. CASE ServerRestarts
  BY <1>8, RestartAns
<1> QED
  BY <1>1, <1>2, <1>3, <1>4, <1>5, <1>6, <1>7, <1>8, Steps

-----------------------------------------------------------------------------
(* The queue, and the ptys without a row, over every step.                  *)

LEMMA DoomKept ==
  ASSUME DoomInv, job'["reaper"] = job["reaper"], due' = due,
         \A q \in rows' : q \in rows \/ q \in Free,
         \A q \in doomed' : q \in doomed \/ q \notin rows'
  PROVE  DoomInv'
<1>1. \A q \in Free : q \notin doomed /\ q \notin due /\ job["reaper"].pane # q
  BY SweepIs DEF Free
<1> QED
  BY <1>1 DEF DoomInv

LEMMA DownKept ==
  ASSUME TornDownStaysDown, raced \subseteq raced',
         \A q \in Panes : pty'[q] = "live" =>
           /\ pty[q] = "live" \/ q \in rows'
           /\ q \notin rows' =>
                /\ made'[q] = made[q]
                /\ q \in rows => q \in doomed' \cup byHand' \/ made'[q] \in raced'
                /\ q \in doomed \cup byHand => q \in doomed' \cup byHand'
  PROVE  TornDownStaysDown'
BY DEF TornDownStaysDown

(* Steps that neither make nor drop a row, and start no pty.                *)
Untouched == /\ UNCHANGED <<rows, doomed, byHand, made>> /\ raced \subseteq raced'
             /\ \A q \in Panes : pty'[q] = "live" => pty[q] = "live"

LEMMA UntouchedKeeps ==
  ASSUME AppsInv, Untouched
  PROVE  /\ TornDownStaysDown'
         /\ job'["reaper"] = job["reaper"] /\ due' = due => DoomInv'
<1>1. TornDownStaysDown'
  BY DownKept DEF AppsInv, Untouched
<1>2. ASSUME job'["reaper"] = job["reaper"], due' = due PROVE DoomInv'
  BY <1>2, DoomKept DEF AppsInv, Untouched
<1> QED
  BY <1>1, <1>2

LEMMA KillStartsNothing ==
  ASSUME TypeInv, NEW j, NEW p, AskKill(j, p) PROVE \A q \in Panes : pty'[q] = "live" => pty[q] = "live"
<1>1. link \in BOOLEAN /\ pty \in [Panes -> {"none", "live", "dying"}]
  BY DEF TypeInv, LinkOK
<1>2. pty' = pty \/ pty' = [pty EXCEPT ![p] = "dying"]
  BY <1>1, AskKillDoes
<1> QED
  BY <1>1, <1>2

(* A pane's row goes with its pty, unless the kill is queued.               *)
LEMMA TornDownDown == ASSUME AppsInv, NEW j \in Regs, TornDown(j) PROVE DoomInv' /\ TornDownStaysDown'
<1> DEFINE p == job[j].pane
<1>0. TypeInv /\ AnsInv /\ j \in Jobs /\ RegInv
  BY RegJobs DEF AppsInv, RegInv
<1>1. Delivers(j, "kill") /\ job[j].pc = "kill" /\ p \in Panes
  BY <1>0, HeldBy DEF TornDown, Delivers
<1>2. Head(wire) \in Msg /\ Head(wire).to = j /\ MsgOK(Head(wire))
  BY <1>0, <1>1, Arrived
<1>3. /\ rows' = rows \ {p} /\ due' = due /\ pty' = pty
      /\ doomed' = IF Head(wire).ans = "fail" THEN doomed \cup {p} ELSE doomed
      /\ UNCHANGED <<made, raced, byHand>> /\ GoesOn(j)
  BY DEF TornDown, passVars, histVars
<1>4. job'["reaper"] = job["reaper"]
  BY <1>0, <1>1, <1>3, GoesOnDoes, SweepIs
<1>5. DoomInv'
  BY <1>3, <1>4, DoomKept DEF AppsInv
<1>6. Head(wire).ans \in {"ok", "fail"}
  BY <1>2, SweepIs DEF MsgOK, Msg
<1>7. Head(wire).ans = "ok" /\ p \in rows /\ made[p] \notin raced => pty[p] # "live"
  BY <1>1, <1>2 DEF MsgOK
<1>8. TornDownStaysDown'
  BY <1>3, <1>6, <1>7, DownKept DEF AppsInv
<1> QED
  BY <1>5, <1>8

LEMMA RegistersDown == ASSUME AppsInv, NEW j \in Regs, Registers(j) \/ Materialized(j) PROVE DoomInv' /\ TornDownStaysDown'
<1>0. TypeInv /\ j \in Jobs /\ j # "reaper"
  BY RegJobs, SweepIs DEF AppsInv, RegInv
<1>1. CASE MaterializeSkips(j) \/ Materialized(j)
  <2>0. Return(j) /\ Untouched /\ due' = due
    BY <1>1 DEF MaterializeSkips, Materialized, Untouched, dbVars, passVars, ptydVars, histVars
  <2>1. job'["reaper"] = job["reaper"]
    BY <1>0, <2>0, ReturnDoes, SweepIs
  <2> QED
    BY <2>0, <2>1, UntouchedKeeps
<1>2. CASE Teardown(j)
  <2>1. UNCHANGED <<rows, doomed, byHand, made, raced, due>>
    BY <1>2 DEF Teardown, passVars, histVars
  <2>2. \A q \in Panes : pty'[q] = "live" => pty[q] = "live"
    BY <1>0, <1>2, KillStartsNothing DEF Teardown
  <2>3. job'["reaper"] = job["reaper"]
    BY <1>0, <1>2, MovedPc, GoesOnDoes, SweepIs DEF Teardown
  <2> QED
    BY <2>1, <2>2, <2>3, UntouchedKeeps DEF Untouched
<1>3. CASE Materialize(j)
  <2> DEFINE p == LeastOf(Free)
  <2>1. p \in Free /\ p \in Panes
    BY <1>3, FreeIs DEF Materialize
  <2>2. /\ rows' = rows \cup {p} /\ made' = [made EXCEPT ![p] = job[j].app] /\ byHand' = byHand \ {p}
        /\ UNCHANGED <<doomed, due, raced>>
        /\ made \in [Panes -> Apps \cup {0}]
    BY <1>0, <1>3 DEF Materialize, passVars, TypeInv, PastOK
  <2>3. \A q \in Panes : q # p => pty'[q] = pty[q] /\ made'[q] = made[q]
    BY <1>0, <1>3, <2>1, <2>2 DEF Materialize, AskEnsure, TypeInv, LinkOK
  <2>4. job'["reaper"] = job["reaper"]
    BY <1>0, <1>3, MovedPc, SweepIs DEF Materialize
  <2>5. p \notin doomed
    BY <2>1 DEF Free
  <2>6. DoomInv'
    BY <2>1, <2>2, <2>4, <2>5, DoomKept DEF AppsInv
  <2>7. TornDownStaysDown'
    BY <2>2, <2>3, DownKept DEF AppsInv
  <2> QED
    BY <2>6, <2>7
<1> QED
  BY <1>1, <1>2, <1>3 DEF Registers

LEMMA RequestDown == ASSUME AppsInv, NEW j \in Requests, RequestStep(j) PROVE DoomInv' /\ TornDownStaysDown'
<1>0. TypeInv /\ RegInv /\ AnsInv /\ j \in Jobs /\ j \in Regs /\ j # "reaper"
  BY JobNames DEF AppsInv, RegInv, Regs
<1>1. CASE Registers(j) \/ Materialized(j) \/ TornDown(j)
  BY <1>0, <1>1, RegistersDown, TornDownDown
<1>2. CASE StartAgain(j) \/ RemoveRow(j) \/ Rebuild(j)
  <2>0. \E r : job' = [job EXCEPT ![j] = r]
    BY <1>2, Zenon DEF StartAgain, RemoveRow, Rebuild, Ends, Goto
  <2>1. job'["reaper"] = job["reaper"]
    BY <1>0, <2>0, Moved, SweepIs
  <2>2. Untouched /\ due' = due
    BY <1>2 DEF StartAgain, RemoveRow, Rebuild, Untouched, passVars, ptydVars, histVars
  <2> QED
    BY <2>1, <2>2, UntouchedKeeps
<1>3. ASSUME NEW a \in Apps, PostApp(j, a) \/ Start(j, a) \/ Stop(j, a) \/ SeesRunning(j, a)
      PROVE  DoomInv' /\ TornDownStaysDown'
  <2>1. PICK pc, p, next : Begins(j, a, pc, p, next)
    BY <1>3, Zenon DEF PostApp, Start, Stop, SeesRunning
  <2>2. job'["reaper"] = job["reaper"] /\ raced \subseteq raced'
    BY <1>0, <2>1, BeginsAlone, SweepIs
  <2>3. Untouched /\ due' = due
    BY <1>3, <2>2 DEF PostApp, Start, Stop, SeesRunning, Untouched, dbVars, passVars, ptydVars
  <2> QED
    BY <2>2, <2>3, UntouchedKeeps
<1>4. ASSUME NEW p \in Panes, DeletePane(j, p) PROVE DoomInv' /\ TornDownStaysDown'
  <2>1. PICK a \in Apps : a = made[p]
    BY <1>0, <1>4 DEF DeletePane, RegInv, MadeForApps
  <2>2. Begins(j, a, "delete", p, "idle") /\ AskKill(j, p)
    BY <1>4, <2>1 DEF DeletePane
  <2>3. job'["reaper"] = job["reaper"] /\ raced \subseteq raced'
    BY <1>0, <2>2, BeginsAlone, SweepIs
  <2>4. Untouched /\ due' = due
    BY <1>0, <1>4, <2>2, <2>3, KillStartsNothing DEF DeletePane, Untouched, dbVars, passVars
  <2> QED
    BY <2>3, <2>4, UntouchedKeeps
<1>5. CASE PaneDeleted(j)
  <2> DEFINE p == job[j].pane
  <2>1. /\ rows' = rows \ {p} /\ byHand' = byHand \cup {p} /\ UNCHANGED <<due, pty, made, raced>>
        /\ doomed' = doomed \cup {p} \/ doomed' = doomed
    BY <1>5 DEF PaneDeleted, passVars
  <2>2. job'["reaper"] = job["reaper"]
    BY <1>0, <1>5, EndsDoes, SweepIs DEF PaneDeleted
  <2>3. DoomInv'
    BY <2>1, <2>2, DoomKept DEF AppsInv
  <2>4. TornDownStaysDown'
    BY <2>1, DownKept DEF AppsInv
  <2> QED
    BY <2>3, <2>4
<1> QED
  BY <1>1, <1>2, <1>3, <1>4, <1>5 DEF RequestStep

LEMMA ReconcileDown == ASSUME AppsInv, ReconcileStep PROVE DoomInv' /\ TornDownStaysDown'
<1>0. TypeInv /\ "reconcile" \in Regs /\ "reconcile" \in Jobs
  BY JobNames DEF AppsInv, RegInv, Regs
<1>1. CASE Registers("reconcile") \/ Materialized("reconcile") \/ TornDown("reconcile")
  BY <1>0, <1>1, RegistersDown, TornDownDown
<1>2. CASE ReconcileRow \/ ReconcileEnds \/ Reconcile
  <2>1. job' = job \/ \E r : job' = [job EXCEPT !["reconcile"] = r]
    BY <1>2 DEF ReconcileRow, ReconcileEnds, Reconcile, Enters, Ends, Goto
  <2>2. job'["reaper"] = job["reaper"]
    BY <1>0, <2>1, Moved, SweepIs
  <2>3. Untouched /\ due' = due
    BY <1>2 DEF ReconcileRow, ReconcileEnds, Reconcile, Untouched, Overlaps, dbVars, passVars, ptydVars, histVars
  <2> QED
    BY <2>2, <2>3, UntouchedKeeps
<1> QED
  BY <1>1, <1>2 DEF ReconcileStep

LEMMA SweepDown == ASSUME AppsInv, SweepStep PROVE DoomInv' /\ TornDownStaysDown'
<1>0. TypeInv /\ job'["reaper"] = job["reaper"] /\ UNCHANGED <<rows, doomed, due, byHand, made, raced>>
  BY SweepIs, SweepOthers, SweepRows DEF AppsInv, RegInv, Others, SameRows
<1>1. \A q \in Panes : pty'[q] = "live" => pty[q] = "live" \/ q \in rows
  <2>1. CASE SweepDead
    <3> DEFINE p == job["sweep"].pane
    <3>1. \/ pty' = pty
          \/ pty' = [pty EXCEPT ![p] = IF @ = "none" THEN "live" ELSE @] /\ p \in rows
      BY <2>1 DEF SweepDead, Selected, listServePanes
    <3> QED
      BY <1>0, <3>1 DEF TypeInv, LinkOK
  <2>2. CASE ~SweepDead
    <3>1. pty' = pty
      BY <2>2 DEF SweepStep, SweepSkips, SweepAsks, SweepEnds, Sweep, SweepUnsure, SweepAlive,
          SweepRests, SweepSpawned, ptydVars
    <3> QED
      BY <3>1
  <2> QED
    BY <2>1, <2>2
<1>2. DoomInv'
  BY <1>0, DoomKept DEF AppsInv
<1>3. TornDownStaysDown'
  BY <1>0, <1>1, DownKept DEF AppsInv
<1> QED
  BY <1>2, <1>3

LEMMA ReaperDown == ASSUME AppsInv, ReaperStep PROVE DoomInv' /\ TornDownStaysDown'
<1>0. TypeInv /\ AnsInv /\ DoomInv /\ SameRows /\ rows' = rows /\ "reaper" \in Jobs /\ job["reaper"] \in JobRec
  BY SweepIs, ReaperOthers DEF AppsInv, RegInv, TypeInv, JobsOK
<1>1. byHand' = byHand
  BY DEF ReaperStep, ReapQueued, ReapOrphans, ReaperAnswered, Reap, histVars
<1>2. CASE Reap
  <2>1. Untouched /\ due' = doomed /\ doomed' = doomed
    BY <1>0, <1>1, <1>2 DEF Reap, Untouched, SameRows, dbVars, ptydVars
  <2>2. job'["reaper"].pc = "queue"
    BY <1>0, <1>2, MovedPc DEF Reap
  <2> QED
    BY <1>0, <2>1, <2>2, UntouchedKeeps DEF DoomInv
<1>3. ASSUME NEW p \in Panes, NEW pc \in {"qkill", "okill"}, ReaperKills(p, pc), p \notin rows,
             doomed' = doomed, job["reaper"].pc = "queue" \/ pc = "okill"
      PROVE  DoomInv' /\ TornDownStaysDown'
  <2>1. job'["reaper"].pc = pc /\ job'["reaper"].pane = p /\ AskKill("reaper", p) /\ due' = due \ {p}
    BY <1>0, <1>3, ReaperKillsDoes DEF ReaperKills
  <2>2. Untouched
    BY <1>0, <1>1, <1>3, <2>1, KillStartsNothing DEF Untouched, SameRows
  <2> QED
    BY <1>0, <1>3, <2>1, <2>2, UntouchedKeeps DEF DoomInv
<1>4. CASE ReapQueued
  <2>0. doomed' = doomed /\ job["reaper"].pc = "queue"
    BY <1>4 DEF ReapQueued, dbVars
  <2>1. CASE due # {} /\ ReaperKills(LeastOf(due), "qkill")
    <3>1. LeastOf(due) \in Panes /\ LeastOf(due) \notin rows
      BY <1>0, <2>0, <2>1, LeastDue DEF DoomInv
    <3> QED
      BY <1>3, <2>0, <2>1, <3>1
  <2>2. CASE Goto("reaper", "list") /\ UNCHANGED <<pty, waits>>
    <3>1. job'["reaper"].pc = "list"
      BY <1>0, <2>2, MovedPc
    <3>2. Untouched
      BY <1>0, <1>1, <2>0, <2>2 DEF Untouched, SameRows
    <3> QED
      BY <1>0, <2>0, <3>1, <3>2, UntouchedKeeps DEF DoomInv
  <2>3. CASE Ends("reaper") /\ UNCHANGED <<due, relist, wire, pty, waits>>
    <3>1. job'["reaper"].pc = "idle"
      BY <1>0, <2>3, EndsDoes
    <3>2. Untouched
      BY <1>0, <1>1, <2>0, <2>3 DEF Untouched, SameRows
    <3> QED
      BY <1>0, <2>0, <3>1, <3>2, UntouchedKeeps DEF DoomInv
  <2> QED
    BY <1>4, <2>1, <2>2, <2>3 DEF ReapQueued
<1>5. CASE ReapOrphans
  <2>0. doomed' = doomed /\ job["reaper"].pc = "orphans"
    BY <1>5 DEF ReapOrphans, dbVars
  <2>1. CASE due # {} /\ LeastOf(due) \notin rows /\ ReaperKills(LeastOf(due), "okill")
    BY <1>0, <1>3, <2>0, <2>1, LeastDue
  <2>2. CASE UNCHANGED <<job, wire, pty, waits>>
    <3>1. Untouched
      BY <1>0, <1>1, <2>0, <2>2 DEF Untouched, SameRows
    <3> QED
      BY <1>0, <2>0, <2>2, <3>1, UntouchedKeeps DEF DoomInv
  <2>3. CASE Ends("reaper") /\ UNCHANGED <<due, wire, pty, waits>>
    <3>1. job'["reaper"].pc = "idle"
      BY <1>0, <2>3, EndsDoes
    <3>2. Untouched
      BY <1>0, <1>1, <2>0, <2>3 DEF Untouched, SameRows
    <3> QED
      BY <1>0, <2>0, <3>1, <3>2, UntouchedKeeps DEF DoomInv
  <2> QED
    BY <1>5, <2>1, <2>2, <2>3 DEF ReapOrphans
<1>6. CASE ReaperAnswered
  <2> DEFINE p == job["reaper"].pane
             ok == Head(wire).ans = "ok"
  <2>0. pty' = pty /\ made' = made /\ raced \subseteq raced'
    BY <1>0, <1>6 DEF ReaperAnswered, SameRows
  <2>1. CASE /\ Delivers("reaper", "qkill")
             /\ doomed' = IF ok THEN doomed \ {p} ELSE doomed
             /\ job' = [job EXCEPT !["reaper"].pc = "queue", !["reaper"].pane = 0]
             /\ due' = due
    <3>1. job["reaper"].pc = "qkill" /\ MsgOK(Head(wire)) /\ Head(wire).to = "reaper"
      BY <1>0, <2>1, Arrived
    <3>2. ok => pty[p] # "live"
      BY <3>1 DEF MsgOK
    <3>3. job'["reaper"].pc = "queue"
      BY <1>0, <2>1 DEF TypeInv, JobsOK, JobRec
    <3>4. DoomInv'
      BY <1>0, <2>1, <3>1, <3>3 DEF DoomInv
    <3>5. TornDownStaysDown'
      BY <1>0, <1>1, <2>0, <2>1, <3>2, DownKept DEF AppsInv
    <3> QED
      BY <3>4, <3>5
  <2>2. CASE /\ Delivers("reaper", "okill")
             /\ doomed' = IF ok THEN doomed ELSE doomed \cup {p}
             /\ job' = [job EXCEPT !["reaper"].pc = "orphans", !["reaper"].pane = 0]
             /\ due' = due
    <3>1. job["reaper"].pc = "okill"
      BY <2>2 DEF Delivers
    <3>2. job'["reaper"].pc = "orphans"
      BY <1>0, <2>2 DEF TypeInv, JobsOK, JobRec
    <3>3. DoomInv'
      BY <1>0, <2>2, <3>1, <3>2 DEF DoomInv
    <3>4. TornDownStaysDown'
      BY <1>0, <1>1, <2>0, <2>2, DownKept DEF AppsInv
    <3> QED
      BY <3>3, <3>4
  <2>3. CASE Goto("reaper", "orphans") /\ doomed' = doomed
    <3>1. job'["reaper"].pc = "orphans"
      BY <1>0, <2>3, MovedPc
    <3>2. DoomInv'
      BY <1>0, <2>3, <3>1 DEF DoomInv
    <3>3. TornDownStaysDown'
      BY <1>0, <1>1, <2>0, <2>3, DownKept DEF AppsInv
    <3> QED
      BY <3>2, <3>3
  <2> QED
    BY <1>6, <2>1, <2>2, <2>3 DEF ReaperAnswered
<1> QED
  BY <1>2, <1>4, <1>5, <1>6 DEF ReaperStep

LEMMA DownStep == ASSUME AppsInv, Next PROVE DoomInv' /\ TornDownStaysDown'
<1>0. TypeInv /\ pty \in [Panes -> {"none", "live", "dying"}]
  BY DEF AppsInv, RegInv, TypeInv, LinkOK
<1>1. CASE \E j \in Requests : RequestStep(j)
  BY <1>1, RequestDown
<1>2. CASE ReconcileStep \/ SweepStep \/ ReaperStep
  BY <1>2, ReconcileDown, SweepDown, ReaperDown
<1>3. CASE \/ (\E p \in Panes : PtyExits(p)) \/ Connect
           \/ (\E p \in Panes : ShellExits(p)) \/ LinkDrops \/ PtydRestarts
  <2>1. UNCHANGED <<job, rows, doomed, byHand, made, raced, due>>
    BY <1>3 DEF PtyExits, Connect, ShellExits, LinkDrops, PtydRestarts, dbVars, passVars, histVars
  <2>2. pty' = pty \/ pty' = [p \in Panes |-> "none"] \/ \E p \in Panes : pty' = [pty EXCEPT ![p] = "none"]
    BY <1>3 DEF PtyExits, Connect, ShellExits, LinkDrops, PtydRestarts
  <2>3. Untouched
    BY <1>0, <2>1, <2>2 DEF Untouched
  <2> QED
    BY <2>1, <2>3, UntouchedKeeps
<1>4. CASE ServerRestarts
  <2>1. Untouched /\ doomed' = doomed /\ rows' = rows
    BY <1>4 DEF ServerRestarts, Untouched, dbVars
  <2>2. job'["reaper"].pc = "idle"
    BY <1>4, SweepIs, IdleOrNone DEF ServerRestarts
  <2> QED
    BY <2>1, <2>2, UntouchedKeeps DEF DoomInv, AppsInv
<1> QED
  BY <1>1, <1>2, <1>3, <1>4, Steps

-----------------------------------------------------------------------------
(* The invariant, and what follows from it.                                 *)

LEMMA AppsInit == Init => AppsInv
<1> SUFFICES ASSUME Init PROVE AppsInv
  OBVIOUS
<1>1. RegInv
  BY RegInit
<1>2. PICK On \in SUBSET Apps : /\ rows = On
                                /\ pty = [p \in Panes |-> IF p \in On THEN "live" ELSE "none"]
                                /\ job = [j \in Jobs |-> Idle] /\ doomed = {} /\ due = {}
                                /\ wire = <<>> /\ waits = [p \in Panes |-> <<>>]
  BY Zenon DEF Init
<1>3. AnsInv
  BY <1>2, NothingIn DEF AnsInv, WaitOK
<1>4. job["reaper"].pc = "idle" /\ doomed \cap rows = {}
  BY <1>2, SweepIs, IdleOrNone
<1>5. DoomInv
  BY <1>2, <1>4 DEF DoomInv
<1>6. TornDownStaysDown
  BY <1>2 DEF TornDownStaysDown
<1> QED
  BY <1>1, <1>3, <1>5, <1>6 DEF AppsInv

LEMMA AppsStep == AppsInv /\ [Next]_vars => AppsInv'
<1> SUFFICES ASSUME AppsInv, [Next]_vars PROVE AppsInv'
  OBVIOUS
<1>0. RegInv /\ TypeInv /\ AnsInv
  BY DEF AppsInv, RegInv
<1>1. RegInv'
  BY <1>0, RegStep, RegStutters
<1>2. CASE Next
  BY <1>1, <1>2, AnsStep, DownStep DEF AppsInv
<1>3. CASE UNCHANGED vars
  <2>1. /\ UNCHANGED <<job, wire, waits, pty, rows, doomed, due, byHand, made, raced>>
    BY <1>3 DEF vars, dbVars, passVars, ptydVars, histVars
  <2>2. AnsInv'
    BY <1>0, <2>1, IdleOrNone, FrameOf, AnsStays DEF Others, SameRows, Waiting
  <2>3. DoomInv' /\ TornDownStaysDown'
    BY <2>1, UntouchedKeeps DEF Untouched
  <2> QED
    BY <1>1, <2>2, <2>3 DEF AppsInv
<1> QED
  BY <1>2, <1>3

(* A stopped or removed app's pty that runs without a row is queued for    *)
(* the reaper, at every await and over every restart of either server and  *)
(* every lost kill, as long as no two activities of the registry have      *)
(* overlapped on the app and nobody took its row by the pane route.        *)
THEOREM StoppedAreReaped == Spec => []TornDownStaysDown
<1>1. AppsInv => TornDownStaysDown
  BY DEF AppsInv
<1> QED
  BY AppsInit, AppsStep, <1>1, PTL DEF Spec

(* What a pass of the supervisor counts against a pane.                     *)
LEMMA Counts ==
  ASSUME AppsInv, [Next]_vars, NEW p \in Panes, st'[p].attempts > st[p].attempts
  PROVE  pty[p] = "none"
<1>0. TypeInv /\ AnsInv /\ "sweep" \in Jobs /\ st \in [Panes -> StRec]
  BY SweepIs DEF AppsInv, RegInv, TypeInv, SuperOK
<1>1. st[p].attempts \in Nat /\ st[p] \in StRec
  BY <1>0, Numbers DEF StRec
<1>2. st'[p] # st[p]
  BY <1>1
<1>3. CASE SweepDead
  <2> DEFINE q == job["sweep"].pane
  <2>1. Delivers("sweep", "has") /\ Head(wire).ans = "no"
    BY <1>3 DEF SweepDead, Means
  <2>2. MsgOK(Head(wire))
    BY <1>0, <2>1, Arrived
  <2>3. pty[q] = "none"
    BY <2>1, <2>2 DEF MsgOK
  <2>4. p # q => st'[p] = st[p]
    BY <1>0, <1>3 DEF SweepDead
  <2> QED
    BY <1>2, <2>3, <2>4
<1>4. CASE Sweep \/ SweepUnsure \/ SweepAlive \/ SweepRests \/ ServerRestarts
  <2>1. \/ st'[p] = Fresh \/ st'[p] = st[p]
        \/ \E b \in BOOLEAN : st'[p] = [st[p] EXCEPT !.alive = b]
    BY <1>0, <1>4 DEF Sweep, SweepUnsure, SweepAlive, SweepRests, ServerRestarts
  <2>2. \A b \in BOOLEAN : [st[p] EXCEPT !.alive = b].attempts = st[p].attempts
    BY <1>1 DEF StRec
  <2>3. st'[p].attempts = 0 \/ st'[p].attempts = st[p].attempts
    BY <2>1, <2>2, FreshIs
  <2> QED
    BY <1>1, <2>3
<1>5. CASE ~SweepDead /\ ~(Sweep \/ SweepUnsure \/ SweepAlive \/ SweepRests \/ ServerRestarts)
  <2>1. CASE UNCHANGED vars
    BY <1>2, <2>1 DEF vars, superVars
  <2>2. CASE SweepStep
    BY <1>2, <1>5, <2>2 DEF SweepStep, SweepSkips, SweepAsks, SweepEnds, SweepSpawned, superVars
  <2>3. CASE \E j \in Requests : RequestStep(j)
    <3>1. PICK j \in Requests : RequestStep(j)
      BY <2>3
    <3>2. st' = st
      BY <3>1, Zenon DEF RequestStep, Registers, MaterializeSkips, Materialize, Materialized, Teardown,
         TornDown, StartAgain, RemoveRow, PostApp, Start, Stop, SeesRunning, Rebuild, DeletePane,
         PaneDeleted, superVars
    <3> QED
      BY <1>2, <3>2
  <2>4. CASE ReconcileStep
    <3>1. st' = st
      BY <2>4, Zenon DEF ReconcileStep, Registers, MaterializeSkips, Materialize, Materialized, Teardown,
         TornDown, ReconcileRow, ReconcileEnds, Reconcile, superVars
    <3> QED
      BY <1>2, <3>1
  <2>5. CASE \/ ReaperStep \/ (\E q \in Panes : PtyExits(q)) \/ Connect
             \/ (\E q \in Panes : ShellExits(q)) \/ LinkDrops \/ PtydRestarts
    <3>1. st' = st
      BY <2>5, Zenon DEF ReaperStep, ReapQueued, ReapOrphans, ReaperAnswered, Reap, PtyExits, Connect,
         ShellExits, LinkDrops, PtydRestarts, superVars
    <3> QED
      BY <1>2, <3>1
  <2> QED
    BY <1>5, <2>1, <2>2, <2>3, <2>4, <2>5, Steps
<1> QED
  BY <1>3, <1>4, <1>5

(* The supervisor counts a respawn against a pane whose pty is gone and    *)
(* against no other, whatever is on its way when the answer comes: an      *)
(* outage of ptyd costs no app its budget.                                 *)
THEOREM OutagesAreFree == Spec => OnlyTheDeadAreCounted
<1> DEFINE Count == \A p \in Panes : st'[p].attempts > st[p].attempts => pty[p] = "none"
<1>1. AppsInv /\ [Next]_vars => Count
  BY Counts
<1>2. AppsInv /\ [Next]_vars => [Count]_vars
  BY <1>1
<1> QED
  BY AppsInit, AppsStep, <1>2, PTL DEF Spec, OnlyTheDeadAreCounted

===============================================================================
