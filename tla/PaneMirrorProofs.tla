--------------------------- MODULE PaneMirrorProofs ---------------------------
(***************************************************************************)
(* Theorems about PaneMirror, for any titles and commands, any bound on    *)
(* the frames and any number of faults: types, the timer behind every      *)
(* spinner, and that the bell and the command shown are those of the pane  *)
(* whenever nothing is on its way.                                         *)
(***************************************************************************)
EXTENDS PaneMirror, TLAPS

(* Frames that say what has become of a field, and what they say.          *)
Carries(f, m)   == m.what \in {f, "exit"}
Tells(f, m)     == IF m.what = "exit" THEN Blank[f] ELSE m.v
Hushed(f, w)    == \A i \in DOMAIN w : ~Carries(f, w[i])
Newest(f, w, i) == /\ i \in DOMAIN w /\ Carries(f, w[i])
                   /\ \A j \in DOMAIN w : j > i => ~Carries(f, w[j])

(* Was the field announced since the snapshot was asked for, what does a   *)
(* snapshot say of it, and what is it?                                     *)
Touched(f)  == f \in raced \/ "exit" \in raced
Shows(f, p) == IF p = Null THEN Blank[f] ELSE p[f]
Truth(f)    == IF run = "none" THEN Blank[f] ELSE Picture[f]

(* ptyd owes the server nothing: it has said the field, or has nothing to  *)
(* say.  A title that comes and goes between two polls is never announced, *)
(* though a snapshot may have caught it: nothing is promised of a title    *)
(* while the pane lives.                                                   *)
Told(f) == \/ run = "none"
           \/ /\ f # "title"
              /\ said[f] = Picture[f] \/ (said[f] = Unset /\ Picture[f] = Blank[f])

(* What ptyd has said of the command and the bell is true, or it has said  *)
(* nothing yet: and then the bell does not ring.                           *)
SaidHolds ==
  ~slipped =>
    IF run = "none" THEN said = Silent
    ELSE /\ \A f \in {"fg", "bell"} : said[f] = Picture[f] \/ said[f] = Unset
         /\ said.bell = Unset => own.bell = FALSE

(* The snapshot is on the wire when it has been taken, once.               *)
WireHolds ==
  /\ ~link => wire = <<>> /\ snap = "idle"
  /\ snap = "idle" => raced = {}
  /\ \A i \in DOMAIN wire : wire[i].what = "decos" => snap = "taken"
  /\ \A i, j \in DOMAIN wire : wire[i].what = "decos" /\ wire[j].what = "decos" => i = j

(* The truth about a field is the last thing the wire will say of it; if   *)
(* it says nothing, the cache has it already, or the snapshot brings it.   *)
Comes(f) ==
  link /\ ~slipped /\ Told(f) =>
    /\ \A i \in DOMAIN wire : Newest(f, wire, i) => Tells(f, wire[i]) = Truth(f)
    /\ Hushed(f, wire) /\ (snap = "idle" \/ Touched(f)) => mirror[f] = Truth(f)
    /\ Hushed(f, wire) /\ ~Touched(f) =>
         /\ \A i \in DOMAIN wire : wire[i].what = "decos" => Shows(f, wire[i].v) = Truth(f)
         /\ snap = "here" => Shows(f, held) = Truth(f)

IInv == TypeOK /\ SaidHolds /\ WireHolds /\ \A f \in Fields : Comes(f)

-----------------------------------------------------------------------------
(* Types *)

(* What is sent stays within the frames and the bound.                     *)
LEMMA SendType ==
  ASSUME TypeOK, NEW frames \in Seq(Frames), Send(frames)
  PROVE  wire' \in Seq(Frames) /\ Len(wire') <= MaxWire
<1>1. wire \in Seq(Frames) /\ Len(wire) <= MaxWire BY DEF TypeOK
<1>2. /\ wire \o frames \in Seq(Frames)
      /\ Len(wire \o frames) = Len(wire) + Len(frames)
  BY <1>1
<1> QED BY <1>1, <1>2 DEF Send

LEMMA PictureType == TypeOK => Picture \in Pictures
BY DEF TypeOK, Picture, Pictures

(* What emitDecorations says are frames.                                   *)
LEMMA SaysType ==
  ASSUME NEW p \in Pictures, NEW f \in Fields
  PROVE  Says(p, f) \in Seq(Frames)
<1>1. Frame(f, p[f]) \in Frames BY DEF Pictures, Fields, Frame, Frames
<1> QED BY <1>1 DEF Says

LEMMA AnnounceType ==
  ASSUME TypeOK, NEW p \in Pictures, Announce(p)
  PROVE  /\ said' = p
         /\ said' \in [title : {Null, Unset} \cup Titles, fg : {Null, Unset} \cup Cmds,
                       bell : {Unset} \cup BOOLEAN]
         /\ wire' \in Seq(Frames) /\ Len(wire') <= MaxWire
<1>1. /\ Says(p, "title") \in Seq(Frames) /\ Says(p, "fg") \in Seq(Frames)
      /\ Says(p, "bell") \in Seq(Frames)
  BY SaysType DEF Fields
<1>2. Says(p, "title") \o Says(p, "fg") \o Says(p, "bell") \in Seq(Frames) BY <1>1
<1>3. wire' \in Seq(Frames) /\ Len(wire') <= MaxWire BY <1>2, SendType DEF Announce
<1> QED BY <1>3 DEF Announce, Pictures

LEMMA HeadType ==
  ASSUME TypeOK, NEW what, Hear(what)
  PROVE  /\ Head1 \in Frames /\ Head1.what = what
         /\ wire' \in Seq(Frames) /\ Len(wire') <= MaxWire /\ Len(wire') = Len(wire) - 1
         /\ wire' = Tail(wire)
<1>1. wire \in Seq(Frames) /\ wire # <<>> /\ Len(wire) <= MaxWire BY DEF TypeOK, Hear
<1>2. MaxWire \in Nat BY MirrorAssumption
<1> QED BY <1>1, <1>2 DEF Hear, Head1

LEMMA TypeInit == Init => TypeOK
<1> SUFFICES ASSUME Init PROVE TypeOK OBVIOUS
<1>1. MaxWire \in Nat /\ MaxFaults \in Nat BY MirrorAssumption
<1>2. wire \in Seq(Frames) /\ Len(wire) <= MaxWire BY <1>1 DEF Init
<1>3. /\ run \in {"none", "live", "dying"}
      /\ own \in [title : {Null} \cup Titles, bell : BOOLEAN] /\ fg \in {Null} \cup Cmds
      /\ said \in [title : {Null, Unset} \cup Titles, fg : {Null, Unset} \cup Cmds,
                   bell : {Unset} \cup BOOLEAN]
  <2>1. CASE run = "none"
    <3>1. own = Newborn /\ fg = Null /\ said = Silent BY <2>1 DEF Init
    <3> QED BY <2>1, <3>1 DEF Newborn, Silent
  <2>2. CASE run = "live"
    <3>1. /\ fg \in {Null} \cup Cmds /\ own \in [title : {Null} \cup Titles, bell : BOOLEAN]
      BY <2>2 DEF Init
    <3>2. CASE said \in [title : {Null} \cup Titles, fg : {fg}, bell : {own.bell}]
      BY <2>2, <3>1, <3>2
    <3>3. CASE said = Silent BY <2>2, <3>1, <3>3 DEF Silent
    <3> QED BY <2>2, <3>2, <3>3 DEF Init
  <2> QED BY <2>1, <2>2 DEF Init
<1>4. mirror \in [title : {Null} \cup Titles, fg : {Null} \cup Cmds, bell : BOOLEAN,
                  busy : BOOLEAN]
  BY DEF Init, Blank
<1>5. faults \in 0 .. MaxFaults BY <1>1 DEF Init
<1>6. /\ ps \in {"idle", Null} \cup Cmds /\ waits \in BOOLEAN /\ link \in BOOLEAN
      /\ timer \in {"off", "warm", "on"} /\ snap \in {"idle", "asked", "taken", "here"}
      /\ held \in {Null} \cup Pictures /\ raced \subseteq Fields \cup {"exit"}
      /\ job \in {"idle", "close", "respawn"} /\ back \in BOOLEAN /\ slipped \in BOOLEAN
  BY DEF Init
<1> QED BY <1>2, <1>3, <1>4, <1>5, <1>6 DEF TypeOK

LEMMA TypePtyd == TypeOK /\ (Ensure \/ Output \/ Exits \/ KillTimesOut \/ Park) => TypeOK'
<1> SUFFICES ASSUME TypeOK PROVE (Ensure \/ Output \/ Exits \/ KillTimesOut \/ Park) => TypeOK'
  OBVIOUS
<1> USE DEF ptydVars, mirrorVars, snapVars, jobVars, histVars
<1>1. CASE Ensure BY <1>1 DEF Ensure, Spawned, Newborn, TypeOK
<1>2. CASE Output
  <2>1. <<Frame("tick", Null)>> \in Seq(Frames) BY DEF Frame, Frames
  <2>2. wire' \in Seq(Frames) /\ Len(wire') <= MaxWire BY <1>2, <2>1, SendType DEF Output
  <2> QED BY <1>2, <2>2 DEF Output, TypeOK
<1>3. Answered \in Seq(Frames)
  <2>1. Frame("killed", Null) \in Frames BY DEF Frame, Frames
  <2>2. <<Frame("killed", Null)>> \in Seq(Frames) /\ <<>> \in Seq(Frames) BY <2>1
  <2> QED BY <2>2 DEF Answered
<1>4. CASE Exits
  <2>1. <<Frame("exit", Null)>> \in Seq(Frames) BY DEF Frame, Frames
  <2>2. <<Frame("exit", Null)>> \o Answered \in Seq(Frames) BY <1>3, <2>1
  <2>3. wire' \in Seq(Frames) /\ Len(wire') <= MaxWire BY <1>4, <2>2, SendType DEF Exits
  <2> QED BY <1>4, <2>3 DEF Exits, Newborn, Silent, TypeOK
<1>5. CASE KillTimesOut
  <2>1. wire' \in Seq(Frames) /\ Len(wire') <= MaxWire
    BY <1>3, <1>5, SendType DEF KillTimesOut
  <2>2. faults' \in 0 .. MaxFaults BY <1>5, MirrorAssumption DEF KillTimesOut, TypeOK
  <2> QED BY <1>5, <2>1, <2>2 DEF KillTimesOut, Newborn, TypeOK
<1>6. CASE Park BY <1>6 DEF Park, TypeOK
<1> QED BY <1>1, <1>2, <1>4, <1>5, <1>6

LEMMA TypeSays ==
  TypeOK /\ ((\E on \in BOOLEAN : Bell(on)) \/ (\E t \in Titles : Retitle(t))
             \/ PollBegins \/ PollEnds \/ TakeSnapshot) => TypeOK'
<1> SUFFICES ASSUME TypeOK
             PROVE  ((\E on \in BOOLEAN : Bell(on)) \/ (\E t \in Titles : Retitle(t))
                      \/ PollBegins \/ PollEnds \/ TakeSnapshot) => TypeOK'
  OBVIOUS
<1> USE DEF ptydVars, mirrorVars, snapVars, jobVars, histVars
<1>0. Picture \in Pictures BY PictureType
<1>1. ASSUME NEW on \in BOOLEAN, Bell(on) PROVE TypeOK'
  <2>1. [Picture EXCEPT !.bell = on] \in Pictures BY <1>0 DEF Pictures
  <2>2. /\ said' \in [title : {Null, Unset} \cup Titles, fg : {Null, Unset} \cup Cmds,
                      bell : {Unset} \cup BOOLEAN]
        /\ wire' \in Seq(Frames) /\ Len(wire') <= MaxWire
    BY <1>1, <2>1, AnnounceType DEF Bell
  <2>3. own' \in [title : {Null} \cup Titles, bell : BOOLEAN] BY <1>1 DEF Bell, TypeOK
  <2> QED BY <1>1, <2>2, <2>3 DEF Bell, TypeOK
<1>2. ASSUME NEW t \in Titles, Retitle(t) PROVE TypeOK'
  <2>1. own' \in [title : {Null} \cup Titles, bell : BOOLEAN] BY <1>2 DEF Retitle, TypeOK
  <2> QED BY <1>2, <2>1 DEF Retitle, TypeOK
<1>3. CASE PollBegins
  <2>1. ps' \in {"idle", Null} \cup Cmds BY <1>3 DEF PollBegins
  <2> QED BY <1>3, <2>1 DEF PollBegins, TypeOK
<1>4. CASE PollEnds
  <2>1. Sampled \in {Null} \cup Cmds BY <1>4 DEF PollEnds, Sampled, TypeOK
  <2>2. [Picture EXCEPT !.fg = Sampled] \in Pictures BY <1>0, <2>1 DEF Pictures
  <2>3. /\ said' \in [title : {Null, Unset} \cup Titles, fg : {Null, Unset} \cup Cmds,
                      bell : {Unset} \cup BOOLEAN]
        /\ wire' \in Seq(Frames) /\ Len(wire') <= MaxWire
    <3>1. CASE run = "none" BY <1>4, <3>1 DEF PollEnds, TypeOK
    <3>2. CASE run # "none" BY <1>4, <2>2, <3>2, AnnounceType DEF PollEnds
    <3> QED BY <3>1, <3>2
  <2> QED BY <1>4, <2>1, <2>3 DEF PollEnds, TypeOK
<1>5. CASE TakeSnapshot
  <2>1. Frame("decos", IF run = "none" THEN Null ELSE Picture) \in Frames
    BY <1>0 DEF Frame, Frames
  <2>2. <<Frame("decos", IF run = "none" THEN Null ELSE Picture)>> \in Seq(Frames) BY <2>1
  <2>3. wire' \in Seq(Frames) /\ Len(wire') <= MaxWire
    BY <1>5, <2>2, SendType DEF TakeSnapshot
  <2> QED BY <1>5, <2>3 DEF TakeSnapshot, TypeOK
<1> QED BY <1>1, <1>2, <1>3, <1>4, <1>5

LEMMA NoteType ==
  ASSUME TypeOK, NEW what \in Fields \cup {"exit"}, Note(what)
  PROVE  raced' \subseteq Fields \cup {"exit"}
BY DEF TypeOK, Note

LEMMA TypeHears == TypeOK /\ Receive => TypeOK'
<1> SUFFICES ASSUME TypeOK PROVE Receive => TypeOK' OBVIOUS
<1> USE DEF ptydVars, mirrorVars, snapVars, jobVars, histVars
<1>1. ASSUME NEW f \in Fields, HearField(f) PROVE TypeOK'
  <2>1. /\ Head1 \in Frames /\ Head1.what = f
        /\ wire' \in Seq(Frames) /\ Len(wire') <= MaxWire
    BY <1>1, HeadType DEF HearField
  <2>2. mirror' \in [title : {Null} \cup Titles, fg : {Null} \cup Cmds, bell : BOOLEAN,
                     busy : BOOLEAN]
    <3>1. CASE f = "title"
      <4>1. Head1.v \in {Null} \cup Titles BY <2>1, <3>1 DEF Frames
      <4> QED BY <1>1, <3>1, <4>1 DEF HearField, TypeOK
    <3>2. CASE f = "fg"
      <4>1. Head1.v \in {Null} \cup Cmds BY <2>1, <3>2 DEF Frames
      <4> QED BY <1>1, <3>2, <4>1 DEF HearField, TypeOK
    <3>3. CASE f = "bell"
      <4>1. Head1.v \in BOOLEAN BY <2>1, <3>3 DEF Frames
      <4> QED BY <1>1, <3>3, <4>1 DEF HearField, TypeOK
    <3> QED BY <3>1, <3>2, <3>3 DEF Fields
  <2>3. raced' \subseteq Fields \cup {"exit"} BY <1>1, NoteType DEF HearField
  <2> QED BY <1>1, <2>1, <2>2, <2>3 DEF HearField, TypeOK
<1>2. CASE HearExit
  <2>1. wire' \in Seq(Frames) /\ Len(wire') <= MaxWire BY <1>2, HeadType DEF HearExit
  <2>2. raced' \subseteq Fields \cup {"exit"} BY <1>2, NoteType DEF HearExit
  <2> QED BY <1>2, <2>1, <2>2 DEF HearExit, Blank, TypeOK
<1>3. CASE HearTick
  <2>1. wire' \in Seq(Frames) /\ Len(wire') <= MaxWire BY <1>3, HeadType DEF HearTick
  <2>2. /\ mirror' \in [title : {Null} \cup Titles, fg : {Null} \cup Cmds, bell : BOOLEAN,
                        busy : BOOLEAN]
        /\ timer' \in {"off", "warm", "on"}
    BY <1>3 DEF HearTick, TypeOK
  <2> QED BY <1>3, <2>1, <2>2 DEF HearTick, TypeOK
<1>4. CASE HearKilled
  <2>1. wire' \in Seq(Frames) /\ Len(wire') <= MaxWire BY <1>4, HeadType DEF HearKilled
  <2> QED BY <1>4, <2>1 DEF HearKilled, TypeOK
<1>5. CASE HearSnapshot
  <2>1. /\ Head1 \in Frames /\ Head1.what = "decos"
        /\ wire' \in Seq(Frames) /\ Len(wire') <= MaxWire
    BY <1>5, HeadType DEF HearSnapshot
  <2>2. Head1.v \in {Null} \cup Pictures BY <2>1 DEF Frames
  <2> QED BY <1>5, <2>1, <2>2 DEF HearSnapshot, TypeOK
<1> QED BY <1>1, <1>2, <1>3, <1>4, <1>5 DEF Receive

LEMMA TypeServer ==
  TypeOK /\ (Quiet \/ ApplySnapshot \/ Connect \/ GoesOn \/ \E what \in {"close", "respawn"} : Ask(what))
    => TypeOK'
<1> SUFFICES ASSUME TypeOK
             PROVE  (Quiet \/ ApplySnapshot \/ Connect \/ GoesOn
                      \/ \E what \in {"close", "respawn"} : Ask(what)) => TypeOK'
  OBVIOUS
<1> USE DEF ptydVars, mirrorVars, snapVars, jobVars, histVars
<1> DEFINE Entries == [title : {Null} \cup Titles, fg : {Null} \cup Cmds, bell : BOOLEAN,
                       busy : BOOLEAN]
<1>1. CASE Quiet
  <2>1. mirror' \in Entries BY <1>1 DEF Quiet, TypeOK
  <2> QED BY <1>1, <2>1 DEF Quiet, TypeOK
<1>2. CASE ApplySnapshot
  <2>1. Washed \in Entries BY DEF Washed, Kept, TypeOK
  <2>2. held # Null => Refreshed \in Entries
    <3> SUFFICES ASSUME held # Null PROVE Refreshed \in Entries OBVIOUS
    <3>1. held \in Pictures BY DEF TypeOK
    <3>2. /\ Kept("title", held.title) \in {Null} \cup Titles
          /\ Kept("fg", held.fg) \in {Null} \cup Cmds
          /\ Kept("bell", held.bell) \in BOOLEAN
      BY <3>1 DEF Kept, Pictures, TypeOK
    <3> QED BY <3>2 DEF Refreshed, TypeOK
  <2>3. mirror' \in Entries BY <1>2, <2>1, <2>2 DEF ApplySnapshot, TypeOK
  <2>4. timer' \in {"off", "warm", "on"} BY <1>2 DEF ApplySnapshot, WashTimer, TypeOK
  <2> QED BY <1>2, <2>3, <2>4 DEF ApplySnapshot, TypeOK
<1>3. CASE Connect BY <1>3 DEF Connect, TypeOK
<1>4. CASE GoesOn
  <2>1. mirror' \in Entries BY <1>4 DEF GoesOn, Blank
  <2>2. run' \in {"none", "live", "dying"} /\ own' \in [title : {Null} \cup Titles, bell : BOOLEAN]
    <3>1. Spawned \/ UNCHANGED <<run, own>> BY <1>4 DEF GoesOn
    <3>2. CASE Spawned
      <4>1. run' = "live" /\ own' = [title |-> Null, bell |-> FALSE]
        BY <3>2 DEF Spawned, Newborn
      <4> QED BY <4>1
    <3>3. CASE UNCHANGED <<run, own>> BY <3>3 DEF TypeOK
    <3> QED BY <3>1, <3>2, <3>3
  <2>3. slipped' \in BOOLEAN BY <1>4 DEF GoesOn, TypeOK
  <2> QED BY <1>4, <2>1, <2>2, <2>3 DEF GoesOn, TypeOK
<1>5. ASSUME NEW what \in {"close", "respawn"}, Ask(what) PROVE TypeOK'
  <2>1. Frame("killed", Null) \in Frames BY DEF Frame, Frames
  <2>2. <<Frame("killed", Null)>> \in Seq(Frames) BY <2>1
  <2>3. wire' \in Seq(Frames) /\ Len(wire') <= MaxWire
    BY <1>5, <2>2, SendType DEF Ask, TypeOK
  <2>4. /\ run' \in {"none", "live", "dying"} /\ waits' \in BOOLEAN /\ back' \in BOOLEAN
    BY <1>5 DEF Ask, TypeOK
  <2> QED BY <1>5, <2>3, <2>4 DEF Ask, TypeOK
<1> QED BY <1>1, <1>2, <1>3, <1>4, <1>5

LEMMA TypeFaults == TypeOK /\ (LinkDrops \/ PtydRestarts \/ ServerRestarts) => TypeOK'
<1> SUFFICES ASSUME TypeOK PROVE (LinkDrops \/ PtydRestarts \/ ServerRestarts) => TypeOK'
  OBVIOUS
<1> USE DEF ptydVars, mirrorVars, snapVars, jobVars, histVars
<1>1. ASSUME Unlinks, faults < MaxFaults
      PROVE  /\ link' \in BOOLEAN /\ wire' \in Seq(Frames) /\ Len(wire') <= MaxWire
             /\ waits' \in BOOLEAN /\ snap' \in {"idle", "asked", "taken", "here"}
             /\ held' \in {Null} \cup Pictures /\ raced' \subseteq Fields \cup {"exit"}
             /\ faults' \in 0 .. MaxFaults
  <2>1. MaxWire \in Nat /\ MaxFaults \in Nat BY MirrorAssumption
  <2>2. wire' = <<>> BY <1>1 DEF Unlinks
  <2>3. wire' \in Seq(Frames) /\ Len(wire') <= MaxWire BY <2>1, <2>2
  <2>4. faults' \in 0 .. MaxFaults BY <1>1, <2>1 DEF Unlinks, TypeOK
  <2> QED BY <1>1, <2>3, <2>4 DEF Unlinks
<1>2. CASE LinkDrops BY <1>1, <1>2 DEF LinkDrops, TypeOK
<1>3. CASE PtydRestarts
  <2>1. /\ own' \in [title : {Null} \cup Titles, bell : BOOLEAN]
        /\ said' \in [title : {Null, Unset} \cup Titles, fg : {Null, Unset} \cup Cmds,
                      bell : {Unset} \cup BOOLEAN]
    BY <1>3 DEF PtydRestarts, Newborn, Silent
  <2> QED BY <1>1, <1>3, <2>1 DEF PtydRestarts, TypeOK
<1>4. CASE ServerRestarts BY <1>1, <1>4 DEF ServerRestarts, Blank, TypeOK
<1> QED BY <1>2, <1>3, <1>4

LEMMA TypeStep == TypeOK /\ [Next]_vars => TypeOK'
<1> SUFFICES ASSUME TypeOK, [Next]_vars PROVE TypeOK' OBVIOUS
<1>1. CASE Next BY <1>1, TypePtyd, TypeSays, TypeHears, TypeServer, TypeFaults
                DEF Next, Server, Ptyd
<1>2. CASE UNCHANGED vars
  BY <1>2 DEF vars, ptydVars, mirrorVars, snapVars, jobVars, histVars, TypeOK
<1> QED BY <1>1, <1>2

(* Types are kept by every step: frames stay frames, the socket within its *)
(* bound, and the cache holds what its columns can hold.                   *)
THEOREM TypeCorrect == Spec => []TypeOK
<1> QED BY TypeInit, TypeStep, PTL DEF Spec

-----------------------------------------------------------------------------
(* The spinner *)

LEMMA SpinnerStep == TypeOK /\ SpinnerIsTimed /\ [Next]_vars => SpinnerIsTimed'
<1> SUFFICES ASSUME TypeOK, SpinnerIsTimed, [Next]_vars PROVE SpinnerIsTimed' OBVIOUS
<1> USE DEF ptydVars, mirrorVars, snapVars, jobVars, histVars
<1>0. ASSUME UNCHANGED mirrorVars PROVE SpinnerIsTimed' BY <1>0 DEF SpinnerIsTimed
<1>1. ASSUME mirror'.busy = mirror.busy, UNCHANGED timer PROVE SpinnerIsTimed'
  BY <1>1 DEF SpinnerIsTimed
<1>2. CASE Receive
  <2>1. ASSUME NEW f \in Fields, HearField(f) PROVE SpinnerIsTimed'
    BY <1>1, <2>1 DEF HearField, Fields, TypeOK
  <2>2. CASE HearExit BY <2>2 DEF HearExit, Blank, SpinnerIsTimed
  <2>3. CASE HearTick BY <2>3 DEF HearTick, SpinnerIsTimed
  <2> QED BY <1>0, <1>2, <2>1, <2>2, <2>3 DEF Receive, HearKilled, HearSnapshot
<1>3. CASE ApplySnapshot
  <2>1. CASE Vetoed BY <1>0, <1>3, <2>1 DEF ApplySnapshot
  <2>2. CASE ~Vetoed /\ held # Null
    <3>1. mirror' = Refreshed /\ timer' = timer BY <1>3, <2>2 DEF ApplySnapshot
    <3> QED BY <1>1, <3>1 DEF Refreshed, TypeOK
  <2>3. CASE ~Vetoed /\ held = Null
    <3>1. mirror' = Washed BY <1>3, <2>3 DEF ApplySnapshot
    <3> QED BY <3>1 DEF Washed, SpinnerIsTimed
  <2> QED BY <2>1, <2>2, <2>3
<1>4. CASE GoesOn BY <1>4 DEF GoesOn, Blank, SpinnerIsTimed
<1>5. CASE Quiet BY <1>5 DEF Quiet, SpinnerIsTimed, TypeOK
<1>6. CASE ServerRestarts BY <1>6 DEF ServerRestarts, Blank, SpinnerIsTimed
<1>7. CASE LinkDrops \/ PtydRestarts \/ Connect BY <1>0, <1>7 DEF LinkDrops, PtydRestarts, Connect
<1>8. CASE Ptyd \/ Ensure \/ Output \/ Exits \/ KillTimesOut \/ Park
  BY <1>0, <1>8 DEF Ptyd, TakeSnapshot, PollBegins, PollEnds, Ensure, Output, Exits, KillTimesOut, Park
<1>9. CASE \/ \E on \in BOOLEAN : Bell(on)
           \/ \E t \in Titles : Retitle(t)
           \/ \E what \in {"close", "respawn"} : Ask(what)
  BY <1>0, <1>9 DEF Bell, Retitle, Ask
<1>10. CASE UNCHANGED vars BY <1>0, <1>10 DEF vars
<1> QED BY <1>2, <1>3, <1>4, <1>5, <1>6, <1>7, <1>8, <1>9, <1>10 DEF Next, Server

(* A spinner always has the timer that ends it: no exit, snapshot, respawn *)
(* or tick leaves one that would spin for good.                            *)
THEOREM SpinnerTimed == Spec => []SpinnerIsTimed
<1>1. Init => SpinnerIsTimed BY DEF Init, Blank, SpinnerIsTimed
<1> QED BY <1>1, TypeInit, TypeStep, SpinnerStep, PTL DEF Spec

-----------------------------------------------------------------------------
(* Frames on the socket *)

LEMMA ConcatAt ==
  ASSUME NEW w \in Seq(Frames), NEW fr \in Seq(Frames)
  PROVE  /\ w \o fr \in Seq(Frames) /\ DOMAIN (w \o fr) = 1 .. Len(w) + Len(fr)
         /\ DOMAIN w = 1 .. Len(w) /\ DOMAIN fr = 1 .. Len(fr)
         /\ Len(w) \in Nat /\ Len(fr) \in Nat
         /\ \A i \in 1 .. Len(w) : (w \o fr)[i] = w[i]
         /\ \A i \in 1 .. Len(fr) : (w \o fr)[Len(w) + i] = fr[i]
OBVIOUS

LEMMA TailAt ==
  ASSUME NEW w \in Seq(Frames), w # <<>>
  PROVE  /\ Len(w) \in Nat /\ Len(w) > 0 /\ DOMAIN w = 1 .. Len(w) /\ Head(w) = w[1]
         /\ DOMAIN Tail(w) = 1 .. Len(w) - 1
         /\ \A i \in 1 .. Len(w) - 1 : Tail(w)[i] = w[i + 1]
OBVIOUS

(* Frames that say nothing of a field change nothing in what the wire says *)
(* of it.                                                                  *)
LEMMA AppendHushed ==
  ASSUME NEW f, NEW w \in Seq(Frames), NEW fr \in Seq(Frames), Hushed(f, fr)
  PROVE  /\ Hushed(f, w \o fr) => Hushed(f, w)
         /\ \A i \in DOMAIN (w \o fr) : Newest(f, w \o fr, i) =>
              i \in DOMAIN w /\ Newest(f, w, i) /\ (w \o fr)[i] = w[i]
<1> USE ConcatAt
<1>1. Hushed(f, w \o fr) => Hushed(f, w) BY DEF Hushed
<1>2. ASSUME NEW i \in DOMAIN (w \o fr), Newest(f, w \o fr, i)
      PROVE  i \in DOMAIN w /\ Newest(f, w, i) /\ (w \o fr)[i] = w[i]
  <2>1. Carries(f, (w \o fr)[i]) BY <1>2 DEF Newest
  <2>2. i \in 1 .. Len(w)
    <3> SUFFICES ASSUME i \notin 1 .. Len(w) PROVE FALSE OBVIOUS
    <3>1. i \in 1 .. Len(w) + Len(fr) BY <1>2
    <3>2. i - Len(w) \in 1 .. Len(fr) /\ i = Len(w) + (i - Len(w)) BY <3>1
    <3>3. (w \o fr)[i] = fr[i - Len(w)] BY <3>2
    <3> QED BY <2>1, <3>2, <3>3 DEF Hushed
  <2>3. (w \o fr)[i] = w[i] BY <2>2
  <2>4. \A j \in DOMAIN w : j > i => ~Carries(f, w[j])
    <3> SUFFICES ASSUME NEW j \in 1 .. Len(w), j > i PROVE ~Carries(f, w[j]) OBVIOUS
    <3>1. j \in DOMAIN (w \o fr) /\ (w \o fr)[j] = w[j] OBVIOUS
    <3> QED BY <1>2, <3>1 DEF Newest
  <2> QED BY <2>1, <2>2, <2>3, <2>4 DEF Newest
<1> QED BY <1>1, <1>2

(* The newest of the frames appended is the newest on the wire.            *)
LEMMA AppendCarrier ==
  ASSUME NEW f, NEW w \in Seq(Frames), NEW fr \in Seq(Frames), NEW k \in DOMAIN fr,
         Newest(f, fr, k)
  PROVE  /\ ~Hushed(f, w \o fr)
         /\ \A i \in DOMAIN (w \o fr) : Newest(f, w \o fr, i) => (w \o fr)[i] = fr[k]
<1> USE ConcatAt
<1>1. k \in 1 .. Len(fr) OBVIOUS
<1>2. Len(w) + k \in DOMAIN (w \o fr) /\ (w \o fr)[Len(w) + k] = fr[k] BY <1>1
<1>3. Carries(f, (w \o fr)[Len(w) + k]) BY <1>2 DEF Newest
<1>4. ~Hushed(f, w \o fr) BY <1>2, <1>3 DEF Hushed
<1>5. ASSUME NEW i \in DOMAIN (w \o fr), Newest(f, w \o fr, i) PROVE i = Len(w) + k
  <2>1. i \in 1 .. Len(w) + Len(fr) BY <1>5
  <2>2. ~(Len(w) + k > i) BY <1>2, <1>3, <1>5 DEF Newest
  <2>3. ~(i > Len(w) + k)
    <3> SUFFICES ASSUME i > Len(w) + k PROVE FALSE OBVIOUS
    <3>1. i - Len(w) \in 1 .. Len(fr) /\ i - Len(w) > k /\ i = Len(w) + (i - Len(w))
      BY <1>1, <2>1
    <3>2. (w \o fr)[i] = fr[i - Len(w)] BY <3>1
    <3> QED BY <1>5, <3>1, <3>2 DEF Newest
  <2>4. Len(w) \in Nat /\ Len(fr) \in Nat OBVIOUS
  <2>5. i \in Nat /\ Len(w) + k \in Nat BY <1>1, <2>1, <2>4
  <2> QED BY <2>2, <2>3, <2>5
<1> QED BY <1>2, <1>4, <1>5

(* What the rest of the wire says of a field once its head is heard.       *)
LEMMA TailSays ==
  ASSUME NEW f, NEW w \in Seq(Frames), w # <<>>
  PROVE  /\ \A i \in DOMAIN Tail(w) : i + 1 \in DOMAIN w /\ Tail(w)[i] = w[i + 1]
         /\ \A i \in DOMAIN Tail(w) : Newest(f, Tail(w), i) => Newest(f, w, i + 1)
         /\ Hushed(f, Tail(w)) /\ ~Carries(f, Head(w)) => Hushed(f, w)
         /\ Hushed(f, Tail(w)) /\ Carries(f, Head(w)) => Newest(f, w, 1)
         /\ 1 \in DOMAIN w /\ Head(w) = w[1]
<1> USE TailAt
<1>1. \A i \in DOMAIN Tail(w) : i + 1 \in DOMAIN w /\ Tail(w)[i] = w[i + 1] OBVIOUS
<1>2. \A j \in DOMAIN w : j > 1 => j - 1 \in DOMAIN Tail(w) /\ Tail(w)[j - 1] = w[j] 
  <2> SUFFICES ASSUME NEW j \in 1 .. Len(w), j > 1
               PROVE  j - 1 \in DOMAIN Tail(w) /\ Tail(w)[j - 1] = w[j]
    OBVIOUS
  <2>1. j - 1 \in 1 .. Len(w) - 1 /\ (j - 1) + 1 = j OBVIOUS
  <2> QED BY <2>1
<1>3. ASSUME NEW i \in DOMAIN Tail(w), Newest(f, Tail(w), i) PROVE Newest(f, w, i + 1)
  <2>1. Carries(f, w[i + 1]) BY <1>1, <1>3 DEF Newest
  <2>2. ASSUME NEW j \in DOMAIN w, j > i + 1 PROVE ~Carries(f, w[j])
    <3>1. j > 1 /\ j - 1 > i BY <2>2
    <3> QED BY <1>2, <1>3, <3>1 DEF Newest
  <2> QED BY <1>1, <2>1, <2>2 DEF Newest
<1>4. Hushed(f, Tail(w)) => \A j \in DOMAIN w : j > 1 => ~Carries(f, w[j]) BY <1>2 DEF Hushed
<1>5. 1 \in DOMAIN w /\ Head(w) = w[1] OBVIOUS
<1>6. Hushed(f, Tail(w)) /\ ~Carries(f, Head(w)) => Hushed(f, w) BY <1>4, <1>5 DEF Hushed
<1>7. Hushed(f, Tail(w)) /\ Carries(f, Head(w)) => Newest(f, w, 1) BY <1>4, <1>5 DEF Newest
<1> QED BY <1>1, <1>3, <1>5, <1>6, <1>7

-----------------------------------------------------------------------------
(* The snapshot on the wire *)

Plain(w) == \A i \in DOMAIN w : w[i].what # "decos"

(* What emitDecorations says. *)
Uttered(p) == Says(p, "title") \o Says(p, "fg") \o Says(p, "bell")

(* A field that differs from what was said last is said, the others are    *)
(* not mentioned.                                                          *)
LEMMA SaysAt ==
  ASSUME NEW p \in Pictures, NEW g \in Fields
  PROVE  /\ Says(p, g) \in Seq(Frames) /\ Len(Says(p, g)) \in {0, 1}
         /\ said[g] = p[g] => Len(Says(p, g)) = 0
         /\ said[g] # p[g] => Len(Says(p, g)) = 1 /\ Says(p, g)[1] = Frame(g, p[g])
         /\ \A i \in DOMAIN Says(p, g) : Says(p, g)[i].what = g
<1>1. Says(p, g) \in Seq(Frames) BY SaysType
<1> QED BY <1>1 DEF Says, Frame

LEMMA SaysPlain ==
  ASSUME NEW p \in Pictures, NEW f \in Fields
  PROVE  /\ Uttered(p) \in Seq(Frames) /\ Plain(Uttered(p))
         /\ said[f] = p[f] => Hushed(f, Uttered(p))
         /\ said[f] # p[f] => \E k \in DOMAIN Uttered(p) :
              Newest(f, Uttered(p), k) /\ Uttered(p)[k] = Frame(f, p[f])
<1> DEFINE a == Says(p, "title")
           b == Says(p, "fg")
           c == Says(p, "bell")
           w == (a \o b) \o c
<1>1. a \in Seq(Frames) /\ b \in Seq(Frames) /\ c \in Seq(Frames) BY SaysType DEF Fields
<1>2. /\ Len(a) \in {0, 1} /\ Len(b) \in {0, 1} /\ Len(c) \in {0, 1}
      /\ \A i \in DOMAIN a : a[i].what = "title"
      /\ \A i \in DOMAIN b : b[i].what = "fg"
      /\ \A i \in DOMAIN c : c[i].what = "bell"
  BY SaysAt DEF Fields
<1>3. /\ f = "title" => IF said[f] = p[f] THEN Len(a) = 0 ELSE Len(a) = 1 /\ a[1] = Frame(f, p[f])
      /\ f = "fg" => IF said[f] = p[f] THEN Len(b) = 0 ELSE Len(b) = 1 /\ b[1] = Frame(f, p[f])
      /\ f = "bell" => IF said[f] = p[f] THEN Len(c) = 0 ELSE Len(c) = 1 /\ c[1] = Frame(f, p[f])
  BY SaysAt DEF Fields
<1>4. Uttered(p) = w BY DEF Uttered
<1> HIDE DEF a, b, c
<1>5. /\ w \in Seq(Frames) /\ DOMAIN w = 1 .. Len(a) + Len(b) + Len(c)
      /\ Len(a) = 1 => w[1] = a[1]
      /\ Len(b) = 1 => w[Len(a) + 1] = b[1]
      /\ Len(c) = 1 => w[Len(a) + Len(b) + 1] = c[1]
  <2> DEFINE ab == a \o b
  <2>1. /\ ab \in Seq(Frames) /\ Len(ab) = Len(a) + Len(b) /\ DOMAIN ab = 1 .. Len(a) + Len(b)
        /\ \A i \in 1 .. Len(a) : ab[i] = a[i]
        /\ \A i \in 1 .. Len(b) : ab[Len(a) + i] = b[i]
    BY <1>1
  <2> HIDE DEF ab
  <2>2. /\ ab \o c \in Seq(Frames) /\ DOMAIN (ab \o c) = 1 .. Len(ab) + Len(c)
        /\ \A i \in 1 .. Len(ab) : (ab \o c)[i] = ab[i]
        /\ \A i \in 1 .. Len(c) : (ab \o c)[Len(ab) + i] = c[i]
    BY <1>1, <2>1, ConcatAt
  <2>3. Len(a) = 1 => (ab \o c)[1] = a[1] BY <1>2, <2>1, <2>2
  <2>4. Len(b) = 1 => (ab \o c)[Len(a) + 1] = b[1] BY <1>2, <2>1, <2>2
  <2>5. Len(c) = 1 => (ab \o c)[Len(a) + Len(b) + 1] = c[1] BY <1>2, <2>1, <2>2
  <2>6. w = ab \o c BY DEF ab
  <2> HIDE DEF w
  <2> QED BY <2>1, <2>2, <2>3, <2>4, <2>5, <2>6
<1> HIDE DEF w
<1>6. DOMAIN a = 1 .. Len(a) /\ DOMAIN b = 1 .. Len(b) /\ DOMAIN c = 1 .. Len(c) BY <1>1
(* Each place on the wire holds one of the three. *)
<1>7. \A i \in DOMAIN w :
        \/ i = 1 /\ Len(a) = 1 /\ w[i].what = "title"
        \/ i = Len(a) + 1 /\ Len(b) = 1 /\ w[i].what = "fg"
        \/ i = Len(a) + Len(b) + 1 /\ Len(c) = 1 /\ w[i].what = "bell"
  <2> SUFFICES ASSUME NEW i \in DOMAIN w
               PROVE  \/ i = 1 /\ Len(a) = 1 /\ w[i].what = "title"
                      \/ i = Len(a) + 1 /\ Len(b) = 1 /\ w[i].what = "fg"
                      \/ i = Len(a) + Len(b) + 1 /\ Len(c) = 1 /\ w[i].what = "bell"
    OBVIOUS
  <2>0. \A x, y, z \in {0, 1} : \A n \in 1 .. x + y + z :
          \/ n = 1 /\ x = 1
          \/ n = x + 1 /\ y = 1
          \/ n = x + y + 1 /\ z = 1
    OBVIOUS
  <2>1. \/ i = 1 /\ Len(a) = 1
        \/ i = Len(a) + 1 /\ Len(b) = 1
        \/ i = Len(a) + Len(b) + 1 /\ Len(c) = 1
    BY <1>2, <1>5, <2>0
  <2>2. /\ Len(a) = 1 => a[1].what = "title"
        /\ Len(b) = 1 => b[1].what = "fg"
        /\ Len(c) = 1 => c[1].what = "bell"
    BY <1>2, <1>6
  <2> QED BY <1>5, <2>1, <2>2
<1>8. Uttered(p) \in Seq(Frames) /\ Plain(Uttered(p)) BY <1>4, <1>5, <1>7 DEF Plain
<1>9. ASSUME said[f] = p[f] PROVE Hushed(f, w)
  <2>1. CASE f = "title" BY <1>3, <1>7, <1>9, <2>1 DEF Hushed, Carries
  <2>2. CASE f = "fg" BY <1>3, <1>7, <1>9, <2>2 DEF Hushed, Carries
  <2>3. CASE f = "bell" BY <1>3, <1>7, <1>9, <2>3 DEF Hushed, Carries
  <2> QED BY <2>1, <2>2, <2>3 DEF Fields
<1>10. ASSUME said[f] # p[f]
       PROVE  \E k \in DOMAIN w : Newest(f, w, k) /\ w[k] = Frame(f, p[f])
  <2> DEFINE k == IF f = "title" THEN 1 ELSE IF f = "fg" THEN Len(a) + 1
                  ELSE Len(a) + Len(b) + 1
  <2>1. k \in DOMAIN w /\ w[k] = Frame(f, p[f]) BY <1>2, <1>3, <1>5, <1>10 DEF Fields
  <2>2. \A j \in DOMAIN w : j > k => w[j].what \notin {f, "exit"} BY <1>2, <1>7 DEF Fields
  <2>3. w[k].what = f BY <2>1 DEF Frame
  <2> HIDE DEF k
  <2> QED BY <2>1, <2>2, <2>3 DEF Newest, Carries
<1> QED BY <1>4, <1>8, <1>9, <1>10

LEMMA AnsweredPlain ==
  /\ Answered \in Seq(Frames) /\ Plain(Answered) /\ \A f \in Fields : Hushed(f, Answered)
  /\ Len(Answered) \in {0, 1}
<1>1. Frame("killed", Null) \in Frames BY DEF Frame, Frames
<1>2. CASE waits BY <1>1, <1>2 DEF Answered, Frame, Plain, Hushed, Carries, Fields
<1>3. CASE ~waits BY <1>3 DEF Answered, Plain, Hushed
<1> QED BY <1>2, <1>3

LEMMA PlainAppend ==
  ASSUME NEW w \in Seq(Frames), NEW fr \in Seq(Frames), Plain(fr)
  PROVE  \A i \in DOMAIN (w \o fr) :
           (w \o fr)[i].what = "decos" => i \in DOMAIN w /\ (w \o fr)[i] = w[i]
<1> USE ConcatAt
<1> SUFFICES ASSUME NEW i \in DOMAIN (w \o fr), (w \o fr)[i].what = "decos"
             PROVE  i \in 1 .. Len(w)
  OBVIOUS
<1> SUFFICES ASSUME i \notin 1 .. Len(w) PROVE FALSE OBVIOUS
<1>1. i \in 1 .. Len(w) + Len(fr) OBVIOUS
<1>2. i - Len(w) \in 1 .. Len(fr) /\ i = Len(w) + (i - Len(w)) BY <1>1
<1>3. (w \o fr)[i] = fr[i - Len(w)] BY <1>2
<1> QED BY <1>2, <1>3 DEF Plain

(* Frames that are no snapshot leave the snapshot where it is.             *)
LEMMA WireAppend ==
  ASSUME TypeOK, WireHolds, NEW fr \in Seq(Frames), Plain(fr), Send(fr),
         UNCHANGED <<link, snap, raced>>
  PROVE  WireHolds'
<1>1. wire \in Seq(Frames) /\ link \in BOOLEAN BY DEF TypeOK
<1>2. CASE ~link
  <2>1. wire' = wire BY <1>2 DEF Send
  <2> QED BY <2>1 DEF WireHolds
<1>3. CASE link
  <2>1. wire' = wire \o fr BY <1>3 DEF Send
  <2>2. \A i \in DOMAIN wire' : wire'[i].what = "decos" => i \in DOMAIN wire /\ wire'[i] = wire[i]
    BY <1>1, <2>1, PlainAppend
  <2> QED BY <1>3, <2>2 DEF WireHolds
<1> QED BY <1>1, <1>2, <1>3

(* So does hearing a frame.                                                *)
LEMMA WireTail ==
  ASSUME TypeOK, WireHolds, wire # <<>>, wire' = Tail(wire), UNCHANGED <<link, snap>>,
         snap = "idle" => raced' = {}
  PROVE  WireHolds'
<1>1. wire \in Seq(Frames) BY DEF TypeOK
<1>2. \A i \in DOMAIN wire' : i \in Nat /\ i + 1 \in DOMAIN wire /\ wire'[i] = wire[i + 1]
  <2>1. \A i \in DOMAIN wire' : i + 1 \in DOMAIN wire /\ wire'[i] = wire[i + 1] BY <1>1, TailAt
  <2>2. DOMAIN wire' = 1 .. Len(wire) - 1 /\ Len(wire) \in Nat BY <1>1, TailAt
  <2>3. \A i \in DOMAIN wire' : i \in Nat BY <2>2
  <2> QED BY <2>1, <2>3
<1>3. link BY DEF WireHolds
<1>4. \A i \in DOMAIN wire' : wire'[i].what = "decos" => snap = "taken" BY <1>2 DEF WireHolds
<1>5. ASSUME NEW i \in DOMAIN wire', NEW j \in DOMAIN wire',
             wire'[i].what = "decos", wire'[j].what = "decos"
      PROVE  i = j
  <2>1. i + 1 = j + 1 BY <1>2, <1>5 DEF WireHolds
  <2> QED BY <1>2, <2>1
<1> QED BY <1>3, <1>4, <1>5 DEF WireHolds

LEMMA WireStep == TypeOK /\ WireHolds /\ [Next]_vars => WireHolds'
<1> SUFFICES ASSUME TypeOK, WireHolds, [Next]_vars PROVE WireHolds' OBVIOUS
<1> USE DEF ptydVars, mirrorVars, snapVars, jobVars, histVars
<1>0. ASSUME UNCHANGED <<link, wire, snap, raced>> PROVE WireHolds' BY <1>0 DEF WireHolds
<1>1. wire \in Seq(Frames) /\ link \in BOOLEAN /\ Picture \in Pictures BY PictureType DEF TypeOK
<1>2. \A p \in Pictures : Announce(p) /\ UNCHANGED <<link, snap, raced>> => WireHolds'
  <2> SUFFICES ASSUME NEW p \in Pictures, Announce(p), UNCHANGED <<link, snap, raced>>
               PROVE  WireHolds'
    OBVIOUS
  <2>1. Uttered(p) \in Seq(Frames) /\ Plain(Uttered(p)) BY SaysPlain DEF Fields
  <2>2. Send(Uttered(p)) BY DEF Announce, Uttered
  <2> QED BY <2>1, <2>2, WireAppend
<1>3. ASSUME NEW on \in BOOLEAN, Bell(on) PROVE WireHolds'
  <2>1. [Picture EXCEPT !.bell = on] \in Pictures BY <1>1 DEF Pictures
  <2> QED BY <1>2, <1>3, <2>1 DEF Bell
<1>4. CASE PollEnds
  <2>1. CASE run = "none" BY <1>0, <1>4, <2>1 DEF PollEnds
  <2>2. CASE run # "none"
    <3>1. Sampled \in {Null} \cup Cmds BY <1>4 DEF PollEnds, Sampled, TypeOK
    <3>2. [Picture EXCEPT !.fg = Sampled] \in Pictures BY <1>1, <3>1 DEF Pictures
    <3> QED BY <1>2, <1>4, <2>2, <3>2 DEF PollEnds
  <2> QED BY <2>1, <2>2
<1>5. CASE Output
  <2>1. <<Frame("tick", Null)>> \in Seq(Frames) /\ Plain(<<Frame("tick", Null)>>)
    BY DEF Frame, Frames, Plain
  <2> QED BY <1>5, <2>1, WireAppend DEF Output
<1>6. CASE Exits
  <2> DEFINE e == <<Frame("exit", Null)>>
  <2>1. e \in Seq(Frames) /\ Plain(e) BY DEF Frame, Frames, Plain
  <2> HIDE DEF e
  <2>2. e \o Answered \in Seq(Frames) BY <2>1, AnsweredPlain
  <2>3. Plain(e \o Answered)
    <3>1. \A i \in DOMAIN (e \o Answered) :
            \/ i \in DOMAIN e /\ (e \o Answered)[i] = e[i]
            \/ i - Len(e) \in DOMAIN Answered /\ (e \o Answered)[i] = Answered[i - Len(e)]
      BY <2>1, AnsweredPlain
    <3> QED BY <2>1, <3>1, AnsweredPlain DEF Plain
  <2> QED BY <1>6, <2>2, <2>3, WireAppend DEF Exits, e
<1>7. CASE KillTimesOut BY <1>7, AnsweredPlain, WireAppend DEF KillTimesOut
<1>8. ASSUME NEW what \in {"close", "respawn"}, Ask(what) PROVE WireHolds'
  <2>1. <<Frame("killed", Null)>> \in Seq(Frames) /\ Plain(<<Frame("killed", Null)>>)
    BY DEF Frame, Frames, Plain
  <2>2. /\ UNCHANGED <<link, snap, raced>>
        /\ UNCHANGED wire \/ Send(<<Frame("killed", Null)>>)
    BY <1>1, <1>8 DEF Ask
  <2> QED BY <1>0, <2>1, <2>2, WireAppend
<1>9. CASE TakeSnapshot
  <2> DEFINE d == Frame("decos", IF run = "none" THEN Null ELSE Picture)
  <2>1. d \in Frames BY <1>1 DEF Frame, Frames
  <2>2. link /\ wire' = Append(wire, d)
    BY <1>1, <1>9, <2>1 DEF TakeSnapshot, Send, WireHolds
  <2>3. /\ DOMAIN wire' = 1 .. Len(wire) + 1 /\ DOMAIN wire = 1 .. Len(wire) /\ Len(wire) \in Nat
        /\ \A i \in 1 .. Len(wire) : wire'[i] = wire[i]
    BY <1>1, <2>1, <2>2
  <2>4. \A i \in 1 .. Len(wire) : wire[i].what # "decos"
    BY <1>9, <2>3 DEF TakeSnapshot, WireHolds
  <2>5. \A i \in DOMAIN wire' : wire'[i].what = "decos" => i = Len(wire) + 1
    BY <2>3, <2>4
  <2>6. snap' = "taken" /\ raced' = raced /\ link' = link BY <1>9 DEF TakeSnapshot
  <2> QED BY <2>2, <2>5, <2>6 DEF WireHolds
<1>10. CASE Receive
  <2>1. ASSUME NEW f \in Fields, HearField(f) PROVE WireHolds'
    BY <2>1, WireTail DEF HearField, Hear, Note, WireHolds
  <2>2. CASE HearExit BY <2>2, WireTail DEF HearExit, Hear, Note, WireHolds
  <2>3. CASE HearTick BY <2>3, WireTail DEF HearTick, Hear, WireHolds
  <2>4. CASE HearKilled BY <2>4, WireTail DEF HearKilled, Hear, WireHolds
  <2>5. CASE HearSnapshot
    <3>1. wire # <<>> /\ wire[1].what = "decos" /\ wire' = Tail(wire) /\ 1 \in DOMAIN wire
      BY <1>1, <2>5, TailAt DEF HearSnapshot, Hear, Head1
    <3>2. /\ DOMAIN wire' = 1 .. Len(wire) - 1 /\ DOMAIN wire = 1 .. Len(wire) /\ Len(wire) \in Nat
          /\ \A i \in 1 .. Len(wire) - 1 : wire'[i] = wire[i + 1]
      BY <1>1, <3>1, TailAt
    <3>3. ASSUME NEW i \in DOMAIN wire' PROVE wire'[i].what # "decos"
      <4>1. i \in 1 .. Len(wire) - 1 /\ i + 1 \in DOMAIN wire /\ i + 1 # 1 BY <3>2, <3>3
      <4>2. wire[i + 1].what # "decos" BY <3>1, <4>1 DEF WireHolds
      <4> QED BY <3>2, <4>1, <4>2
    <3>4. link' = link /\ snap' = "here" /\ link BY <2>5, <3>1 DEF HearSnapshot, WireHolds
    <3> QED BY <3>3, <3>4 DEF WireHolds
  <2> QED BY <1>10, <2>1, <2>2, <2>3, <2>4, <2>5 DEF Receive
<1>11. CASE ApplySnapshot
  <2>1. link' = link /\ wire' = wire /\ snap = "here" /\ snap' = "idle" /\ raced' = {}
    BY <1>11 DEF ApplySnapshot
  <2> QED BY <2>1 DEF WireHolds
<1>12. CASE Connect
  <2>1. link' = TRUE /\ wire' = <<>> BY <1>12 DEF Connect, WireHolds
  <2>2. snap' = "asked" /\ DOMAIN wire' = {} BY <1>12, <2>1 DEF Connect
  <2> QED BY <2>1, <2>2 DEF WireHolds
<1>13. CASE LinkDrops \/ PtydRestarts \/ ServerRestarts
  <2>1. Unlinks BY <1>13 DEF LinkDrops, PtydRestarts, ServerRestarts
  <2>2. wire' = <<>> /\ snap' = "idle" /\ raced' = {} BY <2>1 DEF Unlinks
  <2>3. DOMAIN wire' = {} BY <2>2
  <2> QED BY <2>2, <2>3 DEF WireHolds
<1>14. CASE GoesOn \/ Quiet \/ PollBegins \/ Ensure \/ Park \/ \E t \in Titles : Retitle(t)
  BY <1>0, <1>14 DEF GoesOn, Quiet, PollBegins, Ensure, Park, Retitle
<1>15. CASE UNCHANGED vars BY <1>0, <1>15 DEF vars
<1> QED BY <1>3, <1>4, <1>5, <1>6, <1>7, <1>8, <1>9, <1>10, <1>11, <1>12, <1>13, <1>14, <1>15
        DEF Next, Server, Ptyd

-----------------------------------------------------------------------------
(* What ptyd has said of a pane *)

(* A value is never Unset, so what was said of a field tells what it is.   *)
LEMMA PictureSet ==
  ASSUME TypeOK
  PROVE  /\ Picture.title = own.title /\ Picture.fg = fg /\ Picture.bell = own.bell
         /\ \A f \in Fields : Picture[f] # Unset
         /\ own.bell \in BOOLEAN
<1>1. Picture.title = own.title /\ Picture.fg = fg /\ Picture.bell = own.bell BY DEF Picture
<1>2. /\ own.title \in {Null} \cup Titles /\ fg \in {Null} \cup Cmds /\ own.bell \in BOOLEAN
  BY DEF TypeOK
<1>3. Picture.title # Unset /\ Picture.fg # Unset /\ Picture.bell # Unset
  BY <1>1, <1>2, MirrorAssumption
<1> QED BY <1>1, <1>2, <1>3 DEF Fields

(* An announcement leaves nothing unsaid.                                  *)
LEMMA SaidAnnounced ==
  ASSUME TypeOK, NEW p \in Pictures, Announce(p), Picture' = p, run # "none", UNCHANGED <<run, slipped>>
  PROVE  SaidHolds'
<1>1. said' = p BY DEF Announce
<1>2. p.bell \in BOOLEAN BY DEF Pictures
<1>3. said'.bell # Unset BY <1>1, <1>2, MirrorAssumption
<1> QED BY <1>1, <1>3 DEF SaidHolds

LEMMA SaidStep == TypeOK /\ SaidHolds /\ [Next]_vars => SaidHolds'
<1> SUFFICES ASSUME TypeOK, SaidHolds, [Next]_vars PROVE SaidHolds' OBVIOUS
<1> USE DEF ptydVars, mirrorVars, snapVars, jobVars, histVars
<1>0. ASSUME UNCHANGED <<run, own, fg, said>>, slipped' = slipped PROVE SaidHolds'
  BY <1>0 DEF SaidHolds, Picture
<1>1. ASSUME NEW on \in BOOLEAN, Bell(on) PROVE SaidHolds'
  <2> DEFINE p == [Picture EXCEPT !.bell = on]
  <2>1. p \in Pictures BY PictureType DEF Pictures
  <2>2. Picture' = p BY <1>1 DEF Bell, Picture, TypeOK
  <2>3. Announce(p) /\ run # "none" /\ UNCHANGED <<run, slipped>> BY <1>1 DEF Bell
  <2> HIDE DEF p
  <2> QED BY <2>1, <2>2, <2>3, SaidAnnounced
<1>2. CASE PollEnds
  <2>1. CASE run = "none" BY <1>2, <2>1 DEF PollEnds, SaidHolds
  <2>2. CASE run # "none"
    <3> DEFINE p == [Picture EXCEPT !.fg = Sampled]
    <3>1. Sampled \in {Null} \cup Cmds BY <1>2 DEF PollEnds, Sampled, TypeOK
    <3>2. p \in Pictures BY <3>1, PictureType DEF Pictures
    <3>3. Picture' = p BY <1>2 DEF PollEnds, Picture
    <3>4. Announce(p) /\ UNCHANGED <<run, slipped>> BY <1>2, <2>2 DEF PollEnds
    <3> HIDE DEF p
    <3> QED BY <2>2, <3>2, <3>3, <3>4, SaidAnnounced
  <2> QED BY <2>1, <2>2
<1>3. ASSUME NEW t \in Titles, Retitle(t) PROVE SaidHolds'
  <2>1. own'.bell = own.bell /\ UNCHANGED <<run, fg, said, slipped>> BY <1>3 DEF Retitle, TypeOK
  <2>2. Picture'.fg = Picture.fg /\ Picture'.bell = Picture.bell BY <2>1 DEF Picture
  <2> QED BY <2>1, <2>2 DEF SaidHolds
(* A pane that is born has said nothing, and does not ring. *)
<1>4. ASSUME run = "none", Spawned, said' = said, slipped => slipped' PROVE SaidHolds'
  <2>1. own'.bell = FALSE /\ run' = "live" BY <1>4 DEF Spawned, Newborn
  <2>2. ~slipped' => said'.fg = Unset /\ said'.bell = Unset BY <1>4 DEF SaidHolds, Silent
  <2> QED BY <2>1, <2>2 DEF SaidHolds
<1>5. CASE Ensure BY <1>4, <1>5 DEF Ensure
<1>6. CASE Exits \/ PtydRestarts
  <2>1. run' = "none" /\ said' = Silent BY <1>6 DEF Exits, PtydRestarts
  <2> QED BY <2>1 DEF SaidHolds, Silent
<1>7. CASE KillTimesOut BY <1>7 DEF KillTimesOut, SaidHolds
<1>8. CASE Park \/ \E what \in {"close", "respawn"} : Ask(what)
  <2>1. /\ own' = own /\ fg' = fg /\ said' = said /\ slipped' = slipped
        /\ run' = run \/ (run # "none" /\ run' # "none")
    BY <1>8 DEF Park, Ask
  <2> QED BY <2>1 DEF SaidHolds, Picture
<1>9. CASE GoesOn
  <2>1. said' = said /\ fg' = fg /\ (slipped => slipped') BY <1>9 DEF GoesOn
  <2>2. CASE UNCHANGED <<run, own>> BY <2>1, <2>2 DEF SaidHolds, Picture
  <2>3. CASE run = "none" /\ Spawned BY <1>4, <2>1, <2>3
  <2> QED BY <1>9, <2>2, <2>3 DEF GoesOn
<1>10. CASE Receive
  BY <1>0, <1>10 DEF Receive, HearField, HearExit, HearTick, HearKilled, HearSnapshot
<1>11. CASE ApplySnapshot \/ Connect \/ Quiet \/ TakeSnapshot \/ PollBegins \/ Output
            \/ LinkDrops \/ ServerRestarts
  BY <1>0, <1>11 DEF ApplySnapshot, Connect, Quiet, TakeSnapshot, PollBegins, Output,
                     LinkDrops, ServerRestarts
<1>12. CASE UNCHANGED vars BY <1>0, <1>12 DEF vars
<1> QED BY <1>1, <1>2, <1>3, <1>5, <1>6, <1>7, <1>8, <1>9, <1>10, <1>11, <1>12
        DEF Next, Server, Ptyd

-----------------------------------------------------------------------------
(* The truth about a field is on its way *)

(* A step that changes nothing of a field, nor what ptyd owes of it.       *)
Steady(f) == slipped' = slipped /\ (Told(f)' => Told(f) /\ Truth(f)' = Truth(f))

LEMMA SteadyPane ==
  ASSUME NEW f, slipped' = slipped, UNCHANGED <<own, fg, said>>,
         run' = run \/ (run # "none" /\ run' # "none")
  PROVE  Steady(f)
  BY DEF Steady, Told, Truth, Picture

(* A pane that is born has nothing to say that a blank entry does not.     *)
LEMMA SteadyBirth ==
  ASSUME TypeOK, SaidHolds, ~slipped, NEW f \in Fields, run = "none", Spawned,
         UNCHANGED <<fg, said, slipped>>
  PROVE  Steady(f)
<1>1. said' = Silent /\ run' = "live" /\ own' = Newborn BY DEF SaidHolds, Spawned
<1>2. Picture' = [title |-> Null, fg |-> fg, bell |-> FALSE]
  BY <1>1 DEF Picture, Newborn
<1>3. Told(f)' => Picture'[f] = Blank[f]
  <2> SUFFICES ASSUME Told(f)' PROVE Picture'[f] = Blank[f] OBVIOUS
  <2>1. f = "fg" \/ f = "bell" BY <1>1 DEF Told, Fields
  <2>2. CASE f = "bell" BY <1>2, <2>2 DEF Blank
  <2>3. CASE f = "fg"
    <3>1. said'.fg = Unset /\ Picture'.fg = fg BY <1>1, <1>2 DEF Silent
    <3>2. fg # Unset BY PictureSet DEF Fields
    <3> QED BY <1>1, <2>3, <3>1, <3>2 DEF Told
  <2> QED BY <2>1, <2>2, <2>3
<1> QED BY <1>1, <1>3 DEF Steady, Told, Truth

(* Nothing that Comes speaks of changes.                                   *)
LEMMA FieldStays ==
  ASSUME NEW f \in Fields, Comes(f), UNCHANGED <<link, wire, snap, raced, held>>,
         mirror'[f] = mirror[f], Steady(f)
  PROVE  Comes(f)'
<1>1. Touched(f)' <=> Touched(f) BY DEF Touched
<1> QED BY <1>1 DEF Comes, Steady

(* Frames are sent that say nothing of the field.                          *)
LEMMA FieldAppend ==
  ASSUME TypeOK, NEW f \in Fields, Comes(f), NEW fr \in Seq(Frames), Plain(fr), Hushed(f, fr),
         Send(fr), UNCHANGED <<link, snap, raced, held>>, mirror'[f] = mirror[f], Steady(f)
  PROVE  Comes(f)'
<1> SUFFICES ASSUME link', ~slipped', Told(f)' PROVE Comes(f)' BY DEF Comes
<1>0. link /\ ~slipped /\ Told(f) /\ Truth(f)' = Truth(f) BY DEF Steady
<1>1. wire \in Seq(Frames) BY DEF TypeOK
<1>2. wire' = wire \o fr BY <1>0 DEF Send
<1>3. Touched(f)' <=> Touched(f) BY DEF Touched
<1>4. /\ Hushed(f, wire') => Hushed(f, wire)
      /\ \A i \in DOMAIN wire' : Newest(f, wire', i) =>
           i \in DOMAIN wire /\ Newest(f, wire, i) /\ wire'[i] = wire[i]
  BY <1>1, <1>2, AppendHushed
<1>5. \A i \in DOMAIN wire' : Newest(f, wire', i) => Tells(f, wire'[i]) = Truth(f)'
  BY <1>0, <1>4 DEF Comes
<1>6. \A i \in DOMAIN wire' : wire'[i].what = "decos" => i \in DOMAIN wire /\ wire'[i] = wire[i]
  BY <1>1, <1>2, PlainAppend
<1>7. Hushed(f, wire') /\ (snap' = "idle" \/ Touched(f)') => mirror'[f] = Truth(f)'
  BY <1>0, <1>3, <1>4 DEF Comes
<1>8. Hushed(f, wire') /\ ~Touched(f)' =>
         /\ \A i \in DOMAIN wire' : wire'[i].what = "decos" => Shows(f, wire'[i].v) = Truth(f)'
         /\ snap' = "here" => Shows(f, held') = Truth(f)'
  BY <1>0, <1>3, <1>4, <1>6 DEF Comes
<1> QED BY <1>5, <1>7, <1>8 DEF Comes

(* Frames are sent, the newest of which tells how the field stands now.    *)
LEMMA FieldSent ==
  ASSUME TypeOK, NEW f \in Fields, NEW fr \in Seq(Frames), NEW k \in DOMAIN fr,
         Newest(f, fr, k), Send(fr), link' = link, Tells(f, fr[k]) = Truth(f)'
  PROVE  Comes(f)'
<1> SUFFICES ASSUME link PROVE Comes(f)' BY DEF Comes
<1>1. wire \in Seq(Frames) BY DEF TypeOK
<1>2. wire' = wire \o fr BY DEF Send
<1>3. /\ ~Hushed(f, wire')
      /\ \A i \in DOMAIN wire' : Newest(f, wire', i) => wire'[i] = fr[k]
  BY <1>1, <1>2, AppendCarrier
<1> QED BY <1>3 DEF Comes

(* A frame that says nothing of the field is heard.                        *)
LEMMA FieldTail ==
  ASSUME TypeOK, NEW f \in Fields, Comes(f), wire # <<>>, wire' = Tail(wire),
         ~Carries(f, Head(wire)), UNCHANGED <<link, held, snap>>, mirror'[f] = mirror[f],
         Steady(f), Touched(f)' <=> Touched(f)
  PROVE  Comes(f)'
<1> SUFFICES ASSUME link', ~slipped', Told(f)' PROVE Comes(f)' BY DEF Comes
<1>0. link /\ ~slipped /\ Told(f) /\ Truth(f)' = Truth(f) BY DEF Steady
<1>1. wire \in Seq(Frames) BY DEF TypeOK
<1>2. /\ \A i \in DOMAIN wire' : i + 1 \in DOMAIN wire /\ wire'[i] = wire[i + 1]
      /\ \A i \in DOMAIN wire' : Newest(f, wire', i) => Newest(f, wire, i + 1)
      /\ Hushed(f, wire') => Hushed(f, wire)
  BY <1>1, TailSays
<1>3. \A i \in DOMAIN wire' : Newest(f, wire', i) => Tells(f, wire'[i]) = Truth(f)'
  BY <1>0, <1>2 DEF Comes
<1>4. Hushed(f, wire') /\ (snap' = "idle" \/ Touched(f)') => mirror'[f] = Truth(f)'
  BY <1>0, <1>2 DEF Comes
<1>5. ASSUME Hushed(f, wire'), ~Touched(f)'
      PROVE  /\ \A i \in DOMAIN wire' : wire'[i].what = "decos"
                                          => Shows(f, wire'[i].v) = Truth(f)'
             /\ snap' = "here" => Shows(f, held') = Truth(f)'
  <2>1. /\ \A i \in DOMAIN wire : wire[i].what = "decos" => Shows(f, wire[i].v) = Truth(f)
        /\ snap = "here" => Shows(f, held) = Truth(f)
    BY <1>0, <1>2, <1>5 DEF Comes
  <2>2. \A i \in DOMAIN wire' : wire'[i].what = "decos" => Shows(f, wire'[i].v) = Truth(f)'
    BY <1>0, <1>2, <2>1
  <2> QED BY <1>0, <2>1, <2>2
<1> QED BY <1>3, <1>4, <1>5 DEF Comes

(* A frame that says how the field stands is heard.                        *)
LEMMA FieldHeard ==
  ASSUME TypeOK, WireHolds, NEW f \in Fields, Comes(f), wire # <<>>, wire' = Tail(wire),
         Carries(f, Head(wire)), UNCHANGED <<link, snap>>, mirror'[f] = Tells(f, Head(wire)),
         Steady(f), snap # "idle" => Touched(f)'
  PROVE  Comes(f)'
<1> SUFFICES ASSUME link', ~slipped', Told(f)' PROVE Comes(f)' BY DEF Comes
<1>0. link /\ ~slipped /\ Told(f) /\ Truth(f)' = Truth(f) BY DEF Steady
<1>1. wire \in Seq(Frames) BY DEF TypeOK
<1>2. /\ \A i \in DOMAIN wire' : i + 1 \in DOMAIN wire /\ wire'[i] = wire[i + 1]
      /\ \A i \in DOMAIN wire' : Newest(f, wire', i) => Newest(f, wire, i + 1)
      /\ Hushed(f, wire') => Newest(f, wire, 1)
      /\ 1 \in DOMAIN wire /\ Head(wire) = wire[1]
  BY <1>1, TailSays
<1>3. \A i \in DOMAIN wire' : Newest(f, wire', i) => Tells(f, wire'[i]) = Truth(f)'
  BY <1>0, <1>2 DEF Comes
<1>4. Hushed(f, wire') => mirror'[f] = Truth(f)' BY <1>0, <1>2 DEF Comes
<1>5. ~Touched(f)' => /\ \A i \in DOMAIN wire' : wire'[i].what # "decos"
                      /\ snap' # "here"
  BY <1>2 DEF WireHolds
<1> QED BY <1>3, <1>4, <1>5 DEF Comes

(* ptyd announces what has become of the pane.                             *)
LEMMA FieldAnnounced ==
  ASSUME TypeOK, SaidHolds, NEW f \in Fields, Comes(f), NEW p \in Pictures, Announce(p),
         Picture' = p, run # "none", UNCHANGED <<run, link, slipped, mirrorVars, snapVars>>
  PROVE  Comes(f)'
<1> SUFFICES ASSUME ~slipped PROVE Comes(f)' BY DEF Comes
<1>1. Truth(f)' = p[f] /\ said' = p BY DEF Truth, Announce
<1>2. Send(Uttered(p)) BY DEF Announce, Uttered
<1>3. UNCHANGED <<snap, raced, held, mirror>> BY DEF snapVars, mirrorVars
<1>4. CASE said[f] # p[f]
  <2>1. PICK k \in DOMAIN Uttered(p) :
          Newest(f, Uttered(p), k) /\ Uttered(p)[k] = Frame(f, p[f])
    BY <1>4, SaysPlain
  <2>2. Tells(f, Frame(f, p[f])) = p[f] BY DEF Tells, Frame, Fields
  <2> QED BY <1>1, <1>2, <2>1, <2>2, SaysPlain, FieldSent
<1>5. CASE said[f] = p[f]
  <2>1. p[f] # Unset
    <3>1. TypeOK => \A g \in Fields : p[g] # Unset
      <4>1. p.title \in {Null} \cup Titles /\ p.fg \in {Null} \cup Cmds /\ p.bell \in BOOLEAN
        BY DEF Pictures
      <4> QED BY <4>1, MirrorAssumption DEF Fields
    <3> QED BY <3>1
  <2>2. f # "title" => said[f] = Picture[f] BY <1>5, <2>1 DEF SaidHolds, Fields
  <2>3. Steady(f) BY <1>1, <1>5, <2>2 DEF Steady, Told, Truth
  <2> QED BY <1>2, <1>3, <1>5, <2>3, SaysPlain, FieldAppend
<1> QED BY <1>4, <1>5

LEMMA ComesOfPtyd ==
  ASSUME IInv, NEW f \in Fields
  PROVE  (Ensure \/ Output \/ Exits \/ KillTimesOut \/ Park \/ PollBegins \/ PollEnds
           \/ (\E on \in BOOLEAN : Bell(on)) \/ (\E t \in Titles : Retitle(t))) => Comes(f)'
<1> USE DEF ptydVars, mirrorVars, snapVars, jobVars, histVars
<1>0. TypeOK /\ SaidHolds /\ WireHolds /\ Comes(f) /\ Picture \in Pictures
  BY PictureType DEF IInv
<1>1. CASE Ensure
  <2>1. CASE slipped BY <1>1, <2>1 DEF Ensure, Comes
  <2>2. CASE ~slipped
    <3>1. Steady(f) BY <1>0, <1>1, <2>2, SteadyBirth DEF Ensure
    <3> QED BY <1>0, <1>1, <3>1, FieldStays DEF Ensure
  <2> QED BY <2>1, <2>2
<1>2. CASE Output
  <2>1. /\ <<Frame("tick", Null)>> \in Seq(Frames) /\ Plain(<<Frame("tick", Null)>>)
        /\ Hushed(f, <<Frame("tick", Null)>>)
    BY DEF Frame, Frames, Plain, Hushed, Carries, Fields
  <2>2. Steady(f) BY <1>2, SteadyPane DEF Output
  <2> QED BY <1>0, <1>2, <2>1, <2>2, FieldAppend DEF Output
<1>3. CASE Exits
  <2> DEFINE e == <<Frame("exit", Null)>>
  <2>1. /\ e \in Seq(Frames) /\ 1 \in DOMAIN e /\ Newest(f, e, 1) /\ Tells(f, e[1]) = Blank[f]
        /\ Len(e) = 1
    BY DEF Frame, Frames, Newest, Carries, Tells
  <2> HIDE DEF e
  <2>2. /\ e \o Answered \in Seq(Frames) /\ 1 \in DOMAIN (e \o Answered)
        /\ (e \o Answered)[1] = e[1]
        /\ \A i \in DOMAIN (e \o Answered) : i > 1 =>
             i - 1 \in DOMAIN Answered /\ (e \o Answered)[i] = Answered[i - 1]
    <3>1. /\ e \o Answered \in Seq(Frames) /\ DOMAIN (e \o Answered) = 1 .. 1 + Len(Answered)
          /\ DOMAIN Answered = 1 .. Len(Answered) /\ Len(Answered) \in Nat
          /\ \A i \in 1 .. Len(e) : (e \o Answered)[i] = e[i]
          /\ \A i \in 1 .. Len(Answered) : (e \o Answered)[1 + i] = Answered[i]
      <4>1. Answered \in Seq(Frames) BY AnsweredPlain
      <4> QED BY <2>1, <4>1, ConcatAt
    <3>2. ASSUME NEW i \in DOMAIN (e \o Answered), i > 1
          PROVE  i - 1 \in DOMAIN Answered /\ (e \o Answered)[i] = Answered[i - 1]
      <4>1. i - 1 \in 1 .. Len(Answered) /\ 1 + (i - 1) = i BY <3>1, <3>2
      <4> QED BY <3>1, <4>1
    <3> QED BY <2>1, <3>1, <3>2
  <2>3. Newest(f, e \o Answered, 1)
    <3>1. Carries(f, (e \o Answered)[1]) BY <2>1, <2>2 DEF Newest
    <3>2. ASSUME NEW i \in DOMAIN (e \o Answered), i > 1 PROVE ~Carries(f, (e \o Answered)[i])
      BY <2>2, <3>2, AnsweredPlain DEF Hushed
    <3> QED BY <2>2, <3>1, <3>2 DEF Newest
  <2>4. Truth(f)' = Blank[f] BY <1>3 DEF Exits, Truth
  <2>5. Send(e \o Answered) /\ link' = link BY <1>3 DEF Exits, e
  <2> QED BY <1>0, <2>1, <2>2, <2>3, <2>4, <2>5, FieldSent
<1>4. CASE KillTimesOut BY <1>4 DEF KillTimesOut, Comes
<1>5. CASE Park
  <2>1. Steady(f) BY <1>5, SteadyPane DEF Park
  <2> QED BY <1>0, <1>5, <2>1, FieldStays DEF Park
<1>6. CASE PollBegins
  <2>1. Steady(f) BY <1>6, SteadyPane DEF PollBegins
  <2> QED BY <1>0, <1>6, <2>1, FieldStays DEF PollBegins
<1>7. CASE PollEnds
  <2>1. CASE run = "none"
    <3>1. Steady(f) BY <1>7, <2>1 DEF PollEnds, Steady, Told, Truth
    <3> QED BY <1>0, <1>7, <2>1, <3>1, FieldStays DEF PollEnds
  <2>2. CASE run # "none"
    <3> DEFINE p == [Picture EXCEPT !.fg = Sampled]
    <3>1. Sampled \in {Null} \cup Cmds BY <1>0, <1>7 DEF PollEnds, Sampled, TypeOK
    <3>2. p \in Pictures /\ Picture' = p BY <1>0, <1>7, <3>1 DEF PollEnds, Pictures, Picture
    <3>3. Announce(p) /\ UNCHANGED <<run, link, slipped, mirrorVars, snapVars>>
      BY <1>7, <2>2 DEF PollEnds
    <3> HIDE DEF p
    <3> QED BY <1>0, <2>2, <3>2, <3>3, FieldAnnounced
  <2> QED BY <2>1, <2>2
<1>8. ASSUME NEW on \in BOOLEAN, Bell(on) PROVE Comes(f)'
  <2> DEFINE p == [Picture EXCEPT !.bell = on]
  <2>1. p \in Pictures BY <1>0 DEF Pictures
  <2>2. Picture' = p BY <1>0, <1>8 DEF Bell, Picture, TypeOK
  <2>3. /\ Announce(p) /\ run # "none"
        /\ UNCHANGED <<run, link, slipped, mirrorVars, snapVars>>
    BY <1>8 DEF Bell
  <2> HIDE DEF p
  <2> QED BY <1>0, <2>1, <2>2, <2>3, FieldAnnounced
<1>9. ASSUME NEW t \in Titles, Retitle(t) PROVE Comes(f)'
  <2>1. own'.bell = own.bell /\ UNCHANGED <<run, fg, said, slipped>> /\ run # "none"
    BY <1>0, <1>9 DEF Retitle, TypeOK
  <2>2. f # "title" => Picture'[f] = Picture[f] BY <2>1 DEF Picture, Fields
  <2>3. Steady(f) BY <2>1, <2>2 DEF Steady, Told, Truth
  <2> QED BY <1>0, <1>9, <2>3, FieldStays DEF Retitle
<1> QED BY <1>1, <1>2, <1>3, <1>4, <1>5, <1>6, <1>7, <1>8, <1>9

LEMMA ComesOfSnapshot ==
  ASSUME IInv, NEW f \in Fields
  PROVE  (TakeSnapshot \/ ApplySnapshot) => Comes(f)'
<1> USE DEF ptydVars, mirrorVars, snapVars, jobVars, histVars
<1>0. TypeOK /\ WireHolds /\ Comes(f) /\ Picture \in Pictures /\ wire \in Seq(Frames)
  BY PictureType DEF IInv, TypeOK
<1>1. CASE TakeSnapshot
  <2>0. Steady(f) BY <1>1, SteadyPane DEF TakeSnapshot
  <2> SUFFICES ASSUME link, ~slipped, Told(f), Truth(f)' = Truth(f) PROVE Comes(f)'
    BY <1>1, <2>0 DEF TakeSnapshot, Comes, Steady
  <2> DEFINE v == IF run = "none" THEN Null ELSE Picture
             d == <<Frame("decos", v)>>
  <2>1. Shows(f, v) = Truth(f)
    <3>1. CASE run = "none" BY <3>1 DEF Shows, Truth
    <3>2. CASE run # "none"
      <4>1. Picture # Null BY <1>0, MirrorAssumption DEF Pictures
      <4> QED BY <3>2, <4>1 DEF Shows, Truth
    <3> QED BY <3>1, <3>2
  <2>2. /\ mirror' = mirror /\ snap = "asked" /\ snap' = "taken"
        /\ (Touched(f)' <=> Touched(f))
    BY <1>1 DEF TakeSnapshot, Touched
  <2>3. d \in Seq(Frames) /\ Hushed(f, d) BY <1>0 DEF Frame, Frames, Hushed, Carries, Fields
  <2>4. wire' = wire \o d BY <1>1 DEF TakeSnapshot, Send
  <2>5. /\ DOMAIN wire' = 1 .. Len(wire) + 1 /\ DOMAIN wire = 1 .. Len(wire)
        /\ Len(wire) \in Nat /\ wire'[Len(wire) + 1] = Frame("decos", v)
        /\ \A i \in 1 .. Len(wire) : wire'[i] = wire[i]
    BY <1>0, <2>3, <2>4
  <2> HIDE DEF d, v
  <2>6. /\ Hushed(f, wire') => Hushed(f, wire)
        /\ \A i \in DOMAIN wire' : Newest(f, wire', i) =>
             i \in DOMAIN wire /\ Newest(f, wire, i) /\ wire'[i] = wire[i]
    BY <1>0, <2>3, <2>4, AppendHushed
  <2>7. \A i \in DOMAIN wire' : Newest(f, wire', i) => Tells(f, wire'[i]) = Truth(f)'
    BY <1>0, <2>6 DEF Comes
  <2>8. Hushed(f, wire') /\ Touched(f)' => mirror'[f] = Truth(f)'
    BY <1>0, <2>2, <2>6 DEF Comes
  <2>9. ASSUME NEW i \in DOMAIN wire', wire'[i].what = "decos"
        PROVE  Shows(f, wire'[i].v) = Truth(f)'
    <3>1. i = Len(wire) + 1 BY <1>0, <2>2, <2>5, <2>9 DEF WireHolds
    <3>2. wire'[i].v = v BY <2>5, <3>1 DEF Frame
    <3> QED BY <2>1, <2>2, <3>2
  <2> QED BY <2>2, <2>7, <2>8, <2>9 DEF Comes
<1>2. CASE ApplySnapshot
  <2>0. Steady(f) BY <1>2, SteadyPane DEF ApplySnapshot
  <2> SUFFICES ASSUME link, ~slipped, Told(f), Truth(f)' = Truth(f) PROVE Comes(f)'
    BY <1>2, <2>0 DEF ApplySnapshot, Comes, Steady
  <2>1. wire' = wire /\ snap = "here" /\ snap' = "idle" /\ raced' = {}
    BY <1>2 DEF ApplySnapshot
  <2>2. ~Touched(f)' BY <2>1 DEF Touched
  <2>3. \A i \in DOMAIN wire' : wire'[i].what # "decos" BY <1>0, <2>1 DEF WireHolds
  <2>4. ASSUME Hushed(f, wire) PROVE mirror'[f] = Truth(f)
    <3>0. /\ Touched(f) => mirror[f] = Truth(f)
          /\ ~Touched(f) => Shows(f, held) = Truth(f)
      BY <1>0, <2>1, <2>4 DEF Comes
    <3>1. CASE Vetoed BY <1>2, <3>0, <3>1 DEF ApplySnapshot, Vetoed, Touched
    <3>2. ASSUME ~Vetoed, mirror'[f] = Kept(f, Shows(f, held)) PROVE mirror'[f] = Truth(f)
      BY <3>0, <3>2 DEF Kept, Touched, Vetoed
    <3>3. CASE ~Vetoed /\ held # Null
      <4>1. mirror' = Refreshed BY <1>2, <3>3 DEF ApplySnapshot
      <4>2. mirror'[f] = Kept(f, held[f]) BY <1>0, <4>1 DEF Refreshed, TypeOK, Fields
      <4> QED BY <3>2, <3>3, <4>2 DEF Shows
    <3>4. CASE ~Vetoed /\ held = Null
      <4>1. mirror' = Washed BY <1>2, <3>4 DEF ApplySnapshot
      <4>2. mirror'[f] = Kept(f, Blank[f])
        <5>1. CASE f = "title" BY <4>1, <5>1 DEF Washed, Blank
        <5>2. CASE f = "fg" BY <4>1, <5>2 DEF Washed, Blank
        <5>3. CASE f = "bell" BY <4>1, <5>3 DEF Washed, Blank
        <5> QED BY <5>1, <5>2, <5>3 DEF Fields
      <4> QED BY <3>2, <3>4, <4>2 DEF Shows
    <3> QED BY <3>1, <3>3, <3>4
  <2>5. \A i \in DOMAIN wire' : Newest(f, wire', i) => Tells(f, wire'[i]) = Truth(f)'
    BY <1>0, <2>1 DEF Comes
  <2> QED BY <2>1, <2>2, <2>3, <2>4, <2>5 DEF Comes
<1> QED BY <1>1, <1>2

LEMMA ComesOfHeard ==
  ASSUME IInv, NEW f \in Fields
  PROVE  Receive => Comes(f)'
<1> USE DEF ptydVars, mirrorVars, snapVars, jobVars, histVars
<1>0. TypeOK /\ WireHolds /\ Comes(f) /\ wire \in Seq(Frames) BY DEF IInv, TypeOK
<1>1. CASE HearField(f)
  <2>1. /\ wire # <<>> /\ wire' = Tail(wire) /\ Head(wire).what = f
        /\ UNCHANGED <<link, slipped, snap>>
    BY <1>1 DEF HearField, Hear, Head1
  <2>2. mirror'[f] = Head(wire).v BY <1>0, <1>1 DEF HearField, Head1, TypeOK, Fields
  <2>3. Carries(f, Head(wire)) /\ mirror'[f] = Tells(f, Head(wire))
    BY <2>1, <2>2 DEF Carries, Tells, Fields
  <2>4. Steady(f) BY <1>1, SteadyPane DEF HearField
  <2>5. snap # "idle" => Touched(f)' BY <1>1 DEF HearField, Note, Touched
  <2> QED BY <1>0, <2>1, <2>3, <2>4, <2>5, FieldHeard
<1>2. ASSUME NEW g \in Fields, g # f, HearField(g) PROVE Comes(f)'
  <2>1. /\ wire # <<>> /\ wire' = Tail(wire) /\ Head(wire).what = g
        /\ UNCHANGED <<link, slipped, snap, held>>
    BY <1>2 DEF HearField, Hear, Head1
  <2>2. mirror'[f] = mirror[f] BY <1>0, <1>2 DEF HearField, TypeOK, Fields
  <2>3. ~Carries(f, Head(wire)) BY <1>2, <2>1 DEF Carries, Fields
  <2>4. Steady(f) BY <1>2, SteadyPane DEF HearField
  <2>5. Touched(f)' <=> Touched(f) BY <1>2 DEF HearField, Note, Touched, Fields
  <2> QED BY <1>0, <2>1, <2>2, <2>3, <2>4, <2>5, FieldTail
<1>3. CASE HearExit
  <2>1. /\ wire # <<>> /\ wire' = Tail(wire) /\ Head(wire).what = "exit"
        /\ UNCHANGED <<link, slipped, snap>> /\ mirror' = Blank
    BY <1>3 DEF HearExit, Hear, Head1
  <2>2. Carries(f, Head(wire)) /\ mirror'[f] = Tells(f, Head(wire))
    BY <2>1 DEF Carries, Tells
  <2>3. Steady(f) BY <1>3, SteadyPane DEF HearExit
  <2>4. snap # "idle" => Touched(f)' BY <1>3 DEF HearExit, Note, Touched
  <2> QED BY <1>0, <2>1, <2>2, <2>3, <2>4, FieldHeard
<1>4. CASE HearTick \/ HearKilled
  <2>1. /\ wire # <<>> /\ wire' = Tail(wire) /\ Head(wire).what \in {"tick", "killed"}
        /\ UNCHANGED <<link, slipped, snap, held, raced>>
    BY <1>4 DEF HearTick, HearKilled, Hear, Head1
  <2>2. mirror'[f] = mirror[f] BY <1>0, <1>4 DEF HearTick, HearKilled, TypeOK, Fields
  <2>3. ~Carries(f, Head(wire)) BY <2>1 DEF Carries, Fields
  <2>4. Steady(f) /\ (Touched(f)' <=> Touched(f))
    BY <1>4, <2>1, SteadyPane DEF HearTick, HearKilled, Touched
  <2> QED BY <1>0, <2>1, <2>2, <2>3, <2>4, FieldTail
<1>5. CASE HearSnapshot
  <2>0. Steady(f) BY <1>5, SteadyPane DEF HearSnapshot
  <2> SUFFICES ASSUME link, ~slipped, Told(f), Truth(f)' = Truth(f) PROVE Comes(f)'
    BY <1>5, <2>0 DEF HearSnapshot, Comes, Steady
  <2>1. /\ wire # <<>> /\ wire' = Tail(wire) /\ Head(wire).what = "decos"
        /\ mirror' = mirror /\ snap' = "here" /\ held' = Head(wire).v
    BY <1>5 DEF HearSnapshot, Hear, Head1
  <2>2. ~Carries(f, Head(wire)) BY <2>1 DEF Carries, Fields
  <2>3. Touched(f)' <=> Touched(f) BY <1>5 DEF HearSnapshot, Touched
  <2>4. /\ \A i \in DOMAIN wire' : i + 1 \in DOMAIN wire /\ wire'[i] = wire[i + 1]
        /\ \A i \in DOMAIN wire' : Newest(f, wire', i) => Newest(f, wire, i + 1)
        /\ Hushed(f, wire') => Hushed(f, wire)
        /\ 1 \in DOMAIN wire /\ Head(wire) = wire[1]
    BY <1>0, <2>1, <2>2, TailSays
  <2>5. \A i \in DOMAIN wire' : Newest(f, wire', i) => Tells(f, wire'[i]) = Truth(f)'
    BY <1>0, <2>4 DEF Comes
  <2>6. Hushed(f, wire') /\ Touched(f)' => mirror'[f] = Truth(f)'
    BY <1>0, <2>1, <2>3, <2>4 DEF Comes
  <2>7. Hushed(f, wire') /\ ~Touched(f)' =>
          \A i \in DOMAIN wire : wire[i].what = "decos" => Shows(f, wire[i].v) = Truth(f)
    BY <1>0, <2>3, <2>4 DEF Comes
  <2>8. Hushed(f, wire') /\ ~Touched(f)' => Shows(f, held') = Truth(f)'
    BY <2>1, <2>4, <2>7
  <2>9. Hushed(f, wire') /\ ~Touched(f)' =>
          \A i \in DOMAIN wire' : wire'[i].what = "decos" => Shows(f, wire'[i].v) = Truth(f)'
    BY <2>3, <2>4, <2>7
  <2>10. Hushed(f, wire') /\ (snap' = "idle" \/ Touched(f)') => mirror'[f] = Truth(f)'
    BY <2>1, <2>6
  <2> QED BY <2>5, <2>8, <2>9, <2>10 DEF Comes
<1> QED BY <1>1, <1>2, <1>3, <1>4, <1>5 DEF Receive

LEMMA ComesOfServer ==
  ASSUME IInv, NEW f \in Fields
  PROVE  (Quiet \/ Connect \/ GoesOn \/ (\E what \in {"close", "respawn"} : Ask(what))
           \/ LinkDrops \/ PtydRestarts \/ ServerRestarts) => Comes(f)'
<1> USE DEF ptydVars, mirrorVars, snapVars, jobVars, histVars
<1>0. TypeOK /\ SaidHolds /\ WireHolds /\ Comes(f) /\ wire \in Seq(Frames) BY DEF IInv, TypeOK
<1>1. CASE Quiet
  <2>1. Steady(f) BY <1>1, SteadyPane DEF Quiet
  <2>2. mirror'[f] = mirror[f] BY <1>0, <1>1 DEF Quiet, TypeOK, Fields
  <2> QED BY <1>0, <1>1, <2>1, <2>2, FieldStays DEF Quiet
<1>2. CASE Connect
  <2>1. wire' = <<>> /\ snap' = "asked" /\ raced' = {} BY <1>0, <1>2 DEF Connect, WireHolds
  <2>2. DOMAIN wire' = {} /\ ~Touched(f)' BY <2>1 DEF Touched
  <2> QED BY <2>1, <2>2 DEF Comes
<1>3. CASE GoesOn
  <2> SUFFICES ASSUME link, ~slipped' PROVE Comes(f)' BY <1>3 DEF GoesOn, Comes
  <2>1. /\ UNCHANGED <<link, wire, snap, raced, held, fg, said>> /\ mirror' = Blank
        /\ ~slipped /\ (run = "none" \/ [mirror EXCEPT !.busy = FALSE] = Blank)
    BY <1>3 DEF GoesOn
  <2>2. slipped' = slipped BY <1>0, <1>3, <2>1 DEF GoesOn, TypeOK
  <2>3. CASE run = "none"
    <3>1. Steady(f) /\ (Told(f)' => Truth(f)' = Blank[f])
      <4>1. Truth(f) = Blank[f] BY <2>3 DEF Truth
      <4>2. Steady(f)
        <5>1. CASE UNCHANGED <<run, own>> BY <2>1, <2>2, <5>1, SteadyPane
        <5>2. CASE Spawned BY <1>0, <2>1, <2>2, <2>3, <5>2, SteadyBirth
        <5> QED BY <1>3, <5>1, <5>2 DEF GoesOn
      <4> QED BY <4>1, <4>2 DEF Steady
    <3>2. Touched(f)' <=> Touched(f) BY <2>1 DEF Touched
    <3> QED BY <1>0, <2>1, <2>2, <3>1, <3>2 DEF Comes, Steady
  <2>4. CASE run # "none"
    <3>1. [mirror EXCEPT !.busy = FALSE][f] = Blank[f] BY <2>1, <2>4
    <3>2. mirror[f] = Blank[f] BY <1>0, <3>1 DEF TypeOK, Fields
    <3>3. Steady(f) BY <1>3, <2>1, <2>2, <2>4, SteadyPane DEF GoesOn
    <3> QED BY <1>0, <2>1, <3>2, <3>3, FieldStays
  <2> QED BY <2>3, <2>4
<1>4. ASSUME NEW what \in {"close", "respawn"}, Ask(what) PROVE Comes(f)'
  <2>1. /\ <<Frame("killed", Null)>> \in Seq(Frames) /\ Plain(<<Frame("killed", Null)>>)
        /\ Hushed(f, <<Frame("killed", Null)>>)
    BY DEF Frame, Frames, Plain, Hushed, Carries, Fields
  <2>2. Steady(f) BY <1>4, SteadyPane DEF Ask
  <2>3. /\ UNCHANGED <<link, snap, raced, held, mirror>>
        /\ UNCHANGED wire \/ Send(<<Frame("killed", Null)>>)
    BY <1>0, <1>4 DEF Ask, TypeOK
  <2> QED BY <1>0, <2>1, <2>2, <2>3, FieldStays, FieldAppend
<1>5. CASE LinkDrops \/ PtydRestarts \/ ServerRestarts
  <2>1. link' = FALSE BY <1>5 DEF LinkDrops, PtydRestarts, ServerRestarts, Unlinks
  <2> QED BY <2>1 DEF Comes
<1> QED BY <1>1, <1>2, <1>3, <1>4, <1>5

LEMMA IInvStep == IInv /\ [Next]_vars => IInv'
<1> SUFFICES ASSUME IInv, [Next]_vars PROVE IInv' OBVIOUS
<1>1. TypeOK' /\ SaidHolds' /\ WireHolds' BY TypeStep, SaidStep, WireStep DEF IInv
<1>2. ASSUME NEW f \in Fields PROVE Comes(f)'
  <2>1. CASE Next
    BY <2>1, ComesOfPtyd, ComesOfSnapshot, ComesOfHeard, ComesOfServer DEF Next, Server, Ptyd
  <2>2. CASE UNCHANGED vars
    <3>1. Steady(f) BY <2>2, SteadyPane DEF vars, ptydVars, histVars
    <3> QED BY <2>2, <3>1, FieldStays DEF vars, mirrorVars, snapVars, IInv
  <2> QED BY <2>1, <2>2
<1>3. (\A f \in Fields : Comes(f))' BY <1>2 DEF Fields
<1> QED BY <1>1, <1>3 DEF IInv

LEMMA IInvInit == Init => IInv
<1> SUFFICES ASSUME Init PROVE IInv OBVIOUS
<1>1. TypeOK BY TypeInit
<1>2. SaidHolds
  <2>1. CASE run = "none" /\ said = Silent BY <2>1 DEF SaidHolds
  <2>2. CASE run = "live" /\ said \in [title : {Null} \cup Titles, fg : {fg}, bell : {own.bell}]
    <3>1. said.fg = Picture.fg /\ said.bell = Picture.bell BY <2>2 DEF Picture
    <3>2. said.bell # Unset BY <1>1, <3>1, PictureSet DEF Fields
    <3> QED BY <2>2, <3>1, <3>2 DEF SaidHolds
  <2>3. CASE run = "live" /\ said = Silent /\ ~own.bell
    <3>1. own.bell = FALSE /\ said.bell = Unset /\ said.fg = Unset
      BY <1>1, <2>3 DEF Silent, TypeOK
    <3> QED BY <2>3, <3>1 DEF SaidHolds
  <2> QED BY <2>1, <2>2, <2>3 DEF Init
<1>3. wire = <<>> /\ DOMAIN wire = {} /\ ~link /\ snap = "idle" /\ raced = {} BY DEF Init
<1> QED BY <1>1, <1>2, <1>3 DEF IInv, WireHolds, Comes

LEMMA IInvHolds == Spec => []IInv
  BY IInvInit, IInvStep, PTL DEF Spec

(* With nothing on its way, what ptyd owes nothing of is what is shown.    *)
LEMMA ShownIsTrue ==
  ASSUME IInv, Settled, ~slipped, NEW f \in Fields, Told(f)
  PROVE  mirror[f] = Truth(f)
<1>1. link /\ wire = <<>> /\ snap = "idle" BY DEF Settled
<1>2. Hushed(f, wire) BY <1>1 DEF Hushed
<1> QED BY <1>1, <1>2 DEF IInv, Comes

(* The bell the server shows is the bell that rings whenever nothing is on *)
(* its way between the two: whatever was lost, restarted or crossed by the *)
(* snapshot before, but for a kill by force or a pane forgotten alive.     *)
THEOREM BellTrue == Spec => []BellMirrored
<1>1. IInv => BellMirrored
  <2> SUFFICES ASSUME IInv, Settled, ~slipped PROVE mirror.bell = Rings BY DEF BellMirrored
  <2>1. Told("bell")
    <3>1. CASE run = "none" BY <3>1 DEF Told
    <3>2. CASE run # "none" BY <3>2 DEF Told, IInv, SaidHolds, Picture, Blank
    <3> QED BY <3>1, <3>2
  <2>2. mirror.bell = Truth("bell") BY <2>1, ShownIsTrue DEF Fields
  <2>3. own.bell \in BOOLEAN BY DEF IInv, TypeOK
  <2>4. Truth("bell") = Rings
    <3>1. CASE run = "none" BY <3>1 DEF Truth, Rings, Blank
    <3>2. CASE run # "none" BY <2>3, <3>2 DEF Truth, Rings, Picture
    <3> QED BY <3>1, <3>2
  <2> QED BY <2>2, <2>4
<1> QED BY <1>1, IInvHolds, PTL

(* So is the foreground command, as soon as ptyd has said it; and of a     *)
(* pane that ptyd does not have nothing is shown, neither a command nor a  *)
(* title (applyEvent, refreshFromSnapshot and forget of ptyd-cache.ts).    *)
THEOREM CommandTrue == Spec => []CommandMirrored
<1>1. IInv => CommandMirrored
  <2> SUFFICES ASSUME IInv, Settled, ~slipped
               PROVE  /\ run # "none" /\ said.fg = fg => mirror.fg = fg
                      /\ run = "none" => mirror.title = Null /\ mirror.fg = Null
    BY DEF CommandMirrored
  <2>1. ASSUME run # "none", said.fg = fg PROVE mirror.fg = fg
    <3>1. Told("fg") /\ Truth("fg") = fg BY <2>1 DEF Told, Truth, Picture
    <3> QED BY <3>1, ShownIsTrue DEF Fields
  <2>2. ASSUME run = "none" PROVE mirror.title = Null /\ mirror.fg = Null
    <3>1. Told("title") /\ Told("fg") BY <2>2 DEF Told
    <3>2. Truth("title") = Null /\ Truth("fg") = Null BY <2>2 DEF Truth, Blank
    <3> QED BY <3>1, <3>2, ShownIsTrue DEF Fields
  <2> QED BY <2>1, <2>2
<1> QED BY <1>1, IInvHolds, PTL
===============================================================================
