-------------------------- MODULE EfiScreenProofs --------------------------
(***************************************************************************)
(* What EfiScreen promises, for every screen, box and speed.  The          *)
(* inductive invariant is the type invariant, BoxOnScreen and the fact     *)
(* that the box never comes to rest: a box at rest on an edge would be     *)
(* turned round in every frame.  BouncesInTime needs, on top of that, how  *)
(* the frames since the last bounce relate to the position (CoveredWay).   *)
(***************************************************************************)
EXTENDS EfiScreen, TLAPS

(* The box always has some speed along both axes. *)
Moving == dx # 0 /\ dy # 0

IInv == BoxTypeOK /\ BoxOnScreen /\ Moving

(* The four comparisons of main bring any coordinate onto the screen. *)
LEMMA ClampOnScreen ==
  ASSUME NEW v \in Int, NEW size \in Nat, BoxSize < size
  PROVE  Clamp(v, size) \in 0..(size - BoxSize)
BY BoxAssumption DEF Clamp

(* A bounce turns the box round and makes it faster by one. *)
LEMMA BounceTurns ==
  ASSUME NEW d \in Int, d # 0
  PROVE  /\ Bounce(d) \in Int
         /\ d > 0 => Bounce(d) < 0
         /\ d < 0 => Bounce(d) > 0
         /\ Abs(Bounce(d)) = Abs(d) + 1
BY DEF Bounce, Abs

(* The invariant holds at the start. *)
LEMMA InitIInv == BoxInit => IInv
<1> SUFFICES ASSUME BoxInit PROVE IInv
  OBVIOUS
<1>1. /\ x \in Int /\ y \in Int /\ dx \in Int /\ dy \in Int
      /\ color \in 0..(NumColors - 1) /\ idle \in Nat
      /\ dx # 0 /\ dy # 0
  BY BoxAssumption DEF BoxInit
<1>2. pc = "input" /\ paused \in BOOLEAN /\ hit \in BOOLEAN
  BY Zenon DEF BoxInit
<1> QED
  BY <1>1, <1>2 DEF IInv, BoxTypeOK, BoxOnScreen, Moving

(* A turn of the key chain, whatever the key. *)
LEMMA InputIInv ==
  ASSUME IInv, NEW mx \in Int, NEW my \in Int, NEW t \in BOOLEAN,
         Input(mx, my, t)
  PROVE  IInv'
<1>1. x + mx \in Int /\ y + my \in Int
  BY DEF IInv, BoxTypeOK
<1>2. /\ x' \in 0..(Width - BoxSize)
      /\ y' \in 0..(Height - BoxSize)
  BY <1>1, ClampOnScreen, BoxAssumption DEF Input
<1>3. BoxTypeOK'
  <2>1. x' \in Int /\ y' \in Int
    BY <1>2, BoxAssumption
  <2>2. paused' \in BOOLEAN
    BY Zenon DEF Input, IInv, BoxTypeOK
  <2>3. pc' = "draw" /\ idle' \in Nat
    BY DEF Input, IInv, BoxTypeOK
  <2> QED
    BY <2>1, <2>2, <2>3 DEF Input, IInv, BoxTypeOK
<1>4. BoxOnScreen'
  BY <1>2 DEF BoxOnScreen
<1>5. Moving'
  BY DEF Input, IInv, Moving
<1> QED
  BY <1>3, <1>4, <1>5 DEF IInv

(* A frame keeps the box on the screen. *)
LEMMA FrameIInv ==
  ASSUME IInv, Frame
  PROVE  IInv'
<1>1. dx' \in Int /\ dx' # 0
  BY BounceTurns DEF Frame, IInv, BoxTypeOK, Moving
<1>2. dy' \in Int /\ dy' # 0
  BY BounceTurns DEF Frame, IInv, BoxTypeOK, Moving
<1>3. hit' \in BOOLEAN
  BY Zenon DEF Frame, AtEdge
<1>4. color' \in 0..(NumColors - 1)
  BY <1>3, BoxAssumption DEF Frame, NextColor, IInv, BoxTypeOK
<1>5. idle' \in Nat
  BY <1>3 DEF Frame, IInv, BoxTypeOK
<1>6. x' \in Int /\ y' \in Int /\ pc' = "input" /\ paused' = paused
  BY DEF Frame, IInv, BoxTypeOK
<1> QED
  BY <1>1, <1>2, <1>3, <1>4, <1>5, <1>6 DEF IInv, BoxTypeOK, BoxOnScreen, Moving

(* Every step keeps it. *)
LEMMA NextIInv == IInv /\ [BoxNext]_boxVars => IInv'
<1> SUFFICES ASSUME IInv, [BoxNext]_boxVars PROVE IInv'
  OBVIOUS
<1>0. KeyStep \in Int /\ -KeyStep \in Int /\ 0 \in Int
  BY BoxAssumption
<1>1. CASE NoKey
  BY <1>0, <1>1, InputIInv DEF NoKey
<1>2. CASE SpaceKey
  BY <1>0, <1>2, InputIInv DEF SpaceKey
<1>3. CASE Up
  BY <1>0, <1>3, InputIInv DEF Up
<1>4. CASE Left
  BY <1>0, <1>4, InputIInv DEF Left
<1>5. CASE Right
  BY <1>0, <1>5, InputIInv DEF Right
<1>6. CASE Down
  BY <1>0, <1>6, InputIInv DEF Down
<1>7. CASE SkipFrame
  BY <1>7 DEF SkipFrame, IInv, BoxTypeOK, BoxOnScreen, Moving
<1>8. CASE Frame
  BY <1>8, FrameIInv
<1>9. CASE UNCHANGED boxVars
  BY <1>9 DEF boxVars, IInv, BoxTypeOK, BoxOnScreen, Moving
<1> QED
  BY <1>1, <1>2, <1>3, <1>4, <1>5, <1>6, <1>7, <1>8, <1>9 DEF BoxNext

(* So it always holds. *)
LEMMA AlwaysIInv == BoxSpec => []IInv
BY InitIInv, NextIInv, PTL DEF BoxSpec

(* On every screen, the variables of the animation keep their types and    *)
(* the colour index stays inside list_colors.                              *)
THEOREM TypeCorrect == BoxSpec => []BoxTypeOK
<1>1. IInv => BoxTypeOK
  BY DEF IInv
<1> QED
  BY <1>1, AlwaysIInv, PTL

(* draw_box never gets a box that reaches past the back buffer, whatever   *)
(* the size of the screen, the speed of the box and the keys pressed.      *)
THEOREM BoxStaysOnScreen == BoxSpec => []BoxOnScreen
<1>1. IInv => BoxOnScreen
  BY DEF IInv
<1> QED
  BY <1>1, AlwaysIInv, PTL

(* A frame turns the box at an edge. *)
LEMMA FrameLeavesEdge ==
  ASSUME IInv, Frame
  PROVE  /\ x' <= 0 => dx' > 0
         /\ x' + BoxSize >= Width => dx' < 0
         /\ y' <= 0 => dy' > 0
         /\ y' + BoxSize >= Height => dy' < 0
<1> USE BoxAssumption DEF IInv, BoxTypeOK, BoxOnScreen, Moving
<1>1. /\ x \in 0..(Width - BoxSize) /\ y \in 0..(Height - BoxSize)
      /\ x' = x + dx /\ y' = y + dy
  BY DEF Frame
<1>2. /\ x' <= 0 => dx < 0
      /\ x' + BoxSize >= Width => dx > 0
      /\ y' <= 0 => dy < 0
      /\ y' + BoxSize >= Height => dy > 0
  BY <1>1
<1>3. /\ x' <= 0 \/ x' + BoxSize >= Width => dx' = Bounce(dx)
      /\ y' <= 0 \/ y' + BoxSize >= Height => dy' = Bounce(dy)
  BY DEF Frame, AtEdge
<1> QED
  BY <1>2, <1>3, BounceTurns

(* A box that a frame leaves on an edge, or past it, leaves that edge.     *)
THEOREM BoxLeavesEdge == BoxSpec => LeavesEdge
<1> DEFINE A == (pc = "draw" /\ pc' = "input" /\ ~paused) =>
                  /\ x' <= 0 => dx' > 0
                  /\ x' + BoxSize >= Width => dx' < 0
                  /\ y' <= 0 => dy' > 0
                  /\ y' + BoxSize >= Height => dy' < 0
<1>1. ASSUME IInv, [BoxNext]_boxVars PROVE [A]_boxVars
  <2> SUFFICES ASSUME pc = "draw", pc' = "input", ~paused PROVE A
    OBVIOUS
  <2>1. Frame
    BY <1>1 DEF BoxNext, NoKey, SpaceKey, Up, Left, Right, Down, Input, SkipFrame, boxVars
  <2> QED
    BY <1>1, <2>1, FrameLeavesEdge
<1> QED
  BY <1>1, AlwaysIInv, PTL DEF BoxSpec, LeavesEdge

(* The box never slows down and gets faster exactly when it hits an edge.  *)
THEOREM BoxNeverSlows == BoxSpec => SpeedStep
<1> DEFINE A == /\ Abs(dx') \in {Abs(dx), Abs(dx) + 1}
                /\ Abs(dy') \in {Abs(dy), Abs(dy) + 1}
                /\ (Abs(dx') # Abs(dx) \/ Abs(dy') # Abs(dy)) => hit'
<1>1. ASSUME IInv, [BoxNext]_boxVars PROVE [A]_boxVars
  <2>1. CASE Frame
    <3>1. /\ dx' = dx \/ (dx' = Bounce(dx) /\ hit')
          /\ dy' = dy \/ (dy' = Bounce(dy) /\ hit')
      BY <2>1 DEF Frame
    <3> QED
      BY <1>1, <3>1, BounceTurns DEF IInv, BoxTypeOK, Moving
  <2>2. CASE dx' = dx /\ dy' = dy
    BY <2>2
  <2> QED
    BY <1>1, <2>1, <2>2
       DEF BoxNext, NoKey, SpaceKey, Up, Left, Right, Down, Input, SkipFrame, boxVars
<1> QED
  BY <1>1, AlwaysIInv, PTL DEF BoxSpec, SpeedStep

-----------------------------------------------------------------------------
(* The way along one axis that the last n frames, those since the last     *)
(* bounce or key, have covered lies on the screen, behind the box.         *)
Covered(n, v, d, size) ==
  /\ v \in 0..(size - BoxSize)
  /\ d > 0 => n * d <= v
  /\ d < 0 => n * (-d) <= size - BoxSize - v

(* At the top of the loop a box that has just bounced may lie past an      *)
(* edge; the key chain of that turn brings it back.                        *)
CoveredWay ==
  pc = "draw" \/ idle > 0 => Covered(idle, x, dx, Width) /\ Covered(idle, y, dy, Height)

(* The way of one more frame. *)
LEMMA OneMoreStep ==
  ASSUME NEW n \in Nat, NEW d \in Int
  PROVE  (n + 1) * d = n * d + d /\ (n + 1) * (-d) = n * (-d) - d
OBVIOUS

(* One frame along one axis, with no edge hit. *)
LEMMA FrameCovers ==
  ASSUME NEW size \in Nat, NEW v \in Int, NEW d \in Int, NEW n \in Nat,
         Covered(n, v, d, size), ~AtEdge(v + d, size)
  PROVE  Covered(n + 1, v + d, d, size)
<1>1. v + d \in 0..(size - BoxSize)
  BY BoxAssumption DEF AtEdge
<1>2. n * d \in Int /\ n * (-d) \in Int
  OBVIOUS
<1>3. d > 0 => (n + 1) * d <= v + d
  BY <1>2, OneMoreStep DEF Covered
<1>4. d < 0 => (n + 1) * (-d) <= size - BoxSize - (v + d)
  BY <1>2, OneMoreStep, BoxAssumption DEF Covered
<1> QED
  BY <1>1, <1>3, <1>4 DEF Covered

(* A box with nothing behind it. *)
LEMMA NothingCovered ==
  ASSUME NEW size \in Nat, BoxSize < size, NEW v \in 0..(size - BoxSize), NEW d \in Int
  PROVE  Covered(0, v, d, size)
<1>1. 0 * d = 0 /\ 0 * (-d) = 0
  OBVIOUS
<1> QED
  BY <1>1, BoxAssumption DEF Covered

(* A key starts the count again. *)
LEMMA InputCovers ==
  ASSUME IInv, CoveredWay, NEW mx \in Int, NEW my \in Int, NEW t, Input(mx, my, t)
  PROVE  CoveredWay'
<1>1. /\ x \in Int /\ y \in Int /\ dx \in Int /\ dy \in Int /\ idle \in Nat
      /\ x' = Clamp(x + mx, Width) /\ y' = Clamp(y + my, Height)
      /\ dx' = dx /\ dy' = dy
      /\ idle' = (IF mx = 0 /\ my = 0 THEN idle ELSE 0)
  BY DEF IInv, BoxTypeOK, Input
<1>2. x' \in 0..(Width - BoxSize) /\ y' \in 0..(Height - BoxSize)
  BY <1>1, ClampOnScreen, BoxAssumption
<1>3. CASE idle' = 0
  BY <1>1, <1>2, <1>3, NothingCovered, BoxAssumption DEF CoveredWay
<1>4. CASE idle' # 0
  <2>1. mx = 0 /\ my = 0 /\ idle' = idle /\ idle > 0
    BY <1>1, <1>4
  <2>2. Covered(idle, x, dx, Width) /\ Covered(idle, y, dy, Height)
    BY <2>1 DEF CoveredWay
  <2>3. x' = x /\ y' = y
    BY <1>1, <2>1, <2>2, BoxAssumption DEF Clamp, Covered
  <2> QED
    BY <1>1, <2>1, <2>2, <2>3 DEF CoveredWay
<1> QED
  BY <1>3, <1>4

(* A frame covers one more step of the way, in both directions. *)
LEMMA FrameCoversBoth == ASSUME IInv, CoveredWay, Frame PROVE CoveredWay'
<1>1. /\ x \in Int /\ y \in Int /\ dx \in Int /\ dy \in Int /\ idle \in Nat
      /\ Covered(idle, x, dx, Width) /\ Covered(idle, y, dy, Height)
      /\ x' = x + dx /\ y' = y + dy /\ pc' = "input"
  BY DEF IInv, BoxTypeOK, CoveredWay, Frame
<1>2. CASE AtEdge(x', Width) \/ AtEdge(y', Height)
  <2>1. idle' = 0
    BY <1>2 DEF Frame
  <2> QED
    BY <1>1, <2>1 DEF CoveredWay
<1>3. CASE ~AtEdge(x', Width) /\ ~AtEdge(y', Height)
  <2>1. idle' = idle + 1 /\ dx' = dx /\ dy' = dy
    BY <1>3 DEF Frame
  <2> QED
    BY <1>1, <1>3, <2>1, FrameCovers, BoxAssumption DEF CoveredWay
<1> QED
  BY <1>2, <1>3

(* Every step keeps the way covered. *)
LEMMA NextCovers == IInv /\ CoveredWay /\ [BoxNext]_boxVars => CoveredWay'
<1> SUFFICES ASSUME IInv, CoveredWay, [BoxNext]_boxVars PROVE CoveredWay'
  OBVIOUS
<1>0. KeyStep \in Int /\ -KeyStep \in Int /\ 0 \in Int
  BY BoxAssumption
<1>1. CASE NoKey \/ SpaceKey \/ Up \/ Left \/ Right \/ Down
  BY <1>0, <1>1, InputCovers DEF NoKey, SpaceKey, Up, Left, Right, Down
<1>2. CASE SkipFrame \/ UNCHANGED boxVars
  BY <1>2 DEF SkipFrame, CoveredWay, Covered, boxVars
<1>3. CASE Frame
  BY <1>3, FrameCoversBoth
<1> QED
  BY <1>1, <1>2, <1>3 DEF BoxNext

(* Left alone, the box reaches an edge before it could have crossed the    *)
(* whole screen, for every screen and however fast it has become.          *)
THEOREM BoxBouncesInTime == BoxSpec => []BouncesInTime
<1>1. BoxInit => CoveredWay
  BY DEF BoxInit, CoveredWay
<1>2. IInv /\ CoveredWay => BouncesInTime
  <2> SUFFICES ASSUME IInv, CoveredWay PROVE BouncesInTime
    OBVIOUS
  <2>1. idle \in Nat /\ dx \in Int /\ dy \in Int /\ dx # 0 /\ dy # 0
    BY DEF IInv, BoxTypeOK, Moving
  <2>2. CASE idle = 0
    BY <2>1, <2>2, BoxAssumption DEF BouncesInTime, Abs
  <2>3. CASE idle > 0
    <3>1. Covered(idle, x, dx, Width) /\ Covered(idle, y, dy, Height)
      BY <2>3 DEF CoveredWay
    <3>2. /\ idle * dx \in Int /\ idle * (-dx) \in Int
          /\ idle * dy \in Int /\ idle * (-dy) \in Int
      BY <2>1
    <3>3. idle * Abs(dx) <= Width - BoxSize
      BY <2>1, <3>1, <3>2, BoxAssumption DEF Covered, Abs
    <3>4. idle * Abs(dy) <= Height - BoxSize
      BY <2>1, <3>1, <3>2, BoxAssumption DEF Covered, Abs
    <3> QED
      BY <3>3, <3>4 DEF BouncesInTime
  <2> QED
    BY <2>1, <2>2, <2>3
<1> QED
  BY <1>1, <1>2, AlwaysIInv, NextCovers, PTL DEF BoxSpec
=============================================================================
