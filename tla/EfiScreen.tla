----------------------------- MODULE EfiScreen -----------------------------
(***************************************************************************)
(* The animation of the UEFI kernel (efi-boot/main.c): a box of BoxSize    *)
(* pixels that bounces off the edges of a Width x Height screen, gets      *)
(* faster at each bounce and is pushed around with the arrow keys.  These  *)
(* variables are local to main; EfiLoop models how a key gets here.        *)
(*                                                                         *)
(* draw_pixel writes to the back buffer without any check, so where the    *)
(* box is drawn decides which memory is written.                           *)
(***************************************************************************)
EXTENDS Integers

CONSTANTS
  Width, Height,   \* the mode of the screen
  BoxSize,         \* box_size
  KeyStep,         \* how far an arrow key moves the box
  StartX, StartY,  \* x and y before the loop
  StartDx, StartDy,
  NumColors,       \* num_colors
  MaxSpeed         \* bound: no frame is drawn once the box is faster

(* main.c: 60 pixels, a step of 10, a start at (100, 100) with speed       *)
(* (4, 3).  The screen is larger than the box, as in any mode of the GOP.  *)
ASSUME BoxAssumption ==
  /\ Width \in Nat /\ Height \in Nat /\ BoxSize \in Nat /\ KeyStep \in Nat
  /\ BoxSize < Width /\ BoxSize < Height
  /\ StartX \in Nat /\ StartY \in Nat
  /\ StartDx \in Nat \ {0} /\ StartDy \in Nat \ {0}
  /\ NumColors \in Nat \ {0}
  /\ MaxSpeed \in Nat

VARIABLES
  pc,            \* "input": top of the loop; "draw": before if (paused == 0)
  x, y, dx, dy,
  color,         \* index_atual_color
  paused,
  hit,           \* hit_on_edge of the last frame
  idle           \* history: frames since the last bounce or key

boxVars == <<pc, x, y, dx, dy, color, paused, hit, idle>>

Abs(v) == IF v < 0 THEN -v ELSE v

BoxInit ==
  /\ pc = "input"
  /\ x = StartX /\ y = StartY /\ dx = StartDx /\ dy = StartDy
  /\ color = 0 /\ paused = FALSE /\ hit = FALSE /\ idle = 0

-----------------------------------------------------------------------------
(* A mutant: only the left and the upper edge are checked. *)
ClampLow(v, size) == IF v < 0 THEN 0 ELSE v

(* if (v < 0) v = 0; if (v + box_size > size) v = size - box_size *)
Clamp(v, size) ==
  LET low == IF v < 0 THEN 0 ELSE v
  IN  IF low + BoxSize > size THEN size - BoxSize ELSE low

(* The chain of key comparisons takes at most one branch in a turn of the  *)
(* loop; the position is clamped in any case.                              *)
Input(mx, my, toggle) ==
  /\ pc = "input"
  /\ x' = Clamp(x + mx, Width)
  /\ y' = Clamp(y + my, Height)
  /\ paused' = (IF toggle THEN ~paused ELSE paused)
  /\ idle' = (IF mx = 0 /\ my = 0 THEN idle ELSE 0)
  /\ pc' = "draw"
  /\ UNCHANGED <<dx, dy, color, hit>>

NoKey    == Input(0, 0, FALSE)
SpaceKey == Input(0, 0, TRUE)
Up       == Input(0, -KeyStep, FALSE)
Left     == Input(-KeyStep, 0, FALSE)
Right    == Input(KeyStep, 0, FALSE)
Down     == Input(0, KeyStep, FALSE)

(* if (paused == 0) fails: back to the top. *)
SkipFrame ==
  /\ pc = "draw" /\ paused
  /\ pc' = "input"
  /\ UNCHANGED <<x, y, dx, dy, color, paused, hit, idle>>

(* A coordinate past the edge, or on it. *)
AtEdge(v, size) == v <= 0 \/ v + BoxSize >= size

(* A mutant: the box is not turned round. *)
BounceOn(d) == IF d > 0 THEN d + 1 ELSE d - 1

(* d = -d; d += (d > 0) ? 1 : -1 *)
Bounce(d) == LET r == -d IN IF r > 0 THEN r + 1 ELSE r - 1

NextColor(c) == IF c + 1 >= NumColors THEN 0 ELSE c + 1

(* A mutant: the frame moves the box along x only. *)
FrameNoMove ==
  /\ pc = "draw" /\ ~paused
  /\ Abs(dx) <= MaxSpeed /\ Abs(dy) <= MaxSpeed
  /\ x' = x /\ y' = y
  /\ dx' = (IF AtEdge(x', Width) THEN Bounce(dx) ELSE dx)
  /\ dy' = (IF AtEdge(y', Height) THEN Bounce(dy) ELSE dy)
  /\ hit' = (AtEdge(x', Width) \/ AtEdge(y', Height))
  /\ color' = (IF hit' THEN NextColor(color) ELSE color)
  /\ idle' = (IF hit' THEN 0 ELSE idle + 1)
  /\ pc' = "input"
  /\ UNCHANGED paused

(* The frame is drawn at (x, y), then the box moves and bounces. *)
Frame ==
  /\ pc = "draw" /\ ~paused
  /\ Abs(dx) <= MaxSpeed /\ Abs(dy) <= MaxSpeed
  /\ x' = x + dx /\ y' = y + dy
  /\ dx' = (IF AtEdge(x', Width) THEN Bounce(dx) ELSE dx)
  /\ dy' = (IF AtEdge(y', Height) THEN Bounce(dy) ELSE dy)
  /\ hit' = (AtEdge(x', Width) \/ AtEdge(y', Height))
  /\ color' = (IF hit' THEN NextColor(color) ELSE color)
  /\ idle' = (IF hit' THEN 0 ELSE idle + 1)
  /\ pc' = "input"
  /\ UNCHANGED paused

BoxNext == \/ NoKey \/ SpaceKey \/ Up \/ Left \/ Right \/ Down
           \/ SkipFrame \/ Frame

BoxSpec == BoxInit /\ [][BoxNext]_boxVars

-----------------------------------------------------------------------------
(* Every variable has its type, and the index of list_colors stays inside  *)
(* the array.                                                              *)
BoxTypeOK ==
  /\ pc \in {"input", "draw"}
  /\ x \in Int /\ y \in Int /\ dx \in Int /\ dy \in Int
  /\ color \in 0..(NumColors - 1)
  /\ paused \in BOOLEAN /\ hit \in BOOLEAN
  /\ idle \in Nat

(* draw_box gets a box that is on the screen: however fast the box is and  *)
(* whatever keys were pressed, no pixel outside the back buffer is         *)
(* written, although draw_pixel checks nothing.                            *)
BoxOnScreen ==
  pc = "draw" => /\ x \in 0..(Width - BoxSize)
                 /\ y \in 0..(Height - BoxSize)

(* A frame that leaves the box on an edge or past it leaves it moving away *)
(* from that edge: it is not turned round twice and does not get stuck     *)
(* there, even when a key pushed it against the edge in the same turn.     *)
LeavesEdge ==
  [][ (pc = "draw" /\ pc' = "input" /\ ~paused) =>
        /\ x' <= 0 => dx' > 0
        /\ x' + BoxSize >= Width => dx' < 0
        /\ y' <= 0 => dy' > 0
        /\ y' + BoxSize >= Height => dy' < 0 ]_boxVars

(* The box never slows down, let alone stops, and gets faster exactly when *)
(* it hits an edge.                                                        *)
SpeedStep ==
  [][ /\ Abs(dx') \in {Abs(dx), Abs(dx) + 1}
      /\ Abs(dy') \in {Abs(dy), Abs(dy) + 1}
      /\ (Abs(dx') # Abs(dx) \/ Abs(dy') # Abs(dy)) => hit' ]_boxVars

(* Left alone, the box keeps crossing the screen: the frames since the     *)
(* last bounce or key cover no more ground than the screen has.            *)
BouncesInTime == idle * Abs(dx) <= Width - BoxSize /\ idle * Abs(dy) <= Height - BoxSize
=============================================================================
