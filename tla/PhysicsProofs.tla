--------------------------- MODULE PhysicsProofs ---------------------------
(***************************************************************************)
(* Theorems about Physics for every map, every deltaTime, and every height *)
(* a client may grab a ladder at.                                          *)
(***************************************************************************)
EXTENDS Physics, NatSets, TLAPS

LEMMA DivMod ==
  ASSUME NEW a \in Int, NEW W \in Nat \ {0}
  PROVE  a \div W \in Int /\ a % W \in 0..W - 1 /\ a = W * (a \div W) + (a % W)
  OBVIOUS

\* The coordinates of a cell, as inequalities.
LEMMA Coords ==
  ASSUME NEW a \in CellCoords
  PROVE  a \in Int /\ -CellWord <= 2 * a /\ 2 * a < CellWord
BY PhysicsAssumption DEF CellCoords

LEMMA Cells ==
  /\ CellSize \in Nat \ {0} /\ CellWord \in Nat \ {0}
  /\ \A c \in Solid \cup Ladder \cup Floating :
         c[1] \in CellCoords /\ c[2] \in CellCoords /\ c[1] \in Int /\ c[2] \in Int
BY PhysicsAssumption, Coords

\* A key's row is the cell's, whatever the cell.
LEMMA KeyRow ==
  ASSUME NEW a \in Int, NEW b \in Int, NEW c \in Int, NEW d \in Int,
         PackCell(a, b) = PackCell(c, d)
  PROVE  b = d /\ a % CellWord = c % CellWord
<1> DEFINE W == CellWord
           m == a % W
           n == c % W
<1>1. W \in Nat \ {0}
  BY PhysicsAssumption
<1>2. m \in 0..W - 1 /\ n \in 0..W - 1
  BY <1>1
<1>3. b * W + m = d * W + n
  BY DEF PackCell
<1> HIDE DEF W, m, n
<1>4. (b - d) * W = n - m
  BY <1>1, <1>2, <1>3
<1>5. b - d >= 1 => (b - d) * W >= W
  BY <1>1
<1>6. b - d <= -1 => (b - d) * W <= -W
  BY <1>1
<1>7. b = d
  BY <1>1, <1>2, <1>4, <1>5, <1>6
<1>8. m = n
  BY <1>1, <1>2, <1>3, <1>7
<1> QED
  BY <1>7, <1>8 DEF W, m, n

\* PackCell gives no two cells of a map the same key.
LEMMA KeysDistinct ==
  ASSUME NEW a \in CellCoords, NEW b \in CellCoords, NEW c \in CellCoords, NEW d \in CellCoords,
         PackCell(a, b) = PackCell(c, d)
  PROVE  a = c /\ b = d
<1> DEFINE W == CellWord
           m == a % W
           n == c % W
           p == a \div W
           q == c \div W
<1>1. W \in Nat \ {0} /\ {a, b, c, d} \subseteq Int
  BY PhysicsAssumption, Coords
<1>2. p \in Int /\ q \in Int /\ m \in Int /\ n \in Int
  BY <1>1
<1>3. a = W * p + m /\ c = W * q + n
  BY <1>1, DivMod
<1>4. b = d /\ m = n
  BY <1>1, KeyRow
<1>5. a - c < W /\ a - c > -W
  BY <1>1, Coords
<1> HIDE DEF W, m, n, p, q
<1>6. p = q
  <2>1. (p - q) * W = a - c
    BY <1>1, <1>2, <1>3, <1>4
  <2>2. p - q >= 1 => (p - q) * W >= W
    BY <1>1, <1>2
  <2>3. p - q <= -1 => (p - q) * W <= -W
    BY <1>1, <1>2
  <2> QED
    BY <1>1, <1>2, <1>5, <2>1, <2>2, <2>3
<1> QED
  BY <1>3, <1>4, <1>6

\* The keys of a layer are those of its cells and of no other.
LEMMA KeyOfCell ==
  ASSUME NEW cells \in SUBSET (CellCoords \X CellCoords), NEW cx \in CellCoords, NEW cy \in CellCoords
  PROVE  PackCell(cx, cy) \in Keys(cells) <=> <<cx, cy>> \in cells
<1>1. ASSUME PackCell(cx, cy) \in Keys(cells) PROVE <<cx, cy>> \in cells
  <2>1. PICK c \in cells : PackCell(cx, cy) = PackCell(c[1], c[2])
    BY <1>1 DEF Keys
  <2>2. c[1] \in CellCoords /\ c[2] \in CellCoords /\ c = <<c[1], c[2]>>
    OBVIOUS
  <2>3. cx = c[1] /\ cy = c[2]
    BY <2>1, <2>2, KeysDistinct
  <2> QED
    BY <2>2, <2>3
<1>2. ASSUME <<cx, cy>> \in cells PROVE PackCell(cx, cy) \in Keys(cells)
  BY <1>2 DEF Keys
<1> QED
  BY <1>1, <1>2

\* A cell is solid, a ladder or floating exactly if the map's file has it in
\* that layer: the row and the column, negative ones included, share the bits
\* of a key without touching each other.
THEOREM MapExact ==
  \A cx, cy \in CellCoords :
      /\ IsSolid(cx, cy) <=> <<cx, cy>> \in Solid
      /\ IsLadder(cx, cy) <=> <<cx, cy>> \in Ladder
      /\ IsFloatingGround(cx, cy) <=> <<cx, cy>> \in Floating
<1> SUFFICES ASSUME NEW cx \in CellCoords, NEW cy \in CellCoords
             PROVE  /\ IsSolid(cx, cy) <=> <<cx, cy>> \in Solid
                    /\ IsLadder(cx, cy) <=> <<cx, cy>> \in Ladder
                    /\ IsFloatingGround(cx, cy) <=> <<cx, cy>> \in Floating
  OBVIOUS
<1>0. /\ Solid \subseteq CellCoords \X CellCoords /\ Ladder \subseteq CellCoords \X CellCoords
      /\ Floating \subseteq CellCoords \X CellCoords
  BY PhysicsAssumption
<1>1. PackCell(cx, cy) \in Keys(Solid) <=> <<cx, cy>> \in Solid
  BY <1>0, KeyOfCell
<1>2. PackCell(cx, cy) \in Keys(Ladder) <=> <<cx, cy>> \in Ladder
  BY <1>0, KeyOfCell
<1>3. PackCell(cx, cy) \in Keys(Floating) <=> <<cx, cy>> \in Floating
  BY <1>0, KeyOfCell
<1> QED
  BY <1>1, <1>2, <1>3 DEF IsSolid, IsLadder, IsFloatingGround, SolidKeys, LadderKeys, FloatingKeys

-----------------------------------------------------------------------------
\* The steps of time.

\* A set of integers within bounds has a least and a greatest member.
LEMMA LeastGreatest ==
  ASSUME NEW T, T \subseteq Int, T # {}, NEW lo \in Int, NEW hi \in Int,
         \A a \in T : lo <= a /\ a <= hi
  PROVE  /\ \E a \in T : \A b \in T : a <= b
         /\ \E a \in T : \A b \in T : b <= a
<1>1. \E a \in T : \A b \in T : a <= b
  <2> DEFINE U == {n \in Nat : lo + n \in T}
  <2>1. \A a \in T : a - lo \in U /\ lo + (a - lo) = a
    OBVIOUS
  <2>2. U # {} /\ U \subseteq Nat
    BY <2>1
  <2>3. PICK n \in U : \A m \in U : n <= m
    <3> HIDE DEF U
    <3> QED
      BY <2>2, LeastNat
  <2>4. lo + n \in T /\ \A b \in T : lo + n <= b
    BY <2>1, <2>3
  <2> QED
    BY <2>4
<1>2. \E a \in T : \A b \in T : b <= a
  <2> DEFINE U == {n \in Nat : hi - n \in T}
  <2>1. \A a \in T : hi - a \in U /\ hi - (hi - a) = a
    OBVIOUS
  <2>2. U # {} /\ U \subseteq Nat
    BY <2>1
  <2>3. PICK n \in U : \A m \in U : n <= m
    <3> HIDE DEF U
    <3> QED
      BY <2>2, LeastNat
  <2>4. hi - n \in T /\ n \in Nat
    OBVIOUS
  <2>5. ASSUME NEW b \in T PROVE b <= hi - n
    <3>1. n <= hi - b /\ b \in Int
      BY <2>1, <2>3
    <3> QED
      BY <2>4, <3>1
  <2> QED
    BY <2>4, <2>5
<1> QED
  BY <1>1, <1>2

\* The inputs, and the default one.
Commands == [moveX : {-1, 0, 1}, climb : {-1, 0, 1}, jump : BOOLEAN, drop : BOOLEAN,
             dt : Dts \cup {0}]

LEMMA StepLength ==
  /\ LongestDt \in 1..19
  /\ \A cmd \in Commands : UseDt(cmd) \in 1..19 /\ UseDt(cmd) <= LongestDt
<1> DEFINE steps == {CLIENT_DT} \cup (Dts \cap 1..19)
<1>1. steps \subseteq 1..19 /\ CLIENT_DT \in steps
  BY DEF CLIENT_DT
<1>2. LongestDt = CHOOSE d \in steps : \A e \in steps : e <= d
  BY DEF LongestDt
<1>3. \A cmd \in Commands : UseDt(cmd) \in steps
  BY DEF Commands, UseDt
<1> HIDE DEF steps
<1>4. \E d \in steps : \A e \in steps : e <= d
  <2> DEFINE lo == 1
             hi == 19
  <2>1. /\ steps \subseteq Int /\ steps # {} /\ lo \in Int /\ hi \in Int
        /\ \A a \in steps : lo <= a /\ a <= hi
    BY <1>1
  <2> HIDE DEF lo, hi
  <2> QED
    BY <2>1, LeastGreatest
<1>5. LongestDt \in steps /\ \A e \in steps : e <= LongestDt
  BY <1>2, <1>4
<1> QED
  BY <1>1, <1>3, <1>5

-----------------------------------------------------------------------------
\* Cells and heights.

LEMMA CellSpan ==
  ASSUME NEW a \in Int
  PROVE  CellBottom(a) \in Int /\ CellTop(a) \in Int /\ CellTop(a) = CellBottom(a) + CellSize
<1>1. CellSize \in Int /\ (a + 1) * CellSize = a * CellSize + CellSize
  BY Cells
<1> QED
  BY <1>1 DEF CellBottom, CellTop

\* A height is in its cell.
LEMMA CellOf ==
  ASSUME NEW w \in Int
  PROVE  /\ WorldToCell(w) \in Int
         /\ CellBottom(WorldToCell(w)) <= w /\ w < CellTop(WorldToCell(w))
<1> DEFINE a == w \div CellSize
           r == w % CellSize
<1>1. a \in Int /\ r \in 0..CellSize - 1 /\ w = CellSize * a + r /\ CellSize \in Nat \ {0}
  BY DivMod, Cells
<1>2. WorldToCell(w) = a
  BY DEF WorldToCell
<1> HIDE DEF a, r
<1>3. /\ CellBottom(a) \in Int /\ CellTop(a) \in Int
      /\ CellTop(a) = CellBottom(a) + CellSize
  BY <1>1, CellSpan
<1>4. CellBottom(a) = CellSize * a
  BY <1>1 DEF CellBottom
<1> QED
  BY <1>1, <1>2, <1>3, <1>4

\* Rows do not overlap.
LEMMA CellOrder ==
  ASSUME NEW a \in Int, NEW b \in Int, a < b
  PROVE  CellTop(a) <= CellBottom(b)
<1>1. CellSize \in Nat /\ b - (a + 1) \in Nat
  BY Cells
<1>2. (b - (a + 1)) * CellSize >= 0
  BY <1>1
<1>3. (b - (a + 1)) * CellSize = b * CellSize - (a + 1) * CellSize
  BY <1>1
<1> QED
  BY <1>1, <1>2, <1>3 DEF CellTop, CellBottom

\* A height within a row has that row.
LEMMA CellWithin ==
  ASSUME NEW w \in Int, NEW a \in Int, CellBottom(a) <= w, w < CellTop(a)
  PROVE  WorldToCell(w) = a
<1> DEFINE b == WorldToCell(w)
<1>1. b \in Int /\ CellBottom(b) <= w /\ w < CellTop(b)
  BY CellOf
<1>2. /\ CellBottom(a) \in Int /\ CellTop(a) \in Int
      /\ CellBottom(b) \in Int /\ CellTop(b) \in Int
  BY <1>1, CellSpan
<1> HIDE DEF b
<1>3. ~(a < b)
  BY <1>1, <1>2, CellOrder
<1>4. ~(b < a)
  BY <1>1, <1>2, CellOrder
<1> QED
  BY <1>1, <1>3, <1>4 DEF b

-----------------------------------------------------------------------------
\* The checks.

\* The player's PhysicsState.
State == [x : Int, y : Int, vy : Int, grounded : BOOLEAN, onLadder : BOOLEAN, dropTimer : Int,
          ladderCenterX : Int, ladderMinY : Int, ladderMaxY : Int]

\* The ground found is no farther than the threshold above the feet, and below
\* them no farther than it.
LEMMA GroundIs ==
  ASSUME NEW p \in State, NEW ignore \in BOOLEAN
  PROVE  LET g == CheckGround(p, ignore)
         IN  /\ g.hit \in BOOLEAN /\ g.at \in Int
             /\ g.hit => Foot(p) <= g.at + GROUND_THRESHOLD
             /\ g.hit /\ loaded => g.at <= Foot(p) + GROUND_THRESHOLD
             /\ g.hit /\ ~loaded => g.at = 0
<1> DEFINE cy == WorldToCell(Foot(p) - GROUND_THRESHOLD)
           g == CheckGround(p, ignore)
<1>0. Foot(p) \in Int /\ Foot(p) - GROUND_THRESHOLD \in Int
  BY DEF State, Foot, PLAYER_HALF_H, GROUND_THRESHOLD
<1>1. /\ cy \in Int /\ CellTop(cy) \in Int /\ Foot(p) - GROUND_THRESHOLD < CellTop(cy)
  BY <1>0, CellOf, CellSpan
<1>2. CASE ~loaded
  BY <1>0, <1>2 DEF CheckGround, Hit, NoHit, GROUND_THRESHOLD
<1>3. CASE loaded
  <2>1. \/ g = NoHit
        \/ g = Hit(CellTop(cy)) /\ CellTop(cy) <= Foot(p) + GROUND_THRESHOLD
    BY <1>3 DEF CheckGround
  <2> HIDE DEF cy, g
  <2>2. CASE g = NoHit
    BY <1>3, <2>2 DEF NoHit, g
  <2>3. CASE g = Hit(CellTop(cy)) /\ CellTop(cy) <= Foot(p) + GROUND_THRESHOLD
    <3>1. g.hit = TRUE /\ g.at = CellTop(cy)
      BY <2>3 DEF Hit
    <3>2. Foot(p) <= g.at + GROUND_THRESHOLD
      <4> DEFINE f == Foot(p)
                 h == CellTop(cy)
      <4>1. f \in Int /\ h \in Int /\ f - 400 < h
        BY <1>0, <1>1 DEF GROUND_THRESHOLD
      <4> HIDE DEF f, h
      <4>2. f <= h + 400
        BY <4>1
      <4> QED
        BY <3>1, <4>2 DEF f, h, GROUND_THRESHOLD
    <3>3. g.at \in Int /\ g.hit \in BOOLEAN /\ g.at <= Foot(p) + GROUND_THRESHOLD
      BY <1>1, <2>3, <3>1
    <3> QED
      BY <1>3, <3>2, <3>3 DEF g
  <2> QED
    BY <2>1, <2>2, <2>3
<1> QED
  BY <1>2, <1>3

\* The tile found above is no farther above the head than the threshold, and no
\* more than a cell, less the threshold, below it.
LEMMA CeilingIs ==
  ASSUME NEW p \in State
  PROVE  LET c == CheckCeiling(p)
         IN  /\ c.hit \in BOOLEAN /\ c.at \in Int
             /\ c.hit => /\ c.at <= Head(p) + GROUND_THRESHOLD
                         /\ Head(p) + GROUND_THRESHOLD < c.at + CellSize
                         /\ \E row \in Int : c.at = CellBottom(row)
<1> DEFINE cy == WorldToCell(Head(p) + GROUND_THRESHOLD)
           c == CheckCeiling(p)
<1>0. Head(p) \in Int /\ Head(p) + GROUND_THRESHOLD \in Int
  BY DEF State, Head, PLAYER_HALF_H, GROUND_THRESHOLD
<1>1. /\ cy \in Int /\ CellBottom(cy) \in Int
      /\ CellBottom(cy) <= Head(p) + GROUND_THRESHOLD
      /\ Head(p) + GROUND_THRESHOLD < CellBottom(cy) + CellSize
  BY <1>0, CellOf, CellSpan
<1>2. c = NoHit \/ c = Hit(CellBottom(cy))
  BY DEF CheckCeiling
<1> HIDE DEF cy, c
<1>3. CASE c = NoHit
  BY <1>3 DEF NoHit, c
<1>4. CASE c = Hit(CellBottom(cy))
  <2>1. c.hit = TRUE /\ c.at = CellBottom(cy)
    BY <1>4 DEF Hit
  <2> QED
    BY <1>1, <2>1 DEF c
<1> QED
  BY <1>2, <1>3, <1>4

LEMMA WallIs ==
  ASSUME NEW p \in State, NEW moveX \in {-1, 0, 1}
  PROVE  CheckWall(p, moveX).hit \in BOOLEAN /\ CheckWall(p, moveX).at \in Int
<1> DEFINE w == p.x + moveX * (PLAYER_HALF_W + X_MARGIN)
           cx == WorldToCell(w)
           h == CheckWall(p, moveX)
<1>1. w \in Int
  BY DEF State, PLAYER_HALF_W, X_MARGIN
<1> HIDE DEF w
<1>2. CellBottom(cx) - PLAYER_HALF_W \in Int /\ CellTop(cx) + PLAYER_HALF_W \in Int
  BY <1>1, CellOf, CellSpan DEF PLAYER_HALF_W
<1>3. h = NoHit \/ h = Hit(CellBottom(cx) - PLAYER_HALF_W) \/ h = Hit(CellTop(cx) + PLAYER_HALF_W)
  BY DEF CheckWall, w
<1> HIDE DEF cx, h
<1>4. h.hit \in BOOLEAN /\ h.at \in Int
  <2>1. ASSUME NEW v \in Int, h = Hit(v) PROVE h.hit \in BOOLEAN /\ h.at \in Int
    BY <2>1 DEF Hit
  <2>2. ASSUME h = NoHit PROVE h.hit \in BOOLEAN /\ h.at \in Int
    BY <2>2 DEF NoHit
  <2> QED
    BY <1>2, <1>3, <2>1, <2>2
<1> QED
  BY <1>4 DEF h

-----------------------------------------------------------------------------
\* The parts of a move.

\* What a state holds besides the type: the speeds and the drop timer.
Bounded(p) == p.vy \in MAX_FALL_SPEED..JUMP_FORCE /\ p.dropTimer \in 0..DROP_TIME

\* A move concerns neither the ladder nor the timer.
SameLadder(p, q) ==
  /\ q.onLadder = p.onLadder /\ q.ladderCenterX = p.ladderCenterX
  /\ q.ladderMinY = p.ladderMinY /\ q.ladderMaxY = p.ladderMaxY

LEMMA LaunchIs ==
  ASSUME NEW p \in State, Bounded(p), NEW cmd \in Commands
  PROVE  LET q == Launch(p, cmd)
             onGround == PremoveGround(p, cmd).hit
         IN  /\ q \in State /\ Bounded(q) /\ SameLadder(p, q)
             /\ q.x = p.x /\ q.y = p.y /\ q.dropTimer = DropTimer(p, cmd)
             /\ onGround /\ ~cmd.jump =>
                    q.grounded /\ q.vy = IF p.vy <= 0 THEN GROUND_PULL ELSE p.vy
             /\ onGround /\ cmd.jump =>
                    ~q.grounded /\ q.vy = JUMP_FORCE - GRAVITY * UseDt(cmd)
             /\ ~onGround =>
                    /\ ~q.grounded
                    /\ q.vy = AtLeast(p.vy - GRAVITY * UseDt(cmd), MAX_FALL_SPEED)
<1> DEFINE q == Launch(p, cmd)
           onGround == PremoveGround(p, cmd).hit
           d == UseDt(cmd)
           t == DropTimer(p, cmd)
           pulled == IF onGround /\ p.vy <= 0 THEN GROUND_PULL ELSE p.vy
           jumps == cmd.jump /\ onGround
           vy == IF jumps THEN JUMP_FORCE ELSE pulled
           speed == IF onGround /\ ~jumps THEN vy
                    ELSE AtLeast(vy - GRAVITY * d, MAX_FALL_SPEED)
<1>1. d \in 1..19 /\ cmd.jump \in BOOLEAN
  BY StepLength DEF Commands
<1>2. p.vy \in -300..200 /\ p.dropTimer \in 0..50
  BY DEF Bounded, MAX_FALL_SPEED, JUMP_FORCE, DROP_TIME
<1>3. t \in 0..50
  BY <1>1, <1>2 DEF DropTimer, AtLeast, DROP_TIME
<1>4. onGround \in BOOLEAN
  <2>1. (t > 0 \/ p.vy > 0) \in BOOLEAN
    OBVIOUS
  <2> QED
    BY <2>1, GroundIs DEF PremoveGround
<1>5. q = [p EXCEPT !.dropTimer = t, !.grounded = onGround /\ ~jumps, !.vy = speed]
  BY DEF Launch
<1> HIDE DEF q, onGround, d, t
<1>6. speed \in -300..200
  <2>1. pulled \in -300..200
    BY <1>2 DEF GROUND_PULL
  <2> HIDE DEF pulled
  <2>2. vy \in -300..200
    BY <2>1 DEF JUMP_FORCE
  <2> HIDE DEF vy
  <2>3. AtLeast(vy - GRAVITY * d, MAX_FALL_SPEED) \in -300..200
    BY <1>1, <2>2 DEF AtLeast, GRAVITY, MAX_FALL_SPEED
  <2> QED
    BY <2>2, <2>3
<1>7. /\ onGround /\ ~cmd.jump => speed = IF p.vy <= 0 THEN GROUND_PULL ELSE p.vy
      /\ ~onGround => speed = AtLeast(p.vy - GRAVITY * d, MAX_FALL_SPEED)
  BY <1>1, <1>4
<1>8. onGround /\ cmd.jump => speed = JUMP_FORCE - GRAVITY * d
  BY <1>1, <1>4 DEF AtLeast, JUMP_FORCE, GRAVITY, MAX_FALL_SPEED
<1>9. (onGround /\ ~jumps) \in BOOLEAN /\ (onGround /\ ~jumps <=> onGround /\ ~cmd.jump)
  BY <1>1, <1>4
<1> DEFINE stands == onGround /\ ~jumps
<1> HIDE DEF speed, jumps, vy, pulled
<1>10. /\ q \in State /\ q.dropTimer = t /\ q.grounded = stands /\ q.vy = speed
       /\ q.x = p.x /\ q.y = p.y /\ SameLadder(p, q)
  <2>1. stands \in BOOLEAN
    BY <1>9
  <2>2. q = [p EXCEPT !.dropTimer = t, !.grounded = stands, !.vy = speed]
    BY <1>5
  <2>3. t \in Int /\ speed \in Int
    BY <1>3, <1>6
  <2> HIDE DEF stands
  <2>4. q.dropTimer = t /\ q.grounded = stands /\ q.vy = speed
    BY <2>2 DEF State
  <2>5. q.x = p.x /\ q.y = p.y /\ SameLadder(p, q)
    BY <2>2 DEF State, SameLadder
  <2>6. q \in State
    BY <2>1, <2>2, <2>3 DEF State
  <2> QED
    BY <2>4, <2>5, <2>6
<1>11. Bounded(q)
  BY <1>3, <1>6, <1>10 DEF Bounded, MAX_FALL_SPEED, JUMP_FORCE, DROP_TIME
<1> QED
  BY <1>7, <1>8, <1>9, <1>10, <1>11 DEF q, onGround, d, t

LEMMA WalkIs ==
  ASSUME NEW p \in State, NEW cmd \in Commands
  PROVE  LET q == Walk(p, cmd)
         IN  /\ q \in State /\ SameLadder(p, q) /\ q.y = p.y /\ q.vy = p.vy
             /\ q.grounded = p.grounded /\ q.dropTimer = p.dropTimer
<1> DEFINE x == p.x + cmd.moveX * MOVE_SPEED * UseDt(cmd)
           wall == CheckWall([p EXCEPT !.x = x], cmd.moveX)
           to == IF wall.hit THEN wall.at ELSE x
           q == Walk(p, cmd)
<1>1. cmd.moveX \in {-1, 0, 1} /\ UseDt(cmd) \in 1..19
  BY StepLength DEF Commands
<1>2. x \in Int
  BY <1>1 DEF State, MOVE_SPEED
<1>3. [p EXCEPT !.x = x] \in State
  <2> HIDE DEF x
  <2> QED
    BY <1>2 DEF State
<1>4. wall.at \in Int
  BY <1>1, <1>3, WallIs
<1>5. q = [p EXCEPT !.x = to]
  BY DEF Walk
<1> HIDE DEF wall, x, q
<1>6. to \in Int
  BY <1>2, <1>4
<1> HIDE DEF to
<1>7. /\ q \in State /\ SameLadder(p, q) /\ q.y = p.y /\ q.vy = p.vy
      /\ q.grounded = p.grounded /\ q.dropTimer = p.dropTimer
  BY <1>5, <1>6 DEF State, SameLadder
<1> QED
  BY <1>7 DEF q


\* A rise goes as far as the speed says, or up to the tile above the head,
\* which may be as far beyond as the ceiling check reaches.
LEMMA RiseIs ==
  ASSUME NEW p \in State, Bounded(p), p.vy > 0, NEW cmd \in Commands
  PROVE  LET q == Rise(p, cmd)
             top == p.y + p.vy * UseDt(cmd)
         IN  /\ q \in State /\ Bounded(q) /\ SameLadder(p, q)
             /\ q.x = p.x /\ q.dropTimer = p.dropTimer /\ q.grounded = p.grounded
             /\ \/ q.y = top /\ q.vy = p.vy
                \/ /\ q.vy = 0
                   /\ q.y <= top + GROUND_THRESHOLD /\ top + GROUND_THRESHOLD < q.y + CellSize
                   /\ \E row \in Int : Head(q) = CellBottom(row)
<1> DEFINE q == Rise(p, cmd)
           top == p.y + p.vy * UseDt(cmd)
           r == [p EXCEPT !.y = top]
           ceil == CheckCeiling(r)
           edge == ceil.at - PLAYER_HALF_H
<1>1. UseDt(cmd) \in 1..19 /\ p.vy \in -300..200 /\ p.dropTimer \in 0..50
  BY StepLength DEF Bounded, MAX_FALL_SPEED, JUMP_FORCE, DROP_TIME
<1>2. top \in Int
  BY <1>1 DEF State
<1>3. q = IF ceil.hit THEN [r EXCEPT !.y = edge, !.vy = 0] ELSE r
  BY DEF Rise
<1> HIDE DEF q, top
<1>4. r \in State /\ r.y = top
  BY <1>2 DEF State
<1>5. /\ ceil.hit \in BOOLEAN /\ ceil.at \in Int
      /\ ceil.hit => /\ ceil.at <= Head(r) + GROUND_THRESHOLD
                     /\ Head(r) + GROUND_THRESHOLD < ceil.at + CellSize
                     /\ \E row \in Int : ceil.at = CellBottom(row)
  BY <1>4, CeilingIs
<1>6. edge \in Int /\ Head(r) = top + 2000 /\ CellSize \in Nat
  BY <1>4, <1>5, Cells DEF PLAYER_HALF_H, Head
<1> HIDE DEF ceil
<1>7. ceil.hit => /\ edge <= top + GROUND_THRESHOLD /\ top + GROUND_THRESHOLD < edge + CellSize
                  /\ \E row \in Int : edge + PLAYER_HALF_H = CellBottom(row)
  <2>1. edge + PLAYER_HALF_H = ceil.at
    BY <1>5 DEF PLAYER_HALF_H
  <2>2. ceil.hit => edge <= top + GROUND_THRESHOLD /\ top + GROUND_THRESHOLD < edge + CellSize
    BY <1>2, <1>5, <1>6 DEF PLAYER_HALF_H, GROUND_THRESHOLD
  <2> QED
    BY <1>5, <2>1, <2>2
<1> HIDE DEF edge
<1>8. CASE ~ceil.hit
  <2>1. q = [p EXCEPT !.y = top]
    BY <1>3, <1>8
  <2>2. /\ q \in State /\ SameLadder(p, q) /\ q.x = p.x /\ q.dropTimer = p.dropTimer
        /\ q.grounded = p.grounded /\ q.y = top /\ q.vy = p.vy
    BY <1>2, <2>1 DEF State, SameLadder
  <2> QED
    BY <2>2 DEF Bounded, q, top
<1>9. CASE ceil.hit
  <2>1. q = [p EXCEPT !.y = edge, !.vy = 0]
    BY <1>3, <1>9 DEF State
  <2>2. q \in State /\ q.y = edge /\ q.vy = 0
    <3>1. q.y = edge /\ q.vy = 0
      BY <2>1 DEF State
    <3>2. q \in State
      <4> DEFINE still == 0
      <4>1. still \in Int /\ q = [p EXCEPT !.y = edge, !.vy = still]
        BY <2>1
      <4>2. edge \in Int
        BY <1>6
      <4> HIDE DEF still
      <4> QED
        BY <4>1, <4>2 DEF State
    <3> QED
      BY <3>1, <3>2
  <2>3. SameLadder(p, q) /\ q.x = p.x /\ q.dropTimer = p.dropTimer /\ q.grounded = p.grounded
    BY <1>6, <2>1 DEF State, SameLadder
  <2>4. Bounded(q)
    BY <1>1, <2>2, <2>3 DEF Bounded, MAX_FALL_SPEED, JUMP_FORCE, DROP_TIME
  <2>5. /\ q.y <= top + GROUND_THRESHOLD /\ top + GROUND_THRESHOLD < q.y + CellSize
        /\ \E row \in Int : Head(q) = CellBottom(row)
    BY <1>7, <1>9, <2>2 DEF Head
  <2> QED
    BY <2>2, <2>3, <2>4, <2>5 DEF q, top
<1> QED
  BY <1>5, <1>8, <1>9

\* A fall is split so that no sub-step is longer than 360.
LEMMA StepsAre ==
  ASSUME NEW move \in Nat
  PROVE  FallSteps(move) \in Nat \ {0} /\ move <= 360 * FallSteps(move)
<1> DEFINE k == (move + 359) \div 360
           n == FallSteps(move)
<1>1. k \in Int /\ move <= 360 * k
  OBVIOUS
<1>2. n = AtLeast(1, k)
  BY DEF FallSteps, GROUND_THRESHOLD
<1> HIDE DEF k, n
<1>3. n \in Int /\ n >= 1 /\ n >= k
  BY <1>1, <1>2 DEF AtLeast
<1>4. n \in Nat \ {0} /\ move <= 360 * n
  BY <1>1, <1>3
<1> QED
  BY <1>4 DEF n

\* Where the sub-steps of a fall are: each below the last, by no more than 360.
LEMMA Descent ==
  ASSUME NEW m \in Int, m <= 0, NEW n \in Nat \ {0}, NEW i \in Nat
  PROVE  /\ (m * i) \div n \in Int /\ (m * i) \div n <= 0
         /\ i = 0 => (m * i) \div n = 0
         /\ i = n => (m * i) \div n = m
<1> DEFINE a == (m * i) \div n
           r == (m * i) % n
           k == m * i
<1>1. k \in Int /\ k <= 0
  OBVIOUS
<1>2. (i = 0 => k = 0) /\ (i = n => k = m * n)
  OBVIOUS
<1> HIDE DEF k
<1>3. k \div n \in Int /\ k % n \in 0..n - 1 /\ k = n * (k \div n) + (k % n)
  BY <1>1, DivMod
<1>4. a \in Int /\ r \in 0..n - 1 /\ k = n * a + r
  BY <1>3 DEF k
<1> HIDE DEF a, r
<1>5. a >= 1 => n * a >= n
  BY <1>4
<1>6. a <= 0
  BY <1>1, <1>4, <1>5
<1>7. i = 0 => a = 0
  <2>1. a <= -1 => n * a <= -n
    BY <1>4
  <2> QED
    BY <1>2, <1>4, <1>6, <2>1
<1>8. i = n => a = m
  <2> SUFFICES ASSUME i = n PROVE a = m
    OBVIOUS
  <2>1. n * (m - a) = r
    BY <1>2, <1>4
  <2>2. m - a >= 1 => n * (m - a) >= n
    BY <1>4
  <2>3. m - a <= -1 => n * (m - a) <= -n
    BY <1>4
  <2> QED
    BY <1>4, <2>1, <2>2, <2>3
<1> QED
  BY <1>4, <1>6, <1>7, <1>8 DEF a

LEMMA DescentStep ==
  ASSUME NEW m \in Int, m <= 0, NEW n \in Nat \ {0}, NEW i \in Nat, -m <= 360 * n
  PROVE  (m * (i + 1)) \div n >= ((m * i) \div n) - 360
<1> DEFINE k == m * i
           l == m * (i + 1)
           a == l \div n
           b == k \div n
           r == l % n
           t == k % n
<1>1. k \in Int /\ l \in Int /\ l = k + m
  OBVIOUS
<1> HIDE DEF k, l
<1>2. /\ a \in Int /\ r \in 0..n - 1 /\ l = n * a + r
      /\ b \in Int /\ t \in 0..n - 1 /\ k = n * b + t
  BY <1>1, DivMod
<1> HIDE DEF a, b, r, t
<1>3. n * (a - b) = m + t - r
  BY <1>1, <1>2
<1>4. a - b <= -361 => n * (a - b) <= -361 * n
  BY <1>2
<1>5. a - b >= -360
  BY <1>2, <1>3, <1>4
<1>6. a >= b - 360
  BY <1>2, <1>5
<1> QED
  BY <1>6 DEF a, b, k, l

\* The sub-steps of a fall.
FallSize(p, cmd) == FallSteps(-p.vy * UseDt(cmd))
FallAt(p, cmd, i) == [p EXCEPT !.y = p.y + ((p.vy * UseDt(cmd) * i) \div FallSize(p, cmd))]

LEMMA FallAtIs ==
  ASSUME NEW p \in State, Bounded(p), ~(p.vy > 0), NEW cmd \in Commands
  PROVE  /\ FallSize(p, cmd) \in Nat \ {0}
         /\ \A i \in Nat :
              LET q == FallAt(p, cmd, i)
              IN  /\ q \in State /\ Bounded(q) /\ SameLadder(p, q) /\ q.vy = p.vy
                  /\ q.x = p.x /\ q.dropTimer = p.dropTimer /\ q.grounded = p.grounded
                  /\ q.y <= p.y
                  /\ i = 0 => q.y = p.y
                  /\ FallAt(p, cmd, i + 1).y >= q.y - 360
<1> DEFINE d == UseDt(cmd)
           m == p.vy * d
           n == FallSize(p, cmd)
           w(i) == (m * i) \div n
<1>1. d \in 1..19 /\ p.vy \in Int /\ p.vy <= 0 /\ p.y \in Int
  BY StepLength DEF Bounded, MAX_FALL_SPEED, JUMP_FORCE, State
<1>2. m \in Int /\ m <= 0 /\ -p.vy * d = -m
  BY <1>1
<1>3. n = FallSteps(-m) /\ -m \in Nat
  BY <1>2 DEF FallSize
<1> HIDE DEF d, m, n
<1>4. n \in Nat \ {0} /\ -m <= 360 * n
  BY <1>3, StepsAre
<1>5. \A i \in Nat : w(i) \in Int /\ w(i) <= 0 /\ (i = 0 => w(i) = 0)
  BY <1>2, <1>4, Descent
<1>6. \A i \in Nat : w(i + 1) >= w(i) - 360
  BY <1>2, <1>4, DescentStep
<1>7. \A i \in Nat : FallAt(p, cmd, i) = [p EXCEPT !.y = p.y + w(i)]
  BY DEF FallAt, m, d, n
<1> HIDE DEF w
<1>8. ASSUME NEW i \in Nat
      PROVE  LET q == FallAt(p, cmd, i)
             IN  /\ q \in State /\ Bounded(q) /\ SameLadder(p, q) /\ q.vy = p.vy
                 /\ q.x = p.x /\ q.dropTimer = p.dropTimer /\ q.grounded = p.grounded
                 /\ q.y = p.y + w(i)
  <2> DEFINE q == FallAt(p, cmd, i)
             y == p.y + w(i)
  <2>1. q = [p EXCEPT !.y = y] /\ y \in Int
    BY <1>1, <1>5, <1>7
  <2> HIDE DEF q, y
  <2>2. /\ q \in State /\ SameLadder(p, q) /\ q.vy = p.vy
        /\ q.x = p.x /\ q.dropTimer = p.dropTimer /\ q.grounded = p.grounded /\ q.y = y
    BY <2>1 DEF State, SameLadder
  <2>3. Bounded(q)
    BY <2>2 DEF Bounded
  <2> QED
    BY <2>2, <2>3 DEF q, y
<1>9. ASSUME NEW i \in Nat
      PROVE  LET q == FallAt(p, cmd, i)
             IN  /\ q.y <= p.y /\ (i = 0 => q.y = p.y)
                 /\ FallAt(p, cmd, i + 1).y >= q.y - 360
  <2>1. i + 1 \in Nat
    OBVIOUS
  <2>2. FallAt(p, cmd, i).y = p.y + w(i) /\ FallAt(p, cmd, i + 1).y = p.y + w(i + 1)
    BY <1>8, <2>1
  <2>3. /\ w(i) \in Int /\ w(i + 1) \in Int /\ w(i) <= 0 /\ (i = 0 => w(i) = 0)
        /\ w(i + 1) >= w(i) - 360
    BY <1>5, <1>6, <2>1
  <2> QED
    BY <1>1, <2>2, <2>3
<1> QED
  BY <1>4, <1>8, <1>9 DEF n

\* Where a fall ends: after its last sub-step, or on the ground the first
\* sub-step finds that finds any.
LEMMA FallIs ==
  ASSUME NEW p \in State, Bounded(p), ~(p.vy > 0), NEW cmd \in Commands
  PROVE  LET q == Fall(p, cmd)
             n == FallSize(p, cmd)
             Ground(i) == CheckGround(FallAt(p, cmd, i), p.dropTimer > 0)
         IN  /\ q \in State /\ Bounded(q) /\ SameLadder(p, q)
             /\ q.x = p.x /\ q.dropTimer = p.dropTimer
             /\ \/ /\ q = FallAt(p, cmd, n)
                   /\ \A i \in 1..n : ~Ground(i).hit
                \/ /\ q.vy = GROUND_PULL /\ q.grounded
                   /\ \E first \in 1..n :
                        /\ Ground(first).hit
                        /\ Foot(q) = Ground(first).at
                        /\ \A i \in 1..first - 1 : ~Ground(i).hit
<1> DEFINE q == Fall(p, cmd)
           n == FallSize(p, cmd)
           Ground(i) == CheckGround(FallAt(p, cmd, i), p.dropTimer > 0)
           landings == {i \in 1..n : Ground(i).hit}
           first == CHOOSE i \in landings : \A j \in landings : i <= j
           to == Ground(first).at + PLAYER_HALF_H
<1>1. q = IF landings = {} THEN FallAt(p, cmd, n)
          ELSE [p EXCEPT !.y = to, !.vy = GROUND_PULL, !.grounded = TRUE]
  BY DEF Fall, FallAt, FallSize
<1>2. n \in Nat \ {0}
  BY FallAtIs
<1>3. \A i \in 1..n : Ground(i).at \in Int
  <2> SUFFICES ASSUME NEW i \in 1..n PROVE Ground(i).at \in Int
    OBVIOUS
  <2>1. FallAt(p, cmd, i) \in State /\ (p.dropTimer > 0) \in BOOLEAN
    BY <1>2, FallAtIs
  <2> QED
    BY <2>1, GroundIs
<1>4. landings \subseteq 1..n
  OBVIOUS
<1> HIDE DEF q, n
<1>5. CASE landings = {}
  <2>1. q = FallAt(p, cmd, n) /\ \A i \in 1..n : ~Ground(i).hit
    BY <1>1, <1>5
  <2>2. /\ q \in State /\ Bounded(q) /\ SameLadder(p, q)
        /\ q.x = p.x /\ q.dropTimer = p.dropTimer
    BY <1>2, <2>1, FallAtIs
  <2> QED
    BY <2>1, <2>2 DEF q, n
<1>6. CASE landings # {}
  <2>1. \E i \in landings : \A j \in landings : i <= j
    <3>1. landings \subseteq Nat
      BY <1>2, <1>4
    <3> HIDE DEF landings
    <3> QED
      BY <1>6, <3>1, LeastNat
  <2>2. first \in landings /\ \A j \in landings : first <= j
    <3> HIDE DEF landings
    <3> QED
      BY <2>1
  <2> HIDE DEF first
  <2>3. first \in 1..n /\ Ground(first).hit
    BY <2>2
  <2>4. \A i \in 1..first - 1 : ~Ground(i).hit
    <3> SUFFICES ASSUME NEW i \in 1..first - 1 PROVE i \notin landings
      BY <1>2, <2>3
    <3>1. i \in Int /\ first \in Int /\ ~(first <= i)
      BY <1>2, <2>3
    <3> HIDE DEF landings
    <3> QED
      BY <2>2, <3>1
  <2>5. Ground(first).at \in Int
    BY <1>3, <2>3
  <2>6. to \in Int /\ to - PLAYER_HALF_H = Ground(first).at
    <3> DEFINE g == Ground(first).at
    <3>1. g \in Int
      BY <2>5
    <3>2. to = g + PLAYER_HALF_H
      OBVIOUS
    <3> HIDE DEF g, to
    <3>3. to \in Int /\ to - PLAYER_HALF_H = g
      BY <3>1, <3>2 DEF PLAYER_HALF_H
    <3> QED
      BY <3>3 DEF g
  <2>7. q = [p EXCEPT !.y = to, !.vy = GROUND_PULL, !.grounded = TRUE]
    BY <1>1, <1>6
  <2> HIDE DEF to, landings
  <2>8. q.y = to /\ q.vy = GROUND_PULL /\ q.grounded = TRUE
    BY <2>7 DEF State
  <2>9. SameLadder(p, q) /\ q.x = p.x /\ q.dropTimer = p.dropTimer
    BY <2>7 DEF State, SameLadder
  <2>10. q \in State
    <3>1. GROUND_PULL \in Int
      BY DEF GROUND_PULL
    <3> QED
      BY <2>6, <2>7, <3>1 DEF State
  <2>11. Bounded(q)
    BY <2>8, <2>9 DEF Bounded, MAX_FALL_SPEED, JUMP_FORCE, GROUND_PULL
  <2>12. Foot(q) = Ground(first).at
    BY <2>6, <2>8 DEF Foot
  <2> QED
    BY <2>3, <2>4, <2>8, <2>9, <2>10, <2>11, <2>12 DEF q, n
<1> QED
  BY <1>5, <1>6

\* What a move does, by the speed v it launches with.
LEMMA MoveIs ==
  ASSUME NEW p \in State, Bounded(p), NEW cmd \in Commands
  PROVE  LET q == Move(p, cmd)
             v == Launch(p, cmd).vy
         IN  /\ q \in State /\ Bounded(q) /\ SameLadder(p, q)
             /\ q.dropTimer = DropTimer(p, cmd)
             /\ v > 0 => \/ q.vy = v /\ Foot(q) = Foot(p) + v * UseDt(cmd)
                         \/ /\ q.vy = 0
                            /\ Foot(q) <= Foot(p) + v * UseDt(cmd) + GROUND_THRESHOLD
             /\ ~(v > 0) => /\ q.vy <= 0
                            /\ \/ Foot(q) <= Foot(p)
                               \/ /\ q.vy = GROUND_PULL /\ q.grounded
                                  /\ loaded => Foot(q) <= Foot(p) + GROUND_THRESHOLD
                                  /\ ~loaded => Foot(q) = 0
<1> DEFINE q == Move(p, cmd)
           l == Launch(p, cmd)
           w == Walk(l, cmd)
           d == UseDt(cmd)
<1>1. /\ l \in State /\ Bounded(l) /\ SameLadder(p, l) /\ l.y = p.y
      /\ l.dropTimer = DropTimer(p, cmd)
  BY LaunchIs
<1>2. /\ w \in State /\ SameLadder(l, w) /\ w.y = l.y /\ w.vy = l.vy
      /\ w.dropTimer = l.dropTimer
  BY <1>1, WalkIs
<1>3. q = IF w.vy > 0 THEN Rise(w, cmd) ELSE Fall(w, cmd)
  BY DEF Move
<1>4. d \in 1..19 /\ p.y \in Int /\ w.vy \in Int /\ Foot(p) = p.y - 2000
  BY <1>2, StepLength DEF State, Foot, PLAYER_HALF_H
<1> HIDE DEF q, l, w, d
<1>5. Bounded(w) /\ SameLadder(p, w) /\ w.y = p.y /\ w.dropTimer = DropTimer(p, cmd)
  BY <1>1, <1>2 DEF Bounded, SameLadder
<1>6. CASE w.vy > 0
  <2> DEFINE top == w.y + w.vy * d
  <2>1. /\ q \in State /\ Bounded(q) /\ SameLadder(w, q) /\ q.dropTimer = w.dropTimer
        /\ \/ q.y = top /\ q.vy = w.vy
           \/ q.vy = 0 /\ q.y <= top + GROUND_THRESHOLD
    BY <1>2, <1>3, <1>5, <1>6, RiseIs DEF d
  <2>2. SameLadder(p, q)
    BY <1>5, <2>1 DEF SameLadder
  <2>3. q.y \in Int /\ Foot(q) = q.y - 2000 /\ top \in Int /\ top = p.y + w.vy * d
    BY <1>4, <1>5, <2>1 DEF State, Foot, PLAYER_HALF_H
  <2> DEFINE up == w.vy * d
  <2>4. up \in Int /\ top = p.y + up
    BY <1>4, <2>3
  <2> HIDE DEF top, up
  <2>5. \/ q.vy = w.vy /\ Foot(q) = Foot(p) + up
        \/ q.vy = 0 /\ Foot(q) <= Foot(p) + up + GROUND_THRESHOLD
    <3>1. CASE q.y = top /\ q.vy = w.vy
      BY <1>4, <2>3, <2>4, <3>1
    <3>2. CASE q.vy = 0 /\ q.y <= top + GROUND_THRESHOLD
      BY <1>4, <2>3, <2>4, <3>2 DEF GROUND_THRESHOLD
    <3> QED
      BY <2>1, <3>1, <3>2
  <2> QED
    BY <1>2, <1>5, <1>6, <2>1, <2>2, <2>5 DEF q, l, d, up
<1>7. CASE ~(w.vy > 0)
  <2> DEFINE n == FallSize(w, cmd)
             Ground(i) == CheckGround(FallAt(w, cmd, i), w.dropTimer > 0)
  <2>1. /\ q \in State /\ Bounded(q) /\ SameLadder(w, q) /\ q.dropTimer = w.dropTimer
        /\ \/ q = FallAt(w, cmd, n)
           \/ /\ q.vy = GROUND_PULL /\ q.grounded
              /\ \E i \in 1..n : Ground(i).hit /\ Foot(q) = Ground(i).at
    BY <1>2, <1>3, <1>5, <1>7, FallIs
  <2>2. SameLadder(p, q)
    BY <1>5, <2>1 DEF SameLadder
  <2>3. /\ n \in Nat \ {0}
        /\ \A i \in Nat : LET f == FallAt(w, cmd, i)
                          IN  f \in State /\ f.vy = w.vy /\ f.y <= w.y
    BY <1>2, <1>5, <1>7, FallAtIs
  <2>4. CASE q = FallAt(w, cmd, n)
    <3>1. q.vy = w.vy /\ q.y <= p.y /\ q.y \in Int
      BY <1>5, <2>1, <2>3, <2>4 DEF State
    <3>2. Foot(q) = q.y - 2000
      BY DEF Foot, PLAYER_HALF_H
    <3>3. q.vy <= 0 /\ Foot(q) <= Foot(p)
      BY <1>4, <1>7, <3>1, <3>2
    <3> QED
      BY <1>2, <1>5, <1>7, <2>1, <2>2, <3>3 DEF q, l
  <2>5. ASSUME q.vy = GROUND_PULL, q.grounded,
               NEW i \in 1..n, Ground(i).hit, Foot(q) = Ground(i).at
        PROVE  /\ q.vy <= 0
               /\ loaded => Foot(q) <= Foot(p) + GROUND_THRESHOLD
               /\ ~loaded => Foot(q) = 0
    <3> DEFINE f == FallAt(w, cmd, i)
    <3>1. f \in State /\ f.y <= p.y /\ (w.dropTimer > 0) \in BOOLEAN
      BY <1>5, <2>3
    <3>2. /\ Ground(i).at \in Int
          /\ loaded => Ground(i).at <= Foot(f) + GROUND_THRESHOLD
          /\ ~loaded => Ground(i).at = 0
      BY <2>5, <3>1, GroundIs
    <3>3. f.y \in Int /\ Foot(f) = f.y - 2000
      BY <3>1 DEF State, Foot, PLAYER_HALF_H
    <3>4. Foot(f) \in Int /\ Foot(f) <= Foot(p)
      BY <1>4, <3>1, <3>3
    <3>5. loaded => Foot(q) <= Foot(p) + GROUND_THRESHOLD
      <4> DEFINE a == Ground(i).at
                 b == Foot(f)
                 c == Foot(p)
      <4>1. a \in Int /\ b \in Int /\ c \in Int /\ b <= c /\ (loaded => a <= b + 400)
        BY <1>4, <3>2, <3>4 DEF GROUND_THRESHOLD
      <4> HIDE DEF a, b, c
      <4>2. loaded => a <= c + 400
        BY <4>1
      <4> QED
        BY <2>5, <4>2 DEF a, c, GROUND_THRESHOLD
    <3>6. q.vy <= 0
      BY <2>5 DEF GROUND_PULL
    <3> QED
      BY <2>5, <3>2, <3>5, <3>6
  <2>6. CASE /\ q.vy = GROUND_PULL /\ q.grounded
             /\ \E i \in 1..n : Ground(i).hit /\ Foot(q) = Ground(i).at
    <3>1. PICK i \in 1..n : Ground(i).hit /\ Foot(q) = Ground(i).at
      BY <2>6
    <3>2. /\ q.vy <= 0
          /\ loaded => Foot(q) <= Foot(p) + GROUND_THRESHOLD
          /\ ~loaded => Foot(q) = 0
      BY <2>5, <2>6, <3>1
    <3> QED
      BY <1>2, <1>5, <1>7, <2>1, <2>2, <2>6, <3>2 DEF q, l
  <2> QED
    BY <2>1, <2>4, <2>6
<1> QED
  BY <1>6, <1>7

-----------------------------------------------------------------------------
\* The height a player reaches above what carried it.

Reach == 6 * (GROUND_THRESHOLD + JUMP_FORCE * LongestDt) + JUMP_FORCE * JUMP_FORCE

\* The height and the speed of a rise, like an energy: with gravity g, 2*g times
\* the height plus the square of the speed does not grow.  A ceiling may pull up
\* once more, but it also ends the rise.
InReach(p, b) ==
  /\ 6 * (Foot(p) - b) <= Reach + 6 * GROUND_THRESHOLD
  /\ p.vy > 0 => 6 * (Foot(p) - b) + p.vy * p.vy <= Reach

LEMMA ReachIs ==
  Reach \in Int /\ Reach = 42400 + 1200 * LongestDt /\ LongestDt \in 1..19
BY StepLength DEF Reach, GROUND_THRESHOLD, JUMP_FORCE

LEMMA Squares ==
  ASSUME NEW v \in 0..200
  PROVE  v * v \in Int /\ 0 <= v * v /\ v * v <= 40000
<1>1. v * v <= 200 * v
  OBVIOUS
<1> QED
  BY <1>1

\* One step of a rise: the height gained is paid by the speed lost.
LEMMA RiseCosts ==
  ASSUME NEW v \in Int, NEW u \in Int, NEW d \in 1..19, v > 0, u = v + 3 * d
  PROVE  v * d \in Int /\ v * v \in Int /\ u * u \in Int /\ 6 * (v * d) + v * v <= u * u
<1>1. u * u = v * v + 6 * (v * d) + 9 * (d * d)
  BY SMTT(30)
<1>2. d * d >= 0 /\ d * d \in Int /\ v * d \in Int /\ v * v \in Int
  OBVIOUS
<1> QED
  BY <1>1, <1>2

\* What a rise of one step leaves within reach, if the speed it had was.
LEMMA RiseInReach ==
  ASSUME NEW p \in State, NEW q \in State, NEW b \in Int, NEW v \in 1..200, NEW d \in 1..19,
         6 * (Foot(p) + v * d - b) + v * v <= Reach,
         \/ q.vy = v /\ Foot(q) = Foot(p) + v * d
         \/ q.vy = 0 /\ Foot(q) <= Foot(p) + v * d + GROUND_THRESHOLD
  PROVE  InReach(q, b)
<1> DEFINE up == v * d
           k == v * v
           f == Foot(p)
           g == Foot(q)
<1>1. up \in Int /\ k \in Int /\ 0 <= k /\ f \in Int /\ g \in Int /\ Reach \in Int
  BY Squares, ReachIs DEF State, Foot, PLAYER_HALF_H
<1>2. /\ 6 * (f + up - b) + k <= Reach
      /\ \/ q.vy = v /\ g = f + up
         \/ q.vy = 0 /\ g <= f + up + 400
  BY DEF GROUND_THRESHOLD
<1>3. q.vy * q.vy = k \/ q.vy = 0
  BY <1>2
<1> HIDE DEF up, k, f, g
<1>4. 6 * (g - b) <= Reach + 2400
  BY <1>1, <1>2
<1>5. q.vy > 0 => 6 * (g - b) + k <= Reach /\ q.vy * q.vy = k
  BY <1>1, <1>2, <1>3
<1> QED
  BY <1>4, <1>5 DEF InReach, g, GROUND_THRESHOLD

\* A fall leaves the speed at most 0, so only the height counts.
LEMMA FallInReach ==
  ASSUME NEW q \in State, NEW b \in Int, q.vy <= 0, Foot(q) <= b + 2 * GROUND_THRESHOLD
  PROVE  InReach(q, b)
<1> DEFINE g == Foot(q)
<1>1. g \in Int /\ q.vy \in Int
  BY DEF State, Foot, PLAYER_HALF_H
<1>2. g <= b + 800
  BY DEF GROUND_THRESHOLD
<1> HIDE DEF g
<1>3. 6 * (g - b) <= Reach + 2400
  BY <1>1, <1>2, ReachIs
<1>4. ~(q.vy > 0)
  BY <1>1
<1> QED
  BY <1>3, <1>4 DEF InReach, g, GROUND_THRESHOLD

\* From the ground, with or without a jump.
LEMMA FromGround ==
  ASSUME NEW p \in State, Bounded(p), NEW cmd \in Commands, PremoveGround(p, cmd).hit
  PROVE  InReach(Move(p, cmd), PremoveGround(p, cmd).at)
<1> DEFINE q == Move(p, cmd)
           b == PremoveGround(p, cmd).at
           v == Launch(p, cmd).vy
           d == UseDt(cmd)
           f == Foot(p)
<1>1. /\ q \in State
      /\ v > 0 => \/ q.vy = v /\ Foot(q) = f + v * d
                  \/ q.vy = 0 /\ Foot(q) <= f + v * d + GROUND_THRESHOLD
      /\ ~(v > 0) => /\ q.vy <= 0
                     /\ \/ Foot(q) <= f
                        \/ /\ loaded => Foot(q) <= f + GROUND_THRESHOLD
                           /\ ~loaded => Foot(q) = 0
  BY MoveIs
<1>2. b \in Int /\ f <= b + GROUND_THRESHOLD /\ (~loaded => b = 0)
  <2>1. (DropTimer(p, cmd) > 0 \/ p.vy > 0) \in BOOLEAN
    OBVIOUS
  <2> QED
    BY <2>1, GroundIs DEF PremoveGround
<1>3. d \in 1..19 /\ d <= LongestDt /\ p.vy \in -300..200 /\ f \in Int /\ cmd.jump \in BOOLEAN
  BY StepLength DEF Bounded, MAX_FALL_SPEED, JUMP_FORCE, State, Foot, PLAYER_HALF_H, Commands
<1>4. /\ ~cmd.jump => v = IF p.vy <= 0 THEN -40 ELSE p.vy
      /\ cmd.jump => v = 200 - 3 * d
  BY LaunchIs DEF GROUND_PULL, JUMP_FORCE, GRAVITY
<1> HIDE DEF q, b, v, d, f
<1>5. v \in -40..200
  BY <1>3, <1>4
<1>6. CASE v > 0
  <2>1. 6 * (v * d) + v * v <= 1200 * LongestDt + 40000
    <3> DEFINE up == v * d
               l == LongestDt
    <3>1. up \in Int /\ up <= 200 * d
      BY <1>3, <1>5
    <3>2. v * v \in Int /\ v * v <= 40000 /\ l \in Int /\ d <= l
      BY <1>3, <1>5, <1>6, Squares, ReachIs
    <3> HIDE DEF up, l
    <3>3. 6 * up + v * v <= 1200 * l + 40000
      BY <1>3, <3>1, <3>2
    <3> QED
      BY <3>3 DEF up, l
  <2>2. 6 * (f + v * d - b) + v * v <= Reach
    <3> DEFINE up == v * d
               k == v * v
    <3>1. up \in Int /\ k \in Int
      BY <1>3, <1>5
    <3>2. f - b <= 400 /\ 6 * up + k <= 1200 * LongestDt + 40000
      BY <1>2, <1>3, <2>1 DEF GROUND_THRESHOLD
    <3> HIDE DEF up, k
    <3>3. 6 * (f + up - b) + k <= Reach
      BY <1>2, <1>3, <3>1, <3>2, ReachIs
    <3> QED
      BY <3>3 DEF up, k
  <2>3. v \in 1..200
    BY <1>5, <1>6
  <2>4. \/ q.vy = v /\ Foot(q) = Foot(p) + v * d
        \/ q.vy = 0 /\ Foot(q) <= Foot(p) + v * d + GROUND_THRESHOLD
    BY <1>1, <1>6, Zenon DEF f
  <2>5. 6 * (Foot(p) + v * d - b) + v * v <= Reach
    BY <2>2, Zenon DEF f
  <2>6. InReach(q, b)
    BY <1>1, <1>2, <1>3, <2>3, <2>4, <2>5, RiseInReach, Zenon
  <2> QED
    BY <2>6 DEF q, b
<1>7. CASE ~(v > 0)
  <2> DEFINE g == Foot(q)
  <2>1. g \in Int
    BY <1>1 DEF State, Foot, PLAYER_HALF_H
  <2>2. q.vy <= 0 /\ (g <= f + 400 \/ (g = 0 /\ b = 0))
    <3>1. /\ q.vy <= 0
          /\ g <= f \/ (loaded /\ g <= f + 400) \/ (~loaded /\ g = 0)
      BY <1>1, <1>7 DEF GROUND_THRESHOLD
    <3> HIDE DEF g
    <3> QED
      BY <1>2, <1>3, <2>1, <3>1
  <2> HIDE DEF g
  <2>3. g <= b + 2 * GROUND_THRESHOLD
    BY <1>2, <1>3, <2>1, <2>2 DEF GROUND_THRESHOLD
  <2>4. InReach(q, b)
    BY <1>1, <1>2, <2>2, <2>3, FallInReach DEF g
  <2> QED
    BY <2>4 DEF q, b
<1> QED
  BY <1>6, <1>7

\* In the air, gravity is paid in full: what was within reach stays so.
LEMMA InTheAir ==
  ASSUME NEW p \in State, Bounded(p), NEW cmd \in Commands, ~PremoveGround(p, cmd).hit,
         NEW b \in Int, InReach(p, b)
  PROVE  LET q == Move(p, cmd)
         IN  InReach(q, b) \/ (q.vy = GROUND_PULL /\ q.grounded)
<1> DEFINE q == Move(p, cmd)
           v == Launch(p, cmd).vy
           d == UseDt(cmd)
           f == Foot(p)
<1>1. /\ q \in State
      /\ v > 0 => \/ q.vy = v /\ Foot(q) = f + v * d
                  \/ q.vy = 0 /\ Foot(q) <= f + v * d + GROUND_THRESHOLD
      /\ ~(v > 0) => /\ q.vy <= 0
                     /\ Foot(q) <= f \/ (q.vy = GROUND_PULL /\ q.grounded)
  BY MoveIs
<1>2. d \in 1..19 /\ p.vy \in -300..200 /\ f \in Int
  BY StepLength DEF Bounded, MAX_FALL_SPEED, JUMP_FORCE, State, Foot, PLAYER_HALF_H
<1>3. v = AtLeast(p.vy - 3 * d, -300)
  BY LaunchIs DEF GRAVITY, MAX_FALL_SPEED
<1>4. /\ 6 * (f - b) <= Reach + 2400
      /\ p.vy > 0 => 6 * (f - b) + p.vy * p.vy <= Reach
  BY DEF InReach, GROUND_THRESHOLD
<1> HIDE DEF q, v, d, f
<1>5. CASE v > 0
  <2> DEFINE u == p.vy
             up == v * d
             k == v * v
             j == u * u
  <2>1. u = v + 3 * d /\ u > 0 /\ u \in Int /\ v \in 1..200
    <3> HIDE DEF u
    <3>1. u \in -300..200
      BY <1>2 DEF u
    <3>2. v = u - 3 * d
      <4>1. v = IF u - 3 * d >= -300 THEN u - 3 * d ELSE -300
        BY <1>3, Zenon DEF u, AtLeast
      <4> QED
        BY <4>1, <1>5
    <3> QED
      BY <1>2, <1>5, <3>1, <3>2
  <2>2. up \in Int /\ k \in Int /\ j \in Int /\ 6 * up + k <= j
    <3> HIDE DEF u
    <3> QED
      BY <1>2, <1>5, <2>1, RiseCosts
  <2>3. 6 * (f - b) + j <= Reach
    BY <1>4, <2>1
  <2> HIDE DEF u, up, k, j
  <2>4. 6 * (f + up - b) + k <= Reach
    BY <1>2, <2>2, <2>3, ReachIs
  <2>5. 6 * (Foot(p) + v * d - b) + v * v <= Reach
    BY <2>4, Zenon DEF f, up, k
  <2>6. \/ q.vy = v /\ Foot(q) = Foot(p) + v * d
        \/ q.vy = 0 /\ Foot(q) <= Foot(p) + v * d + GROUND_THRESHOLD
    BY <1>1, <1>5, Zenon DEF f
  <2>7. InReach(q, b)
    BY <1>1, <1>2, <2>1, <2>5, <2>6, RiseInReach, Zenon
  <2> QED
    BY <2>7 DEF q
<1>6. CASE ~(v > 0) /\ Foot(q) <= f
  <2> DEFINE g == Foot(q)
  <2>1. g \in Int /\ g <= f /\ q.vy \in Int /\ q.vy <= 0
    BY <1>1, <1>6 DEF State, Foot, PLAYER_HALF_H
  <2> HIDE DEF g
  <2>2. 6 * (g - b) <= Reach + 2400
    BY <1>2, <1>4, <2>1, ReachIs
  <2>3. ~(q.vy > 0)
    BY <2>1
  <2>4. InReach(q, b)
    BY <2>2, <2>3 DEF InReach, g, GROUND_THRESHOLD
  <2> QED
    BY <2>4 DEF q
<1>7. CASE ~(v > 0) /\ q.vy = GROUND_PULL /\ q.grounded
  BY <1>7 DEF q
<1> QED
  BY <1>1, <1>5, <1>6, <1>7

\* A jump off a ladder, with or without ground below.
LEMMA OffLadder ==
  ASSUME NEW p \in State, Bounded(p), p.vy = JUMP_FORCE, NEW cmd \in Commands, cmd.jump
  PROVE  InReach(Move(p, cmd), Foot(p))
<1> DEFINE q == Move(p, cmd)
           v == Launch(p, cmd).vy
           d == UseDt(cmd)
           f == Foot(p)
<1>1. /\ q \in State
      /\ v > 0 => \/ q.vy = v /\ Foot(q) = f + v * d
                  \/ q.vy = 0 /\ Foot(q) <= f + v * d + GROUND_THRESHOLD
  BY MoveIs
<1>2. d \in 1..19 /\ f \in Int
  BY StepLength DEF State, Foot, PLAYER_HALF_H
<1>3. PremoveGround(p, cmd).hit \in BOOLEAN
  <2>1. (DropTimer(p, cmd) > 0 \/ p.vy > 0) \in BOOLEAN
    OBVIOUS
  <2> QED
    BY <2>1, GroundIs DEF PremoveGround
<1>4. v = 200 - 3 * d
  <2>1. CASE PremoveGround(p, cmd).hit
    BY <2>1, LaunchIs DEF JUMP_FORCE, GRAVITY
  <2>2. CASE ~PremoveGround(p, cmd).hit
    <3>1. v = AtLeast(200 - 3 * d, -300)
      BY <2>2, LaunchIs DEF JUMP_FORCE, GRAVITY, MAX_FALL_SPEED
    <3> HIDE DEF v, d
    <3> QED
      BY <1>2, <3>1 DEF AtLeast
  <2> QED
    BY <1>3, <2>1, <2>2
<1> HIDE DEF q, v, d, f
<1>5. v \in 1..200
  BY <1>2, <1>4
<1> DEFINE u == 200
<1>6. u \in Int /\ u = v + 3 * d /\ v \in Int /\ v > 0 /\ u * u = 40000
  BY <1>2, <1>4
<1> HIDE DEF u
<1>7. v * d \in Int /\ v * v \in Int /\ 6 * (v * d) + v * v <= 40000
  BY <1>2, <1>6, RiseCosts
<1>8. 6 * (f + v * d - f) + v * v <= Reach
  <2> DEFINE up == v * d
             k == v * v
  <2>1. up \in Int /\ k \in Int /\ 6 * up + k <= 40000
    BY <1>7
  <2> HIDE DEF up, k
  <2>2. f + up - f = up
    BY <1>2, <2>1
  <2>3. Reach \in Int /\ 40000 <= Reach
    BY ReachIs
  <2>4. 6 * (f + up - f) + k <= Reach
    BY <2>1, <2>2, <2>3
  <2> QED
    BY <2>4, Zenon DEF up, k
<1>9. InReach(q, f)
  <2>1. 6 * (Foot(p) + v * d - f) + v * v <= Reach
    BY <1>8, Zenon DEF f
  <2>2. \/ q.vy = v /\ Foot(q) = Foot(p) + v * d
        \/ q.vy = 0 /\ Foot(q) <= Foot(p) + v * d + GROUND_THRESHOLD
    BY <1>1, <1>5 DEF f
  <2> QED
    BY <1>1, <1>2, <1>5, <2>1, <2>2, RiseInReach, Zenon
<1> QED
  BY <1>9 DEF q, f

-----------------------------------------------------------------------------
\* Ladders.

\* A climb's next state, before the ends of the ladder are looked at.
Climbed(p, cmd) ==
  [p EXCEPT !.x = p.ladderCenterX, !.y = ClimbTo(p, cmd), !.vy = cmd.climb * CLIMB_SPEED]

\* The four ways a step on a ladder ends.
LEMMA LadderCases ==
  ASSUME NEW p \in State, NEW cmd \in Commands
  PROVE  LET q == LadderStep(p, cmd)
             r == Climbed(p, cmd)
             ground == CheckGround(r, TRUE)
         IN  \/ /\ cmd.jump
                /\ q = [p EXCEPT !.onLadder = FALSE, !.vy = JUMP_FORCE, !.grounded = FALSE]
             \/ /\ ~cmd.jump /\ cmd.climb < 0 /\ ground.hit
                /\ q = [r EXCEPT !.onLadder = FALSE, !.vy = 0, !.grounded = TRUE,
                                 !.y = ground.at + PLAYER_HALF_H]
             \/ /\ ~cmd.jump /\ cmd.climb > 0
                /\ q = [r EXCEPT !.onLadder = FALSE, !.vy = 0]
             \/ /\ ~cmd.jump
                /\ q = r
<1> DEFINE q == LadderStep(p, cmd)
           r == Climbed(p, cmd)
           ground == CheckGround(r, TRUE)
           jump == cmd.jump
           down == cmd.climb < 0 /\ ground.hit
           up == cmd.climb > 0 /\ r.y >= p.ladderMaxY + PLAYER_HALF_H
           A == [p EXCEPT !.onLadder = FALSE, !.vy = JUMP_FORCE, !.grounded = FALSE]
           B == [r EXCEPT !.onLadder = FALSE, !.vy = 0, !.grounded = TRUE,
                          !.y = ground.at + PLAYER_HALF_H]
           C == [r EXCEPT !.onLadder = FALSE, !.vy = 0]
<1>1. q = CASE jump -> A
            [] ~jump /\ cmd.climb < 0 /\ ground.hit -> B
            [] ~jump /\ cmd.climb > 0 /\ r.y >= p.ladderMaxY + PLAYER_HALF_H -> C
            [] OTHER -> r
  BY Zenon DEF LadderStep, Climbed
<1>2. ~(cmd.climb < 0 /\ cmd.climb > 0)
  BY DEF Commands
<1> HIDE DEF q, r, ground, jump, A, B, C
<1>3. CASE jump
  <2>1. q = A
    BY <1>1, <1>3, Zenon
  <2> QED
    BY <1>3, <2>1 DEF q, r, ground, jump, A
<1>4. CASE ~jump /\ cmd.climb < 0 /\ ground.hit
  <2>1. q = B
    BY <1>1, <1>2, <1>4, Zenon
  <2> QED
    BY <1>4, <2>1 DEF q, r, ground, jump, B
<1>5. CASE ~jump /\ cmd.climb > 0 /\ r.y >= p.ladderMaxY + PLAYER_HALF_H
  <2>1. q = C
    BY <1>1, <1>2, <1>5, Zenon
  <2> QED
    BY <1>5, <2>1 DEF q, r, ground, jump, C
<1>6. CASE /\ ~jump /\ ~(cmd.climb < 0 /\ ground.hit)
           /\ ~(cmd.climb > 0 /\ r.y >= p.ladderMaxY + PLAYER_HALF_H)
  <2>1. q = r
    BY <1>1, <1>6, Zenon
  <2> QED
    BY <1>6, <2>1 DEF q, r, ground, jump
<1> QED
  BY <1>3, <1>4, <1>5, <1>6

\* A ladder the map has put a player on has an extent.
HasExtent(p) == loaded /\ p.onLadder => p.ladderMinY <= p.ladderMaxY

\* A player on a ladder is within its extent, or in the cell above it.
OnExtent(p) ==
  loaded /\ p.onLadder => p.y \in p.ladderMinY .. p.ladderMaxY + AtLeast(PLAYER_HALF_H, CellSize)

LEMMA ClimbedIs ==
  ASSUME NEW p \in State, Bounded(p), NEW cmd \in Commands
  PROVE  LET r == Climbed(p, cmd)
         IN  /\ r \in State /\ Bounded(r) /\ SameLadder(p, r)
             /\ p.ladderMinY <= p.ladderMaxY =>
                    r.y \in p.ladderMinY .. p.ladderMaxY + PLAYER_HALF_H
<1> DEFINE r == Climbed(p, cmd)
           y == ClimbTo(p, cmd)
           v == cmd.climb * CLIMB_SPEED
           x == p.ladderCenterX
<1>1. UseDt(cmd) \in 1..19 /\ cmd.climb \in {-1, 0, 1}
  BY StepLength DEF Commands
<1>2. v \in -60..60 /\ x \in Int
  BY <1>1 DEF CLIMB_SPEED, State
<1>3. /\ y \in Int
      /\ p.ladderMinY <= p.ladderMaxY => y \in p.ladderMinY .. p.ladderMaxY + PLAYER_HALF_H
  <2> DEFINE w == p.y + v * UseDt(cmd)
             lo == p.ladderMinY
             hi == p.ladderMaxY + PLAYER_HALF_H
  <2>1. /\ w \in Int /\ lo \in Int /\ hi \in Int
        /\ p.ladderMinY <= p.ladderMaxY => lo <= hi
    BY <1>1, <1>2 DEF State, PLAYER_HALF_H
  <2>2. y = AtMost(AtLeast(w, lo), hi)
    BY DEF ClimbTo
  <2> HIDE DEF w, lo, hi, y
  <2>3. y \in Int /\ (lo <= hi => y \in lo..hi)
    BY <2>1, <2>2 DEF AtMost, AtLeast
  <2> QED
    BY <2>1, <2>3 DEF lo, hi
<1>4. r = [p EXCEPT !.x = x, !.y = y, !.vy = v]
  BY DEF Climbed
<1>5. v \in Int
  BY <1>2
<1> HIDE DEF r, x, y, v
<1>6. r.y = y /\ r.vy = v /\ r.dropTimer = p.dropTimer /\ SameLadder(p, r)
  BY <1>4 DEF State, SameLadder
<1>7. r \in State
  BY <1>2, <1>3, <1>4, <1>5 DEF State
<1>8. Bounded(r)
  BY <1>2, <1>6 DEF Bounded, MAX_FALL_SPEED, JUMP_FORCE
<1> QED
  BY <1>3, <1>6, <1>7, <1>8 DEF r

LEMMA LadderStepIs ==
  ASSUME NEW p \in State, Bounded(p), p.onLadder, HasExtent(p), NEW cmd \in Commands
  PROVE  LET q == LadderStep(p, cmd)
         IN  /\ q \in State /\ Bounded(q) /\ HasExtent(q) /\ OnExtent(q)
             /\ cmd.jump => /\ q.y = p.y /\ ~q.onLadder /\ q.vy = JUMP_FORCE
             /\ ~cmd.jump /\ ~q.onLadder => q.vy = 0
<1> DEFINE q == LadderStep(p, cmd)
           r == Climbed(p, cmd)
           ground == CheckGround(r, TRUE)
           stop == 0
           fast == JUMP_FORCE
           edge == ground.at + PLAYER_HALF_H
<1>1. /\ r \in State /\ Bounded(r) /\ SameLadder(p, r)
      /\ p.ladderMinY <= p.ladderMaxY => r.y \in p.ladderMinY .. p.ladderMaxY + PLAYER_HALF_H
  BY ClimbedIs
<1>2. stop \in Int /\ stop = 0 /\ fast \in Int /\ fast = JUMP_FORCE
  BY DEF JUMP_FORCE
<1>3. ground.at \in Int
  <2>1. TRUE \in BOOLEAN
    OBVIOUS
  <2> QED
    BY <1>1, <2>1, GroundIs
<1>4. edge \in Int
  <2> DEFINE g == ground.at
  <2>1. g \in Int
    BY <1>3
  <2> HIDE DEF g
  <2>2. g + PLAYER_HALF_H \in Int
    BY <2>1 DEF PLAYER_HALF_H
  <2> QED
    BY <2>2 DEF g
<1>6. \/ /\ cmd.jump
         /\ q = [p EXCEPT !.onLadder = FALSE, !.vy = fast, !.grounded = FALSE]
      \/ /\ ~cmd.jump
         /\ q = [r EXCEPT !.onLadder = FALSE, !.vy = stop, !.grounded = TRUE, !.y = edge]
      \/ /\ ~cmd.jump
         /\ q = [r EXCEPT !.onLadder = FALSE, !.vy = stop]
      \/ ~cmd.jump /\ q = r
  BY LadderCases
<1> HIDE DEF q, r, ground, stop, fast, edge
<1>7. ASSUME q \in State, ~q.onLadder, Bounded(q)
      PROVE  HasExtent(q) /\ OnExtent(q)
  BY <1>7 DEF HasExtent, OnExtent
<1>8. CASE /\ cmd.jump
           /\ q = [p EXCEPT !.onLadder = FALSE, !.vy = fast, !.grounded = FALSE]
  <2>1. q.y = p.y /\ q.onLadder = FALSE /\ q.vy = fast /\ q.dropTimer = p.dropTimer
    BY <1>8 DEF State
  <2>2. q \in State
    BY <1>2, <1>8 DEF State
  <2>3. Bounded(q)
    BY <1>2, <2>1 DEF Bounded, MAX_FALL_SPEED, JUMP_FORCE
  <2> QED
    BY <1>2, <1>7, <1>8, <2>1, <2>2, <2>3 DEF q
<1>9. CASE /\ ~cmd.jump
           /\ q = [r EXCEPT !.onLadder = FALSE, !.vy = stop, !.grounded = TRUE, !.y = edge]
  <2>1. q.onLadder = FALSE /\ q.vy = stop /\ q.dropTimer = r.dropTimer
    BY <1>1, <1>9 DEF State
  <2>2. q \in State
    BY <1>1, <1>2, <1>4, <1>9 DEF State
  <2>3. Bounded(q)
    BY <1>1, <1>2, <2>1 DEF Bounded, MAX_FALL_SPEED, JUMP_FORCE
  <2> QED
    BY <1>2, <1>7, <1>9, <2>1, <2>2, <2>3 DEF q
<1>10. CASE /\ ~cmd.jump
            /\ q = [r EXCEPT !.onLadder = FALSE, !.vy = stop]
  <2>1. q.onLadder = FALSE /\ q.vy = stop /\ q.dropTimer = r.dropTimer
    BY <1>1, <1>10 DEF State
  <2>2. q \in State
    BY <1>1, <1>2, <1>10 DEF State
  <2>3. Bounded(q)
    BY <1>1, <1>2, <2>1 DEF Bounded, MAX_FALL_SPEED, JUMP_FORCE
  <2> QED
    BY <1>2, <1>7, <1>10, <2>1, <2>2, <2>3 DEF q
<1>11. CASE ~cmd.jump /\ q = r
  <2>1. q \in State /\ Bounded(q) /\ q.onLadder
    BY <1>1, <1>11 DEF SameLadder
  <2>2. HasExtent(q)
    BY <1>1, <1>11 DEF HasExtent, SameLadder
  <2>3. OnExtent(q)
    <3> DEFINE lo == p.ladderMinY
               hi == p.ladderMaxY
               top == AtLeast(PLAYER_HALF_H, CellSize)
    <3> SUFFICES ASSUME loaded PROVE q.y \in lo..hi + top
      BY <1>1, <1>11 DEF OnExtent, SameLadder
    <3>1. q.y \in lo..hi + 2000 /\ q.y \in Int
      BY <1>1, <1>11, <2>1 DEF HasExtent, PLAYER_HALF_H, State
    <3>2. lo \in Int /\ hi \in Int /\ top \in Int /\ 2000 <= top
      BY Cells DEF State, AtLeast, PLAYER_HALF_H
    <3> HIDE DEF lo, hi, top
    <3> QED
      BY <3>1, <3>2
  <2> QED
    BY <1>11, <2>1, <2>2, <2>3 DEF q
<1> QED
  BY <1>6, <1>8, <1>9, <1>10, <1>11

\* GetLadderExtent finds the rows of a ladder: there are some, and they end.
LEMMA Extent ==
  ASSUME NEW cx \in Int, NEW cy \in Int, IsLadder(cx, cy)
  PROVE  /\ LowestRow(cx, cy) \in Int /\ HighestRow(cx, cy) \in Int
         /\ LowestRow(cx, cy) <= cy /\ cy <= HighestRow(cx, cy)
<1> DEFINE rows == LadderRows(cx, cy)
           least == CHOOSE r \in rows : \A k \in rows : r <= k
           greatest == CHOOSE r \in rows : \A k \in rows : k <= r
           lo == -CellWord
           hi == CellWord
<1>1. /\ lo \in Int /\ hi \in Int
      /\ \A c \in Ladder : /\ c[1] \in Int /\ c[2] \in Int
                           /\ lo <= c[2] /\ c[2] <= hi
  <2>1. lo \in Int /\ hi \in Int /\ CellWord \in Nat
    BY Cells
  <2>2. ASSUME NEW a \in CellCoords PROVE lo <= a /\ a <= hi
    <3>1. a \in Int /\ -CellWord <= 2 * a /\ 2 * a < CellWord
      BY Coords
    <3> QED
      BY <2>1, <3>1
  <2> HIDE DEF lo, hi
  <2> QED
    BY <2>1, <2>2, Cells
<1>2. rows \subseteq {c[2] : c \in Ladder}
  BY DEF LadderRows
<1>3. cy \in rows
  <2>1. PICK c \in Ladder : PackCell(cx, cy) = PackCell(c[1], c[2])
    BY DEF IsLadder, LadderKeys, Keys
  <2>2. cy = c[2]
    BY <1>1, <2>1, KeyRow
  <2>3. AtMost(cy, cy) = cy /\ AtLeast(cy, cy) = cy /\ cy..cy = {cy}
    BY DEF AtMost, AtLeast
  <2> QED
    BY <2>2, <2>3 DEF LadderRows
<1> HIDE DEF rows, lo, hi
<1>4. rows \subseteq Int /\ rows # {} /\ \A a \in rows : lo <= a /\ a <= hi
  BY <1>1, <1>2, <1>3
<1>5. (\E r \in rows : \A k \in rows : r <= k) /\ (\E r \in rows : \A k \in rows : k <= r)
  BY <1>1, <1>4, LeastGreatest
<1>6. /\ least \in rows /\ \A k \in rows : least <= k
      /\ greatest \in rows /\ \A k \in rows : k <= greatest
  BY <1>5
<1> HIDE DEF least, greatest
<1>7. least \in Int /\ greatest \in Int /\ least <= cy /\ cy <= greatest
  BY <1>3, <1>4, <1>6
<1> QED
  BY <1>7 DEF least, greatest, rows, LowestRow, HighestRow

\* Rows in order have heights in order.
LEMMA CellMonotone ==
  ASSUME NEW a \in Int, NEW b \in Int, a <= b
  PROVE  CellBottom(a) <= CellBottom(b) /\ CellTop(a) <= CellTop(b)
<1>1. CASE a = b
  <2>1. CellBottom(a) \in Int /\ CellTop(a) \in Int
    BY CellSpan
  <2> QED
    BY <1>1, <2>1
<1>2. CASE a < b
  <2>1. CellTop(a) <= CellBottom(b)
    BY <1>2, CellOrder
  <2>2. /\ CellBottom(a) \in Int /\ CellTop(a) = CellBottom(a) + CellSize
        /\ CellBottom(b) \in Int /\ CellTop(b) = CellBottom(b) + CellSize /\ CellSize \in Nat
    BY Cells, CellSpan
  <2> DEFINE x == CellBottom(a)
             y == CellBottom(b)
             z == CellTop(a)
             w == CellTop(b)
  <2> HIDE DEF x, y, z, w
  <2>3. x <= y /\ z <= w
    <3>1. x \in Int /\ y \in Int /\ z = x + CellSize /\ w = y + CellSize /\ z <= y
      BY <2>1, <2>2 DEF x, y, z, w
    <3> QED
      BY <2>2, <3>1
  <2> QED
    BY <2>3 DEF x, y, z, w
<1> QED
  BY <1>1, <1>2

\* A player that has grabbed a ladder.
Grabbed(p, px, py) ==
  [p EXCEPT !.onLadder = TRUE, !.x = px, !.y = py, !.vy = 0, !.grounded = FALSE]

LEMMA GrabIs ==
  ASSUME NEW px \in Int, NEW py \in Int, HandleLadderState(px, py),
         s \in State, Bounded(s), loaded \in BOOLEAN
  PROVE  /\ s' \in State /\ Bounded(s') /\ HasExtent(s') /\ OnExtent(s') /\ s'.onLadder
         /\ loaded' = loaded /\ support' = Foot(s')
<1> DEFINE cx == WorldToCell(px)
           row == WorldToCell(py)
           cy == IF IsLadder(cx, row) THEN row ELSE row - 1
           least == LowestRow(cx, cy)
           greatest == HighestRow(cx, cy)
           q == Grabbed(s, px, py)
           c == CellBottom(cx) + CellSize \div 2
           lo == CellBottom(least)
           hi == CellTop(greatest)
           ladder == IsLadder(cx, cy)
           A == [q EXCEPT !.ladderCenterX = c, !.ladderMinY = lo, !.ladderMaxY = hi]
           B == [q EXCEPT !.ladderCenterX = px, !.ladderMinY = py - 2000,
                          !.ladderMaxY = py + 40000]
<1>1. /\ support' = Foot(s') /\ loaded' = loaded
      /\ s' = IF ~loaded THEN q ELSE IF ladder THEN A ELSE B
  BY DEF HandleLadderState, Grabbed
<1>2. /\ cx \in Int /\ row \in Int /\ cy \in Int /\ (cy = row \/ cy = row - 1)
      /\ CellBottom(row) <= py /\ py < CellTop(row)
  BY CellOf
<1>3. c \in Int
  <2>1. CellBottom(cx) \in Int /\ CellSize \div 2 \in Int
    BY <1>2, CellSpan, Cells
  <2> QED
    BY <2>1
<1>4. ASSUME ladder
      PROVE  /\ lo \in Int /\ hi \in Int /\ lo <= hi
             /\ lo <= py /\ py <= hi + CellSize
  <2> HIDE DEF cx, cy, row
  <2>0. cx \in Int /\ cy \in Int /\ IsLadder(cx, cy)
    BY <1>2, <1>4
  <2>1. least \in Int /\ greatest \in Int /\ least <= cy /\ cy <= greatest
    BY <2>0, Extent
  <2> HIDE DEF least, greatest
  <2>2. /\ lo <= CellBottom(cy) /\ CellTop(cy) <= hi
        /\ lo \in Int /\ hi \in Int
    BY <1>2, <2>1, CellMonotone, CellSpan
  <2>3. /\ CellBottom(cy) \in Int /\ CellTop(cy) = CellBottom(cy) + CellSize
        /\ CellBottom(row) \in Int /\ CellTop(row) = CellBottom(row) + CellSize /\ CellSize \in Nat
    BY <1>2, CellSpan, Cells
  <2>4. \/ CellBottom(cy) = CellBottom(row)
        \/ CellBottom(row) = CellTop(cy)
    <3>1. CASE cy = row
      BY <3>1
    <3>2. CASE cy = row - 1
      <4>1. cy + 1 = row
        BY <1>2, <3>2
      <4> QED
        BY <4>1 DEF CellTop, CellBottom
    <3> QED
      BY <1>2, <3>1, <3>2
  <2> DEFINE a == CellBottom(cy)
             b == CellBottom(row)
             t == CellTop(cy)
             u == CellTop(row)
  <2>5. /\ a \in Int /\ b \in Int /\ t = a + CellSize /\ u = b + CellSize /\ CellSize \in Nat
        /\ lo <= a /\ t <= hi /\ lo \in Int /\ hi \in Int
        /\ b <= py /\ py < u /\ (a = b \/ b = t)
    BY <1>2, <2>2, <2>3, <2>4
  <2> HIDE DEF a, b, t, u, lo, hi
  <2> QED
    BY <2>5
<1> HIDE DEF cx, cy, row, least, greatest, c, lo, hi, ladder
<1> DEFINE stop == 0
<1>5. q = [s EXCEPT !.onLadder = TRUE, !.x = px, !.y = py, !.vy = stop, !.grounded = FALSE]
      /\ stop \in Int /\ stop = 0
  BY DEF Grabbed
<1> HIDE DEF q, stop
<1>6. q \in State /\ q.onLadder /\ q.y = py /\ q.vy = 0 /\ q.dropTimer = s.dropTimer
  <2>1. q.onLadder = TRUE /\ q.y = py /\ q.vy = stop /\ q.dropTimer = s.dropTimer
    BY <1>5 DEF State
  <2>2. q \in State
    BY <1>5 DEF State
  <2> QED
    BY <1>5, <2>1, <2>2
<1>7. Bounded(q)
  BY <1>6 DEF Bounded, MAX_FALL_SPEED, JUMP_FORCE
<1>8. CASE ~loaded
  <2>1. s' = q
    BY <1>1, <1>8
  <2> QED
    BY <1>1, <1>6, <1>7, <1>8, <2>1 DEF HasExtent, OnExtent, Bounded
<1>9. ASSUME loaded, NEW cx1 \in Int, NEW lo1 \in Int, NEW hi1 \in Int,
             s' = [q EXCEPT !.ladderCenterX = cx1, !.ladderMinY = lo1, !.ladderMaxY = hi1],
             lo1 <= hi1, lo1 <= py, py <= hi1 + AtLeast(PLAYER_HALF_H, CellSize)
      PROVE  s' \in State /\ Bounded(s') /\ HasExtent(s') /\ OnExtent(s') /\ s'.onLadder
  <2>1. /\ s'.y = py /\ s'.vy = q.vy /\ s'.dropTimer = q.dropTimer /\ s'.onLadder = q.onLadder
        /\ s'.ladderMinY = lo1 /\ s'.ladderMaxY = hi1
    BY <1>6, <1>9 DEF State
  <2>2. s' \in State
    BY <1>6, <1>9 DEF State
  <2>3. Bounded(s')
    BY <1>7, <2>1 DEF Bounded
  <2>4. HasExtent(s')
    BY <1>9, <2>1 DEF HasExtent
  <2>5. AtLeast(PLAYER_HALF_H, CellSize) \in Int
    BY Cells DEF AtLeast, PLAYER_HALF_H
  <2>6. OnExtent(s')
    BY <1>1, <1>9, <2>1, <2>5 DEF OnExtent
  <2> QED
    BY <1>6, <2>1, <2>2, <2>3, <2>4, <2>6
<1> DEFINE top == AtLeast(PLAYER_HALF_H, CellSize)
<1>10. top \in Int /\ CellSize <= top /\ 2000 <= top /\ CellSize \in Int
  BY Cells DEF AtLeast, PLAYER_HALF_H
<1>11. CASE loaded /\ ladder
  <2>1. s' = A
    BY <1>1, <1>11
  <2>2. py <= hi + top
    <3> HIDE DEF top
    <3> QED
      BY <1>4, <1>10, <1>11
  <2>3. loaded /\ c \in Int /\ lo \in Int /\ hi \in Int /\ lo <= hi /\ lo <= py
    BY <1>3, <1>4, <1>11
  <2>4. s' \in State /\ Bounded(s') /\ HasExtent(s') /\ OnExtent(s') /\ s'.onLadder
    BY <1>9, <2>1, <2>2, <2>3
  <2> QED
    BY <1>1, <2>4
<1>12. CASE loaded /\ ~ladder
  <2>1. s' = B
    BY <1>1, <1>12
  <2> DEFINE lo2 == py - 2000
             hi2 == py + 40000
  <2>2. lo2 \in Int /\ hi2 \in Int /\ lo2 <= hi2 /\ lo2 <= py /\ py <= hi2 + top
    <3> HIDE DEF top
    <3> QED
      BY <1>10
  <2>3. s' = [q EXCEPT !.ladderCenterX = px, !.ladderMinY = lo2, !.ladderMaxY = hi2]
    BY <2>1
  <2> HIDE DEF lo2, hi2
  <2>4. s' \in State /\ Bounded(s') /\ HasExtent(s') /\ OnExtent(s') /\ s'.onLadder
    BY <1>9, <1>12, <2>2, <2>3
  <2> QED
    BY <1>1, <2>4
<1> QED
  BY <1>8, <1>11, <1>12

-----------------------------------------------------------------------------
\* The invariant.

IInv ==
  /\ s \in State /\ Bounded(s) /\ HasExtent(s) /\ OnExtent(s)
  /\ support \in Int /\ loaded \in BOOLEAN
  /\ InReach(s, support)

LEMMA FootIs ==
  ASSUME NEW p \in State
  PROVE  Foot(p) \in Int /\ Foot(p) = p.y - 2000 /\ Head(p) = Foot(p) + 4000
BY DEF State, Foot, Head, PLAYER_HALF_H

\* What carries a player is within its reach.
LEMMA CarriedInReach ==
  ASSUME NEW p \in State, Bounded(p)
  PROVE  InReach(p, Foot(p))
<1> DEFINE f == Foot(p)
           v == p.vy
<1>1. f \in Int /\ v \in -300..200
  BY FootIs DEF Bounded, MAX_FALL_SPEED, JUMP_FORCE
<1> HIDE DEF f, v
<1>2. 6 * (f - f) <= Reach + 2400
  BY <1>1, ReachIs
<1>3. v > 0 => 6 * (f - f) + v * v <= Reach
  <2> SUFFICES ASSUME v > 0 PROVE 6 * (f - f) + v * v <= Reach
    OBVIOUS
  <2>1. v * v \in Int /\ v * v <= 40000
    BY <1>1, Squares
  <2> QED
    BY <1>1, <2>1, ReachIs
<1> QED
  BY <1>2, <1>3 DEF InReach, f, v, GROUND_THRESHOLD

\* The steps a client can make the player take.
LEMMA InputsAreCommands ==
  ASSUME s.grounded \in BOOLEAN, NEW cmd \in Inputs \cup {NoInput}
  PROVE  cmd \in Commands
<1>1. CASE cmd \in Inputs
  BY <1>1 DEF Inputs, Commands
<1>2. CASE cmd = NoInput
  BY <1>2 DEF NoInput, Commands
<1> QED
  BY <1>1, <1>2

\* What carries the player after a step, case by case.
LEMMA SupportIs ==
  ASSUME NEW cmd, Simulate(cmd)
  PROVE  /\ s' = SimulatePlayer(s, cmd) /\ loaded' = loaded
         /\ s'.onLadder => support' = Foot(s')
         /\ s.onLadder /\ ~s'.onLadder =>
                support' = IF cmd.jump THEN Foot(s) ELSE Foot(s')
         /\ ~s.onLadder /\ ~s'.onLadder /\ PremoveGround(s, cmd).hit =>
                support' = PremoveGround(s, cmd).at
         /\ ~s.onLadder /\ ~s'.onLadder /\ ~PremoveGround(s, cmd).hit =>
                support' = IF s'.vy = GROUND_PULL /\ s'.grounded THEN Foot(s') ELSE support
<1> DEFINE a == s'.onLadder
           b == s.onLadder
           c == PremoveGround(s, cmd).hit
           landed == IF s'.vy = GROUND_PULL /\ s'.grounded THEN Foot(s') ELSE support
           off == IF cmd.jump THEN Foot(s) ELSE Foot(s')
           at == PremoveGround(s, cmd).at
<1>1. s' = SimulatePlayer(s, cmd) /\ loaded' = loaded
  BY DEF Simulate
<1>2. support' = CASE a -> Foot(s')
                   [] b /\ ~a -> off
                   [] ~b /\ ~a /\ c -> at
                   [] OTHER -> landed
  BY Zenon DEF Simulate
<1> HIDE DEF a, b, c, landed, off, at
<1>3. a => support' = Foot(s')
  BY <1>2, Zenon
<1>4. b /\ ~a => support' = off
  BY <1>2, Zenon
<1>5. ~b /\ ~a /\ c => support' = at
  BY <1>2, Zenon
<1>6. ~b /\ ~a /\ ~c => support' = landed
  BY <1>2, Zenon
<1> QED
  BY <1>1, <1>3, <1>4, <1>5, <1>6 DEF a, b, c, landed, off, at

\* A step on a ladder.
LEMMA LadderStays ==
  ASSUME IInv, NEW cmd \in Commands, Simulate(cmd), s.onLadder
  PROVE  IInv'
<1> DEFINE q == LadderStep(s, cmd)
<1>1. /\ s' = SimulatePlayer(s, cmd) /\ loaded' = loaded
      /\ s'.onLadder => support' = Foot(s')
      /\ ~s'.onLadder => support' = IF cmd.jump THEN Foot(s) ELSE Foot(s')
  BY SupportIs
<1>2. /\ q \in State /\ Bounded(q) /\ HasExtent(q) /\ OnExtent(q)
      /\ cmd.jump => q.y = s.y /\ ~q.onLadder /\ q.vy = JUMP_FORCE
  BY LadderStepIs DEF IInv
<1>3. s' = IF q.onLadder \/ (~cmd.jump /\ cmd.climb > 0) THEN q ELSE Move(q, cmd)
  BY <1>1 DEF SimulatePlayer, LadderReturns
<1>4. q.onLadder \in BOOLEAN /\ cmd.jump \in BOOLEAN /\ loaded \in BOOLEAN
  BY <1>2 DEF State, Commands, IInv
<1> HIDE DEF q
<1>5. CASE q.onLadder \/ (~cmd.jump /\ cmd.climb > 0)
  <2>1. s' = q /\ support' = Foot(s') /\ ~cmd.jump
    BY <1>1, <1>2, <1>3, <1>4, <1>5
  <2>2. InReach(s', support') /\ support' \in Int
    BY <1>2, <2>1, CarriedInReach, FootIs
  <2> QED
    BY <1>1, <1>2, <1>4, <2>1, <2>2 DEF IInv, HasExtent, OnExtent, InReach
<1>6. CASE ~(q.onLadder \/ (~cmd.jump /\ cmd.climb > 0))
  <2>1. s' = Move(q, cmd)
    BY <1>3, <1>6
  <2>2. s' \in State /\ Bounded(s') /\ ~s'.onLadder
    BY <1>2, <1>6, <2>1, MoveIs DEF SameLadder
  <2>3. InReach(s', support') /\ support' \in Int
    <3>1. CASE cmd.jump
      <4>1. support' = Foot(q)
        BY <1>1, <1>2, <2>2, <3>1 DEF Foot
      <4> QED
        BY <1>2, <2>1, <3>1, <4>1, OffLadder, FootIs
    <3>2. CASE ~cmd.jump
      <4>1. support' = Foot(s')
        BY <1>1, <2>2, <3>2
      <4> QED
        BY <2>2, <4>1, CarriedInReach, FootIs
    <3> QED
      BY <1>4, <3>1, <3>2
  <2> QED
    BY <1>1, <1>4, <2>2, <2>3 DEF IInv, HasExtent, OnExtent, InReach
<1> QED
  BY <1>5, <1>6

\* A step off a ladder.
LEMMA MoveStays ==
  ASSUME IInv, NEW cmd \in Commands, Simulate(cmd), ~s.onLadder
  PROVE  IInv'
<1> DEFINE g == PremoveGround(s, cmd)
<1>1. /\ s' = SimulatePlayer(s, cmd) /\ loaded' = loaded
      /\ ~s'.onLadder /\ g.hit => support' = g.at
      /\ ~s'.onLadder /\ ~g.hit =>
             support' = IF s'.vy = GROUND_PULL /\ s'.grounded THEN Foot(s') ELSE support
  BY SupportIs
<1>2. s' = Move(s, cmd)
  BY <1>1 DEF SimulatePlayer, LadderReturns
<1>3. s \in State /\ Bounded(s) /\ support \in Int /\ loaded \in BOOLEAN /\ InReach(s, support)
  BY DEF IInv
<1>4. s' \in State /\ Bounded(s') /\ ~s'.onLadder
  BY <1>2, <1>3, MoveIs DEF SameLadder
<1>5. g.hit \in BOOLEAN /\ g.at \in Int
  <2>1. (DropTimer(s, cmd) > 0 \/ s.vy > 0) \in BOOLEAN
    OBVIOUS
  <2> QED
    BY <1>3, <2>1, GroundIs DEF PremoveGround
<1>6. InReach(s', support') /\ support' \in Int
  <2>1. CASE g.hit
    BY <1>1, <1>2, <1>3, <1>4, <1>5, <2>1, FromGround
  <2>2. CASE ~g.hit /\ s'.vy = GROUND_PULL /\ s'.grounded
    BY <1>1, <1>4, <2>2, CarriedInReach, FootIs
  <2>3. CASE ~g.hit /\ ~(s'.vy = GROUND_PULL /\ s'.grounded)
    BY <1>1, <1>2, <1>3, <1>4, <2>3, InTheAir
  <2> QED
    BY <1>5, <2>1, <2>2, <2>3
<1> QED
  BY <1>1, <1>3, <1>4, <1>6 DEF IInv, HasExtent, OnExtent, InReach

LEMMA GrabbedIs ==
  ASSUME IInv, Grab
  PROVE  /\ s' \in State /\ Bounded(s') /\ HasExtent(s') /\ OnExtent(s') /\ s'.onLadder
         /\ loaded' = loaded /\ support' = Foot(s')
<1>1. PICK c \in Ladder, py \in LadderSpots :
          HandleLadderState(CellBottom(c[1]) + CellSize \div 2, py)
  BY DEF Grab
<1> DEFINE px == CellBottom(c[1]) + CellSize \div 2
<1>2. px \in Int /\ py \in Int
  <2>1. c[1] \in Int /\ CellSize \in Nat /\ py \in Int
    BY Cells, PhysicsAssumption
  <2>2. CellBottom(c[1]) \in Int /\ CellSize \div 2 \in Int
    BY <2>1, CellSpan
  <2> QED
    BY <2>1, <2>2
<1>3. HandleLadderState(px, py)
  BY <1>1
<1> HIDE DEF px
<1> QED
  BY <1>2, <1>3, GrabIs DEF IInv

LEMMA GrabStays ==
  ASSUME IInv, Grab
  PROVE  IInv'
<1>1. /\ s' \in State /\ Bounded(s') /\ HasExtent(s') /\ OnExtent(s')
      /\ loaded' = loaded /\ support' = Foot(s')
  BY GrabbedIs
<1>2. InReach(s', support') /\ support' \in Int
  BY <1>1, CarriedInReach, FootIs
<1> QED
  BY <1>1, <1>2 DEF IInv, HasExtent, OnExtent, InReach

THEOREM Invariance == Spec => []IInv
<1>1. ASSUME Init PROVE IInv
  <2>1. s \in State /\ s.y = 0 /\ s.vy = 0 /\ s.dropTimer = 0 /\ s.onLadder = FALSE
    BY <1>1 DEF Init, State
  <2>2. Bounded(s)
    BY <2>1 DEF Bounded, MAX_FALL_SPEED, JUMP_FORCE, DROP_TIME
  <2>3. support = Foot(s) /\ loaded \in BOOLEAN
    BY <1>1 DEF Init
  <2> QED
    BY <2>1, <2>2, <2>3, CarriedInReach, FootIs DEF IInv, HasExtent, OnExtent
<1>2. ASSUME IInv, [Next]_vars PROVE IInv'
  <2>1. ASSUME NEW cmd \in Inputs \cup {NoInput}, Simulate(cmd) PROVE IInv'
    <3>1. s.grounded \in BOOLEAN /\ s.onLadder \in BOOLEAN
      BY <1>2 DEF IInv, State
    <3>2. cmd \in Commands
      BY <3>1, InputsAreCommands
    <3>3. CASE s.onLadder
      BY <1>2, <2>1, <3>2, <3>3, LadderStays
    <3>4. CASE ~s.onLadder
      BY <1>2, <2>1, <3>2, <3>4, MoveStays
    <3> QED
      BY <3>1, <3>3, <3>4
  <2>2. CASE Grab
    BY <1>2, <2>2, GrabStays
  <2>3. CASE UNCHANGED vars
    BY <1>2, <2>3 DEF vars, IInv, HasExtent, OnExtent, InReach
  <2> QED
    BY <1>2, <2>1, <2>2, <2>3 DEF Next, TickStep
<1> QED
  BY <1>1, <1>2, PTL DEF Spec

\* A fall never exceeds the terminal speed, the drop timer its start, and a
\* player on a ladder is within the ladder's extent or in the cell above it, on
\* every map and wherever its client grabs the ladder.
THEOREM TypeCorrect == Spec => []TypeOK
<1>1. ASSUME IInv PROVE TypeOK
  BY <1>1 DEF IInv, TypeOK, State, Bounded, OnExtent
<1> QED
  BY <1>1, Invariance, PTL

\* On every map and for every sequence of inputs, the feet are never higher
\* above what last carried the player than one jump takes them, with the reach
\* of the ground check and of the ceiling check.
THEOREM RiseIsBounded == Spec => []RiseBounded
<1>1. ASSUME IInv PROVE RiseBounded
  <2> DEFINE f == Foot(s)
             l == LongestDt
  <2>1. f \in Int /\ support \in Int /\ l \in Int /\ 6 * (f - support) <= 44800 + 1200 * l
    BY <1>1, FootIs, ReachIs DEF IInv, InReach, GROUND_THRESHOLD
  <2> HIDE DEF f, l
  <2>2. f <= support + 800 + 6666 + 200 * l
    BY <2>1
  <2>3. (JUMP_FORCE * JUMP_FORCE) \div (2 * GRAVITY) = 6666
    BY DEF JUMP_FORCE, GRAVITY
  <2>4. JUMP_FORCE * LongestDt = 200 * l /\ 2 * GROUND_THRESHOLD = 800
    BY <2>1 DEF JUMP_FORCE, GROUND_THRESHOLD, l
  <2> QED
    BY <2>1, <2>2, <2>3, <2>4 DEF RiseBounded, f
<1> QED
  BY <1>1, Invariance, PTL

-----------------------------------------------------------------------------
\* No fall through a tile.

\* The bottom of a row is a whole number of cells.
LEMMA WholeCells ==
  ASSUME NEW a \in Int, NEW h \in Int, NEW b \in Int, h % CellSize = 0
  PROVE  /\ CellBottom(a) - h < CellTop(b) => CellBottom(a) - h + CellSize <= CellTop(b)
         /\ CellBottom(a) \in Int /\ CellTop(b) \in Int
<1> DEFINE C == CellSize
           k == h \div C
           r == h % C
<1>1. C \in Nat \ {0}
  BY Cells
<1>2. k \in Int /\ h = C * k + r /\ r = 0
  BY <1>1, DivMod
<1> HIDE DEF C, k, r
<1>3. h = C * k
  BY <1>1, <1>2
<1>4. CellBottom(a) = a * C /\ CellTop(b) = (b + 1) * C
  BY DEF CellBottom, CellTop, C
<1> DEFINE n == b + 1
           j == a - k
<1>5. n \in Int /\ j \in Int /\ CellTop(b) = n * C
  BY <1>2, <1>4
<1>6. CellBottom(a) - h = j * C
  <2>1. j * C = a * C - C * k
    BY <1>1, <1>2
  <2> QED
    BY <1>3, <1>4, <2>1
<1> HIDE DEF n, j
<1>7. j >= n => j * C >= n * C
  <2>1. j >= n => (j - n) * C >= 0
    BY <1>1, <1>5
  <2>2. (j - n) * C = j * C - n * C
    BY <1>1, <1>5
  <2>3. j * C \in Int /\ n * C \in Int
    BY <1>1, <1>5
  <2> QED
    BY <2>1, <2>2, <2>3
<1>8. j + 1 <= n => j * C + C <= n * C
  <2>1. j + 1 <= n => (n - j - 1) * C >= 0
    BY <1>1, <1>5
  <2>2. (n - j - 1) * C = n * C - j * C - C
    BY <1>1, <1>5
  <2>3. j * C \in Int /\ n * C \in Int
    BY <1>1, <1>5
  <2> QED
    BY <1>1, <2>1, <2>2, <2>3
<1>9. j * C < n * C => j * C + C <= n * C
  <2>1. j * C \in Int /\ n * C \in Int
    BY <1>1, <1>5
  <2> QED
    BY <1>5, <1>7, <1>8, <2>1
<1>10. CellBottom(a) \in Int /\ CellTop(b) \in Int
  BY CellSpan
<1> QED
  BY <1>5, <1>6, <1>9, <1>10 DEF C

\* A player whose feet are less than a sub-step below the top of a row looks for
\* ground in that row.
LEMMA LooksAt ==
  ASSUME CellSize >= GROUND_THRESHOLD + 360,
         NEW p \in State, NEW row \in Int, Foot(p) < CellTop(row), CellTop(row) - 360 <= Foot(p)
  PROVE  WorldToCell(Foot(p) - GROUND_THRESHOLD) = row
<1> DEFINE f == Foot(p)
           top == CellTop(row)
           w == f - 400
<1>1. /\ f \in Int /\ top \in Int /\ CellBottom(row) = top - CellSize /\ CellSize \in Int
      /\ CellBottom(row) \in Int /\ CellSize >= 760 /\ f < top /\ top - 360 <= f
  BY FootIs, CellSpan, Cells DEF GROUND_THRESHOLD
<1>2. w \in Int /\ CellBottom(row) <= w /\ w < top
  <2> DEFINE b == CellBottom(row)
  <2>1. b \in Int /\ b = top - CellSize
    BY <1>1
  <2> HIDE DEF f, top, b
  <2> QED
    BY <1>1, <2>1 DEF b
<1>3. WorldToCell(w) = row
  <2> HIDE DEF w
  <2> QED
    BY <1>2, CellWithin
<1> QED
  BY <1>3 DEF GROUND_THRESHOLD

\* If the row has a tile that carries it, it stands on that.
LEMMA FindsGround ==
  ASSUME loaded, CellSize >= GROUND_THRESHOLD + 360,
         NEW p \in State, NEW ignore \in BOOLEAN, NEW c \in Solid \cup Floating,
         c[1] \in Columns(p.x), Foot(p) < CellTop(c[2]), CellTop(c[2]) - 360 <= Foot(p)
  PROVE  LET g == CheckGround(p, ignore)
         IN  /\ g.hit => g.at = CellTop(c[2])
             /\ g.hit \/ (c \in Floating /\ ignore)
<1> DEFINE cy == WorldToCell(Foot(p) - GROUND_THRESHOLD)
           Carries(cx) == \/ IsSolid(cx, cy)
                          \/ ~ignore /\ IsFloatingGround(cx, cy)
           g == CheckGround(p, ignore)
           found == CellTop(cy) <= Foot(p) + GROUND_THRESHOLD /\ \E cx \in Columns(p.x) : Carries(cx)
<1>1. c[2] \in Int
  BY Cells
<1>2. cy = c[2]
  BY <1>1, LooksAt
<1>3. g = IF found THEN Hit(CellTop(cy)) ELSE NoHit
  BY DEF CheckGround
<1>4. CellTop(cy) <= Foot(p) + GROUND_THRESHOLD
  <2> DEFINE f == Foot(p)
             top == CellTop(c[2])
  <2>1. f \in Int /\ top \in Int /\ top - 360 <= f
    BY <1>1, FootIs, CellSpan
  <2> HIDE DEF f, top
  <2>2. top <= f + 400
    BY <2>1
  <2> QED
    BY <1>2, <2>2 DEF f, top, GROUND_THRESHOLD
<1>5. c \in Solid => IsSolid(c[1], cy)
  BY <1>2 DEF IsSolid, SolidKeys, Keys
<1>6. c \in Floating => IsFloatingGround(c[1], cy)
  BY <1>2 DEF IsFloatingGround, FloatingKeys, Keys
<1> HIDE DEF cy, g
<1>7. found \/ (c \in Floating /\ ignore)
  BY <1>4, <1>5, <1>6
<1> HIDE DEF found
<1>8. found => g.hit = TRUE /\ g.at = CellTop(c[2])
  BY <1>2, <1>3 DEF Hit
<1>9. ~found => g.hit = FALSE
  BY <1>3 DEF NoHit
<1> QED
  BY <1>7, <1>8, <1>9 DEF g

\* The first sub-step below a height the fall starts from is less than a
\* sub-step below it.
LEMMA FirstBelow ==
  ASSUME NEW p \in State, Bounded(p), ~(p.vy > 0), NEW cmd \in Commands,
         NEW top \in Int, top <= Foot(p),
         NEW i \in 1..FallSize(p, cmd), Foot(FallAt(p, cmd, i)) < top
  PROVE  \E j \in 1..i : /\ Foot(FallAt(p, cmd, j)) < top
                         /\ top - 360 <= Foot(FallAt(p, cmd, j))
<1> DEFINE f(k) == Foot(FallAt(p, cmd, k))
           below == {k \in 1..i : f(k) < top}
           n == FallSize(p, cmd)
<1>1. n \in Nat \ {0}
  BY FallAtIs
<1>2. \A k \in Nat : f(k) \in Int /\ (k = 0 => f(k) = Foot(p)) /\ f(k + 1) >= f(k) - 360
  <2> SUFFICES ASSUME NEW k \in Nat
               PROVE  f(k) \in Int /\ (k = 0 => f(k) = Foot(p)) /\ f(k + 1) >= f(k) - 360
    OBVIOUS
  <2> DEFINE q == FallAt(p, cmd, k)
             r == FallAt(p, cmd, k + 1)
  <2>1. k + 1 \in Nat
    OBVIOUS
  <2>2. q \in State /\ r \in State /\ (k = 0 => q.y = p.y) /\ r.y >= q.y - 360
    BY <2>1, FallAtIs
  <2>3. /\ f(k) = q.y - 2000 /\ f(k + 1) = r.y - 2000 /\ Foot(p) = p.y - 2000
        /\ q.y \in Int /\ r.y \in Int /\ p.y \in Int
    BY <2>2 DEF Foot, PLAYER_HALF_H, State
  <2> HIDE DEF f, q, r
  <2> QED
    BY <2>2, <2>3
<1>3. i \in below /\ below \subseteq 1..i /\ i \in Nat
  BY <1>1
<1> HIDE DEF f, n
<1>4. PICK j \in below : \A k \in below : j <= k
  <2>1. below # {} /\ below \subseteq Nat
    BY <1>3
  <2> HIDE DEF below
  <2> QED
    BY <2>1, LeastNat
<1>5. j \in 1..i /\ f(j) < top /\ j - 1 \in Nat /\ (j - 1) + 1 = j
  BY <1>3, <1>4
<1>6. f(j - 1) >= top
  <2>1. CASE j = 1
    <3>1. j - 1 = 0
      BY <2>1
    <3>2. f(j - 1) = Foot(p)
      BY <1>2, <1>5, <3>1
    <3> QED
      BY <3>2
  <2>2. CASE j # 1
    <3>1. j - 1 \in 1..i /\ ~(j <= j - 1)
      BY <1>3, <1>5, <2>2
    <3>2. j - 1 \notin below
      <4> HIDE DEF below
      <4> QED
        BY <1>4, <3>1
    <3> QED
      BY <1>2, <1>5, <3>1, <3>2
  <2> QED
    BY <2>1, <2>2
<1>7. f(j) >= f(j - 1) - 360 /\ f(j) \in Int /\ f(j - 1) \in Int
  <2>1. j \in Nat /\ f((j - 1) + 1) >= f(j - 1) - 360
    BY <1>2, <1>3, <1>5
  <2> QED
    BY <1>2, <1>5, <2>1
<1>8. top - 360 <= f(j)
  BY <1>6, <1>7
<1> QED
  BY <1>5, <1>8 DEF f

\* A rise passes no top of a tile downwards: where a ceiling ends it, the feet
\* are a whole number of cells from the ceiling.
LEMMA RiseStays ==
  ASSUME (2 * PLAYER_HALF_H) % CellSize = 0,
         NEW p \in State, Bounded(p), p.vy > 0, NEW cmd \in Commands,
         NEW row \in Int, CellTop(row) <= Foot(p)
  PROVE  CellTop(row) <= Foot(Rise(p, cmd))
<1> DEFINE q == Rise(p, cmd)
           up == p.vy * UseDt(cmd)
           top == CellTop(row)
           f == Foot(p)
           g == Foot(q)
<1>1. /\ q \in State
      /\ \/ q.y = p.y + up
         \/ /\ p.y + up + GROUND_THRESHOLD < q.y + CellSize
            /\ \E r \in Int : Head(q) = CellBottom(r)
  BY RiseIs
<1>2. up \in Int /\ up >= 0
  <2> DEFINE v == p.vy
             d == UseDt(cmd)
  <2>1. v \in Nat /\ d \in Nat
    BY StepLength DEF Bounded, MAX_FALL_SPEED, JUMP_FORCE
  <2> HIDE DEF v, d
  <2>2. v * d \in Nat
    BY <2>1
  <2> QED
    BY <2>2 DEF v, d
<1>3. /\ f \in Int /\ f = p.y - 2000 /\ g \in Int /\ g = q.y - 2000 /\ Head(q) = g + 4000
      /\ top \in Int /\ top <= f /\ CellSize \in Nat
  BY <1>1, FootIs, CellSpan, Cells
<1>4. CASE q.y = p.y + up
  <2> HIDE DEF q, up, top, f, g
  <2>1. p.y \in Int /\ q.y \in Int
    BY <1>1 DEF State
  <2>2. top <= g
    BY <1>2, <1>3, <1>4, <2>1
  <2> QED
    BY <2>2 DEF top, g, q
<1>5. CASE /\ p.y + up + GROUND_THRESHOLD < q.y + CellSize
           /\ \E r \in Int : Head(q) = CellBottom(r)
  <2>1. PICK r \in Int : Head(q) = CellBottom(r)
    BY <1>5
  <2> DEFINE h == 2 * PLAYER_HALF_H
             b == CellBottom(r)
  <2>2. h = 4000 /\ h \in Int /\ h % CellSize = 0
    BY DEF PLAYER_HALF_H
  <2> HIDE DEF h
  <2>3. /\ b - h < top => b - h + CellSize <= top
        /\ b \in Int
    <3>1. /\ CellBottom(r) - h < CellTop(row) => CellBottom(r) - h + CellSize <= CellTop(row)
          /\ CellBottom(r) \in Int
      <4>1. h \in Int /\ h % CellSize = 0
        BY <2>2
      <4> HIDE DEF q, up, top, f, g, b
      <4> QED
        BY <4>1, WholeCells, Zenon
    <3> QED
      BY <3>1
  <2>4. p.y \in Int /\ q.y \in Int /\ p.y + up + 400 < q.y + CellSize
    BY <1>1, <1>5 DEF State, GROUND_THRESHOLD
  <2> HIDE DEF q, up, top, f, g, b
  <2>5. b - h = g
    BY <1>3, <2>1, <2>2 DEF b
  <2>6. g < top => g + CellSize <= top
    BY <2>3, <2>5
  <2>7. top <= g
    BY <1>2, <1>3, <2>4, <2>6
  <2> QED
    BY <2>7 DEF top, g, q
<1> QED
  BY <1>1, <1>4, <1>5

\* A fall passes the top of no tile but a floating one while the timer runs.
LEMMA FallStays ==
  ASSUME loaded, CellSize >= GROUND_THRESHOLD + 360,
         NEW p \in State, Bounded(p), ~(p.vy > 0), NEW cmd \in Commands,
         NEW c \in Solid \cup Floating, c[1] \in Columns(p.x), CellTop(c[2]) <= Foot(p),
         Foot(Fall(p, cmd)) < CellTop(c[2])
  PROVE  c \in Floating /\ p.dropTimer > 0
<1> DEFINE q == Fall(p, cmd)
           n == FallSize(p, cmd)
           top == CellTop(c[2])
           ignore == p.dropTimer > 0
           Ground(i) == CheckGround(FallAt(p, cmd, i), ignore)
           f(i) == Foot(FallAt(p, cmd, i))
<1>1. n \in Nat \ {0}
  BY FallAtIs
<1>2. c[2] \in Int /\ top \in Int /\ top <= Foot(p) /\ ignore \in BOOLEAN
  BY Cells, CellSpan
<1>3. ASSUME NEW i \in Nat PROVE FallAt(p, cmd, i) \in State /\ FallAt(p, cmd, i).x = p.x
  BY FallAtIs
\* Below the top, but not by more than a sub-step, the tile is found.
<1>4. ASSUME NEW i \in 1..n, f(i) < top, top - 360 <= f(i)
      PROVE  /\ Ground(i).hit => Ground(i).at = top
             /\ Ground(i).hit \/ (c \in Floating /\ ignore)
  <2>1. FallAt(p, cmd, i) \in State /\ c[1] \in Columns(FallAt(p, cmd, i).x)
    BY <1>1, <1>3
  <2> QED
    BY <1>2, <1>4, <2>1, FindsGround
<1>5. ASSUME NEW i \in 1..n, f(i) < top
      PROVE  \E j \in 1..i : f(j) < top /\ top - 360 <= f(j)
  BY <1>2, <1>5, FirstBelow
<1>6. \/ q = FallAt(p, cmd, n) /\ \A i \in 1..n : ~Ground(i).hit
      \/ \E first \in 1..n : /\ Ground(first).hit
                             /\ Foot(q) = Ground(first).at
                             /\ \A i \in 1..first - 1 : ~Ground(i).hit
  BY FallIs
<1>7. Foot(q) < top
  OBVIOUS
<1>8. CASE q = FallAt(p, cmd, n) /\ \A i \in 1..n : ~Ground(i).hit
  <2>1. n \in 1..n /\ f(n) < top
    BY <1>1, <1>7, <1>8
  <2>2. PICK j \in 1..n : f(j) < top /\ top - 360 <= f(j)
    BY <1>5, <2>1
  <2> QED
    BY <1>4, <1>8, <2>2
<1>9. ASSUME NEW first \in 1..n, Ground(first).hit, Foot(q) = Ground(first).at,
             \A i \in 1..first - 1 : ~Ground(i).hit
      PROVE  c \in Floating /\ ignore
  <2> DEFINE at == Ground(first).at
             row == WorldToCell(f(first) - GROUND_THRESHOLD)
  <2>1. FallAt(p, cmd, first) \in State /\ first \in Nat
    BY <1>1, <1>3
  <2>2. f(first) \in Int /\ f(first) - GROUND_THRESHOLD \in Int
    BY <2>1, FootIs DEF GROUND_THRESHOLD
  <2>3. row \in Int
    <3> DEFINE w == f(first) - GROUND_THRESHOLD
    <3>1. w \in Int
      BY <2>2
    <3> HIDE DEF w
    <3>2. WorldToCell(w) \in Int
      BY <3>1, CellOf
    <3> QED
      BY <3>2 DEF w
  <2>4. at = CellTop(row) /\ at \in Int /\ f(first) <= at + GROUND_THRESHOLD
    <3> DEFINE g == Ground(first)
               h == CellTop(row)
    <3>1. g = Hit(h) \/ g = NoHit
      BY DEF CheckGround
    <3>2. g.hit
      BY <1>9
    <3>3. g.at \in Int /\ f(first) <= g.at + GROUND_THRESHOLD
      BY <1>2, <2>1, <3>2, GroundIs
    <3> HIDE DEF g, h
    <3>4. g.at = h
      BY <3>1, <3>2 DEF Hit, NoHit
    <3> QED
      BY <3>3, <3>4 DEF g, h
  <2>5. row < c[2]
    <3>1. CellTop(row) < top
      BY <1>7, <1>9, <2>4
    <3> DEFINE r == row
               k == c[2]
    <3>2. r \in Int /\ k \in Int /\ CellTop(r) \in Int /\ CellTop(k) \in Int /\ CellTop(r) < CellTop(k)
      BY <1>2, <2>3, <3>1, CellSpan
    <3> HIDE DEF r, k
    <3>3. k <= r => CellTop(k) <= CellTop(r)
      BY <3>2, CellMonotone
    <3>4. r < k
      BY <3>2, <3>3
    <3> QED
      BY <3>4 DEF r, k
  <2>6. at <= top - CellSize
    <3> DEFINE r == row
               k == c[2]
    <3>1. r \in Int /\ k \in Int /\ r < k
      BY <1>2, <2>3, <2>5
    <3> HIDE DEF r, k
    <3>2. /\ CellTop(r) <= CellBottom(k) /\ CellTop(k) = CellBottom(k) + CellSize
          /\ CellBottom(k) \in Int /\ CellTop(r) \in Int /\ CellSize \in Int
      BY <3>1, CellOrder, CellSpan, Cells
    <3>3. CellTop(r) <= CellTop(k) - CellSize
      BY <3>2
    <3> QED
      BY <2>4, <3>3 DEF r, k
  <2>7. f(first) < top
    <3> DEFINE z == f(first)
               t == top
               a == at
    <3>1. /\ z \in Int /\ t \in Int /\ a \in Int /\ z <= a + 400 /\ a <= t - CellSize
          /\ CellSize \in Int /\ CellSize >= 760
      BY <1>2, <2>2, <2>4, <2>6, Cells DEF GROUND_THRESHOLD
    <3> HIDE DEF z, t, a
    <3>2. z < t
      BY <3>1
    <3> QED
      BY <3>2 DEF z, t
  <2>8. PICK j \in 1..first : f(j) < top /\ top - 360 <= f(j)
    BY <1>5, <2>7
  <2>9. CASE j = first
    <3>1. Ground(first).at = top
      BY <1>4, <1>9, <2>8, <2>9
    <3> QED
      BY <1>2, <1>7, <1>9, <3>1
  <2>10. CASE j # first
    <3>1. j \in 1..n /\ j \in 1..first - 1
      BY <1>1, <2>1, <2>8, <2>10
    <3> QED
      BY <1>4, <1>9, <2>8, <3>1
  <2> QED
    BY <2>9, <2>10
<1> QED
  BY <1>6, <1>8, <1>9

\* On every map whose cells are at least as high as the reach of the ground
\* check and a sub-step, and of which a player is a whole number high, no move
\* passes the top of a solid tile downwards, and none that of a floating one but
\* while the drop timer runs.
THEOREM NothingPassed ==
  ASSUME CellSize >= GROUND_THRESHOLD + 360, (2 * PLAYER_HALF_H) % CellSize = 0
  PROVE  Spec => NoFallThrough
<1> DEFINE Passes == ~s.onLadder /\ ~s'.onLadder /\ loaded =>
             \A c \in Solid \cup Floating :
                 /\ c[1] \in Columns(s'.x)
                 /\ Foot(s) >= CellTop(c[2]) /\ Foot(s') < CellTop(c[2])
                 => c \in Floating /\ s'.dropTimer > 0
<1>1. ASSUME IInv, NEW cmd \in Inputs \cup {NoInput}, Simulate(cmd) PROVE Passes
  <2> SUFFICES ASSUME ~s.onLadder, loaded, NEW c \in Solid \cup Floating, c[1] \in Columns(s'.x),
                      Foot(s) >= CellTop(c[2]), Foot(s') < CellTop(c[2])
               PROVE  c \in Floating /\ s'.dropTimer > 0
    OBVIOUS
  <2> DEFINE l == Launch(s, cmd)
             w == Walk(l, cmd)
  <2>1. cmd \in Commands /\ s \in State /\ Bounded(s)
    BY <1>1, InputsAreCommands DEF IInv, State
  <2>2. l \in State /\ Bounded(l) /\ l.y = s.y
    BY <2>1, LaunchIs
  <2>3. w \in State /\ w.y = l.y /\ w.vy = l.vy /\ w.dropTimer = l.dropTimer
    BY <2>1, <2>2, WalkIs
  <2>4. s' = IF w.vy > 0 THEN Rise(w, cmd) ELSE Fall(w, cmd)
    BY <1>1 DEF Simulate, SimulatePlayer, LadderReturns, Move
  <2> HIDE DEF l, w
  <2>5. Bounded(w) /\ Foot(w) = Foot(s)
    BY <2>2, <2>3 DEF Bounded, Foot
  <2>6. /\ c[2] \in Int /\ CellTop(c[2]) \in Int /\ Foot(w) \in Int /\ Foot(s') \in Int
        /\ CellTop(c[2]) <= Foot(w)
    <3>1. s' \in State
      BY <2>1, <2>3, <2>4, <2>5, RiseIs, FallIs
    <3> QED
      BY <2>3, <2>5, <3>1, Cells, CellSpan, FootIs
  <2>7. CASE w.vy > 0
    <3>1. CellTop(c[2]) <= Foot(s')
      BY <2>1, <2>3, <2>4, <2>5, <2>6, <2>7, RiseStays
    <3> QED
      BY <2>6, <3>1
  <2>8. CASE ~(w.vy > 0)
    <3>1. s' = Fall(w, cmd)
      BY <2>4, <2>8
    <3>2. s'.x = w.x /\ s'.dropTimer = w.dropTimer
      BY <2>1, <2>3, <2>5, <2>8, <3>1, FallIs
    <3>3. c[1] \in Columns(w.x) /\ Foot(Fall(w, cmd)) < CellTop(c[2])
      BY <3>1, <3>2
    <3>4. c \in Floating /\ w.dropTimer > 0
      BY <2>1, <2>3, <2>5, <2>6, <2>8, <3>3, FallStays
    <3> QED
      BY <3>2, <3>4
  <2> QED
    BY <2>7, <2>8
<1>2. ASSUME IInv, Grab PROVE Passes
  <2>1. s'.onLadder
    BY <1>2, GrabbedIs
  <2> QED
    BY <2>1
<1>3. IInv /\ Next => Passes
  BY <1>1, <1>2 DEF Next, TickStep
<1>4. IInv /\ [Next]_vars => [Passes]_vars
  BY <1>3
<1> QED
  BY <1>4, Invariance, PTL DEF Spec, NoFallThrough
============================================================================
