------------------------------ MODULE Physics ------------------------------
(***************************************************************************)
(* The movement of one player (SimpleServer/GameRoom.cpp, SimulatePlayer,  *)
(* HandleLadderState and the collision checks; SimpleServer/Map.h).        *)
(*                                                                         *)
(* Integers stand for the floats: time in units of 5 ms, speed in units of *)
(* 0.05 m/s, length in units of 0.25 mm.  In these every constexpr of      *)
(* GameRoom.h is exact but GRAVITY (2.943).  The fields the physics only   *)
(* writes for the clients to show (dir, isMoving, isJumping, isCrouching,  *)
(* vel.x, which stays 0) are left out.                                     *)
(***************************************************************************)
EXTENDS Integers

CONSTANTS
    CellSize,    \* _cellSizeX and _cellSizeY
    Solid,       \* _solid, _ladder and _floatingGround: cells, as pairs
    Ladder,
    Floating,
    CellWord,    \* 2^32, the modulus of a cell's coordinate in a key
    Dts,         \* bound: the deltaTime values a client sends
    LadderSpots, \* bound: the heights at which a client announces a ladder
    MaxX         \* bound: how far a player walks where there is no map

MOVE_SPEED == 100
JUMP_FORCE == 200
GRAVITY == 3
GROUND_THRESHOLD == 400
MAX_FALL_SPEED == -300
CLIMB_SPEED == 60
PLAYER_HALF_W == 1200
PLAYER_HALF_H == 2000
CLIENT_DT == 4       \* 1 / CLIENT_TICK_RATE
DROP_TIME == 50      \* the 0.25 s of dropThroughTimer
GROUND_PULL == -40   \* the -2 m/s of a player on the ground
X_MARGIN == 40       \* the 0.01 m of the checks
WALL_MARGIN == 200   \* the 0.05 m of CheckWall

\* An int, as the coordinates of the map's tiles are.
CellCoords == -(CellWord \div 2)..(CellWord - 1) \div 2

ASSUME PhysicsAssumption ==
    /\ CellSize \in Nat \ {0} /\ CellWord \in Nat \ {0} /\ MaxX \in Nat
    /\ Solid \cup Ladder \cup Floating \subseteq CellCoords \X CellCoords
    /\ Dts \subseteq Nat /\ LadderSpots \subseteq Int

VARIABLES
    s,       \* the player's PhysicsState
    loaded,  \* _map.IsLoaded(): main goes on when LoadMap fails
    support, \* history: the height of what last carried the player
    beat     \* history: flips with every input simulated

vars == <<s, loaded, support, beat>>

LongestDt ==
    LET steps == {CLIENT_DT} \cup (Dts \cap 1..19)
    IN  CHOOSE d \in steps : \A e \in steps : e <= d

AtMost(a, b) == IF a <= b THEN a ELSE b
AtLeast(a, b) == IF a >= b THEN a ELSE b

Foot(p) == p.y - PLAYER_HALF_H
Head(p) == p.y + PLAYER_HALF_H

-----------------------------------------------------------------------------
\* PackCell: the row above the column's low bits.
PackCell(cx, cy) == cy * CellWord + (cx % CellWord)

Keys(cells) == {PackCell(c[1], c[2]) : c \in cells}
SolidKeys == Keys(Solid)
LadderKeys == Keys(Ladder)
FloatingKeys == Keys(Floating)

IsSolid(cx, cy) == PackCell(cx, cy) \in SolidKeys
IsLadder(cx, cy) == PackCell(cx, cy) \in LadderKeys
IsFloatingGround(cx, cy) == PackCell(cx, cy) \in FloatingKeys

\* \div rounds towards minus infinity, as std::floor does.
WorldToCell(w) == w \div CellSize
CellTop(c) == (c + 1) * CellSize
CellBottom(c) == c * CellSize

\* The columns under a player's width.
Columns(x) == WorldToCell(x - PLAYER_HALF_W + X_MARGIN)
              .. WorldToCell(x + PLAYER_HALF_W - X_MARGIN)

NoHit == [hit |-> FALSE, at |-> 0]
Hit(h) == [hit |-> TRUE, at |-> h]

\* CheckGround: one row of cells, the one GROUND_THRESHOLD below the feet.
\* Without a map the ground is y = 0.
CheckGround(p, ignoreFloating) ==
    LET cy == WorldToCell(Foot(p) - GROUND_THRESHOLD)
        Carries(cx) == \/ IsSolid(cx, cy)
                       \/ ~ignoreFloating /\ IsFloatingGround(cx, cy)
    IN  IF ~loaded
        THEN IF Foot(p) <= GROUND_THRESHOLD THEN Hit(0) ELSE NoHit
        ELSE IF CellTop(cy) <= Foot(p) + GROUND_THRESHOLD /\ \E cx \in Columns(p.x) : Carries(cx)
             THEN Hit(CellTop(cy))
             ELSE NoHit

\* CheckCeiling: the row GROUND_THRESHOLD above the head.
CheckCeiling(p) ==
    LET cy == WorldToCell(Head(p) + GROUND_THRESHOLD)
    IN  IF loaded /\ \E cx \in Columns(p.x) : IsSolid(cx, cy)
        THEN Hit(CellBottom(cy))
        ELSE NoHit

\* CheckWall: the column ahead, from above the feet to below the head.
CheckWall(p, moveX) ==
    LET cx == WorldToCell(p.x + moveX * (PLAYER_HALF_W + X_MARGIN))
        rows == WorldToCell(Foot(p) + WALL_MARGIN) .. WorldToCell(Head(p) - WALL_MARGIN)
    IN  IF loaded /\ moveX # 0 /\ \E cy \in rows : IsSolid(cx, cy)
        THEN Hit(IF moveX > 0 THEN CellBottom(cx) - PLAYER_HALF_W
                              ELSE CellTop(cx) + PLAYER_HALF_W)
        ELSE NoHit

-----------------------------------------------------------------------------
\* An input, as far as the physics reads it: only a ladder reads the climb.
\* Bound: a client asks to drop only from where it stands.
Inputs == [moveX : {-1, 0, 1}, climb : IF s.onLadder THEN {-1, 0, 1} ELSE {0},
           jump : BOOLEAN, drop : {s.grounded, FALSE}, dt : Dts]

\* The default InputCmd of a tick without input.
NoInput == [moveX |-> 0, climb |-> 0, jump |-> FALSE, drop |-> FALSE, dt |-> 0]

\* Faulty variant: a long deltaTime is believed.
Faulty_UseDt(cmd) == IF cmd.dt > 0 THEN cmd.dt ELSE CLIENT_DT

\* A deltaTime of 0 or of 0.1 s and more is replaced.
UseDt(cmd) == IF cmd.dt \in 1..19 THEN cmd.dt ELSE CLIENT_DT

\* Where a climb takes the player, within the ladder's extent.
ClimbTo(p, cmd) ==
    AtMost(AtLeast(p.y + cmd.climb * CLIMB_SPEED * UseDt(cmd), p.ladderMinY),
           p.ladderMaxY + PLAYER_HALF_H)

\* SimulatePlayer on a ladder: a jump leaves it, a descent leaves it at the
\* ground, a climb leaves it at the top.
LadderStep(p, cmd) ==
    LET q == [p EXCEPT !.x = p.ladderCenterX, !.y = ClimbTo(p, cmd),
                       !.vy = cmd.climb * CLIMB_SPEED]
        ground == CheckGround(q, TRUE)
    IN  CASE cmd.jump ->
               [p EXCEPT !.onLadder = FALSE, !.vy = JUMP_FORCE, !.grounded = FALSE]
          [] ~cmd.jump /\ cmd.climb < 0 /\ ground.hit ->
               [q EXCEPT !.onLadder = FALSE, !.vy = 0, !.grounded = TRUE,
                         !.y = ground.at + PLAYER_HALF_H]
          [] ~cmd.jump /\ cmd.climb > 0 /\ q.y >= p.ladderMaxY + PLAYER_HALF_H ->
               [q EXCEPT !.onLadder = FALSE, !.vy = 0]
          [] OTHER -> q

\* The ladder ends the step: the player stays on it, or has left it at the top.
LadderReturns(p, cmd) ==
    p.onLadder /\ (LadderStep(p, cmd).onLadder \/ (~cmd.jump /\ cmd.climb > 0))

\* Faulty variant: the timer runs past zero.
Faulty_DropTimer(p, cmd) ==
    IF cmd.drop THEN DROP_TIME
    ELSE IF p.dropTimer # 0 THEN p.dropTimer - UseDt(cmd) ELSE 0

DropTimer(p, cmd) ==
    IF cmd.drop THEN DROP_TIME ELSE AtLeast(0, p.dropTimer - UseDt(cmd))

\* The ground before the move.  A rising player passes a floating tile.
PremoveGround(p, cmd) == CheckGround(p, DropTimer(p, cmd) > 0 \/ p.vy > 0)

\* Faulty variant: a jump needs no ground.
Faulty_Launch(p, cmd) ==
    LET onGround == PremoveGround(p, cmd).hit
        pulled == IF onGround /\ p.vy <= 0 THEN GROUND_PULL ELSE p.vy
        jumps == cmd.jump
        vy == IF jumps THEN JUMP_FORCE ELSE pulled
    IN  [p EXCEPT !.dropTimer = DropTimer(p, cmd), !.grounded = onGround /\ ~jumps,
                  !.vy = IF onGround /\ ~jumps THEN vy
                         ELSE AtLeast(vy - GRAVITY * UseDt(cmd), MAX_FALL_SPEED)]

\* SimulatePlayer 1 to 6: the drop timer, the ground, the jump, gravity.
Launch(p, cmd) ==
    LET onGround == PremoveGround(p, cmd).hit
        pulled == IF onGround /\ p.vy <= 0 THEN GROUND_PULL ELSE p.vy
        jumps == cmd.jump /\ onGround
        vy == IF jumps THEN JUMP_FORCE ELSE pulled
    IN  [p EXCEPT !.dropTimer = DropTimer(p, cmd), !.grounded = onGround /\ ~jumps,
                  !.vy = IF onGround /\ ~jumps THEN vy
                         ELSE AtLeast(vy - GRAVITY * UseDt(cmd), MAX_FALL_SPEED)]

\* The move to the side, up to a wall.
Walk(p, cmd) ==
    LET x == p.x + cmd.moveX * MOVE_SPEED * UseDt(cmd)
        wall == CheckWall([p EXCEPT !.x = x], cmd.moveX)
    IN  [p EXCEPT !.x = IF wall.hit THEN wall.at ELSE x]

\* A rise is one move and one look at the ceiling.
Rise(p, cmd) ==
    LET q == [p EXCEPT !.y = p.y + p.vy * UseDt(cmd)]
        ceil == CheckCeiling(q)
    IN  IF ceil.hit THEN [q EXCEPT !.y = ceil.at - PLAYER_HALF_H, !.vy = 0] ELSE q

\* Faulty variant: a fall is one move, as a rise is.
Faulty_FallSteps(move) == 1

\* numSteps: no sub-step is longer than 0.9 of GROUND_THRESHOLD.
FallSteps(move) ==
    LET size == (GROUND_THRESHOLD * 9) \div 10
    IN  AtLeast(1, (move + size - 1) \div size)

\* A fall, sub-step by sub-step, ends at the first ground.
Fall(p, cmd) ==
    LET n == FallSteps(-p.vy * UseDt(cmd))
        At(i) == [p EXCEPT !.y = p.y + ((p.vy * UseDt(cmd) * i) \div n)]
        Ground(i) == CheckGround(At(i), p.dropTimer > 0)
        landings == {i \in 1..n : Ground(i).hit}
    IN  IF landings = {} THEN At(n)
        ELSE LET first == CHOOSE i \in landings : \A j \in landings : i <= j
             IN  [p EXCEPT !.y = Ground(first).at + PLAYER_HALF_H,
                           !.vy = GROUND_PULL, !.grounded = TRUE]

Move(p, cmd) ==
    LET q == Walk(Launch(p, cmd), cmd)
    IN  IF q.vy > 0 THEN Rise(q, cmd) ELSE Fall(q, cmd)

SimulatePlayer(p, cmd) ==
    LET q == IF p.onLadder THEN LadderStep(p, cmd) ELSE p
    IN  IF LadderReturns(p, cmd) THEN q ELSE Move(q, cmd)

\* GetLadderExtent: the rows of a column's ladder that hang together with cy.
LadderRows(cx, cy) ==
    {r \in {c[2] : c \in Ladder} :
        \A k \in AtMost(r, cy)..AtLeast(r, cy) : IsLadder(cx, k)}

LowestRow(cx, cy) ==
    CHOOSE r \in LadderRows(cx, cy) : \A k \in LadderRows(cx, cy) : r <= k

HighestRow(cx, cy) ==
    CHOOSE r \in LadderRows(cx, cy) : \A k \in LadderRows(cx, cy) : k <= r

-----------------------------------------------------------------------------
\* A Player is made with a PhysicsState of defaults.
Init ==
    /\ loaded \in BOOLEAN
    /\ s = [x |-> 0, y |-> 0, vy |-> 0, grounded |-> TRUE, onLadder |-> FALSE, dropTimer |-> 0,
            ladderCenterX |-> 0, ladderMinY |-> 0, ladderMaxY |-> 0]
    /\ support = Foot(s)
    /\ beat = FALSE

\* One input of TickAll, or one of the three steps of a tick without input.
\* What carries the player is the ladder, or the ground before or after the move.
Simulate(cmd) ==
    /\ loaded \/ s.x + cmd.moveX * MOVE_SPEED * UseDt(cmd) \in -MaxX..MaxX
    /\ s' = SimulatePlayer(s, cmd)
    /\ support' = LET landed == IF s'.vy = GROUND_PULL /\ s'.grounded THEN Foot(s') ELSE support
                  IN  CASE s'.onLadder -> Foot(s')
                        [] s.onLadder /\ ~s'.onLadder ->
                               IF cmd.jump THEN Foot(s) ELSE Foot(s')
                        [] ~s.onLadder /\ ~s'.onLadder /\ PremoveGround(s, cmd).hit ->
                               PremoveGround(s, cmd).at
                        [] OTHER -> landed
    /\ beat' = ~beat
    /\ UNCHANGED loaded

\* HandleLadderState, from a client that grabs a ladder where the server has
\* the player: the position is the client's, and so is the ladder.  Without a
\* map the extent stays what it was.
HandleLadderState(px, py) ==
    LET cx == WorldToCell(px)
        cy == IF IsLadder(cx, WorldToCell(py)) THEN WorldToCell(py) ELSE WorldToCell(py) - 1
        q == [s EXCEPT !.onLadder = TRUE, !.x = px, !.y = py, !.vy = 0, !.grounded = FALSE]
    IN  /\ s' = IF ~loaded THEN q
                ELSE IF IsLadder(cx, cy)
                     THEN [q EXCEPT !.ladderCenterX = CellBottom(cx) + CellSize \div 2,
                                    !.ladderMinY = CellBottom(LowestRow(cx, cy)),
                                    !.ladderMaxY = CellTop(HighestRow(cx, cy))]
                     ELSE [q EXCEPT !.ladderCenterX = px, !.ladderMinY = py - 2000,
                                    !.ladderMaxY = py + 40000]
        /\ support' = Foot(s')
        /\ UNCHANGED <<loaded, beat>>

\* A client grabs the ladder its player is at, at one of the heights given.
Grab ==
    \E c \in Ladder, py \in LadderSpots :
        LET px == CellBottom(c[1]) + CellSize \div 2
        IN  /\ s.x \in px - CellSize \div 2 .. px + CellSize \div 2
            /\ s.y \in py - CellSize \div 2 .. py + CellSize \div 2
            /\ HandleLadderState(px, py)

TickStep == \E cmd \in Inputs \cup {NoInput} : Simulate(cmd)

Next == TickStep \/ Grab

\* The game loop simulates every player in every tick.
Spec == Init /\ [][Next]_vars /\ []<><<beat' # beat>>_vars

-----------------------------------------------------------------------------
\* A fall never exceeds the terminal speed, the drop timer its start, and a
\* player on a ladder is within the ladder's extent once the map is there, or in
\* the cell above it, where a client may grab it.
TypeOK ==
    /\ s.x \in Int /\ s.y \in Int /\ support \in Int /\ loaded \in BOOLEAN
    /\ s.vy \in MAX_FALL_SPEED..JUMP_FORCE /\ s.dropTimer \in 0..DROP_TIME
    /\ s.grounded \in BOOLEAN /\ s.onLadder \in BOOLEAN
    /\ loaded /\ s.onLadder =>
           s.y \in s.ladderMinY .. s.ladderMaxY + AtLeast(PLAYER_HALF_H, CellSize)

\* The cells the player's box covers, less the margins the checks allow it.
Covered(p) ==
    Columns(p.x) \X (WorldToCell(Foot(p) + WALL_MARGIN) .. WorldToCell(Head(p) - WALL_MARGIN))

\* The order of the moves lets no corner catch the player: no input takes its
\* box into a solid tile (the comment above SimulatePlayer).
NeverInSolid == loaded => Covered(s) \cap Solid = {}

\* No sequence of walks, jumps, falls and ladder rides takes the player through
\* a wall, a ceiling or a floor: its centre is never in a solid tile.
NeverThroughSolid == loaded => ~IsSolid(WorldToCell(s.x), WorldToCell(s.y))

\* No fall, however fast, passes the top of a solid tile, and none the top of a
\* floating one but while the drop timer runs (it stands still on a ladder).
NoFallThrough ==
    [][~s.onLadder /\ ~s'.onLadder /\ loaded =>
          \A c \in Solid \cup Floating :
              /\ c[1] \in Columns(s'.x)
              /\ Foot(s) >= CellTop(c[2]) /\ Foot(s') < CellTop(c[2])
              => c \in Floating /\ s'.dropTimer > 0]_vars

\* No sequence of inputs takes the feet higher above what last carried them
\* than one jump does: its height in free flight, the reach of the ground check,
\* the one step within that reach in which gravity is not applied, and the reach
\* of the ceiling check, which pulls the head up to the tile it finds.
RiseBounded ==
    Foot(s) <= support + 2 * GROUND_THRESHOLD + (JUMP_FORCE * JUMP_FORCE) \div (2 * GRAVITY)
                       + JUMP_FORCE * LongestDt

\* Whatever the inputs, the player comes back to ground or to a ladder.
AlwaysComesDown == []<>(s.onLadder \/ CheckGround(s, FALSE).hit)
=============================================================================
