-------------------------------- MODULE Pong --------------------------------
(***************************************************************************)
(* The game of apps/pong.c.  One round of the rendering loop is one step.  *)
(* Distances are a tenth of the code's: a pixel is Pixel units, so that    *)
(* every quotient and product of the code comes out the same.              *)
(***************************************************************************)
EXTENDS Integers

CONSTANTS
    Columns, Rows,   \* the screen, 80 by 25 pixels in the code
    Points,          \* a game ends above this score, 9 in the code
    MaxSpeed,        \* bound: the players give up a ball faster than this
    Frames           \* bound: frames are counted modulo a multiple of every fskip

VARIABLES players, ball_x, ball_y, ball_vel_x, ball_vel_y, l_paddle_y, r_paddle_y,
          player_score, cpu_score, frame, playing

pongVars == <<players, ball_x, ball_y, ball_vel_x, ball_vel_y, l_paddle_y, r_paddle_y,
              player_score, cpu_score, frame, playing>>

Pixel == 10

LIMIT(x, min, max) == IF x < min THEN min ELSE IF x > max THEN max ELSE x

MaxX == (Columns - 1) * Pixel
MaxY == (Rows - 1) * Pixel
MaxPaddle == Rows - 5

PongInit ==
    /\ players \in {1, 2}
    /\ ball_x = (Columns \div 2) * Pixel /\ ball_y = (Rows \div 2) * Pixel
    /\ ball_vel_x = 5 /\ ball_vel_y = 0
    /\ l_paddle_y = MaxPaddle \div 2 /\ r_paddle_y = MaxPaddle \div 2
    /\ player_score = 0 /\ cpu_score = 0
    /\ frame = 0
    /\ playing = TRUE

\* A paddle is hit on its five rows and on the row below them.
HIT_PADDLE(paddley, y) == paddley <= y /\ paddley + 5 >= y
PADDLE_DEFLECTION(paddley, hit) == paddley - hit

\* The paddle after its two keys, which may both be held.
ByKeys(paddley) == {LIMIT(paddley + d, 0, MaxPaddle) : d \in {-1, 0, 1}}

(* The paddle of the computer: it follows the ball when that is near, and  *)
(* else moves with it in every fskip-th round.                             *)
Fskip == LIMIT(cpu_score - player_score, 2, 9)

ByCpu(paddley) ==
    LET row  == ball_y \div Pixel
        step == IF ball_x > (Columns - 5) * Pixel
                THEN IF row < paddley + 2 THEN -1 ELSE IF row > paddley + 2 THEN 1 ELSE 0
                ELSE IF frame % Fskip = 0 THEN LIMIT(ball_vel_y, -1, 1) ELSE 0
    IN  LIMIT(paddley + step, 0, MaxPaddle)

(* The ball, with its speed turned at the floor and the ceiling.           *)
X == LIMIT(ball_x + ball_vel_x, 0, MaxX)
Y == LIMIT(ball_y + ball_vel_y, 0, MaxY)
VelY == IF Y \in {0, MaxY} THEN -ball_vel_y ELSE ball_vel_y

KeptSpeed(vel) == vel
Turned(vel) == -vel

(* Past a paddle the other side scores and serves; a hit sends it back.    *)
AtLeft ==
    /\ X <= 0
    /\ IF HIT_PADDLE(l_paddle_y', Y \div Pixel)
       THEN /\ ball_vel_x' = Turned(ball_vel_x)
            /\ ball_vel_y' = -VelY + PADDLE_DEFLECTION(l_paddle_y', Y \div Pixel)
            /\ ball_x' = X + Pixel /\ ball_y' = Y
            /\ UNCHANGED cpu_score
       ELSE /\ cpu_score' = cpu_score + 1
            /\ ball_x' = (Columns \div 2) * Pixel /\ ball_y' = (Rows \div 2) * Pixel
            /\ ball_vel_x' = 5 /\ ball_vel_y' = 0
    /\ UNCHANGED player_score

AtRight ==
    /\ X > 0 /\ X >= MaxX
    /\ IF HIT_PADDLE(r_paddle_y', Y \div Pixel)
       THEN /\ ball_vel_x' = Turned(ball_vel_x)
            /\ ball_vel_y' = -VelY - PADDLE_DEFLECTION(r_paddle_y', Y \div Pixel)
            /\ ball_x' = X - Pixel /\ ball_y' = Y
            /\ UNCHANGED player_score
       ELSE /\ player_score' = player_score + 1
            /\ ball_x' = (Columns \div 2) * Pixel /\ ball_y' = (Rows \div 2) * Pixel
            /\ ball_vel_x' = -5 /\ ball_vel_y' = 0
    /\ UNCHANGED cpu_score

Between ==
    /\ X > 0 /\ X < MaxX
    /\ ball_x' = X /\ ball_y' = Y
    /\ ball_vel_y' = VelY
    /\ UNCHANGED <<ball_vel_x, player_score, cpu_score>>

\* The check of the scores at the start of a round.
ScoresTooHigh == player_score > Points \/ cpu_score > Points
TooFast == ball_vel_y \notin -MaxSpeed .. MaxSpeed

Round ==
    /\ playing /\ ~ScoresTooHigh /\ ~TooFast
    /\ l_paddle_y' \in ByKeys(l_paddle_y)
    /\ r_paddle_y' \in IF players = 1 THEN {ByCpu(r_paddle_y)} ELSE ByKeys(r_paddle_y)
    /\ AtLeft \/ AtRight \/ Between
    /\ frame' = (frame + 1) % Frames
    /\ UNCHANGED <<players, playing>>

Stops ==
    /\ playing
    /\ playing' = FALSE
    /\ UNCHANGED <<players, ball_x, ball_y, ball_vel_x, ball_vel_y, l_paddle_y, r_paddle_y,
                   player_score, cpu_score, frame>>

GameOver == (ScoresTooHigh \/ TooFast) /\ Stops

\* keydown(ESCAPE, keyboard)
Leave == ~ScoresTooHigh /\ ~TooFast /\ Stops

PongNext == Round \/ GameOver \/ Leave
----------------------------------------------------------------------------
(* The loop goes round with every tick of the timer.                       *)
PongFairness == WF_pongVars(Round) /\ WF_pongVars(GameOver)

(* A ball on its way to a side gets there and comes back, or the game is   *)
(* over: a turned ball that were still at the wall would be turned again   *)
(* and again.                                                              *)
BallTurns ==
    /\ playing /\ ball_vel_x > 0 ~> ball_vel_x < 0 \/ ~playing
    /\ playing /\ ball_vel_x < 0 ~> ball_vel_x > 0 \/ ~playing

(* Every score that a round leaves behind is drawn in the same round, and  *)
(* the font has the glyphs 0 to 9: a tenth point is drawn from behind it.  *)
ScoreHasGlyph == player_score <= Points /\ cpu_score <= Points

(* A hit is where the paddle is drawn, on its five rows; the code takes    *)
(* the row below for a hit too.                                            *)
HitsDrawnPaddle == \A p \in 0 .. MaxPaddle, y \in 0 .. Rows - 1 : HIT_PADDLE(p, y) => y \in p .. p + 4
=============================================================================
