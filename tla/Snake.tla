------------------------------- MODULE Snake -------------------------------
(***************************************************************************)
(* The game of apps/snake.c, for one or two players.  A snake is the       *)
(* sequence of its cells, the head last, as it lies in its ring_fifo; the  *)
(* variables head1 and head2 of the code are always that last cell.  One   *)
(* round of the rendering loop is a Test, which ends the game or not, and  *)
(* a Move.  Between two updates the keys are read five times, so that a    *)
(* snake can go anywhere at each.                                          *)
(***************************************************************************)
EXTENDS Integers, SequencesExt

CONSTANTS
    W, H,        \* the board, 80 by 25 in the code
    Apples,      \* bound: the cells where apples are put, any of 80 by 25 in the code
    MaxLength    \* bound: the rounds go on while the snakes together are no longer

VARIABLES multiplayer, snake1, snake2, direction1, direction2, apple, loser, phase

snakeVars == <<multiplayer, snake1, snake2, direction1, direction2, apple, loser, phase>>

Board == (0 .. W - 1) \X (0 .. H - 1)
Directions == {"SNAKE_UP", "SNAKE_DOWN", "SNAKE_LEFT", "SNAKE_RIGHT"}

\* The row of the code, 12 of 25, and the three cells each snake starts on.
Middle == H \div 2

SnakeInit ==
    /\ multiplayer \in BOOLEAN
    /\ snake1 = << <<0, Middle>>, <<1, Middle>>, <<2, Middle>> >>
    /\ snake2 = IF multiplayer THEN << <<W - 1, Middle>>, <<W - 2, Middle>>, <<W - 3, Middle>> >> ELSE <<>>
    /\ direction1 = "none" /\ direction2 = "none"
    /\ apple \in Apples
    /\ loser = 0
    /\ phase = "test"

body_collision(snake, pos) == pos \in ToSet(Front(snake))

head1 == Last(snake1)
head2 == Last(snake2)

(* The test at the start of a round.  A crash of the first snake into      *)
(* itself ends the game before the second snake is looked at.              *)
CrashOf1 == body_collision(snake2, head1) \/ head1 = head2
CrashOf2 == body_collision(snake1, head2) \/ body_collision(snake2, head2) \/ head1 = head2

LoserOnlySelf == IF body_collision(snake1, head1) THEN 1 ELSE 0

Loser ==
    IF body_collision(snake1, head1) THEN 1
    ELSE IF ~multiplayer THEN 0
    ELSE IF CrashOf1 THEN (IF CrashOf2 THEN 3 ELSE 1)
    ELSE IF body_collision(snake1, head2) /\ body_collision(snake2, head2) THEN 3
    ELSE IF CrashOf2 THEN 2 ELSE 0

Test ==
    /\ phase = "test"
    /\ loser' = Loser
    /\ phase' = IF loser' = 0 THEN "move" ELSE "over"
    /\ UNCHANGED <<multiplayer, snake1, snake2, direction1, direction2, apple>>

(* The cell ahead; the board has no edges.                                 *)
Ahead(p, d) ==
    CASE d = "SNAKE_UP"    -> <<p[1], (p[2] - 1 + H) % H>>
      [] d = "SNAKE_DOWN"  -> <<p[1], (p[2] + 1) % H>>
      [] d = "SNAKE_LEFT"  -> <<(p[1] - 1 + W) % W, p[2]>>
      [] d = "SNAKE_RIGHT" -> <<(p[1] + 1) % W, p[2]>>

Eats(snake, d, a) == d # "none" /\ Last(snake) = a

AheadOfTail(snake, d, a) ==
    Append(IF Eats(snake, d, a) THEN snake ELSE Tail(snake), Ahead(Head(snake), d))

(* A snake that eats keeps its tail.                                       *)
Moved(snake, d, a) ==
    IF d = "none" THEN snake
    ELSE Append(IF Eats(snake, d, a) THEN snake ELSE Tail(snake), Ahead(Last(snake), d))

(* Where the next apple can lie: the first snake looks for a cell that it  *)
(* does not cover, the second takes any.                                   *)
ApplesAfter1(d) == IF Eats(snake1, d, apple) THEN Apples \ ToSet(snake1) ELSE {apple}
ApplesAfter2(d, a) == IF multiplayer /\ Eats(snake2, d, a) THEN Apples ELSE {a}

\* The direction after the keys were read: any held key sets it.
Keys(d) == Directions \cup {d}

Move ==
    /\ phase = "move"
    /\ Len(snake1) + Len(snake2) <= MaxLength
    /\ \E d1 \in Keys(direction1), d2 \in IF multiplayer THEN Keys(direction2) ELSE {"none"} :
       \E a1 \in ApplesAfter1(d1) :
          /\ direction1' = d1 /\ direction2' = d2
          /\ snake1' = Moved(snake1, d1, apple)
          /\ snake2' = IF multiplayer THEN Moved(snake2, d2, a1) ELSE snake2
          /\ apple' \in ApplesAfter2(d2, a1)
    /\ phase' = "test"
    /\ UNCHANGED <<multiplayer, loser>>

\* The test of the loop, keydown(ESCAPE, keyboard).
Escape ==
    /\ phase = "test"
    /\ phase' = "over"
    /\ UNCHANGED <<multiplayer, snake1, snake2, direction1, direction2, apple, loser>>

SnakeNext == Test \/ Move \/ Escape
----------------------------------------------------------------------------
Adjacent(p, q) == \E d \in Directions : q = Ahead(p, d)

Connected(snake) == \A i \in 1 .. Len(snake) - 1 : Adjacent(snake[i], snake[i + 1])

(* While the game goes on no cell is covered twice, by one snake or by     *)
(* both, and the snakes are in one piece: body_collision() leaves the head *)
(* out, crashes head to head are tested apart, and still nothing slips     *)
(* through the tests.                                                      *)
SnakesApart ==
    /\ phase = "move" => IsInjective(snake1 \o snake2)
    /\ Connected(snake1) /\ Connected(snake2)

(* A player who is said to have lost has run into something.  Both tests   *)
(* of the second head can hold only after snakes that crossed, so they do  *)
(* not blame the first player as well.                                     *)
LosersCrashed ==
    /\ loser \in {1, 3} => head1 \in ToSet(Front(snake1) \o snake2)
    /\ loser \in {2, 3} => head2 \in ToSet(snake1 \o Front(snake2))

(* "Both players lost!" is said whenever both have; the first break of the *)
(* loop says "Player 1 lost!" without a look at the second.                *)
BothLoseTogether ==
    loser = 1 /\ multiplayer => head2 \notin ToSet(snake1 \o Front(snake2))
=============================================================================
