---------------------------- MODULE Applications ----------------------------
(***************************************************************************)
(* The applications of apps/, one at a time: which one runs is chosen at   *)
(* the start, and the variables of the others rest.                        *)
(***************************************************************************)
EXTENDS Integers, SequencesExt, TLC

CONSTANTS
    Apps,
    W, H, MaxLength, Apples,                              \* Snake
    Columns, Rows, Points, MaxSpeed, Frames,              \* Pong
    BufSize, Letters, Commands, MaxCompleted, MaxKeys,    \* ShellLine
    Shells, Args, Texts, Buf, MaxDepth, MaxNodes, Preempt, \* ShellFiles
    Programs, TapeLength, MaxTape, Values, Fuel,          \* Brainfuck
    Characters, OldTexts, MaxText, InUse,                 \* Editor
    Slots, Cells, Step, Header, HeapSizes, Sizes, MaxBytesPerBlock,    \* MemView
    Notes, TopOctave, FirstOctave, Lengths, InitialLength, ToneBytes, MaxSong, Width    \* Synthesizer

VARIABLES
    app,
    multiplayer, snake1, snake2, direction1, direction2, apple, loser, phase,
    players, ball_x, ball_y, ball_vel_x, ball_vel_y, l_paddle_y, r_paddle_y,
    player_score, cpu_score, frame, playing,
    line, s, n, count, lpc, shown, ran, keys,
    dirs, files, used, cwd, path_buf, pc, cmd, src, dst, chunk, out, made, source,
    program, fed, bf, frames,
    disk, str, pos, lines, seen, doing,
    mv_allocated_blocks, mv_bytes_per_block, mv_disp, heap, mv_total_mem, stage,
    octave, played, text, ret, length, step

Snake == INSTANCE Snake
Pong  == INSTANCE Pong
Line  == INSTANCE ShellLine WITH cmd <- line, pc <- lpc
Shell == INSTANCE ShellFiles
Bf    == INSTANCE Brainfuck WITH MaxLength <- TapeLength
Ed    == INSTANCE Editor WITH Letters <- Characters
View  == INSTANCE MemView
Synth == INSTANCE Synthesizer

snakeVars == <<multiplayer, snake1, snake2, direction1, direction2, apple, loser, phase>>
pongVars  == <<players, ball_x, ball_y, ball_vel_x, ball_vel_y, l_paddle_y, r_paddle_y,
               player_score, cpu_score, frame, playing>>
lineVars  == <<line, s, n, count, lpc, shown, ran, keys>>
shellVars == <<dirs, files, used, cwd, path_buf, pc, cmd, src, dst, chunk, out, made, source>>
bfVars    == <<program, fed, bf, frames>>
edVars    == <<disk, str, pos, lines, seen, doing>>
viewVars  == <<mv_allocated_blocks, mv_bytes_per_block, mv_disp, heap, mv_total_mem, stage>>
synthVars == <<octave, played, text, ret, length, step>>

(* An application that does not run.                                       *)
NoSnake ==
    /\ multiplayer = FALSE /\ snake1 = <<>> /\ snake2 = <<>> /\ direction1 = "none" /\ direction2 = "none"
    /\ apple = <<0, 0>> /\ loser = 0 /\ phase = "off"
NoPong ==
    /\ players = 0 /\ ball_x = 0 /\ ball_y = 0 /\ ball_vel_x = 0 /\ ball_vel_y = 0
    /\ l_paddle_y = 0 /\ r_paddle_y = 0 /\ player_score = 0 /\ cpu_score = 0 /\ frame = 0 /\ playing = FALSE
NoEd == disk = <<>> /\ str = <<>> /\ pos = 0 /\ lines = <<>> /\ seen = <<>> /\ doing = "off"
NoView ==
    /\ mv_allocated_blocks = <<>> /\ mv_bytes_per_block = 1 /\ mv_disp = <<>> /\ heap = {}
    /\ mv_total_mem = 0 /\ stage = "off"
NoSynth == octave = 0 /\ played = <<>> /\ text = <<>> /\ ret = <<>> /\ length = 0 /\ step = "off"
NoBf == program = <<>> /\ fed = 0 /\ bf = Bf!Fresh /\ frames = <<>>

Init ==
    /\ app \in Apps
    /\ IF app = "snake" THEN Snake!SnakeInit ELSE NoSnake
    /\ IF app = "pong" THEN Pong!PongInit ELSE NoPong
    /\ Line!LineInit
    /\ Shell!ShellInit
    /\ IF app = "bf" THEN Bf!BfInit ELSE NoBf
    /\ IF app = "editor" THEN Ed!EditorInit ELSE NoEd
    /\ IF app = "memview" THEN View!ViewInit ELSE NoView
    /\ IF app = "synth" THEN Synth!SynthInit ELSE NoSynth

games == <<snakeVars, pongVars>>
shell == <<lineVars, shellVars, bfVars>>
tools == <<edVars, viewVars, synthVars>>

PlaySnake == app = "snake" /\ Snake!SnakeNext /\ UNCHANGED <<app, pongVars, shell, tools>>
TypeLine  == app = "line" /\ Line!LineNext /\ UNCHANGED <<app, games, shellVars, bfVars, tools>>
UseShell  == app = "shell" /\ Shell!ShellNext /\ UNCHANGED <<app, games, lineVars, bfVars, tools>>
RunBf     == app = "bf" /\ Bf!BfNext /\ UNCHANGED <<app, games, lineVars, shellVars, tools>>
Edit      == app = "editor" /\ Ed!EditorNext /\ UNCHANGED <<app, games, shell, viewVars, synthVars>>
ViewMem   == app = "memview" /\ View!ViewNext /\ UNCHANGED <<app, games, shell, edVars, synthVars>>
PlayNotes == app = "synth" /\ Synth!SynthNext /\ UNCHANGED <<app, games, shell, edVars, viewVars>>

pongRests == UNCHANGED <<app, snakeVars, shell, tools>>
PlayPong  == app = "pong" /\ Pong!PongNext /\ pongRests

Next == PlaySnake \/ PlayPong \/ TypeLine \/ UseShell \/ RunBf \/ Edit \/ ViewMem \/ PlayNotes

vars == <<app, games, shell, tools>>

(* Only the rounds of Pong have to go on: the timer drives them.           *)
Spec ==
    /\ Init /\ [][Next]_vars
    /\ WF_vars(app = "pong" /\ Pong!Round /\ pongRests)
    /\ WF_vars(app = "pong" /\ Pong!GameOver /\ pongRests)
----------------------------------------------------------------------------
(* Snake: while the game goes on no cell is covered twice and the snakes   *)
(* are in one piece, and a player who is said to have lost has run into    *)
(* something: body_collision() leaves the head out, crashes head to head   *)
(* are tested apart, and both tests of the second head blame both players. *)
SnakesApart == app = "snake" => Snake!SnakesApart /\ Snake!LosersCrashed

(* "Both players lost!" whenever both have (snake.c): the first break of    *)
(* the loop says "Player 1 lost!" without a look at the second.            *)
BothLoseTogether == app = "snake" => Snake!BothLoseTogether

(* Pong: a ball on its way to a side gets there and comes back, or the     *)
(* game is over; a ball still at the wall would turn again and again.      *)
BallTurns == Pong!BallTurns

(* Pong: every score that a round leaves is drawn with a glyph of the font. *)
ScoreHasGlyph == app = "pong" => Pong!ScoreHasGlyph

(* The prompt: the line that is run is the one the user sees, whatever was *)
(* typed, taken back and completed.                                        *)
WhatIsShownRuns == app = "line" => Line!WhatIsShownRuns

(* The prompt: a line can always be ended.                                  *)
LineCanEnd == app = "line" => Line!LineCanEnd

(* cat and ls print all of what they opened, and cp leaves all of a file   *)
(* at the start of its target.                                             *)
WholeFileMoved == app = "shell" => Shell!WholeFileMoved

(* The commands: a copy that ends has a target, a command acts on the path *)
(* it made, and the working directory is a directory.                      *)
CopyHasTarget == app = "shell" => Shell!CopyHasTarget
ActsOnItsPath == app = "shell" => Shell!ActsOnItsPath
CwdIsDirectory == app = "shell" => Shell!CwdIsDirectory

(* A brainfuck program that was written and has run left what the language *)
(* gives it, and the interpreter is ready for the next one.                *)
RunsAsDefined == app = "bf" => Bf!RunsAsDefined

(* The cells of the tape that were never written are zero.                 *)
NewCellsAreZero == app = "bf" => Bf!NewCellsAreZero

(* The editor: the buffer, however it was resized, and the file in the end *)
(* hold the text the user sees, and the list of lines is that of the text. *)
TextKept == app = "editor" => Ed!TextKept

(* Both programs that take a text key by key hold what the screen shows.   *)
TextsAsTyped == WhatIsShownRuns /\ TextKept

(* The memory viewer: its slots hold its blocks, none twice and none left  *)
(* at the end, and marked cells are those with blocks in them.             *)
MemoryShown == app = "memview" => View!SlotsHoldBlocks /\ View!MarksAreBlocks

(* "completely free region", "completely filled region" (memview.c), and a *)
(* picture that fits its array.                                            *)
GreenIsFree == app = "memview" => View!GreenIsFree
RedIsFull   == app = "memview" => View!RedIsFull
PictureFits == app = "memview" => View!PictureFits

(* The synthesizer: a song is heard again as it was played, if it fits the *)
(* array that is there at first.                                           *)
SongReadsBack == app = "synth" => Synth!SongReadsBack

(* The synthesizer: a song of any length is.                               *)
SameSong == app = "synth" => Synth!SameSong
=============================================================================
