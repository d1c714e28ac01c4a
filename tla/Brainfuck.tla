----------------------------- MODULE Brainfuck -----------------------------
(***************************************************************************)
(* The interpreter behind /dev/brainfuck (apps/brainfuck_interpreter.c,    *)
(* pm/dev_brainfuck.c).  It gets a program one character at a time and     *)
(* runs each at once; what a loop will repeat it has to remember while the *)
(* loop runs for the first time.  interpret_bf() calls itself to repeat a  *)
(* loop: each such call is a frame here.                                   *)
(***************************************************************************)
EXTENDS Integers, SequencesExt

CONSTANTS
    Programs,    \* the programs that are written to the device
    MaxLength,   \* maxlength, the cells of the tape at first, 10000 in the code
    MaxTape,     \* bound: programs are followed while the tape is no longer
    Values,      \* a cell counts modulo this, 256 in the code
    Fuel         \* bound: the steps that the definition of the language is followed

VARIABLES
    program, fed,    \* the program, and how much of it was written
    bf,              \* the globals of the interpreter
    frames           \* the calls that repeat a loop, innermost last: <<start, end>>

bfVars == <<program, fed, bf, frames>>

Fresh == [tape |-> [i \in 0 .. MaxLength - 1 |-> 0], ptr |-> 0, maxlength |-> MaxLength,
          buffering |-> FALSE, buffer |-> <<>>, position |-> -1,
          marks |-> [d \in 1 .. 10 |-> <<0, 0>>],
          jumpover |-> FALSE, store_lock |-> FALSE,
          loopdepth |-> 0, temploopdepth |-> 0, store_lock_level |-> 0]

BfInit ==
    /\ program \in Programs
    /\ fed = 0
    /\ bf = Fresh
    /\ frames = <<>>
----------------------------------------------------------------------------
Cell(m) == m.tape[m.ptr]

(* Inside a loop every character that is not a repetition is remembered.   *)
Stored(m, ch) ==
    IF ~m.store_lock /\ m.buffering
    THEN [m EXCEPT !.buffer = Append(@, ch), !.position = @ + 1] ELSE m

JumpedToFirst(m, ch) ==
    IF ch = "]" THEN [m EXCEPT !.jumpover = FALSE, !.loopdepth = @ - 1, !.temploopdepth = 0]
    ELSE [m EXCEPT !.loopdepth = @ + (IF ch = "[" THEN 1 ELSE 0)]

(* A loop that is not entered is passed over, to its own closing bracket.  *)
Jumped(m, ch) ==
    IF ch = "]" /\ m.loopdepth = m.temploopdepth
    THEN [m EXCEPT !.jumpover = FALSE, !.loopdepth = @ - 1, !.temploopdepth = 0]
    ELSE [m EXCEPT !.loopdepth = @ + (CASE ch = "[" -> 1 [] ch = "]" -> -1 [] OTHER -> 0)]

Entered(m) ==
    LET d == m.loopdepth + 1
    IN  IF Cell(m) = 0 THEN [m EXCEPT !.loopdepth = d, !.jumpover = TRUE, !.temploopdepth = d]
        ELSE IF ~m.buffering THEN [m EXCEPT !.loopdepth = d, !.buffering = TRUE]
        ELSE [m EXCEPT !.loopdepth = d, !.marks[d][1] = m.position + 1]

(* The tape is doubled when the pointer leaves it, to the left or right;   *)
(* what the new half holds is up to the allocator.                         *)
Repaired(m) ==
    LET half == m.maxlength
        cells(tapeAt, p) == {[m EXCEPT !.maxlength = 2 * half, !.ptr = p,
                                !.tape = [i \in 0 .. 2 * half - 1 |->
                                   IF i - tapeAt \in 0 .. half - 1 THEN @[i - tapeAt] ELSE junk]]
                                : junk \in 0 .. Values - 1}
    IN  IF m.ptr < 0 THEN cells(half, half - 1)
        ELSE IF m.ptr > half - 1 THEN cells(0, half)
        ELSE {m}

(* Every character but the closing bracket, as the set of states that the  *)
(* call can leave.                                                         *)
Handled(m, ch) ==
    IF m.jumpover THEN {Jumped(m, ch)} ELSE
    CASE ch = "+" -> {[m EXCEPT !.tape[m.ptr] = (@ + 1) % Values]}
      [] ch = "-" -> {[m EXCEPT !.tape[m.ptr] = (@ + Values - 1) % Values]}
      [] ch = "<" -> Repaired([m EXCEPT !.ptr = @ - 1])
      [] ch = ">" -> Repaired([m EXCEPT !.ptr = @ + 1])
      [] ch = "[" -> {Entered(m)}
      [] OTHER    -> {m}

(* The next round of a loop: the characters between its marks.             *)
BeginRound(m) ==
    [m EXCEPT !.store_lock = TRUE,
              !.store_lock_level = IF @ = 0 THEN m.loopdepth ELSE @,
              !.position = m.marks[m.loopdepth][1]]

Unlocked(m) ==
    IF m.loopdepth = m.store_lock_level
    THEN [m EXCEPT !.store_lock = FALSE, !.store_lock_level = 0] ELSE m

(* The end of a loop.  With the outermost one the buffer is given up.      *)
Left(m) ==
    LET n == [Unlocked(m) EXCEPT !.loopdepth = @ - 1]
    IN  IF n.loopdepth = 0 /\ n.buffering
        THEN [n EXCEPT !.buffering = FALSE, !.buffer = <<>>, !.position = -1] ELSE n

(* A call returns to the frame that made it, which goes on to the next     *)
(* character, or to the writer.                                            *)
ReturnTo(below, m) ==
    IF below = <<>> THEN frames' = <<>> /\ bf' = m
    ELSE LET next == Last(below)[1] + 1
         IN  /\ frames' = Append(Front(below), <<next, Last(below)[2]>>)
             /\ bf' = [m EXCEPT !.position = next]

(* interpret_bf(ch), up to the first round of a loop.                      *)
Interpret(ch) ==
    LET m == Stored(bf, ch)
    IN  IF ch = "]" /\ ~m.jumpover
        THEN LET closed == [m EXCEPT !.marks[m.loopdepth][2] = m.position]
             IN  IF Cell(m) # 0
                 THEN /\ bf' = BeginRound(closed)
                      /\ frames' = Append(frames, closed.marks[m.loopdepth])
                 ELSE ReturnTo(frames, Left(closed))
        ELSE \E after \in Handled(m, ch) : ReturnTo(frames, after)

\* dev_brainfuck_write(), the next character.
Feed ==
    /\ frames = <<>> /\ fed < Len(program)
    /\ fed' = fed + 1
    /\ Interpret(program[fed + 1])
    /\ UNCHANGED program

Repeat ==
    /\ frames # <<>>
    /\ Last(frames)[1] < Last(frames)[2]
    /\ Interpret(bf.buffer[Last(frames)[1] + 1])
    /\ UNCHANGED <<program, fed>>

EndOfRound ==
    /\ frames # <<>>
    /\ Last(frames)[1] >= Last(frames)[2]
    /\ IF Cell(bf) # 0
       THEN /\ bf' = BeginRound(bf)
            /\ frames' = Append(Front(frames), bf.marks[bf.loopdepth])
       ELSE ReturnTo(Front(frames), Left(bf))
    /\ UNCHANGED <<program, fed>>

BfNext == bf.maxlength <= MaxTape /\ (Feed \/ Repeat \/ EndOfRound)
----------------------------------------------------------------------------
(* The language: a program as a whole, with brackets that match.           *)
Matching(p, i) ==
    LET Depth(j) == Cardinality({k \in 1 .. j : p[k] = "["}) - Cardinality({k \in 1 .. j : p[k] = "]"})
    IN  IF p[i] = "[" THEN CHOOSE j \in i + 1 .. Len(p) : Depth(j) = Depth(i) - 1 /\ \A k \in i .. j - 1 : Depth(k) >= Depth(i)
        ELSE CHOOSE j \in 1 .. i - 1 : p[j] = "[" /\ Depth(j) = Depth(i) + 1 /\ \A k \in j .. i - 1 : Depth(k) > Depth(i)

\* One step of the definition, from <<pc, ptr, tape>>; cells that were never touched are 0.
Meaning(p, c) ==
    LET pc == c[1]  ptr == c[2]  tape == c[3]  cell == tape[ptr]
    IN  CASE p[pc] = "+" -> <<pc + 1, ptr, [tape EXCEPT ![ptr] = (@ + 1) % Values]>>
          [] p[pc] = "-" -> <<pc + 1, ptr, [tape EXCEPT ![ptr] = (@ + Values - 1) % Values]>>
          [] p[pc] = "<" -> <<pc + 1, ptr - 1, tape>>
          [] p[pc] = ">" -> <<pc + 1, ptr + 1, tape>>
          [] p[pc] = "[" -> <<IF cell = 0 THEN Matching(p, pc) + 1 ELSE pc + 1, ptr, tape>>
          [] p[pc] = "]" -> <<IF cell = 0 THEN pc + 1 ELSE Matching(p, pc) + 1, ptr, tape>>
          [] OTHER       -> <<pc + 1, ptr, tape>>

\* The state in which the definition ends, or leaves the tape, or runs out of fuel.
RunOf(p) ==
    LET stopped(c) == c[1] > Len(p) \/ c[2] \notin 0 .. MaxLength - 1
        f[k \in 0 .. Fuel] == IF k = 0 THEN <<1, 0, [i \in 0 .. MaxLength - 1 |-> 0]>>
                              ELSE LET c == f[k - 1] IN IF stopped(c) THEN c ELSE Meaning(p, c)
    IN  f[Fuel]

(* A program that was written and has run left the tape and the pointer    *)
(* that the language gives it, however its loops are nested, skipped when  *)
(* first met and entered later, and repeated inside repetitions; and the   *)
(* interpreter is ready for the next one.                                  *)
RunsAsDefined ==
    frames = <<>> /\ fed = Len(program) /\ bf.maxlength = MaxLength =>
        /\ LET end == RunOf(program)
           IN  end[1] > Len(program) => bf.ptr = end[2] /\ bf.tape = end[3]
        /\ bf.loopdepth = 0 /\ ~bf.buffering /\ ~bf.jumpover /\ ~bf.store_lock

(* The cells past the ends of the tape are zero like all others; in the    *)
(* code they hold what the allocator left there.                           *)
NewCellsAreZero ==
    \A i \in DOMAIN bf.tape : bf.tape[i] # 0 => bf.maxlength = MaxLength \/ "+" \in ToSet(program)
=============================================================================
