------------------------------ MODULE Strings ------------------------------
(***************************************************************************)
(* The functions of lib/string.c and lib/stdio.c.  Characters are their    *)
(* codes.  Functions that work in place get the memory as a function from  *)
(* addresses to characters and give the memory they leave; the others get  *)
(* and give strings, sequences without the terminating 0.  Operands of     *)
(* strcpy() and its relatives do not overlap.                              *)
(***************************************************************************)
EXTENDS Integers, SequencesExt

CONSTANT Width      \* bits of an int, 32 in the code

\* A value as a signed or unsigned int.
Signed(v) == LET m == 2 ^ Width IN IF v % m >= m \div 2 THEN (v % m) - m ELSE v % m
Unsigned(v) == v % (2 ^ Width)
----------------------------------------------------------------------------
(* Strings in memory.                                                      *)
strlen(m, p) == CHOOSE n \in 0 .. Cardinality(DOMAIN m) : m[p + n] = 0 /\ \A k \in 0 .. n - 1 : m[p + k] # 0
StringAt(m, p) == [i \in 1 .. strlen(m, p) |-> m[p + i - 1]]

\* The memory with the characters of a sequence at p.
Put(m, p, chars) == [a \in DOMAIN m |-> IF a - p \in 0 .. Len(chars) - 1 THEN chars[a - p + 1] ELSE m[a]]

strcpy(m, dest, src) == Put(m, dest, Append(StringAt(m, src), 0))

\* Exactly n characters are written: the string, cut off or filled up with 0.
strncpy(m, dest, src, n) ==
    LET str == StringAt(m, src) IN Put(m, dest, [i \in 1 .. n |-> IF i <= Len(str) THEN str[i] ELSE 0])

NULL == -1
strchr(m, p, ch) ==
    LET hits == {a \in p .. p + strlen(m, p) : m[a] = ch}
    IN  IF hits = {} THEN NULL ELSE CHOOSE a \in hits : \A b \in hits : a <= b

strcat(m, s1, s2) == strcpy(m, strchr(m, s1, 0), s2)
strncat(m, s1, s2, n) == strncpy(m, strchr(m, s1, 0), s2, n)

(* The loops of shell_handle_command() over strsep(): the delimiters are   *)
(* overwritten one after the other, and the string ends where none is      *)
(* left.  Gives the addresses of the tokens and the memory.                *)
strsepKeeps(m, p, delim) ==
    LET offs == strchr(m, p, delim)
    IN  IF offs = NULL THEN [mem |-> m, rest |-> NULL] ELSE [mem |-> m, rest |-> offs + 1]

strsep(m, p, delim) ==
    LET offs == strchr(m, p, delim)
    IN  IF offs = NULL THEN [mem |-> m, rest |-> NULL]
        ELSE [mem |-> [m EXCEPT ![offs] = 0], rest |-> offs + 1]

Tokens(m, p, delim, max) ==
    LET step(acc) == IF acc.rest = NULL \/ Len(acc.toks) = max THEN acc
                     ELSE LET sep == strsep(acc.mem, acc.rest, delim)
                          IN  [mem |-> sep.mem, rest |-> sep.rest,
                               toks |-> Append(acc.toks, StringAt(sep.mem, acc.rest))]
    IN  FoldLeft(LAMBDA acc, i : step(acc), [mem |-> m, rest |-> p, toks |-> <<>>], [i \in 1 .. max |-> i]).toks

strcmp(s1, s2) ==
    LET at(s, i) == IF i <= Len(s) THEN s[i] ELSE 0
        i == CHOOSE k \in 1 .. Len(s1) + 1 :
                /\ at(s1, k) # at(s2, k) \/ at(s1, k) = 0 \/ at(s2, k) = 0
                /\ \A j \in 1 .. k - 1 : at(s1, j) = at(s2, j) /\ at(s1, j) # 0
    IN  at(s1, i) - at(s2, i)

memset(m, dest, value, count) == Put(m, dest, [i \in 1 .. count |-> value])

(* One byte after the other, so that an overlap shows; memmove() goes by   *)
(* way of a copy.                                                          *)
memcpy(m, dest, src, count) ==
    FoldLeft(LAMBDA acc, i : [acc EXCEPT ![dest + i - 1] = acc[src + i - 1]], m, [i \in 1 .. count |-> i])

memmove(m, dest, src, count) == Put(m, dest, [i \in 1 .. count |-> m[src + i - 1]])

\* The ends change places until they meet.
strreverse(str) ==
    FoldLeft(LAMBDA acc, i : [acc EXCEPT ![i] = acc[Len(str) + 1 - i], ![Len(str) + 1 - i] = acc[i]],
             str, [i \in 1 .. Len(str) \div 2 |-> i])
----------------------------------------------------------------------------
(* Numbers.                                                                *)
isspace(c) == c \in 9 .. 13 \cup {32}

Minus == 45
Plus == 43
Code(rem) == IF rem < 10 THEN 48 + rem ELSE 55 + rem

\* A sign in base 10 only; other bases show the two's complement.
itoa(n, base) ==
    LET neg == base = 10 /\ n < 0
        num == Unsigned(IF neg THEN Signed(-n) ELSE n)
        digits[u \in 0 .. num] == <<Code(u % base)>> \o (IF u \div base = 0 THEN <<>> ELSE digits[u \div base])
    IN  (IF neg THEN <<Minus>> ELSE <<>>) \o strreverse(digits[num])

ValueOf(c) ==
    CASE c \in 48 .. 57  -> c - 48
      [] c \in 65 .. 90  -> c - 65 + 10
      [] c \in 97 .. 122 -> c - 97 + 10
      [] OTHER           -> -1

Skipping(str, T(_)) == LET i == SelectInSeq(str, LAMBDA c : ~T(c)) IN IF i = 0 THEN <<>> ELSE SubSeq(str, i, Len(str))
Leading(str, T(_)) == SubSeq(str, 1, Len(str) - Len(Skipping(str, T)))

AccumulatedUp(ret, base, value) == Signed(Signed(ret * base) + value)

\* The number is put together below zero, where there is room for the lowest one.
Accumulated(ret, base, value) == Signed(Signed(ret * base) - value)

\* The base, and where its prefix ends.
Guessed(str, base) ==
    IF base # 0 THEN [base |-> base, rest |-> str]
    ELSE IF str = <<>> \/ str[1] # 48 THEN [base |-> 10, rest |-> str]
    ELSE IF Len(str) > 1 /\ str[2] \in {88, 120} THEN [base |-> 16, rest |-> SubSeq(str, 3, Len(str))]
    ELSE [base |-> 8, rest |-> Tail(str)]

\* The value, and the text behind the number.
strtol(str, base) ==
    LET text == Skipping(str, isspace)
        sign == IF text # <<>> /\ text[1] = Minus THEN 1 ELSE -1
        body == Guessed(IF text # <<>> /\ text[1] \in {Minus, Plus} THEN Tail(text) ELSE text, base)
        digit(c) == ValueOf(c) >= 0 /\ ValueOf(c) < body.base
        number == FoldLeft(LAMBDA ret, c : Accumulated(ret, body.base, ValueOf(c)), 0, Leading(body.rest, digit))
    IN  [value |-> Signed(number * sign), rest |-> Skipping(body.rest, digit)]

atoi(str) == strtol(str, 10).value
----------------------------------------------------------------------------
(* vsnprintf(): how much it writes.  A format is a sequence of pieces: a   *)
(* plain character, a character to insert, a number or a string of so many *)
(* characters.                                                             *)
Piece(acc, n, piece) ==
    IF acc.stop \/ acc.written >= n - 1 THEN [acc EXCEPT !.stop = TRUE]
    ELSE LET w == acc.written + 1
             digits == IF piece.len < n - 1 - w THEN piece.len ELSE IF n - 1 - w > 0 THEN n - 1 - w ELSE 0
         IN  CASE piece.kind = "char"   -> [acc EXCEPT !.written = w, !.out = @ + 1]
               [] piece.kind = "number" -> [acc EXCEPT !.written = w + digits + (IF digits < piece.len THEN 1 ELSE 0),
                                                       !.out = @ + digits]
               [] piece.kind = "string" -> [acc EXCEPT !.written = w,
                                                       !.out = @ + (IF w < n - 1 THEN piece.len ELSE 0)]

\* The characters written, with the terminating 0.
vsnprintf(n, format) ==
    FoldLeft(LAMBDA acc, piece : Piece(acc, n, piece), [written |-> 0, out |-> 0, stop |-> FALSE], format).out + 1
=============================================================================
