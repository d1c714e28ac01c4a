------------------------------ MODULE Library ------------------------------
(***************************************************************************)
(* The services the rest of the kernel takes for granted, one at a time:   *)
(* the functions of lib/ on strings and numbers, the clock and the timer.  *)
(* Which one is used is chosen at the start.                               *)
(***************************************************************************)
EXTENDS Integers, SequencesExt

CONSTANTS
    Services,                                            \* of "memory", "numbers", "format", "clock", "timer"
    Width, Size, Chars, Formats, Room,                   \* Strings
    Seconds, Minutes, Hours, StartYears, MaxDays, TicksLate,     \* Clock
    SINT32_MAX, FREQUENCY, Naps, MaxDepth, MaxElapsed    \* Timer

VARIABLES
    service,
    was, mem, call, result,     \* memory before and after a call, the call, and what it gave
    rtc, weekday, time, seen, days,
    ticks, stack, asked, began, elapsed

Str   == INSTANCE Strings
Clock == INSTANCE Clock
Timer == INSTANCE Timer

callVars  == <<was, mem, call, result>>
clockVars == <<rtc, weekday, time, seen, days>>
timerVars == <<ticks, stack, asked, began, elapsed>>

Addresses == 0 .. Size - 1
Space == 32

(* A buffer of Size bytes that ends with a 0, and one call on it.          *)
CallInit ==
    /\ was \in IF service = "memory" THEN {m \in [Addresses -> Chars] : m[Size - 1] = 0} ELSE {[a \in Addresses |-> 0]}
    /\ mem = was
    /\ call = <<>>
    /\ result = <<>>

NoClock == rtc = <<>> /\ weekday = 0 /\ time = <<>> /\ seen = FALSE /\ days = 0
NoTimer == ticks = 0 /\ stack = <<>> /\ asked = 0 /\ began = 0 /\ elapsed = 0

Init ==
    /\ service \in Services
    /\ CallInit
    /\ IF service = "clock" THEN Clock!ClockInit ELSE NoClock
    /\ IF service = "timer" THEN Timer!TimerInit ELSE NoTimer

Apart(d, n, s, k) == d + n <= s \/ s + k <= d
Fits(d, n) == d + n <= Size

\* Operands of the string functions are apart, and the result fits.
MemoryAfter(f, d, s, n) ==
    CASE f = "strcpy"  -> Str!strcpy(mem, d, s)
      [] f = "strncpy" -> Str!strncpy(mem, d, s, n)
      [] f = "strcat"  -> Str!strcat(mem, d, s)
      [] f = "strncat" -> Str!strncat(mem, d, s, n)
      [] f = "memcpy"  -> Str!memcpy(mem, d, s, n)
      [] f = "memmove" -> Str!memmove(mem, d, s, n)
      [] f = "memset"  -> Str!memset(mem, d, s, n)

Written(f, d, s, n) ==
    CASE f = "strcpy"  -> Str!strlen(mem, s) + 1
      [] f = "strcat"  -> Str!strlen(mem, d) + Str!strlen(mem, s) + 1
      [] f = "strncat" -> Str!strlen(mem, d) + n
      [] OTHER         -> n

Change ==
    /\ service = "memory" /\ call = <<>>
    /\ \E f \in {"strcpy", "strncpy", "strcat", "strncat", "memcpy", "memmove", "memset"},
          d \in Addresses, s \in Addresses, n \in 0 .. Room :
          /\ Fits(d, Written(f, d, s, n))
          /\ f \in {"memcpy", "memmove"} => Fits(s, n)
          /\ f \in {"strcpy", "strcat", "strncpy", "strncat"} =>
                Apart(d, Written(f, d, s, n), s, Str!strlen(mem, s) + 1)
          /\ f = "memset" => s \in Chars
          /\ mem' = MemoryAfter(f, d, s, n)
          /\ call' = <<f, d, s, n>>
    /\ UNCHANGED <<was, result>>

Inspect ==
    /\ service = "memory" /\ call = <<>>
    /\ \E d \in Addresses, s \in Addresses :
          \/ /\ call' = <<"strsep", 0, 0, Size>>
             /\ result' = Str!Tokens(mem, 0, Space, Size)
          \/ /\ call' = <<"strcmp", d, s, 0>>
             /\ result' = Str!strcmp(Str!StringAt(mem, d), Str!StringAt(mem, s))
    /\ UNCHANGED <<was, mem>>

Numbers == -(2 ^ (Width - 1)) .. 2 ^ (Width - 1) - 1

Convert ==
    /\ service = "numbers" /\ call = <<>>
    /\ \E n \in Numbers, base \in {2, 8, 10, 16, 36} : call' = <<"itoa", n, base>> /\ result' = Str!itoa(n, base)
    /\ UNCHANGED <<was, mem>>

Format ==
    /\ service = "format" /\ call = <<>>
    /\ \E n \in 1 .. Room, format \in Formats : call' = <<"vsnprintf", n, format>> /\ result' = <<Str!vsnprintf(n, format)>>
    /\ UNCHANGED <<was, mem>>

UseStrings == (Change \/ Inspect \/ Convert \/ Format) /\ UNCHANGED <<service, clockVars, timerVars>>
TellTime   == service = "clock" /\ Clock!ClockNext /\ UNCHANGED <<service, callVars, timerVars>>
Sleep      == service = "timer" /\ Timer!TimerNext /\ UNCHANGED <<service, callVars, clockVars>>

Next == UseStrings \/ TellTime \/ Sleep

vars == <<service, callVars, clockVars, timerVars>>

timerRests == UNCHANGED <<service, callVars, clockVars>>
Spec ==
    /\ Init /\ [][Next]_vars
    /\ WF_vars(service = "timer" /\ Timer!timer_handler /\ timerRests)
    /\ WF_vars(service = "timer" /\ (Timer!Call \/ Timer!Rest \/ Timer!WakeUp) /\ timerRests)
----------------------------------------------------------------------------
Called(f) == call # <<>> /\ call[1] = f
Text(m, p) == Str!StringAt(m, p)

(* What a text that itoa() wrote is read back as, in the way of strtol().  *)
Reads(text, base, n, rest) == LET got == Str!strtol(text, base) IN got.value = n /\ got.rest = rest

(* strtol() reads back what itoa() writes, the lowest number too: by the   *)
(* base, by a prefix that tells it, behind spaces and a sign, and before   *)
(* text that is no number.  Negative numbers have a sign in base 10 only.  *)
NumbersReadBack ==
    Called("itoa") =>
        LET n == call[2]  base == call[3]
        IN  /\ base = 10 \/ n >= 0 => Reads(result, base, n, <<>>)
            /\ base = 10 => /\ Reads(result, 0, n, <<>>)
                            /\ Reads(<<Space, 9>> \o result \o <<Space, 49>>, 10, n, <<Space, 49>>)
            /\ n >= 0 => Reads(<<43>> \o result, base, n, <<>>)
            /\ base = 16 /\ n >= 0 => Reads(<<48, 120>> \o result, 0, n, <<>>)
            /\ base = 8 /\ n >= 0 => Reads(<<48>> \o result, 0, n, <<>>)

\* Bytes as they would be if all were copied at once.
AtOnce(d, s, n) == [a \in Addresses |-> IF a - d \in 0 .. n - 1 THEN was[s + a - d] ELSE was[a]]
Before(x, y) ==
    \E i \in 1 .. Len(y) : /\ IsPrefix(SubSeq(y, 1, i - 1), x)
                           /\ Len(x) = i - 1 \/ (Len(x) >= i /\ x[i] < y[i])
Joined(toks) == FoldLeft(LAMBDA text, tok : text \o <<Space>> \o tok, Head(toks), Tail(toks))

(* The functions on memory do what their comments say: copies and          *)
(* concatenations that fit are the strings, memmove() copies as if at      *)
(* once, memcpy() too unless the target begins inside the source, the      *)
(* tokens of strsep() are the string cut at every delimiter, empty ones    *)
(* too, strcmp() orders like a dictionary, and formats without strings     *)
(* keep within the buffer.                                                 *)
StringsAgree ==
    /\ Called("strcpy") => Text(mem, call[2]) = Text(was, call[3])
    /\ Called("strcat") => Text(mem, call[2]) = Text(was, call[2]) \o Text(was, call[3])
    /\ Called("strncpy") /\ Len(Text(was, call[3])) < call[4] => Text(mem, call[2]) = Text(was, call[3])
    /\ Called("strncat") /\ Len(Text(was, call[3])) < call[4] => Text(mem, call[2]) = Text(was, call[2]) \o Text(was, call[3])
    /\ Called("memmove") => mem = AtOnce(call[2], call[3], call[4])
    /\ Called("memcpy") /\ (call[2] <= call[3] \/ call[2] >= call[3] + call[4]) => mem = AtOnce(call[2], call[3], call[4])
    /\ Called("strsep") => /\ Joined(result) = Text(was, 0)
                           /\ \A k \in DOMAIN result : \A i \in DOMAIN result[k] : result[k][i] # Space
    /\ Called("strcmp") => LET x == Text(was, call[2])  y == Text(was, call[3])
                           IN  (result < 0 <=> Before(x, y)) /\ (result > 0 <=> Before(y, x))
    /\ Called("vsnprintf") /\ (\A k \in DOMAIN call[3] : call[3][k].kind # "string") => result[1] <= call[2]

(* The functions of string.c and stdio.c, on memory and on numbers.        *)
LibraryAgrees == StringsAgree /\ NumbersReadBack

(* The clock shows the time of the chip, and the true day of the week; a   *)
(* thread that slept, the maximum of the ticks not being near, slept for   *)
(* as long as it asked.                                                    *)
TimeIsKept ==
    /\ service = "clock" => Clock!ClockShowsTime
    /\ service = "timer" => Timer!NapsLastLongEnough

(* vsnprintf() writes no more than n characters: those of %s are not       *)
(* counted (stdio.c).                                                      *)
FormatsFit == Called("vsnprintf") => result[1] <= call[2]

(* strncat() leaves a string in the room it was given: with n characters   *)
(* or more to append it writes no 0.                                       *)
StringEnds == Called("strncat") => Str!strlen(mem, call[2]) <= Str!strlen(was, call[2]) + call[4] - 1 \/ call[4] = 0

(* Extra: the century of the clock, a sleep across the maximum, its end.   *)
CenturyShown == service = "clock" => Clock!CenturyShown
SleepsLongEnough == service = "timer" => Timer!SleepsLongEnough
SleepEnds == (service = "timer" /\ stack # <<>>) ~> stack = <<>>
=============================================================================
