------------------------------- MODULE Timer -------------------------------
(***************************************************************************)
(* The tick counter of io/io_timer.c, which starts over at its maximum,    *)
(* and a thread that sleeps by it.  A sleep that would pass the maximum is *)
(* cut in two, and calls itself for the parts: the calls are a stack.      *)
(***************************************************************************)
EXTENDS Integers, Sequences

CONSTANTS
    SINT32_MAX,   \* 2 ^ 31 - 1 in the code
    FREQUENCY,    \* ticks in a second, 100 in the code
    Naps,         \* what is slept: <<"sleep", seconds>> or <<"sleep_ticks", ticks>>
    MaxDepth,     \* bound: calls inside each other that are followed
    MaxElapsed    \* bound: ticks that are counted in one nap

VARIABLES
    ticks,
    stack,     \* calls to come, the current one last: a call, or the tick that is waited for
    asked,     \* ticks the thread wanted to sleep
    began,     \* the tick in which it went to sleep
    elapsed    \* ticks that passed since it went to sleep, counted up to the bound

timerVars == <<ticks, stack, asked, began, elapsed>>

TimerInit ==
    /\ ticks \in 0 .. SINT32_MAX - 1
    /\ stack = <<>>
    /\ asked = 0 /\ began = 0 /\ elapsed = 0

timer_handler ==
    /\ ticks' = IF ticks + 1 = SINT32_MAX THEN 0 ELSE ticks + 1
    /\ elapsed' = IF stack = <<>> THEN 0 ELSE IF elapsed < MaxElapsed THEN elapsed + 1 ELSE elapsed
    /\ asked' = IF stack = <<>> THEN 0 ELSE asked
    /\ UNCHANGED <<stack, began>>

InTicks(nap) == IF nap[1] = "sleep" THEN FREQUENCY * nap[2] ELSE nap[2]

GoToSleep ==
    /\ stack = <<>>
    /\ \E nap \in Naps : stack' = <<nap>> /\ asked' = InTicks(nap)
    /\ began' = ticks /\ elapsed' = 0
    /\ UNCHANGED ticks

DeadlineInSeconds(nap) == ticks + nap[2]

\* The tick that ends a call.
Deadline(nap) == ticks + InTicks(nap)

Top == stack[Len(stack)]
Below == SubSeq(stack, 1, Len(stack) - 1)

Signed(v) == IF v > SINT32_MAX THEN v - 2 * (SINT32_MAX + 1) ELSE v

NeverPasses(num) == FALSE
Passes(num) == SINT32_MAX - ticks < num

\* What is slept up to the maximum, and the call for the rest, which finds its length when it begins.
Parts(nap) ==
    IF nap[1] = "sleep"
    THEN << <<"rest", nap[2]>>, <<"sleep", (SINT32_MAX - ticks) \div FREQUENCY>> >>
    ELSE << <<"rest_ticks", nap[2]>>, <<"sleep", SINT32_MAX - ticks>> >>

(* sleep() and sleep_ticks() wait or call themselves twice.                *)
Call ==
    /\ stack # <<>> /\ Top[1] \in {"sleep", "sleep_ticks"}
    /\ Len(stack) < MaxDepth
    /\ stack' = Below \o (IF Passes(InTicks(Top)) THEN Parts(Top)
                          ELSE << <<"until", Signed(Deadline(Top))>> >>)
    /\ UNCHANGED <<ticks, asked, began, elapsed>>

Rest ==
    /\ stack # <<>> /\ Top[1] \in {"rest", "rest_ticks"}
    /\ stack' = Append(Below, <<"sleep", Top[2] - (IF Top[1] = "rest" THEN (SINT32_MAX - ticks) \div FREQUENCY
                                                   ELSE SINT32_MAX - ticks)>>)
    /\ UNCHANGED <<ticks, asked, began, elapsed>>

\* while (ticks < i) halt();
WakeUp ==
    /\ stack # <<>> /\ Top[1] = "until"
    /\ ticks >= Top[2]
    /\ stack' = Below
    /\ UNCHANGED <<ticks, asked, began, elapsed>>

TimerNext == timer_handler \/ GoToSleep \/ Call \/ Rest \/ WakeUp
----------------------------------------------------------------------------
(* A thread that has slept has slept for as long as it asked.              *)
SleepsLongEnough == stack = <<>> => elapsed >= asked

(* So it has if the maximum was not near.                                  *)
NapsLastLongEnough == began + asked < SINT32_MAX => SleepsLongEnough

(* A sleep ends.  One that is to end at the maximum itself waits for a     *)
(* tick that never comes.                                                  *)
SleepEnds == stack # <<>> ~> stack = <<>>

TimerFairness == WF_timerVars(timer_handler) /\ WF_timerVars(Call \/ Rest \/ WakeUp)
=============================================================================
