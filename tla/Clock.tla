------------------------------- MODULE Clock -------------------------------
(***************************************************************************)
(* The real-time clock: the chip, whose registers count in BCD, and the    *)
(* driver of io/io_rtc.c, which copies of them with every tick of the      *)
(* timer no more than it thinks has changed.  Seconds, minutes and hours   *)
(* of the chip have constants for their periods.                           *)
(***************************************************************************)
EXTENDS Integers, Sequences

CONSTANTS
    Seconds, Minutes, Hours,   \* in a minute, an hour and a day: 60, 60 and 24
    StartYears,                \* years of the chip at the start, of 0 .. 99
    MaxDays,                   \* bound: days that are followed from there
    TicksLate                  \* whether a second may pass without a tick of the timer

VARIABLES
    rtc,        \* the chip: its registers
    weekday,    \* the true day of the week, 0 for Sunday
    time,       \* the global of the driver
    seen,       \* whether the driver ran in this second
    days        \* days followed, for the bound

clockVars == <<rtc, weekday, time, seen, days>>

Bcd(n) == ((n \div 10) * 16) + (n % 10)
bcd2bin(num) == ((num \div 16) * 10) + (num % 16)
----------------------------------------------------------------------------
(* The chip counts on its own.                                             *)
Leap(year) == year % 4 = 0    \* from 2000 to 2099
LastDay(month, year) ==
    IF month = 2 THEN (IF Leap(year) THEN 29 ELSE 28) ELSE IF month \in {4, 6, 9, 11} THEN 30 ELSE 31

\* The 1st of January: 2000 began on a Saturday.
FirstWeekday(year) == (6 + year + ((year + 3) \div 4)) % 7

Registers(s, mi, h, d, mo, y, c) ==
    [sec |-> Bcd(s), min |-> Bcd(mi), hour |-> Bcd(h), day |-> Bcd(d), month |-> Bcd(mo), year |-> Bcd(y), century |-> Bcd(c)]

Second ==
    LET s == bcd2bin(rtc.sec)  mi == bcd2bin(rtc.min)  h == bcd2bin(rtc.hour)  d == bcd2bin(rtc.day)
        mo == bcd2bin(rtc.month)  y == bcd2bin(rtc.year)  c == bcd2bin(rtc.century)
        m1 == s + 1 = Seconds
        h1 == m1 /\ mi + 1 = Minutes
        d1 == h1 /\ h + 1 = Hours
        o1 == d1 /\ d = LastDay(mo, y)
        y1 == o1 /\ mo = 12
        up(x, carry, turns) == IF ~carry THEN x ELSE IF turns THEN 0 ELSE x + 1
    IN  /\ days < MaxDays
        /\ seen \/ TicksLate
        /\ rtc' = Registers(IF m1 THEN 0 ELSE s + 1, up(mi, m1, h1), up(h, h1, d1),
                            IF o1 THEN 1 ELSE up(d, d1, FALSE), IF y1 THEN 1 ELSE up(mo, o1, FALSE),
                            up(y, y1, y = 99), up(c, y1 /\ y = 99, FALSE))
        /\ weekday' = IF d1 THEN (weekday + 1) % 7 ELSE weekday
        /\ days' = IF d1 THEN days + 1 ELSE days
        /\ seen' = FALSE
        /\ UNCHANGED time
----------------------------------------------------------------------------
(* The weekday from the date, by tables and remainders.                    *)
MonthTable == <<0, 3, 3, 6, 1, 4, 6, 2, 5, 0, 3, 5>>

NeverCorrected(t) == 0

Correction(t) ==
    LET year == bcd2bin(t.year)
    IN  IF year % 4 = 0 /\ (year % 100 # 0 \/ year % 400 = 0) /\ bcd2bin(t.month) < 3 THEN 6 ELSE 0

calculate_weekday(t) ==
    LET year == bcd2bin(t.year) + (bcd2bin(t.year) \div 4)
        century == 2 * (3 - (20 % 4))
    IN  (century + year + MonthTable[bcd2bin(t.month)] + bcd2bin(t.day) + Correction(t)) % 7

(* rtc_init(): everything is read.                                         *)
Stamped(t) == [f \in DOMAIN rtc \cup {"weekday"} |-> IF f = "weekday" THEN calculate_weekday(t) ELSE t[f]]

(* rtc_update(): a register is read when the one below it is at its start. *)
MonthRead == rtc.sec = 0 /\ rtc.min = 0 /\ rtc.hour = 0 /\ rtc.day = 1
Refreshed ==
    [f \in DOMAIN rtc |->
        CASE f = "sec"   -> rtc.sec
          [] f = "min"   -> IF rtc.sec = 0 THEN rtc.min ELSE time.min
          [] f = "hour"  -> IF rtc.sec = 0 /\ rtc.min = 0 THEN rtc.hour ELSE time.hour
          [] f = "day"   -> IF rtc.sec = 0 /\ rtc.min = 0 /\ rtc.hour = 0 THEN rtc.day ELSE time.day
          [] f = "month" -> IF MonthRead THEN rtc.month ELSE time.month
          [] f = "year"  -> IF MonthRead /\ rtc.month = 1 THEN rtc.year ELSE time.year
          [] f = "century" -> IF MonthRead /\ rtc.month = 1 /\ rtc.year = 1 THEN rtc.century ELSE time.century]

rtc_update ==
    /\ ~seen
    /\ time' = IF rtc.sec = 0 /\ rtc.min = 0 /\ rtc.hour = 0 THEN Stamped(Refreshed)
               ELSE [f \in DOMAIN time |-> IF f = "weekday" THEN time.weekday ELSE Refreshed[f]]
    /\ seen' = TRUE
    /\ UNCHANGED <<rtc, weekday, days>>

ClockInit ==
    /\ \E y \in StartYears : /\ rtc = Registers(0, 0, 0, 1, 1, y, 20)
                             /\ weekday = FirstWeekday(y)
    /\ time = Stamped(rtc)
    /\ seen = TRUE
    /\ days = 0

ClockNext == Second \/ rtc_update
----------------------------------------------------------------------------
(* time2str(): two digits of each field, a 0 put before the small ones.    *)
Two(num) == IF num < 10 THEN <<0, num>> ELSE <<num \div 16, num % 16>>
Shown == [f \in DOMAIN rtc |-> Two(time[f])]

(* Whenever the driver has run in a second, the time it shows is that of   *)
(* the chip and the day of the week the true one: a field is only read     *)
(* when the field below it has just turned.                                *)
ClockShowsTime ==
    seen => /\ \A f \in DOMAIN rtc \ {"century"} : (Shown[f][1] * 10) + Shown[f][2] = bcd2bin(rtc[f])
            /\ time.weekday = weekday

(* The century too; it is read when a new year is 1, not 0.                *)
CenturyShown == seen => time.century = rtc.century
=============================================================================
