--------------------------- MODULE MarketCalendar ---------------------------
(***************************************************************************)
(* The rules by weekday and hour of the two programs, over moments: a day  *)
(* and a clock, where a clock is one of the DayLength moments of a day     *)
(* that the rules tell apart.  Days are numbered as tm_wday numbers them:  *)
(* 0 is a Sunday.                                                          *)
(***************************************************************************)
EXTENDS Integers

CONSTANTS
    DayLength, \* moments of a day; 0 is 00:00
    Morning,   \* 07:00, the polls begin
    Open,      \* 09:00
    Close,     \* 15:30
    Night      \* 22:00, the polls end

ASSUME CalendarAssumption ==
    /\ {DayLength, Morning, Open, Close, Night} \subseteq Nat
    /\ 0 < Morning /\ Morning <= Open /\ Open < Close /\ Close < Night
    /\ Night <= DayLength

Clocks == 0..(DayLength - 1)
Moments == [day : Int, clock : Clocks]

At(d, c) == [day |-> d, clock |-> c]

\* a is not after b.
Leq(a, b) == a.day < b.day \/ (a.day = b.day /\ a.clock <= b.clock)

\* The moments that are n days or less before m.
LastDays(m, n) == {e \in [day : (m.day - n)..m.day, clock : Clocks] : Leq(e, m)}

Sunday   == 0
Saturday == 6
Weekday(d) == d % 7
Weekend(d) == Weekday(d) \in {Sunday, Saturday}

\* The moments that a chart shows: the weekdays from 09:00 to 15:30 of
\* findSampledByTimeRange.
Trading(m) == ~Weekend(m.day) /\ Open <= m.clock /\ m.clock <= Close

\* The polls of TradingCore skip the night.
OffHours(m) == m.clock >= Night \/ m.clock < Morning

\* Mutant: one day back from a Saturday and from a Sunday.
YesterdayAtWeekend(d) == IF Weekend(d) THEN d - 1 ELSE d

\* Back to a weekday, as the loop of getEffectiveEndTime goes and as the
\* switch of ResolvePrevCloseReferenceTime says: to the Friday of a weekend.
BackToWeekday(d) ==
    CASE Weekday(d) = Saturday -> d - 1
      [] Weekday(d) = Sunday   -> d - 2
      [] OTHER                 -> d

\* The moment until which rows are looked at for the previous close: 00:00 of
\* the day, of Friday at weekends.
ResolvePrevCloseReferenceTime(now) == At(BackToWeekday(now.day), 0)

\* Mutant: a weekday ends at its close, whether it has begun or not.
EffectiveEndTimeOfToday(now) ==
    IF Trading(now) THEN now ELSE At(BackToWeekday(now.day), Close)

\* Where the time range of a chart ends.
EffectiveEndTime(now) ==
    CASE Trading(now) -> now
      [] ~Trading(now) /\ ~Weekend(now.day) /\ now.clock > Close ->
            At(now.day, Close)
      [] OTHER ->
            LET before == now.clock < Open \/ Weekend(now.day)
            IN  At(BackToWeekday(IF before THEN now.day - 1 ELSE now.day), Close)

\* The moments of a chart that goes back to start.
Charted(start, now) ==
    {m \in LastDays(now, 7) :
        Trading(m) /\ Leq(start, m) /\ Leq(m, EffectiveEndTime(now))}
=============================================================================
