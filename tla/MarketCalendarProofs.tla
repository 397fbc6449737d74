------------------------ MODULE MarketCalendarProofs ------------------------
(***************************************************************************)
(* Proofs about MarketCalendar, for every day and any moments of a day.    *)
(***************************************************************************)
EXTENDS MarketCalendar, TLAPS

-----------------------------------------------------------------------------
(* The week.                                                               *)

LEMMA WeekdayOfNextDay ==
    ASSUME NEW d \in Int
    PROVE  /\ Weekday(d) \in 0..6
           /\ Weekday(d - 1) = IF Weekday(d) = 0 THEN 6 ELSE Weekday(d) - 1
           /\ Weekday(d - 2) = IF Weekday(d) <= 1 THEN Weekday(d) + 5
                                                  ELSE Weekday(d) - 2
  BY DEF Weekday

\* Going back to a weekday skips days of a weekend and no other.
LEMMA LastWeekday ==
    ASSUME NEW d \in Int
    PROVE  /\ BackToWeekday(d) \in (d - 2)..d
           /\ ~Weekend(BackToWeekday(d))
           /\ ~Weekend(d) => BackToWeekday(d) = d
           /\ \A e \in Int : BackToWeekday(d) < e /\ e <= d => Weekend(e)
<1>1. /\ Weekday(d) = 6 => BackToWeekday(d) = d - 1
      /\ Weekday(d) = 0 => BackToWeekday(d) = d - 2
      /\ Weekday(d) \notin {0, 6} => BackToWeekday(d) = d
  BY DEF BackToWeekday, Saturday, Sunday
<1>2. /\ Weekday(d) \in 0..6
      /\ Weekday(d) = 6 => Weekday(d - 1) = 5
      /\ Weekday(d) = 0 => Weekday(d - 1) = 6 /\ Weekday(d - 2) = 5
  BY WeekdayOfNextDay
<1>3. BackToWeekday(d) \in (d - 2)..d /\ ~Weekend(BackToWeekday(d))
  BY <1>1, <1>2 DEF Weekend, Saturday, Sunday
<1>4. ASSUME NEW e \in Int, BackToWeekday(d) < e, e <= d
      PROVE  Weekend(e)
  <2>1. CASE Weekday(d) = 6
    <3>1. e = d
      BY <1>1, <1>4, <2>1
    <3> QED
      BY <2>1, <3>1 DEF Weekend, Saturday
  <2>2. CASE Weekday(d) = 0
    <3>1. e = d \/ e = d - 1
      BY <1>1, <1>4, <2>2
    <3> QED
      BY <1>2, <2>2, <3>1 DEF Weekend, Saturday, Sunday
  <2> QED
    BY <1>1, <1>4, <2>1, <2>2
<1> QED
  BY <1>1, <1>3, <1>4 DEF Weekend, Saturday, Sunday

\* The reference day moves on with the day, except into a weekend.
LEMMA ReferenceDayMoves ==
    ASSUME NEW d \in Int
    PROVE  /\ Weekend(d + 1) => BackToWeekday(d + 1) = BackToWeekday(d)
           /\ ~Weekend(d + 1) => BackToWeekday(d + 1) = d + 1
                                 /\ BackToWeekday(d) # d + 1
<1>1. d + 1 \in Int /\ (d + 1) - 1 = d
  OBVIOUS
<1>2. /\ Weekday(d + 1) = 6 => Weekday(d) = 5
      /\ Weekday(d + 1) = 0 => Weekday(d) = 6
  BY <1>1, WeekdayOfNextDay
<1>3. CASE Weekend(d + 1)
  BY <1>2, <1>3 DEF Weekend, BackToWeekday, Saturday, Sunday
<1>4. CASE ~Weekend(d + 1)
  BY <1>1, <1>4, LastWeekday
<1> QED
  BY <1>3, <1>4

-----------------------------------------------------------------------------
(* The end of a chart.                                                     *)

LEMMA AtFields == \A d, c : At(d, c).day = d /\ At(d, c).clock = c
  BY DEF At

LEMMA ClockRange ==
    /\ {Open, Close, 0} \subseteq Clocks
    /\ {Morning, Open, Close, Night} \subseteq Nat
    /\ 0 < Morning /\ Morning <= Open /\ Open < Close /\ Close < Night
  BY CalendarAssumption DEF Clocks

\* At every moment of every day the range of a chart ends at the last moment of
\* trading that is not in the future (HoldingController.java:108-135,
\* PortfolioSnapshotRepository.java:39-42).
THEOREM EffectiveEndTimeIsLast ==
    ASSUME NEW now \in Moments
    PROVE  /\ EffectiveEndTime(now) \in Moments
           /\ EffectiveEndTime(now).day >= now.day - 3
           /\ Leq(EffectiveEndTime(now), now)
           /\ Trading(EffectiveEndTime(now))
           /\ \A m \in Moments :
                Trading(m) /\ Leq(m, now) => Leq(m, EffectiveEndTime(now))
<1> DEFINE end == EffectiveEndTime(now)
<1>1. /\ now.day \in Int /\ now.clock \in Clocks
      /\ \A m \in Moments : m.day \in Int /\ m.clock \in Clocks
      /\ \A c \in Clocks : c \in Int
  BY CalendarAssumption DEF Moments, Clocks
<1>2. CASE Trading(now)
  <2>1. end = now
    BY <1>2 DEF EffectiveEndTime
  <2> QED
    BY <1>1, <1>2, <2>1 DEF Leq
<1>3. CASE ~Weekend(now.day) /\ now.clock > Close
  <2>1. ~Trading(now)
    BY <1>1, <1>3, ClockRange DEF Trading
  <2>2. end = At(now.day, Close)
    BY <1>3, <2>1 DEF EffectiveEndTime
  <2>3. end.day = now.day /\ end.clock = Close /\ end \in Moments
    BY <1>1, <2>2, ClockRange DEF At, Moments
  <2>4. ASSUME NEW m \in Moments, Trading(m), Leq(m, now)
        PROVE  Leq(m, end)
    BY <1>1, <2>3, <2>4, ClockRange DEF Trading, Leq
  <2>5. Trading(end) /\ Leq(end, now)
    BY <1>1, <1>3, <2>3, ClockRange DEF Trading, Leq
  <2> QED
    BY <1>1, <2>3, <2>4, <2>5
<1>4. CASE Weekend(now.day) \/ now.clock < Open
  <2>1. ~Trading(now) /\ ~(~Weekend(now.day) /\ now.clock > Close)
    BY <1>1, <1>4, ClockRange DEF Trading
  <2>2. end = At(BackToWeekday(now.day - 1), Close)
    BY <1>4, <2>1 DEF EffectiveEndTime
  <2>3. /\ end.day = BackToWeekday(now.day - 1) /\ end.clock = Close
    BY <2>2 DEF At
  <2>4. now.day - 1 \in Int
    BY <1>1
  <2>5. /\ end.day \in (now.day - 3)..(now.day - 1)
        /\ ~Weekend(end.day)
        /\ \A e \in Int : end.day < e /\ e <= now.day - 1 => Weekend(e)
    <3>1. (now.day - 1) - 2 = now.day - 3
      BY <1>1
    <3> QED
      BY <2>3, <2>4, <3>1, LastWeekday
  <2>6. end \in Moments
    <3>1. end.day \in Int
      BY <1>1, <2>5
    <3> QED
      BY <2>2, <2>3, <3>1, ClockRange DEF At, Moments
  <2>7. Trading(end) /\ Leq(end, now) /\ end.day >= now.day - 3
    BY <1>1, <2>3, <2>5, ClockRange DEF Trading, Leq
  <2>8. ASSUME NEW m \in Moments, Trading(m), Leq(m, now)
        PROVE  Leq(m, end)
    <3>1. m.day \in Int /\ m.clock \in Int /\ m.clock <= Close
          /\ m.clock >= Open /\ ~Weekend(m.day)
      BY <1>1, <2>8 DEF Trading
    <3>2. m.day <= now.day - 1
      BY <1>1, <1>4, <2>8, <3>1, ClockRange DEF Leq
    <3>3. m.day <= end.day
      BY <1>1, <2>5, <3>1, <3>2
    <3> QED
      BY <2>3, <2>5, <3>1, <3>3 DEF Leq
  <2> QED
    BY <2>6, <2>7, <2>8
<1>5. \/ Trading(now)
      \/ ~Weekend(now.day) /\ now.clock > Close
      \/ Weekend(now.day) \/ now.clock < Open
  BY <1>1, ClockRange DEF Trading
<1> HIDE DEF end
<1> QED
  BY <1>2, <1>3, <1>4, <1>5 DEF end
=============================================================================
