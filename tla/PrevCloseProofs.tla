--------------------------- MODULE PrevCloseProofs ---------------------------
(***************************************************************************)
(* Proofs about PrevClose, for any prices, days and moments of a day, and  *)
(* any number of crashes, outages and lost answers.                        *)
(***************************************************************************)
EXTENDS PrevClose, MarketCalendarProofs

HoldingType == [quote : QuoteType, prev : Prices \union {0}]

-----------------------------------------------------------------------------
(* What the inquiry makes of the broker's candidates.                      *)

LEMMA FirstCandidate ==
    ASSUME NEW v \in Int, NEW candidates \in Answers(v)
    PROVE  GetLongLongField(candidates) \in {0, v}
<1>1. CASE candidates = <<>>
  <2>1. \A i \in DOMAIN candidates : candidates[i] = {}
    BY <1>1
  <2> QED
    BY <2>1 DEF GetLongLongField
<1>2. ASSUME candidates # <<>>
      PROVE  /\ \A i \in DOMAIN candidates :
                  candidates[i] # {} => candidates[i] \in {{0}, {v}}
             /\ DOMAIN candidates \subseteq 1..2
             /\ \E i \in DOMAIN candidates :
                  candidates[i] # {} /\ \A j \in 1..(i - 1) : candidates[j] = {}
  <2>1. CASE candidates = <<{v}>>
    <3>1. DOMAIN candidates = 1..1 /\ candidates[1] = {v}
      BY <2>1
    <3> QED
      BY <3>1
  <2>2. CASE candidates = <<{}, {v}>>
    <3>1. DOMAIN candidates = 1..2 /\ candidates[1] = {} /\ candidates[2] = {v}
      BY <2>2
    <3> QED
      BY <3>1
  <2>3. CASE candidates = <<{0}, {v}>>
    <3>1. DOMAIN candidates = 1..2 /\ candidates[1] = {0} /\ candidates[2] = {v}
      BY <2>3
    <3> QED
      BY <3>1
  <2> QED
    BY <1>2, <2>1, <2>2, <2>3 DEF Answers
<1>3. CASE candidates # <<>>
  <2> DEFINE IsFirst(i) == candidates[i] # {} /\ \A j \in 1..(i - 1) : candidates[j] = {}
             first == CHOOSE i \in DOMAIN candidates : IsFirst(i)
  <2>1. first \in DOMAIN candidates /\ candidates[first] # {}
    <3>1. \E i \in DOMAIN candidates : IsFirst(i)
      BY <1>2, <1>3
    <3> HIDE DEF IsFirst
    <3>2. first \in DOMAIN candidates /\ IsFirst(first)
      BY <3>1
    <3> QED
      BY <3>2 DEF IsFirst
  <2>2. ~ \A i \in DOMAIN candidates : candidates[i] = {}
    BY <2>1
  <2>3. GetLongLongField(candidates) = CHOOSE w \in candidates[first] : TRUE
    BY <2>2 DEF GetLongLongField
  <2>4. candidates[first] \in {{0}, {v}}
    BY <1>2, <1>3, <2>1
  <2> HIDE DEF first
  <2>5. (CHOOSE w \in candidates[first] : TRUE) \in candidates[first]
    BY <2>4
  <2> QED
    BY <2>3, <2>4, <2>5
<1> QED
  BY <1>1, <1>3

\* The close itself, or what the fallback says.
LEMMA CloseOrFallback ==
    ASSUME TypeOK, NEW closes \in Answers(lastClose),
           NEW differences \in Answers(price - lastClose)
    PROVE  PrevClosePrice(closes, differences) \in {lastClose, Fallback}
<1>1. /\ lastClose \in Nat \ {0} /\ price \in Nat \ {0}
      /\ price - lastClose \in Int
  BY PriceAssumption DEF TypeOK
<1>2. /\ GetLongLongField(closes) \in {0, lastClose}
      /\ GetLongLongField(differences) \in {0, price - lastClose}
  BY <1>1, FirstCandidate
<1>3. GetLongLongField(closes) > 0 => PrevClosePrice(closes, differences) = lastClose
  BY <1>1, <1>2 DEF PrevClosePrice
<1>4. ~(GetLongLongField(closes) > 0) /\ GetLongLongField(differences) # 0
        => PrevClosePrice(closes, differences) = lastClose
  BY <1>1, <1>2 DEF PrevClosePrice
<1>5. ~(GetLongLongField(closes) > 0) /\ GetLongLongField(differences) = 0
        => PrevClosePrice(closes, differences) = Fallback
  BY <1>1, <1>2 DEF PrevClosePrice
<1> QED
  BY <1>3, <1>4, <1>5

LEMMA FallbackType == TypeOK => Fallback \in Prices \union {0}
  BY DEF TypeOK, Fallback, QuoteType

-----------------------------------------------------------------------------
(* Type correctness.                                                       *)

LEMMA QuoteTyped == TypeOK => /\ Quote \in QuoteType
                              /\ \A q \in QuoteType : Stale(q) \in QuoteType
  BY DEF TypeOK, Quote, QuoteType, Stale, InSession, Trading

LEMMA NoneTyped == None \in QuoteType /\ NoHolding \in HoldingType
  BY DEF None, NoHolding, QuoteType, HoldingType

LEMMA TypeInit == Init => TypeOK
<1> SUFFICES ASSUME Init PROVE TypeOK
  OBVIOUS
<1>1. now \in [day : FirstDay..LastDay, clock : Clocks]
  BY PriceAssumption, ClockRange DEF Init, At
<1> QED
  BY <1>1, NoneTyped, PriceAssumption DEF Init, TypeOK, CorePC, HoldingType

\* The clock stays within its days.
LEMMA TickTyped ==
    ASSUME TypeOK, Tick
    PROVE  /\ now' \in [day : FirstDay..LastDay, clock : Clocks]
           /\ \/ now' = At(now.day + 1, 0)
              \/ now' = At(now.day, now.clock + 1)
<1>1. /\ now.day \in FirstDay..LastDay /\ now.clock \in 0..(DayLength - 1)
      /\ now = At(now.day, now.clock)
      /\ DayLength \in Nat /\ FirstDay \in Int /\ LastDay \in Int
  BY CalendarAssumption, PriceAssumption DEF TypeOK, Clocks, At
<1>2. CASE now.clock = DayLength - 1
  <2>1. now' = At(now.day + 1, 0) /\ now.day # LastDay
    BY <1>1, <1>2 DEF Tick
  <2>2. now.day + 1 \in FirstDay..LastDay
    BY <1>1, <2>1
  <2> QED
    BY <2>1, <2>2, ClockRange DEF At
<1>3. CASE now.clock # DayLength - 1
  <2>1. now' = At(now.day, now.clock + 1)
    BY <1>3 DEF Tick
  <2>2. now.clock + 1 \in Clocks
    BY <1>1, <1>3 DEF Clocks
  <2> QED
    BY <1>1, <2>1, <2>2 DEF At
<1> QED
  BY <1>2, <1>3

LEMMA TypeStep == TypeOK /\ [Next]_vars => TypeOK'
<1> SUFFICES ASSUME TypeOK, [Next]_vars PROVE TypeOK'
  OBVIOUS
<1> USE DEF market, inquiry, caches, site
<1>1. CASE Tick
  <2>1. price' \in Prices /\ lastClose' \in Prices
    BY <1>1 DEF Tick, TypeOK
  <2>2. /\ item' \in HoldingType /\ published' \in HoldingType
        /\ {known', latest', newest', past'} \subseteq QuoteType
    <3>1. UNCHANGED <<item, published, known, latest, newest>>
          \/ /\ item' = [item EXCEPT !.quote = Stale(item.quote)]
             /\ published' = [published EXCEPT !.quote = Stale(published.quote)]
             /\ known' = Stale(known) /\ latest' = Stale(latest)
             /\ newest' = Stale(newest)
      BY <1>1 DEF Tick
    <3>2. past' \in {past, newest}
      BY <1>1 DEF Tick
    <3>3. \A h \in HoldingType : [h EXCEPT !.quote = Stale(h.quote)] \in HoldingType
      BY QuoteTyped DEF HoldingType
    <3> QED
      BY <3>1, <3>2, <3>3, QuoteTyped DEF TypeOK, HoldingType
  <2>3. UNCHANGED <<core, knownClose, web, faults>>
    BY <1>1 DEF Tick
  <2> QED
    BY <2>1, <2>2, <2>3, <1>1, TickTyped DEF TypeOK, HoldingType
<1>2. CASE ReadItem
  <2>1. PICK closes \in Answers(lastClose), differences \in Answers(price - lastClose) :
          LET prev == PrevClosePrice(closes, differences)
          IN  /\ item' = [quote |-> Quote, prev |-> prev]
              /\ knownClose' = IF prev > 0 THEN prev ELSE knownClose
    BY <1>2 DEF ReadItem
  <2>2. PrevClosePrice(closes, differences) \in Prices \union {0}
    BY CloseOrFallback, FallbackType DEF TypeOK
  <2>3. item' \in HoldingType /\ knownClose' \in Prices \union {0}
    BY <2>1, <2>2, QuoteTyped DEF HoldingType, TypeOK
  <2> QED
    BY <1>2, <2>3, QuoteTyped DEF ReadItem, TypeOK, HoldingType, CorePC
<1>3. CASE Restore
  <2>1. [item EXCEPT !.prev = past.price] \in HoldingType /\ past.price \in Prices \union {0}
    BY DEF TypeOK, HoldingType, QuoteType
  <2>2. item.quote \in QuoteType
    BY DEF TypeOK
  <2> QED
    BY <1>3, <2>1, <2>2, NoneTyped DEF Restore, Publish, TypeOK, HoldingType, CorePC
<1>4. CASE KeepItem
  BY <1>4, NoneTyped, PriceAssumption
     DEF KeepItem, Publish, Fault, TypeOK, HoldingType, CorePC
<1>5. CASE NoAnswer \/ Terminate \/ Start
  BY <1>5, NoneTyped, PriceAssumption
     DEF NoAnswer, Terminate, Start, Fault, TypeOK, HoldingType, CorePC
<1>6. CASE Receive \/ Save
  <2>1. /\ {latest', past', newest'} \subseteq {published.quote, latest, past, newest}
        /\ UNCHANGED <<market, inquiry, web, faults>>
    BY <1>6 DEF Receive, Save
  <2>2. published.quote \in QuoteType
    BY DEF TypeOK
  <2> QED
    BY <2>1, <2>2 DEF TypeOK
<1>7. CASE WebStops \/ WebStarts
  <2>1. faults' \in 0..MaxFaults
    BY <1>7, PriceAssumption DEF WebStops, WebStarts, Fault, TypeOK
  <2>2. latest' \in QuoteType /\ web' \in BOOLEAN
    BY <1>7, NoneTyped DEF WebStops, WebStarts, TypeOK
  <2>3. UNCHANGED <<market, inquiry, past, newest>>
    BY <1>7 DEF WebStops, WebStarts
  <2> QED
    BY <2>1, <2>2, <2>3 DEF TypeOK
<1>8. CASE UNCHANGED vars
  BY <1>8 DEF vars, TypeOK
<1> QED
  BY <1>1, <1>2, <1>3, <1>4, <1>5, <1>6, <1>7, <1>8 DEF Next, Refresh

\* The variables keep their types: no previous close is anything but a price of
\* the stock, or missing, whatever candidates the broker's item holds
\* (Account.cpp:649-721).
THEOREM TypeCorrect == Spec => []TypeOK
  BY TypeInit, TypeStep, PTL DEF Spec

-----------------------------------------------------------------------------
(* The chart.                                                              *)

\* At every moment the program can be in, a chart ends at the last moment of
\* trading, which is the one moment of its shortest range
\* (HoldingController.java:108-135).
THEOREM ChartsEndInSession == Spec => []ChartEndsInSession
<1>1. TypeOK => ChartEndsInSession
  <2> SUFFICES ASSUME TypeOK PROVE ChartEndsInSession
    OBVIOUS
  <2> DEFINE end == EffectiveEndTime(now)
  <2>1. now \in Moments /\ now.day \in Int
    BY PriceAssumption DEF TypeOK, Moments
  <2>2. /\ end \in Moments /\ end.day >= now.day - 3
        /\ Leq(end, now) /\ Trading(end)
        /\ \A m \in Moments : Trading(m) /\ Leq(m, now) => Leq(m, end)
    BY <2>1, EffectiveEndTimeIsLast
  <2> HIDE DEF end
  <2>3. \A m \in LastDays(now, 7) : m \in Moments /\ Leq(m, now)
    BY <2>1 DEF LastDays, Moments
  <2>4. end \in LastDays(now, 7)
    <3>1. end.day \in (now.day - 7)..now.day
      BY <2>1, <2>2 DEF Leq, Moments
    <3> QED
      BY <2>2, <3>1 DEF LastDays, Moments
  <2>5. \A m \in Moments : Leq(end, m) /\ Leq(m, end) => m = end
    <3>1. ASSUME NEW m \in Moments, Leq(end, m), Leq(m, end) PROVE m = end
      <4>1. /\ m = [day |-> m.day, clock |-> m.clock]
            /\ end = [day |-> end.day, clock |-> end.clock]
            /\ m.day \in Int /\ end.day \in Int
        BY <2>2 DEF Moments
      <4>2. m.clock \in Int /\ end.clock \in Int
        BY <2>2, CalendarAssumption DEF Moments, Clocks
      <4>3. m.day = end.day /\ m.clock = end.clock
        BY <3>1, <4>1, <4>2 DEF Leq
      <4> QED
        BY <4>1, <4>3
    <3> QED
      BY <3>1
  <2>6. Leq(end, end)
    BY <2>2, CalendarAssumption DEF Leq, Moments, Clocks
  <2>7. {m \in LastDays(now, 7) : Trading(m) /\ Leq(end, m) /\ Leq(m, end)} = {end}
    BY <2>2, <2>3, <2>4, <2>5, <2>6
  <2> QED
    BY <2>2, <2>3, <2>7 DEF ChartEndsInSession, Charted, end
<1> QED
  BY <1>1, TypeCorrect, PTL

-----------------------------------------------------------------------------
(* The previous close.                                                     *)

\* A quote that is a closing price is the price, and no session is on.
Closing(q) == q.fresh => q.price = price /\ ~InSession(now)

Quotes == {item.quote, published.quote, known, latest, newest}

\* Neither property is inductive: that the row before the reference time holds the
\* close needs that the newest row does when the reference time moves on, and
\* that in turn needs it of every quote on its way from the broker to the rows.
CloseInv ==
    /\ \A q \in Quotes : Closing(q)
    /\ past.fresh => past.price = lastClose
    /\ ~Weekend(now.day) /\ now.clock < Open => lastClose = price

IInv == TypeOK /\ CloseInv

LEMMA ClosingNone == Closing(None) /\ NoHolding.quote = None
  BY DEF Closing, None, NoHolding

LEMMA CloseInit == Init => CloseInv
<1> SUFFICES ASSUME Init PROVE CloseInv
  OBVIOUS
<1>1. \A q \in Quotes : q = None
  BY ClosingNone DEF Init, Quotes
<1>2. past = None /\ lastClose = price
  BY DEF Init
<1> QED
  BY <1>1, <1>2, ClosingNone DEF CloseInv, None

\* The clock ticks: what was a closing price is one still, or the next session
\* has opened and nothing is.
LEMMA TickClose == IInv /\ Tick => CloseInv'
<1> SUFFICES ASSUME IInv, Tick PROVE CloseInv'
  OBVIOUS
<1>1. /\ now.day \in Int /\ now.clock \in Clocks
      /\ now'.day \in Int /\ now'.clock \in Clocks /\ \A c \in Clocks : c \in Nat
      /\ \/ now'.day = now.day + 1 /\ now'.clock = 0
         \/ now'.day = now.day /\ now'.clock = now.clock + 1
  <2>1. /\ now \in [day : FirstDay..LastDay, clock : Clocks]
        /\ now' \in [day : FirstDay..LastDay, clock : Clocks]
    BY TickTyped DEF IInv, TypeOK
  <2>2. \A c \in Clocks : c \in Nat
    BY CalendarAssumption DEF Clocks
  <2> QED
    BY <2>1, <2>2, TickTyped, PriceAssumption DEF IInv, At
<1>2. ASSUME ~InSession(now), ~InSession(now')
      PROVE  price' = price
  <2>1. CASE Trading(now')
    <3>1. now'.clock = Close /\ ~Weekend(now'.day)
      BY <1>1, <1>2, <2>1, ClockRange DEF InSession, Trading
    <3>2. now'.day = now.day /\ now'.clock = now.clock + 1
      BY <1>1, <3>1, ClockRange
    <3>3. Open <= now.clock /\ now.clock < Close /\ ~Weekend(now.day)
      BY <1>1, <3>1, <3>2, ClockRange
    <3> QED
      BY <1>1, <1>2, <3>3, ClockRange DEF InSession, Trading
  <2>2. CASE ~Trading(now')
    BY <2>2 DEF Tick
  <2> QED
    BY <2>1, <2>2
<1>3. \A q \in Quotes' : Closing(q)'
  <2>1. CASE InSession(now') /\ ~InSession(now)
    <3>1. \A q \in QuoteType : Stale(q).fresh = FALSE
      BY DEF QuoteType, Stale
    <3>2. {item.quote, published.quote, known, latest, newest} \subseteq QuoteType
      BY DEF IInv, TypeOK
    <3>3. /\ item' = [item EXCEPT !.quote = Stale(item.quote)]
          /\ published' = [published EXCEPT !.quote = Stale(published.quote)]
          /\ known' = Stale(known) /\ latest' = Stale(latest) /\ newest' = Stale(newest)
      BY <2>1 DEF Tick
    <3>4. \A h \in HoldingType : [h EXCEPT !.quote = Stale(h.quote)].quote = Stale(h.quote)
      BY DEF HoldingType
    <3>5. item'.quote = Stale(item.quote) /\ published'.quote = Stale(published.quote)
      BY <3>3, <3>4 DEF IInv, TypeOK, HoldingType
    <3>6. \A q \in Quotes' : q.fresh = FALSE
      BY <3>1, <3>2, <3>3, <3>5 DEF Quotes
    <3> QED
      BY <3>6 DEF Closing
  <2>2. CASE ~(InSession(now') /\ ~InSession(now))
    <3>1. Quotes' = Quotes
      BY <2>2 DEF Tick, Quotes
    <3>2. ASSUME NEW q \in Quotes, q.fresh PROVE q.price = price' /\ ~InSession(now')
      <4>1. q.price = price /\ ~InSession(now)
        BY <3>2 DEF IInv, CloseInv, Closing
      <4> QED
        BY <1>2, <2>2, <4>1
    <3> QED
      BY <3>1, <3>2 DEF Closing
  <2> QED
    BY <2>1, <2>2
<1>4. (past.fresh => past.price = lastClose)'
  <2> DEFINE Moved == ResolvePrevCloseReferenceTime(now') # ResolvePrevCloseReferenceTime(now)
             Begins == now'.clock = 0 /\ ~Weekend(now'.day)
  <2>1. Moved <=> Begins
    <3>1. \A d \in Int : BackToWeekday(d) \in Int
      BY LastWeekday
    <3>2. Moved <=> BackToWeekday(now'.day) # BackToWeekday(now.day)
      BY DEF ResolvePrevCloseReferenceTime, At
    <3>3. CASE now'.day = now.day + 1 /\ now'.clock = 0
      BY <1>1, <3>2, <3>3, ReferenceDayMoves
    <3>4. CASE now'.day = now.day /\ now'.clock = now.clock + 1
      BY <1>1, <3>2, <3>4
    <3> QED
      BY <1>1, <3>3, <3>4
  <2>2. CASE Begins
    <3>1. past' = newest /\ lastClose' = price
      BY <2>1, <2>2 DEF Tick
    <3> QED
      BY <3>1 DEF IInv, CloseInv, Quotes, Closing
  <2>3. CASE ~Begins
    <3>1. past' = past /\ lastClose' = lastClose
      BY <2>1, <2>3 DEF Tick
    <3> QED
      BY <3>1 DEF IInv, CloseInv
  <2> QED
    BY <2>2, <2>3
<1>5. (~Weekend(now.day) /\ now.clock < Open => lastClose = price)'
  <2> SUFFICES ASSUME ~Weekend(now'.day), now'.clock < Open PROVE lastClose' = price'
    OBVIOUS
  <2>1. price' = price
    BY <1>1, ClockRange DEF Tick, Trading
  <2>2. CASE now'.clock = 0
    BY <2>1, <2>2 DEF Tick
  <2>3. CASE now'.clock # 0
    <3>1. now'.day = now.day /\ now.clock < Open
      BY <1>1, <2>3, ClockRange
    <3> QED
      BY <2>1, <2>3, <3>1 DEF Tick, IInv, CloseInv
  <2> QED
    BY <2>2, <2>3
<1> QED
  BY <1>3, <1>4, <1>5 DEF CloseInv

\* Every other step passes quotes on, asks for one, or stores one.
LEMMA OtherClose ==
    ASSUME IInv, UNCHANGED market,
           \A q \in Quotes' : q \in Quotes \/ q = None \/ q = Quote,
           past' = past \/ (past' = latest /\ Leq(now, ResolvePrevCloseReferenceTime(now)))
    PROVE  CloseInv'
<1>1. Closing(Quote)
  BY DEF Closing, Quote
<1>2. \A q \in Quotes' : Closing(q)'
  BY <1>1, ClosingNone DEF IInv, CloseInv, Closing, market
<1>3. ASSUME Leq(now, ResolvePrevCloseReferenceTime(now)), latest.fresh
      PROVE  latest.price = lastClose
  <2>1. /\ now.day \in Int /\ now.clock \in Nat
    BY CalendarAssumption, PriceAssumption DEF IInv, TypeOK, Clocks
  <2>2. now.day <= BackToWeekday(now.day)
    <3>1. BackToWeekday(now.day) \in Int
      BY <2>1, LastWeekday
    <3> QED
      BY <1>3, <2>1, <3>1 DEF ResolvePrevCloseReferenceTime, At, Leq
  <2>3. now.day = BackToWeekday(now.day) /\ ~Weekend(now.day)
    BY <2>1, <2>2, LastWeekday
  <2>4. now.clock = 0
    BY <1>3, <2>1, <2>3 DEF ResolvePrevCloseReferenceTime, At, Leq
  <2>5. lastClose = price
    BY <2>3, <2>4, ClockRange DEF IInv, CloseInv
  <2> QED
    BY <1>3, <2>5 DEF IInv, CloseInv, Quotes, Closing
<1>4. (past.fresh => past.price = lastClose)'
  BY <1>3 DEF IInv, CloseInv, market
<1> QED
  BY <1>2, <1>4 DEF IInv, CloseInv, market

LEMMA CloseStep == IInv /\ [Next]_vars => CloseInv'
<1> SUFFICES ASSUME IInv, [Next]_vars PROVE CloseInv'
  OBVIOUS
<1>1. CASE Tick
  BY <1>1, TickClose
<1>2. CASE ReadItem
  <2>1. item'.quote = Quote /\ known' = Quote
        /\ UNCHANGED <<published, market, latest, newest, past>>
    BY <1>2 DEF ReadItem, site
  <2>2. \A q \in Quotes' : q \in Quotes \/ q = Quote
    BY <2>1 DEF Quotes
  <2>3. UNCHANGED market
    BY <2>1
  <2> QED
    BY <2>1, <2>2, <2>3, OtherClose
<1>3. CASE Restore
  <2>1. \A h \in HoldingType : \A v : [h EXCEPT !.prev = v].quote = h.quote
    BY DEF HoldingType
  <2>2. /\ published'.quote = item.quote /\ known' = item.quote /\ item' = NoHolding
        /\ UNCHANGED <<market, latest, newest, past>>
    BY <1>3, <2>1 DEF Restore, Publish, site, IInv, TypeOK, HoldingType
  <2>3. \A q \in Quotes' : q \in Quotes \/ q = None
    BY <2>2, ClosingNone DEF Quotes
  <2>4. UNCHANGED market
    BY <2>2
  <2> QED
    BY <2>2, <2>3, <2>4, OtherClose
<1>4. CASE KeepItem
  <2>1. /\ published' = item /\ item' = NoHolding
        /\ UNCHANGED <<known, market, latest, newest, past>>
    BY <1>4 DEF KeepItem, Publish, site, caches
  <2>2. \A q \in Quotes' : q \in Quotes \/ q = None
    BY <2>1, ClosingNone DEF Quotes
  <2>3. UNCHANGED market
    BY <2>1
  <2> QED
    BY <2>1, <2>2, <2>3, OtherClose
<1>5. CASE NoAnswer \/ Terminate \/ Start
  <2>1. /\ item' \in {item, NoHolding} /\ published' \in {published, NoHolding}
        /\ known' \in {known, None}
        /\ UNCHANGED <<market, latest, newest, past>>
    BY <1>5 DEF NoAnswer, Terminate, Start, site, caches
  <2>2. \A q \in Quotes' : q \in Quotes \/ q = None
    BY <2>1, ClosingNone DEF Quotes
  <2>3. UNCHANGED market
    BY <2>1
  <2> QED
    BY <2>1, <2>2, <2>3, OtherClose
<1>6. CASE Receive \/ Save
  <2>1. /\ UNCHANGED <<item, published, known, market>>
        /\ latest' \in {latest, published.quote} /\ newest' \in {newest, latest}
        /\ past' = past \/ (past' = latest /\ Leq(now, ResolvePrevCloseReferenceTime(now)))
    BY <1>6 DEF Receive, Save, inquiry, caches
  <2>2. \A q \in Quotes' : q \in Quotes \/ q = Quote
    BY <2>1 DEF Quotes
  <2>3. UNCHANGED market
    BY <2>1
  <2> QED
    BY <2>1, <2>2, <2>3, OtherClose
<1>7. CASE WebStops \/ WebStarts
  <2>1. /\ UNCHANGED <<item, published, known, market, past, newest>>
        /\ latest' \in {latest, None}
    BY <1>7 DEF WebStops, WebStarts, inquiry, caches
  <2>2. \A q \in Quotes' : q \in Quotes \/ q = None
    BY <2>1 DEF Quotes
  <2>3. UNCHANGED market
    BY <2>1
  <2> QED
    BY <2>1, <2>2, <2>3, OtherClose
<1>8. CASE UNCHANGED vars
  <2>1. UNCHANGED market /\ Quotes' = Quotes /\ past' = past
    BY <1>8 DEF vars, inquiry, caches, site, Quotes
  <2> QED
    BY <2>1, OtherClose
<1> QED
  BY <1>1, <1>2, <1>3, <1>4, <1>5, <1>6, <1>7, <1>8 DEF Next, Refresh

LEMMA IInvHolds == Spec => []IInv
<1>1. Init => IInv
  BY TypeInit, CloseInit DEF IInv
<1>2. IInv /\ [Next]_vars => IInv'
  BY TypeStep, CloseStep DEF IInv
<1> QED
  BY <1>1, <1>2, PTL DEF Spec

\* Whatever the broker and the caches say, a holding is published with the right
\* close when the web server answers and has a row of the closing price
\* (Account.cpp:756-796, HoldingStreamService.java:106-150).
THEOREM CloseIsRestored == Spec => RestoredClose
<1> DEFINE Right == Publishes /\ faults' = faults /\ web /\ past.fresh
                      => published'.prev = lastClose
<1>1. IInv /\ [Next]_vars => [Right]_vars
  <2> SUFFICES ASSUME IInv, Next, Publishes, faults' = faults, web, past.fresh
               PROVE  published'.prev = lastClose
    OBVIOUS
  <2>1. past.price = lastClose /\ lastClose \in Nat /\ lastClose > 0 /\ faults \in Int
    BY PriceAssumption DEF IInv, CloseInv, TypeOK
  <2>2. core = "merge" /\ core' = "idle"
    BY DEF Publishes
  <2>3. ~KeepItem /\ ~NoAnswer /\ ~Terminate
    BY <2>1, <2>2 DEF KeepItem, NoAnswer, Terminate, Fault
  <2>4. ~ReadItem /\ ~Start
    BY <2>2 DEF ReadItem, Start
  <2>5. ~Tick /\ ~Receive /\ ~Save /\ ~WebStops /\ ~WebStarts
    BY <2>2 DEF Tick, Receive, Save, WebStops, WebStarts, inquiry
  <2>6. Restore
    BY <2>3, <2>4, <2>5 DEF Next, Refresh
  <2> QED
    BY <2>1, <2>6 DEF Restore, Publish, IInv, TypeOK
<1>2. []IInv /\ [][Next]_vars => [][Right]_vars
  BY <1>1, PTL
<1> QED
  BY <1>2, IInvHolds, PTL DEF Spec, RestoredClose

-----------------------------------------------------------------------------
(* The cached previous close.                                              *)

\* The item on its way carries the cached previous close, which is missing as long
\* as no price of the stock is known.
CacheInv ==
    /\ core = "merge" => item.prev = knownClose /\ item.quote.price > 0
    /\ known.price = 0 => knownClose = 0

LEMMA CacheInit == Init => CacheInv
  BY DEF Init, CacheInv

LEMMA CacheStep == TypeOK /\ CacheInv /\ [Next]_vars => CacheInv'
<1> SUFFICES ASSUME TypeOK, CacheInv, [Next]_vars PROVE CacheInv'
  OBVIOUS
<1> USE DEF CacheInv
<1>1. CASE Tick
  <2>1. \A q : Stale(q).price = q.price \/ q \notin QuoteType
    BY DEF Stale, QuoteType
  <2>2. \A h \in HoldingType : /\ [h EXCEPT !.quote = Stale(h.quote)].quote = Stale(h.quote)
                              /\ [h EXCEPT !.quote = Stale(h.quote)].prev = h.prev
    BY DEF HoldingType
  <2>3. item \in HoldingType /\ item.quote \in QuoteType /\ known \in QuoteType
    BY DEF TypeOK, HoldingType
  <2>4. /\ item'.prev = item.prev /\ item'.quote.price = item.quote.price
        /\ known'.price = known.price
    <3>1. CASE InSession(now') /\ ~InSession(now)
      <4>1. item' = [item EXCEPT !.quote = Stale(item.quote)] /\ known' = Stale(known)
        BY <1>1, <3>1 DEF Tick
      <4> QED
        BY <2>1, <2>2, <2>3, <4>1
    <3>2. CASE ~(InSession(now') /\ ~InSession(now))
      BY <1>1, <3>2 DEF Tick
    <3> QED
      BY <3>1, <3>2
  <2> QED
    BY <1>1, <2>4 DEF Tick
<1>2. CASE ReadItem
  <2>1. PICK closes \in Answers(lastClose), differences \in Answers(price - lastClose) :
          LET prev == PrevClosePrice(closes, differences)
          IN  /\ item' = [quote |-> Quote, prev |-> prev]
              /\ knownClose' = IF prev > 0 THEN prev ELSE knownClose
    BY <1>2 DEF ReadItem
  <2>2. PICK prev : /\ prev = PrevClosePrice(closes, differences)
                    /\ prev \in {lastClose, Fallback}
    BY CloseOrFallback
  <2>3. /\ item' = [quote |-> Quote, prev |-> prev]
        /\ knownClose' = IF prev > 0 THEN prev ELSE knownClose
    BY <2>1, <2>2
  <2>4. known' = Quote /\ Quote.price > 0
    BY <1>2, PriceAssumption DEF ReadItem, Quote, TypeOK
  <2>5. knownClose \in Nat /\ known.price \in Nat /\ lastClose \in Nat /\ lastClose > 0
    <3>1. known.price \in Prices \union {0} /\ knownClose \in Prices \union {0}
      BY DEF TypeOK, QuoteType
    <3>2. lastClose \in Prices /\ \A p \in Prices : p \in Nat /\ p > 0
      BY PriceAssumption DEF TypeOK
    <3> QED
      BY <3>1, <3>2
  <2>6. CASE prev = lastClose
    BY <2>3, <2>4, <2>5, <2>6
  <2>7. CASE prev = Fallback
    <3>1. Fallback \in {knownClose, known.price}
      BY DEF Fallback
    <3> QED
      BY <2>3, <2>4, <2>5, <2>7, <3>1
  <2> QED
    BY <2>2, <2>6, <2>7
<1>3. CASE Restore
  BY <1>3 DEF Restore, Publish
<1>4. CASE KeepItem
  BY <1>4 DEF KeepItem, Publish, caches
<1>5. CASE NoAnswer \/ Terminate \/ Start
  BY <1>5 DEF NoAnswer, Terminate, Start, caches
<1>6. CASE Receive \/ Save
  BY <1>6 DEF Receive, Save, inquiry, caches
<1>7. CASE WebStops \/ WebStarts
  BY <1>7 DEF WebStops, WebStarts, inquiry, caches
<1>8. CASE UNCHANGED vars
  BY <1>8 DEF vars, inquiry, caches
<1> QED
  BY <1>1, <1>2, <1>3, <1>4, <1>5, <1>6, <1>7, <1>8 DEF Next, Refresh

\* What is published is what is cached, and a cached close that is right is lost
\* only with the process, when the day moves on, to the last price of a session
\* that has begun, or to a stale row (Account.cpp:649-721, 759-796).
THEOREM RightCloseKept == Spec => CloseStaysRight
<1> DEFINE Kept ==
         /\ Publishes => published'.prev = knownClose'
         /\ knownClose = lastClose /\ knownClose' # lastClose'
              => \/ core' = "down" \/ lastClose' # lastClose
                 \/ TakesLastPrice \/ TakesStaleRow
<1>1. ASSUME IInv, CacheInv, [Next]_vars PROVE [Kept]_vars
  <2> SUFFICES ASSUME Next PROVE Kept
    BY <1>1
  <2>1. Publishes => published'.prev = knownClose'
    <3> SUFFICES ASSUME Publishes PROVE published'.prev = knownClose'
      OBVIOUS
    <3>1. ~ReadItem /\ ~NoAnswer /\ ~Terminate /\ ~Start /\ ~Tick
      BY DEF Publishes, ReadItem, NoAnswer, Terminate, Start, Tick
    <3>2. ~Receive /\ ~Save /\ ~WebStops /\ ~WebStarts
      BY DEF Publishes, Receive, Save, WebStops, WebStarts, inquiry
    <3>3. CASE Restore
      BY <1>1, <3>3 DEF Restore, Publish, IInv, TypeOK
    <3>4. CASE KeepItem
      BY <1>1, <3>4 DEF KeepItem, Publish, caches, CacheInv
    <3> QED
      BY <3>1, <3>2, <3>3, <3>4 DEF Next, Refresh
  <2>2. ASSUME knownClose = lastClose, knownClose' # lastClose',
               core' # "down", lastClose' = lastClose
        PROVE  TakesLastPrice \/ TakesStaleRow
    <3>1. knownClose' # knownClose
      BY <2>2
    <3>2. ~Tick /\ ~KeepItem /\ ~NoAnswer /\ ~Terminate /\ ~Start
      BY <2>2, <3>1 DEF Tick, KeepItem, NoAnswer, Terminate, Start, caches
    <3>3. ~Receive /\ ~Save /\ ~WebStops /\ ~WebStarts
      BY <3>1 DEF Receive, Save, WebStops, WebStarts, inquiry, caches
    <3>4. CASE Restore
      <4>1. core = "merge" /\ core' = "idle" /\ web /\ past.price > 0
            /\ knownClose' = past.price
        BY <3>4 DEF Restore, Publish
      <4>2. ~past.fresh
        BY <1>1, <2>2, <4>1 DEF IInv, CloseInv
      <4> QED
        BY <4>1, <4>2 DEF TakesStaleRow, Publishes
    <3>5. CASE ReadItem
      <4>1. PICK closes \in Answers(lastClose), differences \in Answers(price - lastClose) :
              LET prev == PrevClosePrice(closes, differences)
              IN  /\ item' = [quote |-> Quote, prev |-> prev]
                  /\ knownClose' = IF prev > 0 THEN prev ELSE knownClose
        BY <3>5 DEF ReadItem
      <4>2. PICK prev : /\ prev = PrevClosePrice(closes, differences)
                        /\ prev \in {lastClose, Fallback}
        BY <1>1, CloseOrFallback DEF IInv
      <4>3. item'.prev = prev /\ (knownClose' = prev \/ knownClose' = knownClose)
        BY <4>1, <4>2
      <4>4. prev = Fallback /\ prev # knownClose
        BY <2>2, <3>1, <4>2, <4>3
      <4>5. ~Weekend(now.day) /\ item'.prev = known.price
        BY <4>3, <4>4 DEF Weekend, Fallback
      <4>6. now.clock < Open /\ known.fresh => known.price = lastClose
        BY <1>1, <4>5 DEF IInv, CloseInv, Quotes, Closing
      <4>7. now.clock >= Open \/ ~known.fresh
        <5>1. now.clock \in Nat /\ Open \in Nat
          BY <1>1, CalendarAssumption DEF IInv, TypeOK, Clocks
        <5> QED
          BY <2>2, <4>3, <4>4, <4>5, <4>6, <5>1
      <4>8. core # "merge" /\ core' = "merge"
        BY <3>5 DEF ReadItem
      <4> QED
        BY <4>5, <4>7, <4>8 DEF TakesLastPrice
    <3> QED
      BY <3>2, <3>3, <3>4, <3>5 DEF Next, Refresh
  <2> QED
    BY <2>1, <2>2
<1>2. TypeOK /\ CacheInv /\ [Next]_vars => CacheInv'
  BY CacheStep
<1>3. IInv => TypeOK
  BY DEF IInv
<1>4. IInv /\ CacheInv /\ [Next]_vars => [Kept]_vars
  BY <1>1
<1>5. []IInv /\ []CacheInv /\ [][Next]_vars => [][Kept]_vars
  BY <1>4, PTL
<1>6. Spec => []CacheInv
  BY <1>2, <1>3, CacheInit, IInvHolds, PTL DEF Spec
<1> QED
  BY <1>5, <1>6, IInvHolds, PTL DEF Spec, CloseStaysRight
=============================================================================
