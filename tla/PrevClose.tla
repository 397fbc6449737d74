------------------------------ MODULE PrevClose ------------------------------
(***************************************************************************)
(* The previous close of a stock: how RefreshCurrentHoldings of            *)
(* Trade/Account.cpp finds it, from the broker, from its two caches or     *)
(* from the rows the web server has stored of what TradingCore sent it.    *)
(*                                                                         *)
(* One stock: the caches and the query go by code, and what they hold of   *)
(* one code depends on no other.  A price is 0 where there is none.  Of    *)
(* the stored rows only two can be asked for, the last one not after the   *)
(* reference time and the last one: see Save and Tick.                     *)
(*                                                                         *)
(* A quote is a price with a history bit: fresh, it was asked of the       *)
(* broker after the last session had closed, so it is a closing price.     *)
(***************************************************************************)
EXTENDS MarketCalendar, Sequences

CONSTANTS
    Prices,             \* the prices of the stock
    FirstDay, LastDay,  \* the days of the clock
    MaxFaults           \* bound on crashes, outages and lost answers

ASSUME PriceAssumption ==
    /\ Prices \subseteq Nat \ {0}
    /\ Prices # {}
    /\ FirstDay \in Int /\ LastDay \in Int /\ FirstDay <= LastDay
    /\ MaxFaults \in Nat

VARIABLES
    now,       \* the clock of the host of both programs
    price,     \* the broker's price of the stock
    lastClose, \* history: the close of the session before the reference day
    core,      \* where TradingCore's inquiry is
    item,      \* the holding it has read and not published yet
    published, \* the holding in Account::holdings
    known,     \* lastKnownPriceByCode
    knownClose,\* lastKnownPrevCloseByCode
    web,       \* the web server runs
    latest,    \* the quote in its latest map
    past,      \* the last row that is not after the reference time
    newest,    \* the last row
    faults

caches == <<known, knownClose>>
inquiry == <<core, item, published, caches>>
site == <<web, latest, past, newest>>
market == <<now, price, lastClose>>
vars == <<market, inquiry, site, faults>>

None == [price |-> 0, fresh |-> FALSE]
NoHolding == [quote |-> None, prev |-> 0]

CorePC == {"down", "boot", "idle", "merge"}

\* A session is on: the price may still change before it closes.
InSession(m) == Trading(m) /\ m.clock < Close

Quote == [price |-> price, fresh |-> ~InSession(now)]

\* GetLongLongField: the first candidate that parses, 0 if none does.  A
\* candidate is the set of what it says: its number, or nothing where the field
\* is absent or does not parse.
GetLongLongField(candidates) ==
    IF \A i \in DOMAIN candidates : candidates[i] = {} THEN 0
    ELSE LET first == CHOOSE i \in DOMAIN candidates :
                        candidates[i] # {} /\ \A j \in 1..(i - 1) : candidates[j] = {}
         IN  CHOOSE v \in candidates[first] : TRUE

\* What the broker may say of the number v: nothing, the number, the number in
\* the second field it could be in, or 0 in the first one.
Answers(v) == {<<>>, <<{v}>>, <<{}, {v}>>, <<{0}, {v}>>}

-----------------------------------------------------------------------------
Init ==
    /\ now = At(FirstDay, 0)
    /\ price \in Prices
    /\ lastClose = price
    /\ core = "boot"
    /\ item = NoHolding
    /\ published = NoHolding
    /\ known = None
    /\ knownClose = 0
    /\ web = TRUE
    /\ latest = None
    /\ past = None
    /\ newest = None
    /\ faults = 0

Fault == faults < MaxFaults /\ faults' = faults + 1

-----------------------------------------------------------------------------
(* The host's clock and the market.                                        *)

Stale(quote) == [quote EXCEPT !.fresh = FALSE]

\* When a session opens, the quotes at hand are no closing prices any more.
\* When the reference time moves on, the newest row is the last one before it.
Tick ==
    /\ now # At(LastDay, DayLength - 1)
    /\ now' = IF now.clock = DayLength - 1 THEN At(now.day + 1, 0)
                                           ELSE At(now.day, now.clock + 1)
    /\ price' \in IF Trading(now') THEN Prices ELSE {price}
    /\ lastClose' = IF now'.clock = 0 /\ ~Weekend(now'.day) THEN price ELSE lastClose
    /\ past' = IF ResolvePrevCloseReferenceTime(now') # ResolvePrevCloseReferenceTime(now)
               THEN newest ELSE past
    /\ IF InSession(now') /\ ~InSession(now)
       THEN /\ item' = [item EXCEPT !.quote = Stale(@)]
            /\ published' = [published EXCEPT !.quote = Stale(@)]
            /\ known' = Stale(known)
            /\ latest' = Stale(latest)
            /\ newest' = Stale(newest)
       ELSE UNCHANGED <<item, published, known, latest, newest>>
    /\ UNCHANGED <<core, knownClose, web, faults>>

-----------------------------------------------------------------------------
(* RefreshCurrentHoldings.                                                 *)

\* Mutant: tm_wday taken to begin with Monday.
FallbackFromMonday ==
    IF Weekday(now.day - 1) \in {Sunday, Saturday} THEN knownClose ELSE known.price

\* The fallback by weekday, when the broker says neither the close nor a
\* difference: at weekends the last previous close, else the last price.
Fallback ==
    IF Weekday(now.day) \in {Sunday, Saturday} THEN knownClose ELSE known.price

\* Mutant: the difference taken the wrong way round.
PrevClosePriceAdded(closes, differences) ==
    LET direct == GetLongLongField(closes)
        difference == GetLongLongField(differences)
    IN  IF direct > 0 THEN direct
        ELSE IF price # 0 /\ difference # 0 THEN price + difference
        ELSE Fallback

\* The previous close of an item with these candidates for the close itself and
\* for the difference to it.  A value of 0 counts as not given.
PrevClosePrice(closes, differences) ==
    LET direct == GetLongLongField(closes)
        difference == GetLongLongField(differences)
    IN  IF direct > 0 THEN direct
        ELSE IF price # 0 /\ difference # 0 THEN price - difference
        ELSE Fallback

\* The inquiry of main, at any hour, and those of the poller: the item is read
\* and the caches follow it.
ReadItem ==
    /\ \/ core = "boot"
       \/ core = "idle" /\ ~OffHours(now)
    /\ core' = "merge"
    /\ \E closes \in Answers(lastClose), differences \in Answers(price - lastClose) :
         LET prev == PrevClosePrice(closes, differences)
         IN  /\ item' = [quote |-> Quote, prev |-> prev]
             /\ knownClose' = IF prev > 0 THEN prev ELSE knownClose
    /\ known' = Quote
    /\ UNCHANGED <<published, market, site, faults>>

\* The broker does not answer: an empty map is published.
NoAnswer ==
    /\ core \in {"boot", "idle"}
    /\ core = "idle" => ~OffHours(now)
    /\ Fault
    /\ core' = "idle"
    /\ published' = NoHolding
    /\ UNCHANGED <<item, caches, market, site>>

Publish(holding) ==
    /\ core' = "idle"
    /\ published' = holding
    /\ item' = NoHolding

\* Mutant: only a close that is still missing is filled in.
RestoreMissing ==
    /\ core = "merge" /\ web /\ past.price > 0
    /\ LET prev == IF item.prev > 0 THEN item.prev ELSE past.price
       IN  Publish([item EXCEPT !.prev = prev]) /\ knownClose' = prev
    /\ known' = item.quote
    /\ UNCHANGED <<market, site, faults>>

\* The web server answers with the price of the last row not after the
\* reference time, which replaces whatever the item had.
Restore ==
    /\ core = "merge" /\ web /\ past.price > 0
    /\ Publish([item EXCEPT !.prev = past.price])
    /\ knownClose' = past.price
    /\ known' = item.quote
    /\ UNCHANGED <<market, site, faults>>

\* It has no such row, does not run, or does not answer in time.
KeepItem ==
    /\ core = "merge"
    /\ web /\ past.price > 0 => Fault
    /\ ~(web /\ past.price > 0) => UNCHANGED faults
    /\ Publish(item)
    /\ UNCHANGED <<caches, market, site>>

\* TradingCore ends, and starts again with empty caches.
Terminate ==
    /\ core # "down"
    /\ Fault
    /\ core' = "down"
    /\ item' = NoHolding /\ published' = NoHolding
    /\ known' = None /\ knownClose' = 0
    /\ UNCHANGED <<market, site>>

Start ==
    /\ core = "down"
    /\ core' = "boot"
    /\ UNCHANGED <<item, published, caches, market, site, faults>>

Refresh == ReadItem \/ Restore \/ KeepItem

-----------------------------------------------------------------------------
(* The web server.                                                         *)

\* The server of TradingCore, which starts after the first inquiry, sends.
Streaming == web /\ core \in {"idle", "merge"}

\* A line of the stock is read.
Receive ==
    /\ Streaming /\ published.quote.price > 0
    /\ latest' = published.quote
    /\ UNCHANGED <<market, inquiry, web, past, newest, faults>>

\* A line of any stock makes SaveSnapshotIfNeeded store a row of each.
Save ==
    /\ Streaming /\ latest.price > 0
    /\ newest' = latest
    /\ past' = IF Leq(now, ResolvePrevCloseReferenceTime(now)) THEN latest ELSE past
    /\ UNCHANGED <<market, inquiry, web, latest, faults>>

\* The web server ends, and starts again; the rows are in the database.
WebStops ==
    /\ web
    /\ Fault
    /\ web' = FALSE
    /\ latest' = None
    /\ UNCHANGED <<market, inquiry, past, newest>>

WebStarts ==
    /\ ~web
    /\ web' = TRUE
    /\ UNCHANGED <<market, inquiry, latest, past, newest, faults>>

-----------------------------------------------------------------------------
Next ==
    \/ Tick
    \/ Refresh \/ NoAnswer \/ Terminate \/ Start
    \/ Receive \/ Save \/ WebStops \/ WebStarts

Spec == Init /\ [][Next]_vars

\* TradingCore's poller goes on, which is to say that each call it makes ends.
FairSpec == Spec /\ WF_vars(Refresh)

-----------------------------------------------------------------------------
(* Properties.                                                             *)

QuoteType == [price : Prices \union {0}, fresh : BOOLEAN]

TypeOK ==
    /\ now \in [day : FirstDay..LastDay, clock : Clocks]
    /\ price \in Prices
    /\ lastClose \in Prices
    /\ core \in CorePC
    /\ item \in [quote : QuoteType, prev : Prices \union {0}]
    /\ published \in [quote : QuoteType, prev : Prices \union {0}]
    /\ known \in QuoteType
    /\ knownClose \in Prices \union {0}
    /\ web \in BOOLEAN
    /\ {latest, past, newest} \subseteq QuoteType
    /\ faults \in 0..MaxFaults

Publishes == core = "merge" /\ core' = "idle"

\* A holding is published with the close of the session before the reference
\* day whenever the web server answers and stored a row of the closing price
\* before that day began, whatever the broker and the caches say, and however
\* often either program was restarted (Account.cpp:756-796).
RestoredClose == [][Publishes /\ faults' = faults /\ web /\ past.fresh
                      => published'.prev = lastClose]_vars

\* The weekday fallback takes the last price, which is the close of the day before
\* only until a session begins, and only if it was asked for after the last one.
\* The comment names Tuesday to Thursday for neither cache, and the cached previous
\* close for Friday, where the code takes the last price (Account.cpp:672-674,
\* 691-703).
TakesLastPrice ==
    /\ core # "merge" /\ core' = "merge"
    /\ ~Weekend(now.day)
    /\ now.clock >= Open \/ ~known.fresh
    /\ item'.prev = known.price

\* What the web server says replaces the item's value, also with the price of a row
\* that was stored before the last session closed.
TakesStaleRow == Publishes /\ web /\ past.price > 0 /\ ~past.fresh

\* What is published is what is cached, and once the cached previous close is right
\* it stays right, at weekends, nights and mornings without an answer from anybody.
\* It is lost only with the process, when the day moves on, by the fallback of a
\* weekday taking the last price of a session that has begun, or by a stale row
\* (Account.cpp:649-721, 759-796).
CloseStaysRight ==
    [][/\ Publishes => published'.prev = knownClose'
       /\ knownClose = lastClose /\ knownClose' # lastClose'
            => \/ core' = "down" \/ lastClose' # lastClose
               \/ TakesLastPrice \/ TakesStaleRow]_vars

\* Once both programs run, and a row of the closing price is there, every
\* holding comes to be published with the right previous close, also after
\* a restart with empty caches (Account.cpp:756-757).
CloseComesBack ==
    <>[](web /\ core # "down" /\ past.fresh)
        => <>[](OffHours(now) \/ published.prev = lastClose)

\* The range of a chart ends at the last trading moment, not before it and not
\* in the dead time after it, where a short range would be empty
\* (HoldingController.java:100-135, PortfolioSnapshotRepository.java:33-46).
ChartEndsInSession ==
    LET end == EffectiveEndTime(now)
    IN  /\ Charted(end, now) = {end}
        /\ \A m \in LastDays(now, 7) : Trading(m) => Leq(m, end)
=============================================================================
