---------------------------- MODULE HoldingStream ----------------------------
(***************************************************************************)
(* From TradingCore's snapshots to the browsers: ClientLoop of             *)
(* InterServer/StreamingServer.cpp writes lines to a TCP connection,       *)
(* ConnectLoop of HoldingStreamService reads them, keeps the last values   *)
(* and passes them on as server-sent events, and SnapshotService stores    *)
(* them.                                                                   *)
(*                                                                         *)
(* A holding is its value, 0 where the stock is not held.  A trade is its  *)
(* identity: date, number and stock code.  The account number, constant    *)
(* in a process, is left out of the keys.                                  *)
(***************************************************************************)
EXTENDS Integers, Sequences, FiniteSets

CONSTANTS
    MaxCode,     \* stock codes are 1..MaxCode, in the order of std::map
    MaxValue,    \* values of a holding are 1..MaxValue
    Trades,      \* identities of trades
    Subscribers, \* slots for browsers
    MaxUnread,   \* a round is copied only while no more lines are unread
    MaxReports,  \* bound on the changes the broker reports
    MaxFaults    \* bound on what goes wrong

ASSUME StreamAssumption ==
    /\ MaxCode \in Nat \ {0}
    /\ MaxValue \in Nat \ {0}
    /\ {MaxUnread, MaxReports, MaxFaults} \subseteq Nat

Codes    == 1..MaxCode
Holdings == [Codes -> 0..MaxValue]
NoStock  == [c \in Codes |-> 0]

VARIABLES
    held,         \* TradingCore: the holdings snapshot
    traded,       \* TradingCore: the trade history
    reports,      \* changes of the two so far
    link,         \* the connection is up
    stage,        \* which snapshot ClientLoop copies next
    stream,       \* lines copied by ClientLoop and not read yet
    reader,       \* where ConnectLoop is
    running,      \* the flag of HoldingStreamService
    line,         \* the line it handles
    latest,       \* the last holding of each code
    latestTrades, \* the trades read so far
    browser,      \* the browser of each slot and its emitter
    pending,      \* emitters the broadcast has not come to
    received,     \* trades each browser has received
    shown,        \* the holdings each browser shows
    gate,         \* age of lastSnapshotTime: "never" (null), "recent", "due"
    stored,       \* the snapshot with the greatest time in the database
    faults        \* faults so far

core     == <<held, traded, reports>>
channel  == <<link, stage, stream>>
service  == <<reader, running, line>>
caches   == <<latest, latestTrades>>
emitters == <<browser, pending>>
screens  == <<received, shown>>
database == <<gate, stored>>
around   == <<core, screens, database, faults>>
vars == <<core, channel, service, caches, emitters, screens, database, faults>>

HoldingLine(c, v) == [type |-> "holding", code |-> c, value |-> v]
TradeLine(t)      == [type |-> "trade", trade |-> t]
NoLine            == [type |-> "none"]
BrokenLine        == [type |-> "broken"]

Lines == {HoldingLine(c, v) : c \in Codes, v \in 1..MaxValue}
            \cup {TradeLine(t) : t \in Trades} \cup {BrokenLine}

\* The order of std::map.
Ascending(S) ==
    {q \in [1..Cardinality(S) -> S] : \A i, j \in DOMAIN q : i < j => q[i] < q[j]}

\* What ClientLoop writes in a round.
HoldingLines ==
    {[i \in DOMAIN q |-> HoldingLine(q[i], held[q[i]])] :
        q \in Ascending({c \in Codes : held[c] # 0})}
TradeLines == [i \in DOMAIN traded |-> TradeLine(traded[i])]

Known(t) == \E i \in DOMAIN latestTrades : latestTrades[i] = t

\* The emitters list holds one for every browser that has not been removed.
Emitters == {s \in Subscribers : browser[s] # "none"}

Fault == faults < MaxFaults /\ faults' = faults + 1

-----------------------------------------------------------------------------
Init ==
    /\ held \in {h \in Holdings : \A c \in Codes : h[c] <= 1}
    /\ traded = <<>>
    /\ reports = 0
    /\ link = FALSE
    /\ stage = "holdings"
    /\ stream = <<>>
    /\ reader = "connect"
    /\ running = TRUE
    /\ line = NoLine
    /\ latest = NoStock
    /\ latestTrades = <<>>
    /\ browser = [s \in Subscribers |-> "none"]
    /\ pending = {}
    /\ received = [s \in Subscribers |-> <<>>]
    /\ shown = [s \in Subscribers |-> NoStock]
    /\ gate = "never"
    /\ stored = NoStock
    /\ faults = 0

-----------------------------------------------------------------------------
(* TradingCore.                                                            *)

\* A poll replaces the holdings snapshot: one stock differs.
Report(c, v) ==
    /\ reports < MaxReports
    /\ reports' = reports + 1
    /\ v # held[c]
    /\ held' = [held EXCEPT ![c] = v]
    /\ UNCHANGED <<traded, channel, service, caches, emitters, screens,
                   database, faults>>

\* A poll replaces the trade history: there is one more trade, at either end, or
\* the first of a new day.
Trade(t) ==
    /\ reports < MaxReports
    /\ reports' = reports + 1
    /\ \A i \in DOMAIN traded : traded[i] # t
    /\ traded' \in {Append(traded, t), <<t>> \o traded, <<t>>}
    /\ UNCHANGED <<held, channel, service, caches, emitters, screens, database,
                   faults>>

\* A round of ClientLoop copies and sends the holdings, then the trades.  send
\* blocks while too much is unread.
CopyHoldings ==
    /\ link /\ stage = "holdings"
    /\ Len(stream) <= MaxUnread
    /\ \E lines \in HoldingLines : stream' = stream \o lines
    /\ stage' = "trades"
    /\ UNCHANGED <<link, service, caches, emitters, around>>

CopyTrades ==
    /\ link /\ stage = "trades"
    /\ Len(stream) <= MaxUnread
    /\ stream' = stream \o TradeLines
    /\ stage' = "holdings"
    /\ UNCHANGED <<link, service, caches, emitters, around>>

\* The connection ends: what arrives is cut anywhere, maybe within a line.
Disconnect ==
    /\ link
    /\ Fault
    /\ link' = FALSE
    /\ \E n \in 0..Len(stream) :
        \/ stream' = SubSeq(stream, 1, n)
        \/ n < Len(stream) /\ stream' = Append(SubSeq(stream, 1, n), BrokenLine)
    /\ UNCHANGED <<core, stage, service, caches, emitters, screens, database>>

-----------------------------------------------------------------------------
(* ConnectLoop: the connection.  The reader tests running at "connect" and  *)
(* at "test", and is in readLine at "read".                                *)

\* while (running), and a new socket, for which TradingCore starts a thread.
Connect ==
    /\ reader = "connect" /\ running
    /\ link' = TRUE
    /\ stage' = "holdings"
    /\ stream' = <<>>
    /\ reader' = "test"
    /\ UNCHANGED <<running, line, caches, emitters, around>>

\* Nobody listens: two seconds of sleep.
ConnectFails ==
    /\ reader = "connect" /\ running
    /\ Fault
    /\ reader' = "sleep"
    /\ UNCHANGED <<core, channel, running, line, caches, emitters, screens,
                   database>>

Wake ==
    /\ reader = "sleep"
    /\ reader' = "connect"
    /\ UNCHANGED <<channel, running, line, caches, emitters, around>>

\* while (running && ...
TestRunning ==
    /\ reader = "test" /\ running
    /\ reader' = "read"
    /\ UNCHANGED <<channel, running, line, caches, emitters, around>>

\* Mutant: the end of the stream ends the loop.
EndOfStreamEnds ==
    /\ reader = "read"
    /\ stream = <<>> /\ ~link
    /\ reader' = "ended"
    /\ UNCHANGED <<channel, running, line, caches, emitters, around>>

\* readLine returns null, which leads back to while (running) at once, or
\* throws, which leads there by way of the sleep.
EndOfStream ==
    /\ reader = "read"
    /\ stream = <<>> /\ ~link
    /\ reader' \in {"connect", "sleep"}
    /\ UNCHANGED <<channel, running, line, caches, emitters, around>>

\* running has fallen, or the sleep is interrupted: the socket is closed and the
\* thread ends.  A reader that is blocked in readLine does not notice.
EndReader ==
    /\ reader \in {"connect", "test", "sleep"} /\ ~running
    /\ reader' = "ended"
    /\ link' = FALSE
    /\ stream' = <<>>
    /\ UNCHANGED <<stage, running, line, caches, emitters, around>>

-----------------------------------------------------------------------------
(* ConnectLoop: one line.                                                  *)

TakeLine ==
    /\ reader = "read"
    /\ stream # <<>>
    /\ stream' = Tail(stream)

\* A line that does not parse is logged.
SkipLine ==
    /\ TakeLine
    /\ Head(stream).type = "broken"
    /\ reader' = "test"
    /\ UNCHANGED <<link, stage, running, line, caches, emitters, around>>

\* Mutant: an older value of the stock is kept.
ReadHoldingOnce ==
    /\ TakeLine
    /\ Head(stream).type = "holding"
    /\ latest' = [latest EXCEPT ![Head(stream).code] =
                    IF @ = 0 THEN Head(stream).value ELSE @]
    /\ line' = Head(stream)
    /\ reader' = "broadcast"
    /\ UNCHANGED <<link, stage, running, latestTrades, emitters, around>>

\* Mutant: a value that has not changed is not passed on.
ReadHoldingQuiet ==
    /\ TakeLine
    /\ Head(stream).type = "holding"
    /\ latest' = [latest EXCEPT ![Head(stream).code] = Head(stream).value]
    /\ IF latest' = latest
       THEN reader' = "test" /\ UNCHANGED line
       ELSE reader' = "broadcast" /\ line' = Head(stream)
    /\ UNCHANGED <<link, stage, running, latestTrades, emitters, around>>

\* A holding replaces the one of its code, if there is one, and is passed on.
ReadHolding ==
    /\ TakeLine
    /\ Head(stream).type = "holding"
    /\ latest' = [latest EXCEPT ![Head(stream).code] = Head(stream).value]
    /\ line' = Head(stream)
    /\ reader' = "broadcast"
    /\ UNCHANGED <<link, stage, running, latestTrades, emitters, around>>

\* Mutant: trades are not compared with those that are known.
ReadTradeAlways ==
    /\ TakeLine
    /\ Head(stream).type = "trade"
    /\ latestTrades' = Append(latestTrades, Head(stream).trade)
    /\ line' = Head(stream)
    /\ reader' = "broadcast"
    /\ UNCHANGED <<link, stage, running, latest, emitters, around>>

\* A trade is added and passed on unless it is known.
ReadTrade ==
    /\ TakeLine
    /\ Head(stream).type = "trade"
    /\ IF Known(Head(stream).trade)
       THEN /\ reader' = "test"
            /\ UNCHANGED <<latestTrades, line>>
       ELSE /\ latestTrades' = Append(latestTrades, Head(stream).trade)
            /\ line' = Head(stream)
            /\ reader' = "broadcast"
    /\ UNCHANGED <<link, stage, running, latest, emitters, around>>

-----------------------------------------------------------------------------
(* Broadcast and BroadcastTrade, which hold the lock of emitters: that is, *)
(* the reader is at "sending".                                             *)

BeginBroadcast ==
    /\ reader = "broadcast"
    /\ reader' = "sending"
    /\ pending' = Emitters
    /\ UNCHANGED <<channel, running, line, caches, browser, around>>

\* emitter.send
SendTo(s) ==
    /\ reader = "sending"
    /\ s \in pending
    /\ pending' = pending \ {s}
    /\ \/ /\ browser[s] = "open"
          /\ IF line.type = "trade"
             THEN /\ received' = [received EXCEPT ![s] = Append(@, line.trade)]
                  /\ UNCHANGED shown
             ELSE /\ shown' = [shown EXCEPT ![s][line.code] = line.value]
                  /\ UNCHANGED received
          /\ UNCHANGED browser
       \/ \* The browser has left: send may throw, and then the emitter is
          \* removed before the lock is released.
          /\ browser[s] = "left"
          /\ browser' \in {browser, [browser EXCEPT ![s] = "none"]}
          /\ UNCHANGED screens
    /\ UNCHANGED <<core, channel, service, caches, database, faults>>

EndBroadcast ==
    /\ reader = "sending"
    /\ pending = {}
    /\ reader' = IF line.type = "holding" THEN "save" ELSE "test"
    /\ line' = NoLine
    /\ UNCHANGED <<channel, running, caches, emitters, around>>

-----------------------------------------------------------------------------
(* SaveSnapshotIfNeeded: one transaction over two tables.                  *)

SaveEnds(g, h) ==
    /\ reader = "save"
    /\ reader' = "test"
    /\ gate' = g
    /\ stored' = h
    /\ UNCHANGED <<core, channel, running, line, caches, emitters, screens>>

\* Less than the interval has passed.
SaveTooSoon == gate = "recent" /\ SaveEnds(gate, stored) /\ UNCHANGED faults

Save == gate # "recent" /\ SaveEnds("recent", latest) /\ UNCHANGED faults

\* The database fails within the method, or when the transaction commits after
\* lastSnapshotTime has been set.
SaveFails ==
    /\ gate # "recent"
    /\ Fault
    /\ \E g \in {gate, "recent"} : SaveEnds(g, stored)

\* The interval passes.
Elapse ==
    /\ gate = "recent"
    /\ gate' = "due"
    /\ UNCHANGED <<core, channel, service, caches, emitters, screens, stored,
                   faults>>

-----------------------------------------------------------------------------
(* The other threads of the web server, and the browsers.                  *)

Opened(s) ==
    /\ browser' = [browser EXCEPT ![s] = "open"]
    /\ received' = [received EXCEPT ![s] = <<>>]
    /\ shown' = [shown EXCEPT ![s] = NoStock]

\* Mutant: without the lock, the iteration over the list throws.
SubscribeUnlocked(s) ==
    /\ browser[s] = "none"
    /\ Opened(s)
    /\ IF reader = "sending"
       THEN reader' = "test" /\ pending' = {} /\ line' = NoLine
       ELSE UNCHANGED <<reader, pending, line>>
    /\ UNCHANGED <<core, channel, running, caches, database, faults>>

\* CreateEmitter
Subscribe(s) ==
    /\ browser[s] = "none"
    /\ reader # "sending"
    /\ Opened(s)
    /\ UNCHANGED <<core, channel, service, caches, pending, database, faults>>

\* A browser closes its connection ...
Leave(s) ==
    /\ browser[s] = "open"
    /\ browser' = [browser EXCEPT ![s] = "left"]
    /\ received' = [received EXCEPT ![s] = <<>>]
    /\ shown' = [shown EXCEPT ![s] = NoStock]
    /\ UNCHANGED <<core, channel, service, caches, pending, database, faults>>

\* ... and the container may notice it first.
RemoveEmitter(s) ==
    /\ browser[s] = "left"
    /\ reader # "sending"
    /\ browser' = [browser EXCEPT ![s] = "none"]
    /\ UNCHANGED <<channel, service, caches, pending, around>>

\* The application shuts down.
Stop ==
    /\ running
    /\ Fault
    /\ running' = FALSE
    /\ UNCHANGED <<core, channel, reader, line, caches, emitters, screens,
                   database>>

\* The process is killed, or has been shut down, and a new one starts.
Restart ==
    /\ Fault \/ (~running /\ UNCHANGED faults)
    /\ link' = FALSE
    /\ stream' = <<>>
    /\ reader' = "connect"
    /\ running' = TRUE
    /\ line' = NoLine
    /\ latest' = NoStock
    /\ latestTrades' = <<>>
    /\ browser' = [s \in Subscribers |-> "none"]
    /\ pending' = {}
    /\ received' = [s \in Subscribers |-> <<>>]
    /\ shown' = [s \in Subscribers |-> NoStock]
    /\ gate' = "never"
    /\ UNCHANGED <<core, stage, stored>>

-----------------------------------------------------------------------------
ConnectLoop ==
    \/ Connect \/ ConnectFails \/ Wake \/ TestRunning \/ EndOfStream \/ EndReader
    \/ SkipLine \/ ReadHolding \/ ReadTrade
    \/ BeginBroadcast \/ (\E s \in Subscribers : SendTo(s)) \/ EndBroadcast
    \/ SaveTooSoon \/ Save \/ SaveFails

ClientLoop == CopyHoldings \/ CopyTrades

Next ==
    \/ \E c \in Codes, v \in 0..MaxValue : Report(c, v)
    \/ \E t \in Trades : Trade(t)
    \/ ClientLoop
    \/ Disconnect
    \/ ConnectLoop
    \/ Elapse
    \/ \E s \in Subscribers : Subscribe(s) \/ Leave(s) \/ RemoveEmitter(s)
    \/ Stop
    \/ Restart

Spec == Init /\ [][Next]_vars

\* The threads at both ends of the connection go on, and time passes.  In
\* particular send returns, to a browser too.
FairSpec == Spec /\ WF_vars(ClientLoop) /\ WF_vars(ConnectLoop) /\ WF_vars(Elapse)

-----------------------------------------------------------------------------
(* Properties.                                                             *)

TypeOK ==
    /\ held \in Holdings
    /\ traded \in Seq(Trades)
    /\ reports \in 0..MaxReports
    /\ link \in BOOLEAN
    /\ stage \in {"holdings", "trades"}
    /\ stream \in Seq(Lines)
    /\ reader \in {"connect", "sleep", "test", "read", "broadcast", "sending",
                  "save", "ended"}
    /\ running \in BOOLEAN
    /\ line \in Lines \cup {NoLine}
    /\ latest \in Holdings
    /\ latestTrades \in Seq(Trades)
    /\ \A i, j \in DOMAIN latestTrades : latestTrades[i] = latestTrades[j] => i = j
    /\ browser \in [Subscribers -> {"none", "open", "left"}]
    /\ pending \subseteq Emitters
    /\ received \in [Subscribers -> Seq(Trades)]
    /\ shown \in [Subscribers -> Holdings]
    /\ gate \in {"never", "recent", "due"}
    /\ stored \in Holdings
    /\ faults \in 0..MaxFaults

Subscribed == {s \in Subscribers : browser[s] = "open"}

\* In the abstract feed a trade is delivered to everybody when the broadcast
\* takes the lock.
Feed == INSTANCE TradeFeed WITH
    log       <- latestTrades,
    delivered <- IF reader = "broadcast" /\ line.type = "trade"
                 THEN Len(latestTrades) - 1 ELSE Len(latestTrades),
    open      <- Subscribed,
    inbox     <- [s \in Subscribers |->
                   IF s \in pending \cap Subscribed /\ line.type = "trade"
                   THEN Append(received[s], line.trade) ELSE received[s]]

\* Lines are repeated every round, cut and sent again after a reconnection,
\* browsers come and go in the middle of a broadcast, and still every trade is
\* posted once and reaches all subscribers of the moment, in order and without
\* a gap (HoldingStreamService.java:78-80, 200-215, 246-255).
ImplementsFeed == Feed!Spec

\* A stock that is held at the same value for good is so in the cache and in the
\* newest stored snapshot in the end, after lost connections, failed saves and
\* restarts (HoldingStreamService.java:259, 272; SnapshotService.java:47-96).
CachesCatchUp ==
    \A c \in Codes, v \in 1..MaxValue :
        <>[](running /\ held[c] = v) => <>[](latest[c] = v /\ stored[c] = v)

\* And every browser that stays shows it, although it may have subscribed after
\* the last change (HoldingStreamService.java:181-197, 269).
BrowsersCatchUp ==
    \A c \in Codes, v \in 1..MaxValue, s \in Subscribers :
        <>[](running /\ held[c] = v /\ browser[s] = "open") => <>[](shown[s][c] = v)

\* Every trade is known to the web server in the end, whatever part of the
\* stream was lost (HoldingStreamService.java:218-255).
TradesArrive ==
    \A t \in Trades :
        <>[](running /\ \E i \in DOMAIN traded : traded[i] = t) => <>[]Known(t)

\* The latest map holds "the latest holdings" (comment,
\* HoldingStreamService.java:95): a stock that is sold for good leaves it.
SoldStocksLeave ==
    \A c \in Codes : <>[](running /\ held[c] = 0) => <>[](latest[c] = 0)

\* While the holdings do not change, "the whole portfolio" is stored (comment,
\* SnapshotService.java:83): every stock that is held is in the snapshot.
SnapshotsAreWhole ==
    [][stored' # stored /\ reports = 0 =>
          \A c \in Codes : held[c] # 0 => stored'[c] # 0]_vars
=============================================================================
