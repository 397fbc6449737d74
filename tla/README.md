# Specification of StockTradingBotServer

TLA+ specifications of the stock trading bot server, with the TLC runs that
model-check them and TLAPS proofs. The system is two programs:

* **TradingCore** (C++): asks the broker's REST API for the account, its holdings and
  its trades, keeps the last answer in memory and streams it over TCP port 9000;
* **TradingBotWeb** (Java, Spring Boot): reads that stream, hands it to browsers as
  server-sent events, stores snapshots in MySQL, and counts visitors.

The code is the reference. Where a comment of the code says something else than
the code does, the model follows the code; the runs that expect a violation show the
differences that matter most, and the section of the module names the others.

## 1. Inventory

| Part | State | Operations | Hard behaviour |
|---|---|---|---|
| Broker inquiries (`Trade/Account.cpp`) | `accounts`, `currentAccountNumber`, `holdings` and `tradeHistory` each under its mutex | `GetAllAccountNumbers`, `HasAccount`, `SetUseAccount`, `RefreshCurrentHoldings`, `RefreshTradeHistory`, the two snapshot getters | paging, six ways for a page to fail that are handled differently, a swap of the whole snapshot |
| Token cache (`Login.cpp`) | `accessToken`, a static string without a lock | `GetAccessToken`, `ClearAccessToken` | two pollers test, copy, assign and clear it concurrently; a token expires while it is in use |
| Streaming server (`InterServer/StreamingServer.cpp`) | atomic `running`, plain `listenSocket`, three joined threads, one detached thread per client | `Start`, `Stop`, `AcceptLoop`, `RefrashLoop`, `TradeHistoryPollingLoop`, `ClientLoop` | stopping a blocked accept, clients accepted late, dead peers, threads that outlive `Stop` |
| Start-up and shutdown (`main.cpp`, scripts) | `gTerminate` | choose an account, one inquiry, start, wait for a signal, stop | ignored result of `Start`, crash and restart |
| Previous-close prices (`Account.cpp:88-198, 649-721, 756-796`, `HoldingStreamService.java:106-150`) | two caches by stock code, the stored rows | candidates of the broker, fallback by weekday, query to the web server and merge | caches overwritten twice a second, rules by weekday, restarts of either program |
| Holding stream (`HoldingStreamService.java`) | `latest` by code, `latestTrades`, the list of emitters | `ConnectLoop`, `Broadcast`, `BroadcastTrade`, `CreateEmitter`, queries | reconnection, repeated lines, concurrent subscription |
| Snapshots (`SnapshotService.java`) | `lastSnapshotTime`, two tables | `SaveSnapshotIfNeeded` | a gate in memory around a transaction, first message after a restart |
| Visitor counter (`VisitorService.java`, `VisitorController.java`) | tables `UniqueVisitor` and `visitor_stats` | `isNewVisitor`, `incrementDailyVisitors`, `getVisitorStats` | two transactions per request, no unique constraint, midnight |
| Chart ranges (`HoldingController.java`) | none | `getEffectiveEndTime` and handlers that read | weekday and hour borders |
| Conversions (`String.cpp`, `Convert.cpp`, `TradeRecord.java`) | none | `GetSignDigit`, `GetJsonData`, the cleaning of `procTime` | borders of the input |
| Log (`Core/Log.cpp`, `Utility/Directory.cpp`, `Core/Application.cpp`) | `g_logMutex`, the console and its colour, `log.txt` in one of two places | the constructor, `Output` | two locks for a message, any thread logs, kills, a file that stops to open |
| Page controllers, interceptor, scripts | none | | none |

How the parts interact:

```
 broker REST <--- RefreshCurrentHoldings, RefreshTradeHistory --- accessToken (shared)
                      | swap under a mutex
                  holdings, tradeHistory
                      | copied every 500 ms by each ClientLoop
                  TCP 9000, one JSON object a line
                      | HoldingStreamService.ConnectLoop
                  latest, latestTrades --> SSE emitters, SnapshotService --> MySQL
                      ^                                                        |
                      +--- previous close: RefreshCurrentHoldings asks --------+
```

What makes each part correct:

* inquiries: no request without a token or an account; a failed inquiry leaves the
  data alone; a complete one publishes exactly what the broker's headers lead to;
  races on the cache cost a bounded number of token requests; after faults cease the
  pollers serve data again;
* server: each socket is closed once by its own thread; after `Stop` nothing is
  accepted or polled; `Stop` returns; dead clients are noticed; the backlog is served;
* visitor counter: nobody is counted who was not stored, whatever overlaps or fails;
  exact when nothing overlaps; a bounded number of rows per day;
* stream and snapshots: each trade is posted once and reaches everybody subscribed at
  that moment; after any failure the caches, the newest stored snapshot and the
  browsers catch up with the broker; sold stocks leave; a stored snapshot is whole;
* previous close: it is the close of the session before the reference day, as long as
  the broker says so, the caches hold it or the database does; it comes back after
  a restart;
* charts: the range ends at the last moment of trading, at every hour of every day;
* log: lines are not mixed, not lost and in order, and the mutex comes back.

The hazards behind these are listed, each at its line, in `PROJECT.json`.

## 2. Modules

| Module | What it is |
|---|---|
| `Account` | inquiries, token cache, `SetUseAccount` and `main`'s start-up |
| `MCAccount` | header framings and fault sets for TLC |
| `AccountProofs` | theorems about the inquiries of `Account` |
| `AccountFaultProofs` | what faults cost: the account of a start, and the tokens; extends `AccountProofs` |
| `StreamingServer` | the threads of the server, `main`, and the sockets as the kernel shows them; implements `StreamService` |
| `StreamService` | abstract specification: what the server promises its peers |
| `MCStreamingServer` | instances for TLC |
| `StreamingServerProofs` | theorems about `StreamingServer`, with the refinement |
| `VisitorService` | the visitor counter with its transactions |
| `MCVisitorService` | symmetry for TLC |
| `VisitorServiceProofs` | theorems about `VisitorService` |
| `TradeFeed` | abstract specification: what the web server promises about trades |
| `HoldingStream` | the channel from `ClientLoop`, `ConnectLoop`, the caches, the emitters, `SaveSnapshotIfNeeded`; implements `TradeFeed` |
| `MCHoldingStream` | instances for TLC |
| `HoldingStreamProofs` | theorems about `HoldingStream`, with the refinement |
| `MarketCalendar` | the rules by weekday and hour of both programs, as operators over moments |
| `MarketCalendarProofs` | what they return, for every day |
| `PrevClose` | the previous close: broker, caches, database, restarts; extends `MarketCalendar` |
| `MCPrevClose` | the instance for TLC |
| `PrevCloseProofs` | theorems about `PrevClose` |
| `Log` | the log: mutex, console, files, directory |
| `MCLog` | the instance for TLC |
| `LogProofs` | theorems about `Log` |

Each module also holds the mutated forms of some of its actions, marked "Mutant":
the specification does not use them; each shows that a plausible bug in that place
breaks the property `PROJECT.json` pairs it with.

### Account

The three inquiries are the elements of `Feeds`. `pc[p]` is where inquiry `p` is:

| `pc` | code |
|---|---|
| `wait` | the poller has not been started: `main` has not come to its first inquiry yet |
| `idle` | between two rounds, before the test of `currentAccountNumber` |
| `check`, `issue`, `store`, `take` | inside `GetAccessToken`: the test, the request, the assignment, the copy that is returned |
| `page` | a request for `page[p]` is out |
| `clear` | inside `ClearAccessToken` |
| `publish` | before the swap |
| `choose`, `done` | `SetUseAccount` after the account inquiry, and the end of start-up |

`holdings` is run by `main` first and by its poller afterwards; the two never
coexist, and both are `pc["holdings"]`. The trade poller starts when the first
holdings inquiry has returned (`main.cpp:27-32`).

A page stands for the items on it, so a snapshot is a set of page numbers.
A token is a number, the order in which the broker issued it; `0` is the empty
string and `Garbage` a torn one. The assignment to `accessToken` is two steps
(entering `store` or `clear`, and leaving it), so assignments of two threads, and an
assignment and a copy, can overlap. That is a data race, and its outcomes are a
choice: the value, `Garbage`, or the end of the process (`Terminate`).

`framing` is what the broker puts around a header value. An HTTP server sends
`cont-yn: Y\r\n` and `GetJsonData` trims nothing, so the code sees `" Y\r"`
(`WireFraming`); the comparison with `"Y"` expects `BareFraming`. `account` lets the
broker choose either; the inquiries then read one page or several.

How a page can fail, and what each inquiry does (`PROJECT.json` has the lines):

| | accounts | holdings, trades |
|---|---|---|
| no curl handle, no answer | break | break, then the swap |
| status other than 200 | break | return |
| `return_code` 3 | not looked at, no account found; goes on as the header says | clear the token, return |
| any other `return_code` | not looked at, no account found; goes on as the header says | return |
| empty or unreadable body | log, go on as the header says | the same |
| an exception other than `parse_error` | the process ends | the process ends |

Left out: the prices within an item; the texts; the read of `holdings.size()` without
the lock (`Account.cpp:805`), which the only writer makes and nothing can change meanwhile.

### StreamingServer

`main`, `accept`, `poller[p]` and `client[c]` are the program counters of the
threads; `running` and `listenSocket` the members of the server; `conn[c]` the
connection of a peer as the kernel has it. `Stop` is four steps (`Signal`,
`CloseListenSocket`, `ForgetListenSocket`, `Join`), because the accept loop can
run between any two of them. A snapshot is the number of lines it makes: the
client thread copies it and sends the lines one at a time, first the holdings, then
the trades. Its test of `running` (`ClientCheck`, line 190) and its copy of the holdings
(`ClientCopy`, 193) are two steps, and the copy of the trades (`EndOfLines`) is not preceded
by a test at all: a round whose test came before the flag fell is begun and sent to its end, if the process lives that long.

The kernel (external) is modelled as the code meets it. `closeWakesAccept`, chosen from
`Platforms` at the start, is the one difference between the platforms the code is built for: Winsock ends an
`accept` whose socket is closed; Linux keeps the socket until the call returns, so a
connection can still be accepted after `close`. `queue` is the backlog, and `accept` takes the
oldest connection of it. `send` to a peer that has closed succeeds once and then fails.

`StreamService` is what a peer may rely on, without the threads: the service is unopened, open,
closing or closed; peers wait, are served, leave and are dropped. While it is open a peer
that waits is not refused, one that is served is dropped only if it has left, and rounds begin.
When it begins to close, some of the served peers are due one last round (`due`): they get it, whenever
that is, unless they leave or the process ends. No other round begins; one that has begun is finished unless the peer
leaves; and one more peer at most is served, without a round. When it is closed nobody waits. The
refinement mapping takes the phase from `running` and `main` (closing begins with the flag, not with
the socket), those who wait from the backlog, those who are served from the client threads, and those
who are due a round from the threads between their test and their copy.

The destructor's call of `Stop` finds `running` false and returns. A signal before
the handlers are installed (`main.cpp:34-36`) ends the process like a kill and is not
modelled here. The reuse of a descriptor number is not modelled.

### VisitorService

A request is two transactions, `isNewVisitor` and `incrementDailyVisitors`. MySQL's
default isolation gives a transaction the snapshot of its first read (`view`) and lets
it write the values it computed from it; the tables have no unique constraint and
the entities no version, so nothing detects an overlap. `overlapped` is a history
variable: whether two increments have ever been open together. The sum of the daily counts
is the number of visitors that the rows count (`CountedBy`), which is the same number and
one that can be reasoned about without induction over the rows.

### HoldingStream

The module composes the two ends of the TCP connection. TradingCore's end is small:
the polls change `held` and `traded` (their inquiries are the subject of `Account`), and
a round of `ClientLoop` copies the holdings and then the trades (its shutdown is the
subject of `StreamingServer`). A copy goes into `stream` in one step; that only a part of
it is sent before a connection ends is the choice of `Disconnect`, which keeps any
prefix of what is unread and perhaps a piece of a line. `send` blocks when the buffer
is full: `MaxUnread` is the number of unread lines up to which the next copy is made.

`reader` is the program counter of the one thread of `HoldingStreamService`:

| `reader` | code |
|---|---|
| `connect` | the outer `while (running)` |
| `sleep` | the two seconds after an exception |
| `test` | `running` in the inner loop |
| `read` | in `readLine`, which `Stop` cannot interrupt |
| `broadcast` | before `synchronized (emitters)` |
| `sending` | holding the lock; `pending` are the emitters still to come |
| `save` | in `SaveSnapshotIfNeeded` |
| `ended` | the thread is over |

While the reader is at `sending`, `Subscribe` and `RemoveEmitter` wait for the lock. A
browser that has left is noticed by a `send` that throws, or by the container, or
(for a while) not at all. A holding is its value, 0 where the stock is not held; a
trade is its identity `(tradeDate, tradeNo, stockCode)`, which is what the code compares.
The clock of `SaveSnapshotIfNeeded` is `gate`: `never` saved, `recent`, or `due`. A save
that fails may have set `lastSnapshotTime` (when the commit is what fails) or not.
`stored` is what `findLatestSnapshots` would return. The interrupt that `Stop` sends is
felt in the sleep only.

Left out: the totals of a snapshot (sums over the same map), the other fields of a
line, and a restart of TradingCore, which the stream shows as a lost connection
(`Disconnect`) and holdings that go away and come back (`Report`). The test for an empty map
in `SaveSnapshotIfNeeded` never holds: the one call comes after a `put`.

`TradeFeed` is a log and, for each subscriber, an inbox: a trade is posted at most
once and then delivered to everybody at once. `HoldingStream` implements it under the
mapping `Feed`: the log is `latestTrades`; the delivery is the step in which the
broadcast takes the lock, so a subscriber the broadcast has not come to yet already
has the trade in the abstract inbox.

### MarketCalendar and PrevClose

A moment is a day and a clock. Days are integers, and `d % 7` is `tm_wday`; a clock is one of
`DayLength` moments that the rules tell apart, with `Morning` (07:00), `Open` (09:00), `Close`
(15:30) and `Night` (22:00) among them. `EffectiveEndTime` is the three cases of
`getEffectiveEndTime`, `ResolvePrevCloseReferenceTime` the function of that name, `Trading` the
filter of the query behind a chart, `OffHours` the test of `RefrashLoop`.

`PrevClose` follows one stock, because the caches, the query and the merge go by code.
`core` is where TradingCore is:

| `core` | code |
|---|---|
| `down` | no process |
| `boot` | `main`, before its first inquiry, which is made at any hour |
| `idle` | the poller between two inquiries |
| `merge` | the items are read and the caches follow them; before `FetchPrevClosePriceMapFromSpring` |

An inquiry is two steps, so that the web server, the clock and a kill can come between
the items and the merge. `Answers` is what the broker may say of a number: nothing,
the number, the number in the second of the fields the code looks into, or 0 in the first.
An inquiry that returns early (status, `return_code`) changes nothing and is no step;
one without an answer publishes an empty map (`NoAnswer`).

Of all rows of the table a query can only find two, so they are all that is kept: `past`, the
last row that is not after the reference time, and `newest`. When the reference time moves on,
at 00:00 of a weekday, `newest` becomes `past` (`Tick`); a row stored at that very moment is `past`
at once (`Save`). `lastClose` is the history of what is right: the price when the reference day
began. A quote carries the history bit `fresh`: it was asked after the last session closed,
so it is a closing price; the bit falls when the next session opens.

What makes the previous close wrong once it was right is named in `CloseStaysRight`, each at its line:

* the row of the web server replaces the value of the broker even when the row is stale (the evening's
  rows are missing after an outage) and the broker is right (`Account.cpp:780`; `TakesStaleRow`);
* a difference of 0, a flat stock, counts as not given (665), so the fallback answers; on a weekday it takes
  the last price for yesterday's close (683-699), which from the opening on, and in the evening after it,
  is today's (`TakesLastPrice`).

The comment at `Account.cpp:672-674` assigns the cached previous close to Friday, Saturday and Sunday and
the last price to Monday; the code gives the cached previous close to Saturday and Sunday only (678) and the last price
to every other day. On a Friday the last price is right until the session begins, and the cached previous close
from the first answer that says it on. The model follows the code; `TakesLastPrice` covers the Friday with the
other weekdays.

Left out: exchange holidays (the code knows none), a clock that is set back, and prices below
zero, with the clamp at line 701 that only they could reach.

### Log

`mutex` is the holder of `g_logMutex` and `pc[t]` where the `Output` of thread `t` is: `LogConsole` is
`enterConsole`, `colour`, `print`, `reset`, and `LogMessage` is `enterFile`, `write`. The lines of the
console and of the two possible `log.txt` are sequences; a line is its message (thread, session, number,
level, target) with the time of its stamp. What would go to a file that does not
open is kept as `files["nowhere"]`, for the properties only. `path` is what is at each directory of
`Config::rootPath`: a directory, nothing, or a file in its place. `Start` is the constructor, which runs
before any other thread does. No call uses the target `FILE` alone.

Left out: the wording of a line, the expansion of `~`, and a disk that is full, on which a file
opens and the write is lost without a trace.

## 3. Runs

| Run | Expect | Properties | States | Bounds |
|---|---|---|---|---|
| `account` | pass | `TypeOK`, `RequestCarriesToken`, `DataOfChosenAccount`, `ReissuesBounded`, `BootSurvivesOneFault`, `IntactInquiriesPublishAll`, `Recovers` | 90,068 | 3 pages, limit 2, both framings, all fault kinds, at most 2 faults |
| `account_wire` | violation | `EverythingIsRead` | | 2 pages, limit 3, no fault, what servers send |
| `account_noanswer` | violation | `FailedInquiryKeepsData` | | one lost answer |
| `server` | pass | `TypeOK`, `SocketsAreOwned`, `StoppedServerIsDeaf`, `AtMostOneLateClient`, `ImplementsService`, `StopReturns`, `QueuedAreServed`, `ClientsEnd`, `DeadClientsEnd` | 227,588 | both platforms, 2 connections, backlog 2, 1 line of holdings, peers that reconnect on Linux |
| `server_alone` | violation | `StopReturns` | | Linux, peers connect or not |
| `visitor` | pass | `TypeOK`, `NeverOvercounts`, `RowsPerDayBounded`, `ExactWithoutOverlap` | 15,630 | 2 requests, 3 visitors, 2 days, 4 counted a day |
| `visitor_total` | violation | `TotalIsSum` | | 1 request |
| `stream` | pass | `TypeOK`, `ImplementsFeed`, `CachesCatchUp`, `BrowsersCatchUp`, `TradesArrive` | 1,253,222 | 1 stock with 2 values, 2 trades, 2 browsers, 2 changes, 2 faults |
| `stream_sold` | violation | `SoldStocksLeave` | | 1 stock, 1 change, no fault |
| `stream_snapshot` | violation | `SnapshotsAreWhole` | | 2 stocks, no change, no fault |
| `prevclose` | pass | `TypeOK`, `ChartEndsInSession`, `RestoredClose`, `CloseStaysRight`, `CloseComesBack` | 409,778 | Thursday to Monday, 6 moments a day, 2 prices, 2 faults |
| `log` | pass | `TypeOK`, `LinesInColour`, `LinesInOrder`, `ConsoleAndFilesAgree`, `MutexReturns` | 694,656 | 2 threads, 2 messages, 2 starts, 2 seconds, 2 levels, a path of 2 directories |

Why the bounds are enough. Two pages below the limit give an inquiry a first, a
continued and a last page, and the third page, above the limit, the case that the
limit cuts it. Two faults are needed for the interesting pairs: an expired token and a
failed request for a new one, two failed account inquiries, a race and a lost answer.
Both pollers and the start-up inquiry are always there. `server` has two connections and a backlog that
holds both: one waits behind the other, or while the other is served, leaves and comes back, or is
accepted late, and the order of the backlog decides whether it is ever served (with a queue that hands
out the youngest first `QueuedAreServed` fails). A backlog of 4 differs in how many wait. The
instance is an account with a holding or none and no trade (`OneHolding`), so that each client
thread takes both of its copies but sends lines from the first only; a line of trades is sent by the
same action (`SendLine`), and the safety proofs hold for any number of lines, peers and places in the
backlog. One line is enough for a peer to leave before it, after it and between the two failures of
`send` that it takes to be noticed. The failures of `accept` for a reason of the moment are not bounded.
Two requests are enough for a
day to get two rows, and they can overlap in every way two transactions can; a third visitor
finds the two rows afterwards. Days beyond the second repeat the first two. In the stream, lines of
different stocks do not meet except in a snapshot, which `stream_snapshot` has two for;
two values are needed for a change, two trades (each of them is a change that the broker reports, and there
are two) for an order, two browsers for one that has received a trade and one that has not; two faults for a
failure during the recovery from another. `MaxUnread = 0` makes `send` wait until all is read; a copy of
the trades still puts two lines into the stream at once, and a cut can come between them. The two
violated runs have a second copy wait behind a line of the first (`MaxUnread = 1`).
In `prevclose`, Thursday to Monday has each rule of the week: a weekday after a weekday, both days
of a weekend, and the Monday after it; the 6 moments have one before the polls begin, between
that and the opening, one of the session, the close, the evening and the night. Two faults are
a restart of each program, or an outage and a lost answer. In `log`, two messages are an order, in
one thread or two, and two starts a restart in the middle of a message.

`visitor` alone uses symmetry: requests and visitors are interchangeable, and it checks
invariants only. The server runs do not check for deadlock because the process
ends, nor do `prevclose` and `log`, whose clock, messages and starts are bounded; in `Account` the pollers always go on or the process can be restarted, and
deadlock is checked; so it is in `visitor`, where days end but known visitors come back.

What the violated runs show:

* `account_wire`: with the header lines a server sends, the test `== "Y"` never holds;
  only the first page of each inquiry is read. Under `BareFraming` (`account`) all
  pages up to the limit are.
* `account_noanswer`: a lost answer publishes what was gathered, possibly nothing;
  the other failures keep the data, as the comments there say.
* `server_alone`: on Linux `Stop` waits for a peer to connect. `server` shows
  that it returns with a peer that reconnects, as the web server does.
* `visitor_total`: the second visitor of a day is counted twice in the total.
* `stream_sold`: `latest` is only added to; a sold stock is shown and stored for ever.
* `stream_snapshot`: the first line after a start is stored as the whole portfolio.

### Fairness

* `Account!FairSpec`: each thread that can take a step does (`WF` on `Thread(p)` and on
  `Main`). A call to the broker is a step, so it is assumed to end: the code sets
  no time limit, and without that assumption a poller may hang. No fault and no
  restart is fair: `Recovers` speaks of a process that lives.
* `StreamingServer!FairSpec`: the same for every thread, including that `send` returns.
  `accept` may fail for a reason of the moment any number of times, but not every time it is tried
  while a connection waits (`SF` on `AcceptReturns`): a host that is out of descriptors for ever serves
  nobody. Peers are not fair. `ReconnectingSpec` adds, on Linux only, that each peer connects when it can, which
  `HoldingStreamService.ConnectLoop` does, two seconds after a failure.
* `HoldingStream!FairSpec`: `ClientLoop` and `ConnectLoop` go on, `send` returns (to a browser
  that does not read, too: the code sets no limit), and the five seconds pass. No fault,
  no browser and no poll is fair. The liveness properties speak of a server that is left
  running in the end: stopped, it waits for a restart that nobody owes it.
* `PrevClose!FairSpec`: an inquiry that has begun ends, and the poller makes the next one. The
  clock, the stream, the web server and the broker are not fair; `CloseComesBack` speaks of two
  programs that both run in the end, with a row to restore from.
* `Log!FairSpec`: a thread inside `Output` goes on when it can. No thread has to log.
* `Signal` is never fair: nobody has to stop the server.

## 4. Proofs

All theorems hold for every value of the constants that the assumptions admit:
positive page counts and limits, any framings, any set of fault kinds, any bound on
faults; any set of peers and any backlog; any finite set of requests and any set of visitors;
any stocks, values, trades and browsers; any prices, any days, any number of moments in a day;
any threads, levels and depth of the path of the log, and either console.

| Theorem | Property | Argument |
|---|---|---|
| `AccountProofs!TypeCorrect` | `TypeOK` | inductive; `ContinuesInRange` is the point: a header that says "more" is never on the last page |
| `AccountProofs!RequestsCarryToken` | `RequestCarriesToken` | from `IInv` |
| `AccountProofs!DataHasChosenAccount` | `DataOfChosenAccount` | from `IInv` |
| `AccountProofs!IntactInquiries` | `IntactInquiriesPublishAll` | from `IInv`: only `Publish` changes a snapshot of a living process |
| `AccountFaultProofs!BootSurvives` | `BootSurvivesOneFault` | inductive with `BootInv`, on top of `IInv` |
| `AccountFaultProofs!Reissued` | `ReissuesBounded` | a potential: `Paid` is inductive with `TokensInv` and `BootInv` |
| `StreamingServerProofs!TypeCorrect` | `TypeOK` | inductive |
| `StreamingServerProofs!SocketsOwned` | `SocketsAreOwned` | from `IInv` |
| `StreamingServerProofs!StoppedIsDeaf` | `StoppedServerIsDeaf` | from `IInv` |
| `StreamingServerProofs!OneLateClient` | `AtMostOneLateClient` | from `IInv` |
| `StreamingServerProofs!ServiceImplemented` | `ImplementsService` | every step is a step of `StreamService` or a stutter, one lemma for each thread |
| `VisitorServiceProofs!TypeCorrect` | `TypeOK` | inductive with `TypeInv`: sums are numbers because the rows count finitely many visitors |
| `VisitorServiceProofs!RowsBounded` | `RowsPerDayBounded` | inductive with `RowsInv` |
| `VisitorServiceProofs!ExactCount` | `ExactWithoutOverlap` | `ExactInv`, on top of `RowsInv` |
| `VisitorServiceProofs!NoOvercount` | `NeverOvercounts` | inductive with what open transactions have read |
| `HoldingStreamProofs!TypeCorrect` | `TypeOK` | inductive with `BroadcastInv`; includes that no trade is known twice |
| `HoldingStreamProofs!FeedImplemented` | `ImplementsFeed` | every step is a step of `TradeFeed` or a stutter, one lemma for each kind |
| `MarketCalendarProofs!EffectiveEndTimeIsLast` | | cases of the code; `LastWeekday` for the loop that goes back to a weekday |
| `PrevCloseProofs!TypeCorrect` | `TypeOK` | inductive; `CloseOrFallback` is the point: a candidate never makes anything but the close |
| `PrevCloseProofs!ChartsEndInSession` | `ChartEndsInSession` | from `EffectiveEndTimeIsLast` |
| `PrevCloseProofs!CloseIsRestored` | `RestoredClose` | from `IInv` |
| `PrevCloseProofs!RightCloseKept` | `CloseStaysRight` | from `IInv` and `CacheInv`, with `CloseOrFallback` for an item |
| `LogProofs!TypeCorrect` | `TypeOK` | inductive |
| `LogProofs!LinesAreInColour` | `LinesInColour` | from `MutexInv` |
| `LogProofs!LinesAreInOrder` | `LinesInOrder` | from `OrderInv`, on top of `MutexInv` |
| `LogProofs!LogsAgree` | `ConsoleAndFilesAgree` | inductive with `AgreeInv`, on top of `OrderInv` |

`Account`'s inductive invariant is `TypeOK /\ AccountSettled /\ RequestCarriesToken /\
GatheredAsAsked`. `DataOfChosenAccount` is not inductive alone: it needs that no poller
moves before the account is chosen (`AccountSettled`). `IntactInquiriesPublishAll` needs
what an inquiry has gathered at every point of its loop: with no answer lost, on
page n exactly the pages before n, and n no further than the last page the headers
lead to (`GatheredAsAsked`); `LastPageFixed` says that this page does not move.

`BootSurvivesOneFault` speaks of the end of a start; `BootInv` says it of every point before: an inquiry
that has ended without an account was lost to a fault of its own, or the cache holds a token
that the broker refuses and that the account inquiry does not clear (`Spent`).

`ReissuesBounded` depends on what is still to come. `Reissues` is the number of tokens the broker will
issue at most if there is no further fault: one for each poller on its way to
a token (`Due`), one more for a refused token in the cache or a poller that will clear it,
two more if a poller is about to store a refused token over whatever is there
(`Spoilt`). `Paid` says that `issued + Reissues <= 1 + 3 * faults`: a request for
a token moves one from `Reissues` to `issued`, no other step of a thread raises the sum, and a
fault raises it by at most three. The longest cases are the steps of a poller (`PaidPoller`, with the other
one anywhere in its round) and an expiry, which spoils the cache and what is in flight at once
(`PaidExpire`). `TokensInv` says that a token about to be stored is nowhere else yet.

`StreamingServer`'s is `TypeOK /\ SocketsAreOwned /\ ThreadsInv /\ QueueInv /\ LateInv`: `ThreadsInv`
ties the position of `main` to the flag, the handle and the threads already joined;
`LateInv` says that once the flag has fallen the accept loop, having accepted one
client, can only come back to its test and leave. The refinement of `StreamService` rests on the same
invariant: that the socket is open while the flag is up (so a connection that is accepted leaves the rest of the backlog
alone), that a connection belongs to a thread or to the backlog and is in the backlog once (`QueueInv`; otherwise
accepting it would leave it waiting), and that the last join finds no one in the backlog (`StoppedServerIsDeaf`).
`TailAndAppend` and `HeadAndTail` say what the two operations on the backlog do to the set of those who wait.

`VisitorService`'s says, besides the invariant, that what an open transaction has read was
true when it read it and that the number of stored visitors only grows, so the count
it writes is at most the number stored by then.

`RowsPerDayBounded` counts the rows that are there; a transaction that saw none inserts one, however many there are when it commits.
`RowsInv` therefore bounds the rows of a day together with the open transactions that saw none (`Room`): each of these
becomes at most one row, and a transaction can only begin that way while the day has no row. It also
says that the rows a transaction increases are still in the table under their ids, or the update would insert.
`ExactInv` says that without overlap the one open transaction sees the table as it is and that its
visitor is still new.

`HoldingStream`'s is `TypeOK /\ BroadcastInv`. The refinement needs each part of
`BroadcastInv`: no emitter is pending outside `sending` (so the abstract inboxes are
the received trades when a browser subscribes); a trade before the lock is the last
of `latestTrades` (so the abstract delivery is of the right one); a slot without a
subscriber holds nothing (so subscribing leaves the abstract inboxes alone).
`ReadTrade` is `Post`, `BeginBroadcast` of a trade is `Deliver`, `Restart` is `Forget`, and
`SendTo` is a stutter: it makes true what the mapping has promised.

`PrevClose`'s is `TypeOK /\ CloseInv`. That the row before the reference time holds the right close
is not inductive: when the reference time moves on the newest row takes its place, so that one has to
hold the price, if it is a closing price, and so has every quote on its way to it (in the item, in
`holdings`, in the caches, in `latest`). The calendar comes in twice: the reference time moves
exactly when the history of the close does (`ReferenceDayMoves`), and a row not after the reference
time can only be stored at 00:00 of a weekday, before any trading.

`CloseStaysRight` needs, besides, that an item that has been read and not published yet carries the cached
previous close, and that this is missing only as long as no price of the stock is known (`CacheInv`).

`Log`'s is `TypeOK /\ MutexInv`: the mutex is held by the one thread between `colour` and `reset` or at `write`,
nobody runs when the process does not, and at `print` the colour is that of the thread's own level, because no
other thread can be where it would set another. `OrderInv` adds that no line, in whichever log, is later than the stamp
of the holder, and that no log has a later message of a thread than the one it is about to write
there: a thread writes to the console and to the file under two separate locks, with other threads and
restarts between them. `AgreeInv` adds that in the session that runs a line of the
console that is missing in the files is still in the hands of the thread that printed it; when the
process ends that thread never writes again, which is what the property says of the sessions before.

Every safety property of the passing runs, invariant or action property, is a theorem. Left to TLC are the
properties with fairness (`Recovers`, `StopReturns`, `QueuedAreServed`,
`ClientsEnd`, `DeadClientsEnd`, `CachesCatchUp`, `BrowsersCatchUp`, `TradesArrive`,
`CloseComesBack`, `MutexReturns`), which rest on `ENABLED` and are out of TLAPS's reach.

## 5. Plan

Done: 1. `Account`, 2. `StreamingServer`, 3. `VisitorService`, 4. `HoldingStream` with the proof that it
implements `TradeFeed`, 5. `MarketCalendar` and `PrevClose`, 6. `Log`, each with its first proofs.

7. Proofs of the invariants that were only checked, and that `StreamingServer` implements `StreamService`.

8. The order of the backlog and the separate test and copy of a round in `StreamingServer`, two peers, and the
last rounds in `StreamService`; the account inquiry that goes on after a refusal; what a cached close is lost to.

Left: 9. an abstract journal that `Log` implements (each message is shown, then filed, in the order of its thread; a kill
loses what is in hand), and the part of `StopReturns` that is a safety property: past the flag, each joined thread is
a bounded number of its own steps from its end.

### Not modelled

`VisitorInterceptor`, which is never registered; page, error and icon controllers, which keep no state; the
scripts, but for the starts and kills that the models have as actions; the cleaning of `procTime`; the range of dates
of a trade inquiry, which only changes what the broker is asked for.
