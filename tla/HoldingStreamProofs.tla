------------------------ MODULE HoldingStreamProofs ------------------------
(***************************************************************************)
(* Proofs about HoldingStream: its types, and that it implements TradeFeed,*)
(* for any stocks, trades and browsers and any bounds on faults.           *)
(***************************************************************************)
EXTENDS HoldingStream, FiniteSetTheorems, SequenceTheorems, TLAPS

\* What a broadcast relies on: nobody is left over from an earlier one, the line
\* is one that is passed on, a trade is the last of those known, and a slot
\* without a subscriber holds nothing.
BroadcastInv ==
    /\ pending # {} => reader = "sending"
    /\ reader \in {"broadcast", "sending"} => line.type \in {"holding", "trade"}
    /\ reader = "broadcast" /\ line.type = "trade" =>
         latestTrades # <<>> /\ latestTrades[Len(latestTrades)] = line.trade
    /\ \A s \in Subscribers : browser[s] # "open" => received[s] = <<>>

IInv == TypeOK /\ BroadcastInv

-----------------------------------------------------------------------------
(* Lines.                                                                  *)

LEMMA LineFields ==
  ASSUME NEW l \in Lines
  PROVE  /\ l.type \in {"holding", "trade", "broken"}
         /\ l.type = "holding" => l.code \in Codes /\ l.value \in 0..MaxValue
         /\ l.type = "trade" => l.trade \in Trades
  BY StreamAssumption DEF Lines, HoldingLine, TradeLine, BrokenLine

LEMMA NoLineIsPlain == NoLine.type = "none"
  BY DEF NoLine

\* The lines of a round are lines.
LEMMA CopiesAreLines ==
  ASSUME held \in Holdings, traded \in Seq(Trades)
  PROVE  HoldingLines \subseteq Seq(Lines) /\ TradeLines \in Seq(Lines)
<1> DEFINE S == {c \in Codes : held[c] # 0}
<1>1. Cardinality(S) \in Nat
  <2>1. IsFiniteSet(Codes)
    BY StreamAssumption, FS_Interval DEF Codes
  <2> QED
    BY <2>1, FS_Subset, FS_CardinalityType
<1>2. ASSUME NEW q \in Ascending(S)
      PROVE  [i \in DOMAIN q |-> HoldingLine(q[i], held[q[i]])] \in Seq(Lines)
  <2>1. q \in [1..Cardinality(S) -> S]
    BY DEF Ascending
  <2>2. ASSUME NEW i \in DOMAIN q PROVE HoldingLine(q[i], held[q[i]]) \in Lines
    <3>1. q[i] \in Codes /\ held[q[i]] \in 1..MaxValue
      BY <2>1, StreamAssumption DEF Holdings
    <3> QED
      BY <3>1 DEF Lines
  <2> QED
    BY <1>1, <2>1, <2>2
<1>3. HoldingLines \subseteq Seq(Lines)
  BY <1>2 DEF HoldingLines
<1>4. TradeLines \in Seq(Lines)
  BY DEF TradeLines, Lines
<1> QED
  BY <1>3, <1>4

-----------------------------------------------------------------------------
(* The inductive invariant.                                                *)

LEMMA IInvInit == Init => IInv
<1> SUFFICES ASSUME Init PROVE IInv
  OBVIOUS
<1>1. NoStock \in Holdings
  BY StreamAssumption DEF NoStock, Holdings
<1>2. /\ held \in Holdings /\ latest \in Holdings /\ stored \in Holdings
      /\ shown \in [Subscribers -> Holdings]
  BY <1>1 DEF Init
<1>3. /\ traded \in Seq(Trades) /\ stream \in Seq(Lines) /\ latestTrades \in Seq(Trades)
      /\ received \in [Subscribers -> Seq(Trades)]
      /\ \A i, j \in DOMAIN latestTrades : latestTrades[i] = latestTrades[j] => i = j
  BY DEF Init
<1>4. reports \in 0..MaxReports /\ faults \in 0..MaxFaults
  BY StreamAssumption DEF Init
<1>5. TypeOK
  BY <1>2, <1>3, <1>4 DEF Init, TypeOK, Emitters
<1>6. BroadcastInv
  BY DEF Init, BroadcastInv
<1> QED
  BY <1>5, <1>6 DEF IInv

\* TradingCore and the connection.
LEMMA ChannelStep ==
  ASSUME IInv,
         \/ \E c \in Codes, v \in 0..MaxValue : Report(c, v)
         \/ \E t \in Trades : Trade(t)
         \/ ClientLoop
         \/ Disconnect
  PROVE  IInv'
<1> USE DEF IInv, TypeOK, BroadcastInv, core, channel, service, caches, emitters,
            screens, database, around, Emitters
<1>1. ASSUME NEW c \in Codes, NEW v \in 0..MaxValue, Report(c, v) PROVE IInv'
  BY <1>1, StreamAssumption DEF Report, Holdings
<1>2. ASSUME NEW t \in Trades, Trade(t) PROVE IInv'
  <2>1. /\ Append(traded, t) \in Seq(Trades) /\ <<t>> \in Seq(Trades)
        /\ <<t>> \o traded \in Seq(Trades)
    BY ConcatProperties
  <2>2. traded' \in Seq(Trades)
    BY <1>2, <2>1 DEF Trade
  <2>3. reports' \in 0..MaxReports
    BY <1>2, StreamAssumption DEF Trade
  <2> QED
    BY <1>2, <2>2, <2>3 DEF Trade
<1>3. CASE ClientLoop
  <2>1. ASSUME NEW lines \in Seq(Lines) PROVE stream \o lines \in Seq(Lines)
    BY ConcatProperties
  <2>2. stream' \in Seq(Lines)
    BY <1>3, <2>1, CopiesAreLines DEF ClientLoop, CopyHoldings, CopyTrades
  <2> QED
    BY <1>3, <2>2 DEF ClientLoop, CopyHoldings, CopyTrades
<1>4. CASE Disconnect
  <2>1. BrokenLine \in Lines
    BY DEF Lines
  <2>2. ASSUME NEW n \in 0..Len(stream) PROVE SubSeq(stream, 1, n) \in Seq(Lines)
    <3>1. \A i \in 1..n : stream[i] \in Lines
      OBVIOUS
    <3> QED
      BY <3>1, SubSeqProperties
  <2>3. stream' \in Seq(Lines)
    <3>1. PICK n \in 0..Len(stream) :
            stream' \in {SubSeq(stream, 1, n), Append(SubSeq(stream, 1, n), BrokenLine)}
      BY <1>4 DEF Disconnect
    <3>2. SubSeq(stream, 1, n) \in Seq(Lines)
      BY <2>2
    <3>3. Append(SubSeq(stream, 1, n), BrokenLine) \in Seq(Lines)
      BY <2>1, <3>2
    <3> QED
      BY <3>1, <3>2, <3>3
  <2>4. faults' \in 0..MaxFaults
    BY <1>4, StreamAssumption DEF Disconnect, Fault
  <2> QED
    BY <1>4, <2>3, <2>4 DEF Disconnect
<1> QED
  BY <1>1, <1>2, <1>3, <1>4

\* The connection and the end of the reader.
LEMMA ConnectionStep ==
  ASSUME IInv,
         Connect \/ ConnectFails \/ Wake \/ TestRunning \/ EndOfStream \/ EndReader
  PROVE  IInv'
<1> USE DEF IInv, TypeOK, BroadcastInv, core, channel, service, caches, emitters,
            screens, database, around, Emitters
<1>1. CASE Connect
  BY <1>1 DEF Connect
<1>2. CASE ConnectFails
  <2>1. faults' \in 0..MaxFaults
    BY <1>2, StreamAssumption DEF ConnectFails, Fault
  <2> QED
    BY <1>2, <2>1 DEF ConnectFails
<1>3. CASE Wake
  BY <1>3 DEF Wake
<1>4. CASE TestRunning
  BY <1>4 DEF TestRunning
<1>5. CASE EndOfStream
  BY <1>5 DEF EndOfStream
<1>6. CASE EndReader
  <2>1. stream' \in Seq(Lines) /\ stage' = stage
    BY <1>6 DEF EndReader
  <2>2. pending = {} /\ pending' = {}
    BY <1>6 DEF EndReader
  <2> QED
    BY <1>6, <2>1, <2>2 DEF EndReader
<1> QED
  BY <1>1, <1>2, <1>3, <1>4, <1>5, <1>6

\* A line is read.
LEMMA LineStep ==
  ASSUME IInv, SkipLine \/ ReadHolding \/ ReadTrade
  PROVE  IInv'
<1> USE DEF IInv, TypeOK, BroadcastInv, core, channel, service, caches, emitters,
            screens, database, around, Emitters, TakeLine
<1>1. Head(stream) \in Lines /\ stream' \in Seq(Lines)
  <2>1. stream \in Seq(Lines) /\ stream # <<>> /\ stream' = Tail(stream)
    BY DEF SkipLine, ReadHolding, ReadTrade
  <2> QED
    BY <2>1, HeadTailProperties
<1>2. CASE SkipLine
  BY <1>1, <1>2 DEF SkipLine
<1>3. CASE ReadHolding
  <2>1. Head(stream).code \in Codes /\ Head(stream).value \in 0..MaxValue
    BY <1>1, <1>3, LineFields DEF ReadHolding
  <2>2. latest' \in Holdings
    BY <1>3, <2>1 DEF ReadHolding, Holdings
  <2> QED
    BY <1>1, <1>3, <2>2 DEF ReadHolding
<1>4. CASE ReadTrade
  <2> DEFINE t == Head(stream).trade
  <2>1. t \in Trades
    BY <1>1, <1>4, LineFields DEF ReadTrade
  <2>2. CASE Known(t)
    BY <1>1, <1>4, <2>2 DEF ReadTrade
  <2>3. CASE ~Known(t)
    <3>1. latestTrades' = Append(latestTrades, t)
      BY <1>4, <2>3 DEF ReadTrade
    <3>2. latestTrades' \in Seq(Trades) /\ Len(latestTrades') = Len(latestTrades) + 1
      BY <2>1, <3>1
    <3>3. latestTrades' # <<>> /\ latestTrades'[Len(latestTrades')] = t
      BY <2>1, <3>1, <3>2
    <3>4. \A i, j \in DOMAIN latestTrades' : latestTrades'[i] = latestTrades'[j] => i = j
      <4>1. \A i \in 1..Len(latestTrades) : latestTrades'[i] = latestTrades[i]
        BY <2>1, <3>1
      <4>2. \A i \in 1..Len(latestTrades) : latestTrades'[i] # t
        BY <2>3, <4>1 DEF Known
      <4>3. DOMAIN latestTrades' = 1..(Len(latestTrades) + 1)
        BY <3>2
      <4> SUFFICES ASSUME NEW i \in 1..(Len(latestTrades) + 1),
                          NEW j \in 1..(Len(latestTrades) + 1),
                          latestTrades'[i] = latestTrades'[j]
                   PROVE  i = j
        BY <4>3
      <4>4. CASE i = Len(latestTrades) + 1 \/ j = Len(latestTrades) + 1
        BY <3>2, <3>3, <4>2, <4>4
      <4>5. CASE i \in 1..Len(latestTrades) /\ j \in 1..Len(latestTrades)
        BY <4>1, <4>5
      <4> QED
        BY <4>4, <4>5
    <3>5. line' = Head(stream) /\ reader' = "broadcast"
      BY <1>4, <2>3 DEF ReadTrade
    <3> QED
      BY <1>1, <1>4, <3>2, <3>3, <3>4, <3>5 DEF ReadTrade
  <2> QED
    BY <2>2, <2>3
<1> QED
  BY <1>2, <1>3, <1>4

\* A line is passed on.
LEMMA BroadcastStep ==
  ASSUME IInv, BeginBroadcast \/ (\E s \in Subscribers : SendTo(s)) \/ EndBroadcast
  PROVE  IInv'
<1> USE DEF IInv, TypeOK, BroadcastInv, core, channel, service, caches, emitters,
            screens, database, around, Emitters
<1>1. CASE BeginBroadcast
  BY <1>1 DEF BeginBroadcast
<1>2. ASSUME NEW s \in Subscribers, SendTo(s) PROVE IInv'
  <2>1. line \in Lines /\ line.type \in {"holding", "trade"}
    BY <1>2, NoLineIsPlain DEF SendTo
  <2>2. CASE browser[s] = "open"
    <3>1. CASE line.type = "trade"
      <4>1. line.trade \in Trades
        BY <2>1, <3>1, LineFields
      <4>2. received' = [received EXCEPT ![s] = Append(@, line.trade)]
        BY <1>2, <2>2, <3>1 DEF SendTo
      <4>3. received' \in [Subscribers -> Seq(Trades)]
        BY <4>1, <4>2
      <4> QED
        BY <1>2, <2>2, <3>1, <4>2, <4>3 DEF SendTo
    <3>2. CASE line.type # "trade"
      <4>1. line.code \in Codes /\ line.value \in 0..MaxValue
        BY <2>1, <3>2, LineFields
      <4>2. shown' = [shown EXCEPT ![s] = [shown[s] EXCEPT ![line.code] = line.value]]
        BY <1>2, <2>2, <3>2 DEF SendTo
      <4>3. [shown[s] EXCEPT ![line.code] = line.value] \in Holdings
        BY <4>1 DEF Holdings
      <4>4. shown' \in [Subscribers -> Holdings]
        BY <4>2, <4>3
      <4> QED
        BY <1>2, <2>2, <3>2, <4>4 DEF SendTo
    <3> QED
      BY <3>1, <3>2
  <2>3. CASE browser[s] = "left"
    BY <1>2, <2>3 DEF SendTo
  <2> QED
    BY <1>2, <2>2, <2>3 DEF SendTo
<1>3. CASE EndBroadcast
  BY <1>3 DEF EndBroadcast
<1> QED
  BY <1>1, <1>2, <1>3

\* A snapshot is saved, or not, and time passes.
LEMMA SaveStep ==
  ASSUME IInv, SaveTooSoon \/ Save \/ SaveFails \/ Elapse
  PROVE  IInv'
<1> USE DEF IInv, TypeOK, BroadcastInv, core, channel, service, caches, emitters,
            screens, database, around, Emitters, SaveEnds
<1>1. CASE SaveTooSoon \/ Save \/ Elapse
  BY <1>1 DEF SaveTooSoon, Save, Elapse
<1>2. CASE SaveFails
  <2>1. faults' \in 0..MaxFaults
    BY <1>2, StreamAssumption DEF SaveFails, Fault
  <2> QED
    BY <1>2, <2>1 DEF SaveFails
<1> QED
  BY <1>1, <1>2

\* The other threads, the browsers and the life of the process.
LEMMA OtherStep ==
  ASSUME IInv,
         \/ \E s \in Subscribers : Subscribe(s) \/ Leave(s) \/ RemoveEmitter(s)
         \/ Stop
         \/ Restart
         \/ UNCHANGED vars
  PROVE  IInv'
<1> USE DEF IInv, TypeOK, BroadcastInv, core, channel, service, caches, emitters,
            screens, database, around, Emitters
<1>1. NoStock \in Holdings
  BY StreamAssumption DEF NoStock, Holdings
<1>2. ASSUME NEW s \in Subscribers, Subscribe(s) \/ Leave(s) PROVE IInv'
  <2>1. /\ browser' \in {[browser EXCEPT ![s] = "open"], [browser EXCEPT ![s] = "left"]}
        /\ received' = [received EXCEPT ![s] = <<>>]
        /\ shown' = [shown EXCEPT ![s] = NoStock]
    BY <1>2 DEF Subscribe, Leave, Opened
  <2>2. /\ shown' \in [Subscribers -> Holdings]
        /\ browser' \in [Subscribers -> {"none", "open", "left"}]
    BY <1>1, <2>1
  <2>3. received' \in [Subscribers -> Seq(Trades)]
    BY <2>1
  <2>4. UNCHANGED <<held, traded, reports, link, stage, stream, reader, running, line,
                    latest, latestTrades, pending, gate, stored, faults>>
    BY <1>2 DEF Subscribe, Leave
  <2>5. TypeOK'
    BY <2>1, <2>2, <2>3, <2>4
  <2>6. BroadcastInv'
    BY <2>1, <2>4
  <2> QED
    BY <2>5, <2>6
<1>3. ASSUME NEW s \in Subscribers, RemoveEmitter(s) PROVE IInv'
  BY <1>3 DEF RemoveEmitter
<1>4. CASE Stop
  <2>1. faults' \in 0..MaxFaults
    BY <1>4, StreamAssumption DEF Stop, Fault
  <2> QED
    BY <1>4, <2>1 DEF Stop
<1>5. CASE Restart
  <2>1. faults' \in 0..MaxFaults
    BY <1>5, StreamAssumption DEF Restart, Fault
  <2>2. /\ latest' \in Holdings
        /\ shown' \in [Subscribers -> Holdings]
    BY <1>1, <1>5 DEF Restart
  <2>3. /\ received' \in [Subscribers -> Seq(Trades)]
        /\ stream' \in Seq(Lines)
        /\ latestTrades' \in Seq(Trades)
        /\ \A i, j \in DOMAIN latestTrades' : latestTrades'[i] = latestTrades'[j] => i = j
    BY <1>5 DEF Restart
  <2>4. /\ UNCHANGED <<held, traded, reports, stage, stored>>
        /\ link' = FALSE /\ reader' = "connect" /\ running' = TRUE /\ line' = NoLine
        /\ browser' = [s \in Subscribers |-> "none"] /\ pending' = {} /\ gate' = "never"
    BY <1>5 DEF Restart
  <2>6. TypeOK'
    BY <2>1, <2>2, <2>3, <2>4
  <2>5. BroadcastInv'
    BY <1>5 DEF Restart
  <2> QED
    BY <2>5, <2>6
<1>6. CASE UNCHANGED vars
  BY <1>6 DEF vars
<1> QED
  BY <1>2, <1>3, <1>4, <1>5, <1>6

LEMMA IInvStep == IInv /\ [Next]_vars => IInv'
  BY ChannelStep, ConnectionStep, LineStep, BroadcastStep, SaveStep, OtherStep
     DEF Next, ConnectLoop

LEMMA IInvHolds == Spec => []IInv
  BY IInvInit, IInvStep, PTL DEF Spec

\* Every variable keeps its type, and no trade is known twice, whatever is sent
\* again after a lost connection (HoldingStreamService.java:246-253).
THEOREM TypeCorrect == Spec => []TypeOK
<1>1. IInv => TypeOK
  BY DEF IInv
<1> QED
  BY <1>1, IInvHolds, PTL

-----------------------------------------------------------------------------
(* Refinement.                                                             *)

\* While nothing is being sent, the abstract inboxes are the received trades.
LEMMA InboxAtRest ==
  ASSUME IInv, pending = {}
  PROVE  [s \in Subscribers |->
            IF s \in pending \cap Subscribed /\ line.type = "trade"
            THEN Append(received[s], line.trade) ELSE received[s]] = received
  BY DEF IInv, TypeOK

LEMMA FeedInit == Init => Feed!Init
<1> SUFFICES ASSUME Init PROVE Feed!Init
  OBVIOUS
<1>1. IInv /\ pending = {} /\ Subscribed = {}
  BY IInvInit DEF Init, Subscribed
<1> QED
  BY <1>1, InboxAtRest DEF Init, Feed!Init

\* The steps that leave the trades, the browsers and the broadcast alone.
LEMMA FeedStutter ==
  ASSUME UNCHANGED <<latestTrades, browser, received>>,
         \/ UNCHANGED <<pending, line, reader>>
         \/ /\ UNCHANGED pending /\ pending = {}
            /\ ~(reader = "broadcast" /\ line.type = "trade")
            /\ ~(reader' = "broadcast" /\ line'.type = "trade")
  PROVE  UNCHANGED Feed!vars
  BY DEF Feed!vars, Subscribed

\* A trade that is not known is posted.
LEMMA FeedReadTrade ==
  ASSUME IInv, ReadTrade, ~Known(Head(stream).trade)
  PROVE  Feed!Next
<1> DEFINE t == Head(stream).trade
<1>1. t \in Trades /\ latestTrades \in Seq(Trades)
  BY HeadTailProperties, LineFields DEF IInv, TypeOK, ReadTrade, TakeLine
<1>2. /\ latestTrades' = Append(latestTrades, t)
      /\ line' = Head(stream) /\ line'.type = "trade"
      /\ reader = "read" /\ reader' = "broadcast"
      /\ UNCHANGED <<browser, pending, received>>
  BY DEF ReadTrade, TakeLine, emitters, around, screens
<1>3. pending = {} /\ pending' = {}
  BY <1>2 DEF IInv, BroadcastInv
<1>4. Len(latestTrades') - 1 = Len(latestTrades)
  BY <1>1, <1>2
<1>5. Feed!Post(t)
  BY <1>2, <1>3, <1>4 DEF Feed!Post, Feed!Posted, Known, Subscribed
<1> QED
  BY <1>1, <1>5 DEF Feed!Next

\* Taking the lock for a trade delivers it to all subscribers.
LEMMA FeedBeginBroadcast ==
  ASSUME IInv, BeginBroadcast, line.type = "trade"
  PROVE  Feed!Deliver
<1>1. /\ reader = "broadcast" /\ reader' = "sending" /\ pending' = Emitters
      /\ UNCHANGED <<latestTrades, browser, received, line>>
  BY DEF BeginBroadcast, caches, around, screens
<1>2. /\ pending = {} /\ latestTrades # <<>> /\ latestTrades \in Seq(Trades)
      /\ latestTrades[Len(latestTrades)] = line.trade
  BY <1>1 DEF IInv, TypeOK, BroadcastInv
<1>3. Len(latestTrades) \in Nat /\ Len(latestTrades) - 1 < Len(latestTrades)
      /\ Len(latestTrades) - 1 + 1 = Len(latestTrades)
  BY <1>2
<1>4. Subscribed \subseteq Emitters /\ Subscribed' = Subscribed
  BY <1>1 DEF Subscribed, Emitters
<1> QED
  BY <1>1, <1>2, <1>3, <1>4 DEF Feed!Deliver

\* Sending it to one of them is the abstract delivery coming true.
LEMMA FeedSendTo ==
  ASSUME IInv, NEW s \in Subscribers, SendTo(s)
  PROVE  UNCHANGED Feed!vars
<1>1. /\ reader = "sending" /\ s \in pending /\ pending' = pending \ {s}
      /\ UNCHANGED <<latestTrades, line, reader>>
  BY DEF SendTo, service, caches
<1>2. Subscribed' = Subscribed
  BY DEF SendTo, Subscribed, IInv, TypeOK
<1>3. CASE browser[s] = "open" /\ line.type = "trade"
  <2>1. received' = [received EXCEPT ![s] = Append(received[s], line.trade)]
    BY <1>3 DEF SendTo
  <2>2. s \in Subscribed
    BY <1>3 DEF Subscribed
  <2> QED
    BY <1>1, <1>2, <1>3, <2>1, <2>2 DEF Feed!vars, IInv, TypeOK
<1>4. CASE ~(browser[s] = "open" /\ line.type = "trade")
  <2>1. received' = received
    BY <1>4 DEF SendTo, screens
  <2>2. s \notin Subscribed \/ line.type # "trade"
    BY <1>4 DEF Subscribed
  <2> QED
    BY <1>1, <1>2, <2>1, <2>2 DEF Feed!vars
<1> QED
  BY <1>3, <1>4

\* Browsers come and go, in the middle of a broadcast too.
LEMMA FeedSubscribe ==
  ASSUME IInv, NEW s \in Subscribers, Subscribe(s)
  PROVE  Feed!Subscribe(s)
<1>1. /\ browser[s] = "none" /\ reader # "sending"
      /\ browser' = [browser EXCEPT ![s] = "open"]
      /\ received' = [received EXCEPT ![s] = <<>>]
      /\ UNCHANGED <<latestTrades, line, reader, pending>>
  BY DEF Subscribe, Opened, service, caches
<1>2. pending = {} /\ received[s] = <<>>
  BY <1>1 DEF IInv, BroadcastInv
<1>3. received' = received
  BY <1>1, <1>2 DEF IInv, TypeOK
<1>4. s \notin Subscribed /\ Subscribed' = Subscribed \cup {s}
  BY <1>1 DEF Subscribed, IInv, TypeOK
<1> QED
  BY <1>1, <1>2, <1>3, <1>4 DEF Feed!Subscribe

LEMMA FeedLeave ==
  ASSUME IInv, NEW s \in Subscribers, Leave(s)
  PROVE  Feed!Unsubscribe(s)
<1>1. /\ browser[s] = "open"
      /\ browser' = [browser EXCEPT ![s] = "left"]
      /\ received' = [received EXCEPT ![s] = <<>>]
      /\ UNCHANGED <<latestTrades, line, reader, pending>>
  BY DEF Leave, service, caches
<1>2. s \in Subscribed /\ Subscribed' = Subscribed \ {s}
  BY <1>1 DEF Subscribed, IInv, TypeOK
<1> QED
  BY <1>1, <1>2 DEF Feed!Unsubscribe, IInv, TypeOK

LEMMA FeedRestart ==
  ASSUME Restart
  PROVE  Feed!Forget
<1>1. Subscribed' = {} /\ pending' = {} /\ latestTrades' = <<>> /\ reader' = "connect"
      /\ received' = [s \in Subscribers |-> <<>>]
  BY DEF Restart, Subscribed
<1> QED
  BY <1>1 DEF Feed!Forget

LEMMA FeedStep == IInv /\ [Next]_vars => [Feed!Next]_Feed!vars
<1> SUFFICES ASSUME IInv, [Next]_vars PROVE Feed!Next \/ UNCHANGED Feed!vars
  BY DEF Feed!vars
<1> USE DEF core, channel, service, caches, emitters, screens, database, around
<1>1. CASE (\E c \in Codes, v \in 0..MaxValue : Report(c, v))
           \/ (\E t \in Trades : Trade(t)) \/ ClientLoop \/ Disconnect
  BY <1>1, FeedStutter
     DEF Report, Trade, ClientLoop, CopyHoldings, CopyTrades, Disconnect
<1>2. CASE Connect \/ ConnectFails \/ Wake \/ TestRunning \/ EndOfStream \/ EndReader
  BY <1>2, FeedStutter
     DEF Connect, ConnectFails, Wake, TestRunning, EndOfStream, EndReader, IInv,
         BroadcastInv
<1>3. CASE SkipLine \/ ReadHolding
  BY <1>3, FeedStutter DEF SkipLine, ReadHolding, TakeLine, IInv, BroadcastInv
<1>4. CASE ReadTrade
  <2>1. CASE Known(Head(stream).trade)
    BY <1>4, <2>1, FeedStutter DEF ReadTrade, TakeLine, IInv, BroadcastInv
  <2> QED
    BY <1>4, <2>1, FeedReadTrade
<1>5. CASE BeginBroadcast
  <2>1. CASE line.type = "trade"
    BY <1>5, <2>1, FeedBeginBroadcast DEF Feed!Next
  <2>2. CASE line.type # "trade"
    BY <1>5, <2>2 DEF BeginBroadcast, Feed!vars, Subscribed
  <2> QED
    BY <2>1, <2>2
<1>6. CASE \E s \in Subscribers : SendTo(s)
  BY <1>6, FeedSendTo
<1>7. CASE EndBroadcast
  BY <1>7, FeedStutter DEF EndBroadcast
<1>8. CASE SaveTooSoon \/ Save \/ SaveFails \/ Elapse
  BY <1>8, FeedStutter
     DEF SaveTooSoon, Save, SaveFails, SaveEnds, Elapse, IInv, BroadcastInv
<1>9. ASSUME NEW s \in Subscribers, Subscribe(s) \/ Leave(s) PROVE Feed!Next
  BY <1>9, FeedSubscribe, FeedLeave DEF Feed!Next
<1>10. ASSUME NEW s \in Subscribers, RemoveEmitter(s) PROVE UNCHANGED Feed!vars
  <2>1. Subscribed' = Subscribed
    BY <1>10 DEF RemoveEmitter, Subscribed, IInv, TypeOK
  <2> QED
    BY <1>10, <2>1 DEF RemoveEmitter, Feed!vars
<1>11. CASE Stop \/ UNCHANGED vars
  BY <1>11, FeedStutter DEF Stop, vars
<1>12. CASE Restart
  BY <1>12, FeedRestart DEF Feed!Next
<1> QED
  BY <1>1, <1>2, <1>3, <1>4, <1>5, <1>6, <1>7, <1>8, <1>9, <1>10, <1>11, <1>12
     DEF Next, ConnectLoop

\* The web server's reader, caches and broadcasts implement the abstract feed:
\* each trade is posted once and delivered to all subscribers of the moment
\* before the next (HoldingStreamService.java:78-80, 200-215, 246-255).
THEOREM FeedImplemented == Spec => ImplementsFeed
<1>1. IInv /\ IInv' /\ [Next]_vars => [Feed!Next]_Feed!vars
  BY FeedStep
<1> QED
  BY <1>1, FeedInit, IInvHolds, PTL DEF Spec, ImplementsFeed, Feed!Spec
=============================================================================
