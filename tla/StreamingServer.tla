--------------------------- MODULE StreamingServer ---------------------------
(***************************************************************************)
(* The threads of TradingCore's InterServer/StreamingServer.cpp and the    *)
(* part of main.cpp that starts and stops them: the accept loop, the two   *)
(* polling loops and one detached thread per client.                       *)
(*                                                                         *)
(* A snapshot is the number of lines it makes on the wire.  The sockets    *)
(* belong to the kernel, whose accept, close and send are modelled as the  *)
(* code uses them: see closeWakesAccept.                                   *)
(***************************************************************************)
EXTENDS Integers, Sequences

CONSTANTS
    Conns,     \* connection slots of the peers
    Backlog,   \* the length given to listen (4)
    MaxLines,  \* bound on the lines of either snapshot
    Platforms  \* the values of closeWakesAccept to consider

Pollers == {"holdings", "trades"}

ASSUME ServerAssumption ==
    /\ Backlog \in Nat \ {0}
    /\ MaxLines \in [Pollers -> Nat]
    /\ Platforms \subseteq BOOLEAN

VARIABLES
    main,         \* where main is
    running,      \* the atomic flag of the server
    listenSocket, \* "open", "closed" (the handle is stale), or "none" (-1)
    closeWakesAccept, \* the platform: closing the listening socket ends a
                  \* blocked accept, TRUE of Winsock, FALSE of Linux
    accept,       \* where AcceptLoop is
    accepted,     \* history: connections accepted while running was false
    poller,       \* where each polling loop is
    snapshot,     \* lines in the shared holdings and tradeHistory
    client,       \* where the ClientLoop of each slot is
    stage,        \* what it sends: holdings first, then trades
    left,         \* lines left of its copy of the snapshot
    conn,         \* the connection of each slot
    queue         \* the backlog of the listening socket, oldest first

server == <<running, listenSocket, closeWakesAccept>>
acc    == <<accept, accepted>>
data   == <<poller, snapshot>>
cli    == <<client, stage, left>>
net    == <<conn, queue>>
vars   == <<main, server, acc, data, cli, net>>

MainPC   == {"start", "serving", "stop", "unset", "joinAccept", "joinHoldings",
             "joinTrades", "stopped", "exit"}
AcceptPC == {"off", "check", "call", "blocked", "failed", "sleep", "exited"}
PollerPC == {"off", "wait", "work", "exited"}
ClientPC == {"none", "check", "copy", "send"}

\* "away": not accepted; "up": accepted; "left": the peer closed it; "reset": and
\* the kernel knows, the next send fails.
ConnState == {"away", "up", "left", "reset"}

Queued == {queue[i] : i \in DOMAIN queue}

\* The kernel keeps a socket as long as a call is using it.
Listening == listenSocket = "open" \/ (accept = "blocked" /\ ~closeWakesAccept)

-----------------------------------------------------------------------------
Init ==
    /\ main = "start"
    /\ running = FALSE
    /\ listenSocket = "none"
    /\ closeWakesAccept \in Platforms
    /\ accept = "off"
    /\ accepted = 0
    /\ poller = [p \in Pollers |-> "off"]
    /\ \E n \in 0..MaxLines["holdings"] :
         snapshot = [p \in Pollers |-> IF p = "holdings" THEN n ELSE 0]
    /\ client = [c \in Conns |-> "none"]
    /\ stage = [c \in Conns |-> "holdings"]
    /\ left = [c \in Conns |-> 0]
    /\ conn = [c \in Conns |-> "away"]
    /\ queue = <<>>

-----------------------------------------------------------------------------
(* main, Start and Stop.                                                   *)

\* Start: socket, bind and listen succeed; the three threads run.
Start ==
    /\ main = "start"
    /\ main' = "serving"
    /\ running' = TRUE
    /\ listenSocket' = "open"
    /\ accept' = "check"
    /\ poller' = [p \in Pollers |-> "wait"]
    /\ UNCHANGED <<closeWakesAccept, accepted, snapshot, cli, net>>

\* One of them fails: Start returns false, which main does not look at.
StartFails ==
    /\ main = "start"
    /\ main' = "serving"
    /\ UNCHANGED <<server, acc, data, cli, net>>

\* A signal ends main's loop and main calls Stop, which returns at once if
\* the server does not run.
Signal ==
    /\ main = "serving"
    /\ main' = IF running THEN "stop" ELSE "stopped"
    /\ running' = FALSE
    /\ UNCHANGED <<listenSocket, closeWakesAccept, acc, data, cli, net>>

\* Stop closes the socket.  Connections in the backlog are refused unless a
\* blocked accept still keeps the socket alive.
CloseListenSocket ==
    /\ main = "stop"
    /\ main' = "unset"
    /\ listenSocket' = "closed"
    /\ IF accept = "blocked" /\ closeWakesAccept
       THEN accept' = "failed"
       ELSE UNCHANGED accept
    /\ UNCHANGED <<running, closeWakesAccept, accepted, data, cli, conn>>
    /\ queue' = IF Listening' THEN queue ELSE <<>>

\* ... and only then forgets the handle, which the accept loop reads.
ForgetListenSocket ==
    /\ main = "unset"
    /\ main' = "joinAccept"
    /\ listenSocket' = "none"
    /\ UNCHANGED <<running, closeWakesAccept, acc, data, cli, net>>

\* Mutant: the accept thread is not joined.
JoinPollersOnly ==
    /\ \/ main = "joinAccept"   /\ main' = "joinHoldings"
       \/ main = "joinHoldings" /\ poller["holdings"] = "exited" /\ main' = "joinTrades"
       \/ main = "joinTrades"   /\ poller["trades"] = "exited"   /\ main' = "stopped"
    /\ UNCHANGED <<server, acc, data, cli, net>>

\* The joins, in the order of the code.
Join ==
    /\ \/ main = "joinAccept"   /\ accept = "exited"             /\ main' = "joinHoldings"
       \/ main = "joinHoldings" /\ poller["holdings"] = "exited" /\ main' = "joinTrades"
       \/ main = "joinTrades"   /\ poller["trades"] = "exited"   /\ main' = "stopped"
    /\ UNCHANGED <<server, acc, data, cli, net>>

\* main returns: the process ends, and with it the detached threads and every
\* connection.
Exit ==
    /\ main = "stopped"
    /\ main' = "exit"
    /\ client' = [c \in Conns |-> "none"]
    /\ conn' = [c \in Conns |-> "away"]
    /\ UNCHANGED <<server, acc, data, stage, left, queue>>

-----------------------------------------------------------------------------
(* AcceptLoop.                                                             *)

\* Mutant: while (true)
AcceptCheckAlways ==
    /\ accept = "check"
    /\ accept' = "call"
    /\ UNCHANGED <<main, server, accepted, data, cli, net>>

\* while (running)
AcceptCheck ==
    /\ accept = "check"
    /\ accept' = IF running THEN "call" ELSE "exited"
    /\ UNCHANGED <<main, server, accepted, data, cli, net>>

\* accept on the handle as it reads now: it blocks, or fails on a closed one.
AcceptCall ==
    /\ accept = "call"
    /\ accept' = IF listenSocket = "open" THEN "blocked" ELSE "failed"
    /\ UNCHANGED <<main, server, accepted, data, cli, net>>

\* The kernel hands over the oldest connection of the backlog.  The loop starts
\* a detached thread for it without looking at running again.  With the handle
\* closed meanwhile, the socket dies when the call returns, and the rest of the
\* backlog with it.
AcceptReturns ==
    /\ accept = "blocked"
    /\ queue # <<>>
    /\ accept' = "check"
    /\ accepted' = IF running THEN accepted ELSE accepted + 1
    /\ queue' = IF listenSocket = "open" THEN Tail(queue) ELSE <<>>
    /\ conn' = [conn EXCEPT ![Head(queue)] = "up"]
    /\ client' = [client EXCEPT ![Head(queue)] = "check"]
    /\ UNCHANGED <<main, server, data, stage, left>>

\* The call fails for a reason of the moment (descriptors, an aborted peer).
AcceptTransient ==
    /\ accept = "blocked"
    /\ listenSocket = "open"
    /\ accept' = "failed"
    /\ UNCHANGED <<main, server, accepted, data, cli, net>>

\* Mutant: any failure ends the loop.
AcceptFailedEnds ==
    /\ accept = "failed"
    /\ accept' = "exited"
    /\ UNCHANGED <<main, server, accepted, data, cli, net>>

\* After a failure the loop ends if the server stops, else waits 100 ms.
AcceptFailed ==
    /\ accept = "failed"
    /\ accept' = IF running THEN "sleep" ELSE "exited"
    /\ UNCHANGED <<main, server, accepted, data, cli, net>>

AcceptWake ==
    /\ accept = "sleep"
    /\ accept' = "check"
    /\ UNCHANGED <<main, server, accepted, data, cli, net>>

AcceptLoop ==
    \/ AcceptCheck \/ AcceptCall \/ AcceptReturns \/ AcceptTransient
    \/ AcceptFailed \/ AcceptWake

-----------------------------------------------------------------------------
(* RefrashLoop and TradeHistoryPollingLoop.                                *)

\* Mutant: while (true)
PollAlways(p) ==
    /\ poller[p] = "wait"
    /\ poller' = [poller EXCEPT ![p] = "work"]
    /\ UNCHANGED <<main, server, acc, snapshot, cli, net>>

\* while (running), and before it, but for the first round, the wait in slices
\* of 10 ms that running cuts short.
PollCheck(p) ==
    /\ poller[p] = "wait"
    /\ poller' = [poller EXCEPT ![p] = IF running THEN "work" ELSE "exited"]
    /\ UNCHANGED <<main, server, acc, snapshot, cli, net>>

\* A refresh replaces the snapshot; one that fails, or the off hours, keep it.
Poll(p) ==
    /\ poller[p] = "work"
    /\ poller' = [poller EXCEPT ![p] = "wait"]
    /\ \E n \in 0..MaxLines[p] : snapshot' = [snapshot EXCEPT ![p] = n]
    /\ UNCHANGED <<main, server, acc, cli, net>>

PollLoop(p) == PollCheck(p) \/ Poll(p)

-----------------------------------------------------------------------------
(* ClientLoop.                                                             *)

\* Mutant: the thread ends without closing its socket.
LeakClient(c) ==
    /\ client' = [client EXCEPT ![c] = "none"]
    /\ left' = [left EXCEPT ![c] = 0]
    /\ stage' = [stage EXCEPT ![c] = "holdings"]
    /\ UNCHANGED net

\* The thread closes its socket and ends.
CloseClient(c) ==
    /\ client' = [client EXCEPT ![c] = "none"]
    /\ conn' = [conn EXCEPT ![c] = "away"]
    /\ left' = [left EXCEPT ![c] = 0]
    /\ stage' = [stage EXCEPT ![c] = "holdings"]
    /\ UNCHANGED queue

\* Mutant: while (true)
ClientAlways(c) ==
    /\ client[c] = "check"
    /\ client' = [client EXCEPT ![c] = "copy"]
    /\ UNCHANGED <<main, server, acc, data, stage, left, net>>

\* while (running), and before it, but for the first round, 500 ms of sleep.
ClientCheck(c) ==
    /\ client[c] = "check"
    /\ \/ /\ running
          /\ client' = [client EXCEPT ![c] = "copy"]
          /\ UNCHANGED <<stage, left, net>>
       \/ ~running /\ CloseClient(c)
    /\ UNCHANGED <<main, server, acc, data>>

\* The round begins with a copy of the holdings.  The flag may have fallen since
\* the test.
ClientCopy(c) ==
    /\ client[c] = "copy"
    /\ client' = [client EXCEPT ![c] = "send"]
    /\ stage' = [stage EXCEPT ![c] = "holdings"]
    /\ left' = [left EXCEPT ![c] = snapshot["holdings"]]
    /\ UNCHANGED <<main, server, acc, data, net>>

\* Mutant: a line is sent from an empty snapshot too.
SendAnyLine(c) ==
    /\ client[c] = "send"
    /\ conn[c] \in {"up", "left"}
    /\ left' = [left EXCEPT ![c] = @ - 1]
    /\ conn' = [conn EXCEPT ![c] = IF @ = "left" THEN "reset" ELSE @]
    /\ UNCHANGED <<main, server, acc, data, client, stage, queue>>

\* send of one line.  The first one after the peer has left still succeeds, and
\* makes the peer's host reset the connection.
SendLine(c) ==
    /\ client[c] = "send"
    /\ left[c] > 0
    /\ conn[c] \in {"up", "left"}
    /\ left' = [left EXCEPT ![c] = @ - 1]
    /\ conn' = [conn EXCEPT ![c] = IF @ = "left" THEN "reset" ELSE @]
    /\ UNCHANGED <<main, server, acc, data, client, stage, queue>>

\* Mutant: the result of send is ignored.
SendGoesOn(c) ==
    /\ client[c] = "send"
    /\ left[c] > 0
    /\ conn[c] = "reset"
    /\ left' = [left EXCEPT ![c] = @ - 1]
    /\ UNCHANGED <<main, server, acc, data, client, stage, net>>

\* send fails: the thread closes the socket and returns.
SendFails(c) ==
    /\ client[c] = "send"
    /\ left[c] > 0
    /\ conn[c] = "reset"
    /\ CloseClient(c)
    /\ UNCHANGED <<main, server, acc, data>>

\* Mutant: the thread ends with the stream of its first round.
EndOfStream(c) ==
    /\ client[c] = "send"
    /\ left[c] = 0
    /\ \/ /\ stage[c] = "holdings"
          /\ stage' = [stage EXCEPT ![c] = "trades"]
          /\ left' = [left EXCEPT ![c] = snapshot["trades"]]
          /\ UNCHANGED <<client, net>>
       \/ stage[c] = "trades" /\ CloseClient(c)
    /\ UNCHANGED <<main, server, acc, data>>

\* After the holdings a copy of the trades, whatever the flag says by then; after
\* the trades the next round.
EndOfLines(c) ==
    /\ client[c] = "send"
    /\ left[c] = 0
    /\ \/ /\ stage[c] = "holdings"
          /\ stage' = [stage EXCEPT ![c] = "trades"]
          /\ left' = [left EXCEPT ![c] = snapshot["trades"]]
          /\ UNCHANGED client
       \/ /\ stage[c] = "trades"
          /\ client' = [client EXCEPT ![c] = "check"]
          /\ stage' = [stage EXCEPT ![c] = "holdings"]
          /\ UNCHANGED left
    /\ UNCHANGED <<main, server, acc, data, net>>

ClientLoop(c) ==
    ClientCheck(c) \/ ClientCopy(c) \/ SendLine(c) \/ SendFails(c) \/ EndOfLines(c)

-----------------------------------------------------------------------------
(* The peers: external, as the kernel shows them to the server.            *)

\* A peer connects; the kernel queues it while the backlog has room.
Connect(c) ==
    /\ conn[c] = "away" /\ c \notin Queued
    /\ Listening
    /\ Len(queue) < Backlog
    /\ queue' = Append(queue, c)
    /\ UNCHANGED <<main, server, acc, data, cli, conn>>

\* A peer closes its connection.
Leave(c) ==
    /\ conn[c] = "up"
    /\ conn' = [conn EXCEPT ![c] = "left"]
    /\ UNCHANGED <<main, server, acc, data, cli, queue>>

-----------------------------------------------------------------------------
Stopping == CloseListenSocket \/ ForgetListenSocket \/ Join

Next ==
    \/ Start \/ StartFails \/ Signal \/ Stopping \/ Exit
    \/ AcceptLoop
    \/ \E p \in Pollers : PollLoop(p)
    \/ \E c \in Conns : ClientLoop(c) \/ Connect(c) \/ Leave(c)

Spec == Init /\ [][Next]_vars

\* Every thread that can go on does.  In particular send returns, which a peer
\* that stops reading would prevent, and a broker call returns.  An accept that is
\* tried again and again while a connection waits does not fail every time.
ThreadFairness ==
    /\ WF_vars(Stopping)
    /\ WF_vars(AcceptLoop) /\ SF_vars(AcceptReturns)
    /\ \A p \in Pollers : WF_vars(PollLoop(p))
    /\ \A c \in Conns : WF_vars(ClientLoop(c))

FairSpec == Spec /\ ThreadFairness

\* Peers that connect whenever they can, as HoldingStreamService.ConnectLoop
\* does after every disconnection; Winsock needs none.
ReconnectingSpec ==
    /\ FairSpec
    /\ \A c \in Conns : WF_vars(~closeWakesAccept /\ Connect(c))

-----------------------------------------------------------------------------
(* Properties.                                                             *)

TypeOK ==
    /\ main \in MainPC
    /\ running \in BOOLEAN
    /\ listenSocket \in {"open", "closed", "none"}
    /\ closeWakesAccept \in Platforms
    /\ accept \in AcceptPC
    /\ accepted \in Nat
    /\ poller \in [Pollers -> PollerPC]
    /\ snapshot \in [Pollers -> Nat]
    /\ \A p \in Pollers : snapshot[p] <= MaxLines[p]
    /\ client \in [Conns -> ClientPC]
    /\ stage \in [Conns -> Pollers]
    /\ left \in [Conns -> Nat]
    /\ \A c \in Conns : left[c] <= MaxLines[stage[c]]
    /\ conn \in [Conns -> ConnState]
    /\ queue \in Seq(Conns) /\ Len(queue) <= Backlog

\* Every accepted connection has a thread that will close it, and no thread
\* outlives its socket, on every path out of ClientLoop
\* (StreamingServer.cpp:176-177, 220-238, 272-302).
SocketsAreOwned ==
    \A c \in Conns : client[c] # "none" <=> conn[c] \in {"up", "left", "reset"}

\* Once Stop has returned, the three joined threads are over, no peer waits in
\* a backlog that nobody serves, and no new client can come in.
StoppedServerIsDeaf ==
    main \in {"stopped", "exit"} =>
        /\ accept \in {"off", "exited"}
        /\ \A p \in Pollers : poller[p] \in {"off", "exited"}
        /\ ~Listening /\ queue = <<>>

\* A stopping server lets at most one more client in: the accept that was
\* blocked when the flag fell (StreamingServer.cpp:150-177).
AtMostOneLateClient == accepted <= 1

\* Stop returns (main.cpp:42, StreamingServer.cpp:118-146).
StopReturns == main = "stop" ~> main = "stopped"

\* A connection in the backlog is served or refused, however often the peers
\* before it leave and come back.
QueuedAreServed == \A c \in Conns : c \in Queued ~> c \notin Queued

\* A client whose peer has left is noticed and its thread ends, provided there
\* is always something to send: empty snapshots would keep it forever, and so
\* would snapshots that take turns at being empty when it looks
\* (StreamingServer.cpp:196-292).
DeadClientsEnd ==
    (\E p \in Pollers : <>[](snapshot[p] > 0)) =>
        \A c \in Conns : [](conn[c] = "left" => <>(client[c] = "none"))

\* Detached or not, the client threads end after Stop if the process lets them.
ClientsEnd == main = "stopped" ~> \A c \in Conns : client[c] = "none"

\* In the abstract service a peer is served while its thread lives, and closing
\* begins with the flag.
Phase ==
    IF running THEN "open"
    ELSE IF main \in {"start", "serving"} THEN "unopened"
    ELSE IF main \in {"stopped", "exit"} THEN "closed"
    ELSE "closing"

Served  == {c \in Conns : client[c] # "none"}
Gone    == {c \in Conns : conn[c] \in {"left", "reset"}}
Sending == {c \in Conns : client[c] = "send"}
Due     == IF running THEN {} ELSE {c \in Conns : client[c] = "copy"}

Service == INSTANCE StreamService WITH
    Peers <- Conns, phase <- Phase, waiting <- Queued, served <- Served,
    gone <- Gone, sent <- Sending, due <- Due, late <- accepted

\* A running server refuses no peer and drops none that has not left; one that
\* stops finishes the rounds it has begun unless their peer has left, begins one
\* more only for those whose thread had passed its test when the flag fell, none
\* for the client it lets in late, and when Stop has returned it has settled with
\* all who waited (StreamingServer.cpp:118-179, 187-303).
ImplementsService == Service!Spec
=============================================================================
