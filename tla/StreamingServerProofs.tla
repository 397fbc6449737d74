----------------------- MODULE StreamingServerProofs -----------------------
(***************************************************************************)
(* Proofs about StreamingServer, for any number of connections and either  *)
(* behaviour of close on a blocked accept.                                 *)
(***************************************************************************)
EXTENDS StreamingServer, TLAPS

-----------------------------------------------------------------------------
(* Type correctness.                                                       *)

LEMMA TypeInit == Init => TypeOK
<1> SUFFICES ASSUME Init PROVE TypeOK
  OBVIOUS
<1>1. snapshot \in [Pollers -> Nat] /\ \A p \in Pollers : snapshot[p] <= MaxLines[p]
  BY ServerAssumption DEF Init, Pollers
<1>2. accepted \in Nat /\ queue \in Seq(Conns) /\ Len(queue) <= Backlog
  BY ServerAssumption DEF Init
<1>3. left \in [Conns -> Nat] /\ \A c \in Conns : left[c] <= MaxLines[stage[c]]
  BY ServerAssumption DEF Init, Pollers
<1>4. /\ client \in [Conns -> ClientPC] /\ stage \in [Conns -> Pollers]
      /\ conn \in [Conns -> ConnState] /\ poller \in [Pollers -> PollerPC]
  BY DEF Init, ClientPC, Pollers, ConnState, PollerPC
<1>5. /\ main \in MainPC /\ running \in BOOLEAN /\ accept \in AcceptPC
      /\ listenSocket \in {"open", "closed", "none"}
      /\ closeWakesAccept \in Platforms
  BY DEF Init, MainPC, AcceptPC
<1> QED
  BY <1>1, <1>2, <1>3, <1>4, <1>5 DEF TypeOK

LEMMA TypeStep == TypeOK /\ [Next]_vars => TypeOK'
<1> SUFFICES ASSUME TypeOK, [Next]_vars PROVE TypeOK'
  OBVIOUS
<1> USE DEF TypeOK, server, acc, data, cli, net
<1>1. CASE Start \/ StartFails \/ Signal
  BY <1>1 DEF Start, StartFails, Signal, MainPC, AcceptPC, PollerPC
<1>2. CASE Stopping \/ Exit
  <2>1. <<>> \in Seq(Conns) /\ Len(<<>>) <= Backlog
    BY ServerAssumption
  <2> QED
    BY <1>2, <2>1
       DEF Stopping, CloseListenSocket, ForgetListenSocket, Join, Exit, MainPC,
           AcceptPC, ClientPC, ConnState
<1>3. CASE AcceptLoop
  <2>1. CASE AcceptReturns
    <3>1. /\ Head(queue) \in Conns
          /\ Tail(queue) \in Seq(Conns) /\ Len(Tail(queue)) <= Backlog
          /\ <<>> \in Seq(Conns) /\ Len(<<>>) <= Backlog
      BY <2>1, ServerAssumption DEF AcceptReturns
    <3> QED
      BY <2>1, <3>1 DEF AcceptReturns, AcceptPC, ClientPC, ConnState
  <2>2. CASE ~AcceptReturns
    BY <1>3, <2>2
       DEF AcceptLoop, AcceptCheck, AcceptCall, AcceptTransient, AcceptFailed,
           AcceptWake, AcceptPC
  <2> QED
    BY <2>1, <2>2
<1>4. ASSUME NEW p \in Pollers, PollLoop(p) PROVE TypeOK'
  <2>1. snapshot' \in [Pollers -> Nat] /\ \A q \in Pollers : snapshot'[q] <= MaxLines[q]
    <3>1. CASE Poll(p)
      <4>1. PICK n \in 0..MaxLines[p] : snapshot' = [snapshot EXCEPT ![p] = n]
        BY <3>1 DEF Poll
      <4>2. n \in Nat /\ n <= MaxLines[p]
        BY <4>1, ServerAssumption
      <4> QED
        BY <4>1, <4>2
    <3>2. CASE PollCheck(p)
      BY <3>2 DEF PollCheck
    <3> QED
      BY <1>4, <3>1, <3>2 DEF PollLoop
  <2>2. poller' \in [Pollers -> PollerPC]
    BY <1>4 DEF PollLoop, PollCheck, Poll, PollerPC
  <2> QED
    BY <1>4, <2>1, <2>2 DEF PollLoop, PollCheck, Poll
<1>5. ASSUME NEW c \in Conns, ClientLoop(c) PROVE TypeOK'
  <2>1. UNCHANGED <<main, server, acc, data, queue>>
    BY <1>5 DEF ClientLoop, ClientCheck, ClientCopy, SendLine, SendFails, EndOfLines,
                CloseClient
  <2>2. client' \in [Conns -> ClientPC] /\ conn' \in [Conns -> ConnState]
    BY <1>5 DEF ClientLoop, ClientCheck, ClientCopy, SendLine, SendFails, EndOfLines,
                CloseClient, ClientPC, ConnState
  <2>3. PICK s \in Pollers, n \in Nat :
          /\ n <= MaxLines[s]
          /\ stage' = [stage EXCEPT ![c] = s] /\ left' = [left EXCEPT ![c] = n]
    <3>1. /\ "holdings" \in Pollers /\ "trades" \in Pollers
          /\ 0 \in Nat /\ 0 <= MaxLines["holdings"]
          /\ stage = [stage EXCEPT ![c] = stage[c]] /\ left = [left EXCEPT ![c] = left[c]]
      BY ServerAssumption DEF Pollers
    <3>2. CASE CloseClient(c)
      BY <3>1, <3>2 DEF CloseClient
    <3>3. CASE ClientCheck(c) /\ ~CloseClient(c)
      BY <3>1, <3>3 DEF ClientCheck
    <3>4. CASE SendLine(c)
      <4>1. left[c] - 1 \in Nat /\ left[c] - 1 <= MaxLines[stage[c]]
        BY <3>4, ServerAssumption DEF SendLine
      <4> QED
        BY <3>1, <3>4, <4>1 DEF SendLine
    <3>5. CASE EndOfLines(c)
      <4>1. CASE stage[c] = "holdings"
        BY <3>1, <3>5, <4>1 DEF EndOfLines
      <4>2. CASE stage[c] = "trades"
        BY <3>1, <3>5, <4>2 DEF EndOfLines
      <4> QED
        BY <4>1, <4>2 DEF Pollers
    <3>6. CASE ClientCopy(c)
      <4>1. snapshot["holdings"] \in Nat /\ snapshot["holdings"] <= MaxLines["holdings"]
        BY <3>1
      <4> QED
        BY <3>1, <3>6, <4>1 DEF ClientCopy
    <3> QED
      BY <1>5, <3>2, <3>3, <3>4, <3>5, <3>6 DEF ClientLoop, SendFails
  <2>4. /\ left' \in [Conns -> Nat] /\ stage' \in [Conns -> Pollers]
        /\ \A d \in Conns : left'[d] <= MaxLines[stage'[d]]
    BY <2>3
  <2> QED
    BY <2>1, <2>2, <2>4
<1>6. ASSUME NEW c \in Conns, Connect(c) \/ Leave(c) PROVE TypeOK'
  <2>1. CASE Connect(c)
    <3>1. Append(queue, c) \in Seq(Conns) /\ Len(Append(queue, c)) <= Backlog
      BY <2>1, ServerAssumption DEF Connect
    <3> QED
      BY <2>1, <3>1 DEF Connect
  <2>2. CASE Leave(c)
    BY <2>2 DEF Leave, ConnState
  <2> QED
    BY <1>6, <2>1, <2>2
<1>7. CASE UNCHANGED vars
  BY <1>7 DEF vars
<1> QED
  BY <1>1, <1>2, <1>3, <1>4, <1>5, <1>6, <1>7 DEF Next

\* Every variable keeps its type; in particular no thread sends more lines than
\* its copy of the snapshot holds.
THEOREM TypeCorrect == Spec => []TypeOK
  BY TypeInit, TypeStep, PTL DEF Spec

-----------------------------------------------------------------------------
(* Ownership of sockets, and what Stop leaves behind.                      *)

\* The three threads exist only between a successful Start and their joins, and
\* a connection waits only for a socket that can still be accepted from.
ThreadsInv ==
    /\ main = "start" => ~running /\ listenSocket = "none"
    /\ main \in {"start", "stopped", "exit"} => accept \in {"off", "exited"}
    /\ main \in {"joinHoldings", "joinTrades"} => accept = "exited"
    /\ \A p \in Pollers :
         main \in {"start", "stopped", "exit"} => poller[p] \in {"off", "exited"}
    /\ main = "joinTrades" => poller["holdings"] = "exited"
    /\ main \notin {"start", "serving"} => ~running
    /\ listenSocket = "open" => main \in {"serving", "stop"}
    /\ running => listenSocket = "open"
    /\ (main = "serving" /\ ~running) \/ main = "start" =>
         /\ accept = "off" /\ listenSocket = "none"
         /\ \A p \in Pollers : poller[p] = "off"
         /\ \A c \in Conns : client[c] = "none"
    /\ queue # <<>> => Listening

\* Nobody is in the backlog twice, or in it and accepted.
QueueInv ==
    /\ \A i, j \in DOMAIN queue : queue[i] = queue[j] => i = j
    /\ \A i \in DOMAIN queue : conn[queue[i]] = "away"

\* A connection accepted after the flag fell left the accept loop at its test.
LateInv ==
    /\ accepted \in {0, 1}
    /\ accepted = 1 => ~running /\ main # "start" /\ accept \in {"check", "exited"}

IInv == TypeOK /\ SocketsAreOwned /\ ThreadsInv /\ QueueInv /\ LateInv

LEMMA IInvInit == Init => IInv
<1> SUFFICES ASSUME Init PROVE IInv
  OBVIOUS
<1>1. SocketsAreOwned /\ ThreadsInv /\ QueueInv /\ LateInv
  BY DEF Init, SocketsAreOwned, ThreadsInv, QueueInv, LateInv
<1> QED
  BY <1>1, TypeInit DEF IInv

LEMMA OwnedStep == IInv /\ [Next]_vars => SocketsAreOwned'
<1> SUFFICES ASSUME IInv, [Next]_vars PROVE SocketsAreOwned'
  OBVIOUS
<1> USE DEF IInv, TypeOK, SocketsAreOwned, server, acc, data, cli, net
<1>1. CASE Start \/ StartFails \/ Signal \/ UNCHANGED vars
  BY <1>1 DEF Start, StartFails, Signal, vars
<1>2. CASE Stopping \/ Exit
  BY <1>2 DEF Stopping, CloseListenSocket, ForgetListenSocket, Join, Exit
<1>3. CASE AcceptReturns
  <2>1. Head(queue) \in Conns
    BY <1>3 DEF AcceptReturns
  <2> QED
    BY <1>3, <2>1 DEF AcceptReturns
<1>4. CASE AcceptLoop /\ ~AcceptReturns
  BY <1>4 DEF AcceptLoop, AcceptCheck, AcceptCall, AcceptTransient, AcceptFailed,
              AcceptWake
<1>5. CASE \E p \in Pollers : PollLoop(p)
  BY <1>5 DEF PollLoop, PollCheck, Poll
<1>6. CASE \E c \in Conns : ClientLoop(c)
  BY <1>6 DEF ClientLoop, ClientCheck, ClientCopy, SendLine, SendFails, EndOfLines,
              CloseClient
<1>7. CASE \E c \in Conns : Connect(c) \/ Leave(c)
  BY <1>7 DEF Connect, Leave
<1> QED
  BY <1>1, <1>2, <1>3, <1>4, <1>5, <1>6, <1>7 DEF Next

\* What is left of the backlog when its head is taken, and with one more at its end.
LEMMA TailAndAppend ==
    ASSUME NEW S, NEW q \in Seq(S),
           \A i, j \in DOMAIN q : q[i] = q[j] => i = j
    PROVE  /\ q # <<>> =>
                /\ Tail(q) \in Seq(S) /\ Head(q) = q[1] /\ 1 \in DOMAIN q
                /\ DOMAIN Tail(q) = 1..(Len(q) - 1)
                /\ \A i \in DOMAIN Tail(q) :
                     i + 1 \in DOMAIN q /\ Tail(q)[i] = q[i + 1] /\ q[i + 1] # Head(q)
                /\ \A i, j \in DOMAIN Tail(q) : Tail(q)[i] = Tail(q)[j] => i = j
           /\ \A c \in S :
                /\ DOMAIN Append(q, c) = 1..(Len(q) + 1)
                /\ \A i \in DOMAIN q : Append(q, c)[i] = q[i]
                /\ Append(q, c)[Len(q) + 1] = c
<1>1. Len(q) \in Nat /\ DOMAIN q = 1..Len(q) /\ (q # <<>> => Len(q) > 0)
  OBVIOUS
<1>2. ASSUME q # <<>>
      PROVE  /\ Tail(q) \in Seq(S) /\ Head(q) = q[1] /\ 1 \in DOMAIN q
             /\ DOMAIN Tail(q) = 1..(Len(q) - 1)
             /\ \A i \in 1..(Len(q) - 1) : i + 1 \in DOMAIN q /\ Tail(q)[i] = q[i + 1]
  BY <1>1, <1>2
<1> QED
  BY <1>1, <1>2

\* Accepting takes the head of the backlog; only a connection that is neither in it
\* nor accepted joins it.
LEMMA QueueStep == IInv /\ [Next]_vars => QueueInv'
<1> SUFFICES ASSUME IInv, [Next]_vars PROVE QueueInv'
  OBVIOUS
<1> USE DEF IInv, QueueInv, server, acc, data, cli, net
<1>1. CASE UNCHANGED net
  BY <1>1
<1>2. CASE queue' = <<>>
  BY <1>2
<1>3. CASE AcceptReturns /\ queue' # <<>>
  <2>1. /\ queue # <<>> /\ queue' = Tail(queue)
        /\ conn' = [conn EXCEPT ![Head(queue)] = "up"]
    BY <1>3 DEF AcceptReturns
  <2>2. queue \in Seq(Conns) /\ conn \in [Conns -> ConnState]
    BY DEF TypeOK
  <2> QED
    BY <2>1, <2>2, TailAndAppend
<1>4. ASSUME NEW c \in Conns, Connect(c) PROVE QueueInv'
  <2>1. /\ queue' = Append(queue, c) /\ conn' = conn
        /\ conn[c] = "away" /\ \A i \in DOMAIN queue : queue[i] # c
    BY <1>4 DEF Connect, Queued
  <2>2. queue \in Seq(Conns) /\ DOMAIN queue = 1..Len(queue) /\ Len(queue) \in Nat
    BY DEF TypeOK
  <2> QED
    BY <2>1, <2>2, TailAndAppend
<1>5. ASSUME NEW c \in Conns, ClientLoop(c) \/ Leave(c) PROVE QueueInv'
  <2>1. queue' = queue /\ conn[c] # "away"
    BY <1>5 DEF ClientLoop, ClientCheck, ClientCopy, SendLine, SendFails, EndOfLines,
                CloseClient, Leave, SocketsAreOwned, TypeOK
  <2>2. \A d \in Conns \ {c} : conn'[d] = conn[d]
    BY <1>5 DEF ClientLoop, ClientCheck, ClientCopy, SendLine, SendFails, EndOfLines,
                CloseClient, Leave, TypeOK
  <2> QED
    BY <2>1, <2>2 DEF TypeOK
<1>6. CASE Start \/ StartFails \/ Signal \/ UNCHANGED vars
  BY <1>1, <1>6 DEF Start, StartFails, Signal, vars
<1>7. CASE Stopping
  BY <1>1, <1>2, <1>7 DEF Stopping, CloseListenSocket, ForgetListenSocket, Join
<1>8. CASE Exit
  BY <1>8 DEF Exit, TypeOK
<1>9. CASE AcceptLoop
  BY <1>1, <1>2, <1>3, <1>9
     DEF AcceptLoop, AcceptCheck, AcceptCall, AcceptTransient, AcceptFailed, AcceptWake
<1>10. CASE \E p \in Pollers : PollLoop(p)
  BY <1>1, <1>10 DEF PollLoop, PollCheck, Poll
<1> QED
  BY <1>4, <1>5, <1>6, <1>7, <1>8, <1>9, <1>10 DEF Next

\* A step of the accept loop, with or without a running server.
LEMMA AcceptThreads == IInv /\ AcceptLoop => ThreadsInv' /\ LateInv'
<1> SUFFICES ASSUME IInv, AcceptLoop PROVE ThreadsInv' /\ LateInv'
  OBVIOUS
<1> USE DEF IInv, TypeOK, ThreadsInv, LateInv, server, data, net, Listening
<1>1. UNCHANGED <<main, running, listenSocket, poller>> /\ accept \notin {"off", "exited"}
  BY DEF AcceptLoop, AcceptCheck, AcceptCall, AcceptTransient, AcceptFailed,
         AcceptWake, AcceptReturns
<1>2. CASE AcceptReturns
  <2>1. /\ accept = "blocked" /\ accept' = "check"
        /\ accepted' = IF running THEN accepted ELSE accepted + 1
        /\ queue' # <<>> => listenSocket = "open"
    BY <1>2 DEF AcceptReturns
  <2>2. LateInv'
    BY <1>1, <2>1
  <2>3. ThreadsInv'
    BY <1>1, <2>1
  <2> QED
    BY <2>2, <2>3
<1>3. CASE ~AcceptReturns
  <2>1. UNCHANGED <<accepted, queue>>
    BY <1>3 DEF AcceptLoop, AcceptCheck, AcceptCall, AcceptTransient, AcceptFailed,
                AcceptWake
  <2>2. /\ accept = "check" => accept' \in {"call", "exited"} /\ (~running => accept' = "exited")
        /\ accept = "blocked" => listenSocket = "open"
        /\ accept' # "off" /\ (accept' = "exited" => ~running)
    BY <1>3 DEF AcceptLoop, AcceptCheck, AcceptCall, AcceptTransient, AcceptFailed,
                AcceptWake
  <2> QED
    BY <1>1, <2>1, <2>2
<1> QED
  BY <1>2, <1>3

LEMMA MainThreads ==
    IInv /\ (Start \/ StartFails \/ Signal \/ Stopping \/ Exit)
        => ThreadsInv' /\ LateInv'
<1> SUFFICES ASSUME IInv, Start \/ StartFails \/ Signal \/ Stopping \/ Exit
             PROVE  ThreadsInv' /\ LateInv'
  OBVIOUS
<1> USE DEF IInv, TypeOK, ThreadsInv, LateInv, server, acc, data, cli, net, Listening
<1>1. CASE Start \/ StartFails \/ Signal
  BY <1>1 DEF Start, StartFails, Signal
<1>2. CASE CloseListenSocket
  BY <1>2 DEF CloseListenSocket
<1>3. CASE ForgetListenSocket
  BY <1>3 DEF ForgetListenSocket
<1>4. CASE Join
  BY <1>4 DEF Join, Pollers
<1>5. CASE Exit
  BY <1>5 DEF Exit
<1> QED
  BY <1>1, <1>2, <1>3, <1>4, <1>5 DEF Stopping

LEMMA OtherThreads ==
    ASSUME IInv,
           \/ \E p \in Pollers : PollLoop(p)
           \/ \E c \in Conns : ClientLoop(c) \/ Connect(c) \/ Leave(c)
           \/ UNCHANGED vars
    PROVE  ThreadsInv' /\ LateInv'
<1> USE DEF IInv, TypeOK, ThreadsInv, LateInv, server, acc, data, cli, net, Listening
<1>1. CASE \E p \in Pollers : PollLoop(p)
  <2>1. PICK p \in Pollers : PollLoop(p)
    BY <1>1
  <2>2. /\ UNCHANGED <<main, server, acc, net>>
        /\ poller[p] \in {"wait", "work"}
        /\ \A q \in Pollers : q # p => poller'[q] = poller[q]
    BY <2>1 DEF PollLoop, PollCheck, Poll
  <2>3. LateInv'
    BY <2>2
  <2>4. main \notin {"start", "stopped", "exit"} /\ ~(main = "serving" /\ ~running)
    BY <2>2
  <2>5. main = "joinTrades" => p # "holdings"
    BY <2>2
  <2>6. main = "joinTrades" => poller'["holdings"] = "exited"
    BY <2>2, <2>5 DEF Pollers
  <2>7. ThreadsInv'
    BY <2>2, <2>4, <2>6
  <2> QED
    BY <2>3, <2>7
<1>2. CASE \E c \in Conns : ClientLoop(c)
  BY <1>2 DEF ClientLoop, ClientCheck, ClientCopy, SendLine, SendFails, EndOfLines,
              CloseClient
<1>3. CASE \E c \in Conns : Connect(c) \/ Leave(c)
  BY <1>3 DEF Connect, Leave
<1>4. CASE UNCHANGED vars
  BY <1>4 DEF vars
<1> QED
  BY <1>1, <1>2, <1>3, <1>4

LEMMA IInvStep == IInv /\ [Next]_vars => IInv'
<1> SUFFICES ASSUME IInv, [Next]_vars PROVE IInv'
  OBVIOUS
<1>1. TypeOK' /\ SocketsAreOwned' /\ QueueInv'
  BY TypeStep, OwnedStep, QueueStep DEF IInv
<1>2. ThreadsInv' /\ LateInv'
  BY AcceptThreads, MainThreads, OtherThreads DEF Next
<1> QED
  BY <1>1, <1>2 DEF IInv

\* Every accepted connection has exactly the thread that will close it
\* (StreamingServer.cpp:176-177, 220-238, 272-302).
THEOREM SocketsOwned == Spec => []SocketsAreOwned
<1>1. IInv => SocketsAreOwned
  BY DEF IInv
<1> QED
  BY <1>1, IInvInit, IInvStep, PTL DEF Spec

\* After Stop the joined threads are over and no peer waits in a backlog
\* (StreamingServer.cpp:118-146).
THEOREM StoppedIsDeaf == Spec => []StoppedServerIsDeaf
<1>1. IInv => StoppedServerIsDeaf
  BY DEF IInv, ThreadsInv, StoppedServerIsDeaf, Listening
<1> QED
  BY <1>1, IInvInit, IInvStep, PTL DEF Spec

\* A stopping server accepts at most one more connection
\* (StreamingServer.cpp:148-179).
THEOREM OneLateClient == Spec => []AtMostOneLateClient
<1>1. IInv => AtMostOneLateClient
  BY DEF IInv, LateInv, AtMostOneLateClient
<1> QED
  BY <1>1, IInvInit, IInvStep, PTL DEF Spec

-----------------------------------------------------------------------------
(* The server implements StreamService.                                    *)

LEMMA ServiceInit == Init => Service!Init
<1> SUFFICES ASSUME Init PROVE Service!Init
  OBVIOUS
<1>1. Phase = "unopened" /\ Queued = {} /\ Served = {} /\ Gone = {} /\ Sending = {} /\ Due = {}
  BY DEF Init, Phase, Queued, Served, Gone, Sending, Due
<1> QED
  BY <1>1 DEF Init, Service!Init

\* The steps that change neither the phase nor a peer.
LEMMA ServiceStutter ==
    ASSUME UNCHANGED <<running, main, net, client, accepted>>
    PROVE  UNCHANGED Service!vars
  BY DEF net, Service!vars, Service!peers, Phase, Queued, Served, Gone, Sending, Due

\* The peers in a step that changes neither them nor the flag, and in one that
\* changes the flag when no round is due.
LEMMA PeersKept ==
    ASSUME UNCHANGED <<net, client>>,
           running' = running \/ \A c \in Conns : client[c] = "none"
    PROVE  UNCHANGED Service!peers
  BY DEF net, Service!peers, Queued, Served, Gone, Sending, Due

\* main: Start opens the service, the flag begins its closing, closing the
\* socket refuses who waits, and the last join ends it.
LEMMA ServiceMain ==
    ASSUME IInv, IInv', Start \/ StartFails \/ Signal \/ Stopping \/ Exit
    PROVE  Service!Next \/ UNCHANGED Service!vars
<1> USE DEF IInv, TypeOK, ThreadsInv, server, acc, data, cli, net
<1>1. CASE Start
  <2>1. UNCHANGED Service!peers /\ accepted' = accepted
    BY <1>1, PeersKept DEF Start
  <2>2. Phase = "unopened" /\ Phase' = "open"
    BY <1>1 DEF Start, Phase
  <2> QED
    BY <2>1, <2>2 DEF Service!Next, Service!Open
<1>2. CASE StartFails
  <2>1. UNCHANGED Service!peers /\ accepted' = accepted
    BY <1>2, PeersKept DEF StartFails
  <2>2. Phase' = Phase
    BY <1>2 DEF StartFails, Phase
  <2> QED
    BY <2>1, <2>2 DEF Service!vars
<1>3. CASE Signal
  <2>2. CASE running
    <3>1. Phase = "open" /\ Phase' = "closing" /\ accepted' = accepted
      BY <1>3, <2>2 DEF Signal, Phase
    <3>2. UNCHANGED <<Queued, Served, Gone, Sending>>
      BY <1>3 DEF Signal, net, Queued, Served, Gone, Sending
    <3>3. Due' \in SUBSET (Served \ Sending)
      BY <1>3 DEF Signal, Due, Served, Sending
    <3> QED
      BY <3>1, <3>2, <3>3 DEF Service!Next, Service!BeginClosing
  <2>3. CASE ~running
    <3>1. Phase = "unopened" /\ Phase' = "closed"
      BY <1>3, <2>3 DEF Signal, Phase
    <3>2. UNCHANGED Service!peers /\ accepted' = accepted
      BY <1>3, <2>3, PeersKept DEF Signal
    <3> QED
      BY <3>1, <3>2 DEF Service!Next, Service!GiveUp
  <2> QED
    BY <2>2, <2>3
<1>4. CASE CloseListenSocket
  <2>1. Phase = "closing" /\ Phase' = "closing" /\ accepted' = accepted
    BY <1>4 DEF CloseListenSocket, Phase
  <2>2. UNCHANGED <<Served, Gone, Sending, Due>>
    BY <1>4 DEF CloseListenSocket, Served, Gone, Sending, Due
  <2>3. CASE Listening'
    <3>1. queue' = queue
      BY <1>4, <2>3 DEF CloseListenSocket
    <3> QED
      BY <2>1, <2>2, <3>1 DEF Service!vars, Service!peers, Queued
  <2>4. CASE ~Listening'
    <3>1. Queued' = {}
      BY <1>4, <2>4 DEF CloseListenSocket, Queued
    <3> QED
      BY <2>1, <2>2, <3>1 DEF Service!Next, Service!Refuse
  <2> QED
    BY <2>3, <2>4
<1>5. CASE ForgetListenSocket
  <2>1. UNCHANGED Service!peers /\ accepted' = accepted
    BY <1>5, PeersKept DEF ForgetListenSocket
  <2>2. Phase' = Phase
    BY <1>5 DEF ForgetListenSocket, Phase
  <2> QED
    BY <2>1, <2>2 DEF Service!vars
<1>6. CASE Join
  <2>1. UNCHANGED Service!peers /\ accepted' = accepted
    BY <1>6, PeersKept DEF Join
  <2>2. Phase = "closing"
    BY <1>6 DEF Join, Phase
  <2>3. CASE main' # "stopped"
    <3>1. Phase' = Phase
      BY <1>6, <2>3 DEF Join, Phase
    <3> QED
      BY <2>1, <3>1 DEF Service!vars
  <2>4. CASE main' = "stopped"
    <3>1. Phase' = "closed"
      BY <1>6, <2>4 DEF Join, Phase
    <3>2. Queued = {}
      <4>1. StoppedServerIsDeaf'
        BY DEF StoppedServerIsDeaf, Listening
      <4> QED
        BY <1>6, <2>4, <4>1 DEF StoppedServerIsDeaf, Join, Queued
    <3> QED
      BY <2>1, <2>2, <3>1, <3>2 DEF Service!Next, Service!EndClosing
  <2> QED
    BY <2>3, <2>4
<1>7. CASE Exit
  <2>1. Phase = "closed" /\ Phase' = "closed" /\ accepted' = accepted
    BY <1>7 DEF Exit, Phase
  <2>2. queue = <<>> /\ queue' = queue
    BY <1>7 DEF Exit, Listening
  <2>3. /\ Queued = {} /\ Queued' = {} /\ Served' = {} /\ Gone' = {} /\ Sending' = {}
        /\ Due' = {}
    BY <1>7, <2>2 DEF Exit, Queued, Served, Gone, Sending, Due
  <2> QED
    BY <2>1, <2>2, <2>3 DEF Service!Next, Service!Vanish
<1> QED
  BY <1>1, <1>2, <1>3, <1>4, <1>5, <1>6, <1>7 DEF Stopping

\* The oldest connection of the backlog is not accepted, and the others remain when
\* it is taken.
LEMMA HeadAndTail ==
    ASSUME IInv, queue # <<>>
    PROVE  /\ Head(queue) \in Conns /\ Head(queue) \in Queued
           /\ conn[Head(queue)] = "away"
           /\ {Tail(queue)[i] : i \in DOMAIN Tail(queue)} = Queued \ {Head(queue)}
<1>1. queue \in Seq(Conns) /\ DOMAIN queue = 1..Len(queue) /\ Len(queue) \in Nat
  BY DEF IInv, TypeOK
<1>2. /\ Head(queue) = queue[1] /\ 1 \in DOMAIN queue
      /\ DOMAIN Tail(queue) = 1..(Len(queue) - 1)
      /\ \A i \in DOMAIN Tail(queue) :
           i + 1 \in DOMAIN queue /\ Tail(queue)[i] = queue[i + 1]
           /\ queue[i + 1] # Head(queue)
  BY <1>1, TailAndAppend DEF IInv, QueueInv
<1>3. ASSUME NEW j \in DOMAIN queue, queue[j] # Head(queue)
      PROVE  \E i \in DOMAIN Tail(queue) : Tail(queue)[i] = queue[j]
  <2>1. j - 1 \in DOMAIN Tail(queue) /\ (j - 1) + 1 = j
    BY <1>1, <1>2, <1>3
  <2> QED
    BY <1>2, <2>1
<1>4. {Tail(queue)[i] : i \in DOMAIN Tail(queue)} = Queued \ {Head(queue)}
  BY <1>2, <1>3 DEF Queued
<1>5. conn[Head(queue)] = "away"
  BY <1>2 DEF IInv, QueueInv
<1>6. Head(queue) \in Conns /\ Head(queue) \in Queued
  BY <1>1, <1>2 DEF Queued
<1> QED
  BY <1>4, <1>5, <1>6

\* The accept loop: a connection that is accepted is served, the last one when
\* the flag has fallen.
LEMMA ServiceAccept ==
    ASSUME IInv, AcceptLoop
    PROVE  Service!Next \/ UNCHANGED Service!vars
<1>1. CASE AcceptCheck \/ AcceptCall \/ AcceptTransient \/ AcceptFailed \/ AcceptWake
  BY <1>1, ServiceStutter
     DEF AcceptCheck, AcceptCall, AcceptTransient, AcceptFailed, AcceptWake, server, cli
<1>2. ASSUME NEW c \in Conns, c = Head(queue), AcceptReturns PROVE Service!Next
  <2>1. /\ accept = "blocked" /\ c \in Queued
        /\ UNCHANGED <<main, running, listenSocket>>
        /\ client' = [client EXCEPT ![c] = "check"]
        /\ conn' = [conn EXCEPT ![c] = "up"]
        /\ queue' = IF listenSocket = "open" THEN Tail(queue) ELSE <<>>
    BY <1>2, HeadAndTail DEF AcceptReturns, server
  <2>2. /\ client[c] = "none" /\ client \in [Conns -> ClientPC]
        /\ conn[c] = "away" /\ conn \in [Conns -> ConnState]
    BY <1>2, HeadAndTail DEF AcceptReturns, IInv, TypeOK, SocketsAreOwned
  <2>3. Served' = Served \cup {c} /\ UNCHANGED <<Sending, Gone, Due>>
    BY <2>1, <2>2 DEF Served, Sending, Gone, Due
  <2>4. Queued' = IF listenSocket = "open" THEN Queued \ {c} ELSE {}
    <3>1. {Tail(queue)[i] : i \in DOMAIN Tail(queue)} = Queued \ {c}
      BY <1>2, HeadAndTail DEF AcceptReturns
    <3>2. CASE listenSocket = "open"
      <4>1. queue' = Tail(queue)
        BY <2>1, <3>2
      <4> QED
        BY <3>1, <3>2, <4>1 DEF Queued
    <3>3. CASE listenSocket # "open"
      <4>1. queue' = <<>>
        BY <2>1, <3>3
      <4> QED
        BY <3>3, <4>1 DEF Queued
    <3> QED
      BY <3>2, <3>3
  <2>5. CASE running
    <3>1. listenSocket = "open"
      BY <2>1, <2>5 DEF IInv, ThreadsInv
    <3>2. Phase = "open" /\ Phase' = "open" /\ accepted' = accepted
      BY <1>2, <2>1, <2>5 DEF AcceptReturns, Phase
    <3> QED
      BY <2>1, <2>3, <2>4, <3>1, <3>2 DEF Service!Next, Service!Serve
  <2>6. CASE ~running
    <3>1. accepted = 0 /\ accepted' = 1
      BY <1>2, <2>1, <2>6 DEF AcceptReturns, IInv, LateInv
    <3>2. Phase = "closing" /\ Phase' = "closing"
      BY <2>1, <2>6 DEF Phase, IInv, TypeOK, ThreadsInv
    <3> QED
      BY <2>1, <2>3, <2>4, <3>1, <3>2 DEF Service!Next, Service!Serve
  <2> QED
    BY <2>5, <2>6 DEF IInv, TypeOK
<1> QED
  <2>1. AcceptReturns => Head(queue) \in Conns
    BY HeadAndTail DEF IInv, AcceptReturns
  <2> QED
    BY <1>1, <1>2, <2>1 DEF AcceptLoop

\* The thread of a client that ends has a peer that left or finds the flag fallen.
LEMMA ServiceClient ==
    ASSUME IInv, NEW c \in Conns, ClientLoop(c)
    PROVE  Service!Next \/ UNCHANGED Service!vars
<1>1. /\ UNCHANGED <<main, running, accepted>>
      /\ client[c] \in {"check", "copy", "send"} /\ conn[c] \in {"up", "left", "reset"}
      /\ client \in [Conns -> ClientPC] /\ conn \in [Conns -> ConnState]
      /\ queue' = queue
  BY DEF ClientLoop, ClientCheck, ClientCopy, SendLine, SendFails, EndOfLines, IInv, TypeOK,
         SocketsAreOwned, server, acc, net, CloseClient
<1>2. Phase' = Phase /\ Queued' = Queued
  BY <1>1 DEF Phase, Queued
<1>3. CASE /\ CloseClient(c)
           /\ (c \in Gone /\ client[c] = "send") \/ (~running /\ client[c] = "check")
  <2>1. /\ Served' = Served \ {c} /\ Gone' = Gone \ {c}
        /\ Sending' = Sending \ {c} /\ Due' = Due \ {c}
    BY <1>1, <1>3 DEF CloseClient, Served, Gone, Sending, Due
  <2>2. c \in Served /\ (c \in Gone \/ (Phase # "open" /\ c \notin Sending \cup Due))
    BY <1>1, <1>3 DEF Served, Sending, Due, Phase
  <2> QED
    BY <1>1, <1>2, <2>1, <2>2 DEF Service!Next, Service!Drop
<1>4. CASE client[c] = "copy" /\ client' = [client EXCEPT ![c] = "send"] /\ conn' = conn
  <2>1. /\ UNCHANGED <<Served, Gone>> /\ Sending' = Sending \cup {c}
        /\ Due' = Due \ {c} /\ c \in Served \ Sending
        /\ Phase = "open" \/ c \in Due
    BY <1>1, <1>4 DEF Served, Gone, Sending, Due, Phase
  <2> QED
    BY <1>1, <1>2, <2>1 DEF Service!Next, Service!BeginRound
<1>5. CASE client[c] = "send" /\ client' = [client EXCEPT ![c] = "check"] /\ conn' = conn
  <2>1. /\ UNCHANGED <<Served, Gone, Due>> /\ Sending' = Sending \ {c}
        /\ c \in Sending
    BY <1>1, <1>5 DEF Served, Gone, Sending, Due
  <2> QED
    BY <1>1, <1>2, <2>1 DEF Service!Next, Service!EndRound
<1>6. CASE running /\ client[c] = "check" /\ client' = [client EXCEPT ![c] = "copy"]
           /\ conn' = conn
  <2>1. UNCHANGED <<Served, Gone, Sending, Due>>
    BY <1>1, <1>6 DEF Served, Gone, Sending, Due
  <2> QED
    BY <1>1, <1>2, <2>1 DEF Service!vars, Service!peers
<1>8. CASE UNCHANGED <<client, conn>>
  BY <1>1, <1>8, ServiceStutter DEF net
<1>7. CASE SendLine(c)
  <2>1. client' = client /\ conn' = [conn EXCEPT ![c] = IF @ = "left" THEN "reset" ELSE @]
    BY <1>7 DEF SendLine
  <2>2. UNCHANGED <<Served, Gone, Sending, Due>>
    BY <1>1, <2>1 DEF Served, Gone, Sending, Due
  <2> QED
    BY <1>1, <1>2, <2>2 DEF Service!vars, Service!peers
<1> QED
  BY <1>3, <1>4, <1>5, <1>6, <1>7, <1>8
     DEF ClientLoop, ClientCheck, ClientCopy, SendFails, EndOfLines, Gone, net

\* A peer that connects waits, and one that leaves is gone.
LEMMA ServicePeer ==
    ASSUME IInv, NEW c \in Conns, Connect(c) \/ Leave(c)
    PROVE  Service!Next
<1>1. /\ UNCHANGED <<main, running, accepted, client>>
      /\ conn \in [Conns -> ConnState] /\ queue \in Seq(Conns)
  BY DEF Connect, Leave, IInv, TypeOK, server, acc, cli
<1>2. Phase' = Phase
  BY <1>1 DEF Phase
<1>3. CASE Connect(c)
  <2>1. c \notin Queued \cup Served /\ UNCHANGED <<Served, Gone, Sending, Due>>
    BY <1>1, <1>3 DEF Connect, Served, Gone, Sending, Due, IInv, SocketsAreOwned
  <2>3. Queued' = Queued \cup {c}
    <3>1. /\ DOMAIN queue' = 1..(Len(queue) + 1) /\ queue'[Len(queue) + 1] = c
          /\ \A i \in DOMAIN queue : queue'[i] = queue[i]
      BY <1>1, <1>3, TailAndAppend DEF Connect, IInv, QueueInv
    <3>2. DOMAIN queue = 1..Len(queue) /\ Len(queue) \in Nat
      BY <1>1
    <3>3. \A i \in DOMAIN queue' : i \in DOMAIN queue \/ i = Len(queue) + 1
      BY <3>1, <3>2
    <3>4. \A i \in DOMAIN queue : i \in DOMAIN queue'
      BY <3>1, <3>2
    <3>5. Len(queue) + 1 \in DOMAIN queue'
      BY <3>1, <3>2
    <3> QED
      BY <3>1, <3>3, <3>4, <3>5 DEF Queued
  <2>2. Phase \in {"open", "closing"}
    BY <1>3 DEF Connect, Listening, Phase, IInv, TypeOK, ThreadsInv
  <2> QED
    BY <1>1, <1>2, <2>1, <2>2, <2>3 DEF Service!Next, Service!Arrive
<1>4. CASE Leave(c)
  <2>1. /\ c \in Served \ Gone /\ Gone' = Gone \cup {c}
        /\ UNCHANGED <<Queued, Served, Sending, Due>>
    BY <1>1, <1>4 DEF Leave, Queued, Served, Gone, Sending, Due, IInv, SocketsAreOwned
  <2> QED
    BY <1>1, <1>2, <2>1 DEF Service!Next, Service!Depart
<1> QED
  BY <1>3, <1>4

\* Start, Stop and the threads implement the abstract service: a running server
\* refuses and drops nobody, a stopping one finishes its rounds, and a stopped
\* one has settled with all who waited (StreamingServer.cpp:118-179, 187-303).
THEOREM ServiceImplemented == Spec => ImplementsService
<1>1. IInv /\ IInv' /\ [Next]_vars => [Service!Next]_Service!vars
  <2> SUFFICES ASSUME IInv, IInv', [Next]_vars
               PROVE  Service!Next \/ UNCHANGED Service!vars
    OBVIOUS
  <2>1. ASSUME NEW p \in Pollers, PollLoop(p) PROVE UNCHANGED Service!vars
    BY <2>1, ServiceStutter DEF PollLoop, PollCheck, Poll, server, acc, cli
  <2>2. CASE UNCHANGED vars
    BY <2>2, ServiceStutter DEF vars, server, acc, cli
  <2> QED
    BY <2>1, <2>2, ServiceMain, ServiceAccept, ServiceClient, ServicePeer DEF Next
<1> QED
  BY <1>1, ServiceInit, IInvInit, IInvStep, PTL
     DEF Spec, ImplementsService, Service!Spec
=============================================================================
