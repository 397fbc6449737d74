------------------------------ MODULE LogProofs ------------------------------
(***************************************************************************)
(* Proofs about Log, for any threads, levels, path and clock, any number   *)
(* of messages and of starts, and both kinds of console.                   *)
(***************************************************************************)
EXTENDS Log, TLAPS

Line == [message : Message, time : 0..MaxTime]
ConsoleLine == [message : Message, time : 0..MaxTime, colour : Levels \union {"normal"}]

-----------------------------------------------------------------------------
(* Type correctness.                                                       *)

LEMMA NoMessageTyped == NoMessage \in Message
  BY LogAssumption DEF NoMessage, Message, Targets

LEMMA OpensTyped == \A directories : Opens(directories) \in Files
  BY DEF Opens, Files

LEMMA LineAppended ==
    ASSUME TypeOK, NEW file \in Files, NEW m \in Message, NEW at \in 0..MaxTime,
           AppendLine(file, m, at)
    PROVE  /\ files' \in [Files -> Seq([message : Message, time : 0..MaxTime])]
           /\ files'[file] = Append(files[file], [message |-> m, time |-> at])
           /\ \A f \in Files : f # file => files'[f] = files[f]
<1>1. [message |-> m, time |-> at] \in [message : Message, time : 0..MaxTime]
  OBVIOUS
<1>2. files \in [Files -> Seq([message : Message, time : 0..MaxTime])]
  BY DEF TypeOK
<1>3. Append(files[file], [message |-> m, time |-> at])
        \in Seq([message : Message, time : 0..MaxTime])
  <2>1. files[file] \in Seq([message : Message, time : 0..MaxTime])
    BY <1>2
  <2> DEFINE line == [message |-> m, time |-> at]
             LineType == [message : Message, time : 0..MaxTime]
  <2>2. line \in LineType /\ files[file] \in Seq(LineType)
    BY <1>1, <2>1
  <2> HIDE DEF line, LineType
  <2>3. Append(files[file], line) \in Seq(LineType)
    BY <2>2
  <2> QED
    BY <2>3 DEF line, LineType
<1> QED
  BY <1>2, <1>3 DEF AppendLine

LEMMA TypeInit == Init => TypeOK
<1> SUFFICES ASSUME Init PROVE TypeOK
  OBVIOUS
<1>1. path \in [1..Depth -> {"dir", "none", "file"}] /\ writable \in BOOLEAN /\ local \in BOOLEAN
  BY DEF Init
<1>2. /\ session \in 0..MaxSessions /\ time \in 0..MaxTime /\ sent \in 0..MaxMessages
      /\ stamp \in [Threads -> 0..MaxTime]
  BY LogAssumption DEF Init
<1>3. pc \in [Threads -> PC] /\ message \in [Threads -> Message]
  BY NoMessageTyped DEF Init, PC
<1>4. /\ console \in Seq([message : Message, time : 0..MaxTime,
                          colour : Levels \union {"normal"}])
      /\ files \in [Files -> Seq([message : Message, time : 0..MaxTime])]
  BY DEF Init
<1> QED
  BY <1>1, <1>2, <1>3, <1>4 DEF Init, TypeOK

LEMMA TypeStep == TypeOK /\ [Next]_vars => TypeOK'
<1> SUFFICES ASSUME TypeOK, [Next]_vars PROVE TypeOK'
  OBVIOUS
<1> USE DEF disk, calls, screen
<1>1. CASE Start
  <2>1. MadeDirectories \in [1..Depth -> {"dir", "none", "file"}]
    BY DEF TypeOK, MadeDirectories
  <2>2. session' \in 0..MaxSessions
    BY <1>1, LogAssumption DEF Start, TypeOK
  <2>4. up' \in BOOLEAN
    <3>1. up' = TRUE \/ up' = up
      BY <1>1 DEF Start
    <3> QED
      BY <3>1 DEF TypeOK
  <2>3. files' \in [Files -> Seq([message : Message, time : 0..MaxTime])]
    <3>1. CASE UNCHANGED files
      BY <3>1 DEF TypeOK
    <3>2. CASE AppendLine(Opens(MadeDirectories), NoMessage, time)
      BY <3>2, LineAppended, OpensTyped, NoMessageTyped DEF TypeOK
    <3> QED
      BY <1>1, <3>1, <3>2 DEF Start
  <2> QED
    BY <1>1, <2>1, <2>2, <2>3, <2>4 DEF Start, TypeOK
<1>2. ASSUME NEW t \in Threads, Output(t) PROVE TypeOK'
  <2>1. PICK level \in Levels, target \in Targets :
          message' = [message EXCEPT ![t] =
                        [by |-> t, session |-> session, number |-> sent + 1,
                         level |-> level, target |-> target]]
    BY <1>2 DEF Output
  <2>2. sent + 1 \in 0..MaxMessages
    BY <1>2, LogAssumption DEF Output, TypeOK
  <2>3. [by |-> t, session |-> session, number |-> sent + 1,
         level |-> level, target |-> target] \in Message
    BY <2>2 DEF Message, TypeOK
  <2>4. message' \in [Threads -> Message] /\ pc' \in [Threads -> PC]
    BY <1>2, <2>1, <2>3 DEF Output, TypeOK, PC
  <2> QED
    BY <1>2, <2>2, <2>4 DEF Output, TypeOK
<1>3. ASSUME NEW t \in Threads, Enter(t) PROVE TypeOK'
  <2>1. pc' \in [Threads -> PC] /\ stamp' \in [Threads -> 0..MaxTime]
    BY <1>3 DEF Enter, TypeOK, PC
  <2> QED
    BY <1>3, <2>1 DEF Enter, TypeOK
<1>4. ASSUME NEW t \in Threads, SetConsoleColor(t) PROVE TypeOK'
  BY <1>4 DEF SetConsoleColor, TypeOK, PC, Message
<1>5. ASSUME NEW t \in Threads, PrintLine(t) PROVE TypeOK'
  <2>1. [message |-> message[t], time |-> stamp[t], colour |-> colour]
          \in [message : Message, time : 0..MaxTime, colour : Levels \union {"normal"}]
    BY DEF TypeOK
  <2>2. console' \in Seq([message : Message, time : 0..MaxTime,
                          colour : Levels \union {"normal"}])
    BY <1>5, <2>1 DEF PrintLine, TypeOK
  <2>3. pc' \in [Threads -> PC]
    BY <1>5 DEF PrintLine, TypeOK, PC
  <2> QED
    BY <1>5, <2>2, <2>3 DEF PrintLine, TypeOK
<1>6. ASSUME NEW t \in Threads, ResetConsoleColor(t) PROVE TypeOK'
  <2>1. pc' \in [Threads -> PC]
    BY <1>6 DEF ResetConsoleColor, TypeOK, PC
  <2> QED
    BY <1>6, <2>1 DEF ResetConsoleColor, TypeOK
<1>7. ASSUME NEW t \in Threads, LogMessage(t) PROVE TypeOK'
  <2>1. files' \in [Files -> Seq([message : Message, time : 0..MaxTime])]
    BY <1>7, LineAppended, OpensTyped DEF LogMessage, TypeOK
  <2>2. pc' \in [Threads -> PC]
    BY <1>7 DEF LogMessage, TypeOK, PC
  <2> QED
    BY <1>7, <2>1, <2>2 DEF LogMessage, TypeOK
<1>8. CASE Terminate
  <2>1. /\ pc' \in [Threads -> PC] /\ message' \in [Threads -> Message]
        /\ stamp' \in [Threads -> 0..MaxTime]
    BY <1>8, NoMessageTyped, LogAssumption DEF Terminate, PC
  <2>2. up' \in BOOLEAN /\ mutex' \in Threads \union {NoThread}
    BY <1>8 DEF Terminate
  <2>3. UNCHANGED <<session, disk, time, sent, screen, files>>
    BY <1>8 DEF Terminate
  <2> QED
    BY <2>1, <2>2, <2>3 DEF TypeOK
<1>9. CASE Tick \/ Protect \/ UNCHANGED vars
  <2>1. time' \in 0..MaxTime
    BY <1>9, LogAssumption DEF Tick, Protect, vars, TypeOK
  <2>2. writable' \in BOOLEAN
    <3>1. writable' = FALSE \/ writable' = writable
      BY <1>9 DEF Tick, Protect, vars
    <3> QED
      BY <3>1 DEF TypeOK
  <2>3. UNCHANGED <<session, up, path, local, mutex, calls, screen, files>>
    BY <1>9 DEF Tick, Protect, vars
  <2> QED
    BY <2>1, <2>2, <2>3 DEF TypeOK
<1> QED
  BY <1>1, <1>2, <1>3, <1>4, <1>5, <1>6, <1>7, <1>8, <1>9 DEF Next, Thread

\* The variables keep their types: every line is a message of Output or the
\* header of a session, with the time of a clock (Log.cpp:120-275).
THEOREM TypeCorrect == Spec => []TypeOK
  BY TypeInit, TypeStep, PTL DEF Spec

-----------------------------------------------------------------------------
(* The mutex and the colour.                                               *)

Critical == {"colour", "print", "reset", "write"}

\* Who is between the lock and its end has the mutex, nobody runs in a process
\* that does not, and the colour is the one set by who prints next.
MutexInv ==
    /\ ~up => mutex = NoThread /\ \A t \in Threads : pc[t] = "idle"
    /\ \A t \in Threads : mutex = t <=> pc[t] \in Critical
    /\ \A t \in Threads : pc[t] = "print" => colour = message[t].level
    /\ LinesInColour

LEMMA MutexInit == Init => MutexInv
  BY LogAssumption DEF Init, MutexInv, LinesInColour, Critical

LEMMA MutexStep == TypeOK /\ MutexInv /\ [Next]_vars => MutexInv'
<1> SUFFICES ASSUME TypeOK, MutexInv, [Next]_vars PROVE MutexInv'
  OBVIOUS
<1> USE LogAssumption DEF disk, calls, screen, Critical
<1>1. CASE Start
  BY <1>1 DEF Start, MutexInv, LinesInColour
<1>2. ASSUME NEW t \in Threads, Output(t) PROVE MutexInv'
  <2>1. /\ pc' = [pc EXCEPT ![t] = "enterConsole"] /\ pc[t] = "idle" /\ up
        /\ UNCHANGED <<up, mutex, colour, console>>
        /\ \A u \in Threads : u # t => message'[u] = message[u]
    BY <1>2 DEF Output, TypeOK
  <2> QED
    BY <2>1 DEF MutexInv, LinesInColour, TypeOK
<1>3. ASSUME NEW t \in Threads, Enter(t) PROVE MutexInv'
  <2>1. pc'[t] \in {"colour", "write"} /\ \A u \in Threads : u # t => pc'[u] = pc[u]
    BY <1>3 DEF Enter, TypeOK
  <2> QED
    BY <1>3, <2>1 DEF Enter, MutexInv, LinesInColour
<1>4. ASSUME NEW t \in Threads, SetConsoleColor(t) PROVE MutexInv'
  <2>1. pc'[t] = "print" /\ \A u \in Threads : u # t => pc'[u] = pc[u]
    BY <1>4 DEF SetConsoleColor, TypeOK
  <2>2. \A u \in Threads : u # t => pc[u] \notin Critical
    BY <1>4 DEF SetConsoleColor, MutexInv
  <2> QED
    BY <1>4, <2>1, <2>2 DEF SetConsoleColor, MutexInv, LinesInColour
<1>5. ASSUME NEW t \in Threads, PrintLine(t) PROVE MutexInv'
  <2>1. pc'[t] = "reset" /\ \A u \in Threads : u # t => pc'[u] = pc[u]
    BY <1>5 DEF PrintLine, TypeOK
  <2> DEFINE line == [message |-> message[t], time |-> stamp[t], colour |-> colour]
  <2>2. line.colour = line.message.level
    BY <1>5 DEF PrintLine, MutexInv
  <2>3. LinesInColour'
    <3>1. console' = Append(console, line) /\ console \in Seq(ConsoleLine)
      BY <1>5 DEF PrintLine, TypeOK, ConsoleLine
    <3> HIDE DEF line
    <3>2. \A i \in DOMAIN console' : console'[i] = line \/ (i \in DOMAIN console /\ console'[i] = console[i])
      BY <3>1
    <3> QED
      BY <2>2, <3>2 DEF LinesInColour, MutexInv
  <2> QED
    BY <1>5, <2>1, <2>3 DEF PrintLine, MutexInv
<1>6. ASSUME NEW t \in Threads, ResetConsoleColor(t) PROVE MutexInv'
  <2>1. pc'[t] \in {"idle", "enterFile"} /\ \A u \in Threads : u # t => pc'[u] = pc[u]
    BY <1>6 DEF ResetConsoleColor, TypeOK
  <2> QED
    BY <1>6, <2>1 DEF ResetConsoleColor, MutexInv, LinesInColour
<1>7. ASSUME NEW t \in Threads, LogMessage(t) PROVE MutexInv'
  <2>1. pc'[t] = "idle" /\ \A u \in Threads : u # t => pc'[u] = pc[u]
    BY <1>7 DEF LogMessage, TypeOK
  <2> QED
    BY <1>7, <2>1 DEF LogMessage, MutexInv, LinesInColour
<1>8. CASE Terminate
  BY <1>8 DEF Terminate, MutexInv, LinesInColour
<1>9. CASE Tick \/ Protect \/ UNCHANGED vars
  BY <1>9 DEF Tick, Protect, vars, MutexInv, LinesInColour
<1> QED
  BY <1>1, <1>2, <1>3, <1>4, <1>5, <1>6, <1>7, <1>8, <1>9 DEF Next, Thread

LEMMA MutexHolds == Spec => [](TypeOK /\ MutexInv)
  BY TypeInit, TypeStep, MutexInit, MutexStep, PTL DEF Spec

\* Lines of several threads are never mixed: each is printed in the colour of its
\* own level (Log.cpp:156-166).
THEOREM LinesAreInColour == Spec => []LinesInColour
<1>1. MutexInv => LinesInColour
  BY DEF MutexInv
<1> QED
  BY <1>1, MutexHolds, PTL
-----------------------------------------------------------------------------
(* The order of the lines.                                                 *)

Logs == Files \union {"console"}

LinesOf(l) == IF l = "console" THEN console ELSE files[l]

Ordered(lines) ==
    \A i, j \in DOMAIN lines :
      LET m == lines[i].message
          n == lines[j].message
      IN  i < j =>
            /\ lines[i].time <= lines[j].time
            /\ m.by = n.by /\ m.by # NoThread /\ m.session = n.session => m.number < n.number

\* What lines say of the time and of message numbers is not later than this.
UpTo(lines, at, number) ==
    \A i \in DOMAIN lines : lines[i].time <= at /\ lines[i].message.number <= number

\* What the sender of m wrote there, it sent before m.
Before(lines, m) ==
    \A i \in DOMAIN lines :
      lines[i].message.by = m.by => lines[i].message.number < m.number

\* The holder of the mutex has the latest stamp, and no log has a later message of
\* a thread than the one it is about to write there.
OrderInv ==
    /\ \A l \in Logs : Ordered(LinesOf(l)) /\ UpTo(LinesOf(l), time, sent)
    /\ \A t \in Threads : pc[t] \in Critical =>
         stamp[t] <= time /\ \A l \in Logs : UpTo(LinesOf(l), stamp[t], sent)
    /\ \A t \in Threads : pc[t] # "idle" =>
         /\ message[t].by = t /\ message[t].session = session /\ message[t].number <= sent
         /\ \A f \in Files : Before(files[f], message[t])
    /\ \A t \in Threads :
         pc[t] \in {"enterConsole", "colour", "print"} => Before(console, message[t])

LEMMA AppendOrdered ==
    ASSUME NEW T, NEW lines \in Seq(T), NEW line \in T, NEW n \in Nat, NEW at \in Nat,
           \A l \in T : l.time \in Nat /\ l.message.number \in Nat,
           Ordered(lines), UpTo(lines, line.time, n),
           line.time <= at, line.message.number <= n,
           line.message.by # NoThread => Before(lines, line.message)
    PROVE  Ordered(Append(lines, line)) /\ UpTo(Append(lines, line), at, n)
<1> DEFINE more == Append(lines, line)
<1>1. /\ Len(lines) \in Nat /\ DOMAIN lines = 1..Len(lines)
      /\ DOMAIN more = 1..(Len(lines) + 1) /\ more[Len(lines) + 1] = line
      /\ \A i \in 1..Len(lines) : more[i] = lines[i] /\ lines[i] \in T
  OBVIOUS
<1> HIDE DEF more
<1>2. \A i \in 1..Len(lines) :
        /\ lines[i].time <= line.time /\ lines[i].time \in Nat
        /\ lines[i].message.number <= n
  BY <1>1 DEF UpTo
<1>3. UpTo(more, at, n)
  BY <1>1, <1>2 DEF UpTo
<1>4. ASSUME NEW i \in DOMAIN more, NEW j \in DOMAIN more, i < j
      PROVE  /\ more[i].time <= more[j].time
             /\ /\ more[i].message.by = more[j].message.by
                /\ more[i].message.by # NoThread
                /\ more[i].message.session = more[j].message.session
                => more[i].message.number < more[j].message.number
  <2>1. i \in 1..Len(lines) /\ (j \in 1..Len(lines) \/ j = Len(lines) + 1)
    BY <1>1, <1>4
  <2>2. CASE j \in 1..Len(lines)
    BY <1>1, <1>4, <2>1, <2>2 DEF Ordered
  <2>3. CASE j = Len(lines) + 1
    BY <1>1, <1>2, <2>1, <2>3 DEF Before
  <2> QED
    BY <2>1, <2>2, <2>3
<1> QED
  BY <1>3, <1>4 DEF Ordered, more

LEMMA AppendBefore ==
    ASSUME NEW T, NEW lines \in Seq(T), NEW line \in T, NEW m,
           Before(lines, m), line.message.by # m.by
    PROVE  Before(Append(lines, line), m)
  BY DEF Before

\* A clock that goes on and later messages do not matter to lines written before.
LEMMA UpToLater ==
    ASSUME NEW lines, NEW at \in Nat, NEW n \in Nat, UpTo(lines, at, n),
           NEW later \in Nat, NEW more \in Nat, at <= later, n <= more,
           \A i \in DOMAIN lines : lines[i].time \in Nat /\ lines[i].message.number \in Nat
    PROVE  UpTo(lines, later, more)
  BY DEF UpTo

LEMMA LogsTyped ==
    ASSUME TypeOK, NEW l \in Logs
    PROVE  LinesOf(l) \in Seq(Line \union ConsoleLine)
<1>1. console \in Seq(ConsoleLine) /\ \A f \in Files : files[f] \in Seq(Line)
  BY DEF TypeOK, Line, ConsoleLine
<1>2. \A T, U : \A q \in Seq(T) : q \in Seq(T \union U) /\ q \in Seq(U \union T)
  OBVIOUS
<1> QED
  BY <1>1, <1>2 DEF Logs, LinesOf

LEMMA LinesTyped ==
    \A x \in Line \union ConsoleLine :
      x.time \in Nat /\ x.message.number \in Nat /\ x.message \in Message
  BY LogAssumption DEF Line, ConsoleLine, Message

LEMMA OrderInit == Init => OrderInv
<1> SUFFICES ASSUME Init PROVE OrderInv
  OBVIOUS
<1>1. \A l \in Logs : LinesOf(l) = << >>
  BY DEF Init, Logs, LinesOf
<1>2. \A t \in Threads : pc[t] = "idle"
  BY DEF Init
<1> QED
  BY <1>1, <1>2 DEF OrderInv, Ordered, UpTo, Critical

\* A step that writes nothing.
LEMMA LogsKept ==
    ASSUME TypeOK, TypeOK', OrderInv, UNCHANGED console, UNCHANGED files,
           time <= time', sent <= sent'
    PROVE  /\ \A l \in Logs : LinesOf(l)' = LinesOf(l)
           /\ \A l \in Logs : Ordered(LinesOf(l)') /\ UpTo(LinesOf(l)', time', sent')
           /\ \A l \in Logs, at \in Nat :
                UpTo(LinesOf(l), at, sent) => UpTo(LinesOf(l)', at, sent')
<1>1. \A l \in Logs : LinesOf(l)' = LinesOf(l)
  BY DEF LinesOf
<1>2. time \in Nat /\ time' \in Nat /\ sent \in Nat /\ sent' \in Nat
  BY LogAssumption DEF TypeOK
<1>3. ASSUME NEW l \in Logs, NEW at \in Nat, NEW later \in Nat, at <= later,
             UpTo(LinesOf(l), at, sent)
      PROVE  UpTo(LinesOf(l), later, sent')
  <2>1. \A i \in DOMAIN LinesOf(l) : LinesOf(l)[i] \in Line \union ConsoleLine
    BY LogsTyped
  <2>2. \A i \in DOMAIN LinesOf(l) :
          LinesOf(l)[i].time \in Nat /\ LinesOf(l)[i].message.number \in Nat
    BY <2>1, LinesTyped
  <2> QED
    BY <1>2, <1>3, <2>2, UpToLater
<1>4. \A l \in Logs : Ordered(LinesOf(l)) /\ UpTo(LinesOf(l), time, sent)
  BY DEF OrderInv
<1> QED
  BY <1>1, <1>2, <1>3, <1>4

\* A step that writes one line.
LEMMA LineKept ==
    ASSUME TypeOK, OrderInv, NEW k \in Logs, NEW line \in Line \union ConsoleLine,
           LinesOf(k)' = Append(LinesOf(k), line),
           \A l \in Logs : l # k => LinesOf(l)' = LinesOf(l),
           \A l \in Logs : UpTo(LinesOf(l), line.time, sent),
           line.time <= time, line.message.number <= sent,
           line.message.by # NoThread => Before(LinesOf(k), line.message)
    PROVE  /\ \A l \in Logs : Ordered(LinesOf(l)') /\ UpTo(LinesOf(l)', time, sent)
           /\ \A l \in Logs : UpTo(LinesOf(l)', line.time, sent)
<1>1. time \in Nat /\ sent \in Nat /\ line.time \in Nat /\ line.message.number \in Nat
  BY LinesTyped, LogAssumption DEF TypeOK
<1>2. LinesOf(k) \in Seq(Line \union ConsoleLine)
  BY LogsTyped
<1>3. Ordered(LinesOf(k)) /\ UpTo(LinesOf(k), line.time, sent)
  BY DEF OrderInv
<1>4. /\ Ordered(Append(LinesOf(k), line))
      /\ UpTo(Append(LinesOf(k), line), time, sent)
      /\ UpTo(Append(LinesOf(k), line), line.time, sent)
  <2>1. line.time <= line.time
    BY <1>1
  <2> QED
    BY <1>1, <1>2, <1>3, <2>1, LinesTyped, AppendOrdered
<1>5. \A l \in Logs : l # k =>
        Ordered(LinesOf(l)') /\ UpTo(LinesOf(l)', time, sent) /\ UpTo(LinesOf(l)', line.time, sent)
  BY DEF OrderInv
<1> QED
  BY <1>4, <1>5

LEMMA OrderStep == TypeOK /\ TypeOK' /\ MutexInv /\ OrderInv /\ [Next]_vars => OrderInv'
<1> SUFFICES ASSUME TypeOK, TypeOK', MutexInv, OrderInv, [Next]_vars PROVE OrderInv'
  OBVIOUS
<1>1. /\ time \in Nat /\ sent \in Nat /\ \A t \in Threads : stamp[t] \in Nat
      /\ pc \in [Threads -> PC] /\ message \in [Threads -> Message]
      /\ stamp \in [Threads -> 0..MaxTime] /\ files \in [Files -> Seq(Line)]
  <2>1. time \in Nat /\ sent \in Nat
    BY LogAssumption DEF TypeOK
  <2>2. \A t \in Threads : stamp[t] \in Nat
    BY LogAssumption DEF TypeOK
  <2> QED
    BY <2>1, <2>2 DEF TypeOK, Line
\* Most steps write nothing: what threads may write next stays after what is there.
<1>2. ASSUME UNCHANGED console, UNCHANGED files, time <= time', sent <= sent',
             \A t \in Threads : pc'[t] \in Critical =>
                 \/ pc[t] \in Critical /\ stamp'[t] = stamp[t]
                 \/ stamp'[t] = time,
             \A t \in Threads : pc'[t] # "idle" =>
                 \/ /\ pc[t] # "idle" /\ message'[t] = message[t]
                    /\ pc'[t] \in {"enterConsole", "colour", "print"} =>
                         pc[t] \in {"enterConsole", "colour", "print"}
                 \/ /\ message'[t].by = t /\ message'[t].session = session
                    /\ message'[t].number = sent + 1 /\ sent' = sent + 1,
             (\A t \in Threads : pc'[t] = "idle") \/ session' = session
      PROVE  OrderInv'
  <2>1. /\ \A l \in Logs : LinesOf(l)' = LinesOf(l)
        /\ \A l \in Logs : Ordered(LinesOf(l)') /\ UpTo(LinesOf(l)', time', sent')
        /\ \A l \in Logs, at \in Nat : UpTo(LinesOf(l), at, sent) => UpTo(LinesOf(l)', at, sent')
    BY <1>2, LogsKept
  <2>2. time' \in Nat /\ sent' \in Nat
    BY LogAssumption DEF TypeOK
  <2>3. ASSUME NEW t \in Threads, pc'[t] \in Critical
        PROVE  stamp'[t] <= time' /\ \A l \in Logs : UpTo(LinesOf(l)', stamp'[t], sent')
    <3>1. CASE pc[t] \in Critical /\ stamp'[t] = stamp[t]
      <4>1. stamp[t] <= time /\ \A l \in Logs : UpTo(LinesOf(l), stamp[t], sent)
        BY <3>1 DEF OrderInv
      <4> QED
        BY <1>1, <1>2, <2>1, <2>2, <3>1, <4>1
    <3>2. CASE stamp'[t] = time
      <4>1. \A l \in Logs : UpTo(LinesOf(l), time, sent)
        BY DEF OrderInv
      <4> QED
        BY <1>1, <1>2, <2>1, <3>2, <4>1
    <3> QED
      BY <1>2, <2>3, <3>1, <3>2
  <2>4. ASSUME NEW t \in Threads, pc'[t] # "idle"
        PROVE  /\ message'[t].by = t /\ message'[t].session = session'
               /\ message'[t].number <= sent'
               /\ \A f \in Files : Before(files[f]', message'[t])
               /\ pc'[t] \in {"enterConsole", "colour", "print"} => Before(console', message'[t])
    <3>1. CASE /\ pc[t] # "idle" /\ message'[t] = message[t]
               /\ pc'[t] \in {"enterConsole", "colour", "print"} =>
                    pc[t] \in {"enterConsole", "colour", "print"}
      <4>1. message[t].number \in Nat
        BY <1>1, LogAssumption DEF Message
      <4>2. /\ message[t].by = t /\ message[t].session = session
            /\ message[t].number <= sent
            /\ \A f \in Files : Before(files[f], message[t])
            /\ pc[t] \in {"enterConsole", "colour", "print"} => Before(console, message[t])
        BY <3>1 DEF OrderInv
      <4> QED
        BY <1>1, <1>2, <2>2, <2>4, <3>1, <4>1, <4>2
    <3>2. CASE /\ message'[t].by = t /\ message'[t].session = session
               /\ message'[t].number = sent + 1 /\ sent' = sent + 1
      <4>1. ASSUME NEW l \in Logs PROVE Before(LinesOf(l), message'[t])
        <5>1. \A i \in DOMAIN LinesOf(l) :
                LinesOf(l)[i].message.number \in Nat /\ LinesOf(l)[i].message.number <= sent
          BY LogsTyped, LinesTyped DEF OrderInv, UpTo
        <5> QED
          BY <1>1, <3>2, <5>1 DEF Before
      <4>2. /\ console = LinesOf("console") /\ "console" \in Logs
            /\ \A f \in Files : files[f] = LinesOf(f) /\ f \in Logs
        BY DEF LinesOf, Logs, Files
      <4>3. Before(console, message'[t]) /\ \A f \in Files : Before(files[f], message'[t])
        BY <4>1, <4>2
      <4> QED
        BY <1>1, <1>2, <2>2, <2>4, <3>2, <4>3
    <3> QED
      BY <1>2, <2>4, <3>1, <3>2
  <2> QED
    BY <2>1, <2>3, <2>4 DEF OrderInv

\* The holder of the mutex writes its line at the end of log k; nobody else is
\* between the lock and its end.
<1>3. ASSUME NEW t \in Threads, NEW k \in Logs, NEW line \in Line \union ConsoleLine,
             pc[t] \in Critical, line.message = message[t], line.time = stamp[t],
             Before(LinesOf(k), message[t]),
             LinesOf(k)' = Append(LinesOf(k), line),
             \A l \in Logs : l # k => LinesOf(l)' = LinesOf(l),
             UNCHANGED <<session, time, message, stamp, sent>>,
             \A u \in Threads : u # t => pc'[u] = pc[u],
             pc'[t] = IF k = "console" THEN "reset" ELSE "idle"
      PROVE  OrderInv'
  <2>1. /\ message[t].by = t /\ message[t].number <= sent /\ stamp[t] <= time
        /\ \A l \in Logs : UpTo(LinesOf(l), stamp[t], sent)
    BY <1>3 DEF OrderInv, Critical
  <2>2. /\ \A l \in Logs : Ordered(LinesOf(l)') /\ UpTo(LinesOf(l)', time, sent)
        /\ \A l \in Logs : UpTo(LinesOf(l)', stamp[t], sent)
    BY <1>3, <2>1, LineKept
  <2>3. \A u \in Threads : u # t => pc[u] \notin Critical
    BY <1>3 DEF MutexInv
  <2>4. \A l \in Logs : Ordered(LinesOf(l)') /\ UpTo(LinesOf(l)', time', sent')
    BY <1>3, <2>2
  <2>5. \A u \in Threads : pc'[u] \in Critical =>
          stamp'[u] <= time' /\ \A l \in Logs : UpTo(LinesOf(l)', stamp'[u], sent')
    BY <1>3, <2>1, <2>2, <2>3
  <2>6. ASSUME NEW u \in Threads, NEW l \in Logs, Before(LinesOf(l), message[u]),
               u # t \/ l # k, message[u].by = u
        PROVE  Before(LinesOf(l)', message[u])
    <3>1. CASE l # k
      BY <1>3, <2>6, <3>1
    <3>2. CASE l = k
      <4>1. LinesOf(k) \in Seq(Line \union ConsoleLine)
        BY LogsTyped
      <4>2. line.message.by # message[u].by
        BY <1>3, <2>1, <2>6, <3>2
      <4>3. Before(LinesOf(k), message[u])
        BY <2>6, <3>2
      <4>4. Before(Append(LinesOf(k), line), message[u])
        BY <4>1, <4>2, <4>3, AppendBefore
      <4> QED
        BY <1>3, <3>2, <4>4
    <3> QED
      BY <3>1, <3>2
  <2>7. /\ console = LinesOf("console") /\ console' = LinesOf("console")' /\ "console" \in Logs
        /\ \A f \in Files : files[f] = LinesOf(f) /\ files[f]' = LinesOf(f)' /\ f \in Logs
    BY DEF LinesOf, Logs, Files
  <2>8. ASSUME NEW u \in Threads, pc'[u] # "idle"
        PROVE  /\ message'[u].by = u /\ message'[u].session = session'
               /\ message'[u].number <= sent'
               /\ \A f \in Files : Before(files[f]', message'[u])
               /\ pc'[u] \in {"enterConsole", "colour", "print"} => Before(console', message'[u])
    <3>1. pc[u] # "idle" /\ (u = t => k = "console" /\ pc'[u] = "reset")
      BY <1>3, <2>8 DEF Critical
    <3>2. /\ message[u].by = u /\ message[u].session = session /\ message[u].number <= sent
          /\ \A f \in Files : Before(files[f], message[u])
          /\ pc[u] \in {"enterConsole", "colour", "print"} => Before(console, message[u])
      BY <3>1 DEF OrderInv
    <3>3. \A f \in Files : Before(files[f]', message[u])
      BY <2>6, <2>7, <3>1, <3>2 DEF Files
    <3>4. pc'[u] \in {"enterConsole", "colour", "print"} => Before(console', message[u])
      BY <1>3, <2>6, <2>7, <3>1, <3>2
    <3> QED
      BY <1>3, <3>2, <3>3, <3>4
  <2> QED
    BY <2>4, <2>5, <2>8 DEF OrderInv
\* The header of a session: no thread logs.
<1>4. CASE Start
  <2>1. /\ \A t \in Threads : pc[t] = "idle"
        /\ UNCHANGED <<time, pc, message, stamp, sent, console>>
    BY <1>4 DEF Start, MutexInv, calls, screen
  <2>2. CASE UNCHANGED files
    <3>1. time <= time' /\ sent <= sent'
      BY <1>1, <2>1
    <3> QED
      BY <1>2, <2>1, <2>2, <3>1 DEF Critical
  <2>3. CASE AppendLine(Opens(MadeDirectories), NoMessage, time)
    <3>1. PICK k \in Files : k = Opens(MadeDirectories)
      BY OpensTyped
    <3> DEFINE line == [message |-> NoMessage, time |-> time]
    <3>2. /\ line \in Line /\ line.time = time /\ line.message.number = 0
          /\ line.message.by = NoThread
      BY NoMessageTyped DEF Line, TypeOK, NoMessage
    <3>3. /\ files'[k] = Append(files[k], line)
          /\ \A f \in Files : f # k => files'[f] = files[f]
      BY <2>3, <3>1, NoMessageTyped, LineAppended DEF TypeOK
    <3> HIDE DEF line
    <3>4. /\ k \in Logs /\ LinesOf(k)' = Append(LinesOf(k), line)
          /\ \A l \in Logs : l # k => LinesOf(l)' = LinesOf(l)
      BY <2>1, <3>3 DEF LinesOf, Logs, Files
    <3>5. \A l \in Logs : UpTo(LinesOf(l), time, sent)
      BY DEF OrderInv
    <3>6. \A l \in Logs : Ordered(LinesOf(l)') /\ UpTo(LinesOf(l)', time, sent)
      <4>1. line.time <= time /\ line.message.number <= sent
        BY <1>1, <3>2
      <4> QED
        BY <3>2, <3>4, <3>5, <4>1, LineKept
    <3> QED
      BY <2>1, <3>6 DEF OrderInv, Critical
  <2> QED
    BY <1>4, <2>2, <2>3 DEF Start
<1>5. ASSUME NEW t \in Threads, Output(t) PROVE OrderInv'
  <2>1. /\ UNCHANGED <<session, time, stamp, console, files>> /\ sent' = sent + 1
        /\ pc' = [pc EXCEPT ![t] = "enterConsole"]
        /\ message'[t].by = t /\ message'[t].session = session /\ message'[t].number = sent + 1
        /\ \A u \in Threads : u # t => message'[u] = message[u]
    BY <1>1, <1>5 DEF Output, screen
  <2>2. time <= time' /\ sent <= sent'
    BY <1>1, <2>1
  <2> QED
    BY <1>1, <1>2, <2>1, <2>2 DEF Critical
<1>6. ASSUME NEW t \in Threads, Enter(t) \/ SetConsoleColor(t) \/ ResetConsoleColor(t)
      PROVE  OrderInv'
  <2>1. /\ UNCHANGED <<session, time, message, sent, console, files>>
        /\ \A u \in Threads : u # t => pc'[u] = pc[u] /\ stamp'[u] = stamp[u]
        /\ pc'[t] \in Critical => (pc[t] \in Critical /\ stamp'[t] = stamp[t]) \/ stamp'[t] = time
        /\ pc'[t] # "idle" => pc[t] # "idle"
        /\ pc'[t] \in {"enterConsole", "colour", "print"} =>
             pc[t] \in {"enterConsole", "colour", "print"}
    BY <1>1, <1>6 DEF Enter, SetConsoleColor, ResetConsoleColor, screen, Critical
  <2>2. time <= time' /\ sent <= sent'
    BY <1>1, <2>1
  <2> QED
    BY <1>2, <2>1, <2>2
<1>7. ASSUME NEW t \in Threads, PrintLine(t) PROVE OrderInv'
  <2> DEFINE line == [message |-> message[t], time |-> stamp[t], colour |-> colour]
  <2>1. line \in ConsoleLine /\ line.message = message[t] /\ line.time = stamp[t]
    BY DEF ConsoleLine, TypeOK
  <2>2. /\ pc[t] = "print" /\ pc'[t] = "reset" /\ console' = Append(console, line)
        /\ \A u \in Threads : u # t => pc'[u] = pc[u]
        /\ UNCHANGED <<session, time, message, stamp, sent, files>>
    BY <1>1, <1>7 DEF PrintLine
  <2> HIDE DEF line
  <2>3. /\ "console" \in Logs /\ LinesOf("console") = console
        /\ LinesOf("console")' = Append(LinesOf("console"), line)
        /\ \A l \in Logs : l # "console" => LinesOf(l)' = LinesOf(l)
    BY <2>2 DEF Logs, LinesOf
  <2>4. Before(LinesOf("console"), message[t])
    BY <2>2, <2>3 DEF OrderInv
  <2> QED
    BY <1>3, <2>1, <2>2, <2>3, <2>4 DEF Critical
<1>8. ASSUME NEW t \in Threads, LogMessage(t) PROVE OrderInv'
  <2>1. PICK k \in Files : k = Opens(path)
    BY OpensTyped
  <2> DEFINE line == [message |-> message[t], time |-> stamp[t]]
  <2>2. line \in Line /\ line.message = message[t] /\ line.time = stamp[t]
    BY DEF Line, TypeOK
  <2>3. /\ pc[t] = "write" /\ pc'[t] = "idle"
        /\ \A u \in Threads : u # t => pc'[u] = pc[u]
        /\ UNCHANGED <<session, time, message, stamp, sent, console>>
        /\ AppendLine(k, message[t], stamp[t])
    BY <1>1, <1>8, <2>1 DEF LogMessage, screen
  <2>4. /\ files'[k] = Append(files[k], line)
        /\ \A f \in Files : f # k => files'[f] = files[f]
    <3>1. message[t] \in Message /\ stamp[t] \in 0..MaxTime
      BY DEF TypeOK
    <3> QED
      BY <2>3, <3>1, LineAppended
  <2> HIDE DEF line
  <2>5. /\ k \in Logs /\ k # "console" /\ LinesOf(k)' = Append(LinesOf(k), line)
        /\ \A l \in Logs : l # k => LinesOf(l)' = LinesOf(l)
    BY <2>3, <2>4 DEF Logs, LinesOf, Files
  <2>6. Before(LinesOf(k), message[t])
    BY <2>3, <2>5 DEF OrderInv, LinesOf
  <2> QED
    BY <1>3, <2>2, <2>3, <2>5, <2>6 DEF Critical
<1>9. CASE Terminate
  <2>1. time <= time' /\ sent <= sent'
    BY <1>1, <1>9 DEF Terminate
  <2> QED
    BY <1>2, <1>9, <2>1 DEF Terminate, Critical, screen
<1>10. CASE Tick \/ Protect \/ UNCHANGED vars
  <2>1. /\ UNCHANGED <<session, pc, message, stamp, sent, console, files>>
        /\ time' = time + 1 \/ time' = time
    BY <1>10 DEF Tick, Protect, vars, calls, screen
  <2>2. time <= time' /\ sent <= sent'
    BY <1>1, <2>1
  <2> QED
    BY <1>1, <1>2, <2>1, <2>2
<1> QED
  BY <1>4, <1>5, <1>6, <1>7, <1>8, <1>9, <1>10 DEF Next, Thread

LEMMA OrderHolds == Spec => [](TypeOK /\ MutexInv /\ OrderInv)
  BY TypeInit, TypeStep, MutexInit, MutexStep, OrderInit, OrderStep, PTL DEF Spec

\* Every log tells the time in order, and the messages of a thread in the order it
\* sent them, although a message takes the mutex twice and another thread may come
\* between: the stamp is made under the mutex (Log.cpp:156-173).
THEOREM LinesAreInOrder == Spec => []LinesInOrder
<1>1. OrderInv => LinesInOrder
  BY DEF OrderInv, LinesInOrder, Ordered, Logs, LinesOf, Files
<1> QED
  BY <1>1, OrderHolds, PTL

-----------------------------------------------------------------------------
(* What the console and the files say of each other.                       *)

Shown == Messages(console)
Filed == UNION {Messages(files[f]) : f \in Files}

\* Where a thread is when it has printed its line and has not filed it yet.
Printed == {"reset", "enterFile", "write"}

Settled(m) == m \in Filed \/ m.target = "CONSOLE"

\* In the session that runs, a line on the console that is missing in the files is
\* still in the hands of its thread; so the next line of that thread finds it filed.
AgreeInv ==
    /\ \A m \in Shown : m.session <= session
    /\ \A t \in Threads : pc[t] \in Printed => message[t] \in Shown
    /\ up => \A m \in Shown :
         m.session = session =>
           Settled(m) \/ \E t \in Threads : pc[t] \in Printed /\ m = message[t]
    /\ ConsoleAndFilesAgree

LEMMA MessagesAppend ==
    ASSUME NEW T, NEW lines \in Seq(T), NEW line \in T
    PROVE  Messages(Append(lines, line)) = Messages(lines) \union ({line.message} \ {NoMessage})
<1> DEFINE more == Append(lines, line)
<1>1. /\ Len(lines) \in Nat /\ DOMAIN lines = 1..Len(lines)
      /\ DOMAIN more = 1..(Len(lines) + 1) /\ more[Len(lines) + 1] = line
      /\ \A i \in 1..Len(lines) : more[i] = lines[i]
  OBVIOUS
<1> HIDE DEF more
<1>2. \A i \in 1..(Len(lines) + 1) : i \in 1..Len(lines) \/ i = Len(lines) + 1
  BY <1>1
<1>3. /\ \A i \in 1..Len(lines) : i \in 1..(Len(lines) + 1)
      /\ Len(lines) + 1 \in 1..(Len(lines) + 1)
  BY <1>1
<1>4. Messages(more) = Messages(lines) \union ({line.message} \ {NoMessage})
  <2>1. {more[i].message : i \in DOMAIN more} = {lines[i].message : i \in DOMAIN lines} \union {line.message}
    BY <1>1, <1>2, <1>3
  <2> QED
    BY <2>1 DEF Messages
<1> QED
  BY <1>4 DEF more

\* A line of message m at the end of file k.
LEMMA FiledAppend ==
    ASSUME TypeOK, NEW k \in Files, NEW m \in Message, NEW at \in 0..MaxTime,
           AppendLine(k, m, at)
    PROVE  Filed' = Filed \union ({m} \ {NoMessage})
<1> DEFINE line == [message |-> m, time |-> at]
<1>1. /\ files'[k] = Append(files[k], line)
      /\ \A f \in Files : f # k => files'[f] = files[f]
  BY LineAppended
<1>2. files[k] \in Seq(Line) /\ line \in Line /\ line.message = m
  BY DEF TypeOK, Line
<1> HIDE DEF line
<1>3. Messages(files'[k]) = Messages(files[k]) \union ({m} \ {NoMessage})
  BY <1>1, <1>2, MessagesAppend
<1>4. \A f \in Files : f # k => Messages(files'[f]) = Messages(files[f])
  BY <1>1
<1>5. Filed' = UNION {Messages(files'[f]) : f \in Files}
  BY DEF Filed, Messages
<1> QED
  BY <1>3, <1>4, <1>5 DEF Filed

\* No file but "nowhere" is missing while the working directory's opens.
LEMMA NowhereEmpty ==
    ASSUME TypeOK, NEW directories, NEW m \in Message, NEW at \in 0..MaxTime,
           AppendLine(Opens(directories), m, at), UNCHANGED local,
           local => files["nowhere"] = << >>
    PROVE  local' => files'["nowhere"] = << >>
<1>1. local => Opens(directories) # "nowhere"
  BY DEF Opens
<1>2. "nowhere" \in Files /\ Opens(directories) \in Files
  BY OpensTyped DEF Files
<1> QED
  BY <1>1, <1>2, LineAppended

LEMMA AgreeInit == Init => AgreeInv
<1> SUFFICES ASSUME Init PROVE AgreeInv
  OBVIOUS
<1>1. console = << >> /\ \A f \in Files : files[f] = << >>
  BY DEF Init
<1>2. Messages(<< >>) = {}
  BY DEF Messages
<1>3. Shown = {} /\ Filed = {} /\ \A t \in Threads : pc[t] \notin Printed
  BY <1>1, <1>2 DEF Shown, Filed, Init, Printed
<1>4. ConsoleAndFilesAgree
  BY <1>1, <1>3 DEF ConsoleAndFilesAgree, Shown, Filed, Files
<1> QED
  BY <1>3, <1>4 DEF AgreeInv

\* The two kinds of line that are settled, as the definitions above name them.
LEMMA AgreeNamed ==
    ConsoleAndFilesAgree <=>
      /\ local => files["nowhere"] = << >>
      /\ Filed \subseteq Shown
      /\ \A m \in Shown, n \in Shown :
           m.by = n.by /\ m.session = n.session /\ m.number < n.number => Settled(m)
  BY DEF ConsoleAndFilesAgree, Filed, Shown, Settled

LEMMA AgreeStep ==
    TypeOK /\ TypeOK' /\ MutexInv /\ OrderInv /\ AgreeInv /\ [Next]_vars => AgreeInv'
<1> SUFFICES ASSUME TypeOK, TypeOK', MutexInv, OrderInv, AgreeInv, [Next]_vars
             PROVE  AgreeInv'
  OBVIOUS
<1>1. /\ session \in Nat /\ pc \in [Threads -> PC] /\ message \in [Threads -> Message]
      /\ Shown \subseteq Message
      /\ \A m \in Message : m.session \in Nat /\ m.number \in Nat
  <2>1. session \in Nat /\ pc \in [Threads -> PC] /\ message \in [Threads -> Message]
    BY LogAssumption DEF TypeOK
  <2>2. \A i \in DOMAIN console : console[i] \in ConsoleLine
    <3>1. console \in Seq(ConsoleLine)
      BY DEF TypeOK, ConsoleLine
    <3> QED
      BY <3>1
  <2>3. Shown \subseteq Message
    BY <2>2 DEF Shown, Messages, ConsoleLine
  <2> QED
    BY <2>1, <2>3, LogAssumption DEF Message
<1>2. /\ local => files["nowhere"] = << >>
      /\ Filed \subseteq Shown
      /\ \A m \in Shown, n \in Shown :
           m.by = n.by /\ m.session = n.session /\ m.number < n.number => Settled(m)
      /\ \A m \in Shown : m.session <= session
      /\ \A t \in Threads : pc[t] \in Printed => message[t] \in Shown
      /\ up => \A m \in Shown : m.session = session =>
           Settled(m) \/ \E t \in Threads : pc[t] \in Printed /\ m = message[t]
  BY AgreeNamed DEF AgreeInv
<1>3. ConsoleAndFilesAgree' <=>
      /\ local' => files'["nowhere"] = << >>
      /\ Filed' \subseteq Shown'
      /\ \A m \in Shown', n \in Shown' :
           m.by = n.by /\ m.session = n.session /\ m.number < n.number => Settled(m)'
  BY DEF ConsoleAndFilesAgree, Filed, Shown, Settled
\* Most steps write nothing: what is printed stays in its thread's hands.
<1>4. ASSUME UNCHANGED <<local, console, files>>, session' \in Nat, session <= session',
             \A t \in Threads :
               pc'[t] \in Printed => pc[t] \in Printed /\ message'[t] = message[t],
             up' => /\ up /\ session' = session
                    /\ \A t \in Threads : pc[t] \in Printed =>
                         /\ message'[t] = message[t]
                         /\ pc'[t] \in Printed \/ message[t].target = "CONSOLE"
      PROVE  AgreeInv'
  <2>1. Shown' = Shown /\ Filed' = Filed
    BY <1>4 DEF Shown, Filed
  <2>2. \A m : Settled(m)' = Settled(m)
    BY <2>1 DEF Settled
  <2>3. \A m \in Shown : m.session <= session'
    BY <1>1, <1>2, <1>4
  <2>4. \A t \in Threads : pc'[t] \in Printed => message'[t] \in Shown
    BY <1>2, <1>4
  <2>5. ASSUME up', NEW m \in Shown, m.session = session'
        PROVE  Settled(m) \/ \E t \in Threads : pc'[t] \in Printed /\ m = message'[t]
    <3>1. Settled(m) \/ \E t \in Threads : pc[t] \in Printed /\ m = message[t]
      BY <1>2, <1>4, <2>5
    <3> QED
      BY <1>4, <2>5, <3>1 DEF Settled
  <2>6. ConsoleAndFilesAgree'
    BY <1>2, <1>3, <1>4, <2>1, <2>2
  <2> QED
    BY <2>1, <2>2, <2>3, <2>4, <2>5, <2>6 DEF AgreeInv
<1>5. CASE Start
  <2>1. /\ session' = session + 1 /\ UNCHANGED <<local, console, pc, message>>
        /\ ~up /\ \A t \in Threads : pc[t] = "idle"
    BY <1>5 DEF Start, MutexInv, calls, screen
  <2>2. CASE UNCHANGED <<up, files>>
    <3>1. session' \in Nat /\ session <= session' /\ ~up'
      BY <1>1, <2>1, <2>2
    <3> QED
      BY <1>4, <2>1, <2>2, <3>1 DEF Printed
  <2>3. CASE AppendLine(Opens(MadeDirectories), NoMessage, time)
    <3>1. Filed' = Filed /\ Shown' = Shown
      BY <2>1, <2>3, FiledAppend, OpensTyped, NoMessageTyped DEF TypeOK, Shown
    <3>2. local' => files'["nowhere"] = << >>
      <4>1. NoMessage \in Message /\ time \in 0..MaxTime
        BY NoMessageTyped DEF TypeOK
      <4> QED
        BY <1>2, <2>1, <2>3, <4>1, NowhereEmpty
    <3>3. \A m \in Shown : m.session <= session' /\ m.session # session'
      BY <1>1, <1>2, <2>1
    <3>4. ConsoleAndFilesAgree'
      BY <1>2, <1>3, <3>1, <3>2 DEF Settled
    <3> QED
      BY <2>1, <3>1, <3>3, <3>4 DEF AgreeInv, Printed
  <2> QED
    BY <1>5, <2>2, <2>3 DEF Start
<1>6. ASSUME NEW t \in Threads, Output(t) \/ Enter(t) \/ SetConsoleColor(t) \/ ResetConsoleColor(t)
      PROVE  AgreeInv'
  <2>1. /\ UNCHANGED <<session, up, local, console, files>>
        /\ \A u \in Threads : u # t => pc'[u] = pc[u] /\ message'[u] = message[u]
    BY <1>1, <1>6 DEF Output, Enter, SetConsoleColor, ResetConsoleColor, disk, screen
  <2>2. pc'[t] \in Printed => pc[t] \in Printed /\ message'[t] = message[t]
    BY <1>1, <1>6 DEF Output, Enter, SetConsoleColor, ResetConsoleColor, Printed
  <2>3. pc[t] \in Printed => /\ message'[t] = message[t]
                             /\ pc'[t] \in Printed \/ message[t].target = "CONSOLE"
    <3>1. message[t].target \in {"CONSOLE", "ALL"}
      BY <1>1 DEF Message, Targets
    <3> QED
      BY <1>1, <1>6, <3>1 DEF Output, Enter, SetConsoleColor, ResetConsoleColor, Printed
  <2> QED
    BY <1>1, <1>4, <2>1, <2>2, <2>3
\* A thread prints: what it printed before in this session is settled, since it has
\* left its hands.
<1>7. ASSUME NEW t \in Threads, PrintLine(t) PROVE AgreeInv'
  <2> DEFINE line == [message |-> message[t], time |-> stamp[t], colour |-> colour]
  <2>1. line \in ConsoleLine /\ line.message = message[t]
    BY DEF ConsoleLine, TypeOK
  <2>2. /\ pc[t] = "print" /\ pc'[t] = "reset" /\ console' = Append(console, line)
        /\ \A u \in Threads : u # t => pc'[u] = pc[u]
        /\ UNCHANGED <<session, up, local, message, files>>
        /\ console \in Seq(ConsoleLine)
    BY <1>1, <1>7 DEF PrintLine, disk, TypeOK, ConsoleLine
  <2> HIDE DEF line
  <2>3. PICK n \in Message : n = message[t]
    BY <1>1
  <2>4. /\ n.by = t /\ n.session = session /\ Before(console, n)
        /\ \A u \in Threads : pc[u] # "idle" => message[u].by = u
    BY <2>2, <2>3 DEF OrderInv
  <2>5. n # NoMessage
    BY <2>4, LogAssumption DEF NoMessage
  <2>6. Shown' = Shown \union {n} /\ Filed' = Filed
    <3>1. Messages(Append(console, line)) = Messages(console) \union ({line.message} \ {NoMessage})
      BY <2>1, <2>2, MessagesAppend
    <3>2. Shown' = Messages(console')
      BY DEF Shown, Messages
    <3> QED
      BY <2>1, <2>2, <2>3, <2>5, <3>1, <3>2 DEF Shown, Filed
  <2>7. \A m : Settled(m)' = Settled(m)
    BY <2>6 DEF Settled
  <2>8. \A m \in Shown : m.by = t /\ m.session = session => Settled(m) /\ m.number < n.number
    <3> SUFFICES ASSUME NEW m \in Shown, m.by = t, m.session = session
                 PROVE  Settled(m) /\ m.number < n.number
      OBVIOUS
    <3>1. up
      BY <2>2 DEF MutexInv
    <3>2. \A u \in Threads : ~(pc[u] \in Printed /\ m = message[u])
      BY <2>2, <2>4 DEF Printed
    <3>3. m.number < n.number
      BY <2>4 DEF Shown, Messages, Before
    <3> QED
      BY <1>2, <3>1, <3>2, <3>3
  <2>9. ASSUME NEW a \in Shown', NEW b \in Shown',
               a.by = b.by, a.session = b.session, a.number < b.number
        PROVE  Settled(a)
    <3>1. CASE a \in Shown /\ b \in Shown
      BY <1>2, <2>9, <3>1
    <3>2. CASE a \in Shown /\ b = n
      BY <2>4, <2>8, <2>9, <3>2
    <3>3. CASE a = n
      <4>1. b \in Shown \/ b = n
        BY <2>6
      <4>2. b \in Message /\ a \in Message
        BY <1>1, <3>3, <4>1
      <4>3. ~(a.number < b.number)
        BY <1>1, <2>4, <2>8, <2>9, <3>3, <4>1, <4>2
      <4> QED
        BY <2>9, <4>3
    <3> QED
      BY <2>6, <3>1, <3>2, <3>3
  <2>10. ConsoleAndFilesAgree'
    BY <1>2, <1>3, <2>2, <2>6, <2>7, <2>9
  <2>11. \A m \in Shown' : m.session <= session'
    BY <1>1, <1>2, <2>2, <2>4, <2>6
  <2>12. \A u \in Threads : pc'[u] \in Printed => message'[u] \in Shown'
    BY <1>2, <2>2, <2>3, <2>6
  <2>13. ASSUME up', NEW m \in Shown', m.session = session'
         PROVE  Settled(m)' \/ \E u \in Threads : pc'[u] \in Printed /\ m = message'[u]
    <3>1. CASE m = n
      BY <2>2, <2>3, <3>1 DEF Printed
    <3>2. CASE m \in Shown
      <4>1. Settled(m) \/ \E u \in Threads : pc[u] \in Printed /\ m = message[u]
        BY <1>2, <2>2, <2>13, <3>2
      <4> QED
        BY <2>2, <2>7, <4>1 DEF Printed
    <3> QED
      BY <2>6, <3>1, <3>2
  <2> QED
    BY <2>10, <2>11, <2>12, <2>13 DEF AgreeInv
<1>8. ASSUME NEW t \in Threads, LogMessage(t) PROVE AgreeInv'
  <2>1. /\ pc[t] = "write" /\ pc'[t] = "idle"
        /\ \A u \in Threads : u # t => pc'[u] = pc[u]
        /\ UNCHANGED <<session, up, local, message, console>>
        /\ AppendLine(Opens(path), message[t], stamp[t])
    BY <1>1, <1>8 DEF LogMessage, disk, screen
  <2>2. message[t] \in Message /\ stamp[t] \in 0..MaxTime
    BY DEF TypeOK
  <2>3. Shown' = Shown /\ Filed' = Filed \union ({message[t]} \ {NoMessage})
    BY <2>1, <2>2, FiledAppend, OpensTyped DEF Shown
  <2>4. message[t].by = t /\ message[t] # NoMessage /\ message[t] \in Shown
    BY <1>2, <2>1, LogAssumption DEF OrderInv, NoMessage, Printed
  <2>5. /\ \A m : Settled(m) => Settled(m)'
        /\ \A m : m = message[t] => Settled(m)'
    BY <2>3, <2>4 DEF Settled
  <2>6. local' => files'["nowhere"] = << >>
    BY <1>2, <2>1, <2>2, NowhereEmpty
  <2>7. ConsoleAndFilesAgree'
    BY <1>2, <1>3, <2>3, <2>4, <2>5, <2>6
  <2>8. ASSUME up', NEW m \in Shown', m.session = session'
        PROVE  Settled(m)' \/ \E u \in Threads : pc'[u] \in Printed /\ m = message'[u]
    <3>1. Settled(m) \/ \E u \in Threads : pc[u] \in Printed /\ m = message[u]
      BY <1>2, <2>1, <2>3, <2>8
    <3> QED
      BY <2>1, <2>5, <3>1
  <2>9. \A u \in Threads : pc'[u] \in Printed => message'[u] \in Shown'
    BY <1>2, <2>1, <2>3 DEF Printed
  <2>10. \A m \in Shown' : m.session <= session'
    BY <1>2, <2>1, <2>3
  <2> QED
    BY <2>7, <2>8, <2>9, <2>10 DEF AgreeInv
<1>9. CASE Terminate
  <2>1. session' \in Nat /\ session <= session'
    BY <1>1, <1>9 DEF Terminate
  <2> QED
    BY <1>4, <1>9, <2>1 DEF Terminate, Printed, disk, screen
<1>10. CASE Tick \/ Protect \/ UNCHANGED vars
  <2>1. UNCHANGED <<session, up, local, console, files, pc, message>>
    BY <1>10 DEF Tick, Protect, vars, calls, screen, disk
  <2>2. session' \in Nat /\ session <= session'
    BY <1>1, <2>1
  <2> QED
    BY <1>4, <2>1, <2>2
<1> QED
  BY <1>5, <1>6, <1>7, <1>8, <1>9, <1>10 DEF Next, Thread

\* While one of the two files opens no line is lost: a file has nothing that was not
\* on the console, and of each thread and session at most the last line on the
\* console is missing in the files, because the process ended in between
\* (Log.cpp:120-127, 190-209).
THEOREM LogsAgree == Spec => []ConsoleAndFilesAgree
<1>1. AgreeInv => ConsoleAndFilesAgree
  BY DEF AgreeInv
<1> QED
  BY <1>1, OrderHolds, TypeInit, AgreeInit, AgreeStep, PTL DEF Spec

=============================================================================
