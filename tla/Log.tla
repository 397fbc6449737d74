--------------------------------- MODULE Log ---------------------------------
(***************************************************************************)
(* Core/Log.cpp of TradingCore: one log for all threads, on the console    *)
(* and in a file, with one mutex that Output takes once for each.          *)
(*                                                                         *)
(* A line is a message, that is who sent it, in which session of the       *)
(* process, as which message, at which level, and the time of its stamp.   *)
(* "nowhere" is a history file: what went there because no file opened.    *)
(***************************************************************************)
EXTENDS Integers, Sequences

CONSTANTS
    Threads,     \* the threads that log
    NoThread,    \* the holder of a free mutex
    Levels,      \* the levels of messages
    Ansi,        \* the console understands escape codes: not on Windows
    Depth,       \* directories on the path of Config::rootPath
    MaxMessages, \* bound on the messages of all threads and sessions
    MaxSessions, \* bound on the starts of the process
    MaxTime      \* bound on the clock, in seconds

ASSUME LogAssumption ==
    /\ NoThread \notin Threads
    /\ "normal" \notin Levels
    /\ {Depth, MaxMessages, MaxSessions, MaxTime} \subseteq Nat
    /\ Depth > 0
    /\ Ansi \in BOOLEAN

VARIABLES
    session,  \* how many times the process was started
    up,       \* it runs
    path,     \* what is at each directory of the path
    writable, \* files and directories can be made there
    local,    \* log.txt of the working directory opens
    time,     \* the clock
    mutex,    \* the holder of g_logMutex
    pc,       \* where the Output of each thread is
    message,  \* what it is writing
    stamp,    \* GetCurrentTimeString of the line
    sent,     \* messages so far
    colour,   \* the colour of the console
    console,  \* its lines
    files     \* the lines of each log.txt

disk   == <<path, writable, local>>
calls  == <<pc, message, stamp, sent>>
screen == <<colour, console>>
vars   == <<session, up, disk, time, mutex, calls, screen, files>>

Files   == {"root", "local", "nowhere"}
Targets == {"CONSOLE", "ALL"}
PC      == {"idle", "enterConsole", "colour", "print", "reset", "enterFile", "write"}

Message == [by : Threads \union {NoThread}, session : 0..MaxSessions,
            number : 0..MaxMessages, level : Levels \union {"normal"}, target : Targets]
NoMessage == [by |-> NoThread, session |-> 0, number |-> 0, level |-> "normal",
              target |-> "ALL"]

\* The lines on a sequence of lines that are messages of Output, not headers.
Messages(lines) == {lines[i].message : i \in DOMAIN lines} \ {NoMessage}

-----------------------------------------------------------------------------
(* The directory and the file.                                             *)

\* EnsureDirectoryExists: each directory that is missing is made.  A file in
\* its place makes mkdir say EEXIST, which counts as made: the call fails only
\* if that file is not the last of the path.
EnsureDirectoryExists ==
    /\ \A d \in 1..Depth : path[d] = "none" => writable
    /\ \A d \in 1..(Depth - 1) : path[d] # "file"

MadeDirectories ==
    [d \in 1..Depth |->
        IF path[d] = "none" /\ writable /\ \A e \in 1..(d - 1) : path[e] # "file"
        THEN "dir" ELSE path[d]]

\* Mutant: no file of the working directory.
OpensRootOnly(directories) ==
    IF writable /\ \A d \in 1..Depth : directories[d] = "dir" THEN "root" ELSE "nowhere"

\* The file that opens for appending: log.txt of the root path, else the one of
\* the working directory, else none.
Opens(directories) ==
    IF writable /\ \A d \in 1..Depth : directories[d] = "dir" THEN "root"
    ELSE IF local THEN "local"
    ELSE "nowhere"

AppendLine(file, m, at) ==
    files' = [files EXCEPT ![file] = Append(@, [message |-> m, time |-> at])]

-----------------------------------------------------------------------------
Init ==
    /\ session = 0 /\ up = FALSE
    /\ path \in {p \in [1..Depth -> {"dir", "none", "file"}] :
                   \A d, e \in 1..Depth : d < e /\ p[d] # "dir" => p[e] = "none"}
    /\ writable = TRUE /\ local \in BOOLEAN
    /\ time = 0
    /\ mutex = NoThread
    /\ pc = [t \in Threads |-> "idle"]
    /\ message = [t \in Threads |-> NoMessage]
    /\ stamp = [t \in Threads |-> 0]
    /\ sent = 0
    /\ colour = "normal"
    /\ console = <<>>
    /\ files = [f \in Files |-> <<>>]

\* The constructor, before any other thread runs: the directory, then the
\* header of the session.  Without the directory the assertion of a debug build
\* ends the process, and another build goes on.
Start ==
    /\ ~up /\ session < MaxSessions
    /\ session' = session + 1
    /\ path' = MadeDirectories
    /\ \/ /\ up' = TRUE
          /\ AppendLine(Opens(MadeDirectories), NoMessage, time)
       \/ ~EnsureDirectoryExists /\ UNCHANGED <<up, files>>
    /\ UNCHANGED <<writable, local, time, mutex, calls, screen>>

-----------------------------------------------------------------------------
(* Output.                                                                 *)

\* A call: LogConsole first, then LogMessage if the target has the file.
Output(t) ==
    /\ up /\ pc[t] = "idle" /\ sent < MaxMessages
    /\ sent' = sent + 1
    /\ \E level \in Levels, target \in Targets :
         message' = [message EXCEPT ![t] =
                       [by |-> t, session |-> session, number |-> sent + 1,
                        level |-> level, target |-> target]]
    /\ pc' = [pc EXCEPT ![t] = "enterConsole"]
    /\ UNCHANGED <<session, up, disk, time, mutex, stamp, screen, files>>

\* Mutant: no lock.
EnterUnlocked(t) ==
    /\ pc[t] \in {"enterConsole", "enterFile"}
    /\ pc' = [pc EXCEPT ![t] = IF @ = "enterConsole" THEN "colour" ELSE "write"]
    /\ stamp' = [stamp EXCEPT ![t] = time]
    /\ UNCHANGED <<session, up, disk, time, mutex, message, sent, screen, files>>

\* Mutant: LogMessage takes the line that LogConsole has stamped.
EnterStamped(t) ==
    /\ pc[t] \in {"enterConsole", "enterFile"}
    /\ mutex = NoThread
    /\ mutex' = t
    /\ pc' = [pc EXCEPT ![t] = IF @ = "enterConsole" THEN "colour" ELSE "write"]
    /\ stamp' = [stamp EXCEPT ![t] = IF pc[t] = "enterConsole" THEN time ELSE @]
    /\ UNCHANGED <<session, up, disk, time, message, sent, screen, files>>

\* Mutant: the structure of the time is not filled in.
EnterUnstamped(t) ==
    /\ pc[t] \in {"enterConsole", "enterFile"}
    /\ mutex = NoThread
    /\ mutex' = t
    /\ pc' = [pc EXCEPT ![t] = IF @ = "enterConsole" THEN "colour" ELSE "write"]
    /\ stamp' = [stamp EXCEPT ![t] = -1]
    /\ UNCHANGED <<session, up, disk, time, message, sent, screen, files>>

\* LogConsole and LogMessage take the mutex, and stamp the line under it.
Enter(t) ==
    /\ pc[t] \in {"enterConsole", "enterFile"}
    /\ mutex = NoThread
    /\ mutex' = t
    /\ pc' = [pc EXCEPT ![t] = IF @ = "enterConsole" THEN "colour" ELSE "write"]
    /\ stamp' = [stamp EXCEPT ![t] = time]
    /\ UNCHANGED <<session, up, disk, time, message, sent, screen, files>>

SetConsoleColor(t) ==
    /\ pc[t] = "colour"
    /\ pc' = [pc EXCEPT ![t] = "print"]
    /\ colour' = message[t].level
    /\ UNCHANGED <<session, up, disk, time, mutex, message, stamp, sent, console, files>>

PrintLine(t) ==
    /\ pc[t] = "print"
    /\ pc' = [pc EXCEPT ![t] = "reset"]
    /\ console' = Append(console, [message |-> message[t], time |-> stamp[t],
                                   colour |-> colour])
    /\ UNCHANGED <<session, up, disk, time, mutex, message, stamp, sent, colour, files>>

\* Mutant: one lock around both.
ResetHoldsMutex(t) ==
    /\ pc[t] = "reset"
    /\ colour' = IF Ansi THEN "normal" ELSE colour
    /\ pc' = [pc EXCEPT ![t] = IF message[t].target = "ALL" THEN "enterFile" ELSE "idle"]
    /\ mutex' = IF message[t].target = "ALL" THEN mutex ELSE NoThread
    /\ UNCHANGED <<session, up, disk, time, message, stamp, sent, console, files>>

\* On Windows the attributes set are those that have just been read: the
\* colour stays.  The mutex is free until LogMessage takes it again.
ResetConsoleColor(t) ==
    /\ pc[t] = "reset"
    /\ colour' = IF Ansi THEN "normal" ELSE colour
    /\ pc' = [pc EXCEPT ![t] = IF message[t].target = "ALL" THEN "enterFile" ELSE "idle"]
    /\ mutex' = NoThread
    /\ UNCHANGED <<session, up, disk, time, message, stamp, sent, console, files>>

\* The file is opened, written, flushed and closed.
LogMessage(t) ==
    /\ pc[t] = "write"
    /\ AppendLine(Opens(path), message[t], stamp[t])
    /\ pc' = [pc EXCEPT ![t] = "idle"]
    /\ mutex' = NoThread
    /\ UNCHANGED <<session, up, disk, time, message, stamp, sent, screen>>

Thread(t) ==
    \/ Enter(t) \/ SetConsoleColor(t) \/ PrintLine(t) \/ ResetConsoleColor(t)
    \/ LogMessage(t)

-----------------------------------------------------------------------------
(* The environment.                                                        *)

\* A second passes.
Tick ==
    /\ time < MaxTime
    /\ time' = time + 1
    /\ UNCHANGED <<session, up, disk, mutex, calls, screen, files>>

\* The file system of the root path is remounted read-only.
Protect ==
    /\ writable
    /\ writable' = FALSE
    /\ UNCHANGED <<session, up, path, local, time, mutex, calls, screen, files>>

\* The process ends wherever its threads are.
Terminate ==
    /\ up
    /\ up' = FALSE
    /\ mutex' = NoThread
    /\ pc' = [t \in Threads |-> "idle"]
    /\ message' = [t \in Threads |-> NoMessage]
    /\ stamp' = [t \in Threads |-> 0]
    /\ UNCHANGED <<session, disk, time, sent, screen, files>>

Next ==
    \/ Start \/ Terminate \/ Tick \/ Protect
    \/ \E t \in Threads : Output(t) \/ Thread(t)

Spec == Init /\ [][Next]_vars

\* A thread that can go on does.
FairSpec == Spec /\ \A t \in Threads : WF_vars(Thread(t))

-----------------------------------------------------------------------------
(* Properties.                                                             *)

TypeOK ==
    /\ session \in 0..MaxSessions /\ up \in BOOLEAN
    /\ path \in [1..Depth -> {"dir", "none", "file"}]
    /\ writable \in BOOLEAN /\ local \in BOOLEAN
    /\ time \in 0..MaxTime
    /\ mutex \in Threads \union {NoThread}
    /\ pc \in [Threads -> PC]
    /\ message \in [Threads -> Message]
    /\ stamp \in [Threads -> 0..MaxTime]
    /\ sent \in 0..MaxMessages
    /\ colour \in Levels \union {"normal"}
    /\ console \in Seq([message : Message, time : 0..MaxTime,
                        colour : Levels \union {"normal"}])
    /\ files \in [Files -> Seq([message : Message, time : 0..MaxTime])]

\* The three steps that print a line are not mixed with those of another
\* thread: each line has the colour of its level (Log.cpp:156-166).
LinesInColour ==
    \A i \in DOMAIN console : console[i].colour = console[i].message.level

\* The console and each file tell the time in order, and the messages of a
\* thread in the order it sent them, through restarts and changes of the file
\* (Log.cpp:156-173).
LinesInOrder ==
    \A lines \in {console} \union {files[f] : f \in Files} :
      \A i, j \in DOMAIN lines :
        LET m == lines[i].message
            n == lines[j].message
        IN  i < j =>
              /\ lines[i].time <= lines[j].time
              /\ m.by = n.by /\ m.by # NoThread /\ m.session = n.session
                   => m.number < n.number

\* No line is lost while one of the two files opens.  What is in a file is on
\* the console; what is on the console and meant for the file is missing there
\* only if its thread wrote nothing after it, because the process ended between
\* the two (Log.cpp:120-127, 190-209).
ConsoleAndFilesAgree ==
    LET filed == UNION {Messages(files[f]) : f \in Files}
        shown == Messages(console)
    IN  /\ local => files["nowhere"] = <<>>
        /\ filed \subseteq shown
        /\ \A m \in shown, n \in shown :
             /\ m.by = n.by /\ m.session = n.session /\ m.number < n.number
             => m \in filed \/ m.target = "CONSOLE"

\* A thread that has the mutex gives it back: nothing it does under it waits for
\* the mutex again (Log.cpp:156-170).
MutexReturns == \A t \in Threads : mutex = t ~> mutex # t
=============================================================================
