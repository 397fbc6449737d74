---------------------------- MODULE StreamService ----------------------------
(***************************************************************************)
(* What StreamingServer promises its peers from Start to the end of the    *)
(* process.  While the service is open a peer that waits is not refused,   *)
(* one that is served is not dropped unless it has left, and rounds of     *)
(* lines begin.  When it starts to close some of the served peers may be   *)
(* due one last round, which it begins before or after it has closed; the  *)
(* peers that wait may be refused, and one of them at most may still be    *)
(* served, without a round.  When it is closed nobody waits and nobody     *)
(* comes in.                                                               *)
(***************************************************************************)
EXTENDS Naturals

CONSTANTS
    Peers

VARIABLES
    phase,   \* "unopened", "open", "closing" or "closed"
    waiting, \* the peers that have connected and are not served
    served,  \* those that are
    gone,    \* those of them that have left
    sent,    \* those of them to which a round of lines is being sent
    due,     \* those of them that still get one when the service closes
    late     \* how many were let in when the service was closing

peers == <<waiting, served, gone, sent, due>>
vars  == <<phase, peers, late>>

Init ==
    /\ phase = "unopened"
    /\ waiting = {} /\ served = {} /\ gone = {} /\ sent = {} /\ due = {}
    /\ late = 0

Open ==
    /\ phase = "unopened"
    /\ phase' = "open"
    /\ UNCHANGED <<peers, late>>

\* A service that did not open ends.
GiveUp ==
    /\ phase = "unopened"
    /\ phase' = "closed"
    /\ UNCHANGED <<peers, late>>

BeginClosing ==
    /\ phase = "open"
    /\ phase' = "closing"
    /\ due' \in SUBSET (served \ sent)
    /\ UNCHANGED <<waiting, served, gone, sent, late>>

EndClosing ==
    /\ phase = "closing"
    /\ waiting = {}
    /\ phase' = "closed"
    /\ UNCHANGED <<peers, late>>

Arrive(p) ==
    /\ phase \in {"open", "closing"}
    /\ p \notin waiting \cup served
    /\ waiting' = waiting \cup {p}
    /\ UNCHANGED <<phase, served, gone, sent, due, late>>

\* A service that is closing refuses all who wait.
Refuse ==
    /\ phase = "closing"
    /\ waiting' = {}
    /\ UNCHANGED <<phase, served, gone, sent, due, late>>

Serve(p) ==
    /\ p \in waiting
    /\ served' = served \cup {p}
    /\ \/ /\ phase = "open"
          /\ waiting' = waiting \ {p}
          /\ UNCHANGED late
       \/ /\ phase = "closing" /\ late = 0
          /\ waiting' \in {waiting \ {p}, {}}
          /\ late' = 1
    /\ UNCHANGED <<phase, gone, sent, due>>

BeginRound(p) ==
    /\ p \in served \ sent
    /\ phase = "open" \/ p \in due
    /\ sent' = sent \cup {p}
    /\ due' = due \ {p}
    /\ UNCHANGED <<phase, waiting, served, gone, late>>

EndRound(p) ==
    /\ p \in sent
    /\ sent' = sent \ {p}
    /\ UNCHANGED <<phase, waiting, served, gone, due, late>>

Depart(p) ==
    /\ p \in served \ gone
    /\ gone' = gone \cup {p}
    /\ UNCHANGED <<phase, waiting, served, sent, due, late>>

Drop(p) ==
    /\ p \in served
    /\ p \in gone \/ (phase # "open" /\ p \notin sent \cup due)
    /\ served' = served \ {p}
    /\ gone' = gone \ {p}
    /\ sent' = sent \ {p}
    /\ due' = due \ {p}
    /\ UNCHANGED <<phase, waiting, late>>

\* The process ends.
Vanish ==
    /\ phase = "closed"
    /\ served' = {} /\ gone' = {} /\ sent' = {} /\ due' = {}
    /\ UNCHANGED <<phase, waiting, late>>

Next ==
    \/ Open \/ GiveUp \/ BeginClosing \/ EndClosing \/ Refuse \/ Vanish
    \/ \E p \in Peers :
         \/ Arrive(p) \/ Serve(p) \/ Depart(p) \/ Drop(p)
         \/ BeginRound(p) \/ EndRound(p)

Spec == Init /\ [][Next]_vars
=============================================================================
