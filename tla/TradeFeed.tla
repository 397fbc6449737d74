------------------------------ MODULE TradeFeed ------------------------------
(***************************************************************************)
(* What HoldingStreamService promises about trades: they are posted to a   *)
(* log once each, and every post is delivered to all subscribers of the    *)
(* moment at once, before the next one.  So what a subscriber has received *)
(* is a gapless piece of the log, from its subscription on.                *)
(***************************************************************************)
EXTENDS Naturals, Sequences

CONSTANTS
    Trades,      \* identities of trades: date, number and stock code
    Subscribers  \* slots for browsers

VARIABLES
    log,       \* the posted trades, in the order of posting
    delivered, \* how many of them have been delivered
    open,      \* the subscribers
    inbox      \* what each of them has received

vars == <<log, delivered, open, inbox>>

Posted(t) == \E i \in DOMAIN log : log[i] = t

Init ==
    /\ log = <<>>
    /\ delivered = 0
    /\ open = {}
    /\ inbox = [s \in Subscribers |-> <<>>]

Post(t) ==
    /\ ~Posted(t)
    /\ delivered = Len(log)
    /\ log' = Append(log, t)
    /\ UNCHANGED <<delivered, open, inbox>>

Deliver ==
    /\ delivered < Len(log)
    /\ delivered' = delivered + 1
    /\ inbox' = [s \in Subscribers |->
                  IF s \in open THEN Append(inbox[s], log[delivered']) ELSE inbox[s]]
    /\ UNCHANGED <<log, open>>

Subscribe(s) ==
    /\ s \notin open
    /\ open' = open \cup {s}
    /\ UNCHANGED <<log, delivered, inbox>>

Unsubscribe(s) ==
    /\ s \in open
    /\ open' = open \ {s}
    /\ inbox' = [inbox EXCEPT ![s] = <<>>]
    /\ UNCHANGED <<log, delivered>>

\* The log is in memory only.
Forget ==
    /\ log' = <<>>
    /\ delivered' = 0
    /\ open' = {}
    /\ inbox' = [s \in Subscribers |-> <<>>]

Next ==
    \/ \E t \in Trades : Post(t)
    \/ Deliver
    \/ \E s \in Subscribers : Subscribe(s) \/ Unsubscribe(s)
    \/ Forget

Spec == Init /\ [][Next]_vars
=============================================================================
