--------------------------- MODULE VisitorService ---------------------------
(***************************************************************************)
(* The visitor counter of TradingBotWeb: GET /api/visitors/increment of    *)
(* VisitorController, and VisitorService with its two tables.              *)
(*                                                                         *)
(* The database (external) is MySQL at its default isolation level: a      *)
(* transaction reads the snapshot taken at its first read and writes the   *)
(* values it computed from it.  The tables have no unique constraint and   *)
(* the entities no version.                                                *)
(***************************************************************************)
EXTENDS Integers, FiniteSets

CONSTANTS
    Requests,   \* request threads of the web server
    Visitors,   \* values of generateVisitorIdentifier
    MaxDay,     \* bound on the days
    MaxCounted  \* bound: no request is let in on a day with that many rows

ASSUME VisitorAssumption ==
    /\ IsFiniteSet(Requests)
    /\ MaxDay \in Nat \ {0}
    /\ MaxCounted \in Nat

Days == 1..MaxDay

VARIABLES
    today,     \* LocalDate.now()
    counted,   \* number of UniqueVisitor rows of each day
    seen,      \* the <<day, visitor>> pairs those rows hold
    stats,     \* the rows of visitor_stats
    lastId,    \* the last generated id of that table
    pc,        \* where each request is
    visitor,   \* its visitorIdentifier
    day,       \* the day its transaction read
    view,      \* the rows of visitor_stats its transaction sees
    overlapped \* history: two transactions have been open at once

tables == <<counted, seen, stats, lastId>>
locals == <<pc, visitor, day, view>>
vars   == <<today, tables, locals, overlapped>>

Row == [id : Nat \ {0}, date : Days, daily : Nat, total : Nat]

RowsOf(rows, d) == {s \in rows : s.date = d}

\* Each visitor that one of the rows counts, and their number: the sum of the
\* daily counts.
CountedBy(rows) == UNION {{s} \X (1..s.daily) : s \in rows}

DailySum(rows) == Cardinality(CountedBy(rows))

Open == {r \in Requests : pc[r] = "open"}

-----------------------------------------------------------------------------
Init ==
    /\ today = 1
    /\ counted = [d \in Days |-> 0]
    /\ seen = {}
    /\ stats = {}
    /\ lastId = 0
    /\ pc = [r \in Requests |-> "idle"]
    /\ visitor \in [Requests -> Visitors]
    /\ day = [r \in Requests |-> 1]
    /\ view = [r \in Requests |-> {}]
    /\ overlapped = FALSE

Midnight ==
    /\ today < MaxDay
    /\ today' = today + 1
    /\ UNCHANGED <<tables, locals, overlapped>>

\* isNewVisitor, in a transaction of its own.
Ask(r, v) ==
    /\ pc[r] = "idle"
    /\ <<today, v>> \notin seen
    /\ counted[today] < MaxCounted
    /\ pc' = [pc EXCEPT ![r] = "asked"]
    /\ visitor' = [visitor EXCEPT ![r] = v]
    /\ UNCHANGED <<today, tables, day, view, overlapped>>

\* A visitor that is known is answered at once.
AskKnown(r, v) ==
    /\ pc[r] = "idle"
    /\ <<today, v>> \in seen
    /\ UNCHANGED vars

\* Mutant: incrementDailyVisitors trusts the controller's test.
BeginUnchecked(r) ==
    /\ pc[r] = "asked"
    /\ pc' = [pc EXCEPT ![r] = "open"]
    /\ day' = [day EXCEPT ![r] = today]
    /\ view' = [view EXCEPT ![r] = stats]
    /\ overlapped' = (overlapped \/ Open # {})
    /\ UNCHANGED <<today, tables, visitor>>

\* incrementDailyVisitors tests again; its first read fixes the snapshot.
Begin(r) ==
    /\ pc[r] = "asked"
    /\ <<today, visitor[r]>> \notin seen
    /\ pc' = [pc EXCEPT ![r] = "open"]
    /\ day' = [day EXCEPT ![r] = today]
    /\ view' = [view EXCEPT ![r] = stats]
    /\ overlapped' = (overlapped \/ Open # {})
    /\ UNCHANGED <<today, tables, visitor>>

BeginKnown(r) ==
    /\ pc[r] = "asked"
    /\ <<today, visitor[r]>> \in seen
    /\ pc' = [pc EXCEPT ![r] = "idle"]
    /\ UNCHANGED <<today, tables, visitor, day, view, overlapped>>

\* The request is over.
Close(r) ==
    /\ pc' = [pc EXCEPT ![r] = "idle"]
    /\ view' = [view EXCEPT ![r] = {}]
    /\ UNCHANGED <<today, visitor, day, overlapped>>

\* The UniqueVisitor row.
Record(r) ==
    /\ counted' = [counted EXCEPT ![day[r]] = @ + 1]
    /\ seen' = seen \cup {<<day[r], visitor[r]>>}

\* Mutant: the row is stored under an id that was not generated.
CommitFirstUnnumbered(r) ==
    /\ pc[r] = "open"
    /\ RowsOf(view[r], day[r]) = {}
    /\ Record(r)
    /\ lastId' = lastId + 1
    /\ stats' = stats \cup {[id |-> lastId, date |-> day[r], daily |-> 1,
                             total |-> DailySum(view[r]) + 1]}
    /\ Close(r)

\* The first visitor of the day in this view: a new row, which findAll does not
\* see yet.
CommitFirst(r) ==
    /\ pc[r] = "open"
    /\ RowsOf(view[r], day[r]) = {}
    /\ Record(r)
    /\ lastId' = lastId + 1
    /\ stats' = stats \cup {[id |-> lastId', date |-> day[r], daily |-> 1,
                             total |-> DailySum(view[r]) + 1]}
    /\ Close(r)

\* Mutant: the counter is increased but the visitor is not stored.
CommitUnrecorded(r) ==
    /\ pc[r] = "open"
    /\ \E s \in view[r] :
        /\ RowsOf(view[r], day[r]) = {s}
        /\ stats' = {u \in stats : u.id # s.id} \cup
                      {[s EXCEPT !.daily = @ + 1, !.total = @ + 1]}
    /\ UNCHANGED <<counted, seen, lastId>>
    /\ Close(r)

\* Mutant: a copy of the row is saved, which inserts it as a new one.
CommitCopy(r) ==
    /\ pc[r] = "open"
    /\ \E s \in view[r] :
        /\ s.date = day[r]
        /\ lastId' = lastId + 1
        /\ stats' = stats \cup {[s EXCEPT !.id = lastId', !.daily = @ + 1]}
    /\ Record(r)
    /\ Close(r)

\* A later visitor: the managed row is increased, findAll flushes it and so
\* returns it increased, and one more is added to the sum.
CommitLater(r) ==
    /\ pc[r] = "open"
    /\ \E s \in view[r] :
        /\ RowsOf(view[r], day[r]) = {s}
        /\ stats' = {u \in stats : u.id # s.id} \cup
                      {[id |-> s.id, date |-> s.date, daily |-> s.daily + 1,
                        total |-> (DailySum(view[r]) + 1) + 1]}
    /\ Record(r)
    /\ UNCHANGED lastId
    /\ Close(r)

\* findByDate throws on two rows, or the database fails: nothing is stored.
Rollback(r) ==
    /\ pc[r] = "open"
    /\ Close(r)
    /\ UNCHANGED tables

Next ==
    \/ Midnight
    \/ \E r \in Requests :
        \/ \E v \in Visitors : Ask(r, v) \/ AskKnown(r, v)
        \/ Begin(r) \/ BeginKnown(r)
        \/ CommitFirst(r) \/ CommitLater(r) \/ Rollback(r)

Spec == Init /\ [][Next]_vars

-----------------------------------------------------------------------------
(* Properties.                                                             *)

TypeOK ==
    /\ today \in Days
    /\ counted \in [Days -> Nat]
    /\ seen \subseteq Days \X Visitors
    /\ stats \subseteq Row
    /\ lastId \in Nat
    /\ pc \in [Requests -> {"idle", "asked", "open"}]
    /\ visitor \in [Requests -> Visitors]
    /\ day \in [Requests -> Days]
    /\ view \in [Requests -> SUBSET Row]
    /\ overlapped \in BOOLEAN

\* However transactions overlap, lose updates and fail, no row counts more
\* visitors than were stored for its day (VisitorService.java:58-79).
NeverOvercounts == \A s \in stats : s.daily <= counted[s.date]

\* A day has at most one row for each request that can be in flight, so the
\* table cannot fill without bound (VisitorService.java:67-68, 79).
RowsPerDayBounded ==
    \A d \in Days : Cardinality(RowsOf(stats, d)) <= Cardinality(Requests)

\* As long as no two transactions have overlapped, each visitor is counted
\* once a day, in the only row of that day: the second test, inside the
\* transaction, closes the window after the controller's
\* (VisitorController.java:43-50, VisitorService.java:58).
ExactWithoutOverlap ==
    ~overlapped =>
        \A d \in Days :
            LET visitors == Cardinality({v \in Visitors : <<d, v>> \in seen})
            IN  /\ counted[d] = visitors
                /\ visitors = 0 => RowsOf(stats, d) = {}
                /\ visitors > 0 => \E s \in stats : /\ RowsOf(stats, d) = {s}
                                                    /\ s.daily = visitors

\* totalVisitors is the number of all visitors counted so far (comment,
\* VisitorService.java:72).
TotalIsSum ==
    \A s \in RowsOf(stats, today) : s.total = DailySum(stats)
=============================================================================
