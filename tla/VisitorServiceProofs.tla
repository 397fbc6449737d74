------------------------ MODULE VisitorServiceProofs ------------------------
(***************************************************************************)
(* Proofs about VisitorService, for any number of requests, visitors and   *)
(* days.                                                                   *)
(***************************************************************************)
EXTENDS VisitorService, FiniteSetTheorems, TLAPS

-----------------------------------------------------------------------------
(* Types.                                                                  *)

\* A total is a number because the rows that are summed count finitely many
\* visitors.
TypeInv ==
    /\ TypeOK
    /\ IsFiniteSet(CountedBy(stats))
    /\ \A r \in Requests : IsFiniteSet(CountedBy(view[r]))

LEMMA CountedByFinite ==
    ASSUME NEW rows, NEW more, NEW new, more \subseteq rows \cup {new},
           IsFiniteSet(CountedBy(rows)), new.daily \in Nat
    PROVE  IsFiniteSet(CountedBy(more))
<1> DEFINE added == {new} \X (1..new.daily)
           f == [i \in 1..new.daily |-> <<new, i>>]
<1>1. IsFiniteSet(added)
  <2>1. IsFiniteSet(1..new.daily)
    BY FS_Interval
  <2>2. f \in Surjection(1..new.daily, added)
    <3>1. f \in [1..new.daily -> added]
      OBVIOUS
    <3>2. \A e \in added : \E i \in 1..new.daily : f[i] = e
      OBVIOUS
    <3> QED
      BY <3>1, <3>2 DEF Surjection
  <2> QED
    BY <2>1, <2>2, FS_Surjection
<1>2. CountedBy(more) \subseteq CountedBy(rows) \cup added
  BY DEF CountedBy
<1>3. IsFiniteSet(CountedBy(rows) \cup added)
  BY <1>1, FS_Union
<1> QED
  BY <1>2, <1>3, FS_Subset

LEMMA TypeInit == Init => TypeInv
<1> SUFFICES ASSUME Init PROVE TypeInv
  OBVIOUS
<1>1. TypeOK
  <2>1. 1 \in Days
    BY VisitorAssumption DEF Days
  <2> QED
    BY <2>1 DEF Init, TypeOK
<1>2. CountedBy({}) = {}
  BY DEF CountedBy
<1> QED
  BY <1>1, <1>2, FS_EmptySet DEF Init, TypeInv

LEMMA TypeStep == TypeInv /\ [Next]_vars => TypeInv'
<1> SUFFICES ASSUME TypeInv, [Next]_vars PROVE TypeInv'
  OBVIOUS
<1> USE DEF TypeOK
<1>1. CASE Midnight \/ UNCHANGED vars
  BY <1>1, VisitorAssumption DEF Midnight, TypeInv, Days, tables, locals, vars
<1>2. CASE \E r \in Requests, v \in Visitors : Ask(r, v) \/ AskKnown(r, v)
  BY <1>2 DEF Ask, AskKnown, TypeInv, tables, vars, locals
<1>3. CASE \E r \in Requests : Begin(r) \/ BeginKnown(r)
  BY <1>3 DEF Begin, BeginKnown, TypeInv, tables
\* The request is over and has stored a row, or nothing.
<1>4. ASSUME NEW r \in Requests, Close(r),
             counted' \in [Days -> Nat], seen' \subseteq Days \X Visitors, lastId' \in Nat,
             stats' = stats \/ \E new \in Row : stats' \subseteq stats \cup {new}
      PROVE  TypeInv'
  <2>1. stats' \subseteq Row /\ IsFiniteSet(CountedBy(stats'))
    <3>1. CASE stats' = stats
      BY <3>1 DEF TypeInv
    <3>2. ASSUME NEW new \in Row, stats' \subseteq stats \cup {new}
          PROVE  stats' \subseteq Row /\ IsFiniteSet(CountedBy(stats'))
      <4>1. new.daily \in Nat
        BY DEF Row
      <4> QED
        BY <3>2, <4>1, CountedByFinite DEF TypeInv
    <3> QED
      BY <1>4, <3>1, <3>2
  <2>2. view' \in [Requests -> SUBSET Row] /\ \A q \in Requests : view'[q] \in {{}, view[q]}
    BY <1>4 DEF Close, TypeInv
  <2>3. \A q \in Requests : IsFiniteSet(CountedBy(view'[q]))
    <3>1. CountedBy({}) = {}
      BY DEF CountedBy
    <3> QED
      BY <2>2, <3>1, FS_EmptySet DEF TypeInv
  <2>4. TypeOK'
    BY <1>4, <2>1, <2>2 DEF Close, TypeInv
  <2>5. IsFiniteSet(CountedBy(stats))'
    BY <2>1 DEF CountedBy
  <2>6. \A q \in Requests : IsFiniteSet(CountedBy(view[q]))'
    BY <2>3 DEF CountedBy
  <2> QED
    BY <2>4, <2>5, <2>6 DEF TypeInv
<1>5. ASSUME NEW r \in Requests, CommitFirst(r) \/ CommitLater(r)
      PROVE  TypeInv'
  <2>1. Record(r) /\ Close(r) /\ lastId' \in {lastId, lastId + 1}
    BY <1>5 DEF CommitFirst, CommitLater
  <2>2. /\ counted' \in [Days -> Nat] /\ seen' \subseteq Days \X Visitors
        /\ lastId' \in Nat
    BY <2>1 DEF Record, TypeInv
  <2>3. DailySum(view[r]) \in Nat /\ day[r] \in Days /\ lastId \in Nat
    BY FS_CardinalityType DEF TypeInv, DailySum
  <2>4. \E new \in Row : stats' \subseteq stats \cup {new}
    <3>1. CASE CommitFirst(r)
      <4>1. [id |-> lastId', date |-> day[r], daily |-> 1, total |-> DailySum(view[r]) + 1] \in Row
        BY <2>3, <3>1 DEF CommitFirst, Row
      <4> QED
        BY <3>1, <4>1 DEF CommitFirst
    <3>2. CASE CommitLater(r)
      <4>1. PICK s \in view[r] :
              stats' = {u \in stats : u.id # s.id} \cup
                         {[id |-> s.id, date |-> s.date, daily |-> s.daily + 1,
                           total |-> (DailySum(view[r]) + 1) + 1]}
        BY <3>2 DEF CommitLater
      <4>2. s \in Row
        BY <4>1 DEF TypeInv
      <4>3. [id |-> s.id, date |-> s.date, daily |-> s.daily + 1,
             total |-> (DailySum(view[r]) + 1) + 1] \in Row
        BY <2>3, <4>2 DEF Row
      <4> QED
        BY <4>1, <4>3
    <3> QED
      BY <1>5, <3>1, <3>2
  <2> QED
    BY <1>4, <2>1, <2>2, <2>4
<1>6. ASSUME NEW r \in Requests, Rollback(r) PROVE TypeInv'
  BY <1>4, <1>6 DEF Rollback, tables, TypeInv
<1> QED
  BY <1>1, <1>2, <1>3, <1>5, <1>6 DEF Next

\* The rows that a request stores are rows: every sum of them is a number.
THEOREM TypeCorrect == Spec => []TypeOK
<1>1. TypeInv => TypeOK
  BY DEF TypeInv
<1> QED
  BY <1>1, TypeInit, TypeStep, PTL DEF Spec

-----------------------------------------------------------------------------
(* No row counts too many visitors.                                        *)

\* No row of a set counts more visitors than are stored for its day.
Sound(rows) ==
    \A s \in rows :
        s.date \in Days /\ s.daily \in Nat /\ s.daily <= counted[s.date]

\* A transaction writes what it read plus one, so what it read must be sound
\* too, and must stay so while others commit: counted never decreases.
IInv ==
    /\ counted \in [Days -> Nat]
    /\ day \in [Requests -> Days]
    /\ today \in Days
    /\ view = [r \in Requests |-> view[r]]
    /\ Sound(stats)
    /\ \A r \in Requests : Sound(view[r])

LEMMA IInvInit == Init => IInv
  BY VisitorAssumption DEF Init, IInv, Sound, Days

\* Rows stay sound when a visitor is stored, and the row a transaction has
\* increased is sound then.
LEMMA RecordSound ==
    ASSUME IInv, NEW r \in Requests, Record(r)
    PROVE  /\ counted' \in [Days -> Nat]
           /\ \A d \in Days : counted[d] <= counted'[d]
           /\ counted'[day[r]] = counted[day[r]] + 1
           /\ Sound(stats) => \A s \in stats :
                 s.date \in Days /\ s.daily \in Nat /\ s.daily <= counted'[s.date]
           /\ \A q \in Requests : \A s \in view[q] :
                 s.date \in Days /\ s.daily \in Nat /\ s.daily <= counted'[s.date]
<1>1. counted' = [counted EXCEPT ![day[r]] = @ + 1] /\ day[r] \in Days
  BY DEF Record, IInv
<1>2. \A d \in Days : counted[d] \in Nat /\ counted'[d] \in Nat /\ counted[d] <= counted'[d]
  BY <1>1 DEF IInv
<1>3. counted' \in [Days -> Nat] /\ counted'[day[r]] = counted[day[r]] + 1
  BY <1>1 DEF IInv
<1>4. ASSUME NEW s, s.date \in Days, s.daily \in Nat, s.daily <= counted[s.date]
      PROVE  s.daily <= counted'[s.date]
  <2>1. /\ counted[s.date] \in Nat /\ counted'[s.date] \in Nat
        /\ counted[s.date] <= counted'[s.date]
    BY <1>2, <1>4
  <2> QED
    BY <1>4, <2>1
<1> QED
  BY <1>2, <1>3, <1>4 DEF IInv, Sound

LEMMA IInvStep == IInv /\ [Next]_vars => IInv'
<1> SUFFICES ASSUME IInv, [Next]_vars PROVE IInv'
  OBVIOUS
<1>1. CASE Midnight
  BY <1>1, VisitorAssumption DEF Midnight, IInv, Sound, Days, tables, locals
<1>2. CASE \E r \in Requests, v \in Visitors : Ask(r, v) \/ AskKnown(r, v)
  BY <1>2 DEF Ask, AskKnown, IInv, Sound, tables, vars, locals
<1>3. ASSUME NEW r \in Requests, Begin(r)
      PROVE  IInv'
  <2>1. /\ UNCHANGED <<today, counted, stats>>
        /\ day' = [day EXCEPT ![r] = today]
        /\ view' = [view EXCEPT ![r] = stats]
    BY <1>3 DEF Begin, tables
  <2>2. view' = [q \in Requests |-> IF q = r THEN stats ELSE view[q]]
    BY <2>1 DEF IInv
  <2> QED
    BY <2>1, <2>2 DEF IInv, Sound
<1>4. CASE \E r \in Requests : BeginKnown(r)
  BY <1>4 DEF BeginKnown, IInv, Sound, tables
<1>5. ASSUME NEW r \in Requests, Close(r), UNCHANGED tables
      PROVE  IInv'
  <2>1. view' = [q \in Requests |-> IF q = r THEN {} ELSE view[q]]
    BY <1>5 DEF Close, IInv
  <2> QED
    BY <1>5, <2>1 DEF Close, IInv, Sound, tables
<1>6. ASSUME NEW r \in Requests, CommitFirst(r) \/ CommitLater(r)
      PROVE  IInv'
  <2>1. Record(r) /\ Close(r)
    BY <1>6 DEF CommitFirst, CommitLater
  <2>2. PICK row : /\ \A s \in stats' : s \in stats \/ s = row
                   /\ row.date = day[r] /\ row.daily \in Nat
                   /\ row.daily <= counted[day[r]] + 1
    <3>1. CASE CommitFirst(r)
      <4> DEFINE new == [id |-> lastId', date |-> day[r], daily |-> 1,
                         total |-> DailySum(view[r]) + 1]
      <4>1. stats' = stats \cup {new}
        BY <3>1 DEF CommitFirst
      <4>2. new.date = day[r] /\ new.daily = 1 /\ counted[day[r]] \in Nat
        BY DEF IInv
      <4> HIDE DEF new
      <4> QED
        BY <4>1, <4>2
    <3>2. CASE CommitLater(r)
      <4>1. PICK s \in view[r] :
              /\ RowsOf(view[r], day[r]) = {s}
              /\ stats' = {u \in stats : u.id # s.id} \cup
                            {[id |-> s.id, date |-> s.date, daily |-> s.daily + 1,
                              total |-> (DailySum(view[r]) + 1) + 1]}
        BY <3>2 DEF CommitLater
      <4>2. s.date = day[r] /\ s.daily \in Nat /\ s.daily <= counted[day[r]]
        BY <4>1 DEF RowsOf, IInv, Sound
      <4> DEFINE new == [id |-> s.id, date |-> s.date, daily |-> s.daily + 1,
                         total |-> (DailySum(view[r]) + 1) + 1]
      <4>3. new.date = day[r] /\ new.daily \in Nat /\ new.daily <= counted[day[r]] + 1
        <5>1. counted[day[r]] \in Nat
          BY DEF IInv
        <5> QED
          BY <4>2, <5>1
      <4>4. \A u \in stats' : u \in stats \/ u = new
        BY <4>1
      <4> HIDE DEF new
      <4> QED
        BY <4>3, <4>4
    <3> QED
      BY <1>6, <3>1, <3>2
  <2>3. Sound(stats)'
    BY <2>1, <2>2, RecordSound DEF IInv, Sound
  <2>4. view' = [q \in Requests |-> IF q = r THEN {} ELSE view[q]]
    BY <2>1 DEF Close, IInv
  <2>5. \A q \in Requests : Sound(view[q])'
    BY <2>1, <2>4, RecordSound DEF Sound
  <2>6. counted' \in [Days -> Nat] /\ UNCHANGED <<day, today>>
    BY <2>1, RecordSound DEF Close
  <2>7. view' = [q \in Requests |-> view'[q]]
    BY <2>4
  <2> QED
    BY <2>3, <2>5, <2>6, <2>7 DEF IInv
<1>7. CASE UNCHANGED vars
  BY <1>7 DEF vars, tables, locals, IInv, Sound
<1> QED
  BY <1>1, <1>2, <1>3, <1>4, <1>5, <1>6, <1>7 DEF Next, Rollback

\* However increments overlap, lose each other's updates or fail, a day's row
\* never counts more visitors than were stored for it
\* (VisitorService.java:52-84).
THEOREM NoOvercount == Spec => []NeverOvercounts
<1>1. IInv => NeverOvercounts
  BY DEF IInv, Sound, NeverOvercounts
<1> QED
  BY <1>1, IInvInit, IInvStep, PTL DEF Spec
-----------------------------------------------------------------------------
(* The rows of a day.                                                      *)

\* Transactions that saw no row of day d and may still insert one.
Inserting(d) == {r \in Open : day[r] = d /\ RowsOf(view[r], d) = {}}

Room(d) ==
    Cardinality(RowsOf(stats, d)) + Cardinality(Inserting(d)) <= Cardinality(Requests)

\* The number of rows alone is not inductive: a transaction that still sees none
\* inserts one however many there are by now.  The rows it increases must also
\* still be in the table, or the update would insert one.
RowsInv ==
    /\ TypeOK
    /\ IsFiniteSet(stats)
    /\ \A s \in stats : s.id <= lastId
    /\ \A s, u \in stats : s.id = u.id => s.date = u.date
    /\ \A r \in Requests : \A s \in view[r] :
         \E u \in stats : u.id = s.id /\ u.date = s.date
    /\ \A d \in Days : Room(d)

LEMMA RowsInit == Init /\ TypeOK => RowsInv
<1> SUFFICES ASSUME Init, TypeOK PROVE RowsInv
  OBVIOUS
<1>1. \A d \in Days : RowsOf(stats, d) = {} /\ Inserting(d) = {}
  BY DEF Init, RowsOf, Inserting, Open
<1>2. Cardinality({}) = 0 /\ Cardinality(Requests) \in Nat /\ IsFiniteSet({})
  BY FS_EmptySet, FS_CardinalityType, VisitorAssumption
<1>3. \A d \in Days : Room(d)
  BY <1>1, <1>2 DEF Room
<1> QED
  BY <1>2, <1>3 DEF Init, RowsInv

\* What is finite here, now and after a step.
LEMMA RowsFinite ==
    RowsInv => \A d \in Days :
      /\ IsFiniteSet(RowsOf(stats, d)) /\ IsFiniteSet(Inserting(d))
      /\ Cardinality(RowsOf(stats, d)) \in Nat /\ Cardinality(Inserting(d)) \in Nat
      /\ Cardinality(Requests) \in Nat
<1> SUFFICES ASSUME RowsInv, NEW d \in Days
             PROVE  /\ IsFiniteSet(RowsOf(stats, d)) /\ IsFiniteSet(Inserting(d))
                    /\ Cardinality(RowsOf(stats, d)) \in Nat
                    /\ Cardinality(Inserting(d)) \in Nat
                    /\ Cardinality(Requests) \in Nat
  OBVIOUS
<1>1. RowsOf(stats, d) \subseteq stats /\ Inserting(d) \subseteq Requests
  BY DEF RowsOf, Inserting, Open
<1>2. IsFiniteSet(RowsOf(stats, d)) /\ IsFiniteSet(Inserting(d))
  BY <1>1, FS_Subset, VisitorAssumption DEF RowsInv
<1> QED
  BY <1>2, FS_CardinalityType, VisitorAssumption

LEMMA AddOne ==
    ASSUME NEW S, NEW x, IsFiniteSet(S)
    PROVE  /\ IsFiniteSet(S \cup {x})
           /\ Cardinality(S) \in Nat /\ Cardinality(S \cup {x}) \in Nat
           /\ Cardinality(S \cup {x}) <= Cardinality(S) + 1
<1>1. Cardinality(S) \in Nat
  BY FS_CardinalityType
<1>2. /\ IsFiniteSet(S \cup {x})
      /\ \/ Cardinality(S \cup {x}) = Cardinality(S)
         \/ Cardinality(S \cup {x}) = Cardinality(S) + 1
  BY FS_AddElement
<1> QED
  BY <1>1, <1>2

\* The room of a day when its rows are replaced, or one is inserted.
LEMMA RoomKept ==
    ASSUME RowsInv, NEW d \in Days, Inserting(d)' \subseteq Inserting(d),
           \/ RowsOf(stats, d)' \subseteq RowsOf(stats, d)
           \/ \E u \in RowsOf(stats, d) : \E new :
                 RowsOf(stats, d)' \subseteq (RowsOf(stats, d) \ {u}) \cup {new}
           \/ \E r \in Inserting(d) : \E new :
                 /\ RowsOf(stats, d)' \subseteq RowsOf(stats, d) \cup {new}
                 /\ r \notin Inserting(d)'
    PROVE  Room(d)'
<1> DEFINE rows == RowsOf(stats, d)
           more == RowsOf(stats, d)'
           ins  == Inserting(d)
           left == Inserting(d)'
           n    == Cardinality(Requests)
<1>1. /\ IsFiniteSet(rows) /\ IsFiniteSet(ins) /\ n \in Nat
      /\ Cardinality(rows) \in Nat /\ Cardinality(ins) \in Nat
      /\ Cardinality(rows) + Cardinality(ins) <= n
  BY RowsFinite DEF RowsInv, Room
<1>2. left \subseteq ins
  OBVIOUS
<1>3. Room(d)' <=> Cardinality(more) + Cardinality(left) <= n
  BY DEF Room
<1>4. \/ more \subseteq rows
      \/ \E u \in rows : \E new : more \subseteq (rows \ {u}) \cup {new}
      \/ \E r \in ins : \E new : more \subseteq rows \cup {new} /\ r \notin left
  OBVIOUS
<1> HIDE DEF rows, more, ins, left, n
<1>5. Cardinality(left) \in Nat /\ Cardinality(left) <= Cardinality(ins)
  BY <1>1, <1>2, FS_Subset, FS_CardinalityType
<1>6. CASE more \subseteq rows
  <2>1. Cardinality(more) \in Nat /\ Cardinality(more) <= Cardinality(rows)
    BY <1>1, <1>6, FS_Subset, FS_CardinalityType
  <2> QED
    BY <1>1, <1>3, <1>5, <2>1
<1>7. ASSUME NEW u \in rows, NEW new, more \subseteq (rows \ {u}) \cup {new}
      PROVE  Room(d)'
  <2>1. /\ IsFiniteSet(rows \ {u})
        /\ Cardinality(rows \ {u}) = Cardinality(rows) - 1
    BY <1>1, FS_RemoveElement
  <2>2. /\ IsFiniteSet((rows \ {u}) \cup {new})
        /\ Cardinality((rows \ {u}) \cup {new}) <= Cardinality(rows)
    <3>1. /\ IsFiniteSet((rows \ {u}) \cup {new})
          /\ Cardinality((rows \ {u}) \cup {new}) \in Nat
          /\ Cardinality((rows \ {u}) \cup {new}) <= Cardinality(rows \ {u}) + 1
      BY <2>1, AddOne
    <3> QED
      BY <1>1, <2>1, <3>1
  <2>3. /\ IsFiniteSet(more)
        /\ Cardinality(more) <= Cardinality((rows \ {u}) \cup {new})
    BY <1>7, <2>2, FS_Subset
  <2>4. Cardinality(more) \in Nat /\ Cardinality((rows \ {u}) \cup {new}) \in Nat
    BY <2>2, <2>3, FS_CardinalityType
  <2> QED
    BY <1>1, <1>3, <1>5, <2>2, <2>3, <2>4
<1>8. ASSUME NEW r \in ins, NEW new, more \subseteq rows \cup {new}, r \notin left
      PROVE  Room(d)'
  <2>1. /\ IsFiniteSet(rows \cup {new})
        /\ Cardinality(rows \cup {new}) <= Cardinality(rows) + 1
    BY <1>1, AddOne
  <2>2. IsFiniteSet(more) /\ Cardinality(more) <= Cardinality(rows \cup {new})
    BY <1>8, <2>1, FS_Subset
  <2>3. /\ IsFiniteSet(ins \ {r})
        /\ Cardinality(ins \ {r}) = Cardinality(ins) - 1
    BY <1>1, FS_RemoveElement
  <2>4. Cardinality(left) <= Cardinality(ins) - 1
    BY <1>2, <1>8, <2>3, FS_Subset
  <2>5. Cardinality(more) \in Nat /\ Cardinality(rows \cup {new}) \in Nat
    BY <2>1, <2>2, FS_CardinalityType
  <2> QED
    BY <1>1, <1>3, <1>5, <2>1, <2>2, <2>4, <2>5
<1> QED
  BY <1>4, <1>6, <1>7, <1>8

\* A transaction that commits inserts one row under a fresh id, or replaces the
\* row with the id it read, and is not inserting any more.
LEMMA RowsCommit ==
    ASSUME RowsInv, TypeOK', NEW r \in Requests, CommitFirst(r) \/ CommitLater(r)
    PROVE  RowsInv'
<1>1. /\ stats \subseteq Row /\ lastId \in Nat /\ pc \in [Requests -> {"idle", "asked", "open"}]
      /\ view \in [Requests -> SUBSET Row] /\ day \in [Requests -> Days]
  BY DEF RowsInv, TypeOK
<1>2. /\ pc[r] = "open" /\ UNCHANGED day
      /\ pc' = [pc EXCEPT ![r] = "idle"] /\ view' = [view EXCEPT ![r] = {}]
  BY DEF CommitFirst, CommitLater, Close
<1>3. /\ \A q \in Requests : view'[q] \in {{}, view[q]}
      /\ \A d \in Days : Inserting(d)' \subseteq Inserting(d) \ {r}
  BY <1>1, <1>2 DEF Inserting, Open
\* The row that the transaction writes.
<1>4. PICK new :
        /\ new.date = day[r] /\ stats' \subseteq stats \cup {new} /\ new \in stats'
        /\ \/ /\ RowsOf(view[r], day[r]) = {} /\ lastId' = lastId + 1 /\ new.id = lastId'
              /\ stats \subseteq stats'
           \/ /\ lastId' = lastId
              /\ \E u \in stats : u.id = new.id /\ u.date = new.date
              /\ \A u \in stats : u \in stats' <=> u.id # new.id \/ u = new
  <2>1. CASE CommitFirst(r)
    <3> DEFINE new == [id |-> lastId', date |-> day[r], daily |-> 1,
                       total |-> DailySum(view[r]) + 1]
    <3>1. stats' = stats \cup {new} /\ lastId' = lastId + 1 /\ RowsOf(view[r], day[r]) = {}
      BY <2>1 DEF CommitFirst
    <3>2. new.date = day[r] /\ new.id = lastId'
      OBVIOUS
    <3> HIDE DEF new
    <3> QED
      BY <3>1, <3>2
  <2>2. CASE CommitLater(r)
    <3>1. PICK s \in view[r] :
            /\ RowsOf(view[r], day[r]) = {s}
            /\ stats' = {u \in stats : u.id # s.id} \cup
                          {[id |-> s.id, date |-> s.date, daily |-> s.daily + 1,
                            total |-> (DailySum(view[r]) + 1) + 1]}
            /\ lastId' = lastId
      BY <2>2 DEF CommitLater
    <3> DEFINE new == [id |-> s.id, date |-> s.date, daily |-> s.daily + 1,
                       total |-> (DailySum(view[r]) + 1) + 1]
    <3>2. new.id = s.id /\ new.date = s.date /\ s.date = day[r]
      BY <3>1 DEF RowsOf
    <3>3. \E u \in stats : u.id = s.id /\ u.date = s.date
      BY <3>1 DEF RowsInv
    <3>4. stats' = {u \in stats : u.id # s.id} \cup {new}
      BY <3>1
    <3> HIDE DEF new
    <3> QED
      BY <3>1, <3>2, <3>3, <3>4
  <2> QED
    BY <2>1, <2>2
<1>5. IsFiniteSet(stats')
  BY <1>4, FS_AddElement, FS_Subset DEF RowsInv
<1>6. /\ \A s \in stats' : s.id <= lastId'
      /\ \A s, u \in stats' : s.id = u.id => s.date = u.date
      /\ \A s \in stats : \E u \in stats' : u.id = s.id /\ u.date = s.date
  <2>1. /\ \A s \in stats : s.id \in Nat /\ s.id <= lastId
        /\ \A s, u \in stats : s.id = u.id => s.date = u.date
    BY <1>1 DEF Row, RowsInv
  <2>2. CASE lastId' = lastId + 1 /\ new.id = lastId' /\ stats \subseteq stats'
    <3>1. \A s \in stats : s.id # new.id /\ s.id <= lastId'
      BY <1>1, <2>1, <2>2
    <3>2. new.id <= lastId'
      BY <1>1, <2>2
    <3> QED
      BY <1>4, <2>1, <2>2, <3>1, <3>2
  <2>3. CASE /\ lastId' = lastId
             /\ \E u \in stats : u.id = new.id /\ u.date = new.date
             /\ \A u \in stats : u \in stats' <=> u.id # new.id \/ u = new
    <3>1. \A s \in stats : s.id = new.id => s.date = new.date
      BY <2>1, <2>3
    <3>2. new.id <= lastId'
      BY <2>1, <2>3
    <3> QED
      BY <1>4, <2>1, <2>3, <3>1, <3>2
  <2> QED
    BY <1>4, <2>2, <2>3
<1>7. \A q \in Requests : \A s \in view'[q] : \E u \in stats' : u.id = s.id /\ u.date = s.date
  <2> SUFFICES ASSUME NEW q \in Requests, NEW s \in view'[q]
               PROVE  \E u \in stats' : u.id = s.id /\ u.date = s.date
    OBVIOUS
  <2>1. s \in view[q]
    BY <1>3
  <2>2. PICK u \in stats : u.id = s.id /\ u.date = s.date
    BY <2>1 DEF RowsInv
  <2> QED
    BY <1>6, <2>2
<1>8. ASSUME NEW d \in Days PROVE Room(d)'
  <2>1. RowsOf(stats, d)' = RowsOf(stats', d)
    BY DEF RowsOf
  <2>2. CASE d # day[r]
    <3>1. RowsOf(stats', d) \subseteq RowsOf(stats, d)
      BY <1>4, <2>2 DEF RowsOf
    <3> QED
      BY <1>3, <2>1, <3>1, RoomKept
  <2>3. CASE d = day[r] /\ RowsOf(view[r], d) = {}
    <3>1. r \in Inserting(d)
      BY <1>2, <2>3 DEF Inserting, Open
    <3>2. RowsOf(stats', d) \subseteq RowsOf(stats, d) \cup {new}
      BY <1>4 DEF RowsOf
    <3> QED
      BY <1>3, <2>1, <3>1, <3>2, RoomKept
  <2>4. CASE d = day[r] /\ RowsOf(view[r], d) # {}
    <3>1. PICK u \in stats : /\ u.id = new.id /\ u.date = new.date
                             /\ u \in stats' => u = new
      BY <1>4, <2>4
    <3>2. u \in RowsOf(stats, d)
      BY <1>4, <2>4, <3>1 DEF RowsOf
    <3>3. RowsOf(stats', d) \subseteq (RowsOf(stats, d) \ {u}) \cup {new}
      BY <1>4, <3>1 DEF RowsOf
    <3> QED
      BY <1>3, <2>1, <3>2, <3>3, RoomKept
  <2> QED
    BY <2>2, <2>3, <2>4
<1> QED
  BY <1>5, <1>6, <1>7, <1>8 DEF RowsInv

LEMMA RowsStep == RowsInv /\ TypeOK' /\ [Next]_vars => RowsInv'
<1> SUFFICES ASSUME RowsInv, TypeOK', [Next]_vars PROVE RowsInv'
  OBVIOUS
\* No table changes, and no transaction begins.
<1>1. ASSUME UNCHANGED <<stats, lastId, day>>, Open' \subseteq Open,
             \A r \in Requests : view'[r] = view[r] \/ (view'[r] = {} /\ r \notin Open')
      PROVE  RowsInv'
  <2>1. ASSUME NEW d \in Days PROVE Room(d)'
    <3>1. Inserting(d)' \subseteq Inserting(d)
      BY <1>1 DEF Inserting, Open
    <3>2. RowsOf(stats, d)' = RowsOf(stats, d)
      BY <1>1 DEF RowsOf
    <3> QED
      BY <3>1, <3>2, RoomKept
  <2> QED
    BY <1>1, <2>1 DEF RowsInv
<1>2. CASE \/ Midnight
           \/ \E r \in Requests, v \in Visitors : Ask(r, v) \/ AskKnown(r, v)
           \/ \E r \in Requests : BeginKnown(r)
           \/ UNCHANGED vars
  BY <1>1, <1>2 DEF Midnight, Ask, AskKnown, BeginKnown, tables, locals, vars, Open, RowsInv, TypeOK
<1>3. ASSUME NEW r \in Requests, Rollback(r) PROVE RowsInv'
  BY <1>1, <1>3 DEF Rollback, Close, tables, Open, RowsInv, TypeOK
\* A transaction that sees no row of its day begins when there is none.
<1>4. ASSUME NEW r \in Requests, Begin(r) PROVE RowsInv'
  <2>1. /\ UNCHANGED <<stats, lastId>> /\ day' = [day EXCEPT ![r] = today]
        /\ view' = [view EXCEPT ![r] = stats] /\ r \notin Open
        /\ pc' = [pc EXCEPT ![r] = "open"]
    BY <1>4 DEF Begin, tables, Open
  <2>2. /\ pc \in [Requests -> {"idle", "asked", "open"}]
        /\ view \in [Requests -> SUBSET Row] /\ day \in [Requests -> Days]
    BY DEF RowsInv, TypeOK
  <2>3. ASSUME NEW d \in Days PROVE Room(d)'
    <3>1. RowsOf(stats, d)' = RowsOf(stats, d)
      BY <2>1 DEF RowsOf
    <3>2. CASE RowsOf(stats, d) = {}
      <4>1. Cardinality(RowsOf(stats, d)') = 0
        BY <3>1, <3>2, FS_EmptySet
      <4>2. Inserting(d)' \subseteq Requests
        BY DEF Inserting, Open
      <4>3. /\ Cardinality(Inserting(d)') \in Nat /\ Cardinality(Requests) \in Nat
            /\ Cardinality(Inserting(d)') <= Cardinality(Requests)
        BY <4>2, FS_Subset, FS_CardinalityType, VisitorAssumption
      <4> QED
        BY <4>1, <4>3 DEF Room
    <3>3. CASE RowsOf(stats, d) # {}
      <4>1. Inserting(d)' \subseteq Inserting(d)
        BY <2>1, <2>2, <3>3 DEF Inserting, Open
      <4> QED
        BY <3>1, <4>1, RoomKept
    <3> QED
      BY <3>2, <3>3
  <2>4. \A q \in Requests : \A s \in view'[q] :
          \E u \in stats' : u.id = s.id /\ u.date = s.date
    BY <2>1, <2>2 DEF RowsInv
  <2> QED
    BY <2>1, <2>3, <2>4 DEF RowsInv
<1>5. ASSUME NEW r \in Requests, CommitFirst(r) \/ CommitLater(r) PROVE RowsInv'
  BY <1>5, RowsCommit
<1> QED
  BY <1>2, <1>3, <1>4, <1>5 DEF Next

\* However many requests of a day overlap, they leave at most one row each: a
\* transaction inserts only if it saw no row, and then only one
\* (VisitorService.java:67, 79).
THEOREM RowsBounded == Spec => []RowsPerDayBounded
<1>1. RowsInv => RowsPerDayBounded
  <2> SUFFICES ASSUME RowsInv, NEW d \in Days
               PROVE  Cardinality(RowsOf(stats, d)) <= Cardinality(Requests)
    BY DEF RowsPerDayBounded
  <2> QED
    BY RowsFinite DEF RowsInv, Room
<1>2. Init => TypeOK
  BY TypeInit DEF TypeInv
<1> QED
  BY <1>1, <1>2, TypeCorrect, RowsInit, RowsStep, PTL DEF Spec

-----------------------------------------------------------------------------
(* The count of a day, as long as no two transactions overlap.             *)

VisitorsOf(d) == {v \in Visitors : <<d, v>> \in seen}

CountedExactly(d) ==
    /\ counted[d] = Cardinality(VisitorsOf(d))
    /\ VisitorsOf(d) = {} => RowsOf(stats, d) = {}
    /\ VisitorsOf(d) # {} =>
         \E s \in stats : RowsOf(stats, d) = {s} /\ s.daily = counted[d]

\* The one open transaction sees the table as it is, and its visitor is new.
ExactInv ==
    /\ \A d \in Days : IsFiniteSet(VisitorsOf(d))
    /\ ~overlapped =>
         /\ \A r, q \in Open : r = q
         /\ \A r \in Open : view[r] = stats /\ <<day[r], visitor[r]>> \notin seen
         /\ \A d \in Days : CountedExactly(d)

LEMMA ExactInit == Init => ExactInv
<1> SUFFICES ASSUME Init PROVE ExactInv
  OBVIOUS
<1>1. \A d \in Days : VisitorsOf(d) = {} /\ RowsOf(stats, d) = {} /\ counted[d] = 0
  BY DEF Init, VisitorsOf, RowsOf
<1>2. IsFiniteSet({}) /\ Cardinality({}) = 0
  BY FS_EmptySet
<1>3. Open = {}
  BY DEF Init, Open
<1> QED
  BY <1>1, <1>2, <1>3 DEF ExactInv, CountedExactly

LEMMA ExactCommit ==
    ASSUME RowsInv, ExactInv, NEW r \in Requests, CommitFirst(r) \/ CommitLater(r)
    PROVE  ExactInv'
<1>1. /\ pc \in [Requests -> {"idle", "asked", "open"}] /\ view \in [Requests -> SUBSET Row]
      /\ day \in [Requests -> Days] /\ visitor \in [Requests -> Visitors]
      /\ counted \in [Days -> Nat] /\ stats \subseteq Row
  BY DEF RowsInv, TypeOK
<1>2. /\ pc[r] = "open" /\ UNCHANGED <<day, visitor, overlapped>>
      /\ pc' = [pc EXCEPT ![r] = "idle"] /\ view' = [view EXCEPT ![r] = {}]
      /\ counted' = [counted EXCEPT ![day[r]] = @ + 1]
      /\ seen' = seen \cup {<<day[r], visitor[r]>>}
  BY DEF CommitFirst, CommitLater, Close, Record
<1>3. PICK today_r \in Days, v_r \in Visitors : today_r = day[r] /\ v_r = visitor[r]
  BY <1>1
<1>4. /\ VisitorsOf(today_r)' = VisitorsOf(today_r) \cup {v_r}
      /\ \A d \in Days \ {today_r} : VisitorsOf(d)' = VisitorsOf(d)
  BY <1>2, <1>3 DEF VisitorsOf
<1>5. \A d \in Days : IsFiniteSet(VisitorsOf(d)')
  <2>1. \A d \in Days : IsFiniteSet(VisitorsOf(d))
    BY DEF ExactInv
  <2>2. IsFiniteSet(VisitorsOf(today_r) \cup {v_r})
    BY <1>3, <2>1, FS_AddElement
  <2> QED
    BY <1>4, <2>1, <2>2
<1>6. ASSUME ~overlapped'
      PROVE  /\ \A q \in Open' : FALSE
             /\ \A d \in Days : CountedExactly(d)'
  <2>1. ~overlapped /\ r \in Open
    BY <1>2, <1>6 DEF Open
  <2>2. /\ \A q \in Open : q = r
        /\ view[r] = stats /\ v_r \notin VisitorsOf(today_r)
        /\ \A d \in Days : CountedExactly(d)
    BY <1>3, <2>1 DEF ExactInv, VisitorsOf
  <2>3. \A q \in Open' : FALSE
    BY <1>1, <1>2, <2>2 DEF Open
  <2>4. CountedExactly(today_r)'
    <3> DEFINE before == VisitorsOf(today_r)
    <3>1. /\ IsFiniteSet(before) /\ Cardinality(before) \in Nat
          /\ Cardinality(before \cup {v_r}) = Cardinality(before) + 1
          /\ Cardinality(before) = 0 <=> before = {}
      BY <1>3, <2>2, FS_AddElement, FS_CardinalityType, FS_EmptySet DEF ExactInv
    <3>2. /\ counted[today_r] = Cardinality(before)
          /\ counted'[today_r] = counted[today_r] + 1
          /\ counted'[today_r] = Cardinality(VisitorsOf(today_r)')
      BY <1>1, <1>2, <1>3, <1>4, <2>2, <3>1 DEF CountedExactly
    <3>3. \E s \in stats' : RowsOf(stats', today_r) = {s} /\ s.daily = counted'[today_r]
      <4>1. CASE CommitFirst(r)
        <5> DEFINE new == [id |-> lastId', date |-> today_r, daily |-> 1,
                           total |-> DailySum(view[r]) + 1]
        <5>1. stats' = stats \cup {new} /\ RowsOf(stats, today_r) = {}
          BY <1>3, <2>2, <4>1 DEF CommitFirst
        <5>2. new.date = today_r /\ new.daily = 1
          OBVIOUS
        <5>3. before = {} /\ counted'[today_r] = 1
          <6>1. before = {}
            BY <1>3, <2>2, <5>1 DEF CountedExactly
          <6> QED
            BY <3>1, <3>2, <6>1
        <5> HIDE DEF new
        <5>4. RowsOf(stats', today_r) = {new}
          BY <5>1, <5>2 DEF RowsOf
        <5> QED
          BY <5>1, <5>2, <5>3, <5>4
      <4>2. CASE CommitLater(r)
        <5>1. PICK s \in stats :
                /\ RowsOf(stats, today_r) = {s}
                /\ stats' = {u \in stats : u.id # s.id} \cup
                              {[id |-> s.id, date |-> s.date, daily |-> s.daily + 1,
                                total |-> (DailySum(view[r]) + 1) + 1]}
          BY <1>3, <2>2, <4>2 DEF CommitLater
        <5> DEFINE new == [id |-> s.id, date |-> s.date, daily |-> s.daily + 1,
                           total |-> (DailySum(view[r]) + 1) + 1]
        <5>2. new.date = today_r /\ new.daily = s.daily + 1
          BY <5>1 DEF RowsOf
        <5>3. s.daily = counted[today_r]
          <6>1. before # {}
            BY <1>3, <2>2, <5>1 DEF CountedExactly
          <6> QED
            BY <1>3, <2>2, <5>1, <6>1 DEF CountedExactly
        <5>4. stats' = {u \in stats : u.id # s.id} \cup {new}
          BY <5>1
        <5> HIDE DEF new
        <5>5. RowsOf(stats', today_r) = {new}
          BY <5>1, <5>2, <5>4 DEF RowsOf
        <5> QED
          BY <3>2, <5>2, <5>3, <5>4, <5>5
      <4> QED
        BY <4>1, <4>2
    <3>4. VisitorsOf(today_r)' # {}
      BY <1>4
    <3> QED
      BY <1>2, <3>2, <3>3, <3>4 DEF CountedExactly, VisitorsOf, RowsOf
  <2>5. ASSUME NEW d \in Days \ {today_r}
        PROVE  CountedExactly(d)'
    <3>1. RowsOf(stats', d) = RowsOf(stats, d)
      <4>1. CASE CommitFirst(r)
        <5> DEFINE new == [id |-> lastId', date |-> today_r, daily |-> 1,
                           total |-> DailySum(view[r]) + 1]
        <5>1. stats' = stats \cup {new} /\ new.date = today_r
          BY <1>3, <4>1 DEF CommitFirst
        <5> HIDE DEF new
        <5> QED
          BY <5>1 DEF RowsOf
      <4>2. CASE CommitLater(r)
        <5>1. PICK s \in stats :
                /\ RowsOf(stats, today_r) = {s}
                /\ stats' = {u \in stats : u.id # s.id} \cup
                              {[id |-> s.id, date |-> s.date, daily |-> s.daily + 1,
                                total |-> (DailySum(view[r]) + 1) + 1]}
          BY <1>3, <2>2, <4>2 DEF CommitLater
        <5> DEFINE new == [id |-> s.id, date |-> s.date, daily |-> s.daily + 1,
                           total |-> (DailySum(view[r]) + 1) + 1]
        <5>2. new.date = today_r /\ s.date = today_r
          BY <5>1 DEF RowsOf
        <5>3. stats' = {u \in stats : u.id # s.id} \cup {new}
          BY <5>1
        <5>4. \A u \in stats : u.id = s.id => u.date = today_r
          BY <5>2 DEF RowsInv
        <5> HIDE DEF new
        <5> QED
          BY <5>2, <5>3, <5>4 DEF RowsOf
      <4> QED
        BY <4>1, <4>2
    <3>2. CountedExactly(d) /\ VisitorsOf(d)' = VisitorsOf(d) /\ counted'[d] = counted[d]
      <4>1. CountedExactly(d)
        BY <2>2
      <4>2. VisitorsOf(d)' = VisitorsOf(d)
        BY <1>4
      <4>3. counted'[d] = counted[d]
        BY <1>1, <1>2, <1>3
      <4> QED
        BY <4>1, <4>2, <4>3
    <3>3. VisitorsOf(d) # {} => \E s \in stats' : RowsOf(stats', d) = {s} /\ s.daily = counted'[d]
      BY <3>1, <3>2 DEF CountedExactly, RowsOf
    <3> QED
      BY <3>1, <3>2, <3>3 DEF CountedExactly, RowsOf
  <2>6. \A d \in Days : CountedExactly(d)'
    BY <2>4, <2>5
  <2> QED
    BY <2>3, <2>6
<1> QED
  BY <1>5, <1>6 DEF ExactInv

LEMMA ExactStep == RowsInv /\ ExactInv /\ [Next]_vars => ExactInv'
<1> SUFFICES ASSUME RowsInv, ExactInv, [Next]_vars PROVE ExactInv'
  OBVIOUS
<1>1. /\ pc \in [Requests -> {"idle", "asked", "open"}] /\ view \in [Requests -> SUBSET Row]
      /\ day \in [Requests -> Days] /\ visitor \in [Requests -> Visitors]
  BY DEF RowsInv, TypeOK
\* A step that leaves the tables and the open transactions alone, or ends one.
<1>2. ASSUME UNCHANGED <<counted, seen, stats, day, overlapped>>, Open' \subseteq Open,
             \A r \in Open' : view'[r] = view[r] /\ visitor'[r] = visitor[r]
      PROVE  ExactInv'
  <2>1. \A d \in Days : VisitorsOf(d)' = VisitorsOf(d) /\ CountedExactly(d)' = CountedExactly(d)
    BY <1>2 DEF VisitorsOf, CountedExactly, RowsOf
  <2> QED
    BY <1>2, <2>1 DEF ExactInv
<1>3. CASE \/ Midnight
           \/ \E r \in Requests, v \in Visitors : Ask(r, v) \/ AskKnown(r, v)
           \/ \E r \in Requests : BeginKnown(r)
           \/ UNCHANGED vars
  BY <1>1, <1>2, <1>3 DEF Midnight, Ask, AskKnown, BeginKnown, tables, locals, vars, Open
<1>4. ASSUME NEW r \in Requests, Rollback(r) PROVE ExactInv'
  BY <1>1, <1>2, <1>4 DEF Rollback, Close, tables, Open
<1>5. ASSUME NEW r \in Requests, Begin(r) PROVE ExactInv'
  <2>1. /\ UNCHANGED <<counted, seen, stats, visitor>> /\ day' = [day EXCEPT ![r] = today]
        /\ view' = [view EXCEPT ![r] = stats] /\ pc' = [pc EXCEPT ![r] = "open"]
        /\ <<today, visitor[r]>> \notin seen
        /\ overlapped' = (overlapped \/ Open # {})
    BY <1>5 DEF Begin, tables
  <2>2. \A d \in Days : VisitorsOf(d)' = VisitorsOf(d) /\ CountedExactly(d)' = CountedExactly(d)
    BY <2>1 DEF VisitorsOf, CountedExactly, RowsOf
  <2>3. ASSUME ~overlapped'
        PROVE  /\ ~overlapped /\ Open' = {r}
               /\ view'[r] = stats' /\ <<day'[r], visitor'[r]>> \notin seen'
    <3>1. ~overlapped /\ Open = {}
      BY <2>1, <2>3
    <3> QED
      BY <1>1, <2>1, <3>1 DEF Open
  <2> QED
    BY <2>2, <2>3 DEF ExactInv
<1>6. ASSUME NEW r \in Requests, CommitFirst(r) \/ CommitLater(r) PROVE ExactInv'
  BY <1>6, ExactCommit
<1> QED
  BY <1>3, <1>4, <1>5, <1>6 DEF Next

\* As long as no two transactions overlap, every visitor of a day is stored once
\* and counted once, in one row: the test inside the transaction makes up for the
\* time that passed since the controller's (VisitorController.java:43-50,
\* VisitorService.java:58).
THEOREM ExactCount == Spec => []ExactWithoutOverlap
<1>1. TypeOK /\ ExactInv => ExactWithoutOverlap
  <2> SUFFICES ASSUME TypeOK, ExactInv, ~overlapped, NEW d \in Days
               PROVE  LET visitors == Cardinality({v \in Visitors : <<d, v>> \in seen})
                      IN  /\ counted[d] = visitors
                          /\ visitors = 0 => RowsOf(stats, d) = {}
                          /\ visitors > 0 => \E s \in stats : /\ RowsOf(stats, d) = {s}
                                                              /\ s.daily = visitors
    BY DEF ExactWithoutOverlap
  <2>1. CountedExactly(d) /\ IsFiniteSet(VisitorsOf(d))
    BY DEF ExactInv
  <2>2. /\ Cardinality(VisitorsOf(d)) = 0 => VisitorsOf(d) = {}
        /\ Cardinality(VisitorsOf(d)) > 0 => VisitorsOf(d) # {}
    BY <2>1, FS_EmptySet
  <2> QED
    BY <2>1, <2>2 DEF CountedExactly, VisitorsOf
<1>2. Init => TypeOK
  BY TypeInit DEF TypeInv
<1> QED
  BY <1>1, <1>2, TypeCorrect, RowsInit, RowsStep, ExactInit, ExactStep, PTL DEF Spec

=============================================================================
