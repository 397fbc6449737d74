--------------------------- MODULE AccountProofs ---------------------------
(***************************************************************************)
(* Proofs about Account, for every number of pages, every page limit,      *)
(* header framing and set of faults the assumption admits.                 *)
(***************************************************************************)
EXTENDS Account, TLAPS

USE DEF NoToken, NoAccount

-----------------------------------------------------------------------------
(* Type correctness.                                                       *)

\* The headers never lead an inquiry past the last page.
LEMMA ContinuesInRange ==
    ASSUME TypeOK, NEW p \in Feeds, Continues(p)
    PROVE  /\ page[p] + 1 \in 1..Pages
           /\ page[p] + 1 <= PageLimit(p)
           /\ SaysContinue("Y")
<1>1. page[p] \in 1..Pages /\ Pages \in Nat /\ PageLimit(p) \in Nat
  BY ConstantsAssumption DEF TypeOK, PageLimit
<1>2. SaysContinue(ContYn(page[p])) /\ page[p] < PageLimit(p)
  BY DEF Continues
<1>3. ~SaysContinue("N")
  BY DEF SaysContinue, HeaderValue
<1>4. page[p] < Pages /\ SaysContinue("Y")
  BY <1>2, <1>3 DEF ContYn
<1> QED
  BY <1>1, <1>2, <1>4

LEMMA TypeInit == Init => TypeOK
  BY ConstantsAssumption DEF Init, TypeOK, Feeds, Polled, PC, Tokens

\* Leaving an inquiry keeps its own state well typed.
LEMMA ReturnType ==
    ASSUME TypeOK, NEW p \in Feeds, Return(p)
    PROVE  /\ pc' \in [Feeds -> PC]
           /\ token' \in [Feeds -> Tokens]
           /\ page' \in [Feeds -> 1..Pages]
           /\ gathered' \in [Feeds -> SUBSET (1..Pages)]
           /\ cut' \in [Feeds -> BOOLEAN]
  BY ConstantsAssumption DEF TypeOK, Return, PC, Tokens

LEMMA NextPageType ==
    ASSUME TypeOK, NEW p \in Feeds, NextPage(p)
    PROVE  /\ pc' \in [Feeds -> PC]
           /\ page' \in [Feeds -> 1..Pages]
  BY ContinuesInRange DEF TypeOK, NextPage, Break, GoTo, PC

LEMMA WriteType ==
    ASSUME TypeOK, NEW p \in Feeds, NEW v \in Tokens, WriteToken(p, v)
    PROVE  accessToken' \in Tokens /\ raced' \subseteq Feeds /\ faults' \in Nat
  BY DEF TypeOK, WriteToken, Writing, Fault, Tokens

LEMMA FreshType ==
    ASSUME FreshProcess, alive' \in BOOLEAN, faults' \in Nat, TypeOK,
           UNCHANGED broker
    PROVE  TypeOK'
  BY ConstantsAssumption DEF FreshProcess, TypeOK, Feeds, Polled, PC, Tokens, broker

\* What an unreadable account answer changes has its type, whichever way the
\* loop goes.
LEMMA ReadsNoAccountType ==
    ASSUME TypeOK, NEW p \in Feeds, ReadsNoAccount(p)
    PROVE  /\ pc' \in [Feeds -> PC]
           /\ page' \in [Feeds -> 1..Pages]
           /\ cut' \in [Feeds -> BOOLEAN]
<1>1. CASE NextPage(p)
  BY <1>1, NextPageType DEF TypeOK, ReadsNoAccount, Loses
<1>2. CASE Break(p) /\ UNCHANGED page
  BY <1>2 DEF TypeOK, ReadsNoAccount, Loses, Break, GoTo, PC
<1> QED
  BY <1>1, <1>2 DEF ReadsNoAccount

LEMMA ThreadType ==
    ASSUME TypeOK, NEW p \in Feeds, Thread(p)
    PROVE  TypeOK'
<1> USE DEF TypeOK
<1>1. CASE CheckToken(p)
  BY <1>1 DEF CheckToken, GoTo, boot, broker, PC
<1>2. CASE IssueToken(p)
  BY <1>2 DEF IssueToken, GoTo, boot, PC, Tokens
<1>3. CASE IssueFails(p)
  BY <1>3, ReturnType DEF IssueFails, Fault, GoTo, boot, broker, PC
<1>4. CASE StoreToken(p)
  <2>1. token[p] \in Tokens
    BY <1>4
  <2> QED
    BY <1>4, <2>1, WriteType DEF StoreToken, GoTo, boot, broker, PC
<1>5. CASE TakeToken(p)
  BY <1>5, ReturnType DEF TakeToken, Fault, GoTo, boot, broker, PC, Tokens
<1>6. CASE Delivered(p)
  BY <1>6, NextPageType DEF Delivered, boot, broker
<1>7. CASE Unreadable(p)
  BY <1>7, NextPageType DEF Unreadable, Loses, Fault, boot, broker
<1>8. CASE NoAnswer(p)
  BY <1>8 DEF NoAnswer, Loses, Break, GoTo, Fault, boot, broker, PC
<1>9. CASE BadStatus(p)
  <2>1. CASE p = "accounts"
    <3>1. /\ Loses(p) /\ Break(p)
          /\ UNCHANGED <<token, page, gathered, published, accessToken, raced,
                         boot, alive, broker>>
          /\ faults' \in Nat
      BY <1>9, <2>1 DEF BadStatus, Fault
    <3> QED
      BY <3>1 DEF Loses, Break, GoTo, boot, broker, PC
  <2>2. CASE p # "accounts"
    BY <1>9, <2>2, ReturnType DEF BadStatus, Fault, boot, broker
  <2> QED
    BY <2>1, <2>2
<1>10. CASE Refused(p)
  <2>1. CASE p = "accounts"
    <3>1. /\ ReadsNoAccount(p)
          /\ UNCHANGED <<token, gathered, published, accessToken, raced, boot,
                         alive, broker>>
          /\ faults' \in Nat
      BY <1>10, <2>1 DEF Refused, Fault
    <3> QED
      BY <3>1, ReadsNoAccountType DEF boot, broker
  <2>2. CASE p # "accounts"
    BY <1>10, <2>2, ReturnType DEF Refused, Fault, boot, broker
  <2> QED
    BY <2>1, <2>2
<1>11. CASE Rejected(p)
  <2>1. CASE p = "accounts"
    BY <1>11, <2>1, ReadsNoAccountType DEF Rejected, boot, broker
  <2>2. CASE p # "accounts"
    BY <1>11, <2>2 DEF Rejected, GoTo, boot, broker, PC
  <2> QED
    BY <2>1, <2>2
<1>12. CASE Begin(p)
  BY <1>12 DEF Begin, GoTo, boot, broker, PC
<1>13. CASE SkipWithoutAccount(p)
  BY <1>13, ReturnType DEF SkipWithoutAccount, boot, broker
<1>14. CASE ClearAccessToken(p)
  <2>1. NoToken \in Tokens
    BY DEF Tokens
  <2> QED
    BY <1>14, <2>1, ReturnType, WriteType DEF ClearAccessToken, boot, broker
<1>15. CASE p \in Polled /\ Publish(p)
  BY <1>15, ReturnType DEF Publish, boot, broker, Polled, Feeds
<1> QED
  BY <1>1, <1>2, <1>3, <1>4, <1>5, <1>6, <1>7, <1>8, <1>9, <1>10, <1>11,
     <1>12, <1>13, <1>14, <1>15 DEF Thread, Step, PollStep

LEMMA TypeStep == TypeOK /\ [Next]_vars => TypeOK'
<1> SUFFICES ASSUME TypeOK, [Next]_vars PROVE TypeOK'
  OBVIOUS
<1>1. CASE \E p \in Feeds : Thread(p)
  BY <1>1, ThreadType
<1>2. CASE Main
  BY <1>2, ConstantsAssumption
     DEF Main, SetUseAccount, UseAccount, IsFirstListed, Listed, GoTo, TypeOK,
         PC, Tokens, Feeds, Polled, broker
<1>3. CASE Terminate
  <2>1. FreshProcess /\ alive' = FALSE /\ UNCHANGED broker
    BY <1>3 DEF Terminate
  <2>2. faults' \in Nat
    BY <1>3 DEF Terminate, Fault, TypeOK
  <2> QED
    BY <2>1, <2>2, FreshType
<1>4. CASE Restart
  BY <1>4, FreshType DEF Restart, TypeOK
<1>5. CASE Expire
  BY <1>5 DEF Expire, Fault, TypeOK, local, boot
<1>6. CASE UNCHANGED vars
  BY <1>6 DEF vars, local, boot, broker, TypeOK
<1> QED
  BY <1>1, <1>2, <1>3, <1>4, <1>5, <1>6 DEF Next

\* Every variable keeps its type: in particular no inquiry asks for a page the
\* broker does not have, whatever the page limits and the headers.
THEOREM TypeCorrect == Spec => []TypeOK
  BY TypeInit, TypeStep, PTL DEF Spec

-----------------------------------------------------------------------------
(* The inductive invariant.                                                *)

\* The account is settled before a poller leaves "wait", and then stays.
AccountSettled ==
    /\ \A p \in Polled :
         pc[p] # "wait" \/ published[p] # {} => pc["accounts"] = "done"
    /\ currentAccountNumber # NoAccount =>
         /\ pc["accounts"] = "done"
         /\ currentAccountNumber \in Listed
         /\ ConfigAccount \in Listed => currentAccountNumber = ConfigAccount
    /\ \A p \in Polled :
         pc[p] \notin {"wait", "idle"} \/ published[p] # {}
            => currentAccountNumber # NoAccount

\* What a poller that lost no answer has gathered is what it has asked for.
GatheredAsAsked ==
    \A p \in Polled :
        /\ pc[p] \in {"wait", "idle", "check", "issue", "store", "take"} =>
             gathered[p] = {} /\ page[p] = 1 /\ ~cut[p]
        /\ pc[p] = "page" /\ ~cut[p] =>
             gathered[p] = 1..(page[p] - 1) /\ page[p] <= LastPage(p)
        /\ pc[p] = "publish" /\ ~cut[p] => gathered[p] = Reachable(p)

IInv == TypeOK /\ AccountSettled /\ RequestCarriesToken /\ GatheredAsAsked

\* A loop that stops on an answer in order has reached its last page.
LEMMA ContinuesNot ==
    ASSUME TypeOK, NEW p \in Polled, ~Continues(p), page[p] <= LastPage(p)
    PROVE  page[p] = LastPage(p)
<1>1. /\ page[p] \in 1..Pages /\ Pages \in Nat \ {0}
      /\ PageLimit(p) \in Nat \ {0} /\ p \in Feeds
  BY ConstantsAssumption DEF TypeOK, PageLimit, Feeds
<1>2. CASE SaysContinue("Y")
  BY <1>1, <1>2 DEF Continues, ContYn, LastPage
<1>3. CASE ~SaysContinue("Y")
  BY <1>1, <1>3 DEF LastPage
<1> QED
  BY <1>2, <1>3

\* The broker frames its headers in one way, so the last page stays the same.
LEMMA LastPageFixed ==
    ASSUME [Next]_vars
    PROVE  /\ \A q \in Polled : LastPage(q)' = LastPage(q)
           /\ \A q \in Polled : Reachable(q)' = Reachable(q)
<1>1. UNCHANGED framing
  <2>1. ASSUME NEW p \in Feeds, Thread(p) PROVE UNCHANGED framing
    BY <2>1 DEF Thread, Step, PollStep, CheckToken, IssueToken, IssueFails,
           StoreToken, TakeToken, Delivered, Unreadable, NoAnswer, BadStatus,
           Refused, Rejected, Begin, SkipWithoutAccount, ClearAccessToken,
           Publish, broker
  <2> QED
    BY <2>1 DEF Next, Main, SetUseAccount, Terminate, Restart, Expire, vars, broker
<1>2. SaysContinue("Y")' = SaysContinue("Y")
  BY <1>1 DEF SaysContinue, HeaderValue
<1>3. \A q \in Polled : LastPage(q)' = LastPage(q)
  BY <1>2 DEF LastPage, PageLimit
<1> QED
  BY <1>3 DEF Reachable

\* A thread's step leaves the account settled: the list of accounts only grows
\* before "done", and polls only follow it.
LEMMA SettledThread ==
    ASSUME IInv, NEW p \in Feeds, Thread(p)
    PROVE  AccountSettled'
<1> USE DEF IInv, TypeOK, AccountSettled, Listed, Feeds, Polled, boot
<1>1. CASE CheckToken(p)
  BY <1>1 DEF CheckToken, GoTo
<1>2. CASE IssueToken(p)
  BY <1>2 DEF IssueToken, GoTo
<1>3. CASE IssueFails(p)
  BY <1>3 DEF IssueFails, GoTo, Return
<1>4. CASE StoreToken(p)
  BY <1>4 DEF StoreToken, GoTo
<1>5. CASE TakeToken(p)
  <2>1. CASE Return(p) /\ pc[p] = "take"
    BY <1>5, <2>1 DEF TakeToken, Return
  <2>2. CASE GoTo(p, "page") /\ pc[p] = "take" /\ UNCHANGED <<page, gathered, cut>>
    BY <1>5, <2>2, ConstantsAssumption DEF TakeToken, GoTo, LastPage, PageLimit
  <2> QED
    BY <1>5, <2>1, <2>2 DEF TakeToken
<1>6. CASE Delivered(p)
  BY <1>6 DEF Delivered, NextPage, Break, GoTo
<1>7. CASE Unreadable(p)
  BY <1>7 DEF Unreadable, NextPage, Break, GoTo, Loses
<1>8. CASE NoAnswer(p)
  BY <1>8 DEF NoAnswer, Break, GoTo, Loses
<1>9. CASE BadStatus(p)
  BY <1>9 DEF BadStatus, Break, GoTo, Loses, Return
<1>10. CASE Refused(p)
  BY <1>10 DEF Refused, ReadsNoAccount, NextPage, Break, GoTo, Loses, Return
<1>11. CASE Rejected(p)
  BY <1>11 DEF Rejected, ReadsNoAccount, NextPage, Break, GoTo, Loses
<1>12. CASE p \in Polled /\ Begin(p)
  BY <1>12 DEF Begin, GoTo
<1>13. CASE p \in Polled /\ SkipWithoutAccount(p)
  BY <1>13 DEF SkipWithoutAccount, Return
<1>14. CASE p \in Polled /\ ClearAccessToken(p)
  BY <1>14 DEF ClearAccessToken, Return
<1>15. CASE p \in Polled /\ Publish(p)
  BY <1>15 DEF Publish, Return
<1> QED
  BY <1>1, <1>2, <1>3, <1>4, <1>5, <1>6, <1>7, <1>8, <1>9, <1>10, <1>11,
     <1>12, <1>13, <1>14, <1>15 DEF Thread, Step, PollStep

\* Only TakeToken leads to a request, and it has seen that the copy is not empty.
LEMMA CarriesThread ==
    ASSUME IInv, NEW p \in Feeds, Thread(p)
    PROVE  RequestCarriesToken'
<1> USE DEF IInv, TypeOK, RequestCarriesToken, Feeds, Polled
<1>1. CASE CheckToken(p)
  BY <1>1 DEF CheckToken, GoTo
<1>2. CASE IssueToken(p)
  BY <1>2 DEF IssueToken, GoTo
<1>3. CASE IssueFails(p)
  BY <1>3 DEF IssueFails, GoTo, Return
<1>4. CASE StoreToken(p)
  BY <1>4 DEF StoreToken, GoTo
<1>5. CASE TakeToken(p)
  BY <1>5, ConstantsAssumption DEF TakeToken, GoTo, Return
<1>6. CASE Delivered(p)
  BY <1>6 DEF Delivered, NextPage, Break, GoTo
<1>7. CASE Unreadable(p)
  BY <1>7 DEF Unreadable, NextPage, Break, GoTo, Loses
<1>8. CASE NoAnswer(p)
  BY <1>8 DEF NoAnswer, Break, GoTo, Loses
<1>9. CASE BadStatus(p)
  BY <1>9 DEF BadStatus, Break, GoTo, Loses, Return
<1>10. CASE Refused(p)
  BY <1>10 DEF Refused, ReadsNoAccount, NextPage, Break, GoTo, Loses, Return
<1>11. CASE Rejected(p)
  BY <1>11 DEF Rejected, ReadsNoAccount, NextPage, Break, GoTo, Loses
<1>12. CASE p \in Polled /\ Begin(p)
  BY <1>12 DEF Begin, GoTo
<1>13. CASE p \in Polled /\ SkipWithoutAccount(p)
  BY <1>13 DEF SkipWithoutAccount, Return
<1>14. CASE p \in Polled /\ ClearAccessToken(p)
  BY <1>14 DEF ClearAccessToken, Return
<1>15. CASE p \in Polled /\ Publish(p)
  BY <1>15 DEF Publish, Return
<1> QED
  BY <1>1, <1>2, <1>3, <1>4, <1>5, <1>6, <1>7, <1>8, <1>9, <1>10, <1>11,
     <1>12, <1>13, <1>14, <1>15 DEF Thread, Step, PollStep

\* A page that is delivered extends what was gathered in order, and the last one
\* completes it.
LEMMA DeliveredGathers ==
    ASSUME IInv, NEW p \in Feeds, Delivered(p), Thread(p)
    PROVE  GatheredAsAsked'
<1> USE DEF Feeds
<1>0. \A q \in Polled : LastPage(q)' = LastPage(q) /\ Reachable(q)' = Reachable(q)
  BY LastPageFixed DEF Next
<1>1. /\ pc[p] = "page" /\ NextPage(p) /\ UNCHANGED cut
      /\ gathered' = [gathered EXCEPT ![p] = @ \cup {page[p]}]
      /\ pc \in [Feeds -> PC] /\ page \in [Feeds -> 1..Pages]
      /\ gathered \in [Feeds -> SUBSET (1..Pages)]
  BY DEF Delivered, IInv, TypeOK
<1>2. \A q \in Polled \ {p} : /\ pc'[q] = pc[q] /\ page'[q] = page[q]
                              /\ gathered'[q] = gathered[q] /\ cut'[q] = cut[q]
  BY <1>1 DEF NextPage, Break, GoTo
<1>3. p \in Polled => pc'[p] \in {"page", "publish"}
  BY <1>1 DEF NextPage, Break, GoTo, Polled
<1>4. ASSUME p \in Polled, ~cut[p]
      PROVE  /\ pc'[p] = "page" => /\ gathered'[p] = 1..(page'[p] - 1)
                                   /\ page'[p] <= LastPage(p)
             /\ pc'[p] = "publish" => gathered'[p] = Reachable(p)
  <2>1. /\ page[p] \in Nat /\ page[p] >= 1 /\ page[p] <= LastPage(p)
        /\ gathered[p] = 1..(page[p] - 1)
    BY <1>1, <1>4, ConstantsAssumption DEF IInv, GatheredAsAsked
  <2>2. gathered'[p] = 1..(page[p] - 1) \cup {page[p]}
    BY <1>1, <2>1
  <2>3. gathered'[p] = 1..page[p]
    BY <2>1, <2>2
  <2>4. CASE Continues(p)
    <3>1. page[p] + 1 <= PageLimit(p) /\ page[p] + 1 \in 1..Pages /\ SaysContinue("Y")
      BY <2>4, ContinuesInRange DEF IInv
    <3>2. page[p] + 1 <= LastPage(p)
      BY <3>1 DEF LastPage
    <3>3. pc'[p] = "page" /\ page'[p] = page[p] + 1
      BY <1>1, <2>4 DEF NextPage, GoTo
    <3> QED
      BY <2>1, <2>3, <3>2, <3>3
  <2>5. CASE ~Continues(p)
    <3>1. page[p] = LastPage(p)
      BY <1>4, <2>1, <2>5, ContinuesNot DEF IInv
    <3>2. pc'[p] = "publish"
      BY <1>1, <1>4, <2>5 DEF NextPage, Break, GoTo, Polled
    <3> QED
      BY <2>3, <3>1, <3>2 DEF Reachable
  <2> QED
    BY <2>4, <2>5
<1> SUFFICES ASSUME NEW q \in Polled
             PROVE  /\ pc'[q] \in {"wait", "idle", "check", "issue", "store", "take"} =>
                         gathered'[q] = {} /\ page'[q] = 1 /\ ~cut'[q]
                    /\ pc'[q] = "page" /\ ~cut'[q] =>
                         gathered'[q] = 1..(page'[q] - 1) /\ page'[q] <= LastPage(q)
                    /\ pc'[q] = "publish" /\ ~cut'[q] => gathered'[q] = Reachable(q)
  BY <1>0 DEF GatheredAsAsked
<1>5. CASE q = p
  BY <1>1, <1>3, <1>4, <1>5
<1>6. CASE q # p
  BY <1>2, <1>6 DEF IInv, GatheredAsAsked
<1> QED
  BY <1>5, <1>6

\* A poller's step touches no other poller's pages.
LEMMA GatheredThread ==
    ASSUME IInv, NEW p \in Feeds, Thread(p)
    PROVE  GatheredAsAsked'
<1>0. \A q \in Polled : LastPage(q)' = LastPage(q) /\ Reachable(q)' = Reachable(q)
  BY LastPageFixed DEF Next
<1> USE <1>0
<1> USE DEF IInv, TypeOK, GatheredAsAsked, Feeds, Polled
<1>1. CASE CheckToken(p)
  BY <1>1 DEF CheckToken, GoTo
<1>2. CASE IssueToken(p)
  BY <1>2 DEF IssueToken, GoTo
<1>3. CASE IssueFails(p)
  BY <1>3 DEF IssueFails, GoTo, Return
<1>4. CASE StoreToken(p)
  BY <1>4 DEF StoreToken, GoTo
<1>5. CASE TakeToken(p)
  <2>1. CASE Return(p) /\ pc[p] = "take"
    BY <1>5, <2>1 DEF TakeToken, Return
  <2>2. CASE GoTo(p, "page") /\ pc[p] = "take" /\ UNCHANGED <<page, gathered, cut>>
    <3>1. LastPage(p) >= 1 /\ 1..0 = {}
      BY ConstantsAssumption DEF LastPage, PageLimit
    <3>2. p \in Polled => gathered[p] = {} /\ page[p] = 1
      BY <2>2
    <3>3. p \in Polled => gathered[p] = 1..(page[p] - 1) /\ page[p] <= LastPage(p)
      <4>1. 1 - 1 = 0
        OBVIOUS
      <4> QED
        BY ONLY <3>1, <3>2, <4>1, Zenon
    <3> QED
      BY <2>2, <3>3 DEF GoTo
  <2> QED
    BY <1>5, <2>1, <2>2 DEF TakeToken
<1>6. CASE Delivered(p)
  BY <1>6, DeliveredGathers
<1>7. CASE Unreadable(p)
  <2>1. /\ pc[p] = "page" /\ NextPage(p) /\ UNCHANGED gathered
        /\ cut' = [cut EXCEPT ![p] = TRUE]
    BY <1>7 DEF Unreadable, Loses
  <2>2. pc'[p] \in {"page", "publish", "choose"}
    BY <2>1 DEF NextPage, Break, GoTo
  <2>3. cut'[p]
    BY <2>1
  <2>4. \A q \in Polled \ {p} :
          pc'[q] = pc[q] /\ page'[q] = page[q] /\ gathered'[q] = gathered[q] /\ cut'[q] = cut[q]
    BY <2>1 DEF NextPage, Break, GoTo
  <2> QED
    BY <2>2, <2>3, <2>4
<1>8. CASE NoAnswer(p)
  BY <1>8 DEF NoAnswer, Break, GoTo, Loses
<1>9. CASE BadStatus(p)
  BY <1>9 DEF BadStatus, Break, GoTo, Loses, Return
<1>10. CASE Refused(p)
  BY <1>10 DEF Refused, ReadsNoAccount, NextPage, Break, GoTo, Loses, Return
<1>11. CASE Rejected(p)
  BY <1>11 DEF Rejected, ReadsNoAccount, NextPage, Break, GoTo, Loses
<1>12. CASE p \in Polled /\ Begin(p)
  BY <1>12 DEF Begin, GoTo
<1>13. CASE p \in Polled /\ SkipWithoutAccount(p)
  BY <1>13 DEF SkipWithoutAccount, Return
<1>14. CASE p \in Polled /\ ClearAccessToken(p)
  BY <1>14 DEF ClearAccessToken, Return
<1>15. CASE p \in Polled /\ Publish(p)
  BY <1>15 DEF Publish, Return
<1> QED
  BY <1>1, <1>2, <1>3, <1>4, <1>5, <1>6, <1>7, <1>8, <1>9, <1>10, <1>11,
     <1>12, <1>13, <1>14, <1>15 DEF Thread, Step, PollStep

LEMMA InvInit == Init => IInv
<1> SUFFICES ASSUME Init PROVE IInv
  OBVIOUS
<1>1. AccountSettled /\ RequestCarriesToken /\ GatheredAsAsked
  BY DEF Init, AccountSettled, RequestCarriesToken, GatheredAsAsked, Feeds, Polled
<1> QED
  BY <1>1, TypeInit DEF IInv

\* A new process satisfies the invariant whatever the old one did.
LEMMA FreshInv ==
    ASSUME FreshProcess
    PROVE  AccountSettled' /\ RequestCarriesToken' /\ GatheredAsAsked'
  BY DEF FreshProcess, AccountSettled, RequestCarriesToken, GatheredAsAsked,
         Feeds, Polled

\* SetUseAccount is the one step that sets the account, before any poll.
LEMMA MainInv ==
    ASSUME IInv, Main
    PROVE  AccountSettled' /\ RequestCarriesToken' /\ GatheredAsAsked'
<1>1. /\ pc["accounts"] = "choose"
      /\ UNCHANGED <<gathered, cut, published>>
      /\ token' = [token EXCEPT !["accounts"] = NoToken]
      /\ page' = [page EXCEPT !["accounts"] = 1]
  BY DEF Main, SetUseAccount
<1>2. /\ pc["holdings"] = "wait" /\ pc["trades"] = "wait"
      /\ published["holdings"] = {} /\ published["trades"] = {}
      /\ currentAccountNumber = NoAccount
  BY <1>1 DEF IInv, AccountSettled, Polled
<1>3. \/ \E a \in {NoAccount} \cup Listed :
            /\ pc' = [pc EXCEPT !["accounts"] = "done", !["holdings"] = "idle"]
            /\ currentAccountNumber' = a
            /\ a # NoAccount => a \in Listed /\ (ConfigAccount \in Listed => a = ConfigAccount)
      \/ /\ pc' = [pc EXCEPT !["accounts"] = "check"]
         /\ UNCHANGED currentAccountNumber
  BY DEF Main, SetUseAccount, UseAccount, IsFirstListed, GoTo
<1>4. Listed' = Listed
  BY <1>1 DEF Listed
<1> USE DEF IInv, TypeOK, Feeds, Polled
<1>0. \A q \in Polled : LastPage(q)' = LastPage(q) /\ Reachable(q)' = Reachable(q)
  BY LastPageFixed DEF Next
<1>5. AccountSettled'
  BY <1>1, <1>2, <1>3, <1>4 DEF AccountSettled
<1>6. RequestCarriesToken'
  BY <1>1, <1>2, <1>3 DEF RequestCarriesToken
<1>7. GatheredAsAsked'
  BY <1>0, <1>1, <1>2, <1>3 DEF GatheredAsAsked
<1> QED
  BY <1>5, <1>6, <1>7

LEMMA InvStep == IInv /\ [Next]_vars => IInv'
<1> SUFFICES ASSUME IInv, [Next]_vars PROVE IInv'
  OBVIOUS
<1>1. TypeOK'
  BY TypeStep DEF IInv
<1>2. CASE \E p \in Feeds : Thread(p)
  BY <1>1, <1>2, SettledThread, CarriesThread, GatheredThread DEF IInv
<1>3. CASE Main
  BY <1>1, <1>3, MainInv DEF IInv
<1>4. CASE Terminate \/ Restart
  BY <1>1, <1>4, FreshInv DEF Terminate, Restart, IInv
<1>5. CASE Expire \/ UNCHANGED vars
  <2>1. UNCHANGED <<pc, token, page, gathered, cut, published, currentAccountNumber>>
    BY <1>5 DEF Expire, vars, local, boot
  <2>2. AccountSettled' /\ RequestCarriesToken'
    BY <2>1 DEF IInv, AccountSettled, RequestCarriesToken, Listed
  <2>3. GatheredAsAsked'
    BY <2>1, LastPageFixed DEF IInv, GatheredAsAsked
  <2> QED
    BY <1>1, <2>2, <2>3 DEF IInv
<1> QED
  BY <1>2, <1>3, <1>4, <1>5 DEF Next

\* The conjunction that is preserved by every step, of which the theorems below
\* are consequences.
THEOREM Inductive == Spec => []IInv
  BY InvInit, InvStep, PTL DEF Spec

\* No request to the broker goes out with an empty token, however the pollers
\* clear, replace and copy the cached one (Login.cpp:16-115, Account.cpp:467).
THEOREM RequestsCarryToken == Spec => []RequestCarriesToken
<1>1. IInv => RequestCarriesToken
  BY DEF IInv
<1> QED
  BY <1>1, Inductive, PTL

\* Data is asked for and published only for an account the broker listed, the
\* configured one if it was (Account.cpp:409-432, 457, 869).
THEOREM DataHasChosenAccount == Spec => []DataOfChosenAccount
<1>1. IInv => DataOfChosenAccount
  BY DEF IInv, AccountSettled, DataOfChosenAccount
<1> QED
  BY <1>1, Inductive, PTL

\* A snapshot is replaced by exactly the pages the headers lead to, or by an
\* inquiry that lost an answer (Account.cpp:492-558, 594-609, 798-802).
THEOREM IntactInquiries == Spec => IntactInquiriesPublishAll
<1> DEFINE Whole ==
      \A p \in Polled :
        alive /\ alive' /\ published'[p] # published[p] /\ ~cut[p]
           => published'[p] = Reachable(p)
<1>1. IInv /\ [Next]_vars => [Whole]_vars
  <2> SUFFICES ASSUME IInv, Next, NEW p \in Polled, alive, alive',
                      published'[p] # published[p], ~cut[p]
               PROVE  published'[p] = Reachable(p)
    OBVIOUS
  <2>1. PICK q \in Polled : Publish(q)
    BY DEF Next, Thread, Step, PollStep, Main, SetUseAccount, Terminate, Restart,
           Expire, CheckToken, IssueToken, IssueFails, StoreToken, TakeToken,
           Delivered, Unreadable, NoAnswer, BadStatus, Refused, Rejected, Begin,
           SkipWithoutAccount, ClearAccessToken
  <2>2. pc[q] = "publish" /\ published' = [published EXCEPT ![q] = gathered[q]]
    BY <2>1 DEF Publish
  <2>3. q = p
    BY <2>2
  <2> QED
    BY <2>2, <2>3 DEF IInv, TypeOK, GatheredAsAsked
<1>2. []IInv /\ [][Next]_vars => [][Whole]_vars
  BY <1>1, PTL
<1> QED
  BY <1>2, Inductive, PTL DEF Spec, IntactInquiriesPublishAll

=============================================================================
