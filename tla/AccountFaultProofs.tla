------------------------- MODULE AccountFaultProofs -------------------------
(***************************************************************************)
(* Proofs about what faults cost Account: the account of a process that    *)
(* starts, and the tokens the broker issues.                               *)
(***************************************************************************)
EXTENDS AccountProofs

USE DEF NoToken, NoAccount

-----------------------------------------------------------------------------
(* The account of a process that starts.                                   *)

\* The cache holds something that the broker refuses.
CacheRefused == accessToken \notin valid \cup {NoToken}

\* n inquiries were lost to a fault each, or all of them to a cached token that
\* nothing clears.
Spent(n) == faults >= n \/ CacheRefused

\* An inquiry of SetUseAccount ends without an account only if it was Spent; the
\* pollers wait meanwhile, and after a start without account stay idle.
BootInv ==
    LET at == pc["accounts"]
    IN  /\ at # "done" /\ Listed = {} => Spent(attempt - 1)
        /\ at = "choose" /\ Listed = {} => Spent(attempt)
        /\ at = "take" /\ accessToken = NoToken /\ Listed = {} => Spent(attempt)
        /\ at \in {"issue", "store"} => accessToken = NoToken
        /\ at = "store" => token["accounts"] # NoToken
        /\ at = "page" /\ Listed = {} => token["accounts"] = accessToken \/ Spent(attempt)
        /\ at = "done" /\ currentAccountNumber = NoAccount => Spent(2)

\* The steps of a poller leave the account inquiry alone, and nothing but a
\* fault changes the cache before an account is chosen.
LEMMA PollerWaits ==
    ASSUME IInv, NEW p \in Polled, Thread(p)
    PROVE  /\ pc'["accounts"] = pc["accounts"] /\ pc["accounts"] = "done"
           /\ currentAccountNumber = NoAccount =>
                UNCHANGED <<accessToken, valid, faults>>
           /\ UNCHANGED <<attempt, currentAccountNumber>>
<1>1. pc[p] # "wait" /\ p # "accounts" /\ p \in Feeds
  BY DEF Thread, Step, PollStep, CheckToken, IssueToken, IssueFails, StoreToken,
         TakeToken, Delivered, Unreadable, NoAnswer, BadStatus, Refused, Rejected,
         Begin, SkipWithoutAccount, ClearAccessToken, Publish, Polled, Feeds
<1>2. pc["accounts"] = "done"
  BY <1>1 DEF IInv, AccountSettled
<1>3. UNCHANGED <<attempt, currentAccountNumber>>
  BY DEF Thread, Step, PollStep, CheckToken, IssueToken, IssueFails, StoreToken,
         TakeToken, Delivered, Unreadable, NoAnswer, BadStatus, Refused, Rejected,
         Begin, SkipWithoutAccount, ClearAccessToken, Publish, boot
<1>4. pc'["accounts"] = pc["accounts"]
  <2>1. pc \in [Feeds -> PC] /\ "accounts" \in Feeds
    BY DEF IInv, TypeOK, Feeds
  <2>2. CASE \E l \in PC : GoTo(p, l)
    BY <1>1, <2>1, <2>2 DEF GoTo
  <2>3. CASE Return(p)
    BY <1>1, <1>2, <2>1, <2>3 DEF Return
  <2>4. (\E l \in PC : GoTo(p, l)) \/ Return(p)
    BY <1>1 DEF Thread, Step, PollStep, CheckToken, IssueToken, IssueFails,
         StoreToken, TakeToken, Delivered, Unreadable, NoAnswer, BadStatus, Refused,
         Rejected, Begin, SkipWithoutAccount, ClearAccessToken, Publish, NextPage,
         Break, PC
  <2> QED
    BY <2>2, <2>3, <2>4
<1>5. ASSUME currentAccountNumber = NoAccount
      PROVE  UNCHANGED <<accessToken, valid, faults>>
  <2>1. pc[p] \in {"wait", "idle"}
    BY <1>5 DEF IInv, AccountSettled
  <2>2. SkipWithoutAccount(p)
    BY <1>5, <2>1 DEF Thread, Step, PollStep, CheckToken, IssueToken, IssueFails,
         StoreToken, TakeToken, Delivered, Unreadable, NoAnswer, BadStatus, Refused,
         Rejected, Begin, SkipWithoutAccount, ClearAccessToken, Publish
  <2> QED
    BY <2>2 DEF SkipWithoutAccount, broker
<1> QED
  BY <1>2, <1>3, <1>4, <1>5

\* A step of the account inquiry.
LEMMA BootAccounts ==
    ASSUME IInv, BootInv, Thread("accounts")
    PROVE  BootInv'
<1> DEFINE p == "accounts"
<1>1. /\ p \in Feeds /\ p \notin Polled /\ attempt \in {1, 2} /\ faults \in Nat
      /\ valid \subseteq 1..issued /\ issued \in Nat /\ accessToken \in Tokens
      /\ pc \in [Feeds -> PC] /\ gathered \in [Feeds -> SUBSET (1..Pages)]
      /\ token \in [Feeds -> Tokens]
  BY DEF IInv, TypeOK, Feeds, Polled
<1>2. pc[p] # "done" => currentAccountNumber = NoAccount
  BY DEF IInv, AccountSettled
<1> USE <1>1, <1>2, ConstantsAssumption DEF BootInv, Spent, CacheRefused, Listed, Tokens, boot, broker
<1> HIDE DEF p
<1>3. CASE CheckToken(p)
  BY <1>3 DEF CheckToken, GoTo, p
<1>4. CASE IssueToken(p)
  <2>1. /\ pc[p] = "issue" /\ pc' = [pc EXCEPT ![p] = "store"]
        /\ token' = [token EXCEPT ![p] = issued + 1]
        /\ UNCHANGED <<gathered, accessToken, attempt, currentAccountNumber, faults>>
    BY <1>4 DEF IssueToken, GoTo
  <2>2. accessToken = NoToken /\ (Listed = {} => faults >= attempt - 1)
    BY <2>1 DEF p
  <2> QED
    BY <2>1, <2>2 DEF p
<1>5. CASE IssueFails(p)
  <2>1. /\ pc[p] = "issue" /\ pc'[p] \in {"take", "choose"} /\ Listed' = Listed
        /\ UNCHANGED <<accessToken, valid, attempt, currentAccountNumber>>
        /\ faults' = faults + 1
    BY <1>5 DEF IssueFails, GoTo, Return, Fault, p
  <2>2. faults' \in Nat /\ accessToken = NoToken /\ (Listed = {} => faults' >= attempt)
    BY <2>1 DEF p
  <2> QED
    BY <2>1, <2>2 DEF p
<1>6. CASE StoreToken(p)
  <2>1. /\ pc[p] = "store" /\ pc' = [pc EXCEPT ![p] = "take"]
        /\ UNCHANGED <<token, gathered, valid, attempt, currentAccountNumber>>
        /\ accessToken' \in {token[p], Garbage} /\ faults' \in {faults, faults + 1}
    BY <1>6 DEF StoreToken, GoTo, WriteToken, Fault
  <2>2. accessToken = NoToken /\ (Listed = {} => faults >= attempt - 1)
    BY <2>1 DEF p
  <2>3. accessToken' # NoToken
    BY <2>1 DEF p
  <2> QED
    BY <2>1, <2>2, <2>3 DEF p
<1>7. CASE TakeToken(p)
  <2>1. pc[p] = "take" /\ UNCHANGED <<gathered, accessToken, valid, attempt, currentAccountNumber>>
    BY <1>7 DEF TakeToken, Return, p
  <2>2. CASE accessToken = NoToken /\ Return(p) /\ UNCHANGED faults
    BY <2>1, <2>2 DEF Return, p
  <2>3. CASE /\ pc' = [pc EXCEPT ![p] = "page"] /\ UNCHANGED faults
             /\ token' = [token EXCEPT ![p] = accessToken]
    BY <2>1, <2>3 DEF p
  <2>4. CASE /\ pc' = [pc EXCEPT ![p] = "page"] /\ faults' = faults + 1
    BY <2>1, <2>4 DEF p
  <2> QED
    BY <1>7, <2>2, <2>3, <2>4 DEF TakeToken, GoTo, Fault
<1>8. CASE Delivered(p)
  BY <1>8 DEF Delivered, NextPage, Break, GoTo, p
<1>9. CASE Unreadable(p)
  BY <1>9 DEF Unreadable, NextPage, Break, GoTo, Fault, p
<1>10. CASE NoAnswer(p)
  BY <1>10 DEF NoAnswer, Break, GoTo, Fault, p
<1>11. CASE BadStatus(p)
  BY <1>11 DEF BadStatus, Break, GoTo, Fault, p
<1>12. CASE Refused(p)
  BY <1>12 DEF Refused, ReadsNoAccount, NextPage, Break, GoTo, Fault, p
<1>13. CASE Rejected(p)
  BY <1>13 DEF Rejected, ReadsNoAccount, NextPage, Break, GoTo, p, IInv, RequestCarriesToken
<1> QED
  BY <1>3, <1>4, <1>5, <1>6, <1>7, <1>8, <1>9, <1>10, <1>11, <1>12, <1>13
     DEF Thread, Step, p

LEMMA BootStep == IInv /\ BootInv /\ [Next]_vars => BootInv'
<1> SUFFICES ASSUME IInv, BootInv, [Next]_vars PROVE BootInv'
  OBVIOUS
<1> USE ConstantsAssumption DEF BootInv, Spent, CacheRefused, Listed, boot, broker
<1>1. CASE Thread("accounts")
  BY <1>1, BootAccounts
<1>2. ASSUME NEW p \in Polled, Thread(p) PROVE BootInv'
  BY <1>2, PollerWaits
<1>3. CASE Main
  BY <1>3 DEF Main, SetUseAccount, UseAccount, IsFirstListed, GoTo, IInv, TypeOK, Feeds
<1>4. CASE Terminate \/ Restart
  <2>1. FreshProcess /\ faults' \in Nat
    BY <1>4 DEF Terminate, Restart, Fault, IInv, TypeOK
  <2> QED
    BY <2>1 DEF FreshProcess, Feeds
<1>5. CASE Expire \/ UNCHANGED vars
  <2>1. /\ UNCHANGED <<pc, token, gathered, accessToken, attempt, currentAccountNumber>>
        /\ valid' \subseteq valid /\ faults' >= faults /\ faults' \in Nat
    BY <1>5 DEF Expire, Fault, local, vars, IInv, TypeOK
  <2>2. attempt \in {1, 2} /\ faults \in Nat
    BY DEF IInv, TypeOK
  <2> QED
    BY <2>1, <2>2
<1> QED
  BY <1>1, <1>2, <1>3, <1>4, <1>5 DEF Next, Feeds

LEMMA BootInit == Init => BootInv
  BY DEF Init, BootInv, Spent, CacheRefused, Feeds

\* One failed inquiry does not leave a new process without an account: the second
\* one of SetUseAccount makes up for it, unless a cached token has expired
\* (Account.cpp:414, 426).
THEOREM BootSurvives == Spec => []BootSurvivesOneFault
<1>1. BootInv => BootSurvivesOneFault
  BY DEF BootInv, Spent, CacheRefused, BootSurvivesOneFault
<1> QED
  BY <1>1, InvInit, InvStep, BootInit, BootStep, PTL DEF Spec

-----------------------------------------------------------------------------
(* The tokens the broker issues.                                           *)

\* Tokens are of the broker or torn, one that is being stored is nowhere else, and
\* a process that ended left an empty cache.
TokensInv ==
    /\ \A p \in Feeds : token[p] \in 0..issued \cup {Garbage}
    /\ accessToken \in 0..issued \cup {Garbage}
    /\ \A p \in Feeds : pc[p] = "store" =>
         /\ token[p] \in 1..issued
         /\ accessToken # token[p]
         /\ \A q \in Feeds \ {p} : token[q] # token[p]
    /\ ~alive => pc["accounts"] = "check" /\ accessToken = NoToken

StoresValid(p)   == pc[p] = "store" /\ token[p] \in valid
StoresRefused(p) == pc[p] = "store" /\ token[p] \notin valid

\* Poller p will clear the cache.
Clears(p) == pc[p] = "clear" \/ (pc[p] = "page" /\ token[p] \notin valid)

Count(b) == IF b THEN 1 ELSE 0

\* What refused tokens can still cost beyond the tokens that are due.
Spoilt ==
    IF \E p \in Polled : StoresRefused(p) THEN 2
    ELSE IF CacheRefused \/ \E p \in Polled : Clears(p) THEN 1
    ELSE 0

Due(p) == Count(pc[p] = "issue" \/ Clears(p) \/ StoresRefused(p))

\* How many tokens the broker will issue at most if there is no further fault.
\* While main starts, only the account inquiry asks for one.
Reissues ==
    IF pc["accounts"] \in {"check", "issue", "store"} /\ accessToken = NoToken
    THEN IF pc["accounts"] # "store" THEN 1
         ELSE IF token["accounts"] \in valid THEN 0 ELSE 3
    ELSE IF accessToken \in valid
    THEN Due("holdings") + Due("trades") + Spoilt
    ELSE (2 - Count(StoresValid("holdings")) - Count(StoresValid("trades"))) + Spoilt

\* Every fault pays for three tokens.
Paid == issued + Reissues <= 1 + 3 * faults

-----------------------------------------------------------------------------
(* Where the tokens are.                                                   *)

LEMMA TokensThread ==
    ASSUME IInv, TokensInv, NEW p \in Feeds, Thread(p)
    PROVE  TokensInv'
<1>1. /\ pc \in [Feeds -> PC] /\ token \in [Feeds -> Tokens]
      /\ issued \in Nat /\ valid \subseteq 1..issued
  BY DEF IInv, TypeOK
<1>2. alive /\ alive'
  BY DEF Thread, Step, PollStep, CheckToken, IssueToken, IssueFails, StoreToken,
         TakeToken, Delivered, Unreadable, NoAnswer, BadStatus, Refused, Rejected,
         Begin, SkipWithoutAccount, ClearAccessToken, Publish
<1> USE <1>1, <1>2, ConstantsAssumption DEF TokensInv
\* Most steps leave the tokens where they are, or throw the thread's copy away.
<1>3. ASSUME UNCHANGED <<accessToken, issued>>, pc[p] # "store",
             \/ UNCHANGED token /\ \A q \in Feeds : pc'[q] = "store" => pc[q] = "store"
             \/ Return(p)
      PROVE  TokensInv'
  <2>1. /\ \A q \in Feeds : pc'[q] = "store" => pc[q] = "store"
        /\ \A q \in Feeds : token'[q] = token[q] \/ token'[q] = NoToken
        /\ \A q \in Feeds \ {p} : token'[q] = token[q]
    BY <1>3 DEF Return
  <2>2. \A q \in Feeds : pc'[q] = "store" => q # p
    BY <1>3, <2>1
  <2> QED
    BY <1>3, <2>1, <2>2
<1>4. CASE CheckToken(p)
  BY <1>3, <1>4 DEF CheckToken, GoTo, broker
<1>5. CASE IssueToken(p)
  <2>1. /\ pc' = [pc EXCEPT ![p] = "store"] /\ token' = [token EXCEPT ![p] = issued + 1]
        /\ issued' = issued + 1 /\ UNCHANGED accessToken
    BY <1>5 DEF IssueToken, GoTo
  <2>2. issued + 1 # Garbage
    OBVIOUS
  <2> QED
    BY <2>1, <2>2
<1>6. CASE IssueFails(p)
  BY <1>3, <1>6 DEF IssueFails, GoTo, broker
<1>7. CASE StoreToken(p)
  <2>1. /\ pc[p] = "store" /\ pc' = [pc EXCEPT ![p] = "take"]
        /\ UNCHANGED <<token, issued>>
        /\ accessToken' \in {token[p], Garbage}
    BY <1>7 DEF StoreToken, GoTo, WriteToken, broker
  <2> QED
    BY <2>1
<1>8. CASE TakeToken(p)
  <2>1. CASE Return(p)
    BY <1>3, <1>8, <2>1 DEF TakeToken, broker
  <2>2. CASE ~Return(p)
    <3>1. /\ pc[p] = "take" /\ pc' = [pc EXCEPT ![p] = "page"]
          /\ UNCHANGED <<accessToken, issued>>
          /\ \/ token' = [token EXCEPT ![p] = accessToken]
             \/ token' = [token EXCEPT ![p] = Garbage]
      BY <1>8, <2>2 DEF TakeToken, GoTo, broker
    <3> QED
      BY <3>1
  <2> QED
    BY <2>1, <2>2
<1>9. CASE Delivered(p) \/ Unreadable(p) \/ NoAnswer(p)
  BY <1>3, <1>9 DEF Delivered, Unreadable, NoAnswer, NextPage, Break, GoTo, broker
<1>10. CASE BadStatus(p) \/ Refused(p) \/ Rejected(p)
  BY <1>3, <1>10 DEF BadStatus, Refused, Rejected, ReadsNoAccount, NextPage, Break, GoTo,
     broker
<1>11. CASE Begin(p) \/ SkipWithoutAccount(p) \/ Publish(p)
  BY <1>3, <1>11 DEF Begin, SkipWithoutAccount, Publish, GoTo, broker
<1>12. CASE ClearAccessToken(p)
  <2>1. /\ pc[p] = "clear" /\ Return(p) /\ UNCHANGED issued
        /\ accessToken' \in {NoToken, Garbage}
    BY <1>12 DEF ClearAccessToken, WriteToken, broker
  <2>2. /\ \A q \in Feeds : pc'[q] = "store" => pc[q] = "store" /\ q # p
        /\ token' = [token EXCEPT ![p] = NoToken]
    BY <2>1 DEF Return
  <2> QED
    BY <2>1, <2>2
<1> QED
  BY <1>4, <1>5, <1>6, <1>7, <1>8, <1>9, <1>10, <1>11, <1>12 DEF Thread, Step, PollStep

LEMMA TokensStep == IInv /\ TokensInv /\ [Next]_vars => TokensInv'
<1> SUFFICES ASSUME IInv, TokensInv, [Next]_vars PROVE TokensInv'
  OBVIOUS
<1>1. CASE \E p \in Feeds : Thread(p)
  BY <1>1, TokensThread
<1>2. CASE Main
  <2>1. /\ pc["accounts"] = "choose" /\ UNCHANGED <<accessToken, issued, alive>> /\ alive
        /\ token' = [token EXCEPT !["accounts"] = NoToken]
        /\ \A p \in Feeds : pc'[p] = "store" => pc[p] = "store"
    BY <1>2 DEF Main, SetUseAccount, UseAccount, GoTo, broker, IInv, TypeOK, Feeds, Polled
  <2>2. \A p \in Feeds : pc'[p] = "store" => p # "accounts"
    BY <1>2 DEF Main, SetUseAccount, UseAccount, GoTo, IInv, TypeOK, Feeds, Polled
  <2>3. token \in [Feeds -> Tokens] /\ issued \in Nat
    BY DEF IInv, TypeOK
  <2> QED
    BY <2>1, <2>2, <2>3 DEF TokensInv
<1>3. CASE Terminate \/ Restart
  <2>1. FreshProcess /\ UNCHANGED issued /\ issued \in Nat
    BY <1>3 DEF Terminate, Restart, broker, IInv, TypeOK
  <2> QED
    BY <2>1 DEF FreshProcess, TokensInv, Feeds
<1>4. CASE Expire \/ UNCHANGED vars
  <2>1. UNCHANGED <<pc, token, accessToken, issued, alive>>
    BY <1>4 DEF Expire, vars, local, broker
  <2> QED
    BY <2>1 DEF TokensInv
<1> QED
  BY <1>1, <1>2, <1>3, <1>4 DEF Next

-----------------------------------------------------------------------------
(* What the faults pay for.                                                *)

\* The polled inquiries in either order.
InEitherOrder ==
    \A p, q \in Polled :
      p # q =>
        /\ Spoilt = IF StoresRefused(p) \/ StoresRefused(q) THEN 2
                    ELSE IF CacheRefused \/ Clears(p) \/ Clears(q) THEN 1 ELSE 0
        /\ pc["accounts"] = "done" =>
             Reissues =
               IF accessToken \in valid THEN Due(p) + Due(q) + Spoilt
               ELSE (2 - Count(StoresValid(p)) - Count(StoresValid(q))) + Spoilt

LEMMA ReissuesOf == InEitherOrder
<1> SUFFICES ASSUME NEW p \in Polled, NEW q \in Polled, p # q
             PROVE  /\ Spoilt = IF StoresRefused(p) \/ StoresRefused(q) THEN 2
                                ELSE IF CacheRefused \/ Clears(p) \/ Clears(q) THEN 1 ELSE 0
                    /\ pc["accounts"] = "done" =>
                         Reissues =
                           IF accessToken \in valid THEN Due(p) + Due(q) + Spoilt
                           ELSE (2 - Count(StoresValid(p)) - Count(StoresValid(q))) + Spoilt
  BY DEF InEitherOrder
<1>1. Polled = {p, q} /\ ((p = "holdings" /\ q = "trades") \/ (p = "trades" /\ q = "holdings"))
  BY DEF Polled
<1>2. Spoilt = IF StoresRefused(p) \/ StoresRefused(q) THEN 2
               ELSE IF CacheRefused \/ Clears(p) \/ Clears(q) THEN 1 ELSE 0
  BY <1>1 DEF Spoilt
<1>3. /\ Due(p) \in Int /\ Due(q) \in Int /\ Spoilt \in Int
      /\ Count(StoresValid(p)) \in Int /\ Count(StoresValid(q)) \in Int
  BY <1>2 DEF Due, Count
<1>4. /\ Due(p) + Due(q) = Due("holdings") + Due("trades")
      /\ 2 - Count(StoresValid(p)) - Count(StoresValid(q))
           = 2 - Count(StoresValid("holdings")) - Count(StoresValid("trades"))
  BY <1>1, <1>3
<1> QED
  BY <1>2, <1>4 DEF Reissues

\* What is due while no poller is inside an inquiry.
ReissuesStarting ==
    IF pc["accounts"] \in {"check", "issue", "store"} /\ accessToken = NoToken
    THEN IF pc["accounts"] # "store" THEN 1
         ELSE IF token["accounts"] \in valid THEN 0 ELSE 3
    ELSE IF accessToken \in valid THEN 0
    ELSE IF accessToken = NoToken THEN 2 ELSE 3

LEMMA ReissuesBetween ==
    (\A p \in Polled : pc[p] \in {"wait", "idle"}) => Reissues = ReissuesStarting
<1> SUFFICES ASSUME \A p \in Polled : pc[p] \in {"wait", "idle"}
             PROVE  Reissues = ReissuesStarting
  OBVIOUS
<1>2. /\ \A p \in Polled : ~StoresValid(p) /\ ~StoresRefused(p) /\ ~Clears(p)
      /\ \A p \in Polled : Due(p) = 0 /\ Count(StoresValid(p)) = 0
  BY DEF StoresValid, StoresRefused, Clears, Due, Count
<1>3. Spoilt = IF CacheRefused THEN 1 ELSE 0
  BY <1>2 DEF Spoilt
<1>4. Due("holdings") = 0 /\ Due("trades") = 0 /\ 2 - 0 - 0 = 2
      /\ Count(StoresValid("holdings")) = 0 /\ Count(StoresValid("trades")) = 0
  BY <1>2 DEF Polled
<1>5. CASE accessToken \in valid
  BY <1>3, <1>4, <1>5 DEF Reissues, ReissuesStarting, CacheRefused
<1>6. CASE accessToken \notin valid
  BY <1>3, <1>4, <1>6 DEF Reissues, ReissuesStarting, CacheRefused
<1> QED
  BY <1>5, <1>6

\* While the account inquiry runs, both pollers wait.
LEMMA ReissuesAtStart == IInv /\ pc["accounts"] # "done" => Reissues = ReissuesStarting
  BY ReissuesBetween DEF IInv, AccountSettled

LEMMA ReissuesNat == IInv => Reissues \in Nat
<1> SUFFICES ASSUME IInv PROVE Reissues \in Nat
  OBVIOUS
<1>1. CASE pc["accounts"] # "done"
  BY <1>1, ReissuesAtStart DEF ReissuesStarting
<1>2. CASE pc["accounts"] = "done"
  <2>1. Spoilt \in {0, 1, 2} /\ \A p \in Polled : Due(p) \in {0, 1} /\ Count(StoresValid(p)) \in {0, 1}
    BY DEF Spoilt, Due, Count
  <2>2. Reissues = IF accessToken \in valid THEN Due("holdings") + Due("trades") + Spoilt
                   ELSE (2 - Count(StoresValid("holdings")) - Count(StoresValid("trades"))) + Spoilt
    BY <1>2 DEF Reissues
  <2> QED
    BY <2>1, <2>2 DEF Polled
<1> QED
  BY <1>1, <1>2

\* A step of poller p does nothing to the other one but end its wait.
LEMMA OtherPoller ==
    ASSUME IInv, TokensInv, NEW p \in Polled, NEW q \in Polled, p # q, Thread(p)
    PROVE  /\ StoresValid(q)' = StoresValid(q)
           /\ StoresRefused(q)' = StoresRefused(q)
           /\ Clears(q)' = Clears(q)
           /\ Due(q)' = Due(q)
<1>1. /\ p \in Feeds /\ q \in Feeds /\ p # "accounts"
      /\ pc \in [Feeds -> PC] /\ token \in [Feeds -> Tokens] /\ issued \in Nat
      /\ valid \subseteq 1..issued
  BY DEF Polled, Feeds, IInv, TypeOK
<1>2. token'[q] = token[q] /\ (pc'[q] = pc[q] \/ (pc[q] = "wait" /\ pc'[q] = "idle"))
  <2>1. CASE Return(p)
    BY <1>1, <2>1 DEF Return
  <2>2. CASE ~Return(p)
    <3>1. \E l \in PC : GoTo(p, l)
      BY <1>1, <2>2 DEF Thread, Step, PollStep, CheckToken, IssueToken, IssueFails,
         StoreToken, TakeToken, Delivered, Unreadable, NoAnswer, BadStatus, Refused,
         Rejected, Begin, SkipWithoutAccount, ClearAccessToken, Publish, NextPage,
         Break, PC
    <3>2. UNCHANGED token \/ \E v : token' = [token EXCEPT ![p] = v]
      BY <1>1, <2>2 DEF Thread, Step, PollStep, CheckToken, IssueToken, IssueFails,
         StoreToken, TakeToken, Delivered, Unreadable, NoAnswer, BadStatus, Refused,
         Rejected, Begin, SkipWithoutAccount, ClearAccessToken, Publish
    <3> QED
      BY <1>1, <3>1, <3>2 DEF GoTo
  <2> QED
    BY <2>1, <2>2
<1>3. token[q] \in valid' <=> token[q] \in valid
  <2>1. valid' = valid \/ valid' = valid \cup {issued + 1}
    BY DEF Thread, Step, PollStep, CheckToken, IssueToken, IssueFails, StoreToken,
         TakeToken, Delivered, Unreadable, NoAnswer, BadStatus, Refused, Rejected,
         Begin, SkipWithoutAccount, ClearAccessToken, Publish, broker
  <2>2. token[q] # issued + 1
    BY <1>1, ConstantsAssumption DEF TokensInv
  <2> QED
    BY <2>1, <2>2
<1> QED
  BY <1>2, <1>3 DEF StoresValid, StoresRefused, Clears, Due, Count

\* A step that is no fault may not raise the sum, and a fault raises it by three.
LEMMA Pay ==
    ASSUME NEW i \in Nat, NEW r \in Nat, NEW f \in Nat, i + r <= 1 + 3 * f,
           NEW j \in Nat, NEW s \in Nat, NEW g \in Nat,
           \/ g = f /\ j + s <= i + r
           \/ g = f + 1 /\ j + s <= i + r + 3
    PROVE  j + s <= 1 + 3 * g
  OBVIOUS

LEMMA PayUnissued ==
    ASSUME NEW i \in Nat, NEW r \in Nat, NEW f \in Nat, i + r <= 1 + 3 * f,
           NEW j, NEW s \in Nat, NEW g, j = i,
           \/ g = f /\ s <= r
           \/ g = f + 1 /\ s <= r + 3
    PROVE  j + s <= 1 + 3 * g
  OBVIOUS

\* A poller that may issue, store or clear lowers what is still due.
LEMMA PaidPoller ==
    ASSUME IInv, TokensInv, Paid, NEW p \in Polled, Thread(p)
    PROVE  Paid'
<1>1. PICK q \in Polled : q # p
  BY DEF Polled
<1>2. /\ p \in Feeds /\ q \in Feeds /\ p # "accounts"
      /\ pc \in [Feeds -> PC] /\ token \in [Feeds -> Tokens]
      /\ issued \in Nat /\ valid \subseteq 1..issued /\ faults \in Nat
      /\ accessToken \in 0..issued \cup {Garbage}
      /\ token[p] \in 0..issued \cup {Garbage}
      /\ pc[p] = "page" => token[p] # NoToken
      /\ Garbage \notin Nat /\ Garbage \notin valid /\ NoToken \notin valid
  <2>1. p \in Feeds /\ q \in Feeds /\ p # "accounts"
    BY DEF Polled, Feeds
  <2>2. /\ pc \in [Feeds -> PC] /\ token \in [Feeds -> Tokens]
        /\ issued \in Nat /\ valid \subseteq 1..issued /\ faults \in Nat
    BY DEF IInv, TypeOK
  <2>3. Garbage \notin Nat /\ Garbage \notin valid /\ NoToken \notin valid
    <3>1. \A t \in valid : t \in Nat /\ t # 0
      BY <2>2
    <3> QED
      BY <3>1, ConstantsAssumption
  <2> QED
    BY <2>1, <2>2, <2>3 DEF IInv, TokensInv, RequestCarriesToken
<1>3. /\ pc["accounts"] = "done" /\ pc'["accounts"] = "done"
  BY PollerWaits
<1> DEFINE Total(good, spoilt, due1, due2, sv1, sv2) ==
             IF good THEN due1 + due2 + spoilt ELSE (2 - sv1 - sv2) + spoilt
<1>4. /\ Reissues = Total(accessToken \in valid, Spoilt, Due(p), Due(q),
                          Count(StoresValid(p)), Count(StoresValid(q)))
      /\ Spoilt = IF StoresRefused(p) \/ StoresRefused(q) THEN 2
                  ELSE IF CacheRefused \/ Clears(p) \/ Clears(q) THEN 1 ELSE 0
  BY <1>1, <1>3, ReissuesOf DEF InEitherOrder
<1>5. /\ Reissues' = Total(accessToken' \in valid', Spoilt', Due(p)', Due(q),
                           Count(StoresValid(p)'), Count(StoresValid(q)))
      /\ Spoilt' = IF StoresRefused(p)' \/ StoresRefused(q) THEN 2
                   ELSE IF CacheRefused' \/ Clears(p)' \/ Clears(q) THEN 1 ELSE 0
  <2>1. /\ StoresValid(q)' = StoresValid(q) /\ StoresRefused(q)' = StoresRefused(q)
        /\ Clears(q)' = Clears(q) /\ Due(q)' = Due(q)
    BY <1>1, OtherPoller
  <2>2. /\ Spoilt' = IF StoresRefused(p)' \/ StoresRefused(q)' THEN 2
                     ELSE IF CacheRefused' \/ Clears(p)' \/ Clears(q)' THEN 1 ELSE 0
        /\ Reissues' =
             IF accessToken' \in valid' THEN Due(p)' + Due(q)' + Spoilt'
             ELSE (2 - Count(StoresValid(p))' - Count(StoresValid(q))') + Spoilt'
    <3>1. InEitherOrder'
      BY ReissuesOf, PTL
    <3> QED
      BY <1>1, <1>3, <3>1 DEF InEitherOrder
  <2> QED
    BY <2>1, <2>2 DEF Count
<1>6. /\ Due(q) \in {0, 1} /\ Count(StoresValid(q)) \in {0, 1}
      /\ StoresRefused(q) => Due(q) = 1 /\ Count(StoresValid(q)) = 0
      /\ Clears(q) => Due(q) = 1 /\ Count(StoresValid(q)) = 0
      /\ StoresValid(q) => Due(q) = 0
      /\ ~StoresValid(q) => Count(StoresValid(q)) = 0
      /\ StoresValid(q) => Count(StoresValid(q)) = 1
  BY DEF Due, Count, StoresRefused, StoresValid, Clears
<1> DEFINE Pays ==
             /\ issued' \in Nat
             /\ \/ faults' = faults /\ issued' + Reissues' <= issued + Reissues
                \/ faults' = faults + 1 /\ issued' + Reissues' <= issued + Reissues + 3
<1>7. ASSUME Begin(p) \/ SkipWithoutAccount(p) \/ Publish(p) \/ CheckToken(p)
      PROVE  Pays
  <2>1. /\ UNCHANGED <<valid, accessToken, issued, faults>>
        /\ pc[p] \notin {"page", "clear", "store"} /\ pc'[p] \notin {"page", "clear", "store"}
        /\ pc[p] # "issue"
        /\ pc'[p] = "issue" => accessToken = NoToken
    BY <1>2, <1>7 DEF Begin, SkipWithoutAccount, Publish, CheckToken, GoTo, Return, broker
  <2> QED
    BY <1>2, <1>4, <1>5, <1>6, <2>1 DEF CacheRefused, Due, Count, StoresRefused, StoresValid, Clears
<1>8. ASSUME IssueToken(p)
      PROVE  Pays
  <2>1. /\ UNCHANGED <<accessToken, faults>> /\ issued' = issued + 1
        /\ valid' = valid \cup {issued + 1} /\ token'[p] = issued + 1
        /\ pc[p] = "issue" /\ pc'[p] = "store"
    BY <1>2, <1>8 DEF IssueToken, GoTo
  <2>2. accessToken # issued + 1
    BY <1>2
  <2>3. /\ ~StoresRefused(p) /\ ~Clears(p) /\ ~StoresValid(p) /\ Due(p) = 1
        /\ Count(StoresValid(p)) = 0
        /\ ~StoresRefused(p)' /\ ~Clears(p)' /\ Due(p)' = 0 /\ Count(StoresValid(p)') = 1
        /\ CacheRefused' = CacheRefused
    BY <2>1, <2>2 DEF CacheRefused, Due, Count, StoresRefused, StoresValid, Clears
  <2> QED
    BY <1>2, <1>4, <1>5, <1>6, <2>1, <2>2, <2>3
<1>9. ASSUME StoreToken(p)
      PROVE  Pays
  <2>1. /\ UNCHANGED <<valid, issued>> /\ token'[p] = token[p]
        /\ pc[p] = "store" /\ pc'[p] = "take"
        /\ \/ faults' = faults /\ accessToken' = token[p]
           \/ faults' = faults + 1 /\ accessToken' = Garbage
    BY <1>2, <1>9 DEF StoreToken, GoTo, WriteToken, Fault, broker
  <2>2. ~Clears(p) /\ ~StoresRefused(p)' /\ ~Clears(p)' /\ Due(p)' = 0 /\ Count(StoresValid(p)') = 0
    BY <2>1 DEF Due, Count, StoresRefused, StoresValid, Clears
  <2>3. CASE token[p] \in valid
    <3>1. ~StoresRefused(p) /\ Due(p) = 0 /\ Count(StoresValid(p)) = 1
      BY <2>1, <2>3 DEF Due, Count, StoresRefused, StoresValid, Clears
    <3>2. CASE faults' = faults /\ accessToken' = token[p]
      <4>1. accessToken' \in valid' /\ ~CacheRefused'
        BY <2>1, <2>3, <3>2 DEF CacheRefused
      <4>2. Reissues' = 0 + Due(q) + Spoilt' /\ Spoilt' <= Spoilt /\ Spoilt' \in Nat /\ Spoilt \in Nat
        BY <1>4, <1>5, <2>2, <3>1, <4>1
      <4>3. Due(q) + Count(StoresValid(q)) <= 1
        BY <1>6
      <4> QED
        BY <1>2, <1>4, <1>6, <2>1, <3>1, <3>2, <4>2, <4>3
    <3>3. CASE faults' = faults + 1 /\ accessToken' = Garbage
      <4>1. accessToken' \notin valid'
        BY <1>2, <2>1, <3>3
      <4> QED
        BY <1>2, <1>4, <1>5, <1>6, <2>1, <2>2, <3>1, <3>3, <4>1
    <3> QED
      BY <2>1, <3>2, <3>3
  <2>4. CASE token[p] \notin valid
    <3>1. StoresRefused(p) /\ Due(p) = 1 /\ Count(StoresValid(p)) = 0
      BY <2>1, <2>4 DEF Due, Count, StoresRefused, StoresValid, Clears
    <3> QED
      BY <1>2, <1>4, <1>5, <1>6, <2>1, <2>2, <2>4, <3>1 DEF CacheRefused
  <2> QED
    BY <2>3, <2>4
<1>10. ASSUME TakeToken(p)
      PROVE  Pays
  <2>1. /\ UNCHANGED <<valid, issued, accessToken>> /\ pc[p] = "take"
        /\ \/ faults' = faults /\ pc'[p] = "idle"
           \/ /\ faults' = faults /\ accessToken # NoToken
              /\ pc'[p] = "page" /\ token'[p] = accessToken
           \/ faults' = faults + 1 /\ pc'[p] = "page"
    BY <1>2, <1>10 DEF TakeToken, GoTo, Return, Fault, broker
  <2>2. /\ ~StoresRefused(p) /\ ~Clears(p) /\ Due(p) = 0 /\ Count(StoresValid(p)) = 0
        /\ ~StoresRefused(p)' /\ Count(StoresValid(p)') = 0 /\ Due(p)' = Count(Clears(p)')
        /\ CacheRefused' = CacheRefused
        /\ faults' = faults => (Clears(p)' => accessToken \notin valid /\ CacheRefused)
    <3>1. /\ ~StoresRefused(p) /\ ~StoresRefused(p)'
          /\ Count(StoresValid(p)) = 0 /\ Count(StoresValid(p)') = 0
      BY <2>1 DEF Count, StoresRefused, StoresValid
    <3>2. ~Clears(p) /\ Due(p) = 0 /\ Due(p)' = Count(Clears(p)')
      BY <2>1, <3>1 DEF Due, Count, Clears
    <3>3. CacheRefused' = CacheRefused
      BY <2>1 DEF CacheRefused
    <3>4. ASSUME faults' = faults, Clears(p)'
          PROVE  accessToken \notin valid /\ CacheRefused
      <4>1. faults' # faults + 1
        BY <1>2, <3>4
      <4>2. accessToken # NoToken /\ pc'[p] = "page" /\ token'[p] = accessToken
        BY <2>1, <3>4, <4>1 DEF Clears
      <4> QED
        BY <2>1, <3>4, <4>2 DEF Clears, CacheRefused
    <3> QED
      BY <3>1, <3>2, <3>3, <3>4
  <2>3. CASE faults' = faults
    <3>1. Spoilt' = Spoilt
      BY <1>4, <1>5, <2>2, <2>3
    <3>2. accessToken \in valid => Due(p)' = 0
      BY <2>2, <2>3 DEF Count
    <3>3. Reissues' = Reissues /\ Reissues \in Nat
      BY <1>4, <1>5, <1>6, <2>1, <2>2, <3>1, <3>2
    <3> QED
      BY <1>2, <2>1, <2>3, <3>3
  <2>4. CASE faults' = faults + 1
    <3>1. Due(p)' \in {0, 1}
      BY <2>2 DEF Count
    <3> QED
      BY <1>2, <1>4, <1>5, <1>6, <2>1, <2>2, <2>4, <3>1
  <2> QED
    BY <2>1, <2>3, <2>4
\* The pages of an inquiry: its token stays what it is, or is thrown away.
<1>11. ASSUME \/ Delivered(p) \/ Unreadable(p) \/ NoAnswer(p) \/ BadStatus(p)
              \/ Refused(p) \/ Rejected(p) \/ IssueFails(p)
       PROVE  Pays
  <2>1. /\ UNCHANGED <<valid, issued, accessToken>>
        /\ \/ faults' = faults \/ faults' = faults + 1
        /\ \/ /\ pc[p] = "page"
              /\ pc'[p] \in {"page", "publish", "idle", "clear"}
              /\ pc'[p] = "page" => token'[p] = token[p]
              /\ pc'[p] = "clear" => token[p] \notin valid
           \/ /\ pc[p] = "issue" /\ pc'[p] \in {"take", "idle"}
              /\ faults' = faults + 1
    BY <1>2, <1>11 DEF Delivered, Unreadable, NoAnswer, BadStatus, Refused, Rejected,
         IssueFails, NextPage, Break, GoTo, Return, Fault, broker
  <2>2. /\ ~StoresRefused(p) /\ Count(StoresValid(p)) = 0
        /\ ~StoresRefused(p)' /\ Count(StoresValid(p)') = 0
        /\ CacheRefused' = CacheRefused /\ Due(p) \in {0, 1} /\ Due(p)' \in {0, 1}
        /\ Clears(p)' => Clears(p)
        /\ Due(p)' <= Due(p)
    BY <2>1 DEF CacheRefused, Due, Count, StoresRefused, StoresValid, Clears
  <2> QED
    BY <1>2, <1>4, <1>5, <1>6, <2>1, <2>2
<1>12. ASSUME ClearAccessToken(p)
       PROVE  Pays
  <2>1. /\ UNCHANGED <<valid, issued>> /\ pc[p] = "clear" /\ pc'[p] = "idle"
        /\ \/ faults' = faults /\ accessToken' = NoToken
           \/ faults' = faults + 1 /\ accessToken' = Garbage
    BY <1>2, <1>12 DEF ClearAccessToken, WriteToken, Return, Fault, broker
  <2>2. /\ ~StoresRefused(p) /\ Clears(p) /\ Due(p) = 1 /\ Count(StoresValid(p)) = 0
        /\ ~StoresRefused(p)' /\ ~Clears(p)' /\ Due(p)' = 0 /\ Count(StoresValid(p)') = 0
        /\ accessToken' \notin valid'
        /\ faults' = faults => ~CacheRefused'
    BY <1>2, <2>1 DEF CacheRefused, Due, Count, StoresRefused, StoresValid, Clears
  <2> QED
    BY <1>2, <1>4, <1>5, <1>6, <2>1, <2>2
<1>20. Pays
  BY <1>2, <1>7, <1>8, <1>9, <1>10, <1>11, <1>12 DEF Thread, Step, PollStep
<1> QED
  <2>1. Reissues \in Nat /\ Reissues' \in Nat
    <3>1. IInv' /\ (IInv => Reissues \in Nat)'
      <4>1. IInv'
        BY <1>2, InvStep DEF Next
      <4> QED
        BY <4>1, ReissuesNat, PTL
    <3> QED
      BY <3>1, ReissuesNat
  <2>2. issued + Reissues <= 1 + 3 * faults
    BY DEF Paid
  <2>3. issued \in Nat /\ faults \in Nat /\ issued' \in Nat /\ faults' \in Nat
    BY <1>2, <1>20
  <2>4. issued' + Reissues' <= 1 + 3 * faults'
    BY <1>20, <2>1, <2>2, <2>3, Pay
  <2> QED
    BY <2>4 DEF Paid

\* While main starts, the one token it asks for is paid for, and an expiry of
\* that token before it is stored costs three.
LEMMA PaidAccounts ==
    ASSUME IInv, BootInv, TokensInv, Paid, Thread("accounts")
    PROVE  Paid'
<1> DEFINE p == "accounts"
<1>1. /\ p \in Feeds /\ p \notin Polled /\ faults \in Nat /\ issued \in Nat
      /\ valid \subseteq 1..issued /\ accessToken \in 0..issued \cup {Garbage}
      /\ pc \in [Feeds -> PC] /\ token \in [Feeds -> Tokens]
      /\ NoToken \notin valid /\ Garbage \notin valid /\ Garbage # NoToken
  <2>1. /\ p \in Feeds /\ p \notin Polled
    BY DEF Feeds, Polled
  <2>2. /\ faults \in Nat /\ issued \in Nat /\ valid \subseteq 1..issued
        /\ pc \in [Feeds -> PC] /\ token \in [Feeds -> Tokens]
    BY DEF IInv, TypeOK
  <2>3. NoToken \notin valid /\ Garbage \notin valid /\ Garbage # NoToken
    <3>1. \A t \in valid : t \in Nat /\ t # 0
      BY <2>2
    <3> QED
      BY <3>1, ConstantsAssumption
  <2>4. accessToken \in 0..issued \cup {Garbage}
    BY DEF TokensInv
  <2> QED
    BY <2>1, <2>2, <2>3, <2>4
<1>2. pc[p] \notin {"done", "choose"}
  BY DEF Thread, Step, CheckToken, IssueToken, IssueFails, StoreToken, TakeToken,
         Delivered, Unreadable, NoAnswer, BadStatus, Refused, Rejected, Polled
<1>3. pc'[p] # "done" /\ IInv'
  <2>1. IInv'
    BY <1>1, InvStep DEF Next
  <2> QED
    BY <1>1, <2>1 DEF Thread, Step, CheckToken, IssueToken, IssueFails, StoreToken,
         TakeToken, Delivered, Unreadable, NoAnswer, BadStatus, Refused, Rejected,
         ReadsNoAccount, NextPage, Break, Return, GoTo
<1>4. /\ Reissues = ReissuesStarting /\ Reissues' = ReissuesStarting'
      /\ Reissues \in Nat /\ Reissues' \in Nat
  <2>1. (IInv /\ pc["accounts"] # "done" => Reissues = ReissuesStarting)'
        /\ (IInv => Reissues \in Nat)'
    BY ReissuesAtStart, ReissuesNat, PTL
  <2> QED
    BY <1>2, <1>3, <2>1, ReissuesAtStart, ReissuesNat
<1>5. ASSUME CheckToken(p)
      PROVE  faults' = faults /\ issued' = issued /\ Reissues' <= Reissues
  <2>1. /\ UNCHANGED <<accessToken, valid, faults, issued, token>> /\ pc[p] = "check"
        /\ pc'[p] = IF accessToken # NoToken THEN "take" ELSE "issue"
    BY <1>1, <1>5 DEF CheckToken, GoTo, broker
  <2> QED
    BY <1>4, <2>1 DEF ReissuesStarting
<1>6. ASSUME IssueToken(p)
      PROVE  faults' = faults /\ issued' = issued + 1 /\ Reissues = 1 /\ Reissues' = 0
  <2>1. /\ UNCHANGED <<accessToken, faults>> /\ issued' = issued + 1 /\ pc[p] = "issue"
        /\ pc'[p] = "store" /\ token'[p] \in valid'
    BY <1>1, <1>6 DEF IssueToken, GoTo
  <2>2. accessToken = NoToken
    BY <2>1 DEF BootInv
  <2> QED
    BY <1>4, <2>1, <2>2 DEF ReissuesStarting
<1>7. ASSUME StoreToken(p)
      PROVE  /\ issued' = issued
             /\ \/ faults' = faults /\ Reissues' = Reissues
                \/ faults' = faults + 1 /\ Reissues' <= 3
  <2>1. /\ UNCHANGED <<valid, issued, token>> /\ pc[p] = "store" /\ pc'[p] = "take"
        /\ \/ faults' = faults /\ accessToken' = token[p]
           \/ faults' = faults + 1
    BY <1>1, <1>7 DEF StoreToken, GoTo, WriteToken, Fault, broker
  <2>2. accessToken = NoToken /\ token[p] # NoToken
    BY <2>1 DEF BootInv
  <2> QED
    BY <1>1, <1>4, <2>1, <2>2 DEF ReissuesStarting
<1>8. ASSUME TakeToken(p)
      PROVE  /\ issued' = issued
             /\ \/ faults' = faults /\ Reissues' = Reissues
                \/ faults' = faults + 1 /\ Reissues' <= 3
  <2>1. /\ UNCHANGED <<valid, issued, accessToken>> /\ pc[p] = "take"
        /\ pc'[p] \in {"choose", "page"} /\ faults' \in {faults, faults + 1}
    BY <1>1, <1>8 DEF TakeToken, GoTo, Return, Fault, broker
  <2> QED
    BY <1>4, <2>1 DEF ReissuesStarting
<1>9. ASSUME \/ Delivered(p) \/ Unreadable(p) \/ NoAnswer(p) \/ BadStatus(p)
             \/ Refused(p) \/ Rejected(p)
      PROVE  /\ issued' = issued /\ faults' \in {faults, faults + 1} /\ Reissues' = Reissues
  <2>1. /\ UNCHANGED <<valid, issued, accessToken>> /\ pc[p] = "page"
        /\ pc'[p] \in {"choose", "page"} /\ faults' \in {faults, faults + 1}
    BY <1>1, <1>9 DEF Delivered, Unreadable, NoAnswer, BadStatus, Refused, Rejected,
           ReadsNoAccount, NextPage, Break, GoTo, Return, Fault, broker
  <2> QED
    BY <1>4, <2>1 DEF ReissuesStarting
<1>10. ASSUME IssueFails(p)
       PROVE  issued' = issued /\ faults' = faults + 1 /\ Reissues' <= 3
  <2>1. issued' = issued /\ faults' = faults + 1
    BY <1>10 DEF IssueFails, Fault, broker
  <2> QED
    BY <1>4, <2>1 DEF ReissuesStarting
<1>11. /\ issued' \in Nat /\ faults' \in Nat
       /\ \/ faults' = faults /\ issued' + Reissues' <= issued + Reissues
          \/ faults' = faults + 1 /\ issued' + Reissues' <= issued + Reissues + 3
  BY <1>1, <1>4, <1>5, <1>6, <1>7, <1>8, <1>9, <1>10 DEF Thread, Step
<1> QED
  BY <1>1, <1>4, <1>11, Pay DEF Paid
\* When main has chosen, nothing more is due than before.
LEMMA PaidMain ==
    ASSUME IInv, Paid, Main
    PROVE  Paid'
<1>1. /\ UNCHANGED <<accessToken, valid, issued, faults>>
      /\ pc["accounts"] = "choose" /\ pc'["accounts"] \in {"check", "done"}
      /\ \A p \in Polled : pc[p] = "wait" /\ pc'[p] \in {"wait", "idle"}
  BY DEF Main, SetUseAccount, UseAccount, GoTo, broker, IInv, TypeOK, AccountSettled,
     Feeds, Polled
<1>2. Reissues = ReissuesStarting
  BY <1>1, ReissuesBetween
<1>3. Reissues' = ReissuesStarting'
  <2>1. ((\A p \in Polled : pc[p] \in {"wait", "idle"}) => Reissues = ReissuesStarting)'
    BY ReissuesBetween, PTL
  <2> QED
    BY <1>1, <2>1
<1>4. Reissues \in Nat /\ Reissues' \in Nat
  BY <1>2, <1>3 DEF ReissuesStarting
<1>5. Reissues' <= Reissues
  <2>1. NoToken \notin valid
    BY DEF IInv, TypeOK
  <2> QED
    BY <1>1, <1>2, <1>3, <2>1 DEF ReissuesStarting
<1>6. issued \in Nat /\ faults \in Nat
  BY DEF IInv, TypeOK
<1> QED
  BY <1>1, <1>4, <1>5, <1>6, PayUnissued DEF Paid

\* A process that ends takes what was due with it, and the next one asks for one
\* token.
LEMMA PaidProcess ==
    ASSUME IInv, TokensInv, Paid, Terminate \/ Restart
    PROVE  Paid'
<1>1. Reissues' = 1 /\ issued' = issued
  BY DEF Terminate, Restart, FreshProcess, Reissues, broker, Feeds
<1>2. issued \in Nat /\ faults \in Nat /\ Reissues \in Nat
  BY ReissuesNat DEF IInv, TypeOK
<1>3. CASE Terminate
  <2>1. faults' = faults + 1
    BY <1>3 DEF Terminate, Fault
  <2> QED
    BY <1>1, <1>2, <2>1, Pay DEF Paid
<1>4. CASE Restart
  <2>1. faults' = faults /\ Reissues = 1
    BY <1>4 DEF Restart, TokensInv, Reissues
  <2> QED
    BY <1>1, <1>2, <2>1, Pay DEF Paid
<1> QED
  BY <1>3, <1>4

\* A token that expires is in the cache, or in the hands of one poller that is
\* about to store it, or neither.
LEMMA PaidExpire ==
    ASSUME IInv, TokensInv, Paid, Expire
    PROVE  Paid'
<1>1. PICK t \in valid : valid' = valid \ {t}
  BY DEF Expire
<1>2. UNCHANGED <<pc, token, accessToken, issued>> /\ faults' = faults + 1
  BY DEF Expire, Fault, local
<1>3. issued \in Nat /\ faults \in Nat /\ Reissues \in Nat
  BY ReissuesNat DEF IInv, TypeOK
<1>4. Reissues' \in Nat
  <2>1. IInv' /\ (IInv => Reissues \in Nat)'
    <3>1. IInv'
      BY InvStep DEF Next
    <3> QED
      BY <3>1, ReissuesNat, PTL
  <2> QED
    BY <2>1
<1>5. CASE pc["accounts"] # "done"
  <2>1. \A p \in Polled : pc[p] = "wait"
    BY <1>5 DEF IInv, AccountSettled
  <2>2. Reissues' = ReissuesStarting'
    <3>1. ((\A p \in Polled : pc[p] \in {"wait", "idle"}) => Reissues = ReissuesStarting)'
      BY ReissuesBetween, PTL
    <3> QED
      BY <1>2, <2>1, <3>1
  <2>3. Reissues' <= 3
    BY <2>2 DEF ReissuesStarting
  <2>4. Reissues' <= Reissues + 3
    BY <1>3, <1>4, <2>3
  <2> QED
    BY <1>2, <1>3, <1>4, <2>4, PayUnissued DEF Paid
<1>6. CASE pc["accounts"] = "done"
  <2> DEFINE p == "holdings"
             q == "trades"
  <2>1. p \in Polled /\ q \in Polled /\ p # q /\ p \in Feeds /\ q \in Feeds
    BY DEF Polled, Feeds
  <2> HIDE DEF p, q
  <2>2. /\ Spoilt = IF StoresRefused(p) \/ StoresRefused(q) THEN 2
                    ELSE IF CacheRefused \/ Clears(p) \/ Clears(q) THEN 1 ELSE 0
        /\ Reissues = IF accessToken \in valid THEN Due(p) + Due(q) + Spoilt
             ELSE (2 - Count(StoresValid(p)) - Count(StoresValid(q))) + Spoilt
    BY <1>6, <2>1, ReissuesOf DEF InEitherOrder
  <2>3. /\ Spoilt' = IF StoresRefused(p)' \/ StoresRefused(q)' THEN 2
                     ELSE IF CacheRefused' \/ Clears(p)' \/ Clears(q)' THEN 1 ELSE 0
        /\ Reissues' = IF accessToken' \in valid' THEN Due(p)' + Due(q)' + Spoilt'
             ELSE (2 - Count(StoresValid(p)') - Count(StoresValid(q)')) + Spoilt'
    <3>1. InEitherOrder'
      BY ReissuesOf, PTL
    <3> QED
      BY <1>2, <1>6, <2>1, <3>1 DEF InEitherOrder, Count
  <2>4. \A r \in {p, q} :
          /\ StoresValid(r)' <=> StoresValid(r) /\ token[r] # t
          /\ StoresRefused(r)' <=> StoresRefused(r) \/ (pc[r] = "store" /\ token[r] = t)
          /\ Clears(r)' <=> Clears(r) \/ (pc[r] = "page" /\ token[r] = t)
    BY <1>1, <1>2 DEF StoresValid, StoresRefused, Clears
  <2>5. /\ CacheRefused' <=> CacheRefused \/ accessToken = t
        /\ accessToken' \in valid' <=> accessToken \in valid /\ accessToken # t
    <3>1. t # NoToken
      BY <1>1 DEF IInv, TypeOK
    <3> QED
      BY <1>1, <1>2, <3>1 DEF CacheRefused
  <2>6. /\ pc[p] = "store" => accessToken # token[p] /\ token[q] # token[p]
        /\ pc[q] = "store" => accessToken # token[q] /\ token[q] # token[p]
    BY <2>1 DEF TokensInv
  <2>7. \A r \in {p, q} :
          /\ Due(r) = IF pc[r] = "issue" \/ Clears(r) \/ StoresRefused(r) THEN 1 ELSE 0
          /\ Due(r)' = IF pc[r] = "issue" \/ Clears(r)' \/ StoresRefused(r)' THEN 1 ELSE 0
          /\ Count(StoresValid(r)) = IF StoresValid(r) THEN 1 ELSE 0
          /\ Count(StoresValid(r)') = IF StoresValid(r)' THEN 1 ELSE 0
    BY <1>2 DEF Due, Count
  <2>8. Reissues' <= Reissues + 3
    <3>1. CASE accessToken = t
      <4>1. /\ pc[p] = "store" => token[p] # t
            /\ pc[q] = "store" => token[q] # t
        BY <2>6, <3>1
      <4> QED
        BY <1>1, <2>2, <2>3, <2>4, <2>5, <2>7, <3>1, <4>1
    <3>2. CASE accessToken # t /\ accessToken \in valid
      BY <1>1, <2>2, <2>3, <2>4, <2>5, <2>6, <2>7, <3>2
    <3>3. CASE accessToken \notin valid
      <4>1. \A r \in {p, q} : StoresValid(r) => ~StoresRefused(r)
        BY DEF StoresValid, StoresRefused
      <4> QED
        BY <1>1, <2>2, <2>3, <2>4, <2>5, <2>6, <2>7, <3>3, <4>1 DEF StoresValid
    <3> QED
      BY <3>1, <3>2, <3>3
  <2> QED
    BY <1>2, <1>3, <1>4, <2>8, PayUnissued DEF Paid
<1> QED
  BY <1>5, <1>6

LEMMA PaidInit == Init => TokensInv /\ Paid
<1> SUFFICES ASSUME Init PROVE TokensInv /\ Paid
  OBVIOUS
<1>1. Reissues = 1 /\ issued = 0 /\ faults = 0
  BY DEF Init, Reissues, Feeds
<1>2. TokensInv
  BY DEF Init, TokensInv, Feeds
<1> QED
  BY <1>1, <1>2 DEF Paid

LEMMA PaidStep == IInv /\ BootInv /\ TokensInv /\ Paid /\ [Next]_vars => Paid'
<1> SUFFICES ASSUME IInv, BootInv, TokensInv, Paid, [Next]_vars PROVE Paid'
  OBVIOUS
<1>1. CASE \E p \in Feeds : Thread(p)
  BY <1>1, PaidPoller, PaidAccounts DEF Feeds
<1>2. CASE Main \/ Terminate \/ Restart \/ Expire
  BY <1>2, PaidMain, PaidProcess, PaidExpire
<1>3. CASE UNCHANGED vars
  BY <1>3 DEF vars, local, broker, Paid, Reissues, Spoilt, Due, Count, StoresValid,
     StoresRefused, Clears, CacheRefused
<1> QED
  BY <1>1, <1>2, <1>3 DEF Next

\* However the pollers interleave, the tokens the broker issues are one for the
\* start and at most three for each fault: nothing but a fault makes a token
\* necessary, and no race of the pollers on the cache goes on for ever
\* (Login.cpp:23, 107, 112).
THEOREM Reissued == Spec => []ReissuesBounded
<1>1. IInv /\ Paid => ReissuesBounded
  <2> SUFFICES ASSUME IInv, Paid PROVE ReissuesBounded
    OBVIOUS
  <2>1. Reissues \in Nat /\ issued \in Nat /\ faults \in Nat
    BY ReissuesNat DEF IInv, TypeOK
  <2> QED
    BY <2>1 DEF Paid, ReissuesBounded
<1> QED
  BY <1>1, InvInit, InvStep, BootInit, BootStep, PaidInit, TokensStep, PaidStep, PTL DEF Spec
=============================================================================
