------------------------------ MODULE Account ------------------------------
(***************************************************************************)
(* The broker inquiries of TradingCore: Trade/Account.cpp with the token   *)
(* cache of Login.cpp and the start-up order of main.cpp.                  *)
(*                                                                         *)
(* Three inquiries page through the broker's REST API.  main runs          *)
(* "accounts" once, then "holdings" once; StreamingServer then keeps one   *)
(* polling thread on "holdings" and one on "trades".  All of them share    *)
(* Login::accessToken, a static std::string that no lock protects, and     *)
(* each replaces the snapshot it owns under that snapshot's own mutex.     *)
(*                                                                         *)
(* A page stands for the items it carries.  The prices inside an item are  *)
(* not modelled here.                                                      *)
(***************************************************************************)
EXTENDS Integers

CONSTANTS
    Pages,             \* pages the broker holds for every inquiry
    MaxPages,          \* page limit of the holdings and trades loops (100)
    MaxAccountPages,   \* page limit of the accounts loop (50)
    ConfigAccount,     \* Config::accountNum; account a is listed on page a
    Framings,          \* what may surround a header value on the wire
    Faults,            \* the kinds of fault the environment may produce
    MaxFaults,         \* how many faults a behaviour may contain
    Garbage            \* a non-empty string that no token equals

Polled == {"holdings", "trades"}
Feeds  == {"accounts"} \cup Polled

NoToken   == 0         \* the empty accessToken
NoAccount == 0         \* the empty currentAccountNumber

FaultKinds == {"noanswer", "status", "refused", "unreadable", "exception",
               "issue", "torn", "expiry", "kill"}

ASSUME ConstantsAssumption ==
    /\ Pages \in Nat \ {0}
    /\ MaxPages \in Nat \ {0}
    /\ MaxAccountPages \in Nat \ {0}
    /\ ConfigAccount \in Nat \ {0}
    /\ Faults \subseteq FaultKinds
    /\ MaxFaults \in Nat
    /\ Garbage \notin Nat

VARIABLES
    pc,        \* where each inquiry is
    token,     \* its local copy of the token
    page,      \* the page it asks for
    gathered,  \* pages read so far: localHoldings, localTrades, accounts
    cut,       \* history: this inquiry lost the answer to a page
    published, \* pages in the shared holdings and tradeHistory
    accessToken,           \* Login::accessToken
    raced,     \* threads whose write to accessToken another one overlapped
    currentAccountNumber,
    attempt,   \* which of SetUseAccount's two account inquiries runs
    alive,     \* the process has not terminated
    valid,     \* tokens the broker accepts
    issued,    \* tokens the broker has issued
    framing,   \* what the broker puts around a header value
    faults     \* faults so far

local  == <<pc, token, page, gathered, cut>>
boot   == <<currentAccountNumber, attempt>>
broker == <<valid, issued, framing>>
vars   == <<local, published, accessToken, raced, boot, alive, broker, faults>>

PC == {"wait", "idle", "check", "issue", "store", "take", "page", "clear",
       "publish", "choose", "done"}

Tokens == Nat \cup {Garbage}

-----------------------------------------------------------------------------
(* Reading the continuation header.                                        *)

\* What Convert::GetJsonData leaves of "cont-yn:<before><v><after>": it cuts
\* at the colon and trims nothing.
HeaderValue(v) == <<framing.before, v, framing.after>>

\* The loops compare that value with the bare "Y".
SaysContinue(v) == HeaderValue(v) = <<"", "Y", "">>

\* The broker sets cont-yn on every page but the last.
ContYn(n) == IF n < Pages THEN "Y" ELSE "N"

PageLimit(p) == IF p = "accounts" THEN MaxAccountPages ELSE MaxPages

Continues(p) == SaysContinue(ContYn(page[p])) /\ page[p] < PageLimit(p)

-----------------------------------------------------------------------------
(* Faults and control transfers.                                           *)

Fault(kind) ==
    /\ kind \in Faults
    /\ faults < MaxFaults
    /\ faults' = faults + 1

\* Threads that are inside an assignment to accessToken.
Writing == {p \in Feeds : pc[p] \in {"store", "clear"}}

GoTo(p, label) == pc' = [pc EXCEPT ![p] = label]

\* "return" from a polled inquiry: its locals die.  The first return of
\* RefreshCurrentHoldings lets main start the server, and with it the trade
\* poller.  SetUseAccount goes on after its inquiry.
Return(p) ==
    /\ pc' = [q \in Feeds |->
                 IF q = p THEN IF p = "accounts" THEN "choose" ELSE "idle"
                 ELSE IF p = "holdings" /\ pc[q] = "wait" THEN "idle" ELSE pc[q]]
    /\ token' = [token EXCEPT ![p] = NoToken]
    /\ page' = [page EXCEPT ![p] = 1]
    /\ gathered' = [gathered EXCEPT ![p] = IF p = "accounts" THEN @ ELSE {}]
    /\ cut' = [cut EXCEPT ![p] = FALSE]

\* "break" out of the page loop: the polled inquiries go on to their swap.
Break(p) == GoTo(p, IF p = "accounts" THEN "choose" ELSE "publish")

\* The end of one iteration: the next page, or out of the loop.
NextPage(p) ==
    IF Continues(p)
    THEN /\ GoTo(p, "page")
         /\ page' = [page EXCEPT ![p] = @ + 1]
    ELSE /\ Break(p)
         /\ UNCHANGED page

Loses(p) == cut' = [cut EXCEPT ![p] = TRUE]

\* The account inquiry never looks at return_code.  It finds no account in the
\* body of an error and goes on as the header says; an error may come without
\* the header, which reads as no further page.
ReadsNoAccount(p) ==
    /\ Loses(p)
    /\ NextPage(p) \/ (Break(p) /\ UNCHANGED page)

-----------------------------------------------------------------------------
(* Initial state: main has called SetUseAccount and nothing has answered.  *)

Init ==
    /\ pc = [p \in Feeds |-> IF p = "accounts" THEN "check" ELSE "wait"]
    /\ token = [p \in Feeds |-> NoToken]
    /\ page = [p \in Feeds |-> 1]
    /\ gathered = [p \in Feeds |-> {}]
    /\ cut = [p \in Feeds |-> FALSE]
    /\ published = [p \in Polled |-> {}]
    /\ accessToken = NoToken
    /\ raced = {}
    /\ currentAccountNumber = NoAccount
    /\ attempt = 1
    /\ alive = TRUE
    /\ valid = {}
    /\ issued = 0
    /\ framing \in Framings
    /\ faults = 0

-----------------------------------------------------------------------------
(* The start of an inquiry and the token cache.                            *)

\* Mutant: the test of currentAccountNumber is missing.
BeginAnyway(p) ==
    /\ pc[p] = "idle"
    /\ GoTo(p, "check")
    /\ UNCHANGED <<token, page, gathered, cut, published, accessToken, raced,
                   boot, alive, broker, faults>>

\* An inquiry begins: main's first one, or the next round of a poller.  The
\* guard is the test of currentAccountNumber.
Begin(p) ==
    /\ pc[p] = "idle"
    /\ currentAccountNumber # NoAccount
    /\ GoTo(p, "check")
    /\ UNCHANGED <<token, page, gathered, cut, published, accessToken, raced,
                   boot, alive, broker, faults>>

\* Without an account the round is over at once.
SkipWithoutAccount(p) ==
    /\ pc[p] = "idle"
    /\ currentAccountNumber = NoAccount
    /\ Return(p)
    /\ UNCHANGED <<published, accessToken, raced, boot, alive, broker, faults>>

\* GetAccessToken tests whether a token is cached ...
CheckToken(p) ==
    /\ pc[p] = "check"
    /\ GoTo(p, IF accessToken # NoToken THEN "take" ELSE "issue")
    /\ UNCHANGED <<token, page, gathered, cut, published, accessToken, raced,
                   boot, alive, broker, faults>>

\* ... if none is, asks the broker for one ...
IssueToken(p) ==
    /\ pc[p] = "issue"
    /\ issued' = issued + 1
    /\ valid' = valid \cup {issued'}
    /\ token' = [token EXCEPT ![p] = issued']
    /\ GoTo(p, "store")
    /\ UNCHANGED <<page, gathered, cut, published, accessToken, raced, boot,
                   alive, framing, faults>>

\* (no answer, or one without a token, leaves the cache alone; without a curl
\* handle it returns the empty string)
IssueFails(p) ==
    /\ pc[p] = "issue"
    /\ Fault("issue")
    /\ \/ /\ GoTo(p, "take")
          /\ UNCHANGED <<token, page, gathered, cut>>
       \/ Return(p)
    /\ UNCHANGED <<published, accessToken, raced, boot, alive, broker>>

\* An assignment to accessToken.  The writers it overlaps may leave the string
\* torn when they finish in their turn.
WriteToken(p, value) ==
    /\ \/ accessToken' = value /\ UNCHANGED faults
       \/ p \in raced /\ Fault("torn") /\ accessToken' = Garbage
    /\ raced' = (raced \cup Writing) \ {p}

\* Mutant: the token is returned but not kept.
StoreNothing(p) ==
    /\ pc[p] = "store"
    /\ WriteToken(p, accessToken)
    /\ GoTo(p, "page")
    /\ UNCHANGED <<token, page, gathered, cut, published, boot, alive, broker>>

\* ... stores what the broker sent ...
StoreToken(p) ==
    /\ pc[p] = "store"
    /\ WriteToken(p, token[p])
    /\ GoTo(p, "take")
    /\ UNCHANGED <<token, page, gathered, cut, published, boot, alive, broker>>

\* Mutant: the caller does not look whether the copy is empty.
TakeAnyToken(p) ==
    /\ pc[p] = "take"
    /\ token' = [token EXCEPT ![p] = accessToken]
    /\ GoTo(p, "page")
    /\ UNCHANGED <<page, gathered, cut, faults, published, accessToken, raced,
                   boot, alive, broker>>

\* ... and returns a copy of what the cache holds by now, which another thread
\* may have cleared or replaced, or be writing.
TakeToken(p) ==
    /\ pc[p] = "take"
    /\ \/ /\ accessToken = NoToken
          /\ Return(p)
          /\ UNCHANGED faults
       \/ /\ accessToken # NoToken
          /\ token' = [token EXCEPT ![p] = accessToken]
          /\ GoTo(p, "page")
          /\ UNCHANGED <<page, gathered, cut, faults>>
       \/ /\ Writing # {} /\ Fault("torn")
          /\ token' = [token EXCEPT ![p] = Garbage]
          /\ GoTo(p, "page")
          /\ UNCHANGED <<page, gathered, cut>>
    /\ UNCHANGED <<published, accessToken, raced, boot, alive, broker>>

-----------------------------------------------------------------------------
(* What becomes of the request for one page.                               *)

\* The answer is in order: its items are gathered.
Delivered(p) ==
    /\ pc[p] = "page"
    /\ token[p] \in valid
    /\ gathered' = [gathered EXCEPT ![p] = @ \cup {page[p]}]
    /\ NextPage(p)
    /\ UNCHANGED <<token, cut, published, accessToken, raced, boot, alive,
                   broker, faults>>

\* The body is empty or does not parse: it is logged, and the loop goes on as
\* the header says.
Unreadable(p) ==
    /\ pc[p] = "page"
    /\ Fault("unreadable")
    /\ Loses(p)
    /\ NextPage(p)
    /\ UNCHANGED <<token, gathered, published, accessToken, raced, boot, alive,
                   broker>>

\* No curl handle, or no answer: out of the loop with what has been gathered.
NoAnswer(p) ==
    /\ pc[p] = "page"
    /\ Fault("noanswer")
    /\ Loses(p)
    /\ Break(p)
    /\ UNCHANGED <<token, page, gathered, published, accessToken, raced, boot,
                   alive, broker>>

\* Mutant: "break" where the polled inquiries return.
BadStatusBreaks(p) ==
    /\ pc[p] = "page"
    /\ Fault("status")
    /\ Break(p)
    /\ UNCHANGED <<token, page, gathered, cut, published, accessToken, raced,
                   boot, alive, broker>>

\* A status other than 200: the polled inquiries return and keep what is
\* published, the account inquiry breaks.
BadStatus(p) ==
    /\ pc[p] = "page"
    /\ Fault("status")
    /\ IF p = "accounts"
       THEN Loses(p) /\ Break(p) /\ UNCHANGED <<token, page, gathered>>
       ELSE Return(p)
    /\ UNCHANGED <<published, accessToken, raced, boot, alive, broker>>

\* A return_code other than 0 and 3: the polled inquiries return.
Refused(p) ==
    /\ pc[p] = "page"
    /\ Fault("refused")
    /\ IF p = "accounts"
       THEN ReadsNoAccount(p) /\ UNCHANGED <<token, gathered>>
       ELSE Return(p)
    /\ UNCHANGED <<published, accessToken, raced, boot, alive, broker>>

\* Mutant: return_code 3 is treated as any other.
RejectedKeepsToken(p) ==
    /\ pc[p] = "page"
    /\ token[p] \notin valid
    /\ IF p = "accounts" THEN ReadsNoAccount(p) /\ UNCHANGED <<token, gathered>>
                         ELSE Return(p)
    /\ UNCHANGED <<published, accessToken, raced, boot, alive, broker, faults>>

\* return_code 3, the token is not accepted: the polled inquiries clear the
\* cache, whatever it holds by then.
Rejected(p) ==
    /\ pc[p] = "page"
    /\ token[p] \notin valid
    /\ IF p = "accounts" THEN ReadsNoAccount(p)
                         ELSE UNCHANGED <<cut, page>> /\ GoTo(p, "clear")
    /\ UNCHANGED <<token, gathered, published, accessToken, raced, boot, alive,
                   broker, faults>>

\* ClearAccessToken, and the return after it.
ClearAccessToken(p) ==
    /\ pc[p] = "clear"
    /\ WriteToken(p, NoToken)
    /\ Return(p)
    /\ UNCHANGED <<published, boot, alive, broker>>

\* The gathered items replace the snapshot under its mutex.
Publish(p) ==
    /\ pc[p] = "publish"
    /\ published' = [published EXCEPT ![p] = gathered[p]]
    /\ Return(p)
    /\ UNCHANGED <<accessToken, raced, boot, alive, broker, faults>>

-----------------------------------------------------------------------------
(* SetUseAccount, after the account inquiry it made through HasAccount.    *)

Listed == gathered["accounts"]

\* main goes on to RefreshCurrentHoldings with account a.
UseAccount(a) ==
    /\ currentAccountNumber' = a
    /\ pc' = [pc EXCEPT !["accounts"] = "done", !["holdings"] = "idle"]
    /\ UNCHANGED attempt

\* *accounts.begin() of the ordered set
IsFirstListed(a) == a \in Listed /\ \A b \in Listed : a <= b

\* Mutant: the inquiry is repeated until it lists an account.
SetUseAccountForever ==
    /\ pc["accounts"] = "choose"
    /\ \/ \E a \in Listed :
            /\ a = ConfigAccount \/ (ConfigAccount \notin Listed /\ IsFirstListed(a))
            /\ UseAccount(a)
       \/ /\ Listed = {}
          /\ attempt' = attempt + 1
          /\ GoTo("accounts", "check")
          /\ UNCHANGED currentAccountNumber
    /\ token' = [token EXCEPT !["accounts"] = NoToken]
    /\ page' = [page EXCEPT !["accounts"] = 1]
    /\ UNCHANGED <<gathered, cut, published, accessToken, raced, alive, broker,
                   faults>>

\* Mutant: no second inquiry.
SetUseAccountOnce ==
    /\ pc["accounts"] = "choose"
    /\ \/ \E a \in Listed :
            /\ a = ConfigAccount \/ (ConfigAccount \notin Listed /\ IsFirstListed(a))
            /\ UseAccount(a)
       \/ Listed = {} /\ UseAccount(NoAccount)
    /\ token' = [token EXCEPT !["accounts"] = NoToken]
    /\ page' = [page EXCEPT !["accounts"] = 1]
    /\ UNCHANGED <<gathered, cut, published, accessToken, raced, alive, broker,
                   faults>>

\* The configured account if it is listed, else the first one.  With none
\* listed GetAllAccountNumbers runs once more, and after that main goes on
\* without an account: no later step sets one.
SetUseAccount ==
    /\ pc["accounts"] = "choose"
    /\ \/ /\ ConfigAccount \in Listed
          /\ UseAccount(ConfigAccount)
       \/ /\ ConfigAccount \notin Listed
          /\ \E a \in Listed : IsFirstListed(a) /\ UseAccount(a)
       \/ /\ Listed = {} /\ attempt = 2
          /\ UseAccount(NoAccount)
       \/ /\ Listed = {} /\ attempt = 1
          /\ attempt' = 2
          /\ GoTo("accounts", "check")
          /\ UNCHANGED currentAccountNumber
    /\ token' = [token EXCEPT !["accounts"] = NoToken]
    /\ page' = [page EXCEPT !["accounts"] = 1]
    /\ UNCHANGED <<gathered, cut, published, accessToken, raced, alive, broker,
                   faults>>

-----------------------------------------------------------------------------
(* The process and the broker.                                             *)

\* The static variables and the locals as a new process finds them.
FreshProcess ==
    /\ pc' = [p \in Feeds |-> IF p = "accounts" THEN "check" ELSE "wait"]
    /\ token' = [p \in Feeds |-> NoToken]
    /\ page' = [p \in Feeds |-> 1]
    /\ gathered' = [p \in Feeds |-> {}]
    /\ cut' = [p \in Feeds |-> FALSE]
    /\ published' = [p \in Polled |-> {}]
    /\ accessToken' = NoToken
    /\ raced' = {}
    /\ currentAccountNumber' = NoAccount
    /\ attempt' = 1

\* The process ends: stop.sh kills it; an exception other than a parse_error
\* leaves a thread (std::stoll of an item, a field of another JSON type); or
\* threads that race on accessToken free its buffer twice or read it freed.
Terminate ==
    /\ alive
    /\ \/ Fault("kill")
       \/ (\E p \in Feeds : pc[p] \in {"issue", "page"}) /\ Fault("exception")
       \/ (raced \cap Writing # {}) /\ Fault("torn")
       \/ (Writing # {} /\ \E p \in Feeds : pc[p] = "take") /\ Fault("torn")
    /\ alive' = FALSE
    /\ FreshProcess
    /\ UNCHANGED broker

\* run.sh starts a new process.
Restart ==
    /\ ~alive
    /\ alive' = TRUE
    /\ FreshProcess
    /\ UNCHANGED <<broker, faults>>

\* The broker stops accepting one of its tokens.
Expire ==
    /\ Fault("expiry")
    /\ \E t \in valid : valid' = valid \ {t}
    /\ UNCHANGED <<local, published, accessToken, raced, boot, alive, issued,
                   framing>>

-----------------------------------------------------------------------------
(* The specification.                                                      *)

\* A step of the thread that runs inquiry p.
Step(p) ==
    /\ alive
    /\ \/ CheckToken(p) \/ IssueToken(p) \/ IssueFails(p) \/ StoreToken(p)
       \/ TakeToken(p) \/ Delivered(p) \/ Unreadable(p) \/ NoAnswer(p)
       \/ BadStatus(p) \/ Refused(p) \/ Rejected(p)

\* What only the polled inquiries do.
PollStep(p) ==
    /\ alive
    /\ Begin(p) \/ SkipWithoutAccount(p) \/ ClearAccessToken(p) \/ Publish(p)

Thread(p) == Step(p) \/ (p \in Polled /\ PollStep(p))

Main == alive /\ SetUseAccount

Next ==
    \/ \E p \in Feeds : Thread(p)
    \/ Main
    \/ Terminate
    \/ Restart
    \/ Expire

Spec == Init /\ [][Next]_vars

\* A thread that can go on does: the operating system schedules it, and a call
\* to the broker ends with an answer or an error.  Nothing makes a fault
\* happen, and nobody is obliged to restart the process.
FairSpec == Spec /\ WF_vars(Main) /\ \A p \in Feeds : WF_vars(Thread(p))

-----------------------------------------------------------------------------
(* Properties.                                                             *)

TypeOK ==
    /\ pc \in [Feeds -> PC]
    /\ token \in [Feeds -> Tokens]
    /\ page \in [Feeds -> 1..Pages]
    /\ gathered \in [Feeds -> SUBSET (1..Pages)]
    /\ cut \in [Feeds -> BOOLEAN]
    /\ published \in [Polled -> SUBSET (1..Pages)]
    /\ accessToken \in Tokens
    /\ raced \subseteq Feeds
    /\ currentAccountNumber \in {NoAccount} \cup 1..Pages
    /\ attempt \in {1, 2}
    /\ alive \in BOOLEAN
    /\ valid \subseteq 1..issued
    /\ issued \in Nat
    /\ framing \in Framings
    /\ faults \in Nat

\* The last page the loop of inquiry p asks for when every answer is in order:
\* it goes on past the first page only if the header reads "Y".
LastPage(p) ==
    IF ~SaysContinue("Y") THEN 1
    ELSE IF Pages < PageLimit(p) THEN Pages ELSE PageLimit(p)

Reachable(p) == 1..LastPage(p)

\* A request never goes out with an empty token, although the cache may be
\* cleared by the other poller between the test in GetAccessToken and the copy
\* it returns (Login.cpp:23, 107; the guard is Account.cpp:467).
RequestCarriesToken ==
    \A p \in Feeds : pc[p] = "page" => token[p] # NoToken

\* Data is asked for and published only for an account that the broker listed
\* to this process, and for the configured one whenever it was listed
\* (Account.cpp:414, 457, 869).
DataOfChosenAccount ==
    \A p \in Polled :
        published[p] # {} \/ pc[p] \notin {"wait", "idle"} =>
            /\ currentAccountNumber \in Listed
            /\ ConfigAccount \in Listed => currentAccountNumber = ConfigAccount

\* A snapshot only changes by an inquiry that read every page the headers led
\* it to, or by one that lost the answer to a page: a status, a refusal or a
\* rejection on any page, however many were read before it, leaves the
\* published data alone (Account.cpp:550-558, 594-609).
IntactInquiriesPublishAll ==
    [][\A p \in Polled :
         alive /\ alive' /\ published'[p] # published[p] /\ ~cut[p]
            => published'[p] = Reachable(p)]_vars

\* However the two pollers interleave, the broker issues at most this many
\* tokens: one for each start, and for each token that expires or is torn a
\* number that does not depend on how often the pollers run.
ReissuesBounded == issued <= 1 + 3 * faults

\* A single failed account inquiry does not leave the process without an
\* account, since SetUseAccount makes a second one: main goes on without one
\* only after two faults, or with a token in the cache that the broker no longer
\* accepts, which the account inquiry never clears (Account.cpp:414, 426).
BootSurvivesOneFault ==
    pc["accounts"] = "done" /\ currentAccountNumber = NoAccount =>
        faults >= 2 \/ accessToken \notin valid \cup {NoToken}

\* Once faults cease, a process that found an account serves what it can reach.
Recovers ==
    <>[](alive /\ currentAccountNumber # NoAccount =>
            \A p \in Polled : published[p] = Reachable(p))

\* Everything the broker holds is published, up to the page limit: the loops
\* are to end when "there is no more data" (comment, Account.cpp:393).
EverythingIsRead ==
    \A p \in Polled :
        published[p] # {} =>
            \A n \in 1..Pages : n <= PageLimit(p) => n \in published[p]

\* A failed inquiry keeps the data of the one before (comment,
\* Account.cpp:558).
FailedInquiryKeepsData ==
    [][\A p \in Polled :
         alive /\ alive' /\ cut[p] => published[p] \subseteq published'[p]]_vars
=============================================================================
