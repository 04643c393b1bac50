--------------------------- MODULE CryptoWallets ---------------------------
(***************************************************************************)
(* USDCService, the job that gives a verified user a crypto account,       *)
(* WebhooksService, and the naira account WalletsService asks a bank for.  *)
(* Wallets, wallet sets and payments live at a provider outside; the       *)
(* backend keeps rows that name them and learns of payments by             *)
(* notifications, which the provider repeats until one is answered and     *)
(* which may overtake each other.  One action is what the code does        *)
(* between two waits.                                                      *)
(***************************************************************************)
EXTENDS Naturals, Sequences, FiniteSets

CONSTANTS
    Users,
    Requests,       \* HTTP requests, for an address, a transfer or a naira account
    SignUps,        \* calls of verifyEmail
    Worker,         \* the worker of queue "create-crypto-account"
    Outside,        \* payments made elsewhere
    Deliveries,     \* webhook calls; a row inserted by one has its name
    Limit,          \* accounts a wallet set is meant to hold, 10_000 in the code
    MaxWallets,     \* bound on the wallets the provider makes
    MaxRestarts,    \* bound on the times the process ends
    Casts,          \* bound: who and which faults take part in a behaviour together
    Nothing

\* Where a request begins: GET create-crypto-address, POST transfer-coin,
\* GET virtual-account.
Asks == {"start", "wallet", "naira"}

\* What may go wrong by itself: a call of the service, the provider's answer to
\* it, the handling of a webhook call.
Faults == {"call", "answer", "delivery"}

\* A payment at the provider, between wallets; 0 is a wallet elsewhere.
Payment == [from : Nat, to : Nat, state : {"SENT", "COMPLETE"}]

ASSUME CryptoAssumption ==
    /\ Worker \notin Requests /\ Nothing \notin Users \cup Payment
    /\ Requests \cap Outside = {} /\ Nothing \notin Requests \cup Outside
    /\ \A c \in Casts : c \in [users : SUBSET Users, signsUp : [SignUps -> Users],
                             requests : SUBSET Requests, outside : SUBSET Outside,
                             asks : SUBSET Asks, faults : SUBSET Faults]
    /\ Limit \in Nat \ {0} /\ MaxWallets \in Nat /\ MaxRestarts \in Nat

VARIABLES
    cast,
    sets,           \* rows of walletsets, in the order saved
    accounts,       \* rows of crypto-accounts, in the order saved
    jobs,           \* each call of verifyEmail, and the job it adds
    task,           \* calls of the service under way
    wallets,        \* the wallets the provider has made are 1 .. wallets
    mislaid,        \* history: wallets no row will ever name
    payments,       \* payments at the provider
    notices,        \* notifications not answered yet
    delivery,       \* webhook calls
    rows,           \* rows of transactions made by notifications
    naira,          \* rows of fiat-accounts, in the order saved
    restarts

creation == <<cast, sets, accounts, jobs, wallets, mislaid>>
payment  == <<payments, notices, delivery, rows>>
cvars    == <<creation, task, payment, naira, restarts>>

Tasks == Requests \cup {Worker}
Idle  == [pc |-> "idle", user |-> Nothing, set |-> 0, wallet |-> 0, knew |-> 0]

Notice == [pay : Requests \cup Outside, dir : {"out", "in"}, state : {"SENT", "COMPLETE"}]

Running == {"start", "count", "newset", "find", "mint", "save", "wallet", "submit",
            "naira", "bank", "open"}
Handling == {"start", "second", "record"}

At(t, label)   == task[t].pc = label
Goto(t, label) == task' = [task EXCEPT ![t].pc = label]

Init ==
    /\ cast \in Casts
    /\ sets = <<>> /\ accounts = <<>>
    /\ jobs = [v \in SignUps |-> "none"]
    /\ task = [t \in Tasks |-> Idle]
    /\ wallets = 0 /\ mislaid = {}
    /\ payments = [p \in Requests \cup Outside |-> Nothing]
    /\ notices = {}
    /\ delivery = [d \in Deliveries |-> [pc |-> "idle", notice |-> Nothing, user |-> Nothing]]
    /\ rows = {} /\ naira = <<>>
    /\ restarts = 0

\* A request of a session's user.
Begin(r, u, label) ==
    /\ At(r, "idle")
    /\ task' = [task EXCEPT ![r] = [Idle EXCEPT !.pc = label, !.user = u]]
    /\ UNCHANGED <<creation, payment, naira, restarts>>
-----------------------------------------------------------------------------
(* the sign-up job *)

\* The user who signs up by a call of verifyEmail.
By(v) == cast.signsUp[v]

\* verifyEmail finds the user, not verified yet, and the code right ...
CheckOtp(v) ==
    /\ jobs[v] = "none"
    /\ \A x \in SignUps : By(x) = By(v) => jobs[x] \in {"none", "checked"}
    /\ jobs' = [jobs EXCEPT ![v] = "checked"]
    /\ UNCHANGED <<cast, sets, accounts, wallets, mislaid, task, payment, naira, restarts>>

\* ... saves it, as another call that has checked may too ...
Verify(v) ==
    /\ jobs[v] = "checked"
    /\ jobs' = [jobs EXCEPT ![v] = "verified"]
    /\ UNCHANGED <<cast, sets, accounts, wallets, mislaid, task, payment, naira, restarts>>

\* ... and adds the job.
Enqueue(v) ==
    /\ jobs[v] = "verified"
    /\ jobs' = [jobs EXCEPT ![v] = "queued"]
    /\ UNCHANGED <<cast, sets, accounts, wallets, mislaid, task, payment, naira, restarts>>

\* The worker takes one job at a time.
TakeJob(v) ==
    /\ At(Worker, "idle")
    /\ jobs[v] = "queued"
    /\ jobs' = [jobs EXCEPT ![v] = "running"]
    /\ task' = [task EXCEPT ![Worker] = [Idle EXCEPT !.pc = "start", !.user = By(v)]]
    /\ UNCHANGED <<cast, sets, accounts, wallets, mislaid, payment, naira, restarts>>

\* How the service's part of a job ends; "unnamed" is a success too, of a call
\* whose answer named no wallet.
Outcomes == {"done", "unnamed", "failed"}

\* A job that fails is not tried again.
EndJob(outcome) ==
    /\ At(Worker, outcome)
    /\ jobs' = [v \in SignUps |-> IF jobs[v] = "running" THEN outcome ELSE jobs[v]]
    /\ task' = [task EXCEPT ![Worker] = Idle]
    /\ UNCHANGED <<cast, sets, accounts, wallets, mislaid, payment, naira, restarts>>
-----------------------------------------------------------------------------
(* createWalletSet *)

Active == {s \in DOMAIN sets : sets[s].active}

\* A set is named by the backend; an account bears the name the provider
\* gives its wallet, which was asked for without one.
NameOf(s) == <<"STP", s>>
ProviderName == <<>>
Counted(s) == Cardinality({i \in DOMAIN accounts : accounts[i].name = NameOf(s)})

\* Any set that is active is found; knew is history: the rows there were.
FindSet(t) ==
    /\ At(t, "start")
    /\ \/ \E s \in Active :
             task' = [task EXCEPT ![t] = [@ EXCEPT !.pc = "count", !.set = s]]
       \/ /\ Active = {}
          /\ task' = [task EXCEPT ![t] = [@ EXCEPT !.pc = "newset", !.knew = Len(sets)]]
    /\ UNCHANGED <<creation, payment, naira, restarts>>

\* A full set is retired before another is made.
CountAccounts(t) ==
    /\ At(t, "count")
    /\ IF Counted(task[t].set) < Limit THEN Goto(t, "find") /\ UNCHANGED sets
       ELSE /\ sets' = [sets EXCEPT ![task[t].set].active = FALSE]
            /\ task' = [task EXCEPT ![t] = [@ EXCEPT !.pc = "newset", !.knew = Len(sets)]]
    /\ UNCHANGED <<cast, accounts, jobs, wallets, mislaid, payment, naira, restarts>>

\* The provider makes the set, and it is saved.
SaveSet(t) ==
    /\ At(t, "newset")
    /\ sets' = Append(sets, [active |-> TRUE, knew |-> task[t].knew])
    /\ task' = [task EXCEPT ![t] = [@ EXCEPT !.pc = "find", !.set = Len(sets) + 1]]
    /\ UNCHANGED <<cast, accounts, jobs, wallets, mislaid, payment, naira, restarts>>
-----------------------------------------------------------------------------
(* createWalletForUser *)

OwnAccounts(u) == {i \in DOMAIN accounts : accounts[i].user = u}

\* Mutant of FindAccount: the user is not looked up.
FindAccount_Always(t) ==
    /\ At(t, "find")
    /\ task' = [task EXCEPT ![t] = [@ EXCEPT !.pc = "mint", !.knew = Len(accounts)]]
    /\ UNCHANGED <<creation, payment, naira, restarts>>

FindAccount(t) ==
    /\ At(t, "find")
    /\ task' = [task EXCEPT ![t] =
                  [@ EXCEPT !.pc = IF OwnAccounts(task[t].user) = {} THEN "mint" ELSE "done",
                            !.knew = Len(accounts)]]
    /\ UNCHANGED <<creation, payment, naira, restarts>>

\* The provider makes a wallet in the set.
Mint(t) ==
    /\ At(t, "mint")
    /\ wallets < MaxWallets
    /\ wallets' = wallets + 1
    /\ task' = [task EXCEPT ![t] = [@ EXCEPT !.pc = "save", !.wallet = wallets + 1]]
    /\ UNCHANGED <<cast, sets, accounts, jobs, mislaid, payment, naira, restarts>>

\* Its answer holds no data: nothing is saved, the call succeeds all the same,
\* and the wallet, which may have been made, is named by no one.
MintUnnamed(t) ==
    /\ "answer" \in cast.faults
    /\ At(t, "mint")
    /\ wallets < MaxWallets
    /\ wallets' = wallets + 1
    /\ mislaid' = mislaid \cup {wallets + 1}
    /\ Goto(t, "unnamed")
    /\ UNCHANGED <<cast, sets, accounts, jobs, payment, naira, restarts>>

\* Mutant of SaveAccount: what another call has stored meanwhile is kept.
SaveAccount_FirstWins(t) ==
    /\ At(t, "save")
    /\ accounts' = IF OwnAccounts(task[t].user) # {} THEN accounts
                   ELSE Append(accounts, [user |-> task[t].user, set |-> task[t].set,
                          wallet |-> task[t].wallet, name |-> ProviderName, knew |-> task[t].knew])
    /\ Goto(t, "done")
    /\ UNCHANGED <<cast, sets, jobs, wallets, mislaid, payment, naira, restarts>>

SaveAccount(t) ==
    /\ At(t, "save")
    /\ accounts' = Append(accounts, [user |-> task[t].user, set |-> task[t].set,
                          wallet |-> task[t].wallet, name |-> ProviderName, knew |-> task[t].knew])
    /\ Goto(t, "done")
    /\ UNCHANGED <<cast, sets, jobs, wallets, mislaid, payment, naira, restarts>>

InHand(t) == IF At(t, "save") THEN {task[t].wallet} ELSE {}

\* The database or the provider fails, or refuses: too little money, no pin
\* or a wrong one.
FailTask(t) ==
    /\ "call" \in cast.faults
    /\ task[t].pc \in Running
    /\ Goto(t, "failed")
    /\ mislaid' = mislaid \cup InHand(t)
    /\ UNCHANGED <<cast, sets, accounts, jobs, wallets, payment, naira, restarts>>
-----------------------------------------------------------------------------
(* createCryptoTransaction *)

AccountOf(w) == {i \in DOMAIN accounts : accounts[i].wallet = w}

\* userWalletBalance: any account of the user, and what the provider says of it.
ReadBalance(r) ==
    /\ At(r, "wallet")
    /\ \/ \E i \in OwnAccounts(task[r].user) :
             task' = [task EXCEPT ![r] = [@ EXCEPT !.pc = "submit", !.wallet = accounts[i].wallet]]
       \/ OwnAccounts(task[r].user) = {} /\ Goto(r, "failed")
    /\ UNCHANGED <<creation, payment, naira, restarts>>

\* The provider tells both ends of a payment that are wallets of its own.
NoticesOf(p, from, to, state) ==
    {n \in Notice : /\ n.pay = p /\ n.state = state
                    /\ n.dir = "out" => from # 0
                    /\ n.dir = "in" => to # 0}

\* The balance suffices and the pin is right: the provider is asked to pay.
Submit(r, to) ==
    /\ At(r, "submit")
    /\ to # task[r].wallet
    /\ payments' = [payments EXCEPT ![r] = [from |-> task[r].wallet, to |-> to, state |-> "SENT"]]
    /\ notices' = notices \cup NoticesOf(r, task[r].wallet, to, "SENT")
    /\ Goto(r, "done")
    /\ UNCHANGED <<creation, delivery, rows, naira, restarts>>

\* A stranger pays to a wallet of the provider, or a wallet is paid from at
\* the provider's own console.
PayElsewhere(p, from, to) ==
    /\ payments[p] = Nothing
    /\ from # to
    /\ payments' = [payments EXCEPT ![p] = [from |-> from, to |-> to, state |-> "SENT"]]
    /\ notices' = notices \cup NoticesOf(p, from, to, "SENT")
    /\ UNCHANGED <<creation, task, delivery, rows, naira, restarts>>

Complete(p) ==
    /\ payments[p] # Nothing
    /\ payments[p].state = "SENT"
    /\ payments' = [payments EXCEPT ![p].state = "COMPLETE"]
    /\ notices' = notices \cup NoticesOf(p, payments[p].from, payments[p].to, "COMPLETE")
    /\ UNCHANGED <<creation, task, delivery, rows, naira, restarts>>
-----------------------------------------------------------------------------
(* createVirtualAccount *)

\* A user who has an account is refused; knew is history: the rows there were.
FindNaira(r) ==
    /\ At(r, "naira")
    /\ task' = [task EXCEPT ![r] =
                  [@ EXCEPT !.pc = IF \E i \in DOMAIN naira : naira[i].user = task[r].user
                                   THEN "failed" ELSE "bank",
                            !.knew = Len(naira)]]
    /\ UNCHANGED <<creation, payment, naira, restarts>>

\* The bank opens an account ...
OpenNaira(r) ==
    /\ At(r, "bank")
    /\ Goto(r, "open")
    /\ UNCHANGED <<creation, payment, naira, restarts>>

\* ... and its row is saved, which no constraint prevents.
SaveNaira(r) ==
    /\ At(r, "open")
    /\ naira' = Append(naira, [user |-> task[r].user, knew |-> task[r].knew])
    /\ Goto(r, "done")
    /\ UNCHANGED <<creation, payment, restarts>>
-----------------------------------------------------------------------------
(* processCircleEvent and the two listeners *)

Hear(d, label) == delivery' = [delivery EXCEPT ![d].pc = label]

\* The provider calls, again if it has had no answer.  The event is logged
\* by a call nobody waits for, whose failure ends the process (Restart).
Deliver(d, n) ==
    /\ delivery[d].pc = "idle"
    /\ n \in notices
    /\ delivery' = [delivery EXCEPT ![d] = [pc |-> "start", notice |-> n, user |-> Nothing]]
    /\ UNCHANGED <<creation, task, payments, notices, rows, naira, restarts>>

\* Mutant of Known: rows are looked up by their user.
Known_OfUser(n) ==
    {x \in rows : \E i \in AccountOf(payments[n.pay].from) \cup AccountOf(payments[n.pay].to) :
                     accounts[i].user = x.user}

\* The rows whose externalRef is the payment.
Known(n) == {x \in rows : x.externalRef = n.pay}

Update(n) == rows' = {IF x \in Known(n) THEN [x EXCEPT !.status = n.state] ELSE x : x \in rows}

Answer(d) ==
    /\ Hear(d, "answered")
    /\ notices' = notices \ {delivery[d].notice}

\* Both ends of the payment are looked up; a row is made for the sender.
Sender(n)   == AccountOf(payments[n.pay].from)
Receiver(n) == AccountOf(payments[n.pay].to)
Owner(n)    == IF n.dir = "out" THEN Sender(n) ELSE Receiver(n)

\* tnx.outbound: the row of the payment is updated ...
OutboundFind(d) ==
    LET n == delivery[d].notice
    IN  /\ delivery[d].pc = "start" /\ n.dir = "out"
        /\ IF Known(n) # {} THEN Update(n) /\ Answer(d)
           ELSE Hear(d, "second") /\ UNCHANGED <<rows, notices>>
        /\ UNCHANGED <<creation, task, payments, naira, restarts>>

\* ... or the sender is looked up and his balance read.
OutboundSender(d) ==
    LET n == delivery[d].notice
    IN  /\ delivery[d].pc = "second" /\ n.dir = "out"
        /\ \/ \E i \in Sender(n) :
                 delivery' = [delivery EXCEPT ![d] = [@ EXCEPT !.pc = "record", !.user = accounts[i].user]]
              /\ UNCHANGED notices
           \/ Sender(n) = {} /\ Answer(d)
        /\ UNCHANGED <<creation, task, payments, rows, naira, restarts>>

\* tnx.inbound: the wallet first ...
InboundWallet(d) ==
    LET n == delivery[d].notice
    IN  /\ delivery[d].pc = "start" /\ n.dir = "in"
        /\ \/ \E i \in Receiver(n) :
                 delivery' = [delivery EXCEPT ![d] = [@ EXCEPT !.pc = "second", !.user = accounts[i].user]]
              /\ UNCHANGED notices
           \/ Receiver(n) = {} /\ Answer(d)
        /\ UNCHANGED <<creation, task, payments, rows, naira, restarts>>

\* ... then the row of the payment, and the balance.
InboundFind(d) ==
    LET n == delivery[d].notice
    IN  /\ delivery[d].pc = "second" /\ n.dir = "in"
        /\ IF Known(n) # {} THEN Update(n) /\ Answer(d)
           ELSE Hear(d, "record") /\ UNCHANGED <<rows, notices>>
        /\ UNCHANGED <<creation, task, payments, naira, restarts>>

\* Mutant of RowType: a payment to a wallet of the backend is the receiver's alone.
RowType_Inbound(n) == IF n.dir = "in" \/ Receiver(n) # {} THEN "Deposit" ELSE "Withdraw"

RowType(n) ==
    CASE n.dir = "in" -> "Deposit"
      [] n.dir = "out" /\ Receiver(n) # {} -> "Transfer"
      [] OTHER -> "Withdraw"

\* The new row; externalRef is not among the columns it is given.
Record(d) ==
    LET n == delivery[d].notice
    IN  /\ delivery[d].pc = "record"
        /\ rows' = rows \cup {[by |-> d, user |-> delivery[d].user, type |-> RowType(n),
                               pay |-> n.pay, status |-> n.state, externalRef |-> Nothing]}
        /\ Answer(d)
        /\ UNCHANGED <<creation, task, payments, naira, restarts>>

\* A listener that fails is logged by the event emitter and the webhook is
\* answered all the same; the call as a whole fails on a bad signature only.
FailDelivery(d) ==
    /\ "delivery" \in cast.faults
    /\ delivery[d].pc \in Handling
    /\ Hear(d, "swallowed")
    /\ notices' = notices \ {delivery[d].notice}
    /\ UNCHANGED <<creation, task, payments, rows, naira, restarts>>
-----------------------------------------------------------------------------
\* Mutant of Restart: a job that was running is not given out again.
Restart_DropsJobs ==
    /\ restarts < MaxRestarts
    /\ restarts' = restarts + 1
    /\ mislaid' = mislaid \cup UNION {InHand(t) : t \in Tasks}
    /\ task' = [t \in Tasks |->
                  IF t = Worker THEN Idle
                  ELSE IF task[t].pc \in Running THEN [task[t] EXCEPT !.pc = "failed"] ELSE task[t]]
    /\ jobs' = [v \in SignUps |-> CASE jobs[v] = "checked" -> "none"
                                    [] jobs[v] = "verified" -> "lost"
                                    [] OTHER -> jobs[v]]
    /\ UNCHANGED <<cast, sets, accounts, wallets, payment, naira>>

\* The process ends, as it does when the log of an event cannot be saved, and
\* starts again: the queue gives out a running job once more, the provider
\* repeats what was not answered.  A call of verifyEmail is lost with its job if
\* it had saved the user.
Restart ==
    /\ restarts < MaxRestarts
    /\ restarts' = restarts + 1
    /\ mislaid' = mislaid \cup UNION {InHand(t) : t \in Tasks}
    /\ task' = [t \in Tasks |->
                  IF t = Worker THEN Idle
                  ELSE IF task[t].pc \in Running THEN [task[t] EXCEPT !.pc = "failed"] ELSE task[t]]
    /\ jobs' = [v \in SignUps |-> CASE jobs[v] = "running" -> "queued"
                                    [] jobs[v] = "checked" -> "none"
                                    [] jobs[v] = "verified" -> "lost"
                                    [] OTHER -> jobs[v]]
    /\ delivery' = [d \in Deliveries |->
                      IF delivery[d].pc \in Handling THEN [delivery[d] EXCEPT !.pc = "broken"]
                      ELSE delivery[d]]
    /\ UNCHANGED <<cast, sets, accounts, wallets, payments, notices, rows, naira>>

CreationStep(t) ==
    FindSet(t) \/ CountAccounts(t) \/ SaveSet(t) \/ FindAccount(t)
    \/ Mint(t) \/ MintUnnamed(t) \/ SaveAccount(t)
DeliveryStep(d) ==
    OutboundFind(d) \/ OutboundSender(d) \/ InboundWallet(d) \/ InboundFind(d) \/ Record(d)

Next ==
    \/ \E r \in cast.requests, u \in cast.users, label \in cast.asks : Begin(r, u, label)
    \/ \E v \in SignUps : CheckOtp(v) \/ Verify(v) \/ Enqueue(v) \/ TakeJob(v)
    \/ \E outcome \in Outcomes : EndJob(outcome)
    \/ \E t \in Tasks : CreationStep(t) \/ FailTask(t)
    \/ \E r \in Requests : FindNaira(r) \/ OpenNaira(r) \/ SaveNaira(r)
    \/ \E r \in Requests : ReadBalance(r) \/ \E to \in 0..wallets : Submit(r, to)
    \/ \E p \in cast.outside, from, to \in 0..wallets : PayElsewhere(p, from, to)
    \/ \E p \in Requests \cup Outside : Complete(p)
    \/ \E d \in Deliveries, n \in notices : Deliver(d, n)
    \/ \E d \in Deliveries : DeliveryStep(d) \/ FailDelivery(d)
    \/ Restart

\* The worker polls its queue and what it has begun goes on.
Spec ==
    /\ Init /\ [][Next]_cvars
    /\ \A v \in SignUps : WF_cvars(Enqueue(v)) /\ WF_cvars(TakeJob(v))
    /\ WF_cvars(CreationStep(Worker))
    /\ WF_cvars(\E outcome \in Outcomes : EndJob(outcome))
-----------------------------------------------------------------------------
Row == [by : Deliveries, user : Users, type : {"Deposit", "Transfer", "Withdraw"},
        pay : Requests \cup Outside, status : {"SENT", "COMPLETE"}, externalRef : {Nothing}]

Labels   == {"idle"} \cup Outcomes \cup Running
Job      == {"none", "checked", "verified", "queued", "running", "lost"} \cup Outcomes
Task     == [pc : Labels, user : Users \cup {Nothing}, set : Nat, wallet : Nat, knew : Nat]
Stages   == {"idle", "answered", "swallowed", "broken"} \cup Handling
Delivery == [pc : Stages, notice : Notice \cup {Nothing}, user : Users \cup {Nothing}]
Set      == [active : BOOLEAN, knew : Nat]
NairaRow == [user : Users, knew : Nat]
Account  == [user : Users, set : Nat, wallet : Nat, name : {ProviderName}, knew : Nat]

\* A webhook call that has looked a user up.
HasUser(x) == x.pc = "record" \/ (x.pc = "second" /\ x.notice.dir = "in")

TypeOK ==
    /\ cast \in Casts
    /\ sets \in Seq(Set)
    /\ accounts \in Seq(Account)
    /\ naira \in Seq(NairaRow)
    /\ jobs \in [SignUps -> Job]
    /\ task \in [Tasks -> Task]
    /\ \A t \in Tasks : task[t].pc = "idle" \/ task[t].user \in Users
    /\ wallets \in Nat /\ mislaid \subseteq Nat
    /\ payments \in [Requests \cup Outside -> Payment \cup {Nothing}]
    /\ notices \subseteq Notice
    /\ delivery \in [Deliveries -> Delivery]
    /\ \A d \in Deliveries : /\ delivery[d].pc = "idle" \/ delivery[d].notice \in Notice
                             /\ HasUser(delivery[d]) => delivery[d].user \in Users
    /\ rows \subseteq Row
    /\ restarts \in Nat

\* However the job, its repetition after a restart and the users' own requests
\* interleave, a second crypto account of a user, a second naira account, or a
\* second active wallet set is made only by a call that looked for the first
\* before it was stored.
SecondByOverlap ==
    /\ \A i, j \in DOMAIN accounts :
          i < j /\ accounts[i].user = accounts[j].user => accounts[j].knew < i
    /\ \A i, j \in DOMAIN naira :
          i < j /\ naira[i].user = naira[j].user => naira[j].knew < i
    /\ \A i, j \in Active : i < j => sets[j].knew < i

\* No wallet of the provider is forgotten: an account names it, or the call
\* that asked for it is about to, or that call failed, was cut off or was
\* answered without its name.
WalletsAccounted ==
    \A w \in 1..wallets : AccountOf(w) # {} \/ w \in mislaid \/ \E t \in Tasks : w \in InHand(t)

\* Whatever notifications are repeated or overtake each other, a row tells of
\* a payment one end of which its user owns, on the side its type says, and
\* never of a state the payment has not reached.
RowsTellPayments ==
    \A x \in rows :
        LET p == payments[x.pay]
            end == IF x.type = "Deposit" THEN p.to ELSE p.from
        IN  /\ \E i \in AccountOf(end) : accounts[i].user = x.user
            /\ x.type = "Transfer" => AccountOf(p.to) # {}
            /\ x.status = "COMPLETE" => p.state = "COMPLETE"

\* The provider is answered, and so will not tell again, only when the owner
\* of its end of the payment has that state of it in his history, unless the
\* wallet is nobody's, or the listener failed.
AnsweredIsRecorded ==
    [][\A d \in Deliveries : delivery[d].pc \in Handling /\ delivery'[d].pc = "answered" =>
          LET n == delivery[d].notice
          IN  Owner(n) # {} =>
                 \E x \in rows', i \in Owner(n) :
                    /\ x.pay = n.pay /\ x.status = n.state /\ x.user = accounts[i].user
                    /\ (n.dir = "in") = (x.type = "Deposit")]_cvars

\* A verified user whose job was queued gets an account, through restarts,
\* unless the job fails or the provider's answer to it names no wallet: then
\* the job is done and its user has none.
SignUpGetsAccount ==
    \A v \in SignUps :
        jobs[v] = "queued" ~> OwnAccounts(By(v)) # {} \/ jobs[v] \in {"failed", "unnamed"}
=============================================================================
