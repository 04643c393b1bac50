------------------------ MODULE CryptoWalletsProofs ------------------------
(***************************************************************************)
(* Proofs about CryptoWallets, for any users, requests, payments, webhook  *)
(* calls, scenes and number of restarts: types, second accounts, wallets   *)
(* that nobody names, and what the rows tell of payments.                  *)
(***************************************************************************)
EXTENDS CryptoWallets, FiniteSetTheorems, TLAPS

\* Who takes part in a scene belongs to the constants.
LEMMA SceneTyped ==
    ASSUME TypeOK
    PROVE  cast.users \subseteq Users /\ cast.requests \subseteq Requests
           /\ cast.outside \subseteq Outside /\ cast.asks \subseteq Asks
           /\ \A v \in SignUps : By(v) \in Users
BY CryptoAssumption DEF TypeOK, By

\* What the provider tells is well formed.
LEMMA NoticesTyped ==
    ASSUME NEW p, NEW from, NEW to, NEW state
    PROVE  NoticesOf(p, from, to, state) \subseteq Notice
BY DEF NoticesOf

\* What is not a call of the service is idle, or has a user.
Typed(calls) ==
    /\ calls \in [Tasks -> Task]
    /\ \A t \in Tasks : calls[t].pc = "idle" \/ calls[t].user \in Users

\* A step of one call leaves every call typed.
LEMMA CallTyped ==
    ASSUME Typed(task), NEW t \in Tasks, NEW e \in Task, e.pc = "idle" \/ e.user \in Users,
           task' = [task EXCEPT ![t] = e]
    PROVE  Typed(task')
BY DEF Typed

\* A call that goes on is one of the same user's.
LEMMA CallGoesOn ==
    ASSUME Typed(task), NEW t \in Tasks, task[t].pc # "idle", NEW label \in Labels, NEW n \in Nat,
           \/ task' = [task EXCEPT ![t] = [@ EXCEPT !.pc = label]]
           \/ task' = [task EXCEPT ![t] = [@ EXCEPT !.pc = label, !.set = n]]
           \/ task' = [task EXCEPT ![t] = [@ EXCEPT !.pc = label, !.wallet = n]]
           \/ task' = [task EXCEPT ![t] = [@ EXCEPT !.pc = label, !.knew = n]]
    PROVE  Typed(task')
<1>1. task[t] \in Task /\ task[t].user \in Users
  BY DEF Typed
<1>2. PICK e : /\ task' = [task EXCEPT ![t] = e]
               /\ \/ e = [task[t] EXCEPT !.pc = label]
                  \/ e = [task[t] EXCEPT !.pc = label, !.set = n]
                  \/ e = [task[t] EXCEPT !.pc = label, !.wallet = n]
                  \/ e = [task[t] EXCEPT !.pc = label, !.knew = n]
  OBVIOUS
<1>3. e \in Task /\ e.user \in Users
  BY <1>1, <1>2 DEF Task
<1> QED  BY <1>2, <1>3, CallTyped

\* What is known of every webhook call.
Heard(calls) ==
    /\ calls \in [Deliveries -> Delivery]
    /\ \A d \in Deliveries : /\ calls[d].pc = "idle" \/ calls[d].notice \in Notice
                             /\ HasUser(calls[d]) => calls[d].user \in Users

\* A step of one webhook call leaves every one typed.
LEMMA DeliveryTyped ==
    ASSUME Heard(delivery), NEW d \in Deliveries, NEW e \in Delivery, e.notice \in Notice,
           HasUser(e) => e.user \in Users, delivery' = [delivery EXCEPT ![d] = e]
    PROVE  Heard(delivery')
BY DEF Heard

\* A webhook call that goes on is about the same notification.
LEMMA DeliveryGoesOn ==
    ASSUME Heard(delivery), NEW d \in Deliveries, delivery[d].pc # "idle", NEW stage \in Stages,
           \/ /\ delivery' = [delivery EXCEPT ![d] = [@ EXCEPT !.pc = stage]]
              /\ \/ stage \notin {"second", "record"}
                 \/ stage = "second" /\ delivery[d].notice.dir = "out"
                 \/ delivery[d].user \in Users
           \/ \E u \in Users : delivery' = [delivery EXCEPT ![d] = [@ EXCEPT !.pc = stage, !.user = u]]
    PROVE  Heard(delivery')
<1>1. delivery[d] \in Delivery /\ delivery[d].notice \in Notice
  BY DEF Heard
<1>2. ASSUME delivery' = [delivery EXCEPT ![d] = [@ EXCEPT !.pc = stage]],
             \/ stage \notin {"second", "record"}
             \/ stage = "second" /\ delivery[d].notice.dir = "out"
             \/ delivery[d].user \in Users
      PROVE  Heard(delivery')
  <2> DEFINE e == [delivery[d] EXCEPT !.pc = stage]
  <2>1. e \in Delivery /\ e.notice \in Notice /\ (HasUser(e) => e.user \in Users)
    BY <1>1, <1>2 DEF Delivery, HasUser, Notice
  <2> QED  BY <1>2, <2>1, DeliveryTyped
<1>3. ASSUME NEW u \in Users,
             delivery' = [delivery EXCEPT ![d] = [@ EXCEPT !.pc = stage, !.user = u]]
      PROVE  Heard(delivery')
  <2> DEFINE e == [delivery[d] EXCEPT !.pc = stage, !.user = u]
  <2>1. e \in Delivery /\ e.notice \in Notice /\ e.user \in Users
    BY <1>1 DEF Delivery
  <2> QED  BY <1>3, <2>1, DeliveryTyped
<1> QED  BY <1>2, <1>3

\* The update of the rows of a payment leaves rows.
LEMMA UpdateTyped ==
    ASSUME TypeOK, NEW n \in Notice, Update(n)
    PROVE  rows' \subseteq Row
<1>1. n.state \in {"SENT", "COMPLETE"}
  BY DEF Notice
<1>2. ASSUME NEW x \in rows PROVE x \in Row /\ [x EXCEPT !.status = n.state] \in Row
  BY <1>1 DEF Row, TypeOK
<1> QED  BY <1>2 DEF Update

\* An account belongs to a user, and wallets and sets have numbers.
LEMMA AccountTyped ==
    ASSUME TypeOK
    PROVE  /\ \A i \in DOMAIN accounts : accounts[i].user \in Users /\ accounts[i].wallet \in Nat
           /\ \A s \in DOMAIN sets : s \in Nat
           /\ Len(sets) \in Nat /\ Len(accounts) \in Nat /\ Len(naira) \in Nat
<1>1. \A i \in DOMAIN accounts : accounts[i] \in Account
  BY DEF TypeOK
<1>2. \A i \in DOMAIN accounts : accounts[i].user \in Users /\ accounts[i].wallet \in Nat
  BY <1>1 DEF Account
<1>3. /\ \A s \in DOMAIN sets : s \in Nat
      /\ Len(sets) \in Nat /\ Len(accounts) \in Nat /\ Len(naira) \in Nat
  BY DEF TypeOK
<1> QED  BY <1>2, <1>3

\* No set is ever full: the accounts are counted by a name none of them has.
LEMMA NeverFull ==
    ASSUME TypeOK, NEW s
    PROVE  Counted(s) < Limit
<1>1. \A i \in DOMAIN accounts : accounts[i] \in Account
  BY DEF TypeOK
<1>2. \A i \in DOMAIN accounts : accounts[i].name = <<>>
  BY <1>1 DEF Account, ProviderName
<1>3. NameOf(s) # <<>>
  BY DEF NameOf
<1>4. {i \in DOMAIN accounts : accounts[i].name = NameOf(s)} = {}
  BY <1>2, <1>3
<1>5. Counted(s) = 0
  BY <1>4, FS_EmptySet DEF Counted
<1> QED  BY <1>5, CryptoAssumption

\* Every variable keeps its type in every reachable state.
THEOREM TypeCorrect == Spec => []TypeOK
<1>1. Init => TypeOK
  BY CryptoAssumption DEF Init, TypeOK, Idle, Tasks, Task, Labels, Job, Delivery, Stages, HasUser
<1>2. TypeOK /\ [Next]_cvars => TypeOK'
  <2> SUFFICES ASSUME TypeOK, [Next]_cvars PROVE TypeOK'
    OBVIOUS
  <2>a. Running \subseteq Labels /\ {"idle", "done", "unnamed", "failed"} \subseteq Labels
    BY DEF Labels, Outcomes
  <2>b. Idle \in Task /\ \A u \in Users, label \in Labels :
                            [Idle EXCEPT !.pc = label, !.user = u] \in Task
    BY DEF Idle, Task, Labels
  <2>c. \A t \in Tasks : task[t] \in Task
    BY DEF TypeOK
  <2>d. Typed(task) /\ Requests \subseteq Tasks
    BY DEF TypeOK, Typed, Tasks
  <2>e. Heard(delivery)
    BY DEF TypeOK, Heard
  <2>1. ASSUME NEW r \in Requests, NEW u \in Users, NEW label \in Asks, Begin(r, u, label) PROVE TypeOK'
    <3>1. [Idle EXCEPT !.pc = label, !.user = u] \in Task
      BY <2>a, <2>b DEF Asks, Running
    <3>2. Typed(task')
      BY <2>1, <2>d, <3>1, CallTyped DEF Begin, Idle
    <3> QED  BY <2>1, <3>2 DEF Begin, Typed, TypeOK, creation, payment
  <2>2. ASSUME NEW v \in SignUps, CheckOtp(v) \/ Verify(v) \/ Enqueue(v) PROVE TypeOK'
    BY <2>2 DEF CheckOtp, Verify, Enqueue, TypeOK, payment, Job
  <2>3. ASSUME NEW v \in SignUps, TakeJob(v) PROVE TypeOK'
    <3>1. By(v) \in Users
      BY SceneTyped
    <3>2. [Idle EXCEPT !.pc = "start", !.user = By(v)] \in Task
      BY <2>a, <2>b, <3>1 DEF Running
    <3>3. Typed(task')
      BY <2>3, <2>d, <3>1, <3>2, CallTyped DEF TakeJob, Idle, Tasks
    <3> QED  BY <2>3, <3>3 DEF TakeJob, Typed, TypeOK, payment, Job
  <2>4. ASSUME NEW outcome \in Outcomes, EndJob(outcome) PROVE TypeOK'
    <3>1. Typed(task')
      BY <2>4, <2>b, <2>d, CallTyped DEF EndJob, Idle, Tasks
    <3> QED  BY <2>4, <3>1 DEF EndJob, Typed, TypeOK, payment, Job
  <2>5. ASSUME NEW t \in Tasks, FindSet(t) PROVE TypeOK'
    <3>1. task[t].pc # "idle" /\ {"count", "newset"} \subseteq Labels
      BY <2>5 DEF FindSet, At, Labels, Running
    <3>2. ASSUME \E s \in Active : task' = [task EXCEPT ![t] = [@ EXCEPT !.pc = "count", !.set = s]]
          PROVE  Typed(task')
      <4>1. PICK s \in Nat : task' = [task EXCEPT ![t] = [@ EXCEPT !.pc = "count", !.set = s]]
        BY <3>2, AccountTyped DEF Active
      <4> QED  BY <2>d, <3>1, <4>1, CallGoesOn
    <3>3. ASSUME task' = [task EXCEPT ![t] = [@ EXCEPT !.pc = "newset", !.knew = Len(sets)]]
          PROVE  Typed(task')
      BY <2>d, <3>1, <3>3, AccountTyped, CallGoesOn
    <3>4. Typed(task')
      BY <2>5, <3>2, <3>3 DEF FindSet
    <3> QED  BY <2>5, <3>4 DEF FindSet, Typed, TypeOK, creation, payment
  <2>6. ASSUME NEW t \in Tasks, CountAccounts(t) PROVE TypeOK'
    <3>1. sets' = sets /\ Goto(t, "find")
      BY <2>6, NeverFull DEF CountAccounts
    <3>2. task[t].pc # "idle" /\ "find" \in Labels
      BY <2>6 DEF CountAccounts, At, Labels, Running
    <3>3. task' = [task EXCEPT ![t] = [@ EXCEPT !.pc = "find"]]
      BY <3>1 DEF Goto
    <3>4. Typed(task')
      BY <2>d, <3>2, <3>3, CallGoesOn
    <3> QED  BY <2>6, <3>1, <3>4 DEF CountAccounts, Typed, TypeOK, payment
  <2>7. ASSUME NEW t \in Tasks, SaveSet(t) PROVE TypeOK'
    <3>1. [active |-> TRUE, knew |-> task[t].knew] \in Set
      BY <2>c DEF Task, Set
    <3>2. sets' \in Seq(Set)
      BY <2>7, <3>1 DEF SaveSet, TypeOK
    <3>3. task[t].pc # "idle" /\ "find" \in Labels /\ Len(sets) + 1 \in Nat
      BY <2>7, AccountTyped DEF SaveSet, At, Labels, Running
    <3>4. task' = [task EXCEPT ![t] = [@ EXCEPT !.pc = "find", !.set = Len(sets) + 1]]
      BY <2>7 DEF SaveSet
    <3>5. Typed(task')
      BY <2>d, <3>3, <3>4, CallGoesOn
    <3> QED  BY <2>7, <3>2, <3>5 DEF SaveSet, Typed, TypeOK, payment
  <2>8. ASSUME NEW t \in Tasks, FindAccount(t) PROVE TypeOK'
    <3>1. task[t].pc # "idle" /\ {"mint", "done"} \subseteq Labels
      BY <2>8 DEF FindAccount, At, Labels, Outcomes, Running
    <3>2. PICK label \in Labels :
             task' = [task EXCEPT ![t] = [@ EXCEPT !.pc = label, !.knew = Len(accounts)]]
      BY <2>8, <3>1 DEF FindAccount
    <3>3. Typed(task')
      BY <2>d, <3>1, <3>2, AccountTyped, CallGoesOn
    <3> QED  BY <2>8, <3>3 DEF FindAccount, Typed, TypeOK, creation, payment
  <2>9. ASSUME NEW t \in Tasks, Mint(t) PROVE TypeOK'
    <3>1. task[t].pc # "idle" /\ "save" \in Labels /\ wallets + 1 \in Nat
      BY <2>9 DEF Mint, At, Labels, Running, TypeOK
    <3>2. task' = [task EXCEPT ![t] = [@ EXCEPT !.pc = "save", !.wallet = wallets + 1]]
      BY <2>9 DEF Mint
    <3>3. Typed(task')
      BY <2>d, <3>1, <3>2, CallGoesOn
    <3> QED  BY <2>9, <3>1, <3>3 DEF Mint, Typed, TypeOK, payment
  <2>25. ASSUME NEW t \in Tasks, MintUnnamed(t) PROVE TypeOK'
    <3>1. task[t].pc # "idle" /\ "unnamed" \in Labels /\ wallets + 1 \in Nat
      BY <2>a, <2>25 DEF MintUnnamed, At, TypeOK
    <3>2. task' = [task EXCEPT ![t] = [@ EXCEPT !.pc = "unnamed"]]
      BY <2>25 DEF MintUnnamed, Goto
    <3>3. Typed(task')
      BY <2>d, <3>1, <3>2, CallGoesOn
    <3> QED  BY <2>25, <3>1, <3>3 DEF MintUnnamed, Typed, TypeOK, payment
  <2>10. ASSUME NEW t \in Tasks, SaveAccount(t) PROVE TypeOK'
    <3>1. task[t].pc # "idle" /\ "done" \in Labels /\ task[t].user \in Users
      BY <2>a, <2>10 DEF SaveAccount, At, TypeOK
    <3>2. [user |-> task[t].user, set |-> task[t].set, wallet |-> task[t].wallet,
           name |-> ProviderName, knew |-> task[t].knew] \in Account
      BY <2>c, <3>1 DEF Task, Account
    <3>3. accounts' \in Seq(Account)
      BY <2>10, <3>2 DEF SaveAccount, TypeOK
    <3>4. task' = [task EXCEPT ![t] = [@ EXCEPT !.pc = "done"]]
      BY <2>10 DEF SaveAccount, Goto
    <3>5. Typed(task')
      BY <2>d, <3>1, <3>4, CallGoesOn
    <3> QED  BY <2>10, <3>3, <3>5 DEF SaveAccount, Typed, TypeOK, payment
  <2>11. ASSUME NEW t \in Tasks, FailTask(t) PROVE TypeOK'
    <3>1. mislaid' \subseteq Nat
      BY <2>c, <2>11 DEF FailTask, InHand, TypeOK, Task
    <3>2. task[t].pc # "idle" /\ "failed" \in Labels
      BY <2>a, <2>11 DEF FailTask, Running
    <3>3. task' = [task EXCEPT ![t] = [@ EXCEPT !.pc = "failed"]]
      BY <2>11 DEF FailTask, Goto
    <3>4. Typed(task')
      BY <2>d, <3>2, <3>3, CallGoesOn
    <3> QED  BY <2>11, <3>1, <3>4 DEF FailTask, Typed, TypeOK, payment
  <2>12. ASSUME NEW r \in Requests, FindNaira(r) PROVE TypeOK'
    <3>1. r \in Tasks /\ task[r].pc # "idle" /\ {"failed", "bank"} \subseteq Labels
      BY <2>a, <2>d, <2>12 DEF FindNaira, At, Running
    <3>2. PICK label \in Labels :
             task' = [task EXCEPT ![r] = [@ EXCEPT !.pc = label, !.knew = Len(naira)]]
      BY <2>12, <3>1 DEF FindNaira
    <3>3. Typed(task')
      BY <2>d, <3>1, <3>2, AccountTyped, CallGoesOn
    <3> QED  BY <2>12, <3>3 DEF FindNaira, Typed, TypeOK, creation, payment
  <2>13. ASSUME NEW r \in Requests, OpenNaira(r) \/ SaveNaira(r) PROVE TypeOK'
    <3>1. r \in Tasks /\ task[r].pc # "idle" /\ {"open", "done"} \subseteq Labels
      BY <2>a, <2>d, <2>13 DEF OpenNaira, SaveNaira, At, Running
    <3>2. PICK label \in Labels : task' = [task EXCEPT ![r] = [@ EXCEPT !.pc = label]]
      BY <2>13, <3>1 DEF OpenNaira, SaveNaira, Goto
    <3>3. Typed(task')
      BY <2>d, <3>1, <3>2, CallGoesOn
    <3>4. [user |-> task[r].user, knew |-> task[r].knew] \in NairaRow
      BY <2>c, <2>d, <3>1 DEF Task, Typed, NairaRow
    <3>5. naira \in Seq(NairaRow)
      BY DEF TypeOK
    <3>6. Append(naira, [user |-> task[r].user, knew |-> task[r].knew]) \in Seq(NairaRow)
      BY <3>4, <3>5
    <3>7. naira' \in Seq(NairaRow)
      BY <2>13, <3>5, <3>6 DEF OpenNaira, SaveNaira
    <3> QED  BY <2>13, <3>3, <3>7 DEF OpenNaira, SaveNaira, Typed, TypeOK, creation, payment
  <2>14. ASSUME NEW r \in Requests, NEW to \in 0..wallets, Submit(r, to) PROVE TypeOK'
    <3>1. r \in Tasks /\ task[r].pc # "idle" /\ "done" \in Labels
      BY <2>a, <2>d, <2>14 DEF Submit, At
    <3>2. task' = [task EXCEPT ![r] = [@ EXCEPT !.pc = "done"]]
      BY <2>14 DEF Submit, Goto
    <3>3. Typed(task')
      BY <2>d, <3>1, <3>2, CallGoesOn
    <3>4. [from |-> task[r].wallet, to |-> to, state |-> "SENT"] \in Payment
      BY <2>c, <3>1 DEF Task, Payment, TypeOK
    <3>5. payments' \in [Requests \cup Outside -> Payment \cup {Nothing}]
      BY <2>14, <3>4 DEF Submit, TypeOK
    <3>6. notices' \subseteq Notice
      BY <2>14, NoticesTyped DEF Submit, TypeOK
    <3> QED  BY <2>14, <3>3, <3>5, <3>6 DEF Submit, Typed, TypeOK, creation
  <2>24. ASSUME NEW r \in Requests, ReadBalance(r) PROVE TypeOK'
    <3>1. r \in Tasks /\ task[r].pc # "idle" /\ {"submit", "failed"} \subseteq Labels
      BY <2>a, <2>d, <2>24 DEF ReadBalance, At, Running
    <3>2. ASSUME \E i \in OwnAccounts(task[r].user) :
                    task' = [task EXCEPT ![r] = [@ EXCEPT !.pc = "submit", !.wallet = accounts[i].wallet]]
          PROVE  Typed(task')
      <4>1. PICK n \in Nat : task' = [task EXCEPT ![r] = [@ EXCEPT !.pc = "submit", !.wallet = n]]
        BY <3>2, AccountTyped DEF OwnAccounts
      <4> QED  BY <2>d, <3>1, <4>1, CallGoesOn
    <3>3. ASSUME Goto(r, "failed") PROVE Typed(task')
      <4>1. task' = [task EXCEPT ![r] = [@ EXCEPT !.pc = "failed"]]
        BY <3>3 DEF Goto
      <4> QED  BY <2>d, <3>1, <4>1, CallGoesOn
    <3>4. Typed(task')
      BY <2>24, <3>2, <3>3 DEF ReadBalance
    <3> QED  BY <2>24, <3>4 DEF ReadBalance, Typed, TypeOK, creation, payment
  <2>15. ASSUME NEW p \in Outside, NEW from \in 0..wallets, NEW to \in 0..wallets,
                PayElsewhere(p, from, to)
         PROVE  TypeOK'
    <3>1. [from |-> from, to |-> to, state |-> "SENT"] \in Payment
      BY DEF Payment, TypeOK
    <3> QED  BY <2>15, <3>1, NoticesTyped DEF PayElsewhere, TypeOK, creation
  <2>16. ASSUME NEW p \in Requests \cup Outside, Complete(p) PROVE TypeOK'
    <3>1. payments[p] \in Payment
      BY <2>16 DEF Complete, TypeOK
    <3>2. [payments[p] EXCEPT !.state = "COMPLETE"] \in Payment
      BY <3>1 DEF Payment
    <3> QED  BY <2>16, <3>2, NoticesTyped DEF Complete, TypeOK, creation
  <2>17. ASSUME NEW d \in Deliveries, NEW n \in notices, Deliver(d, n) PROVE TypeOK'
    <3>1. n \in Notice
      BY DEF TypeOK
    <3>2. [pc |-> "start", notice |-> n, user |-> Nothing] \in Delivery
      BY <3>1 DEF Delivery, Stages, Handling
    <3>3. Heard(delivery')
      BY <2>17, <2>e, <3>1, <3>2, DeliveryTyped DEF Deliver, HasUser
    <3> QED  BY <2>17, <3>3 DEF Deliver, Heard, TypeOK, creation
  <2>f. {"answered", "second", "record", "swallowed", "broken"} \subseteq Stages
    BY DEF Stages, Handling
  <2>g. \A d \in Deliveries : delivery[d].pc # "idle" => delivery[d].notice \in Notice
    BY DEF TypeOK
  <2>18. ASSUME NEW d \in Deliveries, OutboundFind(d) \/ InboundFind(d) PROVE TypeOK'
    <3>1. delivery[d].pc # "idle"
      BY <2>18 DEF OutboundFind, InboundFind
    <3>2. rows' \subseteq Row /\ notices' \subseteq Notice
      BY <2>18, <2>g, <3>1, UpdateTyped DEF OutboundFind, InboundFind, Answer, TypeOK
    <3>3. PICK stage \in Stages :
             /\ delivery' = [delivery EXCEPT ![d] = [@ EXCEPT !.pc = stage]]
             /\ \/ stage \notin {"second", "record"}
                \/ stage = "second" /\ delivery[d].notice.dir = "out"
                \/ delivery[d].user \in Users
      <4>1. CASE OutboundFind(d)
        BY <2>f, <4>1 DEF OutboundFind, Answer, Hear
      <4>2. CASE InboundFind(d)
        <5>1. delivery[d].user \in Users
          BY <4>2 DEF InboundFind, TypeOK, HasUser
        <5> QED  BY <2>f, <4>2, <5>1 DEF InboundFind, Answer, Hear
      <4> QED  BY <2>18, <4>1, <4>2
    <3>4. Heard(delivery')
      BY <2>e, <3>1, <3>3, DeliveryGoesOn
    <3> QED  BY <2>18, <3>2, <3>4 DEF OutboundFind, InboundFind, Heard, TypeOK, creation
  <2>19. ASSUME NEW d \in Deliveries, OutboundSender(d) \/ InboundWallet(d) PROVE TypeOK'
    <3>1. delivery[d].pc # "idle" /\ notices' \subseteq Notice
      BY <2>19 DEF OutboundSender, InboundWallet, Answer, TypeOK
    <3>2. \A n, i : i \in Sender(n) \/ i \in Receiver(n) => accounts[i].user \in Users
      BY AccountTyped DEF Sender, Receiver, AccountOf
    <3>3. \/ Hear(d, "answered")
          \/ \E u \in Users, stage \in Stages :
                delivery' = [delivery EXCEPT ![d] = [@ EXCEPT !.pc = stage, !.user = u]]
      BY <2>19, <2>f, <3>2 DEF OutboundSender, InboundWallet, Answer
    <3>4. Heard(delivery')
      <4>1. ASSUME Hear(d, "answered") PROVE Heard(delivery')
        BY <2>e, <2>f, <3>1, <4>1, DeliveryGoesOn DEF Hear
      <4> QED  BY <2>e, <3>1, <3>3, <4>1, DeliveryGoesOn
    <3> QED  BY <2>19, <3>1, <3>4 DEF OutboundSender, InboundWallet, Heard, TypeOK, creation
  <2>20. ASSUME NEW d \in Deliveries, Record(d) PROVE TypeOK'
    <3>1. delivery[d].pc # "idle" /\ delivery[d].user \in Users
      BY <2>20 DEF Record, TypeOK, HasUser
    <3>2. delivery[d].notice \in Notice /\ RowType(delivery[d].notice) \in {"Deposit", "Transfer", "Withdraw"}
      BY <2>g, <3>1 DEF RowType
    <3>3. rows' \subseteq Row
      BY <2>20, <3>1, <3>2 DEF Record, TypeOK, Row, Notice
    <3>4. Heard(delivery')
      BY <2>20, <2>e, <2>f, <3>1, DeliveryGoesOn DEF Record, Answer, Hear
    <3> QED  BY <2>20, <3>3, <3>4 DEF Record, Answer, Heard, TypeOK, creation
  <2>21. ASSUME NEW d \in Deliveries, FailDelivery(d) PROVE TypeOK'
    <3>1. delivery[d].pc # "idle"
      BY <2>21 DEF FailDelivery, Handling
    <3>2. Heard(delivery')
      BY <2>21, <2>e, <2>f, <3>1, DeliveryGoesOn DEF FailDelivery, Hear
    <3> QED  BY <2>21, <3>2 DEF FailDelivery, Heard, TypeOK, creation
  <2>22. CASE Restart
    <3>1. \A t \in Tasks : /\ task'[t] \in Task
                           /\ task'[t].pc = "idle" \/ task'[t].user \in Users
      <4> SUFFICES ASSUME NEW t \in Tasks
                   PROVE  task'[t] \in Task /\ (task'[t].pc = "idle" \/ task'[t].user \in Users)
        OBVIOUS
      <4>1. CASE t # Worker /\ task[t].pc \in Running
        <5>1. task'[t] = [task[t] EXCEPT !.pc = "failed"]
          BY <2>22, <4>1 DEF Restart
        <5>2. task[t] \in Task /\ task[t].user \in Users /\ "failed" \in Labels
          BY <2>a, <2>d, <4>1 DEF Typed, Running
        <5> QED  BY <5>1, <5>2 DEF Task
      <4>2. CASE ~(t # Worker /\ task[t].pc \in Running)
        <5>1. task'[t] \in {Idle, task[t]}
          BY <2>22, <4>2 DEF Restart
        <5>2. Idle.pc = "idle"
          BY DEF Idle
        <5> QED  BY <2>b, <2>d, <5>1, <5>2 DEF Typed
      <4> QED  BY <4>1, <4>2
    <3>2. mislaid' \subseteq Nat
      BY <2>22, <2>c DEF Restart, InHand, TypeOK, Task
    <3>3. Heard(delivery')
      <4>1. ASSUME NEW d \in Deliveries
            PROVE  /\ delivery'[d] \in Delivery
                   /\ delivery'[d].pc = "idle" \/ delivery'[d].notice \in Notice
                   /\ HasUser(delivery'[d]) => delivery'[d].user \in Users
        <5>1. CASE delivery[d].pc \in Handling
          <6>1. delivery[d] \in Delivery /\ delivery[d].notice \in Notice
            BY <2>g, <5>1 DEF Handling, TypeOK
          <6>2. delivery'[d] = [delivery[d] EXCEPT !.pc = "broken"]
            BY <2>22, <5>1 DEF Restart
          <6> QED  BY <2>f, <6>1, <6>2 DEF Delivery, HasUser
        <5>2. CASE delivery[d].pc \notin Handling
          BY <2>22, <2>e, <5>2 DEF Restart, Heard
        <5> QED  BY <5>1, <5>2
      <4> QED  BY <2>22, <4>1 DEF Restart, Heard
    <3>4. task' \in [Tasks -> Task] /\ jobs' \in [SignUps -> Job]
      <4>1. jobs \in [SignUps -> Job]
        BY DEF TypeOK
      <4> QED  BY <2>22, <3>1, <4>1 DEF Restart, Job
    <3>5. restarts' \in Nat
      BY <2>22 DEF Restart, TypeOK
    <3> QED  BY <2>22, <3>1, <3>2, <3>3, <3>4, <3>5 DEF Restart, Heard, TypeOK
  <2>23. CASE UNCHANGED cvars
    BY <2>23 DEF cvars, creation, payment, TypeOK
  <2> QED  BY <2>1, <2>2, <2>3, <2>4, <2>5, <2>6, <2>7, <2>8, <2>9, <2>10, <2>11, <2>12, <2>13, <2>14,
              <2>15, <2>16, <2>17, <2>18, <2>19, <2>20, <2>21, <2>22, <2>23, <2>24, <2>25, SceneTyped
              DEF Next, CreationStep, DeliveryStep
<1> QED  BY <1>1, <1>2, PTL DEF Spec
-----------------------------------------------------------------------------
\* What a call knows when it asks outside for what it will store.
Looked == {"newset", "mint", "save", "bank", "open"}

\* A step that stores nothing and begins to store nothing.
Quiet ==
    /\ UNCHANGED <<sets, accounts, naira, wallets, mislaid>>
    /\ \A t \in Tasks : \/ task'[t] = task[t]
                        \/ task[t].pc # "save" /\ task'[t].pc \notin Looked

Storing(t) ==
    FindSet(t) \/ SaveSet(t) \/ FindAccount(t) \/ Mint(t) \/ MintUnnamed(t) \/ SaveAccount(t) \/ FailTask(t)
StoringNaira(r) == FindNaira(r) \/ OpenNaira(r) \/ SaveNaira(r)

\* A call moved on from where nothing is in hand to where nothing is looked for.
LEMMA QuietCall ==
    ASSUME TypeOK, UNCHANGED <<sets, accounts, naira, wallets, mislaid>>,
           NEW t \in Tasks, task[t].pc # "save", NEW e, e.pc \notin Looked,
           task' = [task EXCEPT ![t] = e]
    PROVE  Quiet
BY DEF Quiet, TypeOK

\* The steps of the module, as what is stored is told of them.
LEMMA StepsOfStoring ==
    ASSUME TypeOK, [Next]_cvars
    PROVE  \/ Quiet \/ Restart
           \/ \E t \in Tasks : Storing(t)
           \/ \E r \in Requests : StoringNaira(r)
<1>a. Requests \subseteq Tasks /\ Worker \in Tasks
  BY DEF Tasks
<1>b. \A t \in Tasks : task[t] \in Task
  BY DEF TypeOK
<1>1. ASSUME NEW r \in Requests, NEW u, NEW label \in Asks, Begin(r, u, label) PROVE Quiet
  <2>1. [Idle EXCEPT !.pc = label, !.user = u].pc \notin Looked
    BY DEF Idle, Asks, Looked
  <2> QED  BY <1>a, <1>1, <2>1, QuietCall DEF Begin, At, creation, payment
<1>2. ASSUME NEW v, CheckOtp(v) \/ Verify(v) \/ Enqueue(v) PROVE Quiet
  BY <1>2 DEF CheckOtp, Verify, Enqueue, Quiet, payment
<1>3. ASSUME NEW v, TakeJob(v) PROVE Quiet
  <2>1. [Idle EXCEPT !.pc = "start", !.user = By(v)].pc \notin Looked
    BY DEF Idle, Looked
  <2> QED  BY <1>a, <1>3, <2>1, QuietCall DEF TakeJob, At, payment
<1>4. ASSUME NEW outcome \in Outcomes, EndJob(outcome) PROVE Quiet
  <2>1. Idle.pc \notin Looked
    BY DEF Idle, Looked
  <2> QED  BY <1>a, <1>4, <2>1, QuietCall DEF EndJob, Outcomes, At, payment
<1>5. ASSUME NEW t \in Tasks, CountAccounts(t) PROVE Quiet
  <2>1. sets' = sets /\ task' = [task EXCEPT ![t] = [@ EXCEPT !.pc = "find"]]
    BY <1>5, NeverFull DEF CountAccounts, Goto
  <2>2. [task[t] EXCEPT !.pc = "find"].pc \notin Looked
    BY <1>b DEF Task, Looked
  <2> QED  BY <1>5, <2>1, <2>2, QuietCall DEF CountAccounts, At, payment
<1>6. ASSUME NEW r \in Requests, ReadBalance(r) PROVE Quiet
  <2>1. PICK e : e.pc \notin Looked /\ task' = [task EXCEPT ![r] = e]
    <3>1. \A w : [task[r] EXCEPT !.pc = "submit", !.wallet = w].pc \notin Looked
      BY <1>a, <1>b DEF Task, Looked
    <3>2. [task[r] EXCEPT !.pc = "failed"].pc \notin Looked
      BY <1>a, <1>b DEF Task, Looked
    <3> QED  BY <1>6, <3>1, <3>2 DEF ReadBalance, Goto
  <2> QED  BY <1>a, <1>6, <2>1, QuietCall DEF ReadBalance, At, creation, payment
<1>7. ASSUME NEW r \in Requests, NEW to, Submit(r, to) PROVE Quiet
  <2>1. [task[r] EXCEPT !.pc = "done"].pc \notin Looked
    BY <1>a, <1>b DEF Task, Looked
  <2> QED  BY <1>a, <1>7, <2>1, QuietCall DEF Submit, Goto, At, creation
<1>8. ASSUME NEW p, NEW from, NEW to, PayElsewhere(p, from, to) \/ Complete(p) PROVE Quiet
  BY <1>8 DEF PayElsewhere, Complete, Quiet, creation
<1>9. ASSUME NEW d, NEW n, Deliver(d, n) \/ DeliveryStep(d) \/ FailDelivery(d) PROVE Quiet
  BY <1>9 DEF Deliver, DeliveryStep, OutboundFind, OutboundSender, InboundWallet, InboundFind,
              Record, FailDelivery, Quiet, creation
<1>10. CASE UNCHANGED cvars
  BY <1>10 DEF cvars, creation, payment, Quiet
<1> QED  BY <1>1, <1>2, <1>3, <1>4, <1>5, <1>6, <1>7, <1>8, <1>9, <1>10, SceneTyped
            DEF Next, CreationStep, Storing, StoringNaira
-----------------------------------------------------------------------------
\* What a call about to store has looked for was not stored when it looked.
LookedFirst(t) ==
    /\ task[t].pc \in {"mint", "save"} =>
          /\ task[t].knew <= Len(accounts)
          /\ \A i \in OwnAccounts(task[t].user) : task[t].knew < i
    /\ task[t].pc \in {"bank", "open"} =>
          /\ task[t].knew <= Len(naira)
          /\ \A i \in DOMAIN naira : naira[i].user = task[t].user => task[t].knew < i
    /\ task[t].pc = "newset" =>
          /\ task[t].knew <= Len(sets)
          /\ \A s \in Active : task[t].knew < s

OverlapInv == SecondByOverlap /\ \A t \in Tasks : LookedFirst(t)

\* What a row is where.
LEMMA Appended ==
    ASSUME NEW S, NEW q \in Seq(S), NEW x \in S
    PROVE  /\ DOMAIN q = 1..Len(q) /\ Len(q) \in Nat
           /\ Len(Append(q, x)) = Len(q) + 1
           /\ DOMAIN Append(q, x) = 1..(Len(q) + 1)
           /\ \A i \in DOMAIN q : Append(q, x)[i] = q[i]
           /\ Append(q, x)[Len(q) + 1] = x
OBVIOUS

\* A step of one call that stores nothing need only have looked first.
LEMMA OneLooks ==
    ASSUME TypeOK, OverlapInv, UNCHANGED <<sets, accounts, naira>>, NEW t \in Tasks,
           LookedFirst(t)', \A c \in Tasks \ {t} : task'[c] = task[c]
    PROVE  OverlapInv'
BY DEF OverlapInv, SecondByOverlap, LookedFirst, OwnAccounts, Active

\* ... and so with the steps between.
LEMMA OverlapKeptByLooking ==
    ASSUME TypeOK, OverlapInv, NEW t \in Tasks,
           \/ FindSet(t) \/ FindAccount(t) \/ Mint(t) \/ MintUnnamed(t)
           \/ FailTask(t) \/ FindNaira(t) \/ OpenNaira(t)
    PROVE  OverlapInv'
<1>1. task \in [Tasks -> Task] /\ task[t] \in Task
  BY DEF TypeOK
<1>2. UNCHANGED <<sets, accounts, naira>> /\ \A c \in Tasks \ {t} : task'[c] = task[c]
  BY <1>1 DEF FindSet, FindAccount, Mint, MintUnnamed, FailTask, FindNaira, OpenNaira, Goto, creation, payment
<1>3. Len(sets) \in Nat /\ Len(accounts) \in Nat /\ Len(naira) \in Nat
  BY AccountTyped
<1>4. ASSUME FindSet(t) PROVE LookedFirst(t)'
  <2>1. \/ task'[t].pc = "count"
        \/ Active = {} /\ task'[t].pc = "newset" /\ task'[t].knew = Len(sets)
    BY <1>1, <1>4 DEF FindSet, Task
  <2> QED  BY <1>2, <1>3, <2>1 DEF LookedFirst, Active
<1>5. ASSUME FindAccount(t) PROVE LookedFirst(t)'
  <2>1. \/ task'[t].pc = "done"
        \/ /\ OwnAccounts(task'[t].user) = {}
           /\ task'[t].pc = "mint" /\ task'[t].knew = Len(accounts)
    BY <1>1, <1>5 DEF FindAccount, Task
  <2> QED  BY <1>2, <1>3, <2>1 DEF LookedFirst, OwnAccounts
<1>6. ASSUME FindNaira(t) PROVE LookedFirst(t)'
  <2>1. \/ task'[t].pc = "failed"
        \/ /\ ~ \E i \in DOMAIN naira : naira[i].user = task'[t].user
           /\ task'[t].pc = "bank" /\ task'[t].knew = Len(naira)
    BY <1>1, <1>6 DEF FindNaira, Task
  <2> QED  BY <1>2, <1>3, <2>1 DEF LookedFirst
<1>7. ASSUME Mint(t) PROVE LookedFirst(t)'
  <2>1. /\ task[t].pc = "mint" /\ task'[t].pc = "save"
        /\ task'[t].user = task[t].user /\ task'[t].knew = task[t].knew
    BY <1>1, <1>7 DEF Mint, At, Task
  <2> QED  BY <1>2, <2>1 DEF OverlapInv, LookedFirst, OwnAccounts
<1>8. ASSUME OpenNaira(t) PROVE LookedFirst(t)'
  <2>1. /\ task[t].pc = "bank" /\ task'[t].pc = "open"
        /\ task'[t].user = task[t].user /\ task'[t].knew = task[t].knew
    BY <1>1, <1>8 DEF OpenNaira, At, Goto, Task
  <2> QED  BY <1>2, <2>1 DEF OverlapInv, LookedFirst
<1>9. ASSUME FailTask(t) \/ MintUnnamed(t) PROVE LookedFirst(t)'
  <2>1. task'[t].pc \in {"failed", "unnamed"}
    BY <1>1, <1>9 DEF FailTask, MintUnnamed, Goto, Task
  <2> QED  BY <2>1 DEF LookedFirst
<1> QED  BY <1>2, <1>4, <1>5, <1>6, <1>7, <1>8, <1>9, OneLooks

\* What is stored comes after all that a call looked at.
LEMMA OverlapKeptByStoring ==
    ASSUME TypeOK, OverlapInv, NEW t \in Tasks, SaveSet(t) \/ SaveAccount(t) \/ SaveNaira(t)
    PROVE  OverlapInv'
<1>1. task \in [Tasks -> Task] /\ task[t] \in Task
  BY DEF TypeOK
<1>2. \A c \in Tasks : task'[c] = task[c] \/ task'[c].pc \notin Looked
  BY <1>1 DEF SaveSet, SaveAccount, SaveNaira, Goto, Looked, Task
<1>3. \A c \in Tasks : LookedFirst(c)
  BY DEF OverlapInv
<1>4. CASE SaveAccount(t)
  <2> DEFINE x == [user |-> task[t].user, set |-> task[t].set, wallet |-> task[t].wallet,
                   name |-> ProviderName, knew |-> task[t].knew]
  <2>1. accounts' = Append(accounts, x) /\ UNCHANGED <<sets, naira>> /\ task[t].pc = "save"
    BY <1>4 DEF SaveAccount, At
  <2>2. accounts \in Seq(Account) /\ x \in Account
    <3>1. task[t].user \in Users
      BY <2>1 DEF TypeOK
    <3> QED  BY <1>1, <3>1 DEF TypeOK, Task, Account
  <2>3. /\ DOMAIN accounts = 1..Len(accounts) /\ Len(accounts) \in Nat
        /\ Len(accounts') = Len(accounts) + 1 /\ DOMAIN accounts' = 1..(Len(accounts) + 1)
        /\ \A i \in DOMAIN accounts : accounts'[i] = accounts[i]
        /\ accounts'[Len(accounts) + 1] = x
    BY <2>1, <2>2, Appended
  <2>4. \A i \in DOMAIN accounts : accounts[i].user = task[t].user => task[t].knew < i
    BY <1>3, <2>1 DEF LookedFirst, OwnAccounts
  <2>5. SecondByOverlap'
    <3> HIDE DEF x
    <3>1. x.user = task[t].user /\ x.knew = task[t].knew
      BY DEF x
    <3> QED  BY <2>1, <2>3, <2>4, <3>1 DEF OverlapInv, SecondByOverlap, Active
  <2>6. \A c \in Tasks : LookedFirst(c)'
    <3> HIDE DEF x
    <3> SUFFICES ASSUME NEW c \in Tasks, task'[c] = task[c] PROVE LookedFirst(c)'
      BY <1>2 DEF LookedFirst, Looked
    <3>1. task[c].knew \in Nat
      BY DEF TypeOK, Task
    <3> QED  BY <1>3, <2>1, <2>3, <3>1 DEF LookedFirst, OwnAccounts, Active
  <2> QED  BY <2>5, <2>6 DEF OverlapInv
<1>5. CASE SaveNaira(t)
  <2> DEFINE x == [user |-> task[t].user, knew |-> task[t].knew]
  <2>1. naira' = Append(naira, x) /\ UNCHANGED <<sets, accounts>> /\ task[t].pc = "open"
    BY <1>5 DEF SaveNaira, At, creation
  <2>2. naira \in Seq(NairaRow) /\ x \in NairaRow
    <3>1. task[t].user \in Users
      BY <2>1 DEF TypeOK
    <3> QED  BY <1>1, <3>1 DEF TypeOK, Task, NairaRow
  <2>3. /\ DOMAIN naira = 1..Len(naira) /\ Len(naira) \in Nat
        /\ Len(naira') = Len(naira) + 1 /\ DOMAIN naira' = 1..(Len(naira) + 1)
        /\ \A i \in DOMAIN naira : naira'[i] = naira[i]
        /\ naira'[Len(naira) + 1] = x
    BY <2>1, <2>2, Appended
  <2>4. \A i \in DOMAIN naira : naira[i].user = task[t].user => task[t].knew < i
    BY <1>3, <2>1 DEF LookedFirst
  <2>5. SecondByOverlap'
    <3> HIDE DEF x
    <3>1. x.user = task[t].user /\ x.knew = task[t].knew
      BY DEF x
    <3> QED  BY <2>1, <2>3, <2>4, <3>1 DEF OverlapInv, SecondByOverlap, Active
  <2>6. \A c \in Tasks : LookedFirst(c)'
    <3> HIDE DEF x
    <3> SUFFICES ASSUME NEW c \in Tasks, task'[c] = task[c] PROVE LookedFirst(c)'
      BY <1>2 DEF LookedFirst, Looked
    <3>1. task[c].knew \in Nat
      BY DEF TypeOK, Task
    <3> QED  BY <1>3, <2>1, <2>3, <3>1 DEF LookedFirst, OwnAccounts, Active
  <2> QED  BY <2>5, <2>6 DEF OverlapInv
<1>6. CASE SaveSet(t)
  <2> DEFINE x == [active |-> TRUE, knew |-> task[t].knew]
  <2>1. sets' = Append(sets, x) /\ UNCHANGED <<naira, accounts>> /\ task[t].pc = "newset"
    BY <1>6 DEF SaveSet, At
  <2>2. sets \in Seq(Set) /\ x \in Set
    BY <1>1 DEF TypeOK, Task, Set
  <2>3. /\ DOMAIN sets = 1..Len(sets) /\ Len(sets) \in Nat
        /\ Len(sets') = Len(sets) + 1 /\ DOMAIN sets' = 1..(Len(sets) + 1)
        /\ \A i \in DOMAIN sets : sets'[i] = sets[i]
        /\ sets'[Len(sets) + 1] = x
    BY <2>1, <2>2, Appended
  <2>4. \A i \in Active : task[t].knew < i
    BY <1>3, <2>1 DEF LookedFirst
  <2>7. Active' \subseteq Active \cup {Len(sets) + 1} /\ \A i \in Active : i \in DOMAIN sets
    BY <2>3 DEF Active
  <2>5. SecondByOverlap'
    <3> HIDE DEF x
    <3>1. x.knew = task[t].knew
      BY DEF x
    <3> QED  BY <2>1, <2>3, <2>4, <2>7, <3>1 DEF OverlapInv, SecondByOverlap
  <2>6. \A c \in Tasks : LookedFirst(c)'
    <3> HIDE DEF x
    <3> SUFFICES ASSUME NEW c \in Tasks, task'[c] = task[c] PROVE LookedFirst(c)'
      BY <1>2 DEF LookedFirst, Looked
    <3>1. task[c].knew \in Nat
      BY DEF TypeOK, Task
    <3> QED  BY <1>3, <2>1, <2>3, <2>7, <3>1 DEF LookedFirst, OwnAccounts
  <2> QED  BY <2>5, <2>6 DEF OverlapInv
<1> QED  BY <1>4, <1>5, <1>6

\* A second crypto account, naira account or active wallet set comes only of
\* a call that had looked before the first was stored (createWalletForUser,
\* createVirtualAccount, createWalletSet): the calls about to store have not
\* seen what was stored since they looked, and no set is ever full.
THEOREM SecondsOverlap == Spec => []SecondByOverlap
<1>1. Init => OverlapInv
  BY DEF Init, OverlapInv, SecondByOverlap, LookedFirst, Active, Idle
<1>2. TypeOK /\ OverlapInv /\ [Next]_cvars => OverlapInv'
  <2> SUFFICES ASSUME TypeOK, OverlapInv, [Next]_cvars PROVE OverlapInv'
    OBVIOUS
  <2>1. CASE Quiet
    BY <2>1 DEF Quiet, Looked, OverlapInv, SecondByOverlap, LookedFirst, OwnAccounts, Active
  <2>2. CASE Restart
    <3>1. UNCHANGED <<sets, accounts, naira>>
      BY <2>2 DEF Restart
    <3>2. \A t \in Tasks : task'[t] = task[t] \/ task'[t].pc \notin Looked
      <4> SUFFICES ASSUME NEW t \in Tasks PROVE task'[t] = task[t] \/ task'[t].pc \notin Looked
        OBVIOUS
      <4>1. task[t] \in Task
        BY DEF TypeOK
      <4>2. task'[t] \in {Idle, task[t], [task[t] EXCEPT !.pc = "failed"]}
        BY <2>2 DEF Restart
      <4>3. Idle.pc \notin Looked /\ [task[t] EXCEPT !.pc = "failed"].pc \notin Looked
        BY <4>1 DEF Idle, Task, Looked
      <4> QED  BY <4>2, <4>3
    <3> QED  BY <3>1, <3>2 DEF Looked, OverlapInv, SecondByOverlap, LookedFirst, OwnAccounts, Active
  <2>3. ASSUME NEW t \in Tasks, Storing(t) PROVE OverlapInv'
    BY <2>3, OverlapKeptByLooking, OverlapKeptByStoring DEF Storing
  <2>4. ASSUME NEW r \in Requests, StoringNaira(r) PROVE OverlapInv'
    BY <2>4, OverlapKeptByLooking, OverlapKeptByStoring DEF StoringNaira, Tasks
  <2> QED  BY <2>1, <2>2, <2>3, <2>4, StepsOfStoring
<1>3. OverlapInv => SecondByOverlap
  BY DEF OverlapInv
<1> QED  BY <1>1, <1>2, <1>3, TypeCorrect, PTL DEF Spec
-----------------------------------------------------------------------------
\* Accounts are only added, at the end.
LEMMA AccountsStay ==
    ASSUME TypeOK, [Next]_cvars
    PROVE  \A i \in DOMAIN accounts : i \in DOMAIN accounts' /\ accounts'[i] = accounts[i]
<1>1. ASSUME NEW t \in Tasks, SaveAccount(t)
      PROVE  \A i \in DOMAIN accounts : i \in DOMAIN accounts' /\ accounts'[i] = accounts[i]
  <2>1. task[t].user \in Users /\ task[t] \in Task
    BY <1>1 DEF SaveAccount, At, TypeOK
  <2>2. PICK x \in Account : accounts' = Append(accounts, x)
    BY <1>1, <2>1 DEF SaveAccount, Task, Account
  <2>3. accounts \in Seq(Account)
    BY DEF TypeOK
  <2> QED  BY <2>2, <2>3, Appended
<1>2. ASSUME NEW t \in Tasks,
             FindSet(t) \/ SaveSet(t) \/ FindAccount(t) \/ Mint(t) \/ MintUnnamed(t) \/ FailTask(t)
      PROVE  accounts' = accounts
  BY <1>2 DEF FindSet, SaveSet, FindAccount, Mint, MintUnnamed, FailTask, creation
<1>3. ASSUME NEW r \in Requests, StoringNaira(r) PROVE accounts' = accounts
  BY <1>3 DEF StoringNaira, FindNaira, OpenNaira, SaveNaira, creation
<1>4. Quiet \/ Restart => accounts' = accounts
  BY DEF Quiet, Restart
<1> QED  BY <1>1, <1>2, <1>3, <1>4, StepsOfStoring DEF Storing

\* A wallet whose call did not store it stays accounted for.
LEMMA StillAccounted ==
    ASSUME TypeOK, [Next]_cvars, WalletsAccounted, wallets' = wallets,
           \A t \in Tasks : InHand(t) \subseteq InHand(t)' \cup mislaid' \cup {w \in Nat : AccountOf(w)' # {}},
           mislaid \subseteq mislaid'
    PROVE  WalletsAccounted'
<1>1. \A w : AccountOf(w) \subseteq AccountOf(w)'
  BY AccountsStay DEF AccountOf
<1>2. SUFFICES ASSUME NEW w \in 1..wallets
               PROVE  AccountOf(w)' # {} \/ w \in mislaid' \/ \E t \in Tasks : w \in InHand(t)'
  BY DEF WalletsAccounted
<1> QED  BY <1>1, <1>2 DEF WalletsAccounted

\* No wallet the provider has made is forgotten (createWalletForUser): from
\* the answer on it is in the hand of the call that asked for it, until an
\* account names it or that call fails; a wallet the answer does not name is
\* counted with those no row will ever name.
THEOREM WalletsNamed == Spec => []WalletsAccounted
<1>1. Init => WalletsAccounted
  BY DEF Init, WalletsAccounted
<1>2. TypeOK /\ WalletsAccounted /\ [Next]_cvars => WalletsAccounted'
  <2> SUFFICES ASSUME TypeOK, WalletsAccounted, [Next]_cvars PROVE WalletsAccounted'
    OBVIOUS
  <2>a. task \in [Tasks -> Task] /\ wallets \in Nat /\ accounts \in Seq(Account)
    BY DEF TypeOK
  <2>1. ASSUME wallets' = wallets, mislaid' = mislaid,
               \A t \in Tasks : task'[t] = task[t] \/ task[t].pc # "save"
        PROVE  WalletsAccounted'
    BY <2>1, StillAccounted DEF InHand, At
  <2>2. CASE Quiet
    BY <2>1, <2>2 DEF Quiet
  <2>3. CASE Restart
    BY <2>3, StillAccounted DEF Restart
  <2>4. ASSUME NEW t \in Tasks, FailTask(t) PROVE WalletsAccounted'
    <3>1. \A c \in Tasks \ {t} : InHand(c)' = InHand(c)
      BY <2>4, <2>a DEF FailTask, Goto, InHand, At
    <3> QED  BY <2>4, <3>1, StillAccounted DEF FailTask
  <2>5. ASSUME NEW t \in Tasks, SaveAccount(t) PROVE WalletsAccounted'
    <3>1. \A c \in Tasks \ {t} : InHand(c)' = InHand(c)
      BY <2>5, <2>a DEF SaveAccount, Goto, InHand, At
    <3> DEFINE x == [user |-> task[t].user, set |-> task[t].set, wallet |-> task[t].wallet,
                     name |-> ProviderName, knew |-> task[t].knew]
    <3>2. x \in Account /\ x.wallet = task[t].wallet /\ accounts' = Append(accounts, x)
      <4>1. task[t].user \in Users /\ task[t] \in Task
        BY <2>5, <2>a DEF SaveAccount, At, TypeOK
      <4> QED  BY <2>5, <4>1 DEF SaveAccount, Task, Account
    <3>3. \A w : w = task[t].wallet => Len(accounts) + 1 \in AccountOf(w)'
      <4> HIDE DEF x
      <4> QED  BY <2>a, <3>2, Appended DEF AccountOf
    <3>4. \A w \in InHand(t) : w \in Nat /\ AccountOf(w)' # {}
      BY <2>a, <3>3 DEF InHand, Task
    <3> QED  BY <2>5, <3>1, <3>4, StillAccounted DEF SaveAccount
  <2>6. ASSUME NEW t \in Tasks, Mint(t) PROVE WalletsAccounted'
    <3>1. \A c \in Tasks : InHand(c) \subseteq InHand(c)'
      BY <2>6, <2>a DEF Mint, InHand, At
    <3>2. wallets + 1 \in InHand(t)'
      BY <2>6, <2>a DEF Mint, InHand, At, Task
    <3>3. 1..wallets' = 1..wallets \cup {wallets + 1} /\ UNCHANGED <<accounts, mislaid>>
      BY <2>6, <2>a DEF Mint
    <3>4. \A w : AccountOf(w)' = AccountOf(w)
      BY <3>3 DEF AccountOf
    <3> QED  BY <3>1, <3>2, <3>3, <3>4 DEF WalletsAccounted
  <2>9. ASSUME NEW t \in Tasks, MintUnnamed(t) PROVE WalletsAccounted'
    <3>1. \A c \in Tasks : InHand(c) \subseteq InHand(c)'
      <4>1. \A c \in Tasks \ {t} : task'[c] = task[c]
        BY <2>9, <2>a DEF MintUnnamed, Goto
      <4>2. task[t].pc = "mint"
        BY <2>9 DEF MintUnnamed, At
      <4> QED  BY <4>1, <4>2 DEF InHand, At
    <3>2. mislaid' = mislaid \cup {wallets + 1}
      BY <2>9 DEF MintUnnamed
    <3>3. 1..wallets' = 1..wallets \cup {wallets + 1} /\ UNCHANGED accounts
      BY <2>9, <2>a DEF MintUnnamed
    <3>4. \A w : AccountOf(w)' = AccountOf(w)
      BY <3>3 DEF AccountOf
    <3> QED  BY <3>1, <3>2, <3>3, <3>4 DEF WalletsAccounted
  <2>7. ASSUME NEW t \in Tasks, FindSet(t) \/ SaveSet(t) \/ FindAccount(t) PROVE WalletsAccounted'
    <3>1. task[t].pc # "save" /\ \A c \in Tasks \ {t} : task'[c] = task[c]
      BY <2>7, <2>a DEF FindSet, SaveSet, FindAccount, At
    <3>2. wallets' = wallets /\ mislaid' = mislaid
      BY <2>7 DEF FindSet, SaveSet, FindAccount, creation
    <3> QED  BY <2>1, <3>1, <3>2
  <2>8. ASSUME NEW r \in Requests, StoringNaira(r) PROVE WalletsAccounted'
    <3>1. r \in Tasks /\ task[r].pc # "save" /\ \A c \in Tasks \ {r} : task'[c] = task[c]
      BY <2>8, <2>a DEF StoringNaira, FindNaira, OpenNaira, SaveNaira, Goto, At, Tasks
    <3>2. wallets' = wallets /\ mislaid' = mislaid
      BY <2>8 DEF StoringNaira, FindNaira, OpenNaira, SaveNaira, creation
    <3> QED  BY <2>1, <3>1, <3>2
  <2> QED  BY <2>2, <2>3, <2>4, <2>5, <2>6, <2>7, <2>8, <2>9, StepsOfStoring DEF Storing
<1> QED  BY <1>1, <1>2, TypeCorrect, PTL DEF Spec
-----------------------------------------------------------------------------
\* A request that is done stays done.
LEMMA DoneStays ==
    ASSUME TypeOK, [Next]_cvars, NEW c \in Requests, task[c].pc = "done"
    PROVE  task'[c].pc = "done"
<1>a. task \in [Tasks -> Task] /\ c \in Tasks /\ c # Worker /\ Worker \in Tasks
  BY CryptoAssumption DEF TypeOK, Tasks
<1>1. ASSUME NEW r \in Requests, NEW u, NEW label, Begin(r, u, label) PROVE task'[c] = task[c]
  BY <1>1, <1>a DEF Begin, At
<1>2. ASSUME NEW v, CheckOtp(v) \/ Verify(v) \/ Enqueue(v) \/ TakeJob(v) PROVE task'[c] = task[c]
  BY <1>2, <1>a DEF CheckOtp, Verify, Enqueue, TakeJob
<1>3. ASSUME NEW outcome, EndJob(outcome) PROVE task'[c] = task[c]
  BY <1>3, <1>a DEF EndJob
<1>4. ASSUME NEW t \in Tasks, CreationStep(t) PROVE task'[c] = task[c]
  BY <1>4, <1>a DEF CreationStep, FindSet, CountAccounts, SaveSet, FindAccount, Mint, MintUnnamed,
                    SaveAccount, At, Goto
<1>5. ASSUME NEW t \in Tasks, FailTask(t) PROVE task'[c] = task[c]
  BY <1>5, <1>a DEF FailTask, Goto, Running
<1>6. ASSUME NEW r \in Requests, StoringNaira(r) \/ ReadBalance(r) PROVE task'[c] = task[c]
  BY <1>6, <1>a DEF StoringNaira, FindNaira, OpenNaira, SaveNaira, ReadBalance, At, Goto
<1>7. ASSUME NEW r \in Requests, NEW to, Submit(r, to) PROVE task'[c] = task[c]
  BY <1>7, <1>a DEF Submit, At, Goto
<1>8. ASSUME NEW p, NEW from, NEW to, PayElsewhere(p, from, to) PROVE task'[c] = task[c]
  BY <1>8 DEF PayElsewhere
<1>9. ASSUME NEW p, Complete(p) PROVE task'[c] = task[c]
  BY <1>9 DEF Complete
<1>12. ASSUME NEW d, NEW n, Deliver(d, n) PROVE task'[c] = task[c]
  BY <1>12 DEF Deliver
<1>13. ASSUME NEW d, DeliveryStep(d) \/ FailDelivery(d) PROVE task'[c] = task[c]
  BY <1>13 DEF DeliveryStep, OutboundFind, OutboundSender, InboundWallet, InboundFind,
               Record, FailDelivery
<1>10. CASE Restart
  BY <1>10, <1>a DEF Restart, Running
<1>11. CASE UNCHANGED cvars
  BY <1>11 DEF cvars
<1> QED  BY <1>1, <1>2, <1>3, <1>4, <1>5, <1>6, <1>7, <1>8, <1>9, <1>10, <1>11, <1>12, <1>13, SceneTyped
            DEF Next, StoringNaira

\* The steps that concern payments.
LEMMA StepsOfPayment ==
    ASSUME TypeOK, [Next]_cvars
    PROVE  \/ UNCHANGED payment
           \/ \E r \in Requests, to \in 0..wallets : Submit(r, to)
           \/ \E p \in Outside, from, to \in 0..wallets : PayElsewhere(p, from, to)
           \/ \E p \in Requests \cup Outside : Complete(p)
           \/ \E d \in Deliveries, n \in notices : Deliver(d, n)
           \/ \E d \in Deliveries : DeliveryStep(d) \/ FailDelivery(d)
           \/ Restart
<1>1. ASSUME NEW r, NEW u, NEW label, Begin(r, u, label) PROVE UNCHANGED payment
  BY <1>1 DEF Begin
<1>2. ASSUME NEW v, CheckOtp(v) \/ Verify(v) \/ Enqueue(v) \/ TakeJob(v) PROVE UNCHANGED payment
  BY <1>2 DEF CheckOtp, Verify, Enqueue, TakeJob
<1>3. ASSUME NEW outcome, EndJob(outcome) PROVE UNCHANGED payment
  BY <1>3 DEF EndJob
<1>4. ASSUME NEW t, CreationStep(t) \/ FailTask(t) PROVE UNCHANGED payment
  BY <1>4 DEF CreationStep, FindSet, CountAccounts, SaveSet, FindAccount, Mint, MintUnnamed,
              SaveAccount, FailTask
<1>5. ASSUME NEW r, StoringNaira(r) \/ ReadBalance(r) PROVE UNCHANGED payment
  BY <1>5 DEF StoringNaira, FindNaira, OpenNaira, SaveNaira, ReadBalance
<1>6. UNCHANGED cvars => UNCHANGED payment
  BY DEF cvars
<1> QED  BY <1>1, <1>2, <1>3, <1>4, <1>5, <1>6, SceneTyped DEF Next, StoringNaira

\* A payment is under way, and as far as a notification says.
Told(n) ==
    /\ payments[n.pay] # Nothing
    /\ n.state = "COMPLETE" => payments[n.pay].state = "COMPLETE"

\* What RowsTellPayments says of one row.
Tells(x) ==
    LET p == payments[x.pay]
        end == IF x.type = "Deposit" THEN p.to ELSE p.from
    IN  /\ p # Nothing
        /\ \E i \in AccountOf(end) : accounts[i].user = x.user
        /\ x.type = "Transfer" => AccountOf(p.to) # {}
        /\ x.status = "COMPLETE" => p.state = "COMPLETE"

Owns(u, n) == \E i \in Owner(n) : accounts[i].user = u

\* What a webhook call has been told is true, and its user owns an end.
CallTrue(d) ==
    /\ delivery[d].pc # "idle" => Told(delivery[d].notice)
    /\ HasUser(delivery[d]) => Owns(delivery[d].user, delivery[d].notice)

PaymentInv ==
    /\ \A r \in Requests : payments[r] # Nothing => task[r].pc = "done"
    /\ \A n \in notices : Told(n)
    /\ \A d \in Deliveries : CallTrue(d)
    /\ \A x \in rows : Tells(x)

\* A payment keeps its ends, and is not undone.
LEMMA PaymentsStay ==
    ASSUME TypeOK, PaymentInv, [Next]_cvars
    PROVE  \A p \in Requests \cup Outside :
              payments[p] # Nothing =>
                 /\ payments'[p] # Nothing
                 /\ payments'[p].from = payments[p].from /\ payments'[p].to = payments[p].to
                 /\ payments[p].state = "COMPLETE" => payments'[p].state = "COMPLETE"
<1>a. payments \in [Requests \cup Outside -> Payment \cup {Nothing}]
  BY DEF TypeOK
<1> SUFFICES ASSUME NEW p \in Requests \cup Outside, payments[p] # Nothing
             PROVE  /\ payments'[p] # Nothing
                    /\ payments'[p].from = payments[p].from /\ payments'[p].to = payments[p].to
                    /\ payments[p].state = "COMPLETE" => payments'[p].state = "COMPLETE"
  OBVIOUS
<1>1. ASSUME NEW r \in Requests, NEW to \in 0..wallets, Submit(r, to) PROVE payments'[p] = payments[p]
  <2>1. p # r
    BY <1>1 DEF Submit, At, PaymentInv
  <2> QED  BY <1>a, <1>1, <2>1 DEF Submit
<1>2. ASSUME NEW q \in Outside, NEW from, NEW to, PayElsewhere(q, from, to) PROVE payments'[p] = payments[p]
  BY <1>a, <1>2 DEF PayElsewhere
<1>3. ASSUME NEW q \in Requests \cup Outside, Complete(q)
      PROVE  payments'[p] = payments[p] \/ payments'[p] = [payments[p] EXCEPT !.state = "COMPLETE"]
  BY <1>a, <1>3 DEF Complete
<1>4. payments' # payments =>
         \/ \E r \in Requests, to \in 0..wallets : Submit(r, to)
         \/ \E q \in Outside, from, to \in 0..wallets : PayElsewhere(q, from, to)
         \/ \E q \in Requests \cup Outside : Complete(q)
  BY StepsOfPayment DEF payment, Deliver, DeliveryStep, OutboundFind, OutboundSender, InboundWallet,
                        InboundFind, Record, FailDelivery, Restart
<1>5. payments'[p] = payments[p] \/ payments'[p] = [payments[p] EXCEPT !.state = "COMPLETE"]
  BY <1>1, <1>2, <1>3, <1>4
<1>6. payments[p] \in Payment /\ [payments[p] EXCEPT !.state = "COMPLETE"] \in Payment
  BY <1>a DEF Payment
<1>7. \A q \in Payment : q # Nothing
  BY CryptoAssumption
<1> QED  BY <1>5, <1>6, <1>7 DEF Payment

\* What was true of a notification, an owner and a row stays true.
LEMMA TruthStays ==
    ASSUME TypeOK, PaymentInv, [Next]_cvars
    PROVE  /\ \A n \in Notice : Told(n) => Told(n)'
           /\ \A n \in Notice : \A u : Told(n) /\ Owns(u, n) => Owns(u, n)'
           /\ \A x \in Row : Tells(x) => Tells(x)'
<1>1. \A n \in Notice : n.pay \in Requests \cup Outside
  BY DEF Notice
<1>2. \A w, i : i \in AccountOf(w) => i \in AccountOf(w)' /\ accounts'[i] = accounts[i]
  BY AccountsStay DEF AccountOf
<1>3. ASSUME NEW n \in Notice, Told(n) PROVE Told(n)'
  BY <1>1, <1>3, PaymentsStay DEF Told
<1>4. ASSUME NEW n \in Notice, NEW u, Told(n), Owns(u, n) PROVE Owns(u, n)'
  <2>1. payments'[n.pay].from = payments[n.pay].from /\ payments'[n.pay].to = payments[n.pay].to
    BY <1>1, <1>4, PaymentsStay DEF Told
  <2> QED  BY <1>2, <1>4, <2>1 DEF Owns, Owner, Sender, Receiver
<1>5. ASSUME NEW x \in Row, Tells(x) PROVE Tells(x)'
  <2>1. x.pay \in Requests \cup Outside /\ payments[x.pay] # Nothing
    BY <1>5 DEF Row, Tells
  <2>2. /\ payments'[x.pay] # Nothing
        /\ payments'[x.pay].from = payments[x.pay].from /\ payments'[x.pay].to = payments[x.pay].to
        /\ payments[x.pay].state = "COMPLETE" => payments'[x.pay].state = "COMPLETE"
    BY <2>1, PaymentsStay
  <2> QED  BY <1>2, <1>5, <2>2 DEF Tells
<1> QED  BY <1>3, <1>4, <1>5

\* No row bears the name of a payment: none is ever found by it.
LEMMA NoneKnown ==
    ASSUME TypeOK, NEW n \in Notice
    PROVE  Known(n) = {}
<1>1. n.pay # Nothing
  BY CryptoAssumption DEF Notice
<1>2. \A x \in rows : x.externalRef = Nothing
  BY DEF TypeOK, Row
<1> QED  BY <1>1, <1>2 DEF Known

\* A webhook call that does nothing stays so.
LEMMA CallStays ==
    ASSUME TypeOK, PaymentInv, [Next]_cvars, NEW d \in Deliveries, delivery'[d] = delivery[d]
    PROVE  CallTrue(d)'
<1>1. CASE delivery[d].pc = "idle"
  BY <1>1 DEF CallTrue, HasUser
<1>2. CASE delivery[d].pc # "idle"
  <2>1. delivery[d].notice \in Notice /\ CallTrue(d)
    BY <1>2 DEF TypeOK, PaymentInv
  <2>2. PICK n \in Notice : n = delivery[d].notice
    BY <2>1
  <2>3. PICK u : u = delivery[d].user
    OBVIOUS
  <2>4. Told(n)' /\ (HasUser(delivery[d]) => Owns(u, n)')
    BY <1>2, <2>1, <2>2, <2>3, TruthStays DEF CallTrue
  <2>5. n = delivery'[d].notice /\ u = delivery'[d].user
    BY <2>2, <2>3
  <2> QED  BY <2>4, <2>5 DEF CallTrue, Told, Owns, Owner, Sender, Receiver
<1> QED  BY <1>1, <1>2

\* A step that leaves the webhook calls alone, and whose notices are true.
LEMMA OnlyNotices ==
    ASSUME TypeOK, PaymentInv, [Next]_cvars, UNCHANGED <<delivery, rows>>,
           \A n \in notices' : n \in notices \/ Told(n)',
           \A r \in Requests : payments'[r] # Nothing => task'[r].pc = "done"
    PROVE  PaymentInv'
<1>1. \A n \in notices' : Told(n)'
  BY TruthStays DEF PaymentInv, TypeOK
<1>2. \A x \in rows' : Tells(x)'
  BY TruthStays DEF PaymentInv, TypeOK
<1>3. \A d \in Deliveries : CallTrue(d)'
  BY CallStays
<1> QED  BY <1>1, <1>2, <1>3 DEF PaymentInv

\* A step of one webhook call.
LEMMA OnlyOneCall ==
    ASSUME TypeOK, PaymentInv, [Next]_cvars, payments' = payments, notices' \subseteq notices,
           \A x \in rows' : x \in rows \/ Tells(x)',
           NEW d \in Deliveries, \A c \in Deliveries \ {d} : delivery'[c] = delivery[c],
           CallTrue(d)'
    PROVE  PaymentInv'
<1>1. \A r \in Requests : payments'[r] # Nothing => task'[r].pc = "done"
  BY DoneStays DEF PaymentInv
<1>2. \A n \in notices' : Told(n)'
  BY TruthStays DEF PaymentInv, TypeOK
<1>3. \A x \in rows' : Tells(x)'
  BY TruthStays DEF PaymentInv, TypeOK
<1>4. \A c \in Deliveries : CallTrue(c)'
  BY CallStays
<1> QED  BY <1>1, <1>2, <1>3, <1>4 DEF PaymentInv

\* A webhook call whose step is about the notification it has, for a user
\* that owns the end the notification is about.
LEMMA CallGoesOnTrue ==
    ASSUME TypeOK, PaymentInv, [Next]_cvars, NEW d \in Deliveries, delivery[d].pc # "idle",
           delivery'[d].notice = delivery[d].notice,
           HasUser(delivery'[d]) => Owns(delivery'[d].user, delivery[d].notice)
    PROVE  CallTrue(d)'
<1>1. PICK n \in Notice : n = delivery[d].notice
  BY DEF TypeOK
<1>2. PICK u : u = delivery'[d].user
  OBVIOUS
<1>3. Told(n)' /\ (HasUser(delivery'[d]) => Owns(u, n)')
  BY <1>1, <1>2, TruthStays DEF PaymentInv, CallTrue
<1> QED  BY <1>1, <1>2, <1>3 DEF CallTrue, Told, Owns, Owner, Sender, Receiver

\* What a notification of a new state says is true.
LEMMA NewsIsTrue ==
    ASSUME NEW p, NEW from, NEW to, NEW state, payments'[p] # Nothing,
           state = "COMPLETE" => payments'[p].state = "COMPLETE",
           notices' = notices \cup NoticesOf(p, from, to, state)
    PROVE  \A n \in notices' : n \in notices \/ Told(n)'
BY DEF NoticesOf, Told

\* The steps of a payment and of a webhook call keep what is known of them.
LEMMA PaymentKept ==
    ASSUME TypeOK, PaymentInv, [Next]_cvars
    PROVE  PaymentInv'
<1>a. /\ payments \in [Requests \cup Outside -> Payment \cup {Nothing}]
      /\ delivery \in [Deliveries -> Delivery]
      /\ task \in [Tasks -> Task] /\ Requests \subseteq Tasks
  BY DEF TypeOK, Tasks
<1>b. \A d \in Deliveries : delivery[d].pc # "idle" => delivery[d].notice \in Notice
  BY DEF TypeOK
<1>c. \A q \in Payment : q # Nothing
  BY CryptoAssumption
<1>1. CASE UNCHANGED payment
  <2>1. \A r \in Requests : payments'[r] # Nothing => task'[r].pc = "done"
    BY <1>1, DoneStays DEF PaymentInv, payment
  <2> QED  BY <1>1, <2>1, OnlyNotices DEF payment
<1>2. ASSUME NEW r \in Requests, NEW to \in 0..wallets, Submit(r, to) PROVE PaymentInv'
  <2>1. [from |-> task[r].wallet, to |-> to, state |-> "SENT"] \in Payment
    BY <1>a DEF Task, Payment, TypeOK
  <2>2. payments'[r] # Nothing /\ \A q \in Requests \ {r} : payments'[q] = payments[q]
    BY <1>2, <1>a, <1>c, <2>1 DEF Submit
  <2>3. \A q \in Requests : payments'[q] # Nothing => task'[q].pc = "done"
    <3>1. task'[r].pc = "done"
      BY <1>2, <1>a DEF Submit, Goto, Task
    <3> QED  BY <2>2, <3>1, DoneStays DEF PaymentInv
  <2>4. \A n \in notices' : n \in notices \/ Told(n)'
    BY <1>2, <2>2, NewsIsTrue DEF Submit
  <2> QED  BY <1>2, <2>3, <2>4, OnlyNotices DEF Submit
<1>3. ASSUME NEW p \in Outside, NEW from \in 0..wallets, NEW to \in 0..wallets,
             PayElsewhere(p, from, to)
      PROVE  PaymentInv'
  <2>1. [from |-> from, to |-> to, state |-> "SENT"] \in Payment
    BY DEF Payment, TypeOK
  <2>2. payments'[p] # Nothing /\ \A q \in Requests : payments'[q] = payments[q]
    BY <1>3, <1>a, <1>c, <2>1, CryptoAssumption DEF PayElsewhere
  <2>3. \A q \in Requests : payments'[q] # Nothing => task'[q].pc = "done"
    BY <2>2, DoneStays DEF PaymentInv
  <2>4. \A n \in notices' : n \in notices \/ Told(n)'
    BY <1>3, <2>2, NewsIsTrue DEF PayElsewhere
  <2> QED  BY <1>3, <2>3, <2>4, OnlyNotices DEF PayElsewhere
<1>4. ASSUME NEW p \in Requests \cup Outside, Complete(p) PROVE PaymentInv'
  <2>1. payments[p] # Nothing /\ payments[p] \in Payment
    BY <1>4, <1>a DEF Complete
  <2>2. payments'[p] # Nothing /\ payments'[p].state = "COMPLETE"
    <3>1. payments'[p] = [payments[p] EXCEPT !.state = "COMPLETE"]
      BY <1>4, <1>a DEF Complete
    <3>2. [payments[p] EXCEPT !.state = "COMPLETE"] \in Payment
      BY <2>1 DEF Payment
    <3> QED  BY <1>c, <2>1, <3>1, <3>2 DEF Payment
  <2>3. \A q \in Requests : payments'[q] # Nothing => task'[q].pc = "done"
    <3>1. \A q \in Requests : q # p => payments'[q] = payments[q]
      BY <1>4, <1>a DEF Complete
    <3> QED  BY <2>1, <3>1, DoneStays DEF PaymentInv
  <2>4. \A n \in notices' : n \in notices \/ Told(n)'
    BY <1>4, <2>2, NewsIsTrue DEF Complete
  <2> QED  BY <1>4, <2>3, <2>4, OnlyNotices DEF Complete
<1>5. ASSUME NEW d \in Deliveries, NEW n \in notices, Deliver(d, n) PROVE PaymentInv'
  <2>1. Told(n)'
    BY TruthStays DEF PaymentInv, TypeOK
  <2>2. delivery'[d].notice = n /\ ~HasUser(delivery'[d])
    BY <1>5, <1>a DEF Deliver, HasUser
  <2>3. CallTrue(d)'
    BY <2>1, <2>2 DEF CallTrue, Told, HasUser
  <2>4. \A c \in Deliveries \ {d} : delivery'[c] = delivery[c]
    BY <1>5, <1>a DEF Deliver
  <2> QED  BY <1>5, <2>3, <2>4, OnlyOneCall DEF Deliver
<1>6. ASSUME NEW d \in Deliveries, OutboundFind(d) PROVE PaymentInv'
  <2>1. Known(delivery[d].notice) = {} /\ delivery[d].notice.dir = "out"
    BY <1>6, <1>b, NoneKnown DEF OutboundFind
  <2>2. Hear(d, "second") /\ UNCHANGED <<payments, rows, notices>> /\ delivery[d].pc = "start"
    BY <1>6, <2>1 DEF OutboundFind
  <2>3. delivery'[d].notice = delivery[d].notice /\ ~HasUser(delivery'[d])
    BY <1>a, <2>1, <2>2 DEF Hear, HasUser, Delivery
  <2>4. \A c \in Deliveries \ {d} : delivery'[c] = delivery[c]
    BY <1>a, <2>2 DEF Hear
  <2> QED  BY <2>2, <2>3, <2>4, CallGoesOnTrue, OnlyOneCall
<1>7. ASSUME NEW d \in Deliveries, OutboundSender(d) \/ InboundWallet(d) PROVE PaymentInv'
  <2>1. /\ delivery[d].pc # "idle" /\ UNCHANGED <<payments, rows>> /\ notices' \subseteq notices
        /\ \A c \in Deliveries \ {d} : delivery'[c] = delivery[c]
    BY <1>7, <1>a DEF OutboundSender, InboundWallet, Answer, Hear
  <2>2. /\ delivery'[d].notice = delivery[d].notice
        /\ HasUser(delivery'[d]) => Owns(delivery'[d].user, delivery[d].notice)
    <3>1. CASE OutboundSender(d)
      <4>1. \/ delivery' = [delivery EXCEPT ![d].pc = "answered"]
            \/ \E i \in Sender(delivery[d].notice) :
                  delivery' = [delivery EXCEPT ![d] = [@ EXCEPT !.pc = "record", !.user = accounts[i].user]]
        BY <3>1 DEF OutboundSender, Answer, Hear
      <4> QED  BY <1>a, <3>1, <4>1 DEF OutboundSender, HasUser, Owns, Owner, Delivery
    <3>2. CASE InboundWallet(d)
      <4>1. \/ delivery' = [delivery EXCEPT ![d].pc = "answered"]
            \/ \E i \in Receiver(delivery[d].notice) :
                  delivery' = [delivery EXCEPT ![d] = [@ EXCEPT !.pc = "second", !.user = accounts[i].user]]
        BY <3>2 DEF InboundWallet, Answer, Hear
      <4>2. delivery[d].notice.dir = "in"
        BY <3>2 DEF InboundWallet
      <4>3. ASSUME NEW i \in Receiver(delivery[d].notice),
                   delivery' = [delivery EXCEPT ![d] = [@ EXCEPT !.pc = "second", !.user = accounts[i].user]]
            PROVE  /\ delivery'[d].notice = delivery[d].notice
                   /\ Owns(delivery'[d].user, delivery[d].notice)
        <5>1. /\ delivery'[d].notice = delivery[d].notice
              /\ delivery'[d].user = accounts[i].user
          BY <1>a, <4>3 DEF Delivery
        <5> QED  BY <4>2, <5>1 DEF Owns, Owner
      <4>4. ASSUME delivery' = [delivery EXCEPT ![d].pc = "answered"]
            PROVE  delivery'[d].notice = delivery[d].notice /\ ~HasUser(delivery'[d])
        BY <1>a, <4>4 DEF HasUser, Delivery
      <4> QED  BY <4>1, <4>3, <4>4
    <3> QED  BY <1>7, <3>1, <3>2
  <2> QED  BY <2>1, <2>2, CallGoesOnTrue, OnlyOneCall
<1>8. ASSUME NEW d \in Deliveries, InboundFind(d) PROVE PaymentInv'
  <2>1. Known(delivery[d].notice) = {}
    BY <1>8, <1>b, NoneKnown DEF InboundFind
  <2>2. /\ Hear(d, "record") /\ UNCHANGED <<payments, rows, notices>>
        /\ delivery[d].pc = "second" /\ delivery[d].notice.dir = "in"
    BY <1>8, <2>1 DEF InboundFind
  <2>3. Owns(delivery[d].user, delivery[d].notice)
    BY <2>2 DEF PaymentInv, CallTrue, HasUser
  <2>4. delivery'[d].notice = delivery[d].notice /\ delivery'[d].user = delivery[d].user
    BY <1>a, <2>2 DEF Hear, Delivery
  <2>5. \A c \in Deliveries \ {d} : delivery'[c] = delivery[c]
    BY <1>a, <2>2 DEF Hear
  <2> QED  BY <2>2, <2>3, <2>4, <2>5, CallGoesOnTrue, OnlyOneCall
<1>9. ASSUME NEW d \in Deliveries, Record(d) PROVE PaymentInv'
  <2> DEFINE n == delivery[d].notice
             x == [by |-> d, user |-> delivery[d].user, type |-> RowType(n),
                   pay |-> n.pay, status |-> n.state, externalRef |-> Nothing]
  <2>1. /\ Hear(d, "answered") /\ delivery[d].pc = "record" /\ notices' \subseteq notices
        /\ payments' = payments /\ accounts' = accounts /\ rows' = rows \cup {x}
    BY <1>9 DEF Record, Answer, creation
  <2>2. n \in Notice /\ Told(n) /\ Owns(delivery[d].user, n)
    BY <1>b, <2>1 DEF PaymentInv, CallTrue, HasUser
  <2>3. Tells(x)
    <3>1. CASE n.dir = "in"
      BY <2>2, <3>1 DEF Tells, Told, Owns, Owner, Receiver, RowType
    <3>2. CASE n.dir = "out"
      BY <2>2, <3>2 DEF Tells, Told, Owns, Owner, Sender, Receiver, RowType
    <3> QED  BY <2>2, <3>1, <3>2 DEF Notice
  <2>4. \A y \in rows' : y \in rows \/ Tells(y)'
    <3> HIDE DEF x
    <3>1. Tells(x) => \A y : y = x => Tells(y)'
      BY <2>1 DEF Tells, AccountOf
    <3> QED  BY <2>1, <2>3, <3>1
  <2>5. delivery'[d].notice = delivery[d].notice /\ ~HasUser(delivery'[d])
    BY <1>a, <2>1 DEF Hear, HasUser, Delivery
  <2>6. \A c \in Deliveries \ {d} : delivery'[c] = delivery[c]
    BY <1>a, <2>1 DEF Hear
  <2>7. CallTrue(d)'
    BY <2>1, <2>5, CallGoesOnTrue
  <2> QED  BY <2>1, <2>4, <2>6, <2>7, OnlyOneCall
<1>10. ASSUME NEW d \in Deliveries, FailDelivery(d) PROVE PaymentInv'
  <2>1. /\ Hear(d, "swallowed") /\ delivery[d].pc # "idle" /\ notices' \subseteq notices
        /\ UNCHANGED <<payments, rows>>
    BY <1>10 DEF FailDelivery, Handling
  <2>2. delivery'[d].notice = delivery[d].notice /\ ~HasUser(delivery'[d])
    BY <1>a, <2>1 DEF Hear, HasUser, Delivery
  <2>3. \A c \in Deliveries \ {d} : delivery'[c] = delivery[c]
    BY <1>a, <2>1 DEF Hear
  <2> QED  BY <2>1, <2>2, <2>3, CallGoesOnTrue, OnlyOneCall
<1>11. CASE Restart
  <2>1. UNCHANGED <<payments, notices, rows>>
    BY <1>11 DEF Restart
  <2>2. \A r \in Requests : payments'[r] # Nothing => task'[r].pc = "done"
    BY <2>1, DoneStays DEF PaymentInv
  <2>3. ASSUME NEW d \in Deliveries PROVE CallTrue(d)'
    <3>1. CASE delivery[d].pc \in Handling
      <4>1. delivery'[d] = [delivery[d] EXCEPT !.pc = "broken"] /\ delivery[d] \in Delivery
        BY <1>11, <1>a, <3>1 DEF Restart
      <4>2. delivery[d].pc # "idle" /\ delivery'[d].notice = delivery[d].notice /\ ~HasUser(delivery'[d])
        BY <3>1, <4>1 DEF Handling, HasUser, Delivery
      <4> QED  BY <4>2, CallGoesOnTrue
    <3>2. CASE delivery[d].pc \notin Handling
      <4>1. delivery'[d] = delivery[d]
        BY <1>11, <3>2 DEF Restart
      <4> QED  BY <4>1, CallStays
    <3> QED  BY <3>1, <3>2
  <2>4. (\A n \in notices' : Told(n)') /\ (\A x \in rows' : Tells(x)')
    BY <2>1, TruthStays DEF PaymentInv, TypeOK
  <2> QED  BY <2>2, <2>3, <2>4 DEF PaymentInv
<1> QED  BY <1>1, <1>2, <1>3, <1>4, <1>5, <1>6, <1>7, <1>8, <1>9, <1>10, <1>11, StepsOfPayment
            DEF DeliveryStep

\* What is known of payments holds in every reachable state.
LEMMA PaymentInvHolds == Spec => [](TypeOK /\ PaymentInv)
<1>1. Init => PaymentInv
  BY DEF Init, PaymentInv, CallTrue, HasUser
<1> QED  BY <1>1, PaymentKept, TypeCorrect, PTL DEF Spec

\* A row tells of a payment one end of which its user owns, on the side its
\* type says, and of no state the payment has not reached (the listeners of
\* WebhooksService), although no row is ever found by its payment.
THEOREM RowsTell == Spec => []RowsTellPayments
<1>1. PaymentInv => RowsTellPayments
  BY DEF PaymentInv, Tells, RowsTellPayments
<1> QED  BY <1>1, PaymentInvHolds, PTL

\* A notification that is answered has its row in the history of the owner of
\* its end, unless that end is nobody's or the listener failed.
THEOREM AnsweredRecorded == Spec => AnsweredIsRecorded
<1> DEFINE Step == \A d \in Deliveries : delivery[d].pc \in Handling /\ delivery'[d].pc = "answered" =>
          LET n == delivery[d].notice
          IN  Owner(n) # {} =>
                 \E x \in rows', i \in Owner(n) :
                    /\ x.pay = n.pay /\ x.status = n.state /\ x.user = accounts[i].user
                    /\ (n.dir = "in") = (x.type = "Deposit")
<1>1. TypeOK /\ PaymentInv /\ [Next]_cvars => [Step]_cvars
  <2> SUFFICES ASSUME TypeOK, PaymentInv, [Next]_cvars,
                      NEW d \in Deliveries, delivery[d].pc \in Handling, delivery'[d].pc = "answered",
                      Owner(delivery[d].notice) # {}
               PROVE  \E x \in rows', i \in Owner(delivery[d].notice) :
                         /\ x.pay = delivery[d].notice.pay /\ x.status = delivery[d].notice.state
                         /\ x.user = accounts[i].user
                         /\ (delivery[d].notice.dir = "in") = (x.type = "Deposit")
    OBVIOUS
  <2>a. /\ delivery \in [Deliveries -> Delivery] /\ delivery[d].notice \in Notice
        /\ delivery[d].pc # "idle" /\ delivery[d].pc # "answered"
    BY DEF TypeOK, Handling
  <2>1. \A c, n : ~Deliver(c, n)
    BY <2>a DEF Deliver
  <2>2. ASSUME NEW c \in Deliveries, DeliveryStep(c) \/ FailDelivery(c) PROVE c = d
    BY <2>a, <2>2 DEF DeliveryStep, OutboundFind, OutboundSender, InboundWallet, InboundFind,
                      Record, FailDelivery, Answer, Hear
  <2>3. ASSUME NEW label, Hear(d, label) PROVE label = "answered"
    BY <2>a, <2>3 DEF Hear, Delivery
  <2>4. ~OutboundFind(d) /\ ~InboundFind(d)
    BY <2>a, <2>3, NoneKnown DEF OutboundFind, InboundFind
  <2>5. ~OutboundSender(d)
    <3>1. \A i : delivery' # [delivery EXCEPT ![d] = [@ EXCEPT !.pc = "record", !.user = accounts[i].user]]
      BY <2>a DEF Delivery
    <3> QED  BY <3>1 DEF OutboundSender, Owner
  <2>6. ~InboundWallet(d)
    <3>1. \A i : delivery' # [delivery EXCEPT ![d] = [@ EXCEPT !.pc = "second", !.user = accounts[i].user]]
      BY <2>a DEF Delivery
    <3> QED  BY <3>1 DEF InboundWallet, Owner
  <2>7. ~FailDelivery(d)
    BY <2>3 DEF FailDelivery
  <2>8. ~Restart
    BY <2>a DEF Restart, Delivery
  <2>9. delivery' # delivery
    BY <2>a
  <2>10. Record(d)
    <3>1. DeliveryStep(d) \/ FailDelivery(d)
      BY <2>1, <2>2, <2>8, <2>9, StepsOfPayment DEF payment, Submit, PayElsewhere, Complete
    <3> QED  BY <2>4, <2>5, <2>6, <2>7, <3>1 DEF DeliveryStep
  <2> DEFINE n == delivery[d].notice
             x == [by |-> d, user |-> delivery[d].user, type |-> RowType(n),
                   pay |-> n.pay, status |-> n.state, externalRef |-> Nothing]
  <2>11. x \in rows' /\ delivery[d].pc = "record"
    BY <2>10 DEF Record
  <2>12. PICK i \in Owner(n) : accounts[i].user = delivery[d].user
    BY <2>11 DEF PaymentInv, CallTrue, HasUser, Owns
  <2>13. (n.dir = "in") = (x.type = "Deposit")
    BY <2>a DEF RowType, Notice
  <2> QED  BY <2>11, <2>12, <2>13
<1>2. [](TypeOK /\ PaymentInv) /\ [][Next]_cvars => [][Step]_cvars
  BY <1>1, PTL
<1> QED  BY <1>2, PaymentInvHolds, PTL DEF Spec, AnsweredIsRecorded
=============================================================================
