--------------------------- MODULE WalletsProofs ---------------------------
(***************************************************************************)
(* Theorems about Wallets, for any users, currencies, rate tables, calls   *)
(* and number of concurrent requests.                                      *)
(***************************************************************************)
EXTENDS Wallets, Sums, TLAPS

\* Rounding a quotient gives an integer, and no negative one of a natural.
LEMMA RoundedDivInt ==
    ASSUME NEW a \in Int, NEW b \in Nat \ {0}
    PROVE  RoundedDiv(a, b) \in Int /\ (a >= 0 => RoundedDiv(a, b) >= 0)
<1>1. ASSUME NEW x \in Nat, NEW y \in Nat, y > 0 PROVE x \div y \in Nat
  BY <1>1
<1>2. CASE a >= 0
  <2> DEFINE x == 2 * a + b
             y == 2 * b
  <2>1. x \in Nat /\ y \in Nat /\ y > 0
    BY <1>2
  <2> HIDE DEF x, y
  <2>2. x \div y \in Nat
    BY <1>1, <2>1
  <2>3. RoundedDiv(a, b) = x \div y
    BY <1>2 DEF RoundedDiv, x, y
  <2> QED
    BY <2>2, <2>3
<1>3. CASE ~(a >= 0)
  <2> DEFINE x == b - 2 * a
             y == 2 * b
  <2>1. x \in Nat /\ y \in Nat /\ y > 0
    BY <1>3
  <2> HIDE DEF x, y
  <2>2. x \div y \in Nat
    BY <1>1, <2>1
  <2>3. RoundedDiv(a, b) = -(x \div y)
    BY <1>3 DEF RoundedDiv, x, y
  <2> QED
    BY <1>3, <2>2, <2>3
<1> QED
  BY <1>2, <1>3

\* Whatever the rate table, a conversion credits a whole number of units, and
\* takes none away unless the amount is negative.
LEMMA CreditsInt ==
    ASSUME NEW n \in Int, NEW from \in Currencies, NEW to \in Currencies,
           NEW m \in Credits(from, to, n)
    PROVE  m \in Int /\ (m < 0 => n < 0)
<1>1. ASSUME NEW rates \in RateTables
      PROVE  /\ convertFromRates(n, from, to, rates) \in Int
             /\ n >= 0 => convertFromRates(n, from, to, rates) >= 0
  <2>1. rates[from] \in Nat /\ rates[to] \in Nat \ {0}
    BY RatesArePositive
  <2>2. PICK x \in Int : x = n * rates[from]
    BY <2>1
  <2>3. n >= 0 => x >= 0
    BY <2>1, <2>2
  <2>4. convertFromRates(n, from, to, rates) = RoundedDiv(x, rates[to])
    BY <2>2 DEF convertFromRates
  <2> QED
    BY <2>1, <2>3, <2>4, RoundedDivInt
<1>2. CASE from = to
  BY <1>2 DEF Credits
<1>3. CASE from # to
  <2>1. PICK rates \in RateTables : m = convertFromRates(n, from, to, rates)
    BY <1>3 DEF Credits
  <2>2. PICK x : x = convertFromRates(n, from, to, rates)
    OBVIOUS
  <2> QED
    BY <1>1, <2>1, <2>2
<1> QED
  BY <1>2, <1>3

\* The arguments of a request that has begun.
LEMMA CallFacts ==
    ASSUME TypeOK, NEW r \in Requests, pc[r] # "idle"
    PROVE  /\ call[r] \in Calls
           /\ call[r].kind \in {"transfer", "deposit", "withdraw"}
           /\ call[r].src \in WalletId /\ call[r].dst \in WalletId
           /\ call[r].amount \in Int /\ call[r].amount \in Amounts
           /\ call[r].key \in Keys \cup {NoKey}
           /\ call[r].kind = "transfer" => call[r].key # NoKey
           /\ call[r].kind # "transfer" => call[r].src = call[r].dst /\ call[r].amount >= 0
           /\ call[r].src[1] \in Users /\ call[r].src[2] \in Currencies
           /\ call[r].dst[1] \in Users /\ call[r].dst[2] \in Currencies
<1>1. call[r] \in Calls
  BY DEF TypeOK
<1>2. call[r] \in CallType
  BY <1>1, WalletsAssumption
<1> QED
  BY <1>1, <1>2, WalletsAssumption DEF CallType, WalletId
-----------------------------------------------------------------------------
\* The initial state is well typed.
LEMMA InitType == Init => TypeOK
  BY WalletsAssumption
  DEF Init, TypeOK, NoWrites, NoLocals, Locals, CommittedKeys

\* Ending a transaction, either way, keeps its part of the state well typed.
LEMMA ReleaseType ==
    ASSUME TypeOK, NEW r \in Requests, NEW o \in Answered, Release(r, o),
           UNCHANGED call, pc[r] # "idle"
    PROVE  /\ pc' \in [Requests -> {"idle"} \cup Running \cup Answered]
           /\ \A s \in Requests : pc'[s] # "idle" => call'[s] # NoCall
           /\ pend' \in [Requests -> [WalletId -> Wallet \cup {Unwritten}]]
           /\ loc' \in [Requests -> Locals]
           /\ owner' \in [WalletId -> Requests \cup {Nobody}]
           /\ keyOwner' \in [Keys -> Requests \cup {Nobody}]
<1> USE DEF TypeOK, Release, Goto
<1>1. pc' \in [Requests -> {"idle"} \cup Running \cup Answered]
  OBVIOUS
<1>2. \A s \in Requests : pc'[s] # "idle" => call'[s] # NoCall
  OBVIOUS
<1>3. pend' \in [Requests -> [WalletId -> Wallet \cup {Unwritten}]]
  BY DEF NoWrites
<1>4. loc' \in [Requests -> Locals]
  BY DEF NoLocals, Locals
<1>5. /\ owner' \in [WalletId -> Requests \cup {Nobody}]
      /\ keyOwner' \in [Keys -> Requests \cup {Nobody}]
  OBVIOUS
<1> QED
  BY <1>1, <1>2, <1>3, <1>4, <1>5

\* A rollback does.
LEMMA RollbackType ==
    ASSUME TypeOK, NEW r \in Requests, NEW o \in Answered, Rollback(r, o),
           pc[r] # "idle"
    PROVE  TypeOK'
  BY ReleaseType DEF Rollback, TypeOK, tables

\* Writing a credited row keeps the state well typed.
LEMMA CreditType ==
    ASSUME TypeOK, NEW r \in Requests, pc[r] # "idle",
           NEW row \in Wallet, NEW m \in Int, Credit(r, row, m), UNCHANGED call
    PROVE  /\ pc' \in [Requests -> {"idle"} \cup Running \cup Answered]
           /\ \A s \in Requests : pc'[s] # "idle" => call'[s] # NoCall
           /\ pend' \in [Requests -> [WalletId -> Wallet \cup {Unwritten}]]
           /\ loc' \in [Requests -> Locals]
<1> USE CallFacts DEF TypeOK
<1>1. Credited(row, m) \in Wallet
  BY DEF Credited, Wallet, Status
<1>2. pend' \in [Requests -> [WalletId -> Wallet \cup {Unwritten}]]
  BY <1>1 DEF Credit, Write
<1>3. loc' \in [Requests -> Locals]
  BY DEF Credit, Locals, Wallet
<1>4. /\ pc' \in [Requests -> {"idle"} \cup Running \cup Answered]
      /\ \A s \in Requests : pc'[s] # "idle" => call'[s] # NoCall
  BY DEF Credit, Goto, Running
<1> QED
  BY <1>2, <1>3, <1>4

\* A debited row is a row.
LEMMA DebitedType ==
    ASSUME NEW row \in Wallet, NEW n \in Int
    PROVE  Debited(row, n) \in Wallet
<1>1. row.bal - n \in Int
  BY DEF Wallet
<1> QED
  BY <1>1 DEF Debited, Wallet

\* The row a transaction sees is a row.
LEMMA ViewType ==
    ASSUME TypeOK, NEW r \in Requests, NEW w \in WalletId
    PROVE  View(r, w) \in Wallet
  BY DEF TypeOK, View

\* Either row a request would log is a history row.
LEMMA EachRowType ==
    ASSUME TypeOK, NEW r \in Requests, pc[r] # "idle"
    PROVE  FromRow(r) \in HistoryRow /\ ToRow(r) \in HistoryRow
<1> DEFINE c == call[r]
<1>1. /\ loc[r].sender \in Int /\ loc[r].prev \in Int /\ loc[r].credit \in Int
      /\ -c.amount \in Int /\ loc[r].sender + c.amount \in Int
  BY CallFacts DEF TypeOK, Locals
<1>2. FromRow(r) \in HistoryRow
  BY <1>1, CallFacts DEF FromRow, HistoryRow
<1>3. ToRow(r) \in HistoryRow
  BY <1>1, CallFacts DEF ToRow, HistoryRow
<1> QED
  BY <1>2, <1>3

\* The history rows of a committing request are history rows.
LEMMA RowsType ==
    ASSUME TypeOK, NEW r \in Requests, pc[r] # "idle"
    PROVE  RowsOf(r) \subseteq HistoryRow
  BY EachRowType DEF RowsOf

\* Every step keeps the state well typed.
LEMMA NextType == TypeOK /\ [Next]_wvars => TypeOK'
<1> SUFFICES ASSUME TypeOK, [Next]_wvars PROVE TypeOK'
  OBVIOUS
<1> USE DEF tables, locks
<1>1. ASSUME NEW r \in Requests, NEW c \in Calls, Begin(r, c) PROVE TypeOK'
  BY <1>1, WalletsAssumption DEF TypeOK, Begin, Goto, Running, Answered
<1>2. ASSUME NEW r \in Requests, CheckPin(r) PROVE TypeOK'
  BY <1>2, RollbackType DEF CheckPin, Answered
<1>3. ASSUME NEW r \in Requests, CheckIdempotency(r) PROVE TypeOK'
  BY <1>3 DEF TypeOK, CheckIdempotency, Goto, Running, Answered
<1>4. ASSUME NEW r \in Requests, DebitWallet(r) PROVE TypeOK'
  <2> DEFINE w == call[r].src
             n == call[r].amount
  <2>1. w \in WalletId /\ n \in Int
    BY <1>4, CallFacts DEF DebitWallet
  <2>0. wallets[w] \in Wallet /\ wallets[w].bal \in Int
    BY <2>1 DEF TypeOK, Wallet
  <2>2. Debited(wallets[w], n) \in Wallet /\ wallets[w].bal - n \in Int
    BY <2>0, <2>1, DebitedType
  <2>3. pend' \in [Requests -> [WalletId -> Wallet \cup {Unwritten}]]
    BY <1>4, <2>1, <2>2 DEF TypeOK, DebitWallet, Write
  <2>4. loc' \in [Requests -> Locals]
    BY <1>4, <2>2 DEF TypeOK, DebitWallet, Locals
  <2> QED
    BY <1>4, <2>1, <2>3, <2>4 DEF TypeOK, DebitWallet, Goto, Take, Running
<1>5. ASSUME NEW r \in Requests, RefuseDebit(r) PROVE TypeOK'
  BY <1>5, RollbackType DEF RefuseDebit, Answered
<1>18. ASSUME NEW r \in Requests, RefuseCredit(r) PROVE TypeOK'
  BY <1>18, RollbackType DEF RefuseCredit, Answered
<1>6. ASSUME NEW r \in Requests, CreditWallet(r) PROVE TypeOK'
  <2> DEFINE c == call[r]
  <2>1. pc[r] # "idle"
    BY <1>6 DEF CreditWallet
  <2>2. PICK m \in Credits(c.src[2], c.dst[2], c.amount) : Credit(r, View(r, c.dst), m)
    BY <1>6 DEF CreditWallet
  <2>3. m \in Int /\ View(r, c.dst) \in Wallet
    BY <2>1, <2>2, CallFacts, CreditsInt, ViewType
  <2>4. UNCHANGED <<wallets, history, beneficiaries, call, keyOwner>> /\ Take(r, c.dst)
    BY <1>6 DEF CreditWallet
  <2> HIDE DEF c
  <2> QED
    BY <2>1, <2>2, <2>3, <2>4, CreditType DEF TypeOK, Take
<1>7. ASSUME NEW r \in Requests, MissWallet(r) PROVE TypeOK'
  BY <1>7 DEF TypeOK, MissWallet, Goto, Running
<1>8. ASSUME NEW r \in Requests, CreateWallet(r) PROVE TypeOK'
  <2> DEFINE c == call[r]
  <2>1. pc[r] # "idle"
    BY <1>8 DEF CreateWallet
  <2>2. PICK m \in Credits(c.src[2], c.dst[2], c.amount) : Credit(r, wallets[c.dst], m)
    BY <1>8 DEF CreateWallet
  <2>3. m \in Int /\ wallets[c.dst] \in Wallet
    BY <2>1, <2>2, CallFacts, CreditsInt DEF TypeOK
  <2>4. UNCHANGED <<wallets, history, beneficiaries, call, keyOwner>> /\ Take(r, c.dst)
    BY <1>8 DEF CreateWallet
  <2> HIDE DEF c
  <2> QED
    BY <2>1, <2>2, <2>3, <2>4, CreditType DEF TypeOK, Take
<1>9. ASSUME NEW r \in Requests, DuplicateWallet(r) PROVE TypeOK'
  BY <1>9, RollbackType DEF DuplicateWallet, Answered
<1>10. ASSUME NEW r \in Requests, Beneficiary(r) PROVE TypeOK'
  <2>1. PICK found \in BOOLEAN : loc' = [loc EXCEPT ![r].save = found]
    BY <1>10, Zenon DEF Beneficiary
  <2>2. loc[r] \in Locals /\ [loc[r] EXCEPT !.save = found] \in Locals
    BY DEF TypeOK, Locals
  <2>3. loc' \in [Requests -> Locals]
    BY <2>1, <2>2 DEF TypeOK
  <2> QED
    BY <1>10, <2>3 DEF TypeOK, Beneficiary, Goto, Running
<1>11. ASSUME NEW r \in Requests, LogHistory(r) PROVE TypeOK'
  <2>1. call[r].key \in Keys \cup {NoKey}
    BY <1>11, CallFacts DEF LogHistory
  <2> QED
    BY <1>11, <2>1 DEF TypeOK, LogHistory, Goto, Running
<1>12. ASSUME NEW r \in Requests, DuplicateKey(r) PROVE TypeOK'
  BY <1>12, RollbackType DEF DuplicateKey, Answered
<1>13. ASSUME NEW r \in Requests, Commit(r) PROVE TypeOK'
  <2>1. pc[r] # "idle"
    BY <1>13 DEF Commit
  <2>2. wallets' \in [WalletId -> Wallet]
    BY <1>13, ViewType DEF Commit
  <2>3. history' \subseteq HistoryRow
    BY <1>13, <2>1, RowsType DEF Commit, TypeOK
  <2>4. beneficiaries' \subseteq Users \X Users
    BY <1>13, <2>1, CallFacts DEF Commit, TypeOK
  <2> QED
    BY <1>13, <2>1, <2>2, <2>3, <2>4, ReleaseType DEF Commit, TypeOK, Answered
<1>14. ASSUME NEW r \in Requests, DeadlockVictim(r) PROVE TypeOK'
  <2>1. pc[r] # "idle"
    BY <1>14 DEF DeadlockVictim, InWaitCycle, WaitsFor
  <2> QED
    BY <1>14, <2>1, RollbackType DEF DeadlockVictim, Answered
<1>15. ASSUME NEW r \in Requests, Fail(r) PROVE TypeOK'
  BY <1>15, RollbackType DEF Fail, Running, Answered
<1>16. ASSUME NEW w \in WalletId, NEW s \in StatusChanges, SetStatus(w, s) PROVE TypeOK'
  <2>1. wallets' \in [WalletId -> Wallet]
    BY <1>16, WalletsAssumption DEF TypeOK, SetStatus, Wallet
  <2> QED
    BY <1>16, <2>1 DEF TypeOK, SetStatus
<1>17. CASE UNCHANGED wvars
  BY <1>17 DEF TypeOK, wvars
<1> QED
  BY <1>1, <1>2, <1>3, <1>4, <1>5, <1>6, <1>7, <1>8, <1>9, <1>10, <1>11, <1>12,
     <1>13, <1>14, <1>15, <1>16, <1>17, <1>18 DEF Next, Step

\* The tables, the locks and every request's transaction stay well typed.
THEOREM TypeCorrect == Spec => []TypeOK
  BY InitType, NextType, PTL DEF Spec
-----------------------------------------------------------------------------
\* Nothing about request s changes, nor any wallet or key it holds.
Untouched(s) ==
    /\ pc'[s] = pc[s] /\ call'[s] = call[s] /\ pend'[s] = pend[s] /\ loc'[s] = loc[s]
    /\ \A w \in WalletId : owner[w] = s => owner'[w] = s /\ wallets'[w] = wallets[w]
    /\ \A k \in Keys : keyOwner[k] = s =>
          keyOwner'[k] = s /\ (k \in CommittedKeys' => k \in CommittedKeys)

\* A transaction stays isolated from a step that leaves alone what it holds.
LEMMA Bystander ==
    ASSUME TypeOK, NEW s \in Requests, Isolated(s), Untouched(s)
    PROVE  Isolated(s)'
<1> DEFINE c == call[s]
<1>1. CASE pc[s] = "idle"
  <2>1. pc'[s] = "idle"
    BY <1>1 DEF Untouched
  <2> QED
    BY <1>1, <2>1 DEF Isolated, Due, HoldsSrc, HoldsDst, Untouched
<1>2. CASE pc[s] # "idle"
  <2>1. c.src \in WalletId /\ c.dst \in WalletId /\ c.key \in Keys \cup {NoKey}
    BY <1>2, CallFacts
  <2>2. HoldsSrc(s)' <=> HoldsSrc(s)
    BY DEF HoldsSrc, Untouched
  <2>3. HoldsDst(s)' <=> HoldsDst(s)
    BY DEF HoldsDst, Untouched
  <2>4. HoldsSrc(s) => owner'[c.src] = s /\ wallets'[c.src] = wallets[c.src]
    BY <2>1 DEF Isolated, Untouched
  <2>5. HoldsDst(s) => owner'[c.dst] = s /\ wallets'[c.dst] = wallets[c.dst]
    BY <2>1 DEF Isolated, Untouched
  <2>6. HoldsDst(s) => BeforeCredit(s)' = BeforeCredit(s)
    BY <2>2, <2>5 DEF BeforeCredit, Untouched, Debited
  <2>7. \A w \in WalletId : Due(s, w)' = Due(s, w)
    BY <2>2, <2>3, <2>4, <2>6 DEF Due, Untouched, Debited, Credited
  <2>8. \A w \in WalletId : pend'[s][w] = Due(s, w)'
    BY <2>7 DEF Isolated, Untouched
  <2>9. HoldsSrc(s)' =>
          /\ owner'[call'[s].src] = s
          /\ Debitable(wallets'[call'[s].src])
          /\ Covers(wallets'[call'[s].src], call'[s].amount)
          /\ loc'[s].sender = wallets'[call'[s].src].bal - call'[s].amount
    BY <2>2, <2>4 DEF Isolated, Untouched
  <2>10. HoldsDst(s)' =>
          /\ owner'[call'[s].dst] = s
          /\ loc'[s].prev = BeforeCredit(s)'.bal
          /\ loc'[s].credit \in
                Credits(call'[s].src[2], call'[s].dst[2], call'[s].amount)
          /\ wallets'[call'[s].dst].status # "Absent" =>
                Admits(BeforeCredit(s)', loc'[s].credit)
    BY <2>3, <2>5, <2>6 DEF Isolated, Untouched
  <2>11. pc'[s] = "commit" /\ call'[s].key # NoKey =>
          keyOwner'[call'[s].key] = s /\ call'[s].key \notin CommittedKeys'
    BY <2>1 DEF Isolated, Untouched
  <2> QED
    BY <2>8, <2>9, <2>10, <2>11 DEF Isolated, Untouched
<1> QED
  BY <1>1, <1>2

\* A transaction that has ended holds and buffers nothing.
LEMMA Ended ==
    ASSUME TypeOK, NEW r \in Requests, NEW o \in Answered, Release(r, o)
    PROVE  Isolated(r)'
<1>1. pc'[r] = o /\ pend'[r] = NoWrites
  BY DEF Release, Goto, TypeOK
<1>2. ~HoldsSrc(r)' /\ ~HoldsDst(r)'
  BY <1>1 DEF HoldsSrc, HoldsDst, Answered
<1>3. \A w \in WalletId : pend'[r][w] = Due(r, w)'
  BY <1>1, <1>2 DEF Due, NoWrites
<1> QED
  BY <1>1, <1>2, <1>3 DEF Isolated, Answered

\* A rollback disturbs no other transaction.
LEMMA RollbackIsolated ==
    ASSUME TypeOK, TransactionsIsolated,
           NEW r \in Requests, NEW o \in Answered, Rollback(r, o)
    PROVE  TransactionsIsolated'
<1>1. Isolated(r)'
  BY Ended DEF Rollback
<1>2. ASSUME NEW s \in Requests, s # r PROVE Isolated(s)'
  <2>1. Untouched(s)
    BY <1>2 DEF Untouched, Rollback, Release, Goto, TypeOK, tables, CommittedKeys
  <2> QED
    BY <2>1, Bystander DEF TransactionsIsolated
<1> QED
  BY <1>1, <1>2 DEF TransactionsIsolated

\* A step of r that changes no table and takes only free locks leaves every
\* other transaction isolated.
LEMMA OthersIsolated ==
    ASSUME TypeOK, TransactionsIsolated, NEW r \in Requests,
           UNCHANGED tables,
           \A s \in Requests \ {r} :
               pc'[s] = pc[s] /\ call'[s] = call[s] /\ pend'[s] = pend[s] /\ loc'[s] = loc[s],
           \A w \in WalletId : owner'[w] = owner[w] \/ (Free(r, w) /\ owner'[w] = r),
           \A k \in Keys : keyOwner'[k] = keyOwner[k] \/ (KeyFree(r, k) /\ keyOwner'[k] = r)
    PROVE  \A s \in Requests \ {r} : Isolated(s)'
<1> TAKE s \in Requests \ {r}
<1>1. \A w \in WalletId : owner[w] = s => owner'[w] = s /\ wallets'[w] = wallets[w]
  BY WalletsAssumption DEF Free, tables
<1>2. CommittedKeys' = CommittedKeys
  BY DEF CommittedKeys, tables
<1>3. \A k \in Keys : keyOwner[k] = s =>
          keyOwner'[k] = s /\ (k \in CommittedKeys' => k \in CommittedKeys)
  BY <1>2, WalletsAssumption DEF KeyFree
<1> QED
  BY <1>1, <1>3, Bystander DEF Untouched, TransactionsIsolated

\* The write of a credited row, on a wallet the transaction then holds.
LEMMA CreditIsolated ==
    ASSUME TypeOK, NEW r \in Requests, Isolated(r),
           pc[r] \in {"locate", "create"},
           NEW m \in Credits(call[r].src[2], call[r].dst[2], call[r].amount),
           Credit(r, View(r, call[r].dst), m),
           wallets[call[r].dst].status # "Absent" => Admits(View(r, call[r].dst), m),
           Take(r, call[r].dst), UNCHANGED <<tables, call, keyOwner>>
    PROVE  Isolated(r)'
<1> DEFINE c == call[r]
<1>1. /\ c.src \in WalletId /\ c.dst \in WalletId
      /\ c.kind \in {"transfer", "deposit"}
      /\ c.kind = "deposit" => c.src = c.dst
      /\ c.key \in Keys \cup {NoKey}
  BY CallFacts DEF Isolated
<1>2. ~HoldsDst(r) /\ (HoldsSrc(r) <=> c.kind = "transfer")
  BY <1>1 DEF HoldsDst, HoldsSrc
<1>3. \A w \in WalletId : pend[r][w] = IF HoldsSrc(r) /\ w = c.src
                                      THEN Debited(wallets[w], c.amount) ELSE Unwritten
  BY <1>2 DEF Isolated, Due
<1>4. Debited(wallets[c.src], c.amount) # Unwritten
  BY <1>1, CallFacts, DebitedType, WalletsAssumption DEF TypeOK
<1>5. View(r, c.dst) = IF HoldsSrc(r) /\ c.src = c.dst
                       THEN Debited(wallets[c.dst], c.amount) ELSE wallets[c.dst]
  BY <1>1, <1>3, <1>4 DEF View
<1>6. pc'[r] \in {"beneficiary", "log"} /\ call'[r] = c
  BY DEF Credit, Goto, TypeOK
<1>7. HoldsDst(r)' /\ (HoldsSrc(r)' <=> HoldsSrc(r))
  BY <1>1, <1>2, <1>6 DEF HoldsDst, HoldsSrc
<1>8. BeforeCredit(r)' = View(r, c.dst)
  BY <1>5, <1>6, <1>7 DEF BeforeCredit, tables, Debited
<1>9. /\ pend'[r] = [pend[r] EXCEPT ![c.dst] = Credited(View(r, c.dst), m)]
      /\ loc'[r] = [loc[r] EXCEPT !.prev = View(r, c.dst).bal, !.credit = m]
  BY DEF Credit, Write, TypeOK
<1>10. loc'[r].prev = View(r, c.dst).bal /\ loc'[r].credit = m /\ loc'[r].sender = loc[r].sender
  BY <1>9 DEF TypeOK, Locals
<1>11. \A w \in WalletId : pend'[r][w] = Due(r, w)'
  <2> TAKE w \in WalletId
  <2>1. CASE w = c.dst
    <3>1. pend'[r][w] = Credited(View(r, c.dst), m)
      BY <1>1, <1>9, <2>1 DEF TypeOK
    <3> QED
      BY <2>1, <3>1, <1>6, <1>7, <1>8, <1>10 DEF Due
  <2>2. CASE w # c.dst
    <3>1. pend'[r][w] = pend[r][w]
      BY <1>9, <2>2 DEF TypeOK
    <3> QED
      BY <2>2, <3>1, <1>3, <1>6, <1>7 DEF Due, tables, Debited
  <2> QED
    BY <2>1, <2>2
<1>12. owner'[c.dst] = r /\ (HoldsSrc(r) => owner'[c.src] = r)
  BY <1>1 DEF Take, TypeOK, Isolated
<1>13. HoldsSrc(r)' =>
          /\ owner'[call'[r].src] = r
          /\ Debitable(wallets'[call'[r].src])
          /\ Covers(wallets'[call'[r].src], call'[r].amount)
          /\ loc'[r].sender = wallets'[call'[r].src].bal - call'[r].amount
  BY <1>6, <1>7, <1>10, <1>12 DEF Isolated, tables
<1>14. HoldsDst(r)' =>
          /\ owner'[call'[r].dst] = r
          /\ loc'[r].prev = BeforeCredit(r)'.bal
          /\ loc'[r].credit \in
                Credits(call'[r].src[2], call'[r].dst[2], call'[r].amount)
          /\ wallets'[call'[r].dst].status # "Absent" =>
                Admits(BeforeCredit(r)', loc'[r].credit)
  BY <1>6, <1>8, <1>10, <1>12 DEF tables
<1> QED
  BY <1>6, <1>11, <1>13, <1>14 DEF Isolated

\* Committing publishes exactly the rows the transaction holds.
LEMMA CommitPublishes ==
    ASSUME TypeOK, NEW r \in Requests, Isolated(r), Commit(r), NEW w \in WalletId
    PROVE  /\ wallets'[w] = IF Due(r, w) # Unwritten THEN Due(r, w) ELSE wallets[w]
           /\ owner[w] # r => wallets'[w] = wallets[w]
<1>1. wallets'[w] = IF Due(r, w) # Unwritten THEN Due(r, w) ELSE wallets[w]
  BY DEF Commit, View, Isolated
<1>2. owner[w] # r => Due(r, w) = Unwritten
  BY DEF Due, Isolated
<1> QED
  BY <1>1, <1>2

\* Committing adds the key of the call, if it has one, to the history.
LEMMA CommitSpends ==
    ASSUME TypeOK, NEW r \in Requests, Commit(r)
    PROVE  CommittedKeys' = CommittedKeys \cup ({call[r].key} \ {NoKey})
<1>1. /\ FromRow(r).key = call[r].key
      /\ ToRow(r).key = IF call[r].kind = "transfer" THEN NoKey ELSE call[r].key
  BY DEF FromRow, ToRow
<1>2. pc[r] # "idle"
  BY DEF Commit
<1>3. {row.key : row \in RowsOf(r)} \ {NoKey} = {call[r].key} \ {NoKey}
  <2>1. CASE call[r].kind = "transfer"
    <3>1. RowsOf(r) = {FromRow(r), ToRow(r)}
      BY <2>1 DEF RowsOf
    <3> QED
      BY <2>1, <3>1, <1>1
  <2>2. CASE call[r].kind = "deposit"
    <3>1. RowsOf(r) = {ToRow(r)}
      BY <2>2 DEF RowsOf
    <3> QED
      BY <2>2, <3>1, <1>1
  <2>3. CASE call[r].kind = "withdraw"
    <3>1. RowsOf(r) = {FromRow(r)}
      BY <2>3 DEF RowsOf
    <3> QED
      BY <2>3, <3>1, <1>1
  <2> QED
    BY <1>2, <2>1, <2>2, <2>3, CallFacts
<1>4. history' = history \cup RowsOf(r)
  BY DEF Commit
<1> QED
  BY <1>3, <1>4 DEF CommittedKeys

\* Initially nothing is held or buffered.
LEMMA InitIsolated == Init => TransactionsIsolated
  BY DEF Init, TransactionsIsolated, Isolated, Due, HoldsSrc, HoldsDst, NoWrites

\* Every step keeps every transaction isolated.
LEMMA NextIsolated ==
    TypeOK /\ TransactionsIsolated /\ [Next]_wvars => TransactionsIsolated'
<1> SUFFICES ASSUME TypeOK, TransactionsIsolated, [Next]_wvars
             PROVE  TransactionsIsolated'
  OBVIOUS
<1>0. \A r \in Requests : Isolated(r)
  BY DEF TransactionsIsolated
<1>1. ASSUME NEW r \in Requests, NEW c \in Calls, Begin(r, c) PROVE TransactionsIsolated'
  <2>1. Isolated(r)'
    BY <1>0, <1>1 DEF Begin, Goto, TypeOK, Isolated, Due, HoldsSrc, HoldsDst
  <2>2. \A s \in Requests \ {r} : Isolated(s)'
    BY <1>1, OthersIsolated DEF Begin, Goto, TypeOK, locks
  <2> QED
    BY <2>1, <2>2 DEF TransactionsIsolated
<1>2. ASSUME NEW r \in Requests, CheckPin(r) PROVE TransactionsIsolated'
  BY <1>2, RollbackIsolated DEF CheckPin, Answered
<1>3. ASSUME NEW r \in Requests, CheckIdempotency(r) PROVE TransactionsIsolated'
  <2>1. Isolated(r)'
    BY <1>0, <1>3, CallFacts
    DEF CheckIdempotency, Goto, TypeOK, Isolated, Due, HoldsSrc, HoldsDst, locks
  <2>2. \A s \in Requests \ {r} : Isolated(s)'
    BY <1>3, OthersIsolated DEF CheckIdempotency, Goto, TypeOK, locks
  <2> QED
    BY <2>1, <2>2 DEF TransactionsIsolated
<1>4. ASSUME NEW r \in Requests, DebitWallet(r) PROVE TransactionsIsolated'
  <2> DEFINE c == call[r]
  <2>1. /\ c.src \in WalletId /\ c.kind \in {"transfer", "withdraw"}
        /\ pc'[r] = IF c.kind = "transfer" THEN "locate" ELSE "log"
        /\ call' = call /\ wallets' = wallets
    BY <1>0, <1>4, CallFacts DEF DebitWallet, Goto, TypeOK, Isolated, tables
  <2>2. HoldsSrc(r)' /\ ~HoldsDst(r)'
    BY <2>1 DEF HoldsSrc, HoldsDst
  <2>3. \A w \in WalletId : pend[r][w] = Unwritten
    BY <1>0, <1>4 DEF DebitWallet, Isolated, Due, HoldsSrc, HoldsDst
  <2>4. \A w \in WalletId : pend'[r][w] = Due(r, w)'
    BY <1>4, <2>1, <2>2, <2>3 DEF DebitWallet, Write, TypeOK, Due
  <2>5. owner'[c.src] = r /\ loc'[r].sender = wallets[c.src].bal - c.amount
    BY <1>4, <2>1 DEF DebitWallet, Take, TypeOK, Locals
  <2>6. Isolated(r)'
    BY <1>4, <2>1, <2>2, <2>4, <2>5 DEF DebitWallet, Isolated
  <2>7. \A s \in Requests \ {r} : Isolated(s)'
    BY <1>4, <2>1, OthersIsolated DEF DebitWallet, Goto, Write, Take, TypeOK
  <2> QED
    BY <2>6, <2>7 DEF TransactionsIsolated
<1>5. ASSUME NEW r \in Requests, RefuseDebit(r) PROVE TransactionsIsolated'
  BY <1>5, RollbackIsolated DEF RefuseDebit, Answered
<1>18. ASSUME NEW r \in Requests, RefuseCredit(r) PROVE TransactionsIsolated'
  BY <1>18, RollbackIsolated DEF RefuseCredit, Answered
<1>6. ASSUME NEW r \in Requests, CreditWallet(r) PROVE TransactionsIsolated'
  <2>1. Isolated(r)'
    BY <1>0, <1>6, CreditIsolated DEF CreditWallet
  <2>2. call[r].dst \in WalletId
    BY <1>6, CallFacts DEF CreditWallet
  <2>3. \A s \in Requests \ {r} : Isolated(s)'
    BY <1>6, <2>2, OthersIsolated DEF CreditWallet, Credit, Goto, Write, Take, TypeOK
  <2> QED
    BY <2>1, <2>3 DEF TransactionsIsolated
<1>7. ASSUME NEW r \in Requests, MissWallet(r) PROVE TransactionsIsolated'
  <2>3. /\ pc[r] = "locate" /\ pc'[r] = "create"
        /\ UNCHANGED <<tables, call, pend, loc, locks>>
    BY <1>7 DEF MissWallet, Goto, TypeOK
  <2>4. (HoldsSrc(r)' <=> HoldsSrc(r)) /\ ~HoldsDst(r) /\ ~HoldsDst(r)'
    BY <2>3 DEF HoldsSrc, HoldsDst
  <2>5. \A w \in WalletId : Due(r, w)' = Due(r, w)
    BY <2>3, <2>4 DEF Due, tables, Debited
  <2>1. Isolated(r)'
    BY <1>0, <2>3, <2>4, <2>5 DEF Isolated, locks, tables
  <2>2. \A s \in Requests \ {r} : Isolated(s)'
    BY <1>7, OthersIsolated DEF MissWallet, Goto, TypeOK, locks
  <2> QED
    BY <2>1, <2>2 DEF TransactionsIsolated
<1>8. ASSUME NEW r \in Requests, CreateWallet(r) PROVE TransactionsIsolated'
  <2> DEFINE c == call[r]
  <2>1. c.src \in WalletId /\ c.dst \in WalletId
    BY <1>8, CallFacts DEF CreateWallet
  <2>2. ~HoldsDst(r) /\ (HoldsSrc(r) => c.src # c.dst)
    BY <1>0, <1>8, <2>1 DEF CreateWallet, HoldsDst, Isolated, Debitable
  <2>3. View(r, c.dst) = wallets[c.dst]
    BY <1>0, <2>1, <2>2 DEF View, Isolated, Due
  <2>4. Isolated(r)'
    BY <1>0, <1>8, <2>3, CreditIsolated DEF CreateWallet
  <2>5. \A s \in Requests \ {r} : Isolated(s)'
    BY <1>8, <2>1, OthersIsolated DEF CreateWallet, Credit, Goto, Write, Take, TypeOK
  <2> QED
    BY <2>4, <2>5 DEF TransactionsIsolated
<1>9. ASSUME NEW r \in Requests, DuplicateWallet(r) PROVE TransactionsIsolated'
  BY <1>9, RollbackIsolated DEF DuplicateWallet, Answered
<1>10. ASSUME NEW r \in Requests, Beneficiary(r) PROVE TransactionsIsolated'
  <2>1. pc'[r] = "log" /\ pc[r] = "beneficiary" /\ pend' = pend /\ call' = call
    BY <1>10 DEF Beneficiary, Goto, TypeOK
  <2>2. /\ loc'[r].sender = loc[r].sender /\ loc'[r].prev = loc[r].prev
        /\ loc'[r].credit = loc[r].credit
    BY <1>10 DEF Beneficiary, TypeOK, Locals
  <2>3. Isolated(r)'
    BY <1>0, <1>10, <2>1, <2>2
    DEF Beneficiary, Isolated, Due, HoldsSrc, HoldsDst, BeforeCredit, locks, tables
  <2>4. \A s \in Requests \ {r} : Isolated(s)'
    BY <1>10, OthersIsolated DEF Beneficiary, Goto, TypeOK, locks
  <2> QED
    BY <2>3, <2>4 DEF TransactionsIsolated
<1>11. ASSUME NEW r \in Requests, LogHistory(r) PROVE TransactionsIsolated'
  <2>1. call[r].key \in Keys \cup {NoKey}
    BY <1>11, CallFacts DEF LogHistory
  <2>2. CommittedKeys' = CommittedKeys
    BY <1>11 DEF LogHistory, CommittedKeys, tables
  <2>3. Isolated(r)'
    BY <1>0, <1>11, <2>1, <2>2
    DEF LogHistory, KeyFree, Goto, TypeOK, Isolated, Due, HoldsSrc, HoldsDst,
        BeforeCredit, tables
  <2>4. \A s \in Requests \ {r} : Isolated(s)'
    BY <1>11, <2>1, OthersIsolated DEF LogHistory, Goto, TypeOK
  <2> QED
    BY <2>3, <2>4 DEF TransactionsIsolated
<1>12. ASSUME NEW r \in Requests, DuplicateKey(r) PROVE TransactionsIsolated'
  BY <1>12, RollbackIsolated DEF DuplicateKey, Answered
<1>13. ASSUME NEW r \in Requests, Commit(r) PROVE TransactionsIsolated'
  <2>1. Isolated(r)'
    BY <1>13, Ended DEF Commit, Answered
  <2>2. ASSUME NEW s \in Requests, s # r PROVE Isolated(s)'
    <3>1. \A w \in WalletId : owner[w] = s => owner'[w] = s /\ wallets'[w] = wallets[w]
      BY <1>0, <1>13, <2>2, CommitPublishes DEF Commit, Release
    <3>2. \A k \in Keys : keyOwner[k] = s => keyOwner'[k] = s
      BY <1>13, <2>2 DEF Commit, Release
    <3>3. \A k \in Keys : keyOwner[k] = s => (k \in CommittedKeys' => k \in CommittedKeys)
      BY <1>0, <1>13, <2>2, CommitSpends DEF Commit, Isolated
    <3>4. Untouched(s)
      BY <1>13, <2>2, <3>1, <3>2, <3>3 DEF Untouched, Commit, Release, Goto, TypeOK
    <3> QED
      BY <1>0, <3>4, Bystander
  <2> QED
    BY <2>1, <2>2 DEF TransactionsIsolated
<1>14. ASSUME NEW r \in Requests, DeadlockVictim(r) PROVE TransactionsIsolated'
  BY <1>14, RollbackIsolated DEF DeadlockVictim, Answered
<1>15. ASSUME NEW r \in Requests, Fail(r) PROVE TransactionsIsolated'
  BY <1>15, RollbackIsolated DEF Fail, Answered
<1>16. ASSUME NEW w \in WalletId, NEW t \in StatusChanges, SetStatus(w, t)
       PROVE  TransactionsIsolated'
  <2> SUFFICES ASSUME NEW s \in Requests PROVE Isolated(s)'
    BY DEF TransactionsIsolated
  <2>1. \A v \in WalletId : owner[v] = s => owner'[v] = s /\ wallets'[v] = wallets[v]
    BY <1>16, WalletsAssumption DEF SetStatus, locks, TypeOK
  <2>2. CommittedKeys' = CommittedKeys
    BY <1>16 DEF SetStatus, CommittedKeys
  <2> QED
    BY <1>0, <1>16, <2>1, <2>2, Bystander DEF Untouched, SetStatus, locks
<1>17. CASE UNCHANGED wvars
  BY <1>0, <1>17, Bystander DEF Untouched, wvars, CommittedKeys, TransactionsIsolated
<1> QED
  BY <1>1, <1>2, <1>3, <1>4, <1>5, <1>6, <1>7, <1>8, <1>9, <1>10, <1>11, <1>12,
     <1>13, <1>14, <1>15, <1>16, <1>17, <1>18 DEF Next, Step

\* Isolation, for any number of requests: what a transaction has buffered is
\* never stale, because row locks keep every other one from changing it.
THEOREM Isolation == Spec => []TransactionsIsolated
  BY InitIsolated, NextIsolated, TypeCorrect, PTL DEF Spec
-----------------------------------------------------------------------------
\* What a committing transaction leaves in each wallet, by kind of call.
LEMMA CommitEffect ==
    ASSUME TypeOK, NEW r \in Requests, Isolated(r), Commit(r)
    PROVE  LET c == call[r]
           IN  /\ c.kind # "deposit" => Debitable(wallets[c.src]) /\ Covers(wallets[c.src], c.amount)
               /\ c.kind # "withdraw" =>
                     /\ loc[r].credit \in Credits(c.src[2], c.dst[2], c.amount)
                     /\ wallets[c.dst].status # "Absent" =>
                           Admits(BeforeCredit(r), loc[r].credit)
                     /\ BeforeCredit(r) =
                           IF c.kind = "transfer" /\ c.src = c.dst
                           THEN Debited(wallets[c.dst], c.amount) ELSE wallets[c.dst]
               /\ wallets' =
                     CASE c.kind = "deposit" ->
                            [wallets EXCEPT ![c.dst] = Credited(@, loc[r].credit)]
                       [] c.kind = "withdraw" ->
                            [wallets EXCEPT ![c.src] = Debited(@, c.amount)]
                       [] c.kind = "transfer" ->
                            LET paid == [wallets EXCEPT ![c.src] = Debited(@, c.amount)]
                            IN  [paid EXCEPT ![c.dst] = Credited(@, loc[r].credit)]
<1> DEFINE c == call[r]
           m == loc[r].credit
<1>1. /\ c.kind \in {"transfer", "deposit", "withdraw"}
      /\ c.src \in WalletId /\ c.dst \in WalletId /\ c.amount \in Int
      /\ c.kind # "transfer" => c.src = c.dst
  BY CallFacts DEF Commit
<1>2. /\ HoldsSrc(r) <=> c.kind # "deposit"
      /\ HoldsDst(r) <=> c.kind # "withdraw"
  BY DEF HoldsSrc, HoldsDst, Commit
<1>3. /\ c.kind # "deposit" => Debitable(wallets[c.src]) /\ Covers(wallets[c.src], c.amount)
      /\ c.kind # "withdraw" =>
            /\ m \in Credits(c.src[2], c.dst[2], c.amount)
            /\ wallets[c.dst].status # "Absent" => Admits(BeforeCredit(r), m)
            /\ BeforeCredit(r) =
                  IF c.kind = "transfer" /\ c.src = c.dst
                  THEN Debited(wallets[c.dst], c.amount) ELSE wallets[c.dst]
  BY <1>1, <1>2 DEF Isolated, BeforeCredit
<1>4. m \in Int
  BY DEF TypeOK, Locals
<1>5. \A w \in WalletId : Debited(wallets[w], c.amount) \in Wallet
  BY <1>1, DebitedType DEF TypeOK
<1>6. \A row \in Wallet : Credited(row, m) \in Wallet
  BY <1>4 DEF Credited, Wallet, Status
<1>7. BeforeCredit(r) \in Wallet
  BY <1>1, <1>5 DEF BeforeCredit, TypeOK
<1>8. \A w \in WalletId : wallets'[w] = IF Due(r, w) # Unwritten THEN Due(r, w) ELSE wallets[w]
  BY CommitPublishes
<1>9. \A w \in WalletId :
        wallets'[w] = IF c.kind # "withdraw" /\ w = c.dst THEN Credited(BeforeCredit(r), m)
                      ELSE IF c.kind # "deposit" /\ w = c.src THEN Debited(wallets[w], c.amount)
                      ELSE wallets[w]
  BY <1>2, <1>5, <1>6, <1>7, <1>8, WalletsAssumption DEF Due
<1>10. wallets \in [WalletId -> Wallet] /\ wallets' = [w \in WalletId |-> wallets'[w]]
  BY DEF Commit, TypeOK
<1>11. CASE c.kind = "deposit"
  <2>1. BeforeCredit(r) = wallets[c.dst]
    BY <1>2, <1>11 DEF BeforeCredit
  <2>2. wallets' = [wallets EXCEPT ![c.dst] = Credited(wallets[c.dst], m)]
    BY <1>1, <1>9, <1>10, <1>11, <2>1
  <2> QED
    BY <1>3, <1>11, <2>2
<1>12. CASE c.kind = "withdraw"
  <2>1. wallets' = [wallets EXCEPT ![c.src] = Debited(wallets[c.src], c.amount)]
    BY <1>1, <1>9, <1>10, <1>12
  <2> QED
    BY <1>3, <1>12, <2>1
<1>13. CASE c.kind = "transfer"
  <2> DEFINE paid == [wallets EXCEPT ![c.src] = Debited(wallets[c.src], c.amount)]
  <2>1. BeforeCredit(r) = paid[c.dst] /\ paid \in [WalletId -> Wallet]
    BY <1>1, <1>2, <1>5, <1>10, <1>13 DEF BeforeCredit
  <2>2. wallets' = [paid EXCEPT ![c.dst] = Credited(paid[c.dst], m)]
    BY <1>1, <1>9, <1>10, <1>13, <2>1
  <2> QED
    BY <1>3, <1>13, <2>2
<1> QED
  BY <1>1, <1>11, <1>12, <1>13

\* The steps that change a table other than beneficiaries.
LEMMA OnlyCommitsAndStatus ==
    ASSUME [Next]_wvars
    PROVE  \/ \E r \in Requests : Commit(r)
           \/ \E w \in WalletId, s \in StatusChanges : SetStatus(w, s)
           \/ UNCHANGED <<wallets, history>>
<1>1. ASSUME NEW r \in Requests, NEW c \in Calls, Begin(r, c)
      PROVE  UNCHANGED <<wallets, history>>
  BY <1>1 DEF Begin, tables
<1>2. ASSUME NEW r \in Requests, DeadlockVictim(r) \/ Fail(r)
      PROVE  UNCHANGED <<wallets, history>>
  BY <1>2 DEF DeadlockVictim, Fail, Rollback, tables
<1>3. ASSUME NEW r \in Requests, Step(r), ~Commit(r)
      PROVE  UNCHANGED <<wallets, history>>
  BY <1>3 DEF Step, CheckIdempotency, CheckPin, DebitWallet, RefuseDebit, CreditWallet, RefuseCredit,
     MissWallet, CreateWallet, DuplicateWallet, Beneficiary, LogHistory, DuplicateKey,
     Rollback, tables
<1> QED
  BY <1>1, <1>2, <1>3 DEF Next, wvars

\* The abstract specification speaks of the same rows and conversions.
LEMMA SameRows ==
    /\ Atomic!WalletId = WalletId /\ Atomic!Status = Status /\ Atomic!Wallet = Wallet
    /\ \A row : Atomic!Debitable(row) <=> Debitable(row)
    /\ \A row, n : Atomic!Covers(row, n) <=> Covers(row, n)
    /\ \A row, n : Atomic!Credited(row, n) = Credited(row, n)
    /\ \A row, n : Atomic!Debited(row, n) = Debited(row, n)
    /\ \A row, n : Atomic!Admits(row, n) <=> Admits(row, n)
    /\ \A from, to, n : Atomic!Credits(from, to, n) = Credits(from, to, n)
  BY DEF Atomic!WalletId, WalletId, Atomic!Status, Status, Atomic!Wallet, Wallet,
     Atomic!Debitable, Debitable, Atomic!Covers, Covers, Atomic!Admits, Admits, Atomic!Credited, Credited,
     Atomic!Debited, Debited, Atomic!Credits, Credits, Atomic!convertFromRates,
     convertFromRates, Atomic!RoundedDiv, RoundedDiv

\* The initial tables are those of the abstract specification.
LEMMA InitImplements == Init => Atomic!Init
  BY WalletsAssumption, SameRows DEF Init, Atomic!Init, CommittedKeys

\* A step changes the tables as one atomic call does, or not at all.
LEMMA NextImplements ==
    TypeOK /\ TransactionsIsolated /\ [Next]_wvars => [Atomic!Next]_(Atomic!vars)
<1> SUFFICES ASSUME TypeOK, TransactionsIsolated, [Next]_wvars
             PROVE  Atomic!Next \/ UNCHANGED Atomic!vars
  OBVIOUS
<1>1. ASSUME NEW r \in Requests, Commit(r) PROVE Atomic!Next
  <2> DEFINE c == call[r]
             m == loc[r].credit
  <2>1. /\ c.kind \in {"transfer", "deposit", "withdraw"}
        /\ c.src \in WalletId /\ c.dst \in WalletId /\ c.amount \in Amounts
        /\ c.key \in Keys \cup {NoKey}
        /\ c.kind # "transfer" => c.src = c.dst
    BY <1>1, CallFacts DEF Commit
  <2>2. Isolated(r)
    BY DEF TransactionsIsolated
  <2>3. c.key \notin CommittedKeys
    BY <1>1, <2>2 DEF Isolated, Commit, CommittedKeys
  <2>4. Atomic!Spend(c.key)
    BY <1>1, <2>3, CommitSpends DEF Atomic!Spend
  <2>5. /\ c.kind # "deposit" => Atomic!MayDebit(c.src, c.amount)
        /\ c.kind # "withdraw" => m \in Credits(c.src[2], c.dst[2], c.amount)
        /\ c.kind # "withdraw" => Atomic!MayCredit(BeforeCredit(r), m)
    <3>1. c.kind # "withdraw" /\ wallets[c.dst].status = "Absent" =>
             BeforeCredit(r).status = "Absent"
      BY <1>1, <2>1, <2>2, CommitEffect DEF Debited, TypeOK, Wallet
    <3>2. c.kind # "withdraw" => BeforeCredit(r).status = "Absent" \/ Admits(BeforeCredit(r), m)
      BY <1>1, <2>2, <3>1, CommitEffect
    <3>3. c.kind # "withdraw" => Atomic!MayCredit(BeforeCredit(r), m)
      BY <3>2, SameRows DEF Atomic!MayCredit
    <3>4. c.kind # "deposit" => Atomic!MayDebit(c.src, c.amount)
      BY <1>1, <2>2, CommitEffect, SameRows DEF Atomic!MayDebit
    <3>5. c.kind # "withdraw" => m \in Credits(c.src[2], c.dst[2], c.amount)
      BY <1>1, <2>2, CommitEffect
    <3> QED
      BY <3>3, <3>4, <3>5
  <2>6. CASE c.kind = "deposit"
    <3>1. m = c.amount
      BY <2>1, <2>5, <2>6 DEF Credits
    <3>2. wallets' = [wallets EXCEPT ![c.dst] = Credited(@, m)]
      BY <1>1, <2>2, <2>6, CommitEffect
    <3>4. BeforeCredit(r) = wallets[c.dst]
      BY <1>1, <2>2, <2>6, CommitEffect
    <3>3. Atomic!Deposit(c.dst, c.amount, c.key)
      BY <2>4, <2>5, <2>6, <3>1, <3>2, <3>4, SameRows DEF Atomic!Deposit
    <3> QED
      BY <2>1, <3>3, SameRows DEF Atomic!Next
  <2>7. CASE c.kind = "withdraw"
    <3>1. wallets' = [wallets EXCEPT ![c.src] = Debited(@, c.amount)]
      BY <1>1, <2>2, <2>7, CommitEffect
    <3>2. Atomic!Withdraw(c.src, c.amount, c.key)
      BY <2>4, <2>5, <2>7, <3>1, SameRows DEF Atomic!Withdraw
    <3> QED
      BY <2>1, <3>2, SameRows DEF Atomic!Next
  <2>8. CASE c.kind = "transfer"
    <3>1. wallets' = LET paid == [wallets EXCEPT ![c.src] = Debited(@, c.amount)]
                     IN  [paid EXCEPT ![c.dst] = Credited(@, m)]
      BY <1>1, <2>2, <2>8, CommitEffect
    <3>3. [wallets EXCEPT ![c.src] = Debited(@, c.amount)][c.dst] = BeforeCredit(r)
      BY <1>1, <2>1, <2>2, <2>8, CommitEffect DEF TypeOK
    <3>4. PICK paid : paid = [wallets EXCEPT ![c.src] = Debited(@, c.amount)]
      OBVIOUS
    <3>5. wallets' = [paid EXCEPT ![c.dst] = Credited(@, m)] /\ paid[c.dst] = BeforeCredit(r)
      BY <3>1, <3>3, <3>4
    <3>6. /\ Atomic!MayDebit(c.src, c.amount)
          /\ m \in Atomic!Credits(c.src[2], c.dst[2], c.amount)
          /\ Atomic!MayCredit(paid[c.dst], m)
      BY <2>5, <2>8, <3>5, SameRows
    <3>7. /\ paid = [wallets EXCEPT ![c.src] = Atomic!Debited(@, c.amount)]
          /\ wallets' = [paid EXCEPT ![c.dst] = Atomic!Credited(@, m)]
      BY <3>4, <3>5, SameRows
    <3>2. Atomic!Transfer(c.src, c.dst, c.amount, c.key)
      BY <2>4, <3>6, <3>7 DEF Atomic!Transfer
    <3> QED
      BY <2>1, <3>2, SameRows DEF Atomic!Next
  <2> QED
    BY <2>1, <2>6, <2>7, <2>8
<1>2. ASSUME NEW w \in WalletId, NEW s \in StatusChanges, SetStatus(w, s) PROVE Atomic!Next
  <2>1. s \in Status \ {"Absent"}
    BY WalletsAssumption
  <2>2. Atomic!ChangeStatus(w, s)
    BY <1>2 DEF SetStatus, Atomic!ChangeStatus, CommittedKeys
  <2> QED
    BY <2>1, <2>2, SameRows DEF Atomic!Next
<1>3. CASE UNCHANGED <<wallets, history>>
  BY <1>3 DEF Atomic!vars, CommittedKeys
<1> QED
  BY <1>1, <1>2, <1>3, OnlyCommitsAndStatus

\* Refinement: the wallet service, with its locks, retries, rollbacks and
\* interleavings, implements calls that take effect at one instant.
THEOREM Implements == Spec => ImplementsAtomicWallets
  BY InitImplements, NextImplements, TypeCorrect, Isolation, PTL
  DEF Spec, ImplementsAtomicWallets, Atomic!Spec
-----------------------------------------------------------------------------
\* Where the answers and the committed keys agree.
KeysAnswered ==
    /\ \A r \in Requests : (Succeeded(r) \/ pc[r] = "already") /\ call[r].key # NoKey =>
          call[r].key \in CommittedKeys
    /\ \A r \in Requests : pc[r] = "already" => call[r].key # NoKey
    /\ \A k \in CommittedKeys : \E s \in Requests : Succeeded(s) /\ call[s].key = k
    /\ \A r, s \in Requests : r # s /\ Succeeded(r) /\ Succeeded(s) => ~SameKey(r, s)

\* A step that neither commits nor answers "already processed".
KeysQuiet ==
    /\ CommittedKeys' = CommittedKeys
    /\ \A r \in Requests :
          /\ pc'[r] \in {"success", "already"} => pc'[r] = pc[r]
          /\ pc[r] \in {"success", "already"} => pc'[r] = pc[r] /\ call'[r] = call[r]

\* Such a step disturbs no answer about a key.
LEMMA QuietKeys == KeysAnswered /\ KeysQuiet => KeysAnswered'
  BY DEF KeysQuiet, KeysAnswered, Succeeded, SameKey

\* Every other step is one of the two.
LEMMA OnlyCommitsAndAlready ==
    ASSUME TypeOK, [Next]_wvars
    PROVE  \/ \E r \in Requests : Commit(r)
           \/ \E r \in Requests : CheckIdempotency(r) /\ call[r].key \in CommittedKeys
           \/ KeysQuiet
<1>1. ASSUME NEW r \in Requests, NEW c \in Calls, Begin(r, c) PROVE KeysQuiet
  BY <1>1 DEF Begin,
     KeysQuiet, TypeOK, CommittedKeys, tables, Goto
<1>2. ASSUME NEW r \in Requests, NEW o \in {"rejected", "failed"}, Rollback(r, o),
             pc[r] \notin {"success", "already"}
      PROVE  KeysQuiet
  BY <1>2 DEF Rollback, Release,
     KeysQuiet, TypeOK, CommittedKeys, tables, Goto
<1>3. ASSUME NEW r \in Requests, DeadlockVictim(r) \/ Fail(r) PROVE KeysQuiet
  <2>1. pc[r] \notin {"success", "already"} /\ Rollback(r, "failed")
    BY <1>3 DEF DeadlockVictim, InWaitCycle, WaitsFor, Fail, Running
  <2> QED
    BY <1>2, <2>1
<1>4. ASSUME NEW r \in Requests, Step(r), ~Commit(r),
             ~(CheckIdempotency(r) /\ call[r].key \in CommittedKeys)
      PROVE  KeysQuiet
  <2>1. CASE CheckIdempotency(r)
    BY <1>4, <2>1 DEF CheckIdempotency,
     KeysQuiet, TypeOK, CommittedKeys, tables, Goto
  <2>2. CASE \/ CheckPin(r) \/ RefuseDebit(r) \/ RefuseCredit(r)
             \/ DuplicateWallet(r) \/ DuplicateKey(r)
    BY <1>2, <2>2 DEF CheckPin, RefuseDebit, RefuseCredit, DuplicateWallet, DuplicateKey
  <2>3. CASE DebitWallet(r)
    BY <2>3 DEF DebitWallet,
     KeysQuiet, TypeOK, CommittedKeys, tables, Goto
  <2>4. CASE CreditWallet(r) \/ CreateWallet(r)
    BY <2>4 DEF CreditWallet, CreateWallet, Credit,
     KeysQuiet, TypeOK, CommittedKeys, tables, Goto
  <2>5. CASE MissWallet(r) \/ Beneficiary(r) \/ LogHistory(r)
    BY <2>5 DEF MissWallet, Beneficiary, LogHistory,
     KeysQuiet, TypeOK, CommittedKeys, tables, Goto
  <2> QED
    BY <1>4, <2>1, <2>2, <2>3, <2>4, <2>5 DEF Step
<1>5. ASSUME NEW w \in WalletId, NEW s \in StatusChanges, SetStatus(w, s) PROVE KeysQuiet
  BY <1>5 DEF SetStatus,
     KeysQuiet, TypeOK, CommittedKeys, tables, Goto
<1>6. CASE UNCHANGED wvars
  BY <1>6 DEF wvars,
     KeysQuiet, TypeOK, CommittedKeys, tables, Goto
<1> QED
  BY <1>1, <1>3, <1>4, <1>5, <1>6 DEF Next

\* An idempotency key takes effect at most once, and "already processed" is
\* answered only about a key that has, whatever the retries do.
THEOREM KeysOnce == Spec => []OncePerKey
<1>1. Init => KeysAnswered
  BY DEF Init, KeysAnswered, Succeeded, CommittedKeys
<1>2. TypeOK /\ TransactionsIsolated /\ KeysAnswered /\ [Next]_wvars => KeysAnswered'
  <2> SUFFICES ASSUME TypeOK, TransactionsIsolated, KeysAnswered, [Next]_wvars
               PROVE  KeysAnswered'
    OBVIOUS
  <2>1. ASSUME NEW r \in Requests, Commit(r) PROVE KeysAnswered'
    <3>1. CommittedKeys' = CommittedKeys \cup ({call[r].key} \ {NoKey})
      BY <2>1, CommitSpends
    <3>2. call[r].key \notin CommittedKeys
      BY <2>1 DEF TransactionsIsolated, Isolated, Commit, CommittedKeys
    <3>3. /\ pc' = [pc EXCEPT ![r] = "success"] /\ call' = call
          /\ pc[r] = "commit"
      BY <2>1 DEF Commit, Release, Goto
    <3>4. \A s \in Requests : Succeeded(s)' <=> s = r \/ Succeeded(s)
      BY <3>3 DEF Succeeded, TypeOK
    <3>5. \A s \in Requests : pc'[s] = "already" <=> pc[s] = "already"
      BY <3>3 DEF TypeOK
    <3>6. \A s \in Requests \ {r} : Succeeded(s) => ~SameKey(r, s) /\ ~SameKey(s, r)
      BY <3>2 DEF KeysAnswered, SameKey
    <3> QED
      BY <3>1, <3>3, <3>4, <3>5, <3>6 DEF KeysAnswered, SameKey
  <2>2. ASSUME NEW r \in Requests, CheckIdempotency(r), call[r].key \in CommittedKeys
        PROVE  KeysAnswered'
    <3>1. pc' = [pc EXCEPT ![r] = "already"] /\ call' = call /\ pc[r] = "check"
      BY <2>2 DEF CheckIdempotency, Goto
    <3>2. CommittedKeys' = CommittedKeys /\ call[r].key # NoKey
      BY <2>2 DEF CheckIdempotency, CommittedKeys, tables
    <3> QED
      BY <2>2, <3>1, <3>2 DEF KeysAnswered, Succeeded, SameKey, TypeOK
  <2> QED
    BY <2>1, <2>2, QuietKeys, OnlyCommitsAndAlready
<1>3. KeysAnswered => OncePerKey
  <2> SUFFICES ASSUME KeysAnswered, NEW r \in Requests
               PROVE  /\ Succeeded(r) =>
                           \A s \in Requests \ {r} : Succeeded(s) => ~SameKey(r, s)
                      /\ pc[r] = "already" =>
                           \E s \in Requests : Succeeded(s) /\ SameKey(r, s)
    BY DEF OncePerKey
  <2>1. Succeeded(r) => \A s \in Requests \ {r} : Succeeded(s) => ~SameKey(r, s)
    BY DEF KeysAnswered
  <2>2. ASSUME pc[r] = "already"
        PROVE  \E s \in Requests : Succeeded(s) /\ SameKey(r, s)
    <3>1. call[r].key \in CommittedKeys /\ call[r].key # NoKey
      BY <2>2 DEF KeysAnswered
    <3>2. PICK s \in Requests : Succeeded(s) /\ call[s].key = call[r].key
      BY <3>1 DEF KeysAnswered
    <3> QED
      BY <3>1, <3>2 DEF SameKey
  <2> QED
    BY <2>1, <2>2
<1> QED
  BY <1>1, <1>2, <1>3, TypeCorrect, Isolation, PTL DEF Spec
-----------------------------------------------------------------------------
\* What a committing transaction says in its history rows is what it leaves in
\* the wallets; only the debit row of a transfer to the same wallet is behind.
LEMMA CommitTells ==
    ASSUME TypeOK, NEW r \in Requests, Isolated(r), Commit(r), NEW row \in RowsOf(r),
           row.cur # wallets'[row.wallet].bal
    PROVE  /\ row.req = r /\ row.side = "from"
           /\ call[r].kind = "transfer" /\ call[r].src = call[r].dst
<1> DEFINE c == call[r]
           m == loc[r].credit
<1>1. /\ c.kind \in {"transfer", "deposit", "withdraw"}
      /\ c.src \in WalletId /\ c.dst \in WalletId /\ c.amount \in Int
      /\ c.kind # "transfer" => c.src = c.dst
  BY CallFacts DEF Commit
<1>2. /\ HoldsSrc(r) <=> c.kind # "deposit"
      /\ HoldsDst(r) <=> c.kind # "withdraw"
  BY DEF HoldsSrc, HoldsDst, Commit
<1>3. /\ c.kind # "deposit" => loc[r].sender = wallets[c.src].bal - c.amount
      /\ c.kind # "withdraw" => loc[r].prev = BeforeCredit(r).bal
  BY <1>2 DEF Isolated
<1>4. /\ m \in Int
      /\ \A row2 \in Wallet : Credited(row2, m) \in Wallet /\ Credited(row2, m).bal = row2.bal + m
  BY DEF TypeOK, Locals, Credited, Wallet, Status
<1>5. \A w \in WalletId : /\ wallets[w] \in Wallet
                          /\ Debited(wallets[w], c.amount) \in Wallet
                          /\ Debited(wallets[w], c.amount).bal = wallets[w].bal - c.amount
  BY <1>1, DebitedType DEF TypeOK, Debited, Wallet
<1>6. BeforeCredit(r) \in Wallet
  BY <1>1, <1>5 DEF BeforeCredit
<1>7. \A w \in WalletId : wallets'[w] = IF Due(r, w) # Unwritten THEN Due(r, w) ELSE wallets[w]
  BY CommitPublishes
<1>8. c.kind # "withdraw" => wallets'[c.dst].bal = loc[r].prev + m
  <2>1. c.kind # "withdraw" => wallets'[c.dst] = Credited(BeforeCredit(r), m)
    BY <1>1, <1>2, <1>4, <1>6, <1>7, WalletsAssumption DEF Due
  <2> QED  BY <1>3, <1>4, <1>6, <2>1
<1>9. c.kind # "deposit" /\ (c.kind = "withdraw" \/ c.src # c.dst) =>
         wallets'[c.src].bal = loc[r].sender
  <2>1. c.kind # "deposit" /\ (c.kind = "withdraw" \/ c.src # c.dst) =>
           wallets'[c.src] = Debited(wallets[c.src], c.amount)
    BY <1>1, <1>2, <1>5, <1>7, WalletsAssumption DEF Due
  <2> QED  BY <1>1, <1>3, <1>5, <2>1
<1>10. /\ FromRow(r).req = r /\ FromRow(r).side = "from"
       /\ FromRow(r).wallet = c.src /\ FromRow(r).cur = loc[r].sender
       /\ ToRow(r).wallet = c.dst /\ ToRow(r).cur = loc[r].prev + m
  BY DEF FromRow, ToRow
<1>11. \/ c.kind # "deposit" /\ row = FromRow(r)
       \/ c.kind # "withdraw" /\ row = ToRow(r)
  BY <1>1 DEF RowsOf
<1>12. row = FromRow(r) /\ c.kind # "deposit" /\ ~(c.kind = "withdraw" \/ c.src # c.dst)
  BY <1>8, <1>9, <1>10, <1>11
<1> QED  BY <1>1, <1>10, <1>12

\* The balance a new history row gives is the balance its commit leaves in
\* the wallet (internalTransfer, adjustWallet), except in the debit row of a
\* transfer from a wallet to itself.
THEOREM RowsTell == Spec => RowsTellTheBalance
<1>1. TypeOK /\ TransactionsIsolated /\ [Next]_wvars =>
        \A row \in history' \ history :
           row.cur # wallets'[row.wallet].bal =>
              /\ row.side = "from"
              /\ call[row.req].kind = "transfer"
              /\ call[row.req].src = call[row.req].dst
  <2> SUFFICES ASSUME TypeOK, TransactionsIsolated, [Next]_wvars,
                      NEW row \in history' \ history, row.cur # wallets'[row.wallet].bal
               PROVE  /\ row.side = "from"
                      /\ call[row.req].kind = "transfer"
                      /\ call[row.req].src = call[row.req].dst
    OBVIOUS
  <2>1. PICK r \in Requests : Commit(r)
    BY OnlyCommitsAndStatus DEF SetStatus
  <2>2. row \in RowsOf(r)
    BY <2>1 DEF Commit
  <2> QED
    BY <2>1, <2>2, CommitTells DEF TransactionsIsolated
<1> QED
  BY <1>1, TypeCorrect, Isolation, PTL DEF Spec, RowsTellTheBalance
-----------------------------------------------------------------------------
\* What the rows of history H have added to wallet w.
Earned(H, w) == Total([row \in {x \in H : x.wallet = w} |-> row.delta])

\* The sum Gained takes is that of the rows, in whatever order.
LEMMA EarnedOf ==
    ASSUME NEW H \in SUBSET HistoryRow, IsFiniteSet(H), NEW w
    PROVE  MapThenSumSet(LAMBDA row : row.delta, {row \in H : row.wallet = w}) = Earned(H, w)
<1> DEFINE S == {row \in H : row.wallet = w}
<1>1. IsFiniteSet(S) /\ \A row \in S : row.delta \in Int
  <2>1. S \subseteq H
    OBVIOUS
  <2> QED  BY <2>1, FS_Subset DEF HistoryRow
<1> HIDE DEF S
<1>2. MapThenSumSet(LAMBDA row : row.delta, S) = Total([row \in S |-> row.delta])
  BY <1>1, TotalOf, Zenon
<1> QED  BY <1>2, Zenon DEF S, Earned

\* What a wallet has earned is an integer.
LEMMA EarnedInt ==
    ASSUME NEW H \in SUBSET HistoryRow, IsFiniteSet(H), NEW w
    PROVE  Earned(H, w) \in Int
<1> DEFINE S == {x \in H : x.wallet = w}
           d == [x \in S |-> x.delta]
<1>1. IsFiniteSet(S) /\ d \in [S -> Int] /\ Earned(H, w) = Total(d)
  <2>1. S \subseteq H
    OBVIOUS
  <2> QED  BY <2>1, FS_Subset DEF HistoryRow, Earned
<1> HIDE DEF S, d
<1> QED  BY <1>1, TotalInt

\* A row more adds its amount to its wallet.
LEMMA EarnedAdds ==
    ASSUME NEW H \in SUBSET HistoryRow, IsFiniteSet(H), NEW row \in HistoryRow, row \notin H, NEW w
    PROVE  /\ Earned(H, w) \in Int
           /\ Earned(H \cup {row}, w) = Earned(H, w) + IF row.wallet = w THEN row.delta ELSE 0
<1> DEFINE S == {x \in H : x.wallet = w}
           d == [x \in S |-> x.delta]
           R == {x \in H \cup {row} : x.wallet = w}
           e == [x \in R |-> x.delta]
<1>1. IsFiniteSet(S) /\ d \in [S -> Int] /\ row \notin S
  <2>1. S \subseteq H
    OBVIOUS
  <2> QED  BY <2>1, FS_Subset DEF HistoryRow
<1>2. Earned(H, w) = Total(d) /\ Earned(H \cup {row}, w) = Total(e)
  BY DEF Earned
<1>3. row.delta \in Int
  BY DEF HistoryRow
<1>4. CASE row.wallet = w
  <2>1. R = S \cup {row}
    BY <1>4
  <2>2. e \in [S \cup {row} -> Int] /\ e[row] = row.delta /\ \A y \in S : e[y] = d[y]
    BY <1>1, <1>3, <2>1
  <2> HIDE DEF S, d, e
  <2>3. Adds(S, d, row, e)
    BY <1>1, <2>2 DEF Adds
  <2>4. Total(d) \in Int /\ Total(e) = Total(d) + e[row]
    BY <1>1, <2>3, TotalAdds
  <2> QED  BY <1>2, <1>4, <2>2, <2>4
<1>5. CASE row.wallet # w
  <2>1. R = S
    BY <1>5
  <2>2. e = d
    BY <2>1
  <2>3. Total(d) \in Int
    <3> HIDE DEF S, d
    <3> QED  BY <1>1, TotalInt
  <2> QED  BY <1>2, <1>3, <1>5, <2>2, <2>3
<1> QED  BY <1>4, <1>5

\* Only requests that have succeeded are in the history, which is finite.
HistoryOfSuccess ==
    /\ IsFiniteSet(history)
    /\ \A row \in history : row.req \in Requests /\ Succeeded(row.req)

\* A success is final.
LEMMA SuccessStays ==
    ASSUME TypeOK, [Next]_wvars, NEW r \in Requests, Succeeded(r)
    PROVE  Succeeded(r)'
<1>1. ASSUME NEW s \in Requests, Commit(s) PROVE Succeeded(r)'
  BY <1>1 DEF Commit, Release, Goto, Succeeded, TypeOK
<1>2. ASSUME NEW s \in Requests, CheckIdempotency(s), call[s].key \in CommittedKeys
      PROVE  Succeeded(r)'
  BY <1>2 DEF CheckIdempotency, Goto, Succeeded, TypeOK
<1>3. CASE KeysQuiet
  BY <1>3 DEF KeysQuiet, Succeeded
<1> QED  BY <1>1, <1>2, <1>3, OnlyCommitsAndAlready

\* A commit adds finitely many rows.
LEMMA CommitFinite ==
    ASSUME NEW r \in Requests, Commit(r), IsFiniteSet(history) PROVE IsFiniteSet(history')
<1>1. PICK From, To : From = FromRow(r) /\ To = ToRow(r)
  OBVIOUS
<1>2. RowsOf(r) \in {{From, To}, {From}, {To}}
  BY <1>1 DEF RowsOf
<1>3. history' = history \cup RowsOf(r)
  BY DEF Commit
<1>4. IsFiniteSet(history \cup {From}) /\ IsFiniteSet(history \cup {To})
  BY FS_AddElement
<1>5. IsFiniteSet((history \cup {From}) \cup {To})
  BY <1>4, FS_AddElement
<1>6. history \cup {From, To} = (history \cup {From}) \cup {To}
  OBVIOUS
<1> QED  BY <1>2, <1>3, <1>4, <1>5, <1>6

\* What a commit adds to each wallet, and to its history.
LEMMA CommitExplained ==
    ASSUME TypeOK, NEW r \in Requests, Isolated(r), Commit(r), HistoryOfSuccess,
           NEW w \in WalletId
    PROVE  /\ IsFiniteSet(history')
           /\ Earned(history, w) \in Int
           /\ wallets'[w].bal - wallets[w].bal = Earned(history', w) - Earned(history, w)
<1> DEFINE c == call[r]
           m == loc[r].credit
           From == FromRow(r)
           To == ToRow(r)
<1>1. /\ c.kind \in {"transfer", "deposit", "withdraw"}
      /\ c.src \in WalletId /\ c.dst \in WalletId /\ c.amount \in Int
  BY CallFacts DEF Commit
<1>2. m \in Int /\ wallets \in [WalletId -> Wallet] /\ history \in SUBSET HistoryRow
  BY DEF TypeOK, Locals
<1>3. \A v \in WalletId : wallets[v].bal \in Int
  BY <1>2 DEF Wallet
<1>4. \A row : Credited(row, m).bal = row.bal + m
  BY DEF Credited
<1>5. \A v \in WalletId : Debited(wallets[v], c.amount).bal = wallets[v].bal - c.amount
  BY <1>2 DEF Debited, Wallet
<1>6. /\ From.req = r /\ From.side = "from" /\ From.wallet = c.src /\ From.delta = -c.amount
      /\ To.req = r /\ To.side = "to" /\ To.wallet = c.dst /\ To.delta = m
  BY DEF FromRow, ToRow
<1>7. From \in HistoryRow /\ To \in HistoryRow
  BY EachRowType DEF Commit
<1>8. From \notin history /\ To \notin history /\ From # To
  BY <1>6 DEF HistoryOfSuccess, Succeeded, Commit
<1>9. IsFiniteSet(history)
  BY DEF HistoryOfSuccess
<1>10. history' = history \cup RowsOf(r)
  BY DEF Commit
<1>11. /\ Earned(history, w) \in Int
       /\ Earned(history \cup {From}, w) = Earned(history, w) + IF c.src = w THEN -c.amount ELSE 0
       /\ Earned(history \cup {To}, w) = Earned(history, w) + IF c.dst = w THEN m ELSE 0
  <2> HIDE DEF From, To
  <2> QED  BY <1>2, <1>6, <1>7, <1>8, <1>9, EarnedAdds
<1>12. Earned((history \cup {From}) \cup {To}, w)
         = Earned(history \cup {From}, w) + IF c.dst = w THEN m ELSE 0
  <2> DEFINE H == history \cup {From}
  <2>1. H \in SUBSET HistoryRow /\ To \notin H
    BY <1>2, <1>7, <1>8
  <2>2. IsFiniteSet(H)
    BY <1>9, FS_AddElement
  <2> HIDE DEF H, From, To
  <2> QED  BY <1>6, <1>7, <2>1, <2>2, EarnedAdds DEF H
<1>13. IsFiniteSet(history')
  BY <1>9, CommitFinite
<1> HIDE DEF From, To
<1>14. CASE c.kind = "deposit"
  <2>1. wallets' = [wallets EXCEPT ![c.dst] = Credited(@, m)]
    BY <1>14, CommitEffect
  <2>2. history' = history \cup {To}
    BY <1>10, <1>14 DEF RowsOf, To
  <2>3. wallets'[w].bal = wallets[w].bal + IF c.dst = w THEN m ELSE 0
    BY <1>1, <1>2, <1>3, <1>4, <2>1
  <2> QED  BY <1>1, <1>2, <1>3, <1>11, <1>13, <2>2, <2>3
<1>15. CASE c.kind = "withdraw"
  <2>1. wallets' = [wallets EXCEPT ![c.src] = Debited(@, c.amount)]
    BY <1>15, CommitEffect
  <2>2. history' = history \cup {From}
    BY <1>10, <1>15 DEF RowsOf, From
  <2>3. wallets'[w].bal = wallets[w].bal + IF c.src = w THEN -c.amount ELSE 0
    BY <1>1, <1>2, <1>3, <1>5, <2>1
  <2> QED  BY <1>1, <1>2, <1>3, <1>11, <1>13, <2>2, <2>3
<1>16. CASE c.kind = "transfer"
  <2> DEFINE paid == [wallets EXCEPT ![c.src] = Debited(@, c.amount)]
  <2>1. wallets' = [paid EXCEPT ![c.dst] = Credited(@, m)]
    BY <1>16, CommitEffect
  <2>2. history' = (history \cup {From}) \cup {To}
    BY <1>10, <1>16 DEF RowsOf, From, To
  <2>3. paid[w].bal = wallets[w].bal + IF c.src = w THEN -c.amount ELSE 0
    BY <1>1, <1>2, <1>3, <1>5
  <2>4. wallets'[w] = IF w = c.dst THEN Credited(paid[w], m) ELSE paid[w]
    BY <1>1, <1>2, <2>1
  <2>5. wallets'[w].bal = paid[w].bal + IF c.dst = w THEN m ELSE 0
    BY <1>1, <1>2, <1>3, <1>4, <2>3, <2>4
  <2> QED  BY <1>1, <1>2, <1>3, <1>11, <1>12, <1>13, <2>2, <2>3, <2>5
<1> QED  BY <1>1, <1>14, <1>15, <1>16

\* The history stays one of requests that have succeeded.
LEMMA NextHistory ==
    ASSUME TypeOK, TransactionsIsolated, HistoryOfSuccess, [Next]_wvars
    PROVE  HistoryOfSuccess'
<1>1. ASSUME NEW row \in history' PROVE row.req \in Requests /\ Succeeded(row.req)'
  <2>1. CASE row \in history
    BY <2>1, SuccessStays DEF HistoryOfSuccess
  <2>2. CASE row \notin history
    <3>1. PICK r \in Requests : Commit(r)
      BY <1>1, <2>2, OnlyCommitsAndStatus DEF SetStatus
    <3>2. row \in RowsOf(r)
      BY <1>1, <2>2, <3>1 DEF Commit
    <3>3. row.req = r
      BY <3>2 DEF RowsOf, FromRow, ToRow
    <3> QED  BY <3>1, <3>3 DEF Commit, Release, Goto, Succeeded, TypeOK
  <2> QED  BY <2>1, <2>2
<1>2. IsFiniteSet(history')
  <2>1. ASSUME NEW r \in Requests, Commit(r) PROVE IsFiniteSet(history')
    BY <2>1, CommitFinite DEF HistoryOfSuccess
  <2> QED  BY <2>1, OnlyCommitsAndStatus DEF SetStatus, HistoryOfSuccess
<1> QED  BY <1>1, <1>2 DEF HistoryOfSuccess

\* Lost updates and half-done transfers are excluded for every number of
\* requests: what the committed history adds up to is what each balance has
\* changed by since the tables were opened (internalTransfer, adjustWallet).
THEOREM HistoryExplains == Spec => []HistoryExplainsBalances
<1>1. Init => HistoryOfSuccess /\ HistoryExplainsBalances
  <2> SUFFICES ASSUME Init PROVE HistoryOfSuccess /\ HistoryExplainsBalances
    OBVIOUS
  <2>1. history = {} /\ wallets \in Opening
    BY DEF Init
  <2>2. \A w \in WalletId : Gained(w) = 0
    <3> TAKE w \in WalletId
    <3>1. Gained(w) = Earned({}, w)
      BY <2>1, EarnedOf, FS_EmptySet, Zenon DEF Gained
    <3>2. [row \in {x \in {} : x.wallet = w} |-> row.delta] \in [{} -> Int]
      OBVIOUS
    <3> QED  BY <3>1, <3>2, TotalEmpty DEF Earned
  <2>3. \A w \in WalletId : wallets[w].bal = wallets[w].bal + 0
    BY <2>1, WalletsAssumption DEF Wallet
  <2> QED  BY <2>1, <2>2, <2>3, FS_EmptySet DEF HistoryOfSuccess, HistoryExplainsBalances
<1>2. TypeOK /\ TransactionsIsolated /\ HistoryOfSuccess /\ HistoryExplainsBalances /\ [Next]_wvars
        => HistoryOfSuccess' /\ HistoryExplainsBalances'
  <2> SUFFICES ASSUME TypeOK, TransactionsIsolated, HistoryOfSuccess, HistoryExplainsBalances,
                      [Next]_wvars
               PROVE  HistoryOfSuccess' /\ HistoryExplainsBalances'
    OBVIOUS
  <2>1. HistoryOfSuccess' /\ TypeOK'
    BY NextHistory, NextType
  <2>2. \A w : Gained(w) = Earned(history, w) /\ Gained(w)' = Earned(history', w)
    <3> TAKE w
    <3>1. IsFiniteSet(history) /\ IsFiniteSet(history')
      BY <2>1 DEF HistoryOfSuccess
    <3>2. history \in SUBSET HistoryRow /\ history' \in SUBSET HistoryRow
      BY <2>1 DEF TypeOK
    <3>3. Gained(w) = Earned(history, w)
      BY <3>1, <3>2, EarnedOf, Zenon DEF Gained
    <3>4. Gained(w)' = Earned(history', w)
      <4>1. Gained(w)' = MapThenSumSet(LAMBDA row : row.delta, {row \in history' : row.wallet = w})
        BY Zenon DEF Gained, MapThenSumSet, MapThenFoldSet
      <4>2. PICK H : H = history'
        OBVIOUS
      <4>3. MapThenSumSet(LAMBDA row : row.delta, {row \in H : row.wallet = w}) = Earned(H, w)
        BY <3>1, <3>2, <4>2, EarnedOf, Zenon
      <4> QED  BY <4>1, <4>2, <4>3, Zenon
    <3> QED  BY <3>3, <3>4
  <2>3. \A w \in WalletId : wallets'[w].bal - wallets[w].bal = Gained(w)' - Gained(w)
    <3> TAKE w \in WalletId
    <3>0. wallets[w].bal \in Int /\ Gained(w) \in Int
      BY <2>2, EarnedInt DEF TypeOK, Wallet, HistoryOfSuccess
    <3>1. ASSUME NEW r \in Requests, Commit(r)
          PROVE  wallets'[w].bal - wallets[w].bal = Gained(w)' - Gained(w)
      BY <2>2, <3>1, CommitExplained DEF TransactionsIsolated
    <3>2. ASSUME NEW v \in WalletId, NEW s \in StatusChanges, SetStatus(v, s)
          PROVE  wallets'[w].bal = wallets[w].bal /\ history' = history
      BY <3>2 DEF SetStatus, TypeOK, Wallet
    <3> QED  BY <2>2, <3>0, <3>1, <3>2, OnlyCommitsAndStatus
  <2>4. PICK rows \in Opening : \A w \in WalletId : wallets[w].bal = rows[w].bal + Gained(w)
    BY DEF HistoryExplainsBalances
  <2>5. ASSUME NEW w \in WalletId PROVE wallets'[w].bal = rows[w].bal + Gained(w)'
    <3>1. wallets[w].bal \in Int /\ wallets'[w].bal \in Int /\ rows[w].bal \in Int
      BY <2>1, <2>4, WalletsAssumption DEF TypeOK, Wallet
    <3>2. Gained(w) \in Int /\ Gained(w)' \in Int
      BY <2>1, <2>2, EarnedInt DEF TypeOK, HistoryOfSuccess
    <3>3. PICK g, h \in Int : g = Gained(w) /\ h = Gained(w)'
      BY <3>2
    <3>4. wallets'[w].bal - wallets[w].bal = h - g /\ wallets[w].bal = rows[w].bal + g
      BY <2>3, <2>4, <3>3
    <3>5. wallets'[w].bal = rows[w].bal + h
      BY <3>1, <3>3, <3>4
    <3> QED  BY <3>3, <3>5
  <2> QED  BY <2>1, <2>4, <2>5 DEF HistoryExplainsBalances
<1> QED  BY <1>1, <1>2, TypeCorrect, Isolation, PTL DEF Spec
-----------------------------------------------------------------------------
\* The history is finite and one of successes, always.
LEMMA HistoryOnly == Spec => []HistoryOfSuccess
<1>1. Init => HistoryOfSuccess
  BY FS_EmptySet DEF Init, HistoryOfSuccess
<1>2. TypeOK /\ TransactionsIsolated /\ HistoryOfSuccess /\ [Next]_wvars => HistoryOfSuccess'
  BY NextHistory
<1> QED  BY <1>1, <1>2, TypeCorrect, Isolation, PTL DEF Spec

\* The row a commit leaves of each wallet.
LEMMA CommitRow ==
    ASSUME TypeOK, NEW r \in Requests, Isolated(r), Commit(r), NEW w \in WalletId,
           NEW c, c = call[r], NEW m, m = loc[r].credit
    PROVE  /\ c.kind # "withdraw" /\ w = c.dst => wallets'[w] = Credited(BeforeCredit(r), m)
           /\ c.kind # "deposit" /\ w = c.src /\ ~(c.kind = "transfer" /\ w = c.dst) =>
                 wallets'[w] = Debited(wallets[w], c.amount)
           /\ (c.kind = "deposit" \/ w # c.src) /\ (c.kind = "withdraw" \/ w # c.dst) =>
                 wallets'[w] = wallets[w]
<1>1. /\ c.kind \in {"transfer", "deposit", "withdraw"}
      /\ c.src \in WalletId /\ c.dst \in WalletId /\ c.amount \in Int
      /\ c.kind # "transfer" => c.src = c.dst
  BY CallFacts DEF Commit
<1>2. m \in Int /\ wallets \in [WalletId -> Wallet]
  BY DEF TypeOK, Locals
<1>3. CASE c.kind = "deposit"
  <2>1. /\ wallets' = [wallets EXCEPT ![c.dst] = Credited(@, m)]
        /\ BeforeCredit(r) = wallets[c.dst]
    BY <1>3, CommitEffect
  <2> QED  BY <1>1, <1>2, <1>3, <2>1
<1>4. CASE c.kind = "withdraw"
  <2>1. wallets' = [wallets EXCEPT ![c.src] = Debited(@, c.amount)]
    BY <1>4, CommitEffect
  <2> QED  BY <1>1, <1>2, <1>4, <2>1
<1>5. CASE c.kind = "transfer"
  <2>1. PICK paid : paid = [wallets EXCEPT ![c.src] = Debited(@, c.amount)]
    OBVIOUS
  <2>2. wallets' = [paid EXCEPT ![c.dst] = Credited(@, m)]
    BY <1>5, <2>1, CommitEffect
  <2>3. \A v \in WalletId : paid[v] = IF v = c.src THEN Debited(wallets[v], c.amount) ELSE wallets[v]
    BY <1>1, <1>2, <2>1
  <2>4. wallets'[w] = IF w = c.dst THEN Credited(paid[w], m) ELSE paid[w]
    BY <1>1, <1>2, <2>1, <2>2
  <2>5. BeforeCredit(r) = paid[c.dst]
    BY <1>1, <1>5, <2>3, CommitEffect
  <2> QED  BY <1>5, <2>3, <2>4, <2>5
<1> QED  BY <1>1, <1>3, <1>4, <1>5

\* What a commit has looked at before it: the wallet debited covers the
\* amount, the one credited stays above zero if it existed, and only a
\* transfer of a negative amount takes from the wallet it credits.
LEMMA CommitChecks ==
    ASSUME TypeOK, NEW r \in Requests, Isolated(r), Commit(r),
           NEW c, c = call[r], NEW m, m = loc[r].credit
    PROVE  /\ c.kind \in {"transfer", "deposit", "withdraw"}
           /\ c.kind # "transfer" => c.src = c.dst
           /\ c.src \in WalletId /\ c.dst \in WalletId
           /\ c.kind # "deposit" => /\ Debitable(wallets[c.src])
                                    /\ Debited(wallets[c.src], c.amount).bal >= 0
           /\ c.kind # "withdraw" => /\ BeforeCredit(r) \in Wallet
                                     /\ Credited(BeforeCredit(r), m).bal = BeforeCredit(r).bal + m
                                     /\ wallets[c.dst].status # "Absent" =>
                                           Credited(BeforeCredit(r), m).bal >= 0
                                     /\ m \in Int
                                     /\ m < 0 => c.kind = "transfer" /\ c.amount < 0
           /\ c.kind # "withdraw" /\ (c.kind = "deposit" \/ c.src # c.dst) =>
                 BeforeCredit(r) = wallets[c.dst]
<1>1. /\ c.kind \in {"transfer", "deposit", "withdraw"}
      /\ c.src \in WalletId /\ c.dst \in WalletId /\ c.amount \in Int
      /\ c.kind # "transfer" => c.src = c.dst /\ c.amount >= 0
      /\ c.src[2] \in Currencies /\ c.dst[2] \in Currencies
  BY CallFacts DEF Commit
<1>2. m \in Int /\ wallets \in [WalletId -> Wallet]
  BY DEF TypeOK, Locals
<1>3. /\ wallets[c.src] \in Wallet /\ wallets[c.src].bal \in Int
      /\ Debited(wallets[c.src], c.amount).bal = wallets[c.src].bal - c.amount
      /\ Debited(wallets[c.src], c.amount) \in Wallet
  BY <1>1, <1>2, DebitedType DEF Wallet, Debited
<1>4. c.kind # "deposit" => Debitable(wallets[c.src]) /\ wallets[c.src].bal >= c.amount
  BY CommitEffect DEF Covers
<1>5. c.kind # "deposit" => Debited(wallets[c.src], c.amount).bal >= 0
  BY <1>1, <1>3, <1>4
<1>6. c.kind # "withdraw" =>
         /\ BeforeCredit(r) = IF c.kind = "transfer" /\ c.src = c.dst
                              THEN Debited(wallets[c.dst], c.amount) ELSE wallets[c.dst]
         /\ wallets[c.dst].status # "Absent" => BeforeCredit(r).bal + m >= 0
         /\ m \in Credits(c.src[2], c.dst[2], c.amount)
  BY CommitEffect DEF Admits
<1>7. c.kind # "withdraw" => BeforeCredit(r) \in Wallet
  BY <1>1, <1>2, <1>3, <1>6
<1>8. Credited(BeforeCredit(r), m).bal = BeforeCredit(r).bal + m
  BY DEF Credited
<1>9. c.kind # "withdraw" /\ m < 0 => c.amount < 0
  BY <1>1, <1>6, CreditsInt
<1>10. c.kind # "withdraw" /\ m < 0 => c.kind = "transfer"
  BY <1>1, <1>9
<1> QED  BY <1>1, <1>2, <1>4, <1>5, <1>6, <1>7, <1>8, <1>9, <1>10

\* The recipient's row of a committing transfer is a new one.
LEMMA CommitAddsRow ==
    ASSUME TypeOK, HistoryOfSuccess, NEW r \in Requests, Isolated(r), Commit(r),
           call[r].kind # "withdraw", NEW row, row = ToRow(r)
    PROVE  /\ row \in history' /\ row \notin history
           /\ row.req = r /\ row.side = "to" /\ row.wallet = call[r].dst
           /\ row.prev = BeforeCredit(r).bal
           /\ row.cur = BeforeCredit(r).bal + loc[r].credit
<1>1. /\ row.req = r /\ row.side = "to" /\ row.wallet = call[r].dst
      /\ row.prev = loc[r].prev /\ row.cur = loc[r].prev + loc[r].credit
  BY DEF ToRow
<1>2. loc[r].prev = BeforeCredit(r).bal
  BY DEF Isolated, HoldsDst, Commit
<1>3. row \in RowsOf(r)
  BY CallFacts DEF RowsOf, Commit
<1>4. row \notin history
  BY <1>1 DEF HistoryOfSuccess, Succeeded, Commit
<1>5. row \in history'
  BY <1>3 DEF Commit
<1> QED  BY <1>1, <1>2, <1>4, <1>5

\* A wallet that does not exist has no money and no history.
Unopened ==
    \A w \in WalletId :
        wallets[w].status = "Absent" =>
            wallets[w].bal = 0 /\ \A row \in history : row.wallet # w

\* The wallets a commit's history rows are about.
LEMMA RowsAbout ==
    ASSUME TypeOK, NEW r \in Requests, Commit(r), NEW row \in RowsOf(r)
    PROVE  \/ call[r].kind # "withdraw" /\ row.wallet = call[r].dst /\ row = ToRow(r)
           \/ call[r].kind # "deposit" /\ row.wallet = call[r].src
<1>1. call[r].kind \in {"transfer", "deposit", "withdraw"}
  BY CallFacts DEF Commit
<1>2. FromRow(r).wallet = call[r].src /\ ToRow(r).wallet = call[r].dst
  BY DEF FromRow, ToRow
<1> QED  BY <1>1, <1>2 DEF RowsOf

\* A commit creates the wallets it writes of.
LEMMA CommitOpens ==
    ASSUME TypeOK, TransactionsIsolated, Unopened, NEW r \in Requests, Commit(r)
    PROVE  Unopened'
<1> SUFFICES ASSUME NEW w \in WalletId, wallets'[w].status = "Absent"
             PROVE  wallets'[w].bal = 0 /\ \A row \in history' : row.wallet # w
  BY DEF Unopened
<1>0. PICK c, m : c = call[r] /\ m = loc[r].credit
  OBVIOUS
<1>1. Isolated(r)
  BY DEF TransactionsIsolated
<1>2. \A row : Credited(row, m).status # "Absent"
  BY DEF Credited
<1>3. ~(c.kind # "withdraw" /\ w = c.dst)
  BY <1>0, <1>1, <1>2, CommitRow
<1>4. ~(c.kind # "deposit" /\ w = c.src)
  <2> SUFFICES ASSUME c.kind # "deposit", w = c.src PROVE FALSE
    OBVIOUS
  <2>1. c.kind \in {"transfer", "withdraw"} /\ Debitable(wallets[w])
    BY <1>0, <1>1, CommitChecks
  <2>2. wallets'[w] = Debited(wallets[w], c.amount)
    BY <1>0, <1>1, <1>3, <2>1, CommitRow
  <2>3. wallets'[w].status = wallets[w].status
    BY <2>2 DEF Debited, TypeOK, Wallet
  <2> QED  BY <2>1, <2>3 DEF Debitable
<1>5. wallets'[w] = wallets[w]
  BY <1>0, <1>1, <1>3, <1>4, CommitRow
<1>6. wallets[w].bal = 0 /\ \A row \in history : row.wallet # w
  BY <1>5 DEF Unopened
<1>7. \A row \in RowsOf(r) : row.wallet # w
  BY <1>0, <1>3, <1>4, RowsAbout
<1>8. history' = history \cup RowsOf(r)
  BY DEF Commit
<1> QED  BY <1>5, <1>6, <1>7, <1>8

\* What a commit leaves below zero it has created, unless it was so before.
LEMMA CommitCovered ==
    ASSUME TypeOK, TransactionsIsolated, HistoryOfSuccess, Unopened, NeverOverdrawn,
           NEW r \in Requests, Commit(r)
    PROVE  NeverOverdrawn'
<1> SUFFICES ASSUME NEW w \in WalletId, wallets'[w].bal < 0
             PROVE  \E row \in history' :
                       /\ Reversed(row)'
                       /\ row.prev = 0 /\ row.cur = wallets'[w].bal
                       /\ {other \in history' : other.wallet = w} = {row}
  BY DEF NeverOverdrawn
<1>0. PICK c, m : c = call[r] /\ m = loc[r].credit
  OBVIOUS
<1>1. Isolated(r) /\ call' = call /\ history' = history \cup RowsOf(r)
  BY DEF TransactionsIsolated, Commit
<1>2. wallets[w] \in Wallet /\ wallets[w].bal \in Int
  BY DEF TypeOK, Wallet
<1>3. CASE c.kind # "withdraw" /\ w = c.dst
  <2>1. /\ wallets'[w] = Credited(BeforeCredit(r), m)
        /\ Credited(BeforeCredit(r), m).bal = BeforeCredit(r).bal + m
        /\ m \in Int /\ (m < 0 => c.kind = "transfer" /\ c.amount < 0)
    BY <1>0, <1>1, <1>3, CommitRow, CommitChecks
  <2>2. BeforeCredit(r).bal \in Int
    BY <1>0, <1>1, <1>3, CommitChecks DEF Wallet
  <2>3. wallets[w].status = "Absent"
    <3> SUFFICES ASSUME wallets[w].status # "Absent" PROVE FALSE
      OBVIOUS
    <3>1. Credited(BeforeCredit(r), m).bal >= 0
      BY <1>0, <1>1, <1>3, CommitChecks
    <3> QED  BY <2>1, <2>2, <3>1
  <2>4. c.kind # "deposit" => c.src # w
    BY <1>0, <1>1, <2>3, CommitChecks DEF Debitable
  <2>5. BeforeCredit(r) = wallets[w] /\ wallets[w].bal = 0
    BY <1>0, <1>1, <1>3, <2>3, <2>4, CommitChecks DEF Unopened
  <2>6. wallets'[w].bal = m /\ m < 0 /\ c.kind = "transfer" /\ c.amount < 0
    BY <2>1, <2>2, <2>5
  <2>7. PICK row : row = ToRow(r)
    OBVIOUS
  <2>8. /\ row \in history' /\ row.req = r /\ row.side = "to" /\ row.wallet = w
        /\ row.prev = 0 /\ row.cur = 0 + m
    BY <1>0, <1>1, <1>3, <2>5, <2>7, CommitAddsRow
  <2>9. Reversed(row)'
    BY <1>0, <1>1, <2>6, <2>8 DEF Reversed
  <2>10. \A other \in RowsOf(r) : other.wallet = w => other = row
    BY <1>0, <2>4, <2>7, RowsAbout
  <2>11. \A other \in history : other.wallet # w
    BY <2>3 DEF Unopened
  <2>12. {other \in history' : other.wallet = w} = {row}
    BY <1>1, <2>8, <2>10, <2>11
  <2> QED  BY <2>1, <2>6, <2>8, <2>9, <2>12
<1>4. CASE c.kind # "deposit" /\ w = c.src /\ ~(c.kind # "withdraw" /\ w = c.dst)
  <2>1. /\ wallets'[w] = Debited(wallets[w], c.amount)
        /\ Debited(wallets[w], c.amount).bal >= 0
    BY <1>0, <1>1, <1>4, CommitRow, CommitChecks
  <2>2. Debited(wallets[w], c.amount).bal \in Int
    BY <1>0, <1>2, CallFacts DEF Debited, Wallet, Commit
  <2> QED  BY <2>1, <2>2
<1>5. CASE (c.kind = "deposit" \/ w # c.src) /\ (c.kind = "withdraw" \/ w # c.dst)
  <2>1. wallets'[w] = wallets[w]
    BY <1>0, <1>1, <1>5, CommitRow
  <2>2. PICK row \in history : /\ Reversed(row)
                               /\ row.prev = 0 /\ row.cur = wallets[w].bal
                               /\ {other \in history : other.wallet = w} = {row}
    BY <2>1 DEF NeverOverdrawn
  <2>3. Reversed(row)'
    BY <1>1, <2>2 DEF Reversed
  <2>4. \A other \in RowsOf(r) : other.wallet # w
    BY <1>0, <1>5, RowsAbout
  <2>5. {other \in history' : other.wallet = w} = {row}
    BY <1>1, <2>2, <2>4
  <2> QED  BY <1>1, <2>1, <2>2, <2>3, <2>5
<1> QED  BY <1>3, <1>4, <1>5

\* The calls that the history is about do not change.
LEMMA CallsStay ==
    ASSUME TypeOK, HistoryOfSuccess, [Next]_wvars, NEW row \in history
    PROVE  call'[row.req] = call[row.req]
<1>1. PICK s \in Requests : s = row.req /\ Succeeded(s)
  BY DEF HistoryOfSuccess
<1>2. ASSUME NEW r \in Requests, NEW c \in Calls, Begin(r, c) PROVE call'[s] = call[s]
  BY <1>1, <1>2 DEF Begin, Succeeded, TypeOK
<1>3. ASSUME NEW r \in Requests, Step(r) PROVE call' = call
  BY <1>3 DEF Step, CheckIdempotency, CheckPin, DebitWallet, RefuseDebit, CreditWallet,
     RefuseCredit, MissWallet, CreateWallet, DuplicateWallet, Beneficiary, LogHistory,
     DuplicateKey, Commit, Rollback, tables
<1>4. ASSUME NEW r \in Requests, DeadlockVictim(r) \/ Fail(r) PROVE call' = call
  BY <1>4 DEF DeadlockVictim, Fail, Rollback
<1>5. ASSUME NEW w \in WalletId, NEW t \in StatusChanges, SetStatus(w, t) PROVE call' = call
  BY <1>5 DEF SetStatus
<1>6. CASE UNCHANGED wvars
  BY <1>6 DEF wvars
<1> QED  BY <1>1, <1>2, <1>3, <1>4, <1>5, <1>6 DEF Next

\* No interleaving of debits and credits leaves a wallet below zero, for any
\* amounts; only a transfer of a negative amount creates one so
\* (internalTransfer's insertion, which applyWalletDelta's check is not in).
THEOREM Solvent == Spec => []NeverOverdrawn
<1>1. Init => Unopened /\ NeverOverdrawn
  BY WalletsAssumption DEF Init, Unopened, NeverOverdrawn, Wallet
<1>2. /\ TypeOK /\ TransactionsIsolated /\ HistoryOfSuccess /\ Unopened /\ NeverOverdrawn
      /\ [Next]_wvars
      => Unopened' /\ NeverOverdrawn'
  <2> SUFFICES ASSUME TypeOK, TransactionsIsolated, HistoryOfSuccess, Unopened, NeverOverdrawn,
                      [Next]_wvars
               PROVE  Unopened' /\ NeverOverdrawn'
    OBVIOUS
  <2>1. ASSUME history' = history, \A v \in WalletId : wallets'[v].bal = wallets[v].bal,
               \A v \in WalletId : wallets'[v].status = "Absent" => wallets[v].status = "Absent"
        PROVE  Unopened' /\ NeverOverdrawn'
    <3>1. \A row \in history : Reversed(row)' <=> Reversed(row)
      BY CallsStay DEF Reversed
    <3>2. Unopened'
      BY <2>1 DEF Unopened
    <3>3. ASSUME NEW w \in WalletId, wallets'[w].bal < 0
          PROVE  \E row \in history' :
                    /\ Reversed(row)'
                    /\ row.prev = 0 /\ row.cur = wallets'[w].bal
                    /\ {other \in history' : other.wallet = w} = {row}
      BY <2>1, <3>1, <3>3 DEF NeverOverdrawn
    <3> QED  BY <3>2, <3>3 DEF NeverOverdrawn
  <2>2. ASSUME NEW w \in WalletId, NEW s \in StatusChanges, SetStatus(w, s)
        PROVE  /\ history' = history
               /\ \A v \in WalletId : wallets'[v].bal = wallets[v].bal
               /\ \A v \in WalletId : wallets'[v].status = "Absent" => wallets[v].status = "Absent"
    BY <2>2, WalletsAssumption DEF SetStatus, TypeOK, Wallet
  <2> QED
    BY <2>1, <2>2, CommitCovered, CommitOpens, OnlyCommitsAndStatus
<1> QED
  BY <1>1, <1>2, TypeCorrect, Isolation, HistoryOnly, PTL DEF Spec

\* A balance a commit lowers is that of the wallet debited, or of the
\* recipient of a negative amount.
LEMMA CommitLowers ==
    ASSUME TypeOK, HistoryOfSuccess, NEW r \in Requests, Isolated(r), Commit(r),
           NEW w \in WalletId, wallets'[w].bal < wallets[w].bal
    PROVE  \/ Debitable(wallets[w])
           \/ \E row \in history' \ history : row.wallet = w /\ Reversed(row)
<1>0. PICK c, m : c = call[r] /\ m = loc[r].credit
  OBVIOUS
<1>1. wallets[w].bal \in Int
  BY DEF TypeOK, Wallet
<1>2. CASE c.kind # "deposit" /\ w = c.src
  BY <1>0, <1>2, CommitChecks
<1>3. CASE c.kind # "withdraw" /\ w = c.dst /\ (c.kind = "deposit" \/ c.src # w)
  <2>1. wallets'[w].bal = wallets[w].bal + m /\ m \in Int
    BY <1>0, <1>3, CommitRow, CommitChecks
  <2>2. m < 0
    BY <1>1, <2>1
  <2>3. c.kind = "transfer" /\ c.amount < 0
    BY <1>0, <1>3, <2>2, CommitChecks
  <2>4. PICK row : row = ToRow(r)
    OBVIOUS
  <2>5. /\ row \in history' \ history /\ row.wallet = w
        /\ row.req = r /\ row.side = "to"
    BY <1>0, <1>3, <2>4, CommitAddsRow
  <2> QED  BY <1>0, <2>3, <2>5 DEF Reversed
<1>4. CASE (c.kind = "deposit" \/ w # c.src) /\ (c.kind = "withdraw" \/ w # c.dst)
  <2>1. wallets'[w] = wallets[w]
    BY <1>0, <1>4, CommitRow
  <2> QED  BY <1>1, <2>1
<1> QED  BY <1>2, <1>3, <1>4

\* A blocked or suspended wallet is not debited, even by a transfer that had
\* begun when it was blocked; it is lowered only as the recipient of a
\* negative amount, whose status internalTransfer does not look at.
THEOREM BlockedUntouched == Spec => NoDebitWhileBlocked
<1>1. TypeOK /\ TransactionsIsolated /\ HistoryOfSuccess /\ [Next]_wvars =>
        \A w \in WalletId :
          wallets'[w].bal < wallets[w].bal =>
              \/ wallets[w].status \notin {"Blocked", "Suspended"}
              \/ \E row \in history' \ history : row.wallet = w /\ Reversed(row)
  <2> SUFFICES ASSUME TypeOK, TransactionsIsolated, HistoryOfSuccess, [Next]_wvars,
                      NEW w \in WalletId, wallets'[w].bal < wallets[w].bal
               PROVE  \/ wallets[w].status \notin {"Blocked", "Suspended"}
                      \/ \E row \in history' \ history : row.wallet = w /\ Reversed(row)
    OBVIOUS
  <2>1. wallets[w].bal \in Int
    BY DEF TypeOK, Wallet
  <2>2. ASSUME NEW r \in Requests, Commit(r)
        PROVE  \/ wallets[w].status \notin {"Blocked", "Suspended"}
               \/ \E row \in history' \ history : row.wallet = w /\ Reversed(row)
    BY <2>2, CommitLowers DEF TransactionsIsolated, Debitable
  <2>3. ASSUME NEW v \in WalletId, NEW s \in StatusChanges, SetStatus(v, s) PROVE FALSE
    <3>1. wallets'[w].bal = wallets[w].bal
      BY <2>3 DEF SetStatus, TypeOK, Wallet
    <3> QED
      BY <2>1, <3>1
  <2>4. CASE UNCHANGED <<wallets, history>>
    BY <2>1, <2>4
  <2> QED
    BY <2>2, <2>3, <2>4, OnlyCommitsAndStatus
<1> QED
  BY <1>1, TypeCorrect, Isolation, HistoryOnly, PTL DEF Spec, NoDebitWhileBlocked
=============================================================================
