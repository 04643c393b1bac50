------------------------------ MODULE Wallets ------------------------------
(***************************************************************************)
(* WalletsService: internalTransfer and adjustWallet (fundWallet,          *)
(* debitWallet) as the database transactions they are.  Several requests   *)
(* run at once; one action is what the service does between two waits for  *)
(* the database.  A transaction reads committed rows and its own writes,   *)
(* takes row locks it keeps to its end, and publishes at commit.           *)
(***************************************************************************)
EXTENDS WalletRows, FiniteSetsExt

CONSTANTS
    Requests,       \* HTTP requests and internal calls, each made once
    Calls,          \* the arguments they may carry
    Registered,     \* users whose username exists
    Unsupported,    \* currencies internalTransfer refuses (USDC)
    StatusChanges,  \* the statuses an operator sets
    Opening,        \* the tables of wallets the service may start with
    Unwritten,      \* "no pending write on this wallet"
    Nobody,         \* "no transaction holds this lock"
    NoCall

CallType ==
    [kind : {"transfer", "deposit", "withdraw"}, src : WalletId, dst : WalletId,
     amount : Amounts, key : Keys \cup {NoKey}, save : BOOLEAN]

ASSUME WalletsAssumption ==
    /\ Calls \subseteq CallType
    /\ \A c \in Calls :
          /\ c.kind = "transfer" => c.key # NoKey
          /\ c.kind # "transfer" => c.src = c.dst /\ c.amount >= 0
    /\ Amounts \subseteq Int
    /\ StatusChanges \subseteq Status \ {"Absent"}
    /\ NoKey \notin Keys
    /\ Nobody \notin Requests
    /\ Unwritten \notin Wallet
    /\ NoCall \notin Calls
    /\ \A rows \in Opening :
          /\ rows \in [WalletId -> Wallet]
          /\ \A w \in WalletId :
                /\ rows[w].bal >= 0
                /\ rows[w].status = "Absent" => rows[w].bal = 0

VARIABLES
    wallets,        \* committed rows of table wallets
    history,        \* committed rows of table transactions
    beneficiaries,  \* committed rows of table beneficiary: <<owner, recipient>>
    call,           \* call[r]: the arguments of request r
    pc,             \* pc[r]: where r stands, or how it ended
    pend,           \* pend[r][w]: the row r has written and not committed
    loc,            \* loc[r]: the balances r keeps in local variables
    owner,          \* owner[w]: who holds the row lock, or is inserting the row
    keyOwner        \* keyOwner[k]: who has inserted key k and not committed

tables == <<wallets, history, beneficiaries>>
locks  == <<owner, keyOwner>>
wvars  == <<wallets, history, beneficiaries, call, pc, pend, loc, owner, keyOwner>>

Running  == {"check", "debit", "locate", "create", "beneficiary", "log", "commit"}
Answered == {"success", "already", "rejected", "failed"}

Locals == [sender : Int, prev : Int, credit : Int, save : BOOLEAN]

HistoryRow ==
    [req : Requests, side : {"from", "to"}, wallet : WalletId, delta : Int,
     prev : Int, cur : Int, key : Keys \cup {NoKey}]

NoWrites == [w \in WalletId |-> Unwritten]
NoLocals == [sender |-> 0, prev |-> 0, credit |-> 0, save |-> FALSE]

\* The key column of the committed transactions; it is UNIQUE.
CommittedKeys == {row.key : row \in history} \ {NoKey}

\* The row request r sees: its own write, else the committed row.
View(r, w) == IF pend[r][w] # Unwritten THEN pend[r][w] ELSE wallets[w]

\* Mutant of Free: the row is read without FOR UPDATE.
Free_Unlocked(r, w) == TRUE

Free(r, w) == owner[w] \in {r, Nobody}


\* Mutant of Take: the lock is released right after the statement.
Take_NotHeld(r, w) == owner' = owner

Goto(r, label) == pc' = [pc EXCEPT ![r] = label]
Take(r, w)     == owner' = [owner EXCEPT ![w] = r]
Write(r, w, row) == pend' = [pend EXCEPT ![r][w] = row]

\* The end of a transaction, either way: its locks and buffered writes go.
Release(r, outcome) ==
    /\ Goto(r, outcome)
    /\ pend' = [pend EXCEPT ![r] = NoWrites]
    /\ loc' = [loc EXCEPT ![r] = NoLocals]
    /\ owner' = [w \in WalletId |-> IF owner[w] = r THEN Nobody ELSE owner[w]]
    /\ keyOwner' = [k \in Keys |-> IF keyOwner[k] = r THEN Nobody ELSE keyOwner[k]]

\* An exception leaves the transaction callback: everything is rolled back.
Rollback(r, outcome) == Release(r, outcome) /\ UNCHANGED <<tables, call>>

Init ==
    /\ wallets \in Opening
    /\ history = {}
    /\ beneficiaries = {}
    /\ call = [r \in Requests |-> NoCall]
    /\ pc = [r \in Requests |-> "idle"]
    /\ pend = [r \in Requests |-> NoWrites]
    /\ loc = [r \in Requests |-> NoLocals]
    /\ owner = [w \in WalletId |-> Nobody]
    /\ keyOwner = [k \in Keys |-> Nobody]
-----------------------------------------------------------------------------
\* Mutant of Begin: the arguments do not reach the service.
Begin_NoArguments(r, c) ==
    /\ pc[r] = "idle"
    /\ Goto(r, "check")
    /\ UNCHANGED <<tables, call, pend, loc, locks>>

\* The request arrives.  A transfer that names USDC is refused outright.
Begin(r, c) ==
    /\ pc[r] = "idle"
    /\ call' = [call EXCEPT ![r] = c]
    /\ Goto(r, IF c.kind = "transfer" /\ {c.src[2], c.dst[2]} \cap Unsupported # {}
               THEN "rejected" ELSE "check")
    /\ UNCHANGED <<tables, pend, loc, locks>>

\* Start of the transaction: pin (transfers only), then the key is looked up
\* among the committed rows, without a lock.
CheckPin(r) ==
    /\ pc[r] = "check"
    /\ call[r].kind = "transfer"
    /\ Rollback(r, "rejected")

\* Mutant of CheckIdempotency: a key that is not recorded is looked up again.
CheckIdempotency_Polls(r) ==
    /\ pc[r] = "check"
    /\ Goto(r, IF call[r].key \in CommittedKeys THEN "already" ELSE "check")
    /\ UNCHANGED <<tables, call, pend, loc, locks>>

CheckIdempotency(r) ==
    /\ pc[r] = "check"
    /\ IF call[r].key \in CommittedKeys
       THEN Goto(r, "already")
       ELSE Goto(r, IF call[r].kind = "deposit" THEN "locate" ELSE "debit")
    /\ UNCHANGED <<tables, call, pend, loc, locks>>

\* SELECT ... FOR UPDATE of the wallet to debit, restricted to the statuses
\* that may be debited.  A row that does not qualify is not waited for.
DebitWallet(r) ==
    LET c == call[r]
        w == c.src
    IN  /\ pc[r] = "debit"
        /\ Debitable(wallets[w])
        /\ Free(r, w)
        /\ Covers(wallets[w], c.amount) /\ Admits(wallets[w], -c.amount)
        /\ c.kind = "transfer" => c.dst[1] \in Registered
        /\ Take(r, w)
        /\ Write(r, w, Debited(wallets[w], c.amount))
        /\ loc' = [loc EXCEPT ![r].sender = wallets[w].bal - c.amount]
        /\ Goto(r, IF c.kind = "transfer" THEN "locate" ELSE "log")
        /\ UNCHANGED <<tables, call, keyOwner>>

RefuseDebit(r) ==
    LET c == call[r]
        row == wallets[c.src]
    IN  /\ pc[r] = "debit"
        /\ \/ ~Debitable(row)
           \/ /\ Free(r, c.src)
              /\ \/ ~Covers(row, c.amount) \/ ~Admits(row, -c.amount)
                 \/ c.kind = "transfer" /\ c.dst[1] \notin Registered
        /\ Rollback(r, "rejected")

\* SELECT ... FOR UPDATE of the wallet to credit, of whatever status, then
\* its update, which is refused if it leaves the balance below zero.  A wallet
\* that does not exist locks nothing.  The amount is converted with whichever
\* rate table is cached.
Credit(r, row, m) ==
    /\ Write(r, call[r].dst, Credited(row, m))
    /\ loc' = [loc EXCEPT ![r] = [@ EXCEPT !.prev = row.bal, !.credit = m]]
    /\ Goto(r, IF call[r].kind = "transfer" /\ call[r].save THEN "beneficiary" ELSE "log")

CreditWallet(r) ==
    LET c == call[r]
    IN  /\ pc[r] = "locate"
        /\ wallets[c.dst].status # "Absent"
        /\ Free(r, c.dst)
        /\ Take(r, c.dst)
        /\ \E m \in Credits(c.src[2], c.dst[2], c.amount) :
              /\ Admits(View(r, c.dst), m)
              /\ Credit(r, View(r, c.dst), m)
        /\ UNCHANGED <<tables, call, keyOwner>>

RefuseCredit(r) ==
    LET c == call[r]
    IN  /\ pc[r] = "locate"
        /\ wallets[c.dst].status # "Absent"
        /\ Free(r, c.dst)
        /\ \E m \in Credits(c.src[2], c.dst[2], c.amount) : ~Admits(View(r, c.dst), m)
        /\ Rollback(r, "rejected")

MissWallet(r) ==
    /\ pc[r] = "locate"
    /\ wallets[call[r].dst].status = "Absent"
    /\ Goto(r, "create")
    /\ UNCHANGED <<tables, call, pend, loc, locks>>

\* INSERT of the missing wallet, with the amount as its balance, whatever its
\* sign.  (user, currency) is UNIQUE: the insertion
\* waits for another transaction inserting the same row and fails if that
\* one has committed.
CreateWallet(r) ==
    LET c == call[r]
    IN  /\ pc[r] = "create"
        /\ Free(r, c.dst)
        /\ wallets[c.dst].status = "Absent"
        /\ Take(r, c.dst)
        /\ \E m \in Credits(c.src[2], c.dst[2], c.amount) : Credit(r, wallets[c.dst], m)
        /\ UNCHANGED <<tables, call, keyOwner>>

DuplicateWallet(r) ==
    /\ pc[r] = "create"
    /\ wallets[call[r].dst].status # "Absent"
    /\ Rollback(r, "failed")

\* saveBeneficiary looks for a row of the recipient, whoever owns it, and
\* saves the sender's only if there is none.
Beneficiary(r) ==
    LET recipient == call[r].dst[1]
    IN  /\ pc[r] = "beneficiary"
        /\ loc' = [loc EXCEPT ![r].save = \A b \in beneficiaries : b[2] # recipient]
        /\ Goto(r, "log")
        /\ UNCHANGED <<tables, call, pend, locks>>

\* Mutant of KeyFree: the column is not UNIQUE.
KeyFree_NotUnique(r, key) == TRUE

KeyFree(r, key) == keyOwner[key] \in {r, Nobody} /\ key \notin CommittedKeys

\* INSERT of the history row that carries the key.  The column is UNIQUE:
\* the insertion waits for a transaction inserting the same key and fails if
\* that one has committed.
LogHistory(r) ==
    LET key == call[r].key
    IN  /\ pc[r] = "log"
        /\ key # NoKey => KeyFree(r, key)
        /\ keyOwner' = IF key = NoKey THEN keyOwner ELSE [keyOwner EXCEPT ![key] = r]
        /\ Goto(r, "commit")
        /\ UNCHANGED <<tables, call, pend, loc, owner>>

DuplicateKey(r) ==
    /\ pc[r] = "log"
    /\ call[r].key \in CommittedKeys
    /\ Rollback(r, "failed")

\* The history rows of request r.  A transfer's two rows share a reference;
\* only the sender's has the key.  Its previous balance is read from the
\* wallet object after the debit has been applied to it.
FromRow(r) ==
    LET c == call[r]
    IN  [req |-> r, side |-> "from", wallet |-> c.src, delta |-> -c.amount,
         prev |-> IF c.kind = "transfer" THEN loc[r].sender ELSE loc[r].sender + c.amount,
         cur |-> loc[r].sender, key |-> c.key]

\* Mutant of ToRow: the recipient's row adds the amount before conversion.
ToRow_Unconverted(r) ==
    LET c == call[r]
    IN  [req |-> r, side |-> "to", wallet |-> c.dst, delta |-> c.amount,
         prev |-> loc[r].prev, cur |-> loc[r].prev + c.amount,
         key |-> IF c.kind = "transfer" THEN NoKey ELSE c.key]

ToRow(r) ==
    LET c == call[r]
    IN  [req |-> r, side |-> "to", wallet |-> c.dst, delta |-> loc[r].credit,
         prev |-> loc[r].prev, cur |-> loc[r].prev + loc[r].credit,
         key |-> IF c.kind = "transfer" THEN NoKey ELSE c.key]

RowsOf(r) ==
    CASE call[r].kind = "transfer" -> {FromRow(r), ToRow(r)}
      [] call[r].kind = "deposit"  -> {ToRow(r)}
      [] OTHER                     -> {FromRow(r)}

Commit(r) ==
    /\ pc[r] = "commit"
    /\ wallets' = [w \in WalletId |-> View(r, w)]
    /\ history' = history \cup RowsOf(r)
    /\ beneficiaries' = beneficiaries \cup
          (IF loc[r].save THEN {<<call[r].src[1], call[r].dst[1]>>} ELSE {})
    /\ Release(r, "success")
    /\ UNCHANGED call
-----------------------------------------------------------------------------
\* What r is waiting for: the request that holds the row, or the unique
\* entry, its next statement needs.
WaitsFor(r) ==
    LET holder ==
            CASE pc[r] = "debit"  -> IF Debitable(wallets[call[r].src])
                                     THEN owner[call[r].src] ELSE Nobody
              [] pc[r] = "locate" -> IF wallets[call[r].dst].status # "Absent"
                                     THEN owner[call[r].dst] ELSE Nobody
              [] pc[r] = "create" -> owner[call[r].dst]
              [] pc[r] = "log"    -> IF call[r].key = NoKey
                                     THEN Nobody ELSE keyOwner[call[r].key]
              [] OTHER            -> Nobody
    IN  {holder} \ {r, Nobody}

\* PostgreSQL cancels one transaction of a cycle of waits.
InWaitCycle(r) ==
    \E S \in SUBSET Requests :
        /\ r \in S
        /\ \A s \in S : WaitsFor(s) # {}
        /\ UNION {WaitsFor(s) : s \in S} = S

DeadlockVictim(r) == InWaitCycle(r) /\ Rollback(r, "failed")

\* Anything that ends the transaction early: the rates cannot be fetched, the
\* connection is lost, the process dies.
Fail(r) == pc[r] \in Running /\ Rollback(r, "failed")

\* Wallets are blocked and unblocked outside this program, one UPDATE each.
SetStatus(w, s) ==
    /\ wallets[w].status # "Absent"
    /\ owner[w] = Nobody
    /\ wallets' = [wallets EXCEPT ![w].status = s]
    /\ UNCHANGED <<history, beneficiaries, call, pc, pend, loc, locks>>

Step(r) ==
    \/ CheckIdempotency(r) \/ CheckPin(r)
    \/ DebitWallet(r) \/ RefuseDebit(r)
    \/ CreditWallet(r) \/ RefuseCredit(r) \/ MissWallet(r)
    \/ CreateWallet(r) \/ DuplicateWallet(r)
    \/ Beneficiary(r)
    \/ LogHistory(r) \/ DuplicateKey(r)
    \/ Commit(r)

Next ==
    \/ \E r \in Requests, c \in Calls : Begin(r, c)
    \/ \E r \in Requests : Step(r) \/ DeadlockVictim(r) \/ Fail(r)
    \/ \E w \in WalletId, s \in StatusChanges : SetStatus(w, s)

Spec == Init /\ [][Next]_wvars

\* The database answers every statement that need not wait, and breaks every
\* deadlock.  Nothing obliges a request to arrive or a transaction to fail.
Fairness == \A r \in Requests : WF_wvars(Step(r)) /\ WF_wvars(DeadlockVictim(r))
FairSpec == Spec /\ Fairness
-----------------------------------------------------------------------------
TypeOK ==
    /\ wallets \in [WalletId -> Wallet]
    /\ history \subseteq HistoryRow
    /\ beneficiaries \subseteq Users \X Users
    /\ call \in [Requests -> Calls \cup {NoCall}]
    /\ pc \in [Requests -> {"idle"} \cup Running \cup Answered]
    /\ \A r \in Requests : pc[r] # "idle" => call[r] # NoCall
    /\ pend \in [Requests -> [WalletId -> Wallet \cup {Unwritten}]]
    /\ loc \in [Requests -> Locals]
    /\ owner \in [WalletId -> Requests \cup {Nobody}]
    /\ keyOwner \in [Keys -> Requests \cup {Nobody}]

\* The history row of a transfer of a negative amount, on the recipient's side:
\* it moves money the other way.
Reversed(row) ==
    /\ row.side = "to"
    /\ call[row.req].kind = "transfer"
    /\ call[row.req].amount < 0

\* No debit and no credit of a wallet leaves it below zero, however requests
\* interleave.  The one way to a negative balance is to be created with it: it
\* is what the transfer of a negative amount inserted for a recipient who had
\* no wallet, and no other call has touched the wallet since.
NeverOverdrawn ==
    \A w \in WalletId :
        wallets[w].bal < 0 =>
            \E row \in history :
                /\ Reversed(row)
                /\ row.prev = 0 /\ row.cur = wallets[w].bal
                /\ {other \in history : other.wallet = w} = {row}

\* What the committed history says wallet w has gained since the start.
Gained(w) == MapThenSumSet(LAMBDA row : row.delta, {row \in history : row.wallet = w})

\* No update of a balance is lost and none is left half done: the history
\* explains every change of every balance since the tables were opened.
HistoryExplainsBalances ==
    \E rows \in Opening : \A w \in WalletId : wallets[w].bal = rows[w].bal + Gained(w)

Succeeded(r) == pc[r] = "success"
SameKey(r, s) == call[r].key = call[s].key /\ call[r].key # NoKey

\* A key takes effect at most once, and a caller is told "already processed"
\* only of a key that another request has made take effect.
OncePerKey ==
    \A r \in Requests :
        /\ Succeeded(r) =>
              \A s \in Requests \ {r} : Succeeded(s) => ~SameKey(r, s)
        /\ pc[r] = "already" =>
              \E s \in Requests : Succeeded(s) /\ SameKey(r, s)

\* A wallet under investigation is not debited, even by a transfer that had
\* begun when it was blocked.  What still lowers it is a transfer of a negative
\* amount to it: the recipient's wallet is looked up whatever its status.
NoDebitWhileBlocked ==
    [][\A w \in WalletId :
          wallets'[w].bal < wallets[w].bal =>
              \/ wallets[w].status \notin {"Blocked", "Suspended"}
              \/ \E row \in history' \ history : row.wallet = w /\ Reversed(row)]_wvars

\* Each new history row's current balance is the balance its commit leaves
\* in the wallet; of the two rows of a transfer from a wallet to itself only
\* the recipient's can.
RowsTellTheBalance ==
    [][\A row \in history' \ history :
          row.cur # wallets'[row.wallet].bal =>
              /\ row.side = "from"
              /\ call[row.req].kind = "transfer"
              /\ call[row.req].src = call[row.req].dst]_wvars

\* Where a transaction holds the wallet it debits, and the one it credits.
HoldsSrc(r) ==
    /\ pc[r] \in {"locate", "create", "beneficiary", "log", "commit"}
    /\ call[r].kind # "deposit"
HoldsDst(r) ==
    /\ pc[r] \in {"beneficiary", "log", "commit"}
    /\ call[r].kind # "withdraw"

\* The row a credit starts from: a transfer to the same wallet credits the
\* row it has debited.
BeforeCredit(r) ==
    IF HoldsSrc(r) /\ call[r].src = call[r].dst
    THEN Debited(wallets[call[r].dst], call[r].amount)
    ELSE wallets[call[r].dst]

\* What r must have written, computed from the tables as they are now.
Due(r, w) ==
    IF HoldsDst(r) /\ w = call[r].dst THEN Credited(BeforeCredit(r), loc[r].credit)
    ELSE IF HoldsSrc(r) /\ w = call[r].src THEN Debited(wallets[w], call[r].amount)
    ELSE Unwritten

\* Isolation.  What a transaction has buffered is never stale: a row it has
\* written is locked by it, and equals what it would write if it read the
\* committed row again now; so do the balances it keeps in variables.
Isolated(r) ==
    /\ \A w \in WalletId : pend[r][w] = Due(r, w)
    /\ HoldsSrc(r) =>
          /\ owner[call[r].src] = r
          /\ Debitable(wallets[call[r].src])
          /\ Covers(wallets[call[r].src], call[r].amount)
          /\ loc[r].sender = wallets[call[r].src].bal - call[r].amount
    /\ HoldsDst(r) =>
          /\ owner[call[r].dst] = r
          /\ loc[r].prev = BeforeCredit(r).bal
          /\ loc[r].credit \in
                Credits(call[r].src[2], call[r].dst[2], call[r].amount)
          /\ wallets[call[r].dst].status # "Absent" =>
                Admits(BeforeCredit(r), loc[r].credit)
    /\ pc[r] = "debit" => call[r].kind # "deposit"
    /\ pc[r] \in {"locate", "create"} => call[r].kind # "withdraw"
    /\ pc[r] = "commit" /\ call[r].key # NoKey =>
          keyOwner[call[r].key] = r /\ call[r].key \notin CommittedKeys

TransactionsIsolated == \A r \in Requests : Isolated(r)

\* The service implements its promise: the committed tables change as if
\* every accepted call took effect at one instant.
Atomic == INSTANCE AtomicWallets WITH accounts <- wallets, used <- CommittedKeys
ImplementsAtomicWallets == Atomic!Spec

\* Every request is answered: row locks taken in any order and retries with
\* the same key never leave a set of requests waiting for one another.
EveryRequestAnswered ==
    \A r \in Requests : pc[r] \in Running ~> pc[r] \in Answered
=============================================================================
