--------------------------- MODULE AtomicWallets ---------------------------
(***************************************************************************)
(* What the wallet service promises its callers: every accepted call takes *)
(* effect at one instant, entirely or not at all, against the balances of  *)
(* that instant, and a call carrying an idempotency key takes effect at    *)
(* most once.  Nothing here is about locks, transactions or retries; the   *)
(* module Wallets models those and implements this one.                    *)
(***************************************************************************)
EXTENDS WalletRows

VARIABLES
    accounts,       \* WalletId -> Wallet
    used            \* idempotency keys that have taken effect

vars == <<accounts, used>>

\* Holds of a key that has not taken effect yet, and marks it.
Spend(key) ==
    /\ key \notin used
    /\ used' = used \cup ({key} \ {NoKey})

MayDebit(from, n) == Debitable(accounts[from]) /\ Covers(accounts[from], n)

\* Only a wallet that a credit creates may be left below zero by it.
MayCredit(row, n) == row.status = "Absent" \/ Admits(row, n)

Deposit(to, n, key) ==
    /\ MayCredit(accounts[to], n)
    /\ Spend(key)
    /\ accounts' = [accounts EXCEPT ![to] = Credited(@, n)]

Withdraw(from, n, key) ==
    /\ MayDebit(from, n)
    /\ Spend(key)
    /\ accounts' = [accounts EXCEPT ![from] = Debited(@, n)]

Transfer(from, to, n, key) ==
    /\ MayDebit(from, n)
    /\ Spend(key)
    /\ \E m \in Credits(from[2], to[2], n) :
          LET paid == [accounts EXCEPT ![from] = Debited(@, n)]
          IN  /\ MayCredit(paid[to], m)
              /\ accounts' = [paid EXCEPT ![to] = Credited(@, m)]

\* An operator changes the status of an existing wallet.
ChangeStatus(w, s) ==
    /\ accounts[w].status # "Absent"
    /\ accounts' = [accounts EXCEPT ![w].status = s]
    /\ UNCHANGED used

Init ==
    /\ accounts \in [WalletId -> Wallet]
    /\ used = {}

Next ==
    \/ \E w \in WalletId, n \in Amounts, key \in Keys \cup {NoKey} :
          Deposit(w, n, key) \/ Withdraw(w, n, key)
    \/ \E v, w \in WalletId, n \in Amounts, key \in Keys \cup {NoKey} :
          Transfer(v, w, n, key)
    \/ \E w \in WalletId, s \in Status \ {"Absent"} : ChangeStatus(w, s)

Spec == Init /\ [][Next]_vars
=============================================================================
