---------------------------- MODULE WalletRows ----------------------------
(***************************************************************************)
(* The rows of table wallets and the pure part of what is done to them.    *)
(***************************************************************************)
EXTENDS Conversion

CONSTANTS
    Users,          \* account holders
    Amounts,        \* what a caller may move in one call, of either sign
    Keys,           \* idempotency keys
    NoKey           \* a call made without one

\* (user, currency) is UNIQUE, so it names the row.
WalletId == Users \X Currencies
Status   == {"Absent", "Active", "Warning", "Blocked", "Suspended"}
Wallet   == [status : Status, bal : Int]

\* Mutant of Debitable: the status filter of the query is left out.
Debitable_AnyStatus(row) == row.status # "Absent"

\* The statuses a wallet may be debited in.
Debitable(row) == row.status \in {"Active", "Warning"}

Covers(row, n) == row.bal >= n

\* Mutant of Admits: the balance an update leaves is not looked at.
Admits_Any(row, n) == TRUE

\* applyWalletDelta, for debits and credits alike, refuses to leave a balance
\* below zero.
Admits(row, n) == row.bal + n >= 0

\* A credit creates the wallet it does not find, Active.
Credited(row, n) ==
    [status |-> IF row.status = "Absent" THEN "Active" ELSE row.status,
     bal    |-> row.bal + n]

Debited(row, n) == [row EXCEPT !.bal = @ - n]
=============================================================================
