----------------------------- MODULE MCWallets -----------------------------
(***************************************************************************)
(* Instances of Wallets for TLC.                                           *)
(***************************************************************************)
EXTENDS Wallets, TLC

\* Requests differ by their calls only.
Symmetric == Permutations(Requests)

Ngn(u) == <<u, "NGN">>
Stp(u) == <<u, "STP">>
Usdc(u) == <<u, "USDC">>

TransferCall(from, to, n, key, save) ==
    [kind |-> "transfer", src |-> from, dst |-> to, amount |-> n, key |-> key, save |-> save]
DepositCall(to, n, key) ==
    [kind |-> "deposit", src |-> to, dst |-> to, amount |-> n, key |-> key, save |-> FALSE]
WithdrawCall(from, n, key) ==
    [kind |-> "withdraw", src |-> from, dst |-> from, amount |-> n, key |-> key, save |-> FALSE]

Pair == {"alice", "bob"}
Trio == {"alice", "bob", "carol"}
SignedAmounts == {-2, -1, 1, 2, 3}

OnlyNaira == {"NGN"}
NairaAndStp == {"NGN", "STP"}
AllSymbols == {"NGN", "STP", "USDC"}

OneTable(cs) == {[c \in cs |-> 1]}
NairaTable == OneTable(OnlyNaira)
\* The naira is quoted at two and later at three units of the token.
TwoTablesUsdc == {[NGN |-> 2, STP |-> 1, USDC |-> 9], [NGN |-> 3, STP |-> 1, USDC |-> 9]}

Row(s, n) == [status |-> s, bal |-> n]

\* Alice and bob hold three naira.
Funded ==
    {[w \in Users \X Currencies |->
        IF w[1] \in Pair THEN Row("Active", 3) ELSE Row("Absent", 0)]}

\* Only alice has a wallet, in naira.
FirstCredit ==
    {[w \in Users \X Currencies |->
        IF w = Ngn("alice") THEN Row("Active", 4) ELSE Row("Absent", 0)]}

\* Opposite transfers, one of them because its amount is negative, retries and
\* two debits of one wallet, and a transfer to a username nobody has.
CrossCalls ==
    {TransferCall(Ngn("alice"), Ngn("bob"), 2, "k1", FALSE),
     TransferCall(Ngn("alice"), Ngn("bob"), -2, "k2", FALSE),
     TransferCall(Ngn("bob"), Ngn("alice"), 1, "k3", TRUE),
     TransferCall(Ngn("alice"), Ngn("carol"), 1, "k1", FALSE),
     WithdrawCall(Ngn("bob"), 2, "none"),
     DepositCall(Ngn("alice"), 1, "k2")}

\* Credits of wallets that do not exist yet, in two currencies, one of them
\* with a negative amount.
FirstCreditCalls ==
    {TransferCall(Ngn("alice"), Ngn("bob"), 2, "k1", TRUE),
     TransferCall(Ngn("alice"), Stp("bob"), 1, "k2", TRUE),
     TransferCall(Ngn("alice"), Usdc("bob"), 1, "k2", FALSE),
     TransferCall(Ngn("alice"), Stp("bob"), -1, "k1", FALSE),
     DepositCall(Stp("bob"), 3, "k3"),
     DepositCall(Stp("bob"), 2, "none"),
     WithdrawCall(Stp("bob"), 2, "none"),
     TransferCall(Stp("bob"), Stp("bob"), 1, "k3", FALSE)}
=============================================================================
