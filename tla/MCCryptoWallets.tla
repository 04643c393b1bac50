-------------------------- MODULE MCCryptoWallets --------------------------
(***************************************************************************)
(* Instances of CryptoWallets for TLC.                                     *)
(***************************************************************************)
EXTENDS CryptoWallets, TLC

CONSTANTS r1, r2, v1, v2

Cast(users, requests, outside) ==
    [users |-> users, signsUp |-> (v1 :> "ann" @@ v2 :> "bob"), requests |-> requests,
     outside |-> outside, asks |-> {"start", "wallet"},
     faults |-> IF outside = {} THEN {"call", "answer"} ELSE {"delivery"}]

\* Sign-ups and requests for addresses on their own, and payments between
\* two users made elsewhere or by one who may have two accounts; one user who
\* verifies twice; two requests for a naira account.
SignUpsOrPayments ==
    {Cast({"ann", "bob"}, {r1}, {}), Cast({"ann", "bob"}, {}, Outside),
     [Cast({"ann"}, {}, {}) EXCEPT !.signsUp = v1 :> "ann" @@ v2 :> "ann"],
     [Cast({"ann"}, {r1, r2}, {}) EXCEPT !.asks = {"naira"}]}
=============================================================================
