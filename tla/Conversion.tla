----------------------------- MODULE Conversion -----------------------------
(***************************************************************************)
(* WalletsService.convertFromRates and getUsdValue: an amount of one       *)
(* currency expressed in another through their values in dollars.  Amounts *)
(* count the smallest unit the service keeps (the code rounds to six       *)
(* decimals) and a rate table gives each currency's value as a whole       *)
(* number of the smallest dollar fraction the tables distinguish.          *)
(***************************************************************************)
EXTENDS Integers

CONSTANTS
    Currencies,     \* walletSymbol
    RateTables      \* the tables fetchRates may return, one after the other

ASSUME RatesArePositive == RateTables \subseteq [Currencies -> Nat \ {0}]

\* Big's toFixed rounds to the nearest unit, a half away from zero.
RoundedDiv(a, b) ==
    IF a >= 0 THEN (2 * a + b) \div (2 * b) ELSE -((b - 2 * a) \div (2 * b))

convertFromRates(n, from, to, rates) == RoundedDiv(n * rates[from], rates[to])

\* internalTransfer converts only between different currencies; the table
\* it gets is any that was fetched within the last ten minutes.
Credits(from, to, n) ==
    IF from = to
    THEN {n}
    ELSE {convertFromRates(n, from, to, rates) : rates \in RateTables}
=============================================================================
