----------------------------- MODULE TradeRows -----------------------------
(***************************************************************************)
(* Rows of table trades, and what TradesService computes from one row and  *)
(* one price: whether an order fills, whether its take profit or stop loss *)
(* is hit, and whether its results can be calculated.                      *)
(***************************************************************************)
EXTENDS Integers

CONSTANTS
    Users,
    Assets,
    Prices,         \* positive prices the market may quote, scaled to integers
    Rows,           \* primary keys; a trade is identified by its first row
    NoRow           \* "no row has this key"

Status == {"open", "close", "pending", "scheduled", "draft"}

\* PriceCache holds no price for an asset that has not ticked since the
\* start; currentPrice then answers 0.
NoPrice == 0
Quotes  == Prices \cup {NoPrice}
NoExit  == -1

Terms ==
    [asset : Assets, action : {"buy", "sell"}, order : {"market", "limit"},
     entry : Quotes, stop : Prices, profit : Prices]

\* "margin" tells whether the margin is positive, "fresh" whether createdAt
\* lies in the current week.
Row ==
    [trade : Rows, user : Users, creator : Users, status : Status,
     draft : BOOLEAN, margin : BOOLEAN, terms : Terms, copiers : Nat,
     exit : Quotes \cup {NoExit}, fresh : BOOLEAN]

Fields == {"trade", "user", "creator", "status", "draft", "margin", "terms",
           "copiers", "exit", "fresh"}

Live(row) == row # NoRow /\ row.status # "close"

\* PriceCache.set keeps a price that differs by 0.2 percent or more.
Significant(old, new) ==
    \/ old = NoPrice
    \/ 1000 * (new - old) >= 2 * old
    \/ 1000 * (old - new) >= 2 * old

\* executeTrade: a market order fills at once, a limit order at its entry
\* price or better.
Fills(terms, price) ==
    terms.order = "limit" =>
        IF terms.action = "buy" THEN price <= terms.entry ELSE price >= terms.entry

Opened(terms, price) == IF Fills(terms, price) THEN "open" ELSE "pending"

Hit(terms, price) ==
    IF terms.action = "buy"
    THEN price >= terms.profit \/ price <= terms.stop
    ELSE price <= terms.profit \/ price >= terms.stop

\* calculateTradeResults divides a gain by the margin, and throws on zero.
Gain(terms, price) ==
    IF terms.action = "buy" THEN price > terms.entry ELSE terms.entry > price

HasResult(row, price) == Gain(row.terms, price) => row.margin
=============================================================================
