----------------------------- MODULE MCTrades ------------------------------
(***************************************************************************)
(* Instances of Trades for TLC.                                            *)
(***************************************************************************)
EXTENDS Trades, TLC

Symmetric == Permutations(Requests)

OneToThree == {100, 200, 300}
TwoPrices  == {200, 300}

BuyAt(asset, order, n) ==
    [asset |-> asset, action |-> "buy", order |-> order, entry |-> n, stop |-> 100, profit |-> 300]
Buy(asset, order) == BuyAt(asset, order, 200)
Sell(asset, order) ==
    [asset |-> asset, action |-> "sell", order |-> order, entry |-> 200, stop |-> 300, profit |-> 100]

Call(op, user, row) ==
    [op |-> op, user |-> user, row |-> row, draft |-> "no", custom |-> FALSE, later |-> FALSE,
     terms |-> NoTerms]
Post(user, row, terms, draft) ==
    [Call("create", user, row) EXCEPT !.terms = terms, !.draft = draft]

Base(t, user, status, terms) ==
    [trade |-> t, user |-> user, creator |-> "pro", status |-> status,
     draft |-> (status = "draft"), margin |-> TRUE, terms |-> terms, copiers |-> 0,
     exit |-> NoExit, fresh |-> FALSE]
Table(f) == {[x \in Rows |-> IF x \in DOMAIN f THEN f[x] ELSE NoRow]}

\* A trade of the professional with one copy.
Copied(status) ==
    [x \in {"s1", "s2"} |->
        [Base("s1", IF x = "s1" THEN "pro" ELSE "ann", status, Buy("btc", "limit"))
            EXCEPT !.copiers = 1]]
OpenAndCopied == Table(Copied("open"))

\* Copies through either row, by two users or twice by the same one, while
\* an owner cancels.
CopyCalls ==
    {Call("copy", "bob", "s1"), Call("copy", "bob", "s2"), Call("copy", "cid", "s1"),
     Call("cancel", "ann", "s2")}

\* A draft and nothing else.
OneDraft == Table([x \in {"s1"} |-> Base("s1", "pro", "draft", Buy("btc", "limit"))])

\* One trade, open or a draft, that its author edits, publishes, cancels or
\* removes while it is copied.
OneOpen == Table([x \in {"s1"} |-> Base("s1", "pro", "open", Buy("btc", "limit"))])
OneTrade == OneOpen \cup OneDraft
EditCalls ==
    {[Call("edit", "pro", "s1") EXCEPT !.terms = Sell("btc", "market")],
     [Call("edit", "pro", "s1") EXCEPT !.custom = TRUE, !.later = TRUE],
     [Call("edit", "pro", "s1") EXCEPT !.draft = "omitted"],
     [Call("edit", "pro", "s1") EXCEPT !.draft = "yes"],
     Call("remove", "pro", "s1"), Call("cancel", "pro", "s1"),
     Call("copy", "ann", "s1"), Call("copy", "pro", "s1")}

RequestCalls == CopyCalls \cup EditCalls
TradeTables == OpenAndCopied \cup OneTrade

\* A pending order with a copy; it is copied on and cancelled, and another
\* trade is posted, without an entry price.
PendingAndCopied == Table(Copied("pending"))
PostCalls ==
    {Post("bob", "s1", BuyAt("btc", "market", NoEntry), "no"),
     Call("copy", "cid", "s2"), Call("cancel", "ann", "s2")}

\* Two copies that lock each other's rows, a cancel and a post.
LiveCalls ==
    {Post("pro", "s1", Sell("btc", "market"), "no"),
     Call("copy", "bob", "s1"), Call("copy", "cid", "s2"), Call("cancel", "ann", "s2")}

\* A closed copy and a copy of its trade; a trade posted after a start.
ReopenCalls == {Call("cancel", "ann", "s2"), Call("copy", "bob", "s1")}
PostSell == {Post("pro", "s1", Sell("btc", "market"), "no")}

OneEther == Table([x \in {"s1"} |-> Base("s1", "pro", "open", Buy("eth", "market"))])
=============================================================================
