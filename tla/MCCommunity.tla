---------------------------- MODULE MCCommunity ----------------------------
(***************************************************************************)
(* Instances of Community for TLC.                                         *)
(***************************************************************************)
EXTENDS Community, TLC

CONSTANTS r1, r2, r3, p1, p2, p3

Blank ==
    [op |-> "list", user |-> "ann", target |-> "pro", row |-> p1, pnl |-> 0, status |-> "open",
     only |-> "all"]
List(only)        == [Blank EXCEPT !.only = only]
Follow(p, target) == [Blank EXCEPT !.op = "follow", !.user = p, !.target = target]
On(op, x)         == [Blank EXCEPT !.op = op, !.row = x]
CancelAt(x, pnl)  == [On("cancel", x) EXCEPT !.pnl = pnl]
Expire(x, status, pnl) == [On("expiring", x) EXCEPT !.status = status, !.pnl = pnl]
Give(call, status)     == [call EXCEPT !.status = status]

Trade(x, status, pnl, t) ==
    [trade |-> x, status |-> status, pnl |-> pnl, updatedAt |-> t,
     outcome |-> IF status # "close" THEN "none" ELSE Outcome(pnl)]
Open(x, t)        == x :> Trade(x, "open", 0, t)
Follower(p)       == [follower |-> p, known |-> 0]

Trade3(pnl, s, t) ==
    p1 :> Trade(p1, "close", pnl[1], t[1]) @@ p2 :> Trade(p2, "close", pnl[2], t[2])
    @@ p3 :> Trade(p3, s, 0, t[3])

Scene(rows, known, calls, faults) ==
    [trades |-> rows, follows |-> known, calls |-> calls, faults |-> faults]

\* Two requests of one who is to follow or does already, and a post or a draft
\* that is published, told by mails some of which fail, with a restart.
Noticing ==
    {Scene(p1 :> Trade(p1, "draft", 0, 1), known, r1 :> Follow("ann", to) @@ r2 :> Follow(p, "pro") @@ r3 :> call, faults) :
        known \in {<<>>, <<Follower("bob")>>}, to \in {"pro", "user"}, p \in {"ann", "bob"},
        call \in {On("post", r3), Give(On("post", r3), "draft"), On("edit", p1)},
        faults \in {{"end"}, {"mail"}}}
    \cup {Scene(<<>>, <<Follower("bob"), Follower("ann")>>,
                r1 :> On("post", r1) @@ r2 :> On("remove", r1) @@ r3 :> Follow("ann", "nobody"), faults) :
            faults \in {{}, {"mail", "end"}}}

\* A list of three trades, read a page at a time while trades are written,
\* removed, posted and copied, by two that may overtake each other.
Listing ==
    {Scene(Open(p1, 1) @@ Open(p2, 2) @@ Open(p3, l[1]), <<>>, r1 :> List(l[2]) @@ r2 :> a @@ r3 :> b, {}) :
        l \in {<<2, "all">>, <<3, "all">>, <<3, "open">>},
        a \in {On("copy", p1), CancelAt(p2, 1), On("remove", p3), On("post", r2), On("edit", p2)},
        b \in {On("copy", p2), CancelAt(p1, -1), On("remove", p2), Expire(p2, "open", 1),
               Give(On("starting", p3), "pending")}}

\* Two trades closed at various times with various results and one not closed,
\* which is cancelled while it is copied, removed, cancelled by another call, or
\* written by the monitor.
Figures ==
    {Scene(Trade3(<<-2, 2>>, s, <<1, 2, 3>>), <<>>, r1 :> CancelAt(p3, d) @@ r2 :> a @@ r3 :> b, {}) :
        s \in {"draft", "open"}, d \in {-2, 2},
        a \in {CancelAt(p3, -1), On("copy", p3), Expire(p3, "open", 1)},
        b \in {On("remove", p3), Expire(p3, "close", -1)}}
    \cup
    {Scene(Trade3(<<a, b>>, s, t), <<>>, r1 :> CancelAt(p3, d) @@ r2 :> call, {"time"}) :
        a \in {-2, 3}, b \in {-1, 2}, d \in {-2, 0, 2}, s \in {"open", "pending"},
        call \in {On("copy", p3), Expire(p3, "open", -1), Expire(p3, "close", 2)},
        t \in {<<1, 2, 3>>, <<2, 3, 4>>, <<3, 2, 4>>, <<3, 3, 2>>}}

Communities == Noticing \cup Listing \cup Figures
=============================================================================
