------------------------------ MODULE Community ------------------------------
(***************************************************************************)
(* The followers of a professional, the mail they get when he posts a      *)
(* trade, the paged lists and the figures of his pages.  What requests,    *)
(* jobs and the monitor do to the rows of trades step by step is in        *)
(* Trades; here each call finds its row, begins to write at a time and     *)
(* writes, and what reads the rows over several steps is in detail.        *)
(***************************************************************************)
EXTENDS TraderStats

CONSTANTS
    Requests,       \* HTTP requests; the row one creates has its name
    Posted,         \* the trades there are at first
    People,
    BatchSize,      \* 10 in the code
    PageSize,       \* limit, 30 by default
    MaxClock,       \* bound on the time
    MaxRestarts,    \* bound on the times the process ends
    Casts,          \* bound: the trades, followers, requests and faults of a behaviour
    Nothing

Ids    == Requests \cup Posted
JobNos == 1..Cardinality(Requests)

\* The time a behaviour begins.
Start == 4

\* A row of trades.  All are the professional's: a copy keeps its creator.
\* One that waits for its time or its price is pending.
Row == [trade : Ids, status : {"draft", "pending", "open", "close"},
        outcome : {"none", "Win", "Loss", "Liquidated"}, pnl : Int, updatedAt : Nat]

Outcome(pnl) == IF pnl > 0 THEN "Win" ELSE IF pnl < 0 THEN "Loss" ELSE "Liquidated"

\* The outcome of a row and what it has made go together.
Consistent(row) == IF row.outcome = "none" THEN row.pnl = 0 ELSE row.outcome = Outcome(row.pnl)

\* What a request asks: "list" reads the pages of a filter one by one, "starting"
\* and "expiring" are systemUpdate's calls by a job or by the monitor, for a
\* trade, with the status and the result the prices give.
Call == [op : {"follow", "post", "edit", "cancel", "copy", "remove", "starting", "expiring", "list"},
         user : People, target : {"pro", "user", "nobody"}, row : Ids, pnl : Int,
         status : {"draft", "pending", "open", "close"}, only : {"open", "all"}]

\* The status a call may give.
StatusOf(op) ==
    CASE op = "expiring"            -> {"open", "close"}
      [] op \in {"starting", "copy"} -> {"pending", "open"}
      [] OTHER                      -> {"draft", "pending", "open"}

\* A row of follow_traders.
FollowRow == [follower : People, known : Nat]

ASSUME CommunityAssumption ==
    /\ BatchSize \in Nat \ {0} /\ PageSize \in Nat \ {0}
    /\ MaxClock \in Nat /\ MaxRestarts \in Nat
    /\ Requests \cap Posted = {} /\ Nothing \notin Row
    /\ IsFiniteSet(Requests) /\ IsFiniteSet(Posted) /\ IsFiniteSet(People)
    /\ \A c \in Casts :
          /\ DOMAIN c.calls \subseteq Requests
          /\ \A r \in DOMAIN c.calls :
                c.calls[r] \in Call /\ c.calls[r].status \in StatusOf(c.calls[r].op)
          /\ DOMAIN c.trades \subseteq Posted
          /\ \A x \in DOMAIN c.trades :
                c.trades[x] \in Row /\ c.trades[x].updatedAt <= Start /\ Consistent(c.trades[x])
          /\ c.follows \in Seq(FollowRow)
          /\ \A k, l \in DOMAIN c.follows :
                k < l /\ c.follows[k].follower = c.follows[l].follower => c.follows[l].known < k
          /\ c.faults \subseteq {"mail", "end", "time"}

VARIABLES
    cast,
    clock,
    trades,         \* table trades
    follows,        \* table follow_traders, in the order of insertion
    jobs,           \* queues of notices and of copies
    sending,        \* the notice the worker is at
    told,           \* history: mails of a notice that reached a person
    task,           \* the requests
    restarts

cvars == <<cast, clock, trades, follows, jobs, sending, told, task, restarts>>

Idle  == [pc |-> "idle", since |-> 0, found |-> Nothing, seen |-> Nothing, known |-> 0,
          page |-> 1, got |-> {}, stood |-> {}, left |-> 0]
Quiet == [todo |-> {}, batch |-> {}, total |-> 0, succeeded |-> 0, failed |-> {}, at |-> "idle"]

At(r, label)   == task[r].pc = label
Goto(r, label) == task' = [task EXCEPT ![r].pc = label]

Init ==
    /\ cast \in Casts
    /\ clock = Start
    /\ trades = [x \in Ids |-> IF x \in DOMAIN cast.trades THEN cast.trades[x] ELSE Nothing]
    /\ follows = cast.follows
    /\ jobs = <<>>
    /\ sending = Quiet
    /\ told = [j \in JobNos |-> [p \in People |-> 0]]
    /\ task = [r \in Requests |-> Idle]
    /\ restarts = 0

Calls(r, op) == r \in DOMAIN cast.calls /\ cast.calls[r].op = op

Tick ==
    /\ "time" \in cast.faults /\ clock < MaxClock
    /\ clock' = clock + 1
    /\ UNCHANGED <<cast, trades, follows, jobs, sending, told, task, restarts>>
-----------------------------------------------------------------------------
(* following *)

\* Only professionals are followed.
FindTrader(r) ==
    /\ Calls(r, "follow") /\ At(r, "idle")
    /\ Goto(r, IF cast.calls[r].target = "pro" THEN "check" ELSE "failed")
    /\ UNCHANGED <<cast, clock, trades, follows, jobs, sending, told, restarts>>

\* Mutant of Following: the columns are looked up the wrong way round.
Following_Never(p) == FALSE

Following(p) == \E k \in DOMAIN follows : follows[k].follower = p

\* ... and once; "known" is history, the rows there were when this was checked.
FindFollow(r) ==
    /\ At(r, "check")
    /\ task' = [task EXCEPT ![r].pc = IF Following(cast.calls[r].user) THEN "failed" ELSE "follow",
                            ![r].known = Len(follows)]
    /\ UNCHANGED <<cast, clock, trades, follows, jobs, sending, told, restarts>>

SaveFollow(r) ==
    /\ At(r, "follow")
    /\ follows' = Append(follows, [follower |-> cast.calls[r].user, known |-> task[r].known])
    /\ Goto(r, "done")
    /\ UNCHANGED <<cast, clock, trades, jobs, sending, told, restarts>>
-----------------------------------------------------------------------------
(* the rows of trades *)

Listed(x, table, c) == table[x] # Nothing /\ (c.only = "open" => table[x].status = "open")

\* No other row of the list has the time of row x.
Alone(x, table, c) ==
    \A y \in Ids \ {x} : Listed(y, table, c) => table[y].updatedAt # table[x].updatedAt

\* History: which rows a reader of the list may expect to see, and how many
\* have left the list, or gone back in it, since he began.
Watch(after) ==
    [r \in Requests |->
        IF ~Calls(r, "list") THEN task[r]
        ELSE [task[r] EXCEPT
                !.stood = {x \in @ : trades[x] = after[x] /\ Alone(x, after, cast.calls[r])},
                !.left = @ + Cardinality({x \in Ids :
                            /\ Listed(x, trades, cast.calls[r])
                            /\ \/ ~Listed(x, after, cast.calls[r])
                               \/ after[x].updatedAt < trades[x].updatedAt})]]

\* A statement that writes, or the transaction it is in, begins: this is the
\* time it will set, though it wait for others first.
Begins(r, held) ==
    /\ clock < MaxClock /\ clock' = clock + 1
    /\ task' = [task EXCEPT ![r] = [held EXCEPT !.pc = "write", !.since = clock + 1]]
    /\ UNCHANGED <<cast, trades, follows, jobs, sending, told, restarts>>

Write(r, after, label) ==
    /\ At(r, "write")
    /\ trades' = after
    /\ task' = [Watch(after) EXCEPT ![r].pc = label]
    /\ UNCHANGED <<cast, clock, follows, jobs, sending, told, restarts>>

Live(x)   == trades[x] # Nothing /\ trades[x].status # "close"
RowsOf(t) == {y \in Ids : trades[y] # Nothing /\ trades[y].trade = t}

\* create, copyTrade and systemUpdate begin with the transaction.
BeginWrite(r) ==
    /\ \E op \in {"post", "copy", "starting", "expiring"} : Calls(r, op)
    /\ At(r, "idle")
    /\ Begins(r, task[r])

NewRow(r, status) ==
    [trade |-> r, status |-> status, outcome |-> "none", pnl |-> 0, updatedAt |-> task[r].since]

\* A draft is told nobody.
Post(r) ==
    LET status == cast.calls[r].status
    IN  /\ Calls(r, "post")
        /\ Write(r, [trades EXCEPT ![r] = NewRow(r, status)], IF status = "draft" THEN "done" ELSE "notify")

\* update and remove look for a row that nobody has copied; then it is written
\* by its key.
FindOwn(r) ==
    LET x == cast.calls[r].row
    IN  /\ Calls(r, "edit") \/ Calls(r, "remove")
        /\ At(r, "idle")
        /\ Live(x) /\ Cardinality(RowsOf(trades[x].trade)) < 2
        /\ Begins(r, [task[r] EXCEPT !.found = trades[x]])

\* An edit may publish a draft; any other row becomes a draft.
Edit(r) ==
    LET x == cast.calls[r].row
        status == IF task[r].found.status = "draft" THEN cast.calls[r].status ELSE "draft"
    IN  /\ Calls(r, "edit")
        /\ Write(r, [trades EXCEPT ![x] =
                        IF @ = Nothing THEN Nothing
                        ELSE [@ EXCEPT !.status = status, !.updatedAt = task[r].since]],
                 IF status = "draft" THEN "done" ELSE "notify")

RemoveTrade(r) ==
    /\ Calls(r, "remove")
    /\ Write(r, [trades EXCEPT ![cast.calls[r].row] = Nothing], "done")

\* cancelTrade finds the row ...
FindLive(r) ==
    LET x == cast.calls[r].row
    IN  /\ Calls(r, "cancel") /\ At(r, "idle")
        /\ Live(x)
        /\ task' = [task EXCEPT ![r] = [@ EXCEPT !.pc = "reload", !.found = trades[x]]]
        /\ UNCHANGED <<cast, clock, trades, follows, jobs, sending, told, restarts>>

\* ... and closes it in memory, its time included.
Cancelled(r) ==
    LET pnl == cast.calls[r].pnl
    IN  [task[r].found EXCEPT !.status = "close", !.outcome = Outcome(pnl), !.pnl = pnl]

\* save() reads the row again, and has nothing to write when it is so already.
Reload(r) ==
    LET x == cast.calls[r].row
    IN  /\ Calls(r, "cancel") /\ At(r, "reload")
        /\ IF trades[x] = Cancelled(r)
           THEN /\ Goto(r, "done")
                /\ UNCHANGED <<cast, clock, trades, follows, jobs, sending, told, restarts>>
           ELSE Begins(r, [task[r] EXCEPT !.seen = trades[x]])

\* Of entity e the columns are written that differ from the row as it was seen.
Merged(e, seen, row, now) ==
    LET column(f) == IF e[f] # seen[f] THEN e[f] ELSE row[f]
    IN  [trade |-> row.trade, status |-> column("status"), outcome |-> column("outcome"),
         pnl |-> column("pnl"),
         updatedAt |-> IF e.updatedAt # seen.updatedAt THEN e.updatedAt ELSE now]

\* A row that was gone is inserted.  Label "torn" is history: what is written
\* joins what another has written since the row was seen.
Cancel(r) ==
    LET x == cast.calls[r].row
        seen == task[r].seen
    IN  /\ Calls(r, "cancel")
        /\ seen = Nothing => trades[x] = Nothing
        /\ Write(r, [trades EXCEPT ![x] =
                        IF seen = Nothing THEN Cancelled(r)
                        ELSE IF @ = Nothing THEN Nothing
                        ELSE Merged(Cancelled(r), seen, @, task[r].since)],
                 IF seen = Nothing \/ trades[x] \in {seen, Nothing} THEN "done" ELSE "torn")

\* The insertion finds the row inserted again by another cancel.
CancelDuplicate(r) ==
    /\ Calls(r, "cancel") /\ At(r, "write")
    /\ task[r].seen = Nothing /\ trades[cast.calls[r].row] # Nothing
    /\ Goto(r, "failed")
    /\ UNCHANGED <<cast, clock, trades, follows, jobs, sending, told, restarts>>

\* The row is locked and copied, a pending one opened if its price is reached;
\* every row of the trade gets its status: a closed one opens again and keeps
\* its result.
Copy(r) ==
    LET x == cast.calls[r].row
        status == IF trades[x].status = "pending" THEN cast.calls[r].status ELSE trades[x].status
    IN  /\ Calls(r, "copy")
        /\ Live(x)
        /\ Write(r, [y \in Ids |->
                IF y = r \/ y \in RowsOf(trades[x].trade)
                THEN [(IF y = r THEN trades[x] ELSE trades[y]) EXCEPT
                         !.status = status, !.updatedAt = task[r].since]
                ELSE trades[y]], "done")

CopyMiss(r) ==
    /\ Calls(r, "copy") /\ At(r, "write")
    /\ ~Live(cast.calls[r].row)
    /\ Goto(r, "failed")
    /\ UNCHANGED <<cast, clock, trades, follows, jobs, sending, told, restarts>>

\* Mutant of Updated: the outcome is left until the trade is closed.
Updated_Late(row, c, now) ==
    IF c.op = "starting" THEN [row EXCEPT !.status = c.status, !.updatedAt = now]
    ELSE [row EXCEPT !.status = c.status, !.pnl = c.pnl, !.updatedAt = now,
                     !.outcome = IF c.status = "close" THEN Outcome(c.pnl) ELSE @]

\* What systemUpdate writes: a trade that stays open gets its results too.
Updated(row, c, now) ==
    IF c.op = "starting" THEN [row EXCEPT !.status = c.status, !.updatedAt = now]
    ELSE [row EXCEPT !.status = c.status, !.pnl = c.pnl, !.updatedAt = now,
                     !.outcome = Outcome(c.pnl)]

\* The rows of a trade that are not closed are locked and written.
SystemUpdate(r) ==
    LET c == cast.calls[r]
    IN  /\ Calls(r, "starting") \/ Calls(r, "expiring")
        /\ Write(r, [y \in Ids |->
                IF y \in RowsOf(c.row) /\ Live(y) THEN Updated(trades[y], c, task[r].since)
                ELSE trades[y]], "done")
-----------------------------------------------------------------------------
(* telling the followers *)

\* After the row the request adds its job; the worker of the queue that takes
\* a published draft is never started.
QueueNotice(r) ==
    /\ At(r, "notify")
    /\ jobs' = Append(jobs, IF Calls(r, "post")
                            THEN [queue |-> "notices", row |-> r, readers |-> {}, state |-> "pending"]
                            ELSE [queue |-> "copies", row |-> cast.calls[r].row, readers |-> {},
                                  state |-> "pending"])
    /\ Goto(r, "done")
    /\ UNCHANGED <<cast, clock, trades, follows, sending, told, restarts>>

Running == {j \in DOMAIN jobs : jobs[j].state = "running"}

\* The users who follow, however many rows each has.
Readers == {follows[k].follower : k \in DOMAIN follows}

\* The worker takes one job at a time and reads the followers.
TakeNotice(j) ==
    /\ Running = {}
    /\ j \in DOMAIN jobs /\ jobs[j].queue = "notices" /\ jobs[j].state = "pending"
    /\ jobs' = [jobs EXCEPT ![j].state = IF Readers = {} THEN "done" ELSE "running", ![j].readers = Readers]
    /\ sending' = [Quiet EXCEPT !.todo = Readers, !.total = Cardinality(Readers),
                                !.at = IF Readers = {} THEN "idle" ELSE "trade"]
    /\ UNCHANGED <<cast, clock, trades, follows, told, task, restarts>>

\* A trade that is gone is not told of.
ReadTrade(j) ==
    /\ j \in Running /\ sending.at = "trade"
    /\ IF trades[jobs[j].row] = Nothing
       THEN /\ jobs' = [jobs EXCEPT ![j].state = "done", ![j].readers = {}]
            /\ sending' = Quiet
       ELSE jobs' = jobs /\ sending' = [sending EXCEPT !.at = "mails"]
    /\ UNCHANGED <<cast, clock, trades, follows, told, task, restarts>>

NextBatch(j) ==
    /\ j \in Running /\ sending.at = "mails" /\ sending.batch = {} /\ sending.todo # {}
    /\ \E batch \in SUBSET sending.todo :
          /\ Cardinality(batch) = BatchSize \/ (Cardinality(batch) < BatchSize /\ batch = sending.todo)
          /\ sending' = [sending EXCEPT !.batch = batch, !.todo = @ \ batch]
    /\ UNCHANGED <<cast, clock, trades, follows, jobs, told, task, restarts>>

\* Mutant of MailFails: a failure breaks off the job.
MailFails_Breaks(p) ==
    sending' = [sending EXCEPT !.batch = {}, !.todo = {}, !.failed = @ \cup {p}]

\* A mail that fails is counted and not tried again.
MailFails(p) == sending' = [sending EXCEPT !.batch = @ \ {p}, !.failed = @ \cup {p}]

Mail(j, p) ==
    /\ j \in Running /\ p \in sending.batch
    /\ \/ /\ sending' = [sending EXCEPT !.batch = @ \ {p}, !.succeeded = @ + 1]
          /\ told' = [told EXCEPT ![j][p] = @ + 1]
       \/ "mail" \in cast.faults /\ MailFails(p) /\ told' = told
    /\ UNCHANGED <<cast, clock, trades, follows, jobs, task, restarts>>

\* Mutant of EndNotice: it must have reached everyone.
EndNotice_All(j) ==
    /\ j \in Running /\ sending.at = "mails" /\ sending.batch = {} /\ sending.todo = {}
    /\ sending.failed = {}
    /\ jobs' = [jobs EXCEPT ![j].state = "done"]
    /\ sending' = [sending EXCEPT !.at = "idle"]
    /\ UNCHANGED <<cast, clock, trades, follows, told, task, restarts>>

\* The job is done; its summary is logged nowhere.
EndNotice(j) ==
    /\ j \in Running /\ sending.at = "mails" /\ sending.batch = {} /\ sending.todo = {}
    /\ jobs' = [jobs EXCEPT ![j].state = "done"]
    /\ sending' = [sending EXCEPT !.at = "idle"]
    /\ UNCHANGED <<cast, clock, trades, follows, told, task, restarts>>

Moving == {"check", "follow", "reload", "write", "notify", "rows", "count"}

\* The queue gives a job out again that was running for too long.
AfterEnd(job) == IF job.state = "running" THEN [job EXCEPT !.state = "pending"] ELSE job

\* The process ends: requests are cut off.
Restart ==
    /\ "end" \in cast.faults /\ restarts < MaxRestarts
    /\ restarts' = restarts + 1
    /\ jobs' = [j \in DOMAIN jobs |-> AfterEnd(jobs[j])]
    /\ sending' = Quiet
    /\ task' = [r \in Requests |-> IF task[r].pc \in Moving THEN [task[r] EXCEPT !.pc = "failed"] ELSE task[r]]
    /\ UNCHANGED <<cast, clock, trades, follows, told>>
-----------------------------------------------------------------------------
(* reading a list page by page *)

ListedBy(r) == {x \in Ids : Listed(x, trades, cast.calls[r])}

\* History: a row is expected that nothing shares its time with.
BeginList(r) ==
    /\ Calls(r, "list") /\ At(r, "idle")
    /\ task' = [task EXCEPT ![r] =
          [@ EXCEPT !.pc = "rows", !.left = 0,
                    !.stood = {x \in ListedBy(r) : Alone(x, trades, cast.calls[r])}]]
    /\ UNCHANGED <<cast, clock, trades, follows, jobs, sending, told, restarts>>

\* Mutant of Before: the oldest first.
Before_Oldest(x, y) == trades[x].updatedAt <= trades[y].updatedAt

\* The default sort; rows of one time come in any order.
Before(x, y) == trades[x].updatedAt >= trades[y].updatedAt

Orders(S) ==
    {o \in [1..Cardinality(S) -> S] :
        \A a, b \in DOMAIN o : a < b => o[a] # o[b] /\ Before(o[a], o[b])}

\* A page and the count of all are two queries.
ReadRows(r) ==
    /\ At(r, "rows")
    /\ \E o \in Orders(ListedBy(r)) :
          LET offset == (task[r].page - 1) * PageSize
              page   == {o[k] : k \in {k \in DOMAIN o : offset < k /\ k <= offset + PageSize}}
          IN  task' = [task EXCEPT ![r].pc = "count", ![r].got = @ \cup page]
    /\ UNCHANGED <<cast, clock, trades, follows, jobs, sending, told, restarts>>

\* hasNextPage
HasNext(page, count) == page * PageSize < count

CountRows(r) ==
    /\ At(r, "count")
    /\ task' = IF HasNext(task[r].page, Cardinality(ListedBy(r)))
               THEN [task EXCEPT ![r].pc = "rows", ![r].page = @ + 1]
               ELSE [task EXCEPT ![r].pc = "done"]
    /\ UNCHANGED <<cast, clock, trades, follows, jobs, sending, told, restarts>>
-----------------------------------------------------------------------------
WriteStep(r) ==
    \/ Post(r) \/ Edit(r) \/ RemoveTrade(r) \/ Cancel(r) \/ CancelDuplicate(r)
    \/ Copy(r) \/ CopyMiss(r) \/ SystemUpdate(r)

RequestStep(r) ==
    \/ FindFollow(r) \/ SaveFollow(r) \/ Reload(r) \/ WriteStep(r)
    \/ QueueNotice(r) \/ ReadRows(r) \/ CountRows(r)

JobStep(j) ==
    TakeNotice(j) \/ ReadTrade(j) \/ NextBatch(j) \/ EndNotice(j) \/ \E p \in People : Mail(j, p)

Next ==
    \/ \E r \in Requests :
          \/ FindTrader(r) \/ BeginWrite(r) \/ FindOwn(r) \/ FindLive(r) \/ BeginList(r)
          \/ RequestStep(r)
    \/ \E j \in JobNos : JobStep(j)
    \/ Tick \/ Restart

\* The worker polls its queue, and calls begun go on; none has endless steps.
Spec ==
    /\ Init /\ [][Next]_cvars
    /\ WF_cvars(\E r \in Requests : RequestStep(r))
    /\ WF_cvars(\E j \in JobNos : JobStep(j))
-----------------------------------------------------------------------------
Job     == [queue : {"notices", "copies"}, row : Ids, readers : SUBSET People,
            state : {"pending", "running", "done"}]
Sending == [todo : SUBSET People, batch : SUBSET People, total : Nat, succeeded : Nat,
            failed : SUBSET People, at : {"idle", "trade", "mails"}]
Labels  == {"idle", "done", "torn", "failed"} \cup Moving
Task    == [pc : Labels, since : Nat, found : Row \cup {Nothing}, seen : Row \cup {Nothing},
            known : Nat, page : Nat, got : SUBSET Ids, stood : SUBSET Ids, left : Nat]

\* Who edits or cancels has found the row.
Holding(r) ==
    At(r, "reload") \/ (At(r, "write") /\ (Calls(r, "edit") \/ Calls(r, "cancel")))
        => task[r].found \in Row

TypeOK ==
    /\ cast \in Casts /\ clock \in Nat /\ restarts \in Nat
    /\ trades \in [Ids -> Row \cup {Nothing}]
    /\ follows \in Seq(FollowRow)
    /\ jobs \in Seq(Job)
    /\ sending \in Sending
    /\ told \in [JobNos -> [People -> Nat]]
    /\ task \in [Requests -> Task]
    /\ \A r \in Requests : Holding(r)

\* No constraint keeps two rows of one follower apart: there are two only when
\* the second request looked before the first had written.
SecondFollowByOverlap ==
    \A k, l \in DOMAIN follows :
        k < l /\ follows[k].follower = follows[l].follower => follows[l].known < k

\* A notice that is done has been tried with each who followed when it was
\* taken, once in a run of the job though he have several rows, and its
\* summary adds up to them.
NoticeIsExact ==
    /\ \A j \in JobNos, p \in People : told[j][p] <= 1 + restarts
    /\ \A j \in Running : sending.at = "mails" =>
          sending.total = sending.succeeded + Cardinality(sending.failed \cup sending.batch \cup sending.todo)
    /\ \A j \in DOMAIN jobs : jobs[j].state = "done" /\ "mail" \notin cast.faults =>
          \A p \in jobs[j].readers : told[j][p] >= 1

\* Who asks for one page after the other sees each row that stays as it is,
\* though others be added or written meanwhile: at most one is skipped for
\* each row that leaves the list, or goes back in it because what writes it
\* began before what wrote it last, or found it before.
ListMissesOnlyForLeavers ==
    \A r \in Requests :
        Calls(r, "list") /\ At(r, "done") =>
            Cardinality(task[r].stood \ task[r].got) <= task[r].left

\* The notice of each trade that is posted comes to be done, whatever mails fail
\* and however often the process ends, unless it ends between the trade's row
\* and the job, and the trade is never told of.
NoticesEnd ==
    \A r \in Requests :
        Calls(r, "post") /\ At(r, "notify") ~>
            \/ \E j \in DOMAIN jobs : jobs[j].queue = "notices" /\ jobs[j].row = r /\ jobs[j].state = "done"
            \/ At(r, "failed")
-----------------------------------------------------------------------------
(* the figures of the pages *)

Placed   == {x \in Ids : trades[x] # Nothing}
Table(o) == [k \in DOMAIN o |-> trades[o[k]]]

\* The rows as a query may return them: in any order, or in one where the order
\* does not matter.
AnyTable == {Table(o) : o \in SetToSeqs(Placed)}
OneTable == {Table(SetToSeq(Placed))}

Extreme(S) == CHOOSE x \in S : \A y \in S : y <= x

\* The curves leave out no trade of their window and agree with each other: a
\* curve ends at the sum, the fall at a day is the one from the highest day
\* before it, and no day lies deeper than the largest fall from trade to trade.
CurvesAgree ==
    \A rows \in OneTable, days \in {1, 2} :
        LET curve == PerformanceCurve(rows, clock, days)
            fall  == DrawdownCurve(rows, clock, days)
        IN  /\ Len(curve) = days
            /\ curve[days] = PnlOf(rows, Within(rows, CurveStart(clock, days), clock))
            /\ \A k \in DOMAIN curve :
                  /\ fall[k] = curve[k] - Extreme({0} \cup {curve[i] : i \in 1..k})
                  /\ days = 2 => -fall[k] <= MaxDrawdown(rows, clock, "daily")

\* maxDrawdown is the worst that could have happened to who joined between any
\* two trades and left after a later one, whatever the order of the rows.
FallIsLargest ==
    \A rows \in AnyTable :
        LET S == Within(rows, clock - PerDay, clock)
            upTo(t) == PnlOf(rows, {i \in S : rows[i].updatedAt <= t})
            times == {rows[i].updatedAt : i \in S}
            worst == Extreme({0} \cup {-upTo(t) : t \in times}
                             \cup {upTo(p[1]) - upTo(p[2]) : p \in {p \in times \X times : p[1] <= p[2]}})
        IN  /\ MaxDrawdown(rows, clock, "daily") >= worst
            /\ Cardinality(times) = Cardinality(S) => MaxDrawdown(rows, clock, "daily") = worst

\* The two pages count one profit, and what the profit and loss of the profile
\* leave of the dashboard's total is what trades not closed are losing: the
\* rates differ only while such a trade is ahead.  It rests on each row's outcome
\* and result being written together, which a cancel undoes that saves a row
\* after the monitor has written it.
PagesAgree ==
    (\E r \in Requests : At(r, "torn")) \/
    \A rows \in OneTable :
        LET running == DOMAIN rows \ Completed(rows)
        IN  /\ TotalProfit(rows) = ProfileProfit(rows)
            /\ TotalPnL(rows) = ProfileProfit(rows) + ProfileLoss(rows)
                                + PnlOf(rows, {i \in running : rows[i].outcome = "Loss"})
            /\ \/ WinRate(ProfileWins(rows), rows) = WinRate(DashboardWins(rows), rows)
               \/ \E i \in running : rows[i].outcome = "Win"
=============================================================================
