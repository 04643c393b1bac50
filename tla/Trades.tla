------------------------------ MODULE Trades -------------------------------
(***************************************************************************)
(* TradesService with the jobs of TradeJobWorker and the price feed of     *)
(* BinanceGateway: users create, copy, cancel, edit and remove trades      *)
(* while the backend opens and closes them.  One action is what the        *)
(* service does between two waits for the database.  Only copyTrade and    *)
(* systemUpdate lock rows; everything else reads, decides and writes.      *)
(***************************************************************************)
EXTENDS TradeRows, FiniteSets

CONSTANTS
    Requests,       \* HTTP requests; the row a request inserts has its name
    Seeds,          \* keys of the rows present at the start
    Calls,          \* the arguments requests may carry
    Opening,        \* the tables the service may start with
    WeeklyLimit,    \* copies a user may make in a week: 5 in the code
    Ticks,          \* the prices the feed sends
    MaxChecks,      \* bound: checkTradingConditions waiting for their query
    Faults,         \* subset of {"request", "update", "restart"}
    Nobody, NoCall, NoTerms, NoEntry

CallType ==
    [op : {"create", "copy", "cancel", "edit", "remove"}, user : Users,
     row : Rows, draft : {"yes", "no", "omitted"},
     custom : BOOLEAN, later : BOOLEAN,
     terms : {NoTerms} \cup
             [asset : Assets, action : {"buy", "sell"}, order : {"market", "limit"},
              entry : Prices \cup {NoEntry}, stop : Prices, profit : Prices]]

ASSUME TradesAssumption ==
    /\ Rows = Requests \cup Seeds /\ IsFiniteSet(Rows)
    /\ Requests \cap Seeds = {}
    /\ Prices \subseteq Nat \ {0} /\ Ticks \subseteq Prices
    /\ WeeklyLimit \in Nat /\ MaxChecks \in Nat
    /\ Calls \subseteq CallType
    /\ \A c \in Calls : c.op = "create" => c.terms # NoTerms /\ c.draft # "omitted"
    /\ \A c \in Calls : c.terms # NoTerms /\ c.op = "edit" => c.terms.entry # NoEntry
    /\ Nobody \notin Requests /\ NoCall \notin Calls /\ NoRow \notin Row
    /\ NoTerms \notin Terms /\ NoEntry \notin Quotes
    /\ \A table \in Opening :
          /\ table \in [Rows -> Row \cup {NoRow}]
          /\ \A r \in Requests : table[r] = NoRow
          /\ \A x \in Rows : table[x] # NoRow => table[x].trade \in Seeds
          /\ \A x, y \in Rows :
                /\ x # y /\ table[x] # NoRow /\ table[y] # NoRow
                /\ table[x].trade = table[y].trade
                => table[x].user # table[y].user /\ table[x].margin = table[y].margin

VARIABLES
    rows,       \* committed rows of table trades
    call, pc,   \* arguments of each request, and where it stands
    loc,        \* the entity a request holds, and the columns it will write
    owner,      \* owner[x]: the copyTrade transaction that locks row x
    jobs,       \* jobs of queue "trades" waiting for their time
    updates,    \* systemUpdate calls in flight
    prices,     \* PriceCache
    canQuery,   \* the flag that lets ticks look for open trades
    checks      \* checkTradingConditions calls waiting for their query

tvars   == <<rows, call, pc, loc, owner, jobs, updates, prices, canQuery, checks>>
backend == <<jobs, updates, prices, canQuery, checks>>

Job == [trade : Rows, type : {"starting", "expiring"}]
Update == [trade : Rows, type : {"starting", "expiring"}, status : {"open", "close"},
           job : BOOLEAN]

Running  == {"start", "lock", "check", "insert", "count", "reload", "write"}
Answered == {"done", "refused", "failed"}

NoLocals == [entity |-> NoRow, dirty |-> {}]

RowsOf(t) == {x \in Rows : rows[x] # NoRow /\ rows[x].trade = t}
LiveRows(t) == {x \in RowsOf(t) : rows[x].status # "close"}
Price(row) == prices[row.terms.asset]

Ending(t)   == [trade |-> t, type |-> "expiring"]
Starting(t) == [trade |-> t, type |-> "starting"]

Goto(r, label)    == pc' = [pc EXCEPT ![r] = label]
Hold(r, row, fs)  == loc' = [loc EXCEPT ![r] = [entity |-> row, dirty |-> fs]]

\* Mutant of Answer: the transaction is never ended on the connection.
Answer_KeepsLocks(r, outcome) ==
    /\ Goto(r, outcome)
    /\ loc' = [loc EXCEPT ![r] = NoLocals]
    /\ UNCHANGED owner

\* The request is answered; a transaction's locks go with it.
Answer(r, outcome) ==
    /\ Goto(r, outcome)
    /\ loc' = [loc EXCEPT ![r] = NoLocals]
    /\ owner' = [x \in Rows |-> IF owner[x] = r THEN Nobody ELSE owner[x]]

Refuse(r, outcome) == Answer(r, outcome) /\ UNCHANGED <<rows, call, backend>>

Init ==
    /\ rows \in Opening
    /\ call = [r \in Requests |-> NoCall]
    /\ pc = [r \in Requests |-> "idle"]
    /\ loc = [r \in Requests |-> NoLocals]
    /\ owner = [x \in Rows |-> Nobody]
    /\ jobs = {Ending(rows[x].trade) :
                  x \in {s \in Rows : Live(rows[s]) /\ rows[s].status # "draft"}}
              \cup
              {Starting(rows[x].trade) :
                  x \in {s \in Rows : Live(rows[s]) /\ rows[s].status = "scheduled"}}
    /\ updates = {}
    /\ prices = [a \in Assets |-> NoPrice]
    /\ canQuery = TRUE
    /\ checks = 0

\* Mutant of Begin: the arguments do not reach the service.
Begin_NoArguments(r, c) ==
    /\ pc[r] = "idle"
    /\ Goto(r, "start")
    /\ UNCHANGED <<rows, call, loc, owner, backend>>

Begin(r, c) ==
    /\ pc[r] = "idle"
    /\ call' = [call EXCEPT ![r] = c]
    /\ Goto(r, "start")
    /\ UNCHANGED <<rows, loc, owner, backend>>

At(r, op, label) == pc[r] = label /\ call[r].op = op
-----------------------------------------------------------------------------
(* create *)

Duplicate(c) ==
    \E x \in Rows :
        /\ rows[x] # NoRow
        /\ rows[x].creator = c.user
        /\ rows[x].terms.asset = c.terms.asset
        /\ rows[x].terms.action = c.terms.action
        /\ rows[x].status \notin {"close", "draft"}

\* The jobs of a trade published by call c.
JobsOf(t, c) == {Ending(t)} \cup (IF c.custom THEN {Starting(t)} ELSE {})

\* The status of a trade published by call c with these terms.
Published(c, terms) ==
    IF c.custom /\ c.later THEN "scheduled" ELSE Opened(terms, prices[terms.asset])

\* The duplicate is looked for; without one the jobs are scheduled and the
\* monitor is woken, all before the row is saved.
CreateFind(r) ==
    LET c == call[r]
        price == prices[c.terms.asset]
        terms == [c.terms EXCEPT !.entry = IF @ = NoEntry THEN price ELSE @]
        status == IF c.draft = "yes" THEN "draft" ELSE Published(c, terms)
    IN  /\ At(r, "create", "start")
        /\ ~Duplicate(c)
        /\ jobs' = jobs \cup (IF c.draft = "yes" THEN {} ELSE JobsOf(r, c))
        /\ canQuery' = TRUE
        /\ Hold(r, [trade |-> r, user |-> c.user, creator |-> c.user,
                    status |-> status, draft |-> (c.draft = "yes"),
                    margin |-> (terms.entry > 0), terms |-> terms, copiers |-> 0,
                    exit |-> NoExit, fresh |-> TRUE], Fields)
        /\ Goto(r, "write")
        /\ UNCHANGED <<rows, call, owner, updates, prices, checks>>

CreateRefuse(r) ==
    At(r, "create", "start") /\ Duplicate(call[r]) /\ Refuse(r, "refused")

CreateSave(r) ==
    /\ At(r, "create", "write")
    /\ rows' = [rows EXCEPT ![r] = loc[r].entity]
    /\ Answer(r, "done")
    /\ UNCHANGED <<call, backend>>
-----------------------------------------------------------------------------
(* copyTrade, one transaction *)

CopiedThisWeek(u) ==
    {x \in Rows : rows[x] # NoRow /\ rows[x].user = u /\ rows[x].fresh}

CopyCount(r) ==
    /\ At(r, "copy", "start")
    /\ IF Cardinality(CopiedThisWeek(call[r].user)) < WeeklyLimit
       THEN Goto(r, "lock") /\ UNCHANGED <<rows, call, loc, owner, backend>>
       ELSE Refuse(r, "refused")

\* Mutant of CopyLock: the row is read without FOR UPDATE.
CopyLock_Unlocked(r) ==
    LET x == call[r].row
    IN  /\ At(r, "copy", "lock")
        /\ Live(rows[x])
        /\ Hold(r, rows[x], {})
        /\ Goto(r, "check")
        /\ UNCHANGED <<rows, call, owner, backend>>

\* SELECT ... FOR UPDATE of the row to copy, unless it is closed.
CopyLock(r) ==
    LET x == call[r].row
    IN  /\ At(r, "copy", "lock")
        /\ Live(rows[x])
        /\ owner[x] = Nobody
        /\ owner' = [owner EXCEPT ![x] = r]
        /\ Hold(r, rows[x], {})
        /\ Goto(r, "check")
        /\ UNCHANGED <<rows, call, backend>>

CopyMiss(r) ==
    At(r, "copy", "lock") /\ ~Live(rows[call[r].row]) /\ Refuse(r, "refused")

\* No row of the same trade may belong to the user already.  A pending trade
\* is opened if its price is reached; one copier is added.
CopyCheck(r) ==
    LET e == loc[r].entity
    IN  /\ At(r, "copy", "check")
        /\ IF \E x \in RowsOf(e.trade) : rows[x].user = call[r].user
           THEN Refuse(r, "refused")
           ELSE /\ Hold(r, [e EXCEPT
                              !.status = IF @ = "pending" THEN Opened(e.terms, Price(e)) ELSE @,
                              !.copiers = @ + 1], {})
                /\ Goto(r, "insert")
                /\ UNCHANGED <<rows, call, owner, backend>>

\* Mutant of RowsFree: only the row copied is written.
RowsFree_OwnRow(r, t) == owner[call[r].row] \in {r, Nobody}

\* An UPDATE of all rows of trade t by r need not wait.
RowsFree(r, t) == \A x \in RowsOf(t) : owner[x] \in {r, Nobody}

\* The copy is inserted, every row of the trade gets the new count and the
\* status, and the transaction commits.
CopyCommit(r) ==
    LET e == loc[r].entity
    IN  /\ At(r, "copy", "insert")
        /\ RowsFree(r, e.trade)
        /\ rows' = [x \in Rows |->
                      IF x = r THEN [e EXCEPT !.user = call[r].user]
                      ELSE IF x \in RowsOf(e.trade)
                      THEN [rows[x] EXCEPT !.copiers = e.copiers, !.status = e.status]
                      ELSE rows[x]]
        /\ Answer(r, "done")
        /\ UNCHANGED <<call, backend>>
-----------------------------------------------------------------------------
(* cancelTrade, update and remove read first and write later, unlocked *)

Mine(r, x) ==
    /\ Live(rows[x])
    /\ call[r].user = IF call[r].op = "cancel" THEN rows[x].user ELSE rows[x].creator

FindRefuse(r) ==
    /\ pc[r] = "start"
    /\ call[r].op \in {"cancel", "edit", "remove"}
    /\ ~(Mine(r, call[r].row)
         /\ (call[r].op = "cancel" => HasResult(rows[call[r].row], Price(rows[call[r].row]))))
    /\ Refuse(r, "refused")

\* The row after columns fs have been written from entity e.
Merged(e, row, fs) == [f \in Fields |-> IF f \in fs THEN e[f] ELSE row[f]]

CancelFind(r) ==
    LET x == call[r].row
    IN  /\ At(r, "cancel", "start")
        /\ Mine(r, x)
        /\ HasResult(rows[x], Price(rows[x]))
        /\ Hold(r, [rows[x] EXCEPT !.status = "close", !.exit = Price(rows[x])], {})
        /\ Goto(r, "reload")
        /\ UNCHANGED <<rows, call, owner, backend>>

\* save() reads the row again and will write the columns that differ from
\* the entity; a row that is gone will be inserted.
CancelReload(r) ==
    LET x == call[r].row
        e == loc[r].entity
    IN  /\ At(r, "cancel", "reload")
        /\ Hold(r, e, IF rows[x] = NoRow THEN Fields ELSE {f \in Fields : e[f] # rows[x][f]})
        /\ Goto(r, "write")
        /\ UNCHANGED <<rows, call, owner, backend>>

CancelSave(r) ==
    LET x == call[r].row
        e == loc[r].entity
        fs == loc[r].dirty
    IN  /\ At(r, "cancel", "write")
        /\ owner[x] = Nobody
        /\ fs = Fields => rows[x] = NoRow
        /\ rows' = [rows EXCEPT ![x] =
                      IF fs = Fields THEN e
                      ELSE IF @ = NoRow THEN NoRow
                      ELSE Merged(e, @, fs)]
        /\ Answer(r, "done")
        /\ UNCHANGED <<call, backend>>

\* The insertion finds the row inserted again by another cancel.
CancelDuplicate(r) ==
    /\ At(r, "cancel", "write")
    /\ loc[r].dirty = Fields /\ rows[call[r].row] # NoRow
    /\ Refuse(r, "failed")

\* update and remove: the row is found ...
FindOwned(r) ==
    /\ pc[r] = "start"
    /\ call[r].op \in {"edit", "remove"}
    /\ Mine(r, call[r].row)
    /\ Hold(r, rows[call[r].row], {})
    /\ Goto(r, "count")
    /\ UNCHANGED <<rows, call, owner, backend>>

\* ... the rows of its trade are counted ...
CopiedRefuse(r) ==
    /\ pc[r] = "count"
    /\ Cardinality(RowsOf(loc[r].entity.trade)) >= 2
    /\ Refuse(r, "refused")

\* Mutant of EditCount: the rows of the trade are not counted.
EditCount_Uncounted(r) ==
    LET c == call[r]
        e == loc[r].entity
        terms == IF c.terms = NoTerms THEN e.terms ELSE c.terms
        publish == c.draft # "yes" /\ e.draft
    IN  /\ At(r, "edit", "count")
        /\ jobs' = jobs \cup (IF publish THEN JobsOf(e.trade, c) ELSE {})
        /\ Hold(r, [e EXCEPT
                      !.status = IF publish THEN Published(c, terms) ELSE "draft",
                      !.draft = IF c.draft = "omitted" THEN @ ELSE c.draft = "yes",
                      !.terms = terms],
                {"status"} \cup (IF c.draft = "omitted" THEN {} ELSE {"draft"})
                           \cup (IF c.terms = NoTerms THEN {} ELSE {"terms"}))
        /\ Goto(r, "write")
        /\ UNCHANGED <<rows, call, owner, updates, prices, canQuery, checks>>

\* An edit that publishes a draft schedules its jobs now; any other edit
\* leaves a draft, whatever the trade was.
EditCount(r) ==
    LET c == call[r]
        e == loc[r].entity
        terms == IF c.terms = NoTerms THEN e.terms ELSE c.terms
        publish == c.draft # "yes" /\ e.draft
    IN  /\ At(r, "edit", "count")
        /\ Cardinality(RowsOf(e.trade)) < 2
        /\ jobs' = jobs \cup (IF publish THEN JobsOf(e.trade, c) ELSE {})
        /\ Hold(r, [e EXCEPT
                      !.status = IF publish THEN Published(c, terms) ELSE "draft",
                      !.draft = IF c.draft = "omitted" THEN @ ELSE c.draft = "yes",
                      !.terms = terms],
                {"status"} \cup (IF c.draft = "omitted" THEN {} ELSE {"draft"})
                           \cup (IF c.terms = NoTerms THEN {} ELSE {"terms"}))
        /\ Goto(r, "write")
        /\ UNCHANGED <<rows, call, owner, updates, prices, canQuery, checks>>

RemoveCount(r) ==
    /\ At(r, "remove", "count")
    /\ Cardinality(RowsOf(loc[r].entity.trade)) < 2
    /\ Goto(r, "write")
    /\ UNCHANGED <<rows, call, loc, owner, backend>>

\* ... and it is written or deleted by its key alone.
EditSave(r) ==
    LET x == call[r].row
    IN  /\ At(r, "edit", "write")
        /\ ~call[r].custom
        /\ owner[x] = Nobody
        /\ rows' = [rows EXCEPT ![x] =
                      IF @ = NoRow THEN NoRow ELSE Merged(loc[r].entity, @, loc[r].dirty)]
        /\ Answer(r, "done")
        /\ UNCHANGED <<call, backend>>

\* A custom duration comes with an endDate, which the update does not strip:
\* the table has no such column, and the update fails with its jobs added.
EditInvalid(r) ==
    /\ At(r, "edit", "write")
    /\ call[r].custom
    /\ Refuse(r, "failed")

RemoveDelete(r) ==
    /\ At(r, "remove", "write")
    /\ owner[call[r].row] = Nobody
    /\ rows' = [rows EXCEPT ![call[r].row] = NoRow]
    /\ Answer(r, "done")
    /\ UNCHANGED <<call, backend>>
-----------------------------------------------------------------------------
(* systemUpdate, the jobs and the price feed *)

\* FOR UPDATE of the live rows of a trade, in one transaction with the
\* update of the rows that are live.  What is written is computed from the
\* first row found; without a result the job fails, and an update of the
\* monitor takes the process with it (Restart).
SystemUpdate(u) ==
    LET live == LiveRows(u.trade)
    IN  /\ u \in updates
        /\ \A x \in live : owner[x] = Nobody
        /\ updates' = updates \ {u}
        /\ \/ live = {} /\ UNCHANGED rows
           \/ \E first \in live :
                LET row == rows[first]
                    written(x) ==
                        IF u.type = "starting"
                        THEN [rows[x] EXCEPT !.status = Opened(row.terms, Price(row))]
                        ELSE [rows[x] EXCEPT !.status = u.status, !.exit = Price(row)]
                IN  IF u.type = "expiring" /\ ~HasResult(row, Price(row))
                    THEN u.job /\ UNCHANGED rows
                    ELSE rows' = [x \in Rows |-> IF x \in live THEN written(x) ELSE rows[x]]
        /\ UNCHANGED <<call, pc, loc, owner, jobs, prices, canQuery, checks>>

\* A job is due.  Without custom dates that takes minutes at least, longer
\* than the save that follows its scheduling.
RunJob(j) ==
    /\ j \in jobs
    /\ \A r \in Requests :
          pc[r] = "write" /\ loc[r].entity # NoRow /\ loc[r].entity.trade = j.trade
              => call[r].op = "cancel" \/ call[r].custom
    /\ jobs' = jobs \ {j}
    /\ updates' = updates \cup {[trade |-> j.trade, type |-> j.type, status |-> "close", job |-> TRUE]}
    /\ UNCHANGED <<rows, call, pc, loc, owner, prices, canQuery, checks>>

\* A message of the feed: only a significant change is cached, and looked at
\* if the flag allows.
Tick(a, p) ==
    /\ Significant(prices[a], p)
    /\ checks < MaxChecks
    /\ prices' = [prices EXCEPT ![a] = p]
    /\ checks' = IF canQuery THEN checks + 1 ELSE checks
    /\ UNCHANGED <<rows, call, pc, loc, owner, jobs, updates, canQuery>>

Watched == {x \in Rows : rows[x] # NoRow /\ rows[x].status \in {"open", "pending"}}
HitRows == {x \in Watched : Hit(rows[x].terms, Price(rows[x]))}

Monitor(x, type, status) ==
    [trade |-> rows[x].trade, type |-> type, status |-> status, job |-> FALSE]

\* Mutant of Check: the job of a trade that is hit is closed, its rows are not.
Check_JobOnly ==
    /\ checks > 0
    /\ checks' = checks - 1
    /\ canQuery' = (canQuery /\ Watched # {})
    /\ updates' = updates \cup {Monitor(x, "expiring", "open") : x \in Watched}
    /\ jobs' = jobs \ {Ending(rows[x].trade) : x \in HitRows}
    /\ UNCHANGED <<rows, call, pc, loc, owner, prices>>

\* The query of checkTradingConditions answers: its updates are sent off
\* together, and the job of a trade that is hit is marked as done.
Check ==
    /\ checks > 0
    /\ checks' = checks - 1
    /\ canQuery' = (canQuery /\ Watched # {})
    /\ updates' = updates
          \cup {Monitor(x, "starting", "open") : x \in {y \in Watched : rows[y].status = "pending"}}
          \cup {Monitor(x, "expiring", "close") : x \in HitRows}
          \cup {Monitor(x, "expiring", "open") : x \in Watched \ HitRows}
    /\ jobs' = jobs \ {Ending(rows[x].trade) : x \in HitRows}
    /\ UNCHANGED <<rows, call, pc, loc, owner, prices>>
-----------------------------------------------------------------------------
(* faults *)

WaitsFor(r) ==
    (CASE At(r, "copy", "lock")   -> {owner[call[r].row]}
       [] At(r, "copy", "insert") -> {owner[x] : x \in RowsOf(loc[r].entity.trade)}
       [] OTHER                   -> {}) \ {r, Nobody}

InWaitCycle(r) ==
    \E S \in SUBSET Requests :
        /\ r \in S
        /\ \A s \in S : WaitsFor(s) \cap S # {} /\ \E q \in S : s \in WaitsFor(q)

DeadlockVictim(r) == InWaitCycle(r) /\ Refuse(r, "failed")

Fail(r) == "request" \in Faults /\ pc[r] \in Running /\ Refuse(r, "failed")

\* The systemUpdate of a job is cancelled (deadlock, lost connection): the
\* queue marks the job as failed and does not repeat it.
UpdateFails(u) ==
    /\ "update" \in Faults
    /\ u \in updates /\ u.job
    /\ updates' = updates \ {u}
    /\ UNCHANGED <<rows, call, pc, loc, owner, jobs, prices, canQuery, checks>>

\* The process ends and starts again: all that is in memory is lost.  The
\* queue is a file: a job that was running is queued again when it times
\* out.  A systemUpdate of the monitor that throws is one reason: nobody
\* handles its rejection, and Node ends the process.
Restart ==
    /\ "restart" \in Faults
    /\ pc' = [r \in Requests |-> IF pc[r] \in Running THEN "failed" ELSE pc[r]]
    /\ loc' = [r \in Requests |-> NoLocals]
    /\ owner' = [x \in Rows |-> Nobody]
    /\ jobs' = jobs \cup {[trade |-> u.trade, type |-> u.type] : u \in {v \in updates : v.job}}
    /\ updates' = {}
    /\ prices' = [a \in Assets |-> NoPrice]
    /\ canQuery' = TRUE
    /\ checks' = 0
    /\ UNCHANGED <<rows, call>>

Step(r) ==
    \/ CreateFind(r) \/ CreateRefuse(r) \/ CreateSave(r)
    \/ CopyCount(r) \/ CopyLock(r) \/ CopyMiss(r) \/ CopyCheck(r) \/ CopyCommit(r)
    \/ FindRefuse(r) \/ CancelFind(r) \/ CancelReload(r) \/ CancelSave(r)
    \/ CancelDuplicate(r)
    \/ FindOwned(r) \/ CopiedRefuse(r) \/ EditCount(r) \/ EditSave(r) \/ EditInvalid(r)
    \/ RemoveCount(r) \/ RemoveDelete(r)

Next ==
    \/ \E r \in Requests, c \in Calls : Begin(r, c)
    \/ \E r \in Requests : Step(r) \/ DeadlockVictim(r) \/ Fail(r)
    \/ \E u \in Update : SystemUpdate(u) \/ UpdateFails(u)
    \/ \E j \in Job : RunJob(j)
    \/ \E a \in Assets, p \in Ticks : Tick(a, p)
    \/ Check
    \/ Restart

Spec == Init /\ [][Next]_tvars

\* Statements are answered, deadlocks broken, due jobs run and calls in
\* flight carried out.  Nothing obliges a request, a tick or a fault.
Fairness ==
    /\ \A r \in Requests : WF_tvars(Step(r)) /\ WF_tvars(DeadlockVictim(r))
    /\ \A u \in Update : WF_tvars(SystemUpdate(u))
    /\ \A j \in Job : WF_tvars(RunJob(j))
    /\ WF_tvars(Check)
FairSpec == Spec /\ Fairness
-----------------------------------------------------------------------------
TypeOK ==
    /\ rows \in [Rows -> Row \cup {NoRow}]
    /\ call \in [Requests -> Calls \cup {NoCall}]
    /\ pc \in [Requests -> {"idle"} \cup Running \cup Answered]
    /\ \A r \in Requests : pc[r] # "idle" => call[r] # NoCall
    /\ loc \in [Requests -> [entity : Row \cup {NoRow}, dirty : SUBSET Fields]]
    /\ owner \in [Rows -> Requests \cup {Nobody}]
    /\ jobs \subseteq Job
    /\ updates \subseteq Update
    /\ prices \in [Assets -> Quotes]
    /\ canQuery \in BOOLEAN
    /\ checks \in Nat

Done(r, op, x) == pc[r] = "done" /\ call[r].op = op /\ call[r].row = x

\* A user holds at most one row of a trade, though two copies made through
\* different rows of it both pass the check: their final updates collide.
\* Only a cancel that saves a row deleted under it can add another.
OneRowPerUser ==
    \A x, y \in Rows :
        /\ x # y
        /\ rows[x] # NoRow /\ rows[y] # NoRow
        /\ rows[x].trade = rows[y].trade
        => \/ rows[x].user # rows[y].user
           \/ \E r, s \in Requests, z \in {x, y} : Done(r, "cancel", z) /\ Done(s, "remove", z)

Copies(r) == pc[r] # "done" /\ pc'[r] = "done" /\ call[r].op = "copy"

\* A copy is made of a trade that is live when the copy appears, with the
\* terms the copied row has then.
CopiesLiveTrade ==
    [][\A r \in Requests :
          Copies(r) =>
              /\ Live(rows[call[r].row]) /\ Live(rows'[r])
              /\ rows'[r].terms = rows[call[r].row].terms
              /\ rows'[r].creator = rows[call[r].row].creator]_tvars

Settled(t) == RowsOf(t) # {} /\ LiveRows(t) = {}
Saves(r) == At(r, "edit", "write") /\ pc'[r] = "done"

\* Once every row of a trade is closed only an edit that had found it before
\* brings it back: no copy, job or tick does.
SettledStaysSettled ==
    [][\A t \in Rows :
          Settled(t) /\ ~Settled(t)' =>
              \/ RowsOf(t)' = {}
              \/ \E r \in Requests : Saves(r) /\ loc[r].entity.trade = t]_tvars

\* An edit that changes a trade with copies found it before they were made:
\* the row has gained a copier since, unless a cancel has put the old count
\* back, or a row that was removed under it.
EditFoundItUncopied ==
    [][\A r \in Requests :
          LET x == call[r].row
          IN  Saves(r) /\ rows[x] # NoRow /\ Cardinality(RowsOf(rows[x].trade)) >= 2 =>
                \/ rows[x].copiers > loc[r].entity.copiers
                \/ \E s \in Requests : Done(s, "cancel", x)
                \/ \E q, s \in Requests, y \in Rows :
                      Done(q, "remove", y) /\ Done(s, "cancel", y)]_tvars

\* Trades whose end is promised: results can be calculated, the duration is
\* not custom (whose job may run before the row is saved), and no edit has
\* been at work (which may put a row back after its job has run).
Promised(x) ==
    /\ Live(rows[x]) /\ rows[x].status # "draft" /\ rows[x].margin
    /\ \A r \in Requests :
          pc[r] # "idle" =>
              /\ call[r].op # "edit"
              /\ call[r].custom => rows[x].trade # r

\* Its job waits, or the update that closes it is in flight.
EndAhead(t) ==
    \/ Ending(t) \in jobs
    \/ \E u \in updates : u.trade = t /\ u.type = "expiring" /\ u.status = "close"

\* No promised trade is left without an end ahead, whatever the monitor does
\* with its job, and however it is copied and cancelled meanwhile.
EndingAhead == \A x \in Rows : Promised(x) => EndAhead(rows[x].trade)

\* Every promised trade is closed in the end, or deleted.
TradesSettle == \A x \in Rows : Promised(x) ~> ~Promised(x)

\* Copies that lock one another's rows are all answered.
EveryRequestAnswered ==
    \A r \in Requests : pc[r] \in Running ~> pc[r] \in Answered
-----------------------------------------------------------------------------
\* "Trade not exist or Trade already close", "Unable to update trade close":
\* a closed row stays closed.
ClosedIsFinal ==
    [][\A x \in Rows :
          rows[x] # NoRow /\ rows[x].status = "close" /\ rows'[x] # NoRow
              => rows'[x].status = "close"]_tvars

\* "Close if TP hit or SL hit": the monitor closes a trade only at a price
\* its market has quoted.
ClosesOnlyOnHit ==
    [][\A u \in updates' \ updates :
          u.status = "close" /\ ~u.job =>
              \E x \in RowsOf(u.trade) :
                  Price(rows[x]) # NoPrice /\ Hit(rows[x].terms, Price(rows[x]))]_tvars
=============================================================================
