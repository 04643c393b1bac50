-------------------------- MODULE CommunityProofs --------------------------
(***************************************************************************)
(* Theorems about Community, for any people, trades, requests, batch size  *)
(* and number of restarts.                                                 *)
(***************************************************************************)
EXTENDS Community, Sums, TLAPS

\* Rows, requests and people are finitely many, and so is what is picked of
\* them.
LEMMA FiniteParts ==
    /\ \A S \in SUBSET Ids : IsFiniteSet(S) /\ Cardinality(S) \in Nat
    /\ \A S \in SUBSET People : IsFiniteSet(S) /\ Cardinality(S) \in Nat
<1>1. IsFiniteSet(Ids)
  BY CommunityAssumption, FS_Union DEF Ids
<1>2. IsFiniteSet(People)
  BY CommunityAssumption
<1> QED
  BY <1>1, <1>2, FS_Subset, FS_CardinalityType


\* The calls of a request are well formed.
LEMMA CallTypes ==
    ASSUME cast \in Casts, NEW r \in DOMAIN cast.calls
    PROVE  /\ r \in Requests
           /\ cast.calls[r].row \in Ids
           /\ cast.calls[r].user \in People
           /\ cast.calls[r].pnl \in Int
           /\ cast.calls[r].status \in {"draft", "pending", "open", "close"}
  BY CommunityAssumption DEF Call

\* The followers that are read are people.
LEMMA ReadersType ==
    ASSUME TypeOK
    PROVE  Readers \in SUBSET People
<1>1. ASSUME NEW k \in DOMAIN follows
      PROVE  follows[k].follower \in People
  <2>1. follows[k] \in FollowRow
    BY DEF TypeOK
  <2> QED
    BY <2>1 DEF FollowRow
<1> QED
  BY <1>1 DEF Readers

\* What a write does to the readers of lists keeps the type of the requests.
LEMMA WatchType ==
    ASSUME TypeOK, NEW after
    PROVE  Watch(after) \in [Requests -> Task]
<1> DEFINE Left(r) == {x \in Ids : /\ Listed(x, trades, cast.calls[r])
                                   /\ \/ ~Listed(x, after, cast.calls[r])
                                      \/ after[x].updatedAt < trades[x].updatedAt}
           Kept(r) == {x \in task[r].stood : trades[x] = after[x] /\ Alone(x, after, cast.calls[r])}
<1>1. ASSUME NEW r \in Requests
      PROVE  Cardinality(Left(r)) \in Nat
  BY FiniteParts
<1>2. Watch(after) =
        [r \in Requests |->
            IF ~Calls(r, "list") THEN task[r]
            ELSE [task[r] EXCEPT !.stood = Kept(r), !.left = @ + Cardinality(Left(r))]]
  BY DEF Watch
<1>3. ASSUME NEW r \in Requests
      PROVE  Watch(after)[r] \in Task
  <2>1. task[r] \in Task
    BY DEF TypeOK
  <2>2. CASE Calls(r, "list")
    <3>2. task[r].left + Cardinality(Left(r)) \in Nat
      BY <1>1, <2>1 DEF Task
    <3>3. Kept(r) \in SUBSET Ids
      BY <2>1 DEF Task
    <3> HIDE DEF Left, Kept
    <3>1. Watch(after)[r] =
             [task[r] EXCEPT !.stood = Kept(r), !.left = @ + Cardinality(Left(r))]
      BY <1>2, <2>2
    <3> QED
      BY <2>1, <3>1, <3>2, <3>3 DEF Task
  <2> HIDE DEF Left, Kept
  <2> QED
    BY <1>2, <2>1, <2>2
<1> HIDE DEF Left, Kept
<1> QED
  BY <1>2, <1>3

\* What a request has found stays, and it comes to hold it in no other step.
Keeps(r) ==
    /\ task'[r].found = task[r].found
    /\ task'[r].pc \in {"reload", "write"} => task'[r].pc = task[r].pc

\* So nothing that a request holds is lost.
LEMMA Held ==
    ASSUME TypeOK, cast' = cast, NEW r \in Requests, Keeps(r)
    PROVE  Holding(r)'
  BY DEF TypeOK, Holding, Keeps, At, Calls

\* A write of a well-formed table keeps the types.
LEMMA WriteType ==
    ASSUME TypeOK, NEW r \in Requests, NEW after \in [Ids -> Row \cup {Nothing}],
           NEW label \in Labels \ {"reload", "write"}, Write(r, after, label)
    PROVE  TypeOK'
<1>1. Watch(after) \in [Requests -> Task]
  BY WatchType
<1>2. task' \in [Requests -> Task]
  BY <1>1 DEF Write, Task
<1>3. ASSUME NEW q \in Requests
      PROVE  Holding(q)'
  <2>1. task[q] \in Task /\ Watch(after)[q] \in Task
    BY <1>1 DEF TypeOK
  <2>2. Watch(after)[q].found = task[q].found /\ Watch(after)[q].pc = task[q].pc
    BY <2>1 DEF Watch, Task
  <2>3. Keeps(q)
    BY <1>1, <2>1, <2>2 DEF Write, Keeps, Task
  <2> QED
    BY <2>3, Held DEF Write
<1> QED
  BY <1>2, <1>3 DEF Write, TypeOK

\* So does the beginning of a write.
LEMMA BeginsType ==
    ASSUME TypeOK, NEW r \in Requests, NEW held \in Task, Begins(r, held),
           Calls(r, "edit") \/ Calls(r, "cancel") => held.found \in Row
    PROVE  TypeOK'
<1>1. task \in [Requests -> Task] /\ clock' \in Nat
  BY DEF TypeOK, Begins
<1>2. [held EXCEPT !.pc = "write", !.since = clock + 1] \in Task
  <2>1. clock + 1 \in Nat
    BY DEF TypeOK
  <2> QED
    BY <2>1 DEF Task, Labels, Moving
<1>3. task' \in [Requests -> Task]
  BY <1>1, <1>2 DEF Begins
<1>4. ASSUME NEW q \in Requests
      PROVE  Holding(q)'
  <2>1. CASE q = r
    <3>1. task'[q].found = held.found
      BY <1>1, <1>2, <2>1 DEF Begins, Task
    <3>2. task'[q].pc = "write"
      BY <1>1, <2>1 DEF Begins, Task
    <3> QED
      BY <2>1, <3>1, <3>2 DEF Holding, At, Calls, Begins
  <2>2. CASE q # r
    BY <1>1, <2>2, Held DEF Keeps, Begins
  <2> QED
    BY <2>1, <2>2
<1> QED
  BY <1>1, <1>3, <1>4 DEF Begins, TypeOK

-----------------------------------------------------------------------------
(* types *)

\* The first state is well typed.
LEMMA InitTypes == Init => TypeOK
<1> SUFFICES ASSUME Init PROVE TypeOK
  OBVIOUS
<1>1. trades \in [Ids -> Row \cup {Nothing}]
  BY CommunityAssumption DEF Init
<1>2. task \in [Requests -> Task] /\ \A r \in Requests : task[r].pc = "idle"
  BY DEF Init, Idle, Task, Labels
<1>3. sending \in Sending
  BY DEF Init, Quiet, Sending
<1>4. told \in [JobNos -> [People -> Nat]]
  BY DEF Init
<1>5. jobs \in Seq(Job)
  BY DEF Init
<1>6. follows \in Seq(FollowRow) /\ cast \in Casts /\ clock \in Nat /\ restarts \in Nat
  BY CommunityAssumption DEF Init, Start
<1>7. \A r \in Requests : Holding(r)
  BY <1>2 DEF Holding, At
<1> QED
  BY <1>1, <1>2, <1>3, <1>4, <1>5, <1>6, <1>7 DEF TypeOK

\* What a write makes of a row is a row.
LEMMA RowTypes ==
    /\ \A row \in Row, status \in {"draft", "pending", "open", "close"}, t \in Nat :
          [row EXCEPT !.status = status, !.updatedAt = t] \in Row
    /\ \A row \in Row, pnl \in Int :
          [row EXCEPT !.status = "close", !.outcome = Outcome(pnl), !.pnl = pnl] \in Row
    /\ \A row \in Row, c \in Call, t \in Nat : Updated(row, c, t) \in Row
    /\ \A e \in Row, seen \in Row, row \in Row, t \in Nat : Merged(e, seen, row, t) \in Row
<1>1. \A pnl \in Int : Outcome(pnl) \in {"Win", "Loss", "Liquidated"}
  BY DEF Outcome
<1>2. ASSUME NEW row \in Row, NEW status \in {"draft", "pending", "open", "close"}, NEW t \in Nat
      PROVE  [row EXCEPT !.status = status, !.updatedAt = t] \in Row
  BY DEF Row
<1>3. ASSUME NEW row \in Row, NEW pnl \in Int
      PROVE  [row EXCEPT !.status = "close", !.outcome = Outcome(pnl), !.pnl = pnl] \in Row
  BY <1>1 DEF Row
<1>4. ASSUME NEW row \in Row, NEW c \in Call, NEW t \in Nat
      PROVE  Updated(row, c, t) \in Row
  <2>1. c.status \in {"draft", "pending", "open", "close"} /\ c.pnl \in Int
    BY DEF Call
  <2>2. Outcome(c.pnl) \in {"Win", "Loss", "Liquidated"}
    BY <1>1, <2>1
  <2> QED
    BY <2>1, <2>2 DEF Updated, Row
<1>5. ASSUME NEW e \in Row, NEW seen \in Row, NEW row \in Row, NEW t \in Nat
      PROVE  Merged(e, seen, row, t) \in Row
  BY DEF Merged, Row
<1> QED
  BY <1>2, <1>3, <1>4, <1>5

\* What requests write to the table of trades.
LEMMA TradesTyped ==
    ASSUME TypeOK, NEW r \in Requests, WriteStep(r)
    PROVE  TypeOK'
<1> USE DEF Labels, Moving
<1> DEFINE c == cast.calls[r]
           x == c.row
           now == task[r].since
<1>1. trades \in [Ids -> Row \cup {Nothing}] /\ cast \in Casts /\ r \in Ids
  BY DEF TypeOK, Ids
<1>t. task \in [Requests -> Task] /\ task[r] \in Task /\ now \in Nat
  BY DEF TypeOK, Task
<1>c. r \in DOMAIN cast.calls
  BY DEF WriteStep, Post, Edit, RemoveTrade, Cancel, CancelDuplicate, Copy, CopyMiss,
         SystemUpdate, Calls
<1>x. x \in Ids /\ c.pnl \in Int /\ c.status \in {"draft", "pending", "open", "close"}
  BY <1>1, <1>c, CallTypes
<1>2. CASE Post(r)
  <2>1. NewRow(r, c.status) \in Row
    BY <1>1, <1>t, <1>x DEF NewRow, Row
  <2>2. PICK label \in {"done", "notify"} :
            Write(r, [trades EXCEPT ![r] = NewRow(r, c.status)], label)
    BY <1>2 DEF Post
  <2>3. [trades EXCEPT ![r] = NewRow(r, c.status)] \in [Ids -> Row \cup {Nothing}]
    BY <1>1, <2>1
  <2> QED
    BY <2>2, <2>3, WriteType
<1>3. CASE Edit(r)
  <2> DEFINE status == IF task[r].found.status = "draft" THEN c.status ELSE "draft"
             row == IF trades[x] = Nothing THEN Nothing
                    ELSE [trades[x] EXCEPT !.status = status, !.updatedAt = now]
  <2>1. status \in {"draft", "pending", "open", "close"}
    BY <1>x
  <2>2. row \in Row \cup {Nothing}
    <3> HIDE DEF status
    <3>1. CASE trades[x] = Nothing
      BY <3>1
    <3>2. CASE trades[x] # Nothing
      BY <1>1, <1>t, <1>x, <2>1, <3>2, RowTypes
    <3> QED
      BY <3>1, <3>2
  <2>3. PICK label \in {"done", "notify"} : Write(r, [trades EXCEPT ![x] = row], label)
    BY <1>3 DEF Edit
  <2> HIDE DEF row
  <2>4. [trades EXCEPT ![x] = row] \in [Ids -> Row \cup {Nothing}]
    BY <1>1, <2>2
  <2> QED
    BY <2>3, <2>4, WriteType
<1>4. CASE RemoveTrade(r)
  <2>1. [trades EXCEPT ![x] = Nothing] \in [Ids -> Row \cup {Nothing}]
    BY <1>1
  <2>2. Write(r, [trades EXCEPT ![x] = Nothing], "done")
    BY <1>4 DEF RemoveTrade
  <2> QED
    BY <2>1, <2>2, WriteType
<1>5. CASE Cancel(r)
  <2> DEFINE seen == task[r].seen
             row == IF seen = Nothing THEN Cancelled(r)
                    ELSE IF trades[x] = Nothing THEN Nothing
                    ELSE Merged(Cancelled(r), seen, trades[x], now)
  <2>1. task[r].found \in Row
    BY <1>5 DEF TypeOK, Holding, Cancel, Write, At
  <2>2. Cancelled(r) \in Row
    BY <1>x, <2>1, RowTypes DEF Cancelled
  <2>3. seen \in Row \cup {Nothing}
    BY <1>t DEF Task
  <2>4. row \in Row \cup {Nothing}
    <3>1. trades[x] \in Row \cup {Nothing}
      BY <1>1, <1>x
    <3> QED
      BY <1>t, <2>2, <2>3, <3>1, RowTypes
  <2>5. PICK label \in {"done", "torn"} : Write(r, [trades EXCEPT ![x] = row], label)
    BY <1>5 DEF Cancel
  <2> HIDE DEF row
  <2>6. [trades EXCEPT ![x] = row] \in [Ids -> Row \cup {Nothing}]
    BY <1>1, <2>4
  <2> QED
    BY <2>5, <2>6, WriteType
<1>6. CASE Copy(r)
  <2> DEFINE status == IF trades[x].status = "pending" THEN c.status ELSE trades[x].status
             old(y) == IF y = r THEN trades[x] ELSE trades[y]
             row(y) == [old(y) EXCEPT !.status = status, !.updatedAt = now]
             after == [y \in Ids |-> IF y = r \/ y \in RowsOf(trades[x].trade) THEN row(y) ELSE trades[y]]
  <2>1. trades[x] \in Row
    BY <1>1, <1>6, <1>x DEF Copy, Live
  <2>2. status \in {"draft", "pending", "open", "close"}
    BY <1>x, <2>1 DEF Row
  <2>3. ASSUME NEW y \in Ids, y = r \/ y \in RowsOf(trades[x].trade)
        PROVE  row(y) \in Row
    <3>1. old(y) \in Row
      BY <1>1, <2>1, <2>3 DEF RowsOf
    <3> HIDE DEF old, status
    <3> QED
      BY <1>t, <2>2, <3>1, RowTypes
  <2>4. Write(r, after, "done")
    BY <1>6 DEF Copy
  <2> HIDE DEF row
  <2>5. after \in [Ids -> Row \cup {Nothing}]
    BY <1>1, <2>3
  <2> QED
    BY <2>4, <2>5, WriteType
<1>7. CASE SystemUpdate(r)
  <2> DEFINE after == [y \in Ids |-> IF y \in RowsOf(c.row) /\ Live(y) THEN Updated(trades[y], c, now)
                                     ELSE trades[y]]
  <2>1. c \in Call
    BY <1>1, <1>c, CommunityAssumption
  <2>2. ASSUME NEW y \in Ids, Live(y)
        PROVE  Updated(trades[y], c, now) \in Row
    <3>1. trades[y] \in Row
      BY <1>1, <2>2 DEF Live
    <3> QED
      BY <1>t, <2>1, <3>1, RowTypes
  <2>3. after \in [Ids -> Row \cup {Nothing}]
    BY <1>1, <2>2
  <2>4. Write(r, after, "done")
    BY <1>7 DEF SystemUpdate
  <2> QED
    BY <2>3, <2>4, WriteType
<1>8. CASE CancelDuplicate(r) \/ CopyMiss(r)
  <2>1. task' = [task EXCEPT ![r].pc = "failed"] /\ UNCHANGED <<cast, clock, trades, follows, jobs, sending, told, restarts>>
    BY <1>8 DEF CancelDuplicate, CopyMiss, Goto
  <2>2. task' \in [Requests -> Task]
    BY <1>t, <2>1 DEF Task
  <2>3. \A q \in Requests : Keeps(q)
    BY <1>t, <2>1 DEF Keeps, Task
  <2>4. \A q \in Requests : Holding(q)'
    BY <2>1, <2>3, Held
  <2> QED
    BY <2>1, <2>2, <2>4 DEF TypeOK
<1> QED
  BY <1>2, <1>3, <1>4, <1>5, <1>6, <1>7, <1>8 DEF WriteStep

\* The steps by which a request finds a row or begins to write.
Finding(r) == BeginWrite(r) \/ FindOwn(r) \/ FindLive(r) \/ Reload(r)

\* They keep the types.
LEMMA FindingTyped ==
    ASSUME TypeOK, NEW r \in Requests, Finding(r)
    PROVE  TypeOK'
<1> DEFINE x == cast.calls[r].row
<1>1. trades \in [Ids -> Row \cup {Nothing}] /\ cast \in Casts
  BY DEF TypeOK
<1>t. task \in [Requests -> Task] /\ task[r] \in Task
  BY DEF TypeOK
<1>2. CASE BeginWrite(r)
  <2>1. Begins(r, task[r]) /\ ~(Calls(r, "edit") \/ Calls(r, "cancel"))
    BY <1>2 DEF BeginWrite, Calls
  <2> QED
    BY <1>t, <2>1, BeginsType
<1>3. CASE FindOwn(r)
  <2>1. x \in Ids
    BY <1>1, <1>3, CallTypes DEF FindOwn, Calls
  <2>2. trades[x] \in Row
    BY <1>1, <1>3, <2>1 DEF FindOwn, Live
  <2>3. [task[r] EXCEPT !.found = trades[x]] \in Task
    BY <1>t, <2>2 DEF Task
  <2>4. [task[r] EXCEPT !.found = trades[x]].found \in Row
    BY <1>t, <2>2 DEF Task
  <2>5. Begins(r, [task[r] EXCEPT !.found = trades[x]])
    BY <1>3 DEF FindOwn
  <2> QED
    BY <2>3, <2>4, <2>5, BeginsType
<1>4. CASE FindLive(r)
  <2>1. x \in Ids
    BY <1>1, <1>4, CallTypes DEF FindLive, Calls
  <2>2. trades[x] \in Row
    BY <1>1, <1>4, <2>1 DEF FindLive, Live
  <2> DEFINE held == [task[r] EXCEPT !.pc = "reload", !.found = trades[x]]
  <2>3. held \in Task /\ held.found \in Row
    BY <1>t, <2>2 DEF Task, Labels, Moving
  <2>4. task' = [task EXCEPT ![r] = held] /\ UNCHANGED <<cast, clock, trades, follows, jobs, sending, told, restarts>>
    BY <1>4 DEF FindLive
  <2> HIDE DEF held
  <2>5. task' \in [Requests -> Task]
    BY <1>t, <2>3, <2>4
  <2>6. ASSUME NEW q \in Requests
        PROVE  Holding(q)'
    <3>1. CASE q = r
      BY <1>t, <2>3, <2>4, <3>1 DEF Holding
    <3>2. CASE q # r
      BY <1>t, <2>4, <3>2, Held DEF Keeps
    <3> QED
      BY <3>1, <3>2
  <2> QED
    BY <2>4, <2>5, <2>6 DEF TypeOK
<1>5. CASE Reload(r)
  <2>1. CASE trades[x] = Cancelled(r)
    <3>1. task' = [task EXCEPT ![r].pc = "done"] /\ UNCHANGED <<cast, clock, trades, follows, jobs, sending, told, restarts>>
      BY <1>5, <2>1 DEF Reload, Goto
    <3>2. task' \in [Requests -> Task]
      BY <1>t, <3>1 DEF Task, Labels
    <3>3. \A q \in Requests : Keeps(q)
      BY <1>t, <3>1 DEF Keeps, Task
    <3>4. \A q \in Requests : Holding(q)'
      BY <3>1, <3>3, Held
    <3> QED
      BY <3>1, <3>2, <3>4 DEF TypeOK
  <2>2. CASE trades[x] # Cancelled(r)
    <3>1. Begins(r, [task[r] EXCEPT !.seen = trades[x]]) /\ At(r, "reload")
      BY <1>5, <2>2 DEF Reload
    <3>2. task[r].found \in Row
      BY <3>1 DEF TypeOK, Holding
    <3>3. x \in Ids
      BY <1>1, <1>5, CallTypes DEF Reload, Calls
    <3>4. [task[r] EXCEPT !.seen = trades[x]] \in Task
      BY <1>1, <1>t, <3>3 DEF Task
    <3>5. [task[r] EXCEPT !.seen = trades[x]].found \in Row
      BY <1>t, <3>2 DEF Task
    <3> QED
      BY <3>1, <3>4, <3>5, BeginsType
  <2> QED
    BY <2>1, <2>2
<1> QED
  BY <1>2, <1>3, <1>4, <1>5 DEF Finding

\* Following, queueing and reading the list.
LEMMA RequestsTyped ==
    ASSUME TypeOK, NEW r \in Requests,
           \/ FindTrader(r) \/ BeginList(r) \/ FindFollow(r) \/ SaveFollow(r)
           \/ QueueNotice(r) \/ ReadRows(r) \/ CountRows(r),
           At(r, "follow") \/ At(r, "notify") => r \in DOMAIN cast.calls
    PROVE  TypeOK'
<1> USE DEF Labels, Moving
<1>1. task[r] \in Task /\ task \in [Requests -> Task]
  BY DEF TypeOK
<1>k. ASSUME NEW q \in Requests
      PROVE  Keeps(q)
  <2>1. CASE FindTrader(r)
    BY <1>1, <2>1 DEF FindTrader, Goto, Task, Keeps
  <2>2. CASE BeginList(r)
    BY <1>1, <2>2 DEF BeginList, Task, Keeps
  <2>3. CASE SaveFollow(r) \/ QueueNotice(r)
    <3>1. \E label \in {"done"} : task' = [task EXCEPT ![r].pc = label]
      BY <2>3 DEF SaveFollow, QueueNotice, Goto
    <3> QED
      BY <1>1, <3>1 DEF Task, Keeps
  <2>5. CASE FindFollow(r)
    BY <1>1, <2>5 DEF FindFollow, Task, Keeps
  <2>6. CASE CountRows(r)
    BY <1>1, <2>6 DEF CountRows, Task, Keeps
  <2>4. CASE ReadRows(r)
    <3>1. PICK got : task' = [task EXCEPT ![r].pc = "count", ![r].got = got]
      BY <2>4 DEF ReadRows
    <3> QED
      BY <1>1, <3>1 DEF Task, Keeps
  <2> QED
    BY <2>1, <2>2, <2>3, <2>4, <2>5, <2>6
<1>u. cast' = cast
  BY DEF FindTrader, BeginList, FindFollow, SaveFollow, QueueNotice, ReadRows, CountRows
<1>h. \A q \in Requests : Holding(q)'
  BY <1>k, <1>u, Held
<1>2. CASE FindTrader(r)
  <2>1. task' \in [Requests -> Task]
    BY <1>1, <1>2 DEF FindTrader, Goto, Task
  <2> QED
    BY <1>h, <1>2, <2>1 DEF FindTrader, TypeOK
<1>3. CASE BeginList(r)
  <2>1. task' \in [Requests -> Task]
    BY <1>1, <1>3 DEF BeginList, ListedBy, Task
  <2> QED
    BY <1>h, <1>3, <2>1 DEF BeginList, TypeOK
<1>4. CASE FindFollow(r)
  <2>1. Len(follows) \in Nat
    BY DEF TypeOK
  <2>2. task' \in [Requests -> Task]
    BY <1>1, <1>4, <2>1 DEF FindFollow, Task
  <2> QED
    BY <1>h, <1>4, <2>2 DEF FindFollow, TypeOK
<1>5. CASE SaveFollow(r)
  <2>1. [follower |-> cast.calls[r].user, known |-> task[r].known] \in FollowRow
    BY <1>1, <1>5, CallTypes DEF TypeOK, SaveFollow, FollowRow, Task
  <2>2. follows' \in Seq(FollowRow)
    BY <1>5, <2>1 DEF SaveFollow, TypeOK
  <2>3. task' \in [Requests -> Task]
    BY <1>1, <1>5 DEF SaveFollow, Goto, Task
  <2> QED
    BY <1>h, <1>5, <2>2, <2>3 DEF SaveFollow, TypeOK
<1>6. CASE QueueNotice(r)
  <2>1. cast.calls[r].row \in Ids /\ r \in Ids
    BY <1>6, CallTypes DEF TypeOK, QueueNotice, Ids
  <2>2. jobs' \in Seq(Job)
    BY <1>6, <2>1 DEF QueueNotice, TypeOK, Job
  <2>3. task' \in [Requests -> Task]
    BY <1>1, <1>6 DEF QueueNotice, Goto, Task
  <2> QED
    BY <1>h, <1>6, <2>2, <2>3 DEF QueueNotice, TypeOK
<1>7. CASE ReadRows(r)
  <2>1. PICK o \in Orders(ListedBy(r)) :
           LET offset == (task[r].page - 1) * PageSize
               page   == {o[k] : k \in {k \in DOMAIN o : offset < k /\ k <= offset + PageSize}}
           IN  task' = [task EXCEPT ![r].pc = "count", ![r].got = @ \cup page]
    BY <1>7 DEF ReadRows
  <2>2. \A k \in DOMAIN o : o[k] \in Ids
    BY DEF Orders, ListedBy
  <2>3. PICK page \in SUBSET Ids : task' = [task EXCEPT ![r].pc = "count", ![r].got = @ \cup page]
    BY <2>1, <2>2
  <2>4. task' \in [Requests -> Task]
    BY <1>1, <2>3 DEF Task
  <2> QED
    BY <1>h, <1>7, <2>4 DEF ReadRows, TypeOK
<1>8. CASE CountRows(r)
  <2>1. task' \in [Requests -> Task]
    BY <1>1, <1>8 DEF CountRows, Task
  <2> QED
    BY <1>h, <1>8, <2>1 DEF CountRows, TypeOK
<1> QED
  BY <1>2, <1>3, <1>4, <1>5, <1>6, <1>7, <1>8

\* The steps of the worker replace one job.
LEMMA JobReplaced ==
    ASSUME TypeOK, NEW j \in DOMAIN jobs, NEW job \in Job
    PROVE  [jobs EXCEPT ![j] = job] \in Seq(Job)
  BY DEF TypeOK

\* The worker of the notices.
LEMMA JobsTyped ==
    ASSUME TypeOK, NEW j \in JobNos, JobStep(j)
    PROVE  TypeOK'
<1>1. sending \in Sending /\ jobs \in Seq(Job) /\ told \in [JobNos -> [People -> Nat]]
  BY DEF TypeOK
<1>u. UNCHANGED <<cast, task>>
  BY DEF JobStep, TakeNotice, ReadTrade, NextBatch, EndNotice, Mail
<1>h. \A q \in Requests : Holding(q)'
  BY <1>u, Held DEF Keeps
<1>2. CASE TakeNotice(j)
  <2> DEFINE job == [jobs[j] EXCEPT !.state = IF Readers = {} THEN "done" ELSE "running",
                                    !.readers = Readers]
  <2>i. j \in DOMAIN jobs
    BY <1>2 DEF TakeNotice
  <2>a. j \in DOMAIN jobs /\ jobs[j] \in Job
    BY <1>1, <2>i
  <2>b. job \in Job
    BY <2>a, ReadersType DEF Job
  <2>d. \A a, b : [jobs EXCEPT ![j].state = a, ![j].readers = b] =
                  [jobs EXCEPT ![j] = [jobs[j] EXCEPT !.state = a, !.readers = b]]
    BY <1>1, <2>a
  <2>c. jobs' = [jobs EXCEPT ![j] = job]
    BY <1>2, <2>d DEF TakeNotice
  <2>1. jobs' \in Seq(Job)
    BY <2>a, <2>b, <2>c, JobReplaced
  <2>2. Cardinality(Readers) \in Nat
    BY FiniteParts, ReadersType
  <2>3. sending' \in Sending
    BY <1>2, <2>2, ReadersType DEF TakeNotice, Quiet, Sending
  <2> QED
    BY <1>h, <1>2, <2>1, <2>3 DEF TakeNotice, TypeOK
<1>3. CASE ReadTrade(j)
  <2> DEFINE job == [jobs[j] EXCEPT !.state = "done", !.readers = {}]
  <2>a. j \in DOMAIN jobs /\ jobs[j] \in Job
    BY <1>1, <1>3 DEF ReadTrade, Running
  <2>b. job \in Job
    BY <2>a DEF Job
  <2>c. jobs' = [jobs EXCEPT ![j] = job] \/ jobs' = jobs
    BY <1>1, <1>3, <2>a DEF ReadTrade
  <2>1. jobs' \in Seq(Job)
    BY <1>1, <2>a, <2>b, <2>c, JobReplaced
  <2>d. sending' = Quiet \/ sending' = [sending EXCEPT !.at = "mails"]
    BY <1>3 DEF ReadTrade
  <2>e. Quiet \in Sending
    BY DEF Quiet, Sending
  <2>f. [sending EXCEPT !.at = "mails"] \in Sending
    BY <1>1 DEF Sending
  <2>2. sending' \in Sending
    BY <2>d, <2>e, <2>f
  <2> QED
    BY <1>h, <1>3, <2>1, <2>2 DEF ReadTrade, TypeOK
<1>4. CASE NextBatch(j)
  <2>1. sending' \in Sending
    BY <1>1, <1>4 DEF NextBatch, Sending
  <2> QED
    BY <1>h, <1>4, <2>1 DEF NextBatch, TypeOK
<1>5. CASE EndNotice(j)
  <2> DEFINE job == [jobs[j] EXCEPT !.state = "done"]
  <2>a. j \in DOMAIN jobs /\ jobs[j] \in Job
    BY <1>1, <1>5 DEF EndNotice, Running
  <2>b. job \in Job
    BY <2>a DEF Job
  <2>c. jobs' = [jobs EXCEPT ![j] = job]
    BY <1>1, <1>5, <2>a DEF EndNotice
  <2>1. jobs' \in Seq(Job)
    BY <2>a, <2>b, <2>c, JobReplaced
  <2>2. sending' \in Sending
    BY <1>1, <1>5 DEF EndNotice, Sending
  <2> QED
    BY <1>h, <1>5, <2>1, <2>2 DEF EndNotice, TypeOK
<1>6. ASSUME NEW p \in People, Mail(j, p)
      PROVE  TypeOK'
  <2>a. \/ sending' = [sending EXCEPT !.batch = @ \ {p}, !.succeeded = @ + 1]
        \/ sending' = [sending EXCEPT !.batch = @ \ {p}, !.failed = @ \cup {p}]
    BY <1>6 DEF Mail, MailFails
  <2>h. ASSUME NEW B \in SUBSET People, NEW n \in Nat
        PROVE  [sending EXCEPT !.batch = B, !.succeeded = n] \in Sending
    <3>1. [sending EXCEPT !.batch = B] \in Sending
      BY <1>1 DEF Sending
    <3>2. \A s \in Sending : [s EXCEPT !.succeeded = n] \in Sending
      BY DEF Sending
    <3> QED
      BY <3>1, <3>2
  <2>f. ASSUME NEW B \in SUBSET People, NEW F \in SUBSET People
        PROVE  [sending EXCEPT !.batch = B, !.failed = F] \in Sending
    <3>1. [sending EXCEPT !.batch = B] \in Sending
      BY <1>1 DEF Sending
    <3>2. \A s \in Sending : [s EXCEPT !.failed = F] \in Sending
      BY DEF Sending
    <3> QED
      BY <3>1, <3>2
  <2>g. /\ sending.batch \ {p} \in SUBSET People /\ sending.failed \cup {p} \in SUBSET People
        /\ sending.succeeded + 1 \in Nat
    BY <1>1 DEF Sending
  <2>d. [sending EXCEPT !.batch = @ \ {p}, !.succeeded = @ + 1] \in Sending
    BY <2>h, <2>g
  <2>e. [sending EXCEPT !.batch = @ \ {p}, !.failed = @ \cup {p}] \in Sending
    BY <2>f, <2>g
  <2>1. sending' \in Sending
    BY <2>a, <2>d, <2>e
  <2>b. told[j][p] + 1 \in Nat
    BY <1>1
  <2>c. told' = told \/ told' = [told EXCEPT ![j][p] = told[j][p] + 1]
    BY <1>6 DEF Mail
  <2>2. told' \in [JobNos -> [People -> Nat]]
    BY <1>1, <2>b, <2>c
  <2> QED
    BY <1>h, <1>6, <2>1, <2>2 DEF Mail, TypeOK
<1> QED
  BY <1>2, <1>3, <1>4, <1>5, <1>6 DEF JobStep

\* The process ends.
LEMMA RestartTyped ==
    ASSUME TypeOK, Restart
    PROVE  TypeOK'
<1>1. jobs' \in Seq(Job)
  <2>1. \A j \in DOMAIN jobs : jobs[j] \in Job
    BY DEF TypeOK
  <2>2. \A j \in DOMAIN jobs : AfterEnd(jobs[j]) \in Job
    BY <2>1 DEF AfterEnd, Job
  <2>3. DOMAIN jobs = 1..Len(jobs) /\ Len(jobs) \in Nat
    BY DEF TypeOK
  <2> QED
    BY <2>2, <2>3 DEF Restart
<1>2. task' \in [Requests -> Task]
  <2>1. \A r \in Requests : task[r] \in Task
    BY DEF TypeOK
  <2>2. \A t \in Task : [t EXCEPT !.pc = "failed"] \in Task
    BY DEF Task, Labels
  <2> QED
    BY <2>1, <2>2 DEF Restart
<1>3. sending' \in Sending
  BY DEF Restart, Quiet, Sending
<1>4. ASSUME NEW r \in Requests
      PROVE  Holding(r)'
  <2>1. task[r] \in Task
    BY DEF TypeOK
  <2>2. task'[r].pc \notin {"reload", "write"}
    BY <2>1 DEF Restart, Moving, Task
  <2> QED
    BY <2>2 DEF Holding, At
<1> QED
  BY <1>1, <1>2, <1>3, <1>4 DEF Restart, TypeOK

-----------------------------------------------------------------------------
(* what holds of the followers *)

\* A request is at a step only of its call; one that has looked and not yet
\* written knows of each row there is of its user.
Looked(r) ==
    /\ At(r, "check") \/ At(r, "follow") \/ At(r, "notify") => r \in DOMAIN cast.calls
    /\ At(r, "follow") =>
          /\ task[r].known <= Len(follows)
          /\ \A k \in DOMAIN follows :
                follows[k].follower = cast.calls[r].user => task[r].known < k

FollowInv == SecondFollowByOverlap /\ \A r \in Requests : Looked(r)

\* The steps that leave the followers alone move no request to their writing.
LEMMA FollowKept ==
    ASSUME TypeOK, FollowInv, TypeOK', UNCHANGED <<cast, follows>>,
           \A r \in Requests :
              /\ At(r, "check")' \/ At(r, "follow")' \/ At(r, "notify")' =>
                    At(r, "check") \/ At(r, "follow") \/ At(r, "notify") \/ r \in DOMAIN cast.calls
              /\ At(r, "follow")' => At(r, "follow") /\ task'[r].known = task[r].known
    PROVE  FollowInv'
  BY DEF FollowInv, SecondFollowByOverlap, Looked, At

\* A write moves its request only.
LEMMA WriteMoves ==
    ASSUME TypeOK, TypeOK', NEW r \in Requests, NEW after, NEW label, Write(r, after, label)
    PROVE  /\ \A q \in Requests :
                 /\ task'[q].pc = IF q = r THEN label ELSE task[q].pc
                 /\ task'[q].known = task[q].known
           /\ UNCHANGED <<cast, follows, jobs, sending, told, restarts>>
<1>1. \A q \in Requests : task[q] \in Task /\ task'[q] \in Task
  BY DEF TypeOK
<1>2. \A q \in Requests : Watch(after)[q].pc = task[q].pc /\ Watch(after)[q].known = task[q].known
  BY <1>1 DEF Watch, Task
<1>3. DOMAIN Watch(after) = Requests
  BY DEF Watch
<1> QED
  BY <1>1, <1>2, <1>3 DEF Write, Task

\* A step that writes is of no reader of lists.
LEMMA Writes ==
    ASSUME NEW r \in Requests, WriteStep(r)
    PROVE  /\ r \in DOMAIN cast.calls /\ ~Calls(r, "list") /\ At(r, "write")
           /\ \/ \E after, label : label \in {"done", "notify", "torn"} /\ Write(r, after, label)
              \/ /\ task' = [task EXCEPT ![r].pc = "failed"]
                 /\ UNCHANGED <<cast, clock, trades, follows, jobs, sending, told, restarts>>
<1>1. r \in DOMAIN cast.calls /\ ~Calls(r, "list")
  BY DEF WriteStep, Post, Edit, RemoveTrade, Cancel, CancelDuplicate, Copy, CopyMiss,
         SystemUpdate, Calls
<1>2. CASE CancelDuplicate(r) \/ CopyMiss(r)
  BY <1>1, <1>2 DEF CancelDuplicate, CopyMiss, Goto
<1>3. CASE ~(CancelDuplicate(r) \/ CopyMiss(r))
  <2>1. PICK after, label : label \in {"done", "notify", "torn"} /\ Write(r, after, label)
    <3>1. CASE Post(r)
      BY <3>1 DEF Post
    <3>2. CASE Edit(r)
      BY <3>2 DEF Edit
    <3>3. CASE Cancel(r)
      BY <3>3 DEF Cancel
    <3>4. CASE Copy(r)
      BY <3>4 DEF Copy
    <3>5. CASE RemoveTrade(r)
      BY <3>5 DEF RemoveTrade
    <3>6. CASE SystemUpdate(r)
      BY <3>6 DEF SystemUpdate
    <3> QED
      BY <1>3, <3>1, <3>2, <3>3, <3>4, <3>5, <3>6 DEF WriteStep
  <2> QED
    BY <1>1, <2>1 DEF Write
<1> QED
  BY <1>2, <1>3

\* The requests that write rows of trades, or find them, were called, and write
\* none of their follows.
LEMMA TradesMove ==
    ASSUME TypeOK, TypeOK', NEW r \in Requests, WriteStep(r)
    PROVE  /\ r \in DOMAIN cast.calls /\ At(r, "write")
           /\ \A q \in Requests :
                 /\ q # r => task'[q].pc = task[q].pc
                 /\ task'[q].known = task[q].known
           /\ task'[r].pc \in {"done", "notify", "torn", "failed"}
           /\ UNCHANGED <<cast, clock, follows, jobs, sending, told, restarts>>
<1>1. task \in [Requests -> Task]
  BY DEF TypeOK
<1>2. CASE task' = [task EXCEPT ![r].pc = "failed"] /\ UNCHANGED <<cast, clock, trades, follows, jobs, sending, told, restarts>>
  BY <1>1, <1>2, Writes DEF Task
<1>3. ASSUME NEW after, NEW label \in {"done", "notify", "torn"}, Write(r, after, label)
      PROVE  /\ \A q \in Requests :
                   /\ q # r => task'[q].pc = task[q].pc
                   /\ task'[q].known = task[q].known
             /\ task'[r].pc = label
             /\ UNCHANGED <<cast, clock, follows, jobs, sending, told, restarts>>
  <2>1. clock' = clock
    BY <1>3 DEF Write
  <2> QED
    BY <1>3, <2>1, WriteMoves
<1> QED
  BY <1>2, <1>3, Writes

\* Who finds a row moves alone.
LEMMA FindingMoves ==
    ASSUME TypeOK, NEW r \in Requests, Finding(r)
    PROVE  /\ r \in DOMAIN cast.calls
           /\ \A q \in Requests :
                 /\ q # r => task'[q] = task[q]
                 /\ task'[q].known = task[q].known
           /\ task'[r].pc \in {"reload", "write", "done"}
           /\ UNCHANGED <<cast, trades, follows, jobs, sending, told, restarts>>
<1>1. task \in [Requests -> Task] /\ task[r] \in Task
  BY DEF TypeOK
<1>2. ASSUME NEW found, NEW seen, Begins(r, [task[r] EXCEPT !.found = found, !.seen = seen])
      PROVE  /\ \A q \in Requests :
                   /\ q # r => task'[q] = task[q]
                   /\ task'[q].known = task[q].known
             /\ task'[r].pc = "write"
             /\ UNCHANGED <<cast, trades, follows, jobs, sending, told, restarts>>
  BY <1>1, <1>2 DEF Begins, Task
<1>3. CASE BeginWrite(r)
  <2>1. task[r] = [task[r] EXCEPT !.found = task[r].found, !.seen = task[r].seen]
    BY <1>1 DEF Task
  <2> QED
    <3>1. Begins(r, [task[r] EXCEPT !.found = task[r].found, !.seen = task[r].seen])
      BY <1>3, <2>1 DEF BeginWrite
    <3> QED
      BY <1>2, <1>3, <3>1 DEF BeginWrite, Calls
<1>4. CASE FindOwn(r)
  <2>1. PICK f : Begins(r, [task[r] EXCEPT !.found = f])
    BY <1>4 DEF FindOwn
  <2>2. [task[r] EXCEPT !.found = f] = [task[r] EXCEPT !.found = f, !.seen = task[r].seen]
    BY <1>1 DEF Task
  <2>3. Begins(r, [task[r] EXCEPT !.found = f, !.seen = task[r].seen])
    BY <2>1, <2>2
  <2>4. r \in DOMAIN cast.calls
    BY <1>4 DEF FindOwn, Calls
  <2> QED
    BY <1>2, <2>3, <2>4
<1>5. CASE FindLive(r)
  BY <1>1, <1>5 DEF FindLive, Calls, Task
<1>6. CASE Reload(r)
  <2>1. \A s : [task[r] EXCEPT !.seen = s] = [task[r] EXCEPT !.found = task[r].found, !.seen = s]
    BY <1>1 DEF Task
  <2>2. CASE task' = [task EXCEPT ![r].pc = "done"] /\ UNCHANGED <<cast, clock, trades, follows, jobs, sending, told, restarts>>
    BY <1>1, <1>6, <2>2 DEF Reload, Calls, Task
  <2>3. CASE Begins(r, [task[r] EXCEPT !.seen = trades[cast.calls[r].row]])
    <3>1. Begins(r, [task[r] EXCEPT !.found = task[r].found, !.seen = trades[cast.calls[r].row]])
      BY <2>1, <2>3
    <3>2. r \in DOMAIN cast.calls
      BY <1>6 DEF Reload, Calls
    <3> QED
      BY <1>2, <3>1, <3>2
  <2> QED
    BY <1>6, <2>2, <2>3 DEF Reload, Goto
<1> QED
  BY <1>3, <1>4, <1>5, <1>6 DEF Finding

\* Nor do the steps that read lists or queue jobs.
LEMMA ReadersMove ==
    ASSUME TypeOK, NEW r \in Requests,
           FindTrader(r) \/ BeginList(r) \/ QueueNotice(r) \/ ReadRows(r) \/ CountRows(r)
    PROVE  /\ \A q \in Requests :
                 /\ q # r => task'[q] = task[q]
                 /\ task'[q].known = task[q].known
           /\ task'[r].pc \in {"check", "failed", "rows", "count", "done"}
           /\ task'[r].pc = "check" => r \in DOMAIN cast.calls
           /\ UNCHANGED <<cast, follows, told, restarts>>
<1>1. task \in [Requests -> Task] /\ task[r] \in Task
  BY DEF TypeOK
<1>2. CASE FindTrader(r)
  BY <1>1, <1>2 DEF FindTrader, Calls, Goto, Task
<1>3. CASE BeginList(r)
  BY <1>1, <1>3 DEF BeginList, Task
<1>4. CASE QueueNotice(r)
  BY <1>1, <1>4 DEF QueueNotice, Goto, Task
<1>5. CASE ReadRows(r)
  <2>1. PICK got : task' = [task EXCEPT ![r].pc = "count", ![r].got = got]
    BY <1>5 DEF ReadRows
  <2> QED
    BY <1>1, <1>5, <2>1 DEF ReadRows, Task
<1>6. CASE CountRows(r)
  BY <1>1, <1>6 DEF CountRows, Task
<1> QED
  BY <1>2, <1>3, <1>4, <1>5, <1>6

\* At first nobody has looked, and the rows there are were written in turn.
LEMMA InitFollow == Init => FollowInv
<1> SUFFICES ASSUME Init PROVE FollowInv
  OBVIOUS
<1>1. \A r \in Requests : Looked(r)
  BY DEF Init, Idle, Looked, At
<1>2. cast \in Casts /\ follows = cast.follows
  BY DEF Init
<1>3. SecondFollowByOverlap
  <2> SUFFICES ASSUME NEW k \in DOMAIN follows, NEW l \in DOMAIN follows,
                      k < l, follows[k].follower = follows[l].follower
               PROVE  follows[l].known < k
    BY DEF SecondFollowByOverlap
  <2> QED
    BY <1>2, CommunityAssumption
<1> QED
  BY <1>1, <1>3 DEF FollowInv

\* A follow is written on what was looked up before.
LEMMA FollowStep ==
    ASSUME TypeOK, TypeOK', FollowInv, [Next]_cvars
    PROVE  FollowInv'
<1>1. task \in [Requests -> Task] /\ Len(follows) \in Nat /\ DOMAIN follows = 1..Len(follows)
  BY DEF TypeOK
<1>2. ASSUME NEW r \in Requests, FindFollow(r)
      PROVE  FollowInv'
  <2>1. \A q \in Requests : q # r => task'[q] = task[q]
    BY <1>1, <1>2 DEF FindFollow
  <2>2. UNCHANGED <<cast, follows>>
    BY <1>2 DEF FindFollow
  <2>3. /\ task'[r].pc = IF Following(cast.calls[r].user) THEN "failed" ELSE "follow"
        /\ task'[r].known = Len(follows)
    BY <1>1, <1>2 DEF FindFollow, Task
  <2>4. Looked(r)'
    BY <1>1, <1>2, <2>2, <2>3 DEF FollowInv, Looked, At, FindFollow, Following
  <2>5. ASSUME NEW q \in Requests, q # r
        PROVE  Looked(q)'
    BY <2>1, <2>2, <2>5 DEF FollowInv, Looked, At
  <2>6. SecondFollowByOverlap'
    BY <2>2 DEF FollowInv, SecondFollowByOverlap
  <2> QED
    BY <2>4, <2>5, <2>6 DEF FollowInv
<1>3. ASSUME NEW r \in Requests, SaveFollow(r)
      PROVE  FollowInv'
  <2> DEFINE row == [follower |-> cast.calls[r].user, known |-> task[r].known]
             n == Len(follows) + 1
  <2>1. /\ follows' = Append(follows, row) /\ cast' = cast
        /\ task' = [task EXCEPT ![r].pc = "done"]
    BY <1>3 DEF SaveFollow, Goto
  <2>2. /\ DOMAIN follows' = 1..n /\ Len(follows') = n
        /\ \A k \in 1..Len(follows) : follows'[k] = follows[k]
        /\ follows'[n] = row
    BY <2>1 DEF TypeOK
  <2>3. /\ task[r].known \in Nat
        /\ \A k \in 1..Len(follows) : follows[k].follower = cast.calls[r].user => task[r].known < k
    BY <1>1, <1>3 DEF FollowInv, Looked, SaveFollow, Task
  <2>4. \A k \in 1..Len(follows) : follows[k].follower = row.follower => row.known < k
    BY <2>3
  <2>5. SecondFollowByOverlap'
    <3> SUFFICES ASSUME NEW k \in 1..n, NEW l \in 1..n,
                        k < l, follows'[k].follower = follows'[l].follower
                 PROVE  follows'[l].known < k
      BY <2>2 DEF SecondFollowByOverlap
    <3>1. k \in 1..Len(follows)
      BY <1>1
    <3>2. CASE l \in 1..Len(follows)
      BY <1>1, <2>2, <3>1, <3>2 DEF FollowInv, SecondFollowByOverlap
    <3>3. CASE l = n
      BY <2>2, <2>4, <3>1, <3>3
    <3> QED
      BY <1>1, <3>2, <3>3
  <2>6. ASSUME NEW q \in Requests
        PROVE  Looked(q)'
    <3>1. Looked(q) /\ task[q].known \in Nat
      BY <1>1 DEF FollowInv, Task
    <3>2. CASE q = r
      <4>1. task'[q].pc = "done"
        BY <1>1, <2>1, <3>2 DEF Task
      <4> QED
        BY <4>1 DEF Looked, At
    <3>3. CASE q # r
      <4>1. task'[q] = task[q]
        BY <1>1, <2>1, <3>3
      <4>2. ASSUME At(q, "follow")
            PROVE  \A k \in 1..n : follows'[k].follower = cast.calls[q].user => task[q].known < k
        BY <1>1, <2>2, <3>1, <4>2 DEF Looked
      <4> QED
        BY <1>1, <2>1, <2>2, <3>1, <4>1, <4>2 DEF Looked, At
    <3> QED
      BY <3>2, <3>3
  <2> QED
    BY <2>5, <2>6 DEF FollowInv
<1>4. ASSUME NEW r \in Requests,
             FindTrader(r) \/ BeginList(r) \/ QueueNotice(r) \/ ReadRows(r) \/ CountRows(r)
      PROVE  FollowInv'
  BY <1>4, ReadersMove, FollowKept DEF At
<1>5. ASSUME NEW r \in Requests, WriteStep(r)
      PROVE  FollowInv'
  BY <1>5, TradesMove, FollowKept DEF At
<1>9. ASSUME NEW r \in Requests, Finding(r)
      PROVE  FollowInv'
  BY <1>9, FindingMoves, FollowKept DEF At
<1>6. ASSUME NEW j \in JobNos, JobStep(j)
      PROVE  FollowInv'
  <2>1. UNCHANGED <<cast, follows, task>>
    BY <1>6 DEF JobStep, TakeNotice, ReadTrade, NextBatch, EndNotice, Mail
  <2> QED
    BY <2>1, FollowKept DEF At
<1>7. CASE Restart
  <2>1. UNCHANGED <<cast, follows>>
    BY <1>7 DEF Restart
  <2>2. \A r \in Requests : task'[r].pc \notin Moving
    BY <1>1, <1>7 DEF Restart, Moving, Task
  <2> QED
    BY <2>1, <2>2, FollowKept DEF At, Moving
<1>8. CASE Tick \/ UNCHANGED cvars
  <2>1. UNCHANGED <<cast, follows, task>>
    BY <1>8 DEF Tick, cvars
  <2> QED
    BY <2>1, FollowKept DEF At
<1> QED
  BY <1>2, <1>3, <1>4, <1>5, <1>6, <1>7, <1>8, <1>9 DEF Next, RequestStep, Finding

-----------------------------------------------------------------------------
(* what holds of the notices *)

\* The reader p of the notice j is still to be tried.
Waits(p) == p \in sending.batch \cup sending.todo

Tries(j) == j \in Running /\ sending.at = "mails"
Ended(j) == j \in DOMAIN jobs /\ jobs[j].state = "done"

\* The parts of a notice are apart and add up.
Sorted ==
    /\ sending.batch \cap sending.todo = {}
    /\ sending.failed \cap (sending.batch \cup sending.todo) = {}
    /\ sending.at # "mails" => sending.batch = {}
    /\ sending.total =
          sending.succeeded + Cardinality(sending.failed \cup sending.batch \cup sending.todo)

\* One job is taken at a time.
Single ==
    /\ \A j \in DOMAIN jobs : jobs[j].state # "pending" => j \in JobNos
    /\ \A j, l \in Running : j = l
    /\ \A j \in Running : sending.at \in {"trade", "mails"}

\* A mail beyond one for each restart is of the present run, and its reader is
\* not to be tried again in it.
Counted ==
    \A j \in JobNos, p \in People :
        /\ told[j][p] <= 1 + restarts
        /\ told[j][p] > restarts => Ended(j) \/ (Tries(j) /\ ~Waits(p))

\* Where mails do not fail, a reader has been told or is still to be.
Reached ==
    "mail" \notin cast.faults =>
        \A j \in DOMAIN jobs, p \in People :
            p \in jobs[j].readers =>
                /\ jobs[j].state = "done" => told[j][p] >= 1
                /\ jobs[j].state = "running" => Waits(p) \/ told[j][p] >= 1

NoticeInv == Sorted /\ Single /\ Counted /\ Reached

\* At first there are no notices.
LEMMA InitNotice == Init => NoticeInv
<1> SUFFICES ASSUME Init PROVE NoticeInv
  OBVIOUS
<1>1. Sorted
  <2>1. Cardinality({}) = 0
    BY FS_EmptySet
  <2> QED
    BY <2>1 DEF Init, Quiet, Sorted
<1>2. Single /\ Reached
  BY DEF Init, Single, Running, Reached
<1>3. Counted
  BY DEF Init, Counted
<1> QED
  BY <1>1, <1>2, <1>3 DEF NoticeInv

\* The steps of requests other than queueing leave the notices alone.
LEMMA NoticeKept ==
    ASSUME NoticeInv, UNCHANGED <<cast, jobs, sending, told, restarts>>
    PROVE  NoticeInv'
  BY DEF NoticeInv, Sorted, Single, Counted, Reached, Waits, Tries, Ended, Running

\* A job that is queued waits.
LEMMA QueueNoticeKeeps ==
    ASSUME TypeOK, NoticeInv, NEW r \in Requests, QueueNotice(r)
    PROVE  NoticeInv'
<1>1. PICK job : job.state = "pending" /\ job.readers = {} /\ jobs' = Append(jobs, job)
  BY DEF QueueNotice
<1>2. UNCHANGED <<cast, sending, told, restarts>>
  BY DEF QueueNotice
<1> DEFINE n == Len(jobs) + 1
<1>3. /\ Len(jobs) \in Nat /\ DOMAIN jobs = 1..Len(jobs)
      /\ DOMAIN jobs' = 1..n
      /\ \A j \in DOMAIN jobs : jobs'[j] = jobs[j]
      /\ jobs'[n] = job
  BY <1>1 DEF TypeOK
<1>4. /\ DOMAIN jobs \subseteq DOMAIN jobs'
      /\ \A j \in DOMAIN jobs' : j \in DOMAIN jobs \/ jobs'[j].state = "pending"
      /\ \A j \in DOMAIN jobs' : j \in DOMAIN jobs \/ jobs'[j].readers = {}
  BY <1>1, <1>3
<1>5. Running' = Running
  BY <1>3, <1>4 DEF Running
<1>6. Sorted' /\ Single'
  BY <1>2, <1>3, <1>4, <1>5 DEF NoticeInv, Sorted, Single
<1>7. Counted'
  BY <1>2, <1>3, <1>4, <1>5 DEF NoticeInv, Counted, Ended, Tries, Waits
<1>8. Reached'
  BY <1>2, <1>3, <1>4 DEF NoticeInv, Reached, Waits
<1> QED
  BY <1>6, <1>7, <1>8 DEF NoticeInv

\* A job that is taken was told nobody in this run.
LEMMA TakeNoticeKeeps ==
    ASSUME TypeOK, NoticeInv, NEW j \in JobNos, TakeNotice(j)
    PROVE  NoticeInv'
<1> DEFINE state == IF Readers = {} THEN "done" ELSE "running"
<1>1. /\ Running = {} /\ j \in DOMAIN jobs /\ jobs[j].state = "pending"
      /\ UNCHANGED <<cast, told, restarts>>
  BY DEF TakeNotice
<1>2. /\ DOMAIN jobs' = DOMAIN jobs
      /\ \A l \in DOMAIN jobs : l # j => jobs'[l] = jobs[l]
      /\ jobs'[j].state = state /\ jobs'[j].readers = Readers
  <2>1. jobs \in Seq(Job) /\ j \in DOMAIN jobs
    BY <1>1 DEF TypeOK
  <2>2. jobs[j] \in Job
    BY <2>1
  <2>3. jobs' = [jobs EXCEPT ![j].state = state, ![j].readers = Readers]
    BY DEF TakeNotice
  <2> QED
    BY <2>1, <2>2, <2>3 DEF Job
<1>3. /\ sending'.todo = Readers /\ sending'.total = Cardinality(Readers)
      /\ sending'.batch = {} /\ sending'.failed = {} /\ sending'.succeeded = 0
      /\ sending'.at = IF Readers = {} THEN "idle" ELSE "trade"
  BY DEF TakeNotice, Quiet
<1>4. Running' = IF Readers = {} THEN {} ELSE {j}
  BY <1>1, <1>2 DEF Running
<1>5. Sorted'
  <2>1. {} \cup {} \cup Readers = Readers /\ Cardinality(Readers) \in Nat
    BY ReadersType, FiniteParts
  <2> QED
    BY <1>3, <2>1 DEF Sorted
<1>6. Single'
  BY <1>2, <1>3, <1>4 DEF NoticeInv, Single
<1>7. Counted'
  <2>1. \A l \in JobNos, p \in People : told[l][p] > restarts => Ended(l)
    BY <1>1 DEF NoticeInv, Counted, Tries
  <2>2. \A l : Ended(l) => Ended(l)'
    BY <1>1, <1>2 DEF Ended
  <2> QED
    BY <1>1, <2>1, <2>2 DEF NoticeInv, Counted
<1>8. Reached'
  <2>1. ASSUME NEW l \in DOMAIN jobs, l # j
        PROVE  jobs'[l] = jobs[l] /\ jobs[l].state # "running"
    BY <1>1, <1>2, <2>1 DEF Running
  <2>2. ASSUME NEW p \in People, p \in jobs'[j].readers
        PROVE  jobs'[j].state = "running" /\ Waits(p)'
    BY <1>2, <1>3, <2>2 DEF Waits
  <2> QED
    BY <1>1, <1>2, <2>1, <2>2 DEF NoticeInv, Reached
<1> QED
  BY <1>5, <1>6, <1>7, <1>8 DEF NoticeInv

\* The present job ends, all of it or none being done.
LEMMA EndKeeps ==
    ASSUME TypeOK, NoticeInv, NEW j \in Running, Sorted', UNCHANGED <<cast, told, restarts>>,
           NEW readers, readers \subseteq jobs[j].readers,
           jobs' = [jobs EXCEPT ![j] = [@ EXCEPT !.state = "done", !.readers = readers]],
           "mail" \notin cast.faults => \A p \in readers : told[j][p] >= 1
    PROVE  NoticeInv'
<1>1. /\ DOMAIN jobs' = DOMAIN jobs
      /\ \A l \in DOMAIN jobs : l # j => jobs'[l] = jobs[l]
      /\ jobs'[j].state = "done" /\ jobs'[j].readers = readers
  <2>1. j \in DOMAIN jobs /\ jobs \in Seq(Job)
    BY DEF Running, TypeOK
  <2>2. jobs[j] \in Job
    BY <2>1
  <2> QED
    BY <2>1, <2>2 DEF Job
<1>2. Running' = {}
  BY <1>1 DEF NoticeInv, Single, Running
<1>3. Single'
  <2>1. jobs[j].state # "pending"
    BY DEF Running
  <2> QED
    BY <1>1, <1>2, <2>1 DEF NoticeInv, Single, Running
<1>4. Counted'
  <2>1. ASSUME NEW l \in JobNos, Ended(l) \/ Tries(l)
        PROVE  Ended(l)'
    BY <1>1, <2>1 DEF Ended, Tries, NoticeInv, Single, Running
  <2> QED
    BY <2>1 DEF NoticeInv, Counted
<1>5. Reached'
  <2>1. \A l \in DOMAIN jobs : l # j => jobs[l].state # "running"
    BY DEF NoticeInv, Single, Running
  <2> QED
    BY <1>1, <2>1 DEF NoticeInv, Reached
<1> QED
  BY <1>3, <1>4, <1>5 DEF NoticeInv

\* The trade is read before the first mail; the job ends if it is gone.
LEMMA ReadTradeKeeps ==
    ASSUME TypeOK, NoticeInv, NEW j \in JobNos, ReadTrade(j)
    PROVE  NoticeInv'
<1>1. j \in Running /\ sending.at = "trade" /\ UNCHANGED <<cast, told, restarts>>
  BY DEF ReadTrade
<1>2. j \in DOMAIN jobs /\ jobs[j] \in Job
  BY <1>1 DEF Running, TypeOK
<1>3. CASE trades[jobs[j].row] = Nothing
  <2>1. sending' = Quiet /\ jobs' = [jobs EXCEPT ![j].state = "done", ![j].readers = {}]
    BY <1>3 DEF ReadTrade
  <2>2. jobs' = [jobs EXCEPT ![j] = [@ EXCEPT !.state = "done", !.readers = {}]]
    BY <1>2, <2>1 DEF TypeOK
  <2>3. Sorted'
    BY <2>1, FS_EmptySet DEF Sorted, Quiet
  <2> DEFINE readers == {}
  <2>4. readers \subseteq jobs[j].readers /\ \A p \in readers : told[j][p] >= 1
    OBVIOUS
  <2>5. jobs' = [jobs EXCEPT ![j] = [@ EXCEPT !.state = "done", !.readers = readers]]
    BY <2>2
  <2> HIDE DEF readers
  <2> QED
    BY <1>1, <2>3, <2>4, <2>5, EndKeeps
<1>4. CASE trades[jobs[j].row] # Nothing
  <2>1. jobs' = jobs /\ sending' = [sending EXCEPT !.at = "mails"]
    BY <1>4 DEF ReadTrade
  <2>2. /\ sending'.at = "mails" /\ sending'.todo = sending.todo /\ sending'.batch = sending.batch
        /\ sending'.failed = sending.failed /\ sending'.total = sending.total
        /\ sending'.succeeded = sending.succeeded
    BY <2>1 DEF TypeOK, Sending
  <2>3. Sorted' /\ Single' /\ Reached'
    BY <1>1, <2>1, <2>2 DEF NoticeInv, Sorted, Single, Reached, Running, Waits
  <2>4. Counted'
    BY <1>1, <2>1, <2>2 DEF NoticeInv, Counted, Ended, Tries, Running, Waits
  <2> QED
    BY <2>3, <2>4 DEF NoticeInv
<1> QED
  BY <1>3, <1>4

\* A batch is only moved.
LEMMA NextBatchKeeps ==
    ASSUME TypeOK, NoticeInv, NEW j \in JobNos, NextBatch(j)
    PROVE  NoticeInv'
<1>1. /\ sending.at = "mails" /\ sending.batch = {} /\ UNCHANGED <<cast, jobs, told, restarts>>
  BY DEF NextBatch
<1>2. PICK batch \in SUBSET sending.todo :
          sending' = [sending EXCEPT !.batch = batch, !.todo = @ \ batch]
  BY DEF NextBatch
<1>3. /\ sending'.batch = batch /\ sending'.todo = sending.todo \ batch
      /\ sending'.failed = sending.failed /\ sending'.total = sending.total
      /\ sending'.succeeded = sending.succeeded /\ sending'.at = sending.at
  BY <1>2 DEF TypeOK, Sending
<1>4. sending'.batch \cup sending'.todo = sending.batch \cup sending.todo
  BY <1>1, <1>3
<1>5. Sorted'
  <2>1. sending'.failed \cup sending'.batch \cup sending'.todo =
        sending.failed \cup sending.batch \cup sending.todo
    BY <1>3, <1>4
  <2> QED
    BY <1>1, <1>3, <1>4, <2>1 DEF NoticeInv, Sorted
<1>6. \A p : Waits(p)' <=> Waits(p)
  BY <1>4 DEF Waits
<1>7. Single' /\ Counted' /\ Reached'
  BY <1>1, <1>3, <1>6 DEF NoticeInv, Single, Counted, Reached, Ended, Tries, Running
<1> QED
  BY <1>5, <1>7 DEF NoticeInv

\* A mail takes its reader off the batch, and counts him once.
LEMMA MailKeeps ==
    ASSUME TypeOK, NoticeInv, NEW j \in JobNos, NEW p \in People, Mail(j, p)
    PROVE  NoticeInv'
<1> DEFINE open == sending.failed \cup sending.batch \cup sending.todo
<1>1. /\ j \in Running /\ p \in sending.batch /\ sending \in Sending
      /\ UNCHANGED <<cast, jobs, restarts>>
  BY DEF Mail, TypeOK
<1>2. sending.at = "mails" /\ p \in open /\ p \notin sending.todo /\ p \notin sending.failed
  BY <1>1 DEF NoticeInv, Sorted
<1>3. IsFiniteSet(open) /\ Cardinality(open) \in Nat
  BY <1>1, FiniteParts DEF Sending
<1>4. Running' = Running /\ \A l \in Running : l = j
  BY <1>1 DEF NoticeInv, Single, Running
<1>5. told[j][p] <= restarts /\ restarts \in Nat /\ told \in [JobNos -> [People -> Nat]]
  <2>1. restarts \in Nat /\ told \in [JobNos -> [People -> Nat]] /\ told[j][p] \in Nat
    BY DEF TypeOK
  <2> QED
    BY <1>1, <1>4, <2>1 DEF NoticeInv, Counted, Ended, Waits, Running
<1>6. CASE /\ sending' = [sending EXCEPT !.batch = @ \ {p}, !.succeeded = @ + 1]
           /\ told' = [told EXCEPT ![j][p] = @ + 1]
  <2>1. /\ sending'.batch = sending.batch \ {p} /\ sending'.succeeded = sending.succeeded + 1
        /\ sending'.todo = sending.todo /\ sending'.failed = sending.failed
        /\ sending'.total = sending.total /\ sending'.at = sending.at
    BY <1>1, <1>6 DEF Sending
  <2>2. /\ \A l \in JobNos, q \in People :
              told'[l][q] = IF l = j /\ q = p THEN told[l][q] + 1 ELSE told[l][q]
    BY <1>5, <1>6
  <2>3. Sorted'
    <3>1. sending'.failed \cup sending'.batch \cup sending'.todo = open \ {p}
      BY <1>2, <2>1
    <3>2. Cardinality(open \ {p}) = Cardinality(open) - 1
      BY <1>2, <1>3, FS_RemoveElement
    <3>3. sending.total = sending.succeeded + Cardinality(open) /\ sending.succeeded \in Nat
      BY <1>1 DEF NoticeInv, Sorted, Sending
    <3>4. sending'.total = sending'.succeeded + (Cardinality(open) - 1)
      <4> HIDE DEF open
      <4> QED
        BY <1>3, <2>1, <3>3
    <3>5. sending'.total = sending'.succeeded
                             + Cardinality(sending'.failed \cup sending'.batch \cup sending'.todo)
      BY <3>1, <3>2, <3>4
    <3> QED
      BY <1>2, <2>1, <3>5 DEF NoticeInv, Sorted
  <2>4. Single'
    BY <1>1, <1>4, <2>1 DEF NoticeInv, Single
  <2>5. Counted'
    <3> SUFFICES ASSUME NEW l \in JobNos, NEW q \in People
                 PROVE  /\ told'[l][q] <= 1 + restarts
                        /\ told'[l][q] > restarts => Ended(l)' \/ (Tries(l)' /\ ~Waits(q)')
      BY <1>1 DEF Counted
    <3>1. CASE l = j /\ q = p
      BY <1>1, <1>2, <1>4, <1>5, <2>1, <2>2, <3>1 DEF Tries, Waits
    <3>2. CASE ~(l = j /\ q = p)
      BY <1>1, <1>4, <2>1, <2>2, <3>2 DEF NoticeInv, Counted, Ended, Tries, Waits
    <3> QED
      BY <3>1, <3>2
  <2>6. Reached'
    <3> SUFFICES ASSUME "mail" \notin cast.faults, NEW l \in DOMAIN jobs, NEW q \in People,
                        q \in jobs[l].readers
                 PROVE  /\ jobs[l].state = "done" => told'[l][q] >= 1
                        /\ jobs[l].state = "running" => Waits(q)' \/ told'[l][q] >= 1
      BY <1>1 DEF Reached
    <3>1. jobs[l].state # "pending" =>
             l \in JobNos /\ told[l][q] \in Nat /\ told'[l][q] \in Nat /\ told'[l][q] >= told[l][q]
      BY <1>5, <2>2 DEF NoticeInv, Single
    <3>2. jobs[l].state = "done" => told'[l][q] >= 1
      BY <3>1 DEF NoticeInv, Reached
    <3>3. ASSUME jobs[l].state = "running"
          PROVE  Waits(q)' \/ told'[l][q] >= 1
      <4>1. l = j /\ l \in JobNos
        BY <1>4, <3>1, <3>3 DEF Running
      <4>2. CASE q = p
        BY <1>5, <2>2, <4>1, <4>2
      <4>3. CASE q # p
        BY <2>1, <3>1, <3>3, <4>3 DEF NoticeInv, Reached, Waits
      <4> QED
        BY <4>2, <4>3
    <3> QED
      BY <3>2, <3>3
  <2> QED
    BY <2>3, <2>4, <2>5, <2>6 DEF NoticeInv
<1>7. CASE "mail" \in cast.faults /\ MailFails(p) /\ told' = told
  <2>1. /\ sending'.batch = sending.batch \ {p} /\ sending'.failed = sending.failed \cup {p}
        /\ sending'.todo = sending.todo /\ sending'.succeeded = sending.succeeded
        /\ sending'.total = sending.total /\ sending'.at = sending.at
    BY <1>1, <1>7 DEF MailFails, Sending
  <2>2. sending'.failed \cup sending'.batch \cup sending'.todo = open
    BY <1>1, <2>1
  <2>3. Sorted'
    BY <1>2, <2>1, <2>2 DEF NoticeInv, Sorted
  <2>4. Single'
    BY <1>1, <1>4, <2>1 DEF NoticeInv, Single
  <2>5. Counted'
    BY <1>1, <1>4, <1>7, <2>1 DEF NoticeInv, Counted, Ended, Tries, Waits
  <2>6. Reached'
    BY <1>1, <1>7 DEF Reached
  <2> QED
    BY <2>3, <2>4, <2>5, <2>6 DEF NoticeInv
<1> QED
  BY <1>6, <1>7 DEF Mail

\* A job ends when nobody is left to be tried.
LEMMA EndNoticeKeeps ==
    ASSUME TypeOK, NoticeInv, NEW j \in JobNos, EndNotice(j)
    PROVE  NoticeInv'
<1>1. /\ j \in Running /\ sending.batch = {} /\ sending.todo = {}
      /\ sending' = [sending EXCEPT !.at = "idle"] /\ UNCHANGED <<cast, told, restarts>>
  BY DEF EndNotice
<1>2. j \in DOMAIN jobs /\ jobs[j] \in Job
  BY <1>1 DEF Running, TypeOK
<1> DEFINE readers == jobs[j].readers
<1>3. jobs' = [jobs EXCEPT ![j] = [@ EXCEPT !.state = "done", !.readers = readers]]
  <2>1. jobs' = [jobs EXCEPT ![j] = [@ EXCEPT !.state = "done"]]
    BY <1>2 DEF EndNotice, TypeOK
  <2>2. [jobs[j] EXCEPT !.state = "done", !.readers = readers] = [jobs[j] EXCEPT !.state = "done"]
    BY <1>2 DEF Job
  <2> QED
    BY <2>1, <2>2
<1>4. Sorted'
  BY <1>1 DEF NoticeInv, Sorted, TypeOK, Sending
<1>5. "mail" \notin cast.faults => \A p \in readers : told[j][p] >= 1
  BY <1>1, <1>2 DEF NoticeInv, Reached, Waits, Running, Job
<1>6. readers \subseteq jobs[j].readers
  OBVIOUS
<1> HIDE DEF readers
<1> QED
  BY <1>1, <1>3, <1>4, <1>5, <1>6, EndKeeps

\* After a restart all that was told may be told once more.
LEMMA RestartKeeps ==
    ASSUME TypeOK, NoticeInv, Restart
    PROVE  NoticeInv'
<1>1. sending' = Quiet /\ restarts' = restarts + 1 /\ UNCHANGED <<cast, told>>
  BY DEF Restart
<1>2. /\ DOMAIN jobs' = DOMAIN jobs
      /\ \A j \in DOMAIN jobs : jobs'[j] = AfterEnd(jobs[j])
  BY DEF Restart
<1>3. ASSUME NEW j \in DOMAIN jobs
      PROVE  /\ jobs'[j].readers = jobs[j].readers
             /\ jobs'[j].state # "running"
             /\ jobs'[j].state # "pending" => jobs'[j].state = jobs[j].state
  <2>1. jobs[j] \in Job
    BY DEF TypeOK
  <2> QED
    BY <1>2, <2>1 DEF AfterEnd, Job
<1>4. Sorted'
  BY <1>1, FS_EmptySet DEF Sorted, Quiet
<1>5. Single'
  BY <1>2, <1>3 DEF NoticeInv, Single, Running
<1>6. Counted'
  <2>1. ASSUME NEW j \in JobNos, NEW p \in People
        PROVE  told[j][p] <= 1 + restarts /\ told[j][p] \in Nat /\ restarts \in Nat
    BY DEF NoticeInv, Counted, TypeOK
  <2> QED
    BY <1>1, <2>1 DEF Counted
<1>7. Reached'
  BY <1>1, <1>2, <1>3 DEF NoticeInv, Reached
<1> QED
  BY <1>4, <1>5, <1>6, <1>7 DEF NoticeInv

\* Every step keeps what holds of the notices.
LEMMA NoticeStep ==
    ASSUME TypeOK, TypeOK', NoticeInv, [Next]_cvars
    PROVE  NoticeInv'
<1>1. ASSUME NEW r \in Requests, WriteStep(r) \/ Finding(r)
      PROVE  NoticeInv'
  BY <1>1, TradesMove, FindingMoves, NoticeKept
<1>2. ASSUME NEW r \in Requests, QueueNotice(r)
      PROVE  NoticeInv'
  BY <1>2, QueueNoticeKeeps
<1>3. ASSUME NEW r \in Requests,
             \/ FindTrader(r) \/ BeginList(r) \/ FindFollow(r) \/ SaveFollow(r)
             \/ ReadRows(r) \/ CountRows(r)
      PROVE  NoticeInv'
  <2>1. UNCHANGED <<cast, jobs, sending, told, restarts>>
    BY <1>3 DEF FindTrader, BeginList, FindFollow, SaveFollow, ReadRows, CountRows
  <2> QED
    BY <2>1, NoticeKept
<1>4. ASSUME NEW j \in JobNos, JobStep(j)
      PROVE  NoticeInv'
  BY <1>4, TakeNoticeKeeps, ReadTradeKeeps, NextBatchKeeps, EndNoticeKeeps, MailKeeps DEF JobStep
<1>5. CASE Restart
  BY <1>5, RestartKeeps
<1>6. CASE Tick \/ UNCHANGED cvars
  <2>1. UNCHANGED <<cast, jobs, sending, told, restarts>>
    BY <1>6 DEF Tick, cvars
  <2> QED
    BY <2>1, NoticeKept
<1> QED
  BY <1>1, <1>2, <1>3, <1>4, <1>5, <1>6 DEF Next, RequestStep, Finding
-----------------------------------------------------------------------------
IInv == TypeOK /\ FollowInv /\ NoticeInv

\* Every step keeps the types.
LEMMA TypeStep ==
    ASSUME TypeOK, FollowInv, [Next]_cvars
    PROVE  TypeOK'
<1>1. ASSUME NEW r \in Requests, WriteStep(r) \/ Finding(r)
      PROVE  TypeOK'
  BY <1>1, TradesTyped, FindingTyped
<1>2. ASSUME NEW r \in Requests,
             \/ FindTrader(r) \/ BeginList(r) \/ FindFollow(r) \/ SaveFollow(r)
             \/ QueueNotice(r) \/ ReadRows(r) \/ CountRows(r)
      PROVE  TypeOK'
  BY <1>2, RequestsTyped DEF FollowInv, Looked
<1>3. ASSUME NEW j \in JobNos, JobStep(j)
      PROVE  TypeOK'
  BY <1>3, JobsTyped
<1>4. CASE Restart
  BY <1>4, RestartTyped
<1>5. CASE Tick \/ UNCHANGED cvars
  <2>1. \A r \in Requests : Holding(r)'
    BY <1>5, Held DEF Tick, cvars, Keeps
  <2> QED
    BY <1>5, <2>1 DEF Tick, cvars, TypeOK
<1> QED
  BY <1>1, <1>2, <1>3, <1>4, <1>5 DEF Next, RequestStep, Finding

\* The invariant is inductive.
LEMMA Inductive == Spec => []IInv
<1>1. Init => IInv
  BY InitTypes, InitFollow, InitNotice DEF IInv
<1>2. IInv /\ [Next]_cvars => IInv'
  BY TypeStep, FollowStep, NoticeStep DEF IInv
<1> QED
  BY <1>1, <1>2, PTL DEF Spec

\* The tables, the queues and the steps of the requests keep their types
\* (trade.community.service.ts, mail.processor.ts), whatever requests come.
THEOREM TypeCorrect == Spec => []TypeOK
<1>1. IInv => TypeOK
  BY DEF IInv
<1> QED
  BY <1>1, Inductive, PTL

\* TradeCommunity.followTrader writes a second row of one follower only when
\* it has looked for one before the first was written.
THEOREM SecondFollowsOverlap == Spec => []SecondFollowByOverlap
<1>1. IInv => SecondFollowByOverlap
  BY DEF IInv, FollowInv
<1> QED
  BY <1>1, Inductive, PTL

\* The worker of the notices tries each reader once in a run of its job, its
\* counts add up, and where no mail fails a job that is done has told all.
THEOREM NoticesExact == Spec => []NoticeIsExact
<1>1. IInv => NoticeIsExact
  <2> SUFFICES ASSUME IInv PROVE NoticeIsExact
    OBVIOUS
  <2>1. \A j \in JobNos, p \in People : told[j][p] <= 1 + restarts
    BY DEF IInv, NoticeInv, Counted
  <2>2. sending.total = sending.succeeded
                          + Cardinality(sending.failed \cup sending.batch \cup sending.todo)
    BY DEF IInv, NoticeInv, Sorted
  <2>3. ASSUME NEW j \in DOMAIN jobs, jobs[j].state = "done", "mail" \notin cast.faults,
               NEW p \in jobs[j].readers
        PROVE  told[j][p] >= 1
    <3>1. jobs[j] \in Job
      BY DEF IInv, TypeOK
    <3>2. p \in People
      BY <3>1 DEF Job
    <3> QED
      BY <2>3, <3>2 DEF IInv, NoticeInv, Reached
  <2> QED
    BY <2>1, <2>2, <2>3 DEF NoticeIsExact
<1> QED
  BY <1>1, Inductive, PTL
-----------------------------------------------------------------------------
(* lists read page by page *)

\* The rows of a list that come before one of it.
Ahead(r, x) == {y \in ListedBy(r) : trades[y].updatedAt > trades[x].updatedAt}

\* How many places of the list have been read.
Read(r) == IF At(r, "rows") THEN (task[r].page - 1) * PageSize ELSE task[r].page * PageSize

\* The rows that should have been seen and were not.
Skipped(r) == {x \in task[r].stood \ task[r].got : Cardinality(Ahead(r, x)) < Read(r)}

\* What stands is on the list, and has a time of its own.
Standing(r) ==
    /\ task[r].stood \subseteq ListedBy(r)
    /\ \A x \in task[r].stood, y \in ListedBy(r) : x # y => trades[y].updatedAt # trades[x].updatedAt

\* A reader has skipped no more than have left.
Paged(r) ==
    /\ At(r, "rows") \/ At(r, "count") =>
          /\ Calls(r, "list") /\ task[r].page >= 1
          /\ Standing(r) /\ Cardinality(Skipped(r)) <= task[r].left
    /\ Calls(r, "list") => task[r].pc \in {"idle", "rows", "count", "done", "failed"}
    /\ Calls(r, "list") /\ At(r, "idle") => task[r].page = 1
    /\ Calls(r, "list") /\ At(r, "done") => Cardinality(task[r].stood \ task[r].got) <= task[r].left

PageInv == \A r \in Requests : Paged(r)

\* The times and the listed rows.
LEMMA ListTypes ==
    ASSUME TypeOK, NEW r \in Requests
    PROVE  /\ ListedBy(r) \in SUBSET Ids
           /\ \A x \in ListedBy(r) : trades[x] \in Row /\ trades[x].updatedAt \in Nat
           /\ \A x : Ahead(r, x) \in SUBSET ListedBy(r) /\ Cardinality(Ahead(r, x)) \in Nat
           /\ task[r] \in Task /\ task[r].page \in Nat /\ task[r].left \in Nat
           /\ Read(r) \in Int
           /\ Skipped(r) \in SUBSET Ids
<1>1. ListedBy(r) \in SUBSET Ids /\ \A x \in ListedBy(r) : trades[x] \in Row
  BY DEF ListedBy, Listed, TypeOK
<1>2. \A x : Ahead(r, x) \in SUBSET ListedBy(r) /\ Cardinality(Ahead(r, x)) \in Nat
  BY <1>1, FiniteParts DEF Ahead
<1>3. task[r] \in Task /\ task[r].page \in Nat /\ task[r].left \in Nat /\ task[r].stood \in SUBSET Ids
  BY DEF TypeOK, Task
<1>4. Read(r) \in Int
  <2>1. PageSize \in Int /\ task[r].page \in Int /\ task[r].page - 1 \in Int
    BY <1>3, CommunityAssumption
  <2> QED
    BY <2>1 DEF Read
<1>5. Skipped(r) \in SUBSET Ids
  BY <1>3 DEF Skipped
<1>6. \A x \in ListedBy(r) : trades[x].updatedAt \in Nat
  BY <1>1 DEF Row
<1> QED
  BY <1>1, <1>2, <1>3, <1>4, <1>5, <1>6

\* What stands has a place of its own.
LEMMA PlacesDiffer ==
    ASSUME TypeOK, NEW r \in Requests, Standing(r), NEW x \in task[r].stood, NEW y \in task[r].stood, x # y
    PROVE  Cardinality(Ahead(r, x)) # Cardinality(Ahead(r, y))
<1>1. ASSUME NEW u \in task[r].stood, NEW v \in task[r].stood, trades[u].updatedAt > trades[v].updatedAt
      PROVE  Cardinality(Ahead(r, u)) # Cardinality(Ahead(r, v))
  <2>1. u \in ListedBy(r) /\ v \in ListedBy(r)
    BY DEF Standing
  <2>2. /\ \A w \in ListedBy(r) : trades[w].updatedAt \in Nat
        /\ Ahead(r, v) \in SUBSET Ids
    BY ListTypes
  <2>3. Ahead(r, u) \subseteq Ahead(r, v)
    BY <1>1, <2>1, <2>2 DEF Ahead
  <2>4. u \in Ahead(r, v) /\ u \notin Ahead(r, u)
    BY <1>1, <2>1, <2>2 DEF Ahead
  <2>5. IsFiniteSet(Ahead(r, v))
    BY <2>2, FiniteParts
  <2> QED
    BY <2>3, <2>4, <2>5, FS_Subset
<1>2. /\ x \in ListedBy(r) /\ y \in ListedBy(r) /\ trades[x].updatedAt # trades[y].updatedAt
      /\ trades[x].updatedAt \in Nat /\ trades[y].updatedAt \in Nat
  BY ListTypes DEF Standing
<1>3. trades[x].updatedAt > trades[y].updatedAt \/ trades[y].updatedAt > trades[x].updatedAt
  BY <1>2
<1> QED
  BY <1>1, <1>3

\* In whatever order the rows come, one that stands comes after those ahead.
LEMMA PlaceInOrder ==
    ASSUME TypeOK, NEW r \in Requests, Standing(r), NEW x \in task[r].stood, NEW o \in Orders(ListedBy(r))
    PROVE  Cardinality(Ahead(r, x)) + 1 \in DOMAIN o /\ o[Cardinality(Ahead(r, x)) + 1] = x
<1> DEFINE S == ListedBy(r)
           N == Cardinality(S)
<1>1. /\ S \in SUBSET Ids /\ IsFiniteSet(S) /\ N \in Nat /\ x \in S
      /\ \A y \in S : trades[y].updatedAt \in Nat
  BY ListTypes, FiniteParts DEF Standing
<1>2. /\ o \in [1..N -> S]
      /\ \A a, b \in 1..N : a < b => o[a] # o[b] /\ trades[o[a]].updatedAt >= trades[o[b]].updatedAt
  BY DEF Orders, Before
<1> HIDE DEF N
<1>a. \A y \in S : \E k \in 1..N : o[k] = y
  BY <1>1, <1>2, OrderHasAll DEF N
<1>3. PICK k \in 1..N : o[k] = x
  BY <1>1, <1>a
<1>4. k \in Nat /\ k - 1 \in Nat /\ 1..(k - 1) \subseteq 1..N
  BY <1>1
<1>5. \A a \in 1..(k - 1) : a \in 1..N /\ a < k
  BY <1>4
<1>6. \A a \in 1..(k - 1) : o[a] \in Ahead(r, x)
  <2> TAKE a \in 1..(k - 1)
  <2>1. o[a] \in S /\ o[a] # x /\ trades[o[a]].updatedAt >= trades[x].updatedAt
    BY <1>2, <1>3, <1>5
  <2>2. trades[o[a]].updatedAt # trades[x].updatedAt
    BY <2>1 DEF Standing
  <2> QED
    BY <1>1, <2>1, <2>2 DEF Ahead
<1>7. \A y \in Ahead(r, x) : \E a \in 1..(k - 1) : o[a] = y
  <2> TAKE y \in Ahead(r, x)
  <2>1. y \in S /\ trades[y].updatedAt > trades[x].updatedAt
    BY DEF Ahead
  <2>2. PICK a \in 1..N : o[a] = y
    BY <1>a, <2>1
  <2>3. a # k /\ ~(k < a)
    BY <1>1, <1>2, <1>3, <2>1, <2>2
  <2>4. a \in 1..(k - 1)
    BY <1>4, <2>3
  <2> QED
    BY <2>2, <2>4
<1>8. \A a, b \in 1..(k - 1) : a < b => o[a] # o[b]
  BY <1>2, <1>5
<1>9. Cardinality(Ahead(r, x)) = k - 1
  BY <1>4, <1>6, <1>7, <1>8, NumberedUpTo
<1>10. Cardinality(Ahead(r, x)) + 1 = k
  BY <1>4, <1>9
<1> QED
  BY <1>2, <1>3, <1>10

\* The rows that a write takes off the list of a reader, or dates back.
Leavers(r, after) ==
    {x \in Ids : /\ Listed(x, trades, cast.calls[r])
                 /\ \/ ~Listed(x, after, cast.calls[r])
                    \/ after[x].updatedAt < trades[x].updatedAt}

\* The rows that still stand after a write.
Left(r, after) == {x \in task[r].stood : trades[x] = after[x] /\ Alone(x, after, cast.calls[r])}

\* What a write tells the reader of a list.
LEMMA Watched ==
    ASSUME TypeOK, NEW r \in Requests, Calls(r, "list"), NEW after
    PROVE  LET w == Watch(after)[r]
           IN  /\ w.pc = task[r].pc /\ w.page = task[r].page /\ w.got = task[r].got
               /\ w.stood = Left(r, after)
               /\ w.left = task[r].left + Cardinality(Leavers(r, after))
               /\ Cardinality(Leavers(r, after)) \in Nat
<1>1. Watch(after)[r] =
        [task[r] EXCEPT !.stood = Left(r, after), !.left = @ + Cardinality(Leavers(r, after))]
  BY DEF Watch, Leavers, Left
<1>2. task[r] \in Task
  BY DEF TypeOK
<1>3. Cardinality(Leavers(r, after)) \in Nat
  BY FiniteParts DEF Leavers
<1> QED
  BY <1>1, <1>2, <1>3 DEF Task

\* A write while a list is read: for each row that leaves, one more may come
\* before those that are read on.
LEMMA WriteStands ==
    ASSUME TypeOK, TypeOK', NEW r \in Requests, Standing(r), NEW after,
           trades' = after, cast' = cast, task'[r].stood = Left(r, after)
    PROVE  /\ Standing(r)'
           /\ \A x \in task'[r].stood :
                 Cardinality(Ahead(r, x)) <= Cardinality(Ahead(r, x)') + Cardinality(Leavers(r, after))
<1>1. ListedBy(r)' = {y \in Ids : Listed(y, after, cast.calls[r])}
  BY DEF ListedBy, Listed
<1>2. ASSUME NEW x \in task'[r].stood
      PROVE  /\ x \in task[r].stood /\ x \in ListedBy(r) /\ x \in ListedBy(r)' /\ trades'[x] = trades[x]
             /\ Alone(x, after, cast.calls[r])
  <2>1. x \in task[r].stood /\ trades'[x] = trades[x] /\ x \in ListedBy(r) /\ Alone(x, after, cast.calls[r])
    BY DEF Standing, Left
  <2>2. x \in ListedBy(r)'
    BY <1>1, <2>1 DEF ListedBy, Listed
  <2> QED
    BY <2>1, <2>2
<1>3. ASSUME NEW y \in ListedBy(r), y \notin Leavers(r, after)
      PROVE  y \in ListedBy(r)' /\ trades'[y].updatedAt >= trades[y].updatedAt
  <2>1. y \in Ids /\ Listed(y, after, cast.calls[r]) /\ ~(trades'[y].updatedAt < trades[y].updatedAt)
    BY <1>3 DEF ListedBy, Leavers
  <2>2. trades[y] \in Row /\ trades'[y] \in Row
    BY <2>1 DEF ListedBy, Listed, TypeOK
  <2>3. trades[y].updatedAt \in Nat /\ trades'[y].updatedAt \in Nat
    BY <2>2 DEF Row
  <2> QED
    BY <1>1, <2>1, <2>3
<1>5. Standing(r)'
  <2>1. \A x \in task'[r].stood : x \in ListedBy(r)'
    BY <1>2
  <2>2. ASSUME NEW x \in task'[r].stood, NEW y \in ListedBy(r)', x # y
        PROVE  trades'[y].updatedAt # trades'[x].updatedAt
    BY <1>1, <1>2, <2>2 DEF Alone
  <2> QED
    BY <2>1, <2>2 DEF Standing
<1>6. ASSUME NEW x \in task'[r].stood
      PROVE  Cardinality(Ahead(r, x)) <= Cardinality(Ahead(r, x)') + Cardinality(Leavers(r, after))
  <2> DEFINE A == Ahead(r, x)
             B == Ahead(r, x)'
             L == Leavers(r, after)
  <2>1. A \in SUBSET Ids /\ L \in SUBSET Ids /\ B \in SUBSET Ids
    BY ListTypes DEF Leavers, Ahead, ListedBy
  <2>2. A \subseteq B \cup L
    <3> SUFFICES ASSUME NEW y \in A, y \notin L PROVE y \in B
      OBVIOUS
    <3>1. y \in ListedBy(r) /\ trades[y].updatedAt > trades[x].updatedAt
      BY DEF Ahead
    <3>2. y \in ListedBy(r)' /\ trades'[y].updatedAt >= trades[y].updatedAt
      BY <1>3, <3>1
    <3>3. trades[y] \in Row /\ trades'[y] \in Row /\ trades[x] \in Row /\ trades'[x] = trades[x]
      BY <1>1, <1>2, <3>1, <3>2 DEF ListedBy, Listed, TypeOK
    <3>4. trades'[y].updatedAt > trades'[x].updatedAt
      <4>1. trades[y].updatedAt \in Nat /\ trades'[y].updatedAt \in Nat /\ trades[x].updatedAt \in Nat
        BY <3>3 DEF Row
      <4> QED
        BY <3>1, <3>2, <3>3, <4>1
    <3> QED
      BY <3>2, <3>4 DEF Ahead
  <2> HIDE DEF A, B, L
  <2>3. /\ IsFiniteSet(A) /\ IsFiniteSet(B) /\ IsFiniteSet(L) /\ IsFiniteSet(B \cup L)
        /\ Cardinality(A) \in Nat /\ Cardinality(B) \in Nat /\ Cardinality(L) \in Nat
        /\ Cardinality(B \cap L) \in Nat
    BY <2>1, FiniteParts
  <2>4. Cardinality(A) <= Cardinality(B \cup L)
    BY <2>2, <2>3, FS_Subset
  <2>5. Cardinality(B \cup L) = Cardinality(B) + Cardinality(L) - Cardinality(B \cap L)
    BY <2>3, FS_Union
  <2>6. Cardinality(A) <= Cardinality(B) + Cardinality(L)
    BY <2>3, <2>4, <2>5
  <2> QED
    BY <2>6 DEF A, B, L
<1> QED
  BY <1>5, <1>6

\* A write skips no more than leave.
LEMMA WriteSkips ==
    ASSUME TypeOK, TypeOK', NEW r \in Requests, Standing(r), NEW after,
           trades' = after, cast' = cast, Read(r)' = Read(r),
           task'[r].stood = Left(r, after), task'[r].got = task[r].got
    PROVE  Cardinality(Skipped(r)') <= Cardinality(Skipped(r)) + Cardinality(Leavers(r, after))
<1> DEFINE place == [x \in Ids |-> Cardinality(Ahead(r, x))]
           d == Cardinality(Leavers(r, after))
           n == Read(r)
           Z == {x \in task'[r].stood : n <= place[x] /\ place[x] < n + d}
<1>1. d \in Nat /\ n \in Int /\ \A x \in Ids : place[x] \in Nat
  BY ListTypes, FiniteParts DEF Leavers
<1>2. task'[r].stood \subseteq task[r].stood /\ task[r].stood \subseteq Ids
  BY ListTypes DEF Task, Left
<1>3. \A x \in task'[r].stood : place[x] <= Cardinality(Ahead(r, x)') + d /\ Cardinality(Ahead(r, x)') \in Nat
  <2>1. \A x \in task'[r].stood : Cardinality(Ahead(r, x)) <= Cardinality(Ahead(r, x)') + Cardinality(Leavers(r, after))
    BY WriteStands
  <2> TAKE x \in task'[r].stood
  <2>2. Ahead(r, x)' \in SUBSET Ids
    BY DEF Ahead, ListedBy
  <2>3. Cardinality(Ahead(r, x)') \in Nat
    BY <2>2, FiniteParts
  <2> QED
    BY <1>2, <2>1, <2>3
<1>4. \A x, y \in task[r].stood : x # y => place[x] # place[y]
  BY <1>2, PlacesDiffer
<1> HIDE DEF place, d, n
<1>5. Skipped(r)' \subseteq Skipped(r) \cup Z
  <2> SUFFICES ASSUME NEW x \in Skipped(r)', x \notin Z PROVE x \in Skipped(r)
    OBVIOUS
  <2>1. x \in task'[r].stood /\ x \notin task[r].got /\ Cardinality(Ahead(r, x)') < n
    BY DEF Skipped, n
  <2>2. place[x] < n + d /\ place[x] \in Nat
    BY <1>1, <1>2, <1>3, <2>1
  <2>3. place[x] < n
    BY <1>1, <2>1, <2>2
  <2> QED
    BY <1>2, <2>1, <2>3 DEF Skipped, place, n
<1>6. Z \in SUBSET Ids /\ Skipped(r) \in SUBSET Ids /\ Skipped(r)' \in SUBSET Ids
  <2>1. Z \in SUBSET Ids /\ Skipped(r) \in SUBSET Ids
    BY <1>2, ListTypes
  <2>2. Skipped(r)' \subseteq task'[r].stood
    BY DEF Skipped
  <2> QED
    BY <1>2, <2>1, <2>2
<1>7. Cardinality(Z) <= d
  <2> DEFINE f == [x \in Z |-> place[x]]
  <2>1. f \in [Z -> n..(n + d - 1)]
    <3>1. \A x \in Z : place[x] \in Int /\ n <= place[x] /\ place[x] <= n + d - 1
      BY <1>1, <1>2
    <3> QED
      BY <1>1, <3>1
  <2>2. \A x, y \in Z : x # y => f[x] # f[y]
    BY <1>2, <1>4
  <2> HIDE DEF f, Z
  <2> QED
    BY <1>1, <2>1, <2>2, FewBetween
<1>8. /\ IsFiniteSet(Z) /\ IsFiniteSet(Skipped(r)) /\ IsFiniteSet(Skipped(r) \cup Z)
      /\ Cardinality(Z) \in Nat /\ Cardinality(Skipped(r)) \in Nat /\ Cardinality(Skipped(r)') \in Nat
      /\ Cardinality(Skipped(r) \cap Z) \in Nat
  BY <1>6, FiniteParts
<1> HIDE DEF Z
<1>9. Cardinality(Skipped(r)') <= Cardinality(Skipped(r) \cup Z)
  BY <1>5, <1>8, FS_Subset
<1>10. Cardinality(Skipped(r) \cup Z) = Cardinality(Skipped(r)) + Cardinality(Z) - Cardinality(Skipped(r) \cap Z)
  BY <1>8, FS_Union
<1>11. Cardinality(Skipped(r)') <= Cardinality(Skipped(r)) + d
  BY <1>1, <1>7, <1>8, <1>9, <1>10
<1> QED
  BY <1>11 DEF d

\* A request that reads no list has no pages.
LEMMA OffLists ==
    ASSUME NEW q \in Requests, cast' = cast, ~Calls(q, "list"), task'[q].pc \notin {"rows", "count"}
    PROVE  Paged(q)'
<1>1. ~Calls(q, "list")' /\ ~At(q, "rows")' /\ ~At(q, "count")'
  BY DEF Calls, At
<1> QED
  BY <1>1 DEF Paged

\* Nor has one that is cut off.
LEMMA CutOff ==
    ASSUME NEW q \in Requests, task'[q].pc = "failed"
    PROVE  Paged(q)'
<1>1. ~At(q, "rows")' /\ ~At(q, "count")' /\ ~At(q, "idle")' /\ ~At(q, "done")'
  BY DEF At
<1> QED
  BY <1>1 DEF Paged

\* While neither the rows nor the reader change, nothing is skipped.
LEMMA StillPaged ==
    ASSUME NEW q \in Requests, Paged(q), trades' = trades, cast' = cast, task'[q] = task[q]
    PROVE  Paged(q)'
<1>1. /\ \A label : At(q, label)' = At(q, label)
      /\ Calls(q, "list")' = Calls(q, "list")
      /\ Read(q)' = Read(q) /\ ListedBy(q)' = ListedBy(q)
  BY DEF At, Calls, Read, ListedBy, Listed
<1>2. \A x : Ahead(q, x)' = Ahead(q, x)
  BY <1>1 DEF Ahead
<1>3. Skipped(q)' = Skipped(q)
  BY <1>1, <1>2 DEF Skipped
<1>4. Standing(q)' = Standing(q)
  BY <1>1 DEF Standing
<1> QED
  BY <1>1, <1>3, <1>4 DEF Paged

\* A write while others read.
LEMMA WriteKeepsPages ==
    ASSUME TypeOK, TypeOK', NEW r \in Requests, ~Calls(r, "list"),
           NEW after, NEW label \in {"done", "notify", "torn"}, Write(r, after, label),
           NEW q \in Requests, Paged(q)
    PROVE  Paged(q)'
<1>1. /\ trades' = after /\ cast' = cast
      /\ task' = [Watch(after) EXCEPT ![r].pc = label]
  BY DEF Write, TypeOK
<1>2. Watch(after)[q] = task[q] \/ Calls(q, "list")
  BY DEF Watch
<1>3. DOMAIN Watch(after) = Requests
  BY DEF Watch
<1>4. CASE ~Calls(q, "list")
  <2>1. task'[q].pc \in {task[q].pc, label}
    <3>1. q # r => task'[q] = task[q]
      BY <1>1, <1>2, <1>3, <1>4
    <3>2. q = r => task'[q].pc = label
      <4>1. Watch(after)[r] \in Task
        BY WatchType
      <4> QED
        BY <1>1, <1>3, <4>1 DEF Task
    <3> QED
      BY <3>1, <3>2
  <2>2. task[q].pc \notin {"rows", "count"}
    BY <1>4 DEF Paged, At
  <2> QED
    BY <1>1, <1>4, <2>1, <2>2, OffLists
<1>5. CASE Calls(q, "list")
  <2> DEFINE d == Cardinality(Leavers(q, after))
  <2>1. task'[q] = Watch(after)[q]
    BY <1>1, <1>3, <1>5
  <2>2. /\ task'[q].pc = task[q].pc /\ task'[q].page = task[q].page /\ task'[q].got = task[q].got
        /\ task'[q].stood = Left(q, after)
        /\ task'[q].left = task[q].left + d /\ d \in Nat
    BY <1>5, <2>1, Watched
  <2>3. /\ \A lab : At(q, lab)' = At(q, lab)
        /\ Calls(q, "list")' /\ Read(q)' = Read(q)
    BY <1>1, <1>5, <2>2 DEF At, Calls, Read
  <2> HIDE DEF d
  <2>4. task[q].left \in Nat /\ task'[q].left \in Nat /\ task[q].stood \in SUBSET Ids
    BY DEF TypeOK, Task
  <2>5. ASSUME At(q, "rows") \/ At(q, "count")
        PROVE  Standing(q)' /\ Cardinality(Skipped(q)') <= task'[q].left
    <3>1. Standing(q) /\ Cardinality(Skipped(q)) <= task[q].left
      BY <2>5 DEF Paged
    <3>2. Standing(q)'
      BY <1>1, <2>2, <3>1, WriteStands
    <3>3. Cardinality(Skipped(q)') <= Cardinality(Skipped(q)) + d
      BY <1>1, <2>2, <2>3, <3>1, WriteSkips DEF d
    <3>4. Cardinality(Skipped(q)) \in Nat /\ Cardinality(Skipped(q)') \in Nat
      <4>1. Skipped(q) \subseteq task[q].stood /\ Skipped(q)' \subseteq task'[q].stood
        BY DEF Skipped
      <4>2. task'[q].stood \subseteq task[q].stood
        BY <2>2 DEF Left
      <4> QED
        BY <2>4, <4>1, <4>2, FiniteParts
    <3> QED
      BY <2>2, <2>4, <3>1, <3>2, <3>3, <3>4
  <2>6. ASSUME At(q, "done")
        PROVE  Cardinality(task'[q].stood \ task'[q].got) <= task'[q].left
    <3> DEFINE A == task[q].stood \ task[q].got
               B == task'[q].stood \ task'[q].got
    <3>1. Cardinality(A) <= task[q].left
      BY <1>5, <2>6 DEF Paged
    <3>2. B \subseteq A /\ A \in SUBSET Ids /\ B \in SUBSET Ids
      BY <2>2, <2>4 DEF Left
    <3> HIDE DEF A, B
    <3>3. Cardinality(B) <= Cardinality(A) /\ Cardinality(A) \in Nat /\ Cardinality(B) \in Nat
      BY <3>2, FiniteParts, FS_Subset
    <3> QED
      BY <2>2, <2>4, <3>1, <3>3 DEF B
  <2>7. task'[q].page = task[q].page
    BY <2>2
  <2> QED
    BY <1>5, <2>2, <2>3, <2>5, <2>6, <2>7 DEF Paged
<1> QED
  BY <1>4, <1>5

\* Who begins to read has skipped nothing.
LEMMA BeginKeepsPages ==
    ASSUME TypeOK, TypeOK', NEW r \in Requests, Paged(r), BeginList(r)
    PROVE  Paged(r)'
<1>1. /\ trades' = trades /\ cast' = cast /\ task[r] \in Task
      /\ Calls(r, "list") /\ At(r, "idle") /\ task[r].page = 1
  BY DEF BeginList, TypeOK, Paged
<1>2. /\ task'[r].pc = "rows" /\ task'[r].page = 1 /\ task'[r].left = 0
      /\ task'[r].stood = {x \in ListedBy(r) : Alone(x, trades, cast.calls[r])}
  BY <1>1 DEF BeginList, Task, TypeOK
<1>3. ListedBy(r)' = ListedBy(r) /\ Calls(r, "list")' /\ At(r, "rows")'
  BY <1>1, <1>2 DEF ListedBy, Listed, Calls, At
<1>4. Standing(r)'
  BY <1>1, <1>2, <1>3 DEF Standing, Alone, ListedBy
<1>5. Read(r)' = 0
  BY <1>2, <1>3, CommunityAssumption DEF Read
<1>6. \A x : ~(Cardinality(Ahead(r, x)') < 0)
  <2> TAKE x
  <2>1. Ahead(r, x)' \in SUBSET Ids
    BY DEF Ahead, ListedBy
  <2> QED
    BY <2>1, FiniteParts
<1>7. Skipped(r)' = {}
  BY <1>5, <1>6 DEF Skipped
<1>8. Cardinality(Skipped(r)') = 0
  BY <1>7, FS_EmptySet
<1> QED
  BY <1>2, <1>3, <1>4, <1>8 DEF Paged, At

\* A page holds what stands at its places.
LEMMA RowsKeepPages ==
    ASSUME TypeOK, TypeOK', NEW r \in Requests, Paged(r), ReadRows(r)
    PROVE  Paged(r)'
<1>1. /\ trades' = trades /\ cast' = cast /\ task[r] \in Task /\ At(r, "rows")
      /\ Calls(r, "list") /\ task[r].page >= 1 /\ Standing(r)
      /\ Cardinality(Skipped(r)) <= task[r].left
  BY DEF ReadRows, TypeOK, Paged
<1> DEFINE offset == (task[r].page - 1) * PageSize
           page(o) == {o[k] : k \in {k \in DOMAIN o : offset < k /\ k <= offset + PageSize}}
<1>2. PICK o \in Orders(ListedBy(r)) :
          task' = [task EXCEPT ![r].pc = "count", ![r].got = @ \cup page(o)]
  BY DEF ReadRows
<1>3. /\ task'[r].pc = "count" /\ task'[r].page = task[r].page /\ task'[r].left = task[r].left
      /\ task'[r].stood = task[r].stood /\ task'[r].got = task[r].got \cup page(o)
  <2> HIDE DEF page
  <2> QED
    BY <1>1, <1>2 DEF Task, TypeOK
<1>4. /\ ListedBy(r)' = ListedBy(r) /\ Calls(r, "list")' /\ At(r, "count")'
      /\ ~At(r, "rows")' /\ ~At(r, "idle")' /\ ~At(r, "done")'
  BY <1>1, <1>3 DEF ListedBy, Listed, Calls, At
<1>5. \A x : Ahead(r, x)' = Ahead(r, x)
  BY <1>1, <1>4 DEF Ahead
<1>6. Standing(r)'
  BY <1>1, <1>3, <1>4 DEF Standing
<1>7. Read(r) = offset /\ Read(r)' = offset + PageSize /\ offset \in Int /\ PageSize \in Int
  <2>1. task[r].page \in Int /\ PageSize \in Int
    BY <1>1, CommunityAssumption DEF Task
  <2>2. Read(r) = offset /\ offset \in Int
    BY <1>1, <2>1 DEF Read
  <2>3. Read(r)' = task[r].page * PageSize
    BY <1>3, <1>4 DEF Read
  <2>4. task[r].page * PageSize = (task[r].page - 1) * PageSize + PageSize
    BY <2>1
  <2> QED
    BY <2>1, <2>2, <2>3, <2>4
<1> HIDE DEF offset
<1>8. Skipped(r)' \subseteq Skipped(r)
  <2> SUFFICES ASSUME NEW x \in Skipped(r)' PROVE x \in Skipped(r)
    OBVIOUS
  <2>1. /\ x \in task[r].stood /\ x \notin task[r].got /\ x \notin page(o)
        /\ Cardinality(Ahead(r, x)) < offset + PageSize
    BY <1>3, <1>5, <1>7 DEF Skipped
  <2>2. Cardinality(Ahead(r, x)) \in Nat
    BY ListTypes
  <2>3. Cardinality(Ahead(r, x)) + 1 \in DOMAIN o /\ o[Cardinality(Ahead(r, x)) + 1] = x
    BY <1>1, <2>1, PlaceInOrder
  <2>4. ~(offset < Cardinality(Ahead(r, x)) + 1 /\ Cardinality(Ahead(r, x)) + 1 <= offset + PageSize)
    BY <2>1, <2>3
  <2>5. Cardinality(Ahead(r, x)) < offset
    BY <1>7, <2>1, <2>2, <2>4
  <2> QED
    BY <1>7, <2>1, <2>5 DEF Skipped
<1>9. Cardinality(Skipped(r)') <= task[r].left
  <2>1. Skipped(r) \in SUBSET Ids /\ task[r].left \in Nat
    BY ListTypes
  <2>2. /\ Cardinality(Skipped(r)') <= Cardinality(Skipped(r))
        /\ Cardinality(Skipped(r)') \in Nat /\ Cardinality(Skipped(r)) \in Nat
    BY <1>8, <2>1, FiniteParts, FS_Subset
  <2> QED
    BY <1>1, <2>1, <2>2
<1>10. task'[r].pc = "count" /\ task'[r].page >= 1 /\ Cardinality(Skipped(r)') <= task'[r].left
  BY <1>1, <1>3, <1>9
<1> QED
  BY <1>4, <1>6, <1>10 DEF Paged

\* Who has counted the rows reads on, or has been at every place.
LEMMA CountKeepsPages ==
    ASSUME TypeOK, TypeOK', NEW r \in Requests, Paged(r), CountRows(r)
    PROVE  Paged(r)'
<1>1. /\ trades' = trades /\ cast' = cast /\ task[r] \in Task /\ At(r, "count")
      /\ Calls(r, "list") /\ task[r].page >= 1 /\ Standing(r)
      /\ Cardinality(Skipped(r)) <= task[r].left
  BY DEF CountRows, TypeOK, Paged
<1>2. /\ ListedBy(r)' = ListedBy(r) /\ Calls(r, "list")' /\ \A x : Ahead(r, x)' = Ahead(r, x)
  BY <1>1 DEF ListedBy, Listed, Calls, Ahead
<1>3. task[r].page \in Int /\ PageSize \in Int /\ Read(r) = task[r].page * PageSize
  BY <1>1, CommunityAssumption DEF Task, Read, At
<1>4. CASE HasNext(task[r].page, Cardinality(ListedBy(r)))
  <2>1. /\ task'[r].pc = "rows" /\ task'[r].page = task[r].page + 1 /\ task'[r].left = task[r].left
        /\ task'[r].stood = task[r].stood /\ task'[r].got = task[r].got
    BY <1>1, <1>4 DEF CountRows, Task, TypeOK
  <2>2. At(r, "rows")' /\ ~At(r, "idle")' /\ ~At(r, "done")' /\ ~At(r, "count")'
    BY <2>1 DEF At
  <2>3. Read(r)' = (task'[r].page - 1) * PageSize
    BY <2>1 DEF Read, At
  <2>4. Read(r)' = Read(r)
    <3>1. task'[r].page - 1 = task[r].page
      BY <1>3, <2>1
    <3> QED
      BY <1>3, <2>3, <3>1
  <2>5. Skipped(r)' = Skipped(r)
    BY <1>2, <2>1, <2>4 DEF Skipped
  <2>6. Standing(r)'
    BY <1>1, <1>2, <2>1 DEF Standing
  <2>7. task'[r].page >= 1
    BY <1>1, <1>3, <2>1
  <2> QED
    BY <1>1, <1>2, <2>1, <2>2, <2>5, <2>6, <2>7 DEF Paged
<1>5. CASE ~HasNext(task[r].page, Cardinality(ListedBy(r)))
  <2>1. /\ task'[r].pc = "done" /\ task'[r].left = task[r].left
        /\ task'[r].stood = task[r].stood /\ task'[r].got = task[r].got
    BY <1>1, <1>5 DEF CountRows, Task, TypeOK
  <2>2. ~At(r, "rows")' /\ ~At(r, "idle")' /\ ~At(r, "count")'
    BY <2>1 DEF At
  <2>3. ListedBy(r) \in SUBSET Ids /\ IsFiniteSet(ListedBy(r)) /\ Cardinality(ListedBy(r)) \in Nat
    BY ListTypes, FiniteParts
  <2>4. Cardinality(ListedBy(r)) <= Read(r)
    BY <1>3, <1>5, <2>3 DEF HasNext
  <2>5. ASSUME NEW x \in task[r].stood
        PROVE  Cardinality(Ahead(r, x)) < Read(r)
    <3>1. x \in ListedBy(r) /\ trades[x].updatedAt \in Nat
      BY <1>1, ListTypes DEF Standing
    <3>2. Ahead(r, x) \subseteq ListedBy(r) /\ x \notin Ahead(r, x)
      BY <3>1 DEF Ahead
    <3>3. Cardinality(Ahead(r, x)) \in Nat /\ Read(r) \in Int
      BY ListTypes
    <3>4. Cardinality(Ahead(r, x)) < Cardinality(ListedBy(r))
      <4> DEFINE A == Ahead(r, x)
      <4>1. A # ListedBy(r) /\ A \in SUBSET ListedBy(r)
        BY <3>1, <3>2
      <4> HIDE DEF A
      <4>2. Cardinality(A) <= Cardinality(ListedBy(r)) /\ Cardinality(A) # Cardinality(ListedBy(r))
        BY <2>3, <4>1, FS_Subset
      <4> QED
        BY <2>3, <3>3, <4>2 DEF A
    <3> QED
      BY <2>3, <2>4, <3>3, <3>4
  <2>6. task[r].stood \ task[r].got = Skipped(r)
    BY <2>5 DEF Skipped
  <2>7. Cardinality(task'[r].stood \ task'[r].got) <= task'[r].left
    BY <1>1, <2>1, <2>6
  <2> QED
    BY <2>1, <2>2, <2>7 DEF Paged
<1> QED
  BY <1>4, <1>5

\* At first no list is read.
LEMMA InitPages == Init => PageInv
<1> SUFFICES ASSUME Init PROVE PageInv
  OBVIOUS
<1>1. ASSUME NEW r \in Requests
      PROVE  Paged(r)
  BY DEF Init, Idle, Paged, At
<1> QED
  BY <1>1 DEF PageInv

\* No step skips more than leave.
LEMMA PageStep ==
    ASSUME TypeOK, TypeOK', PageInv, [Next]_cvars
    PROVE  PageInv'
<1>1. ASSUME trades' = trades, cast' = cast,
             NEW r \in Requests, \A q \in Requests \ {r} : task'[q] = task[q], Paged(r)'
      PROVE  PageInv'
  BY <1>1, StillPaged DEF PageInv
<1>2. ASSUME NEW r \in Requests, WriteStep(r)
      PROVE  PageInv'
  <2>1. ~Calls(r, "list")
    BY <1>2, Writes
  <2>2. CASE \E after, label : label \in {"done", "notify", "torn"} /\ Write(r, after, label)
    BY <2>1, <2>2, WriteKeepsPages DEF PageInv
  <2>3. CASE task' = [task EXCEPT ![r].pc = "failed"] /\ UNCHANGED <<cast, clock, trades, follows, jobs, sending, told, restarts>>
    <3>1. task'[r].pc = "failed" /\ \A q \in Requests \ {r} : task'[q] = task[q]
      BY <2>3 DEF TypeOK, Task
    <3> QED
      BY <1>1, <2>3, <3>1, CutOff
  <2> QED
    BY <1>2, <2>2, <2>3, Writes
<1>3. ASSUME NEW r \in Requests, Finding(r)
      PROVE  PageInv'
  <2>1. /\ trades' = trades /\ cast' = cast /\ task'[r].pc \in {"reload", "write", "done"}
        /\ \A q \in Requests \ {r} : task'[q] = task[q]
    BY <1>3, FindingMoves
  <2>2. ~Calls(r, "list")
    BY <1>3 DEF Finding, BeginWrite, FindOwn, FindLive, Reload, Calls
  <2>3. Paged(r)'
    BY <2>1, <2>2, OffLists
  <2> QED
    BY <1>1, <2>1, <2>3
<1>4. ASSUME NEW r \in Requests,
             \/ FindTrader(r) \/ BeginList(r) \/ FindFollow(r) \/ SaveFollow(r)
             \/ QueueNotice(r) \/ ReadRows(r) \/ CountRows(r)
      PROVE  PageInv'
  <2>1. /\ trades' = trades /\ cast' = cast
        /\ \A q \in Requests \ {r} : task'[q] = task[q]
    BY <1>4 DEF FindTrader, BeginList, FindFollow, SaveFollow, QueueNotice,
                ReadRows, CountRows, Goto, TypeOK
  <2>2. Paged(r) /\ task[r] \in Task /\ task \in [Requests -> Task]
    BY DEF TypeOK, PageInv
  <2>3. Paged(r)'
    <3>1. CASE FindTrader(r)
      <4>1. ~Calls(r, "list") /\ task'[r].pc \notin {"rows", "count"}
        BY <2>2, <3>1 DEF FindTrader, Goto, Calls, Task
      <4> QED
        BY <2>1, <4>1, OffLists
    <3>2. CASE FindFollow(r) \/ SaveFollow(r) \/ QueueNotice(r)
      <4>1. ~Calls(r, "list")
        BY <2>2, <3>2 DEF FindFollow, SaveFollow, QueueNotice, Paged, At
      <4>2. task'[r].pc \in {"failed", "follow", "done"}
        BY <2>2, <3>2 DEF FindFollow, SaveFollow, QueueNotice, Goto, Task
      <4> QED
        BY <2>1, <4>1, <4>2, OffLists
    <3>3. CASE BeginList(r) \/ ReadRows(r) \/ CountRows(r)
      BY <2>2, <3>3, BeginKeepsPages, RowsKeepPages, CountKeepsPages
    <3> QED
      BY <1>4, <3>1, <3>2, <3>3
  <2> QED
    BY <1>1, <2>1, <2>3
<1>5. ASSUME NEW j \in JobNos, JobStep(j)
      PROVE  PageInv'
  <2>1. trades' = trades /\ cast' = cast /\ task' = task
    BY <1>5 DEF JobStep, TakeNotice, ReadTrade, NextBatch, EndNotice, Mail
  <2> QED
    BY <2>1, StillPaged DEF PageInv
<1>6. CASE Tick \/ UNCHANGED cvars
  <2>1. trades' = trades /\ cast' = cast /\ task' = task
    BY <1>6 DEF Tick, cvars
  <2> QED
    BY <2>1, StillPaged DEF PageInv
<1>7. CASE Restart
  <2>1. trades' = trades /\ cast' = cast
    BY <1>7 DEF Restart
  <2>2. \A q \in Requests : task'[q] = task[q] \/ task'[q].pc = "failed"
    BY <1>7 DEF Restart, TypeOK, Task
  <2> QED
    BY <2>1, <2>2, StillPaged, CutOff DEF PageInv
<1> QED
  BY <1>2, <1>3, <1>4, <1>5, <1>6, <1>7 DEF Next, RequestStep, Finding

\* Who asks for one page of the trades after the other
\* (TradeCommunity.getTrades, sorted by the time of the last write) misses of
\* the rows that stay as they are no more than leave the list or are dated back
\* meanwhile, for pages of any size and whatever is written between any two
\* queries, with the time at which the write or its transaction began.
THEOREM ListsMissOnlyForLeavers == Spec => []ListMissesOnlyForLeavers
<1>1. Init => PageInv
  BY InitPages
<1>2. IInv /\ IInv' /\ PageInv /\ [Next]_cvars => PageInv'
  BY PageStep DEF IInv
<1>3. PageInv => ListMissesOnlyForLeavers
  BY DEF PageInv, Paged, ListMissesOnlyForLeavers
<1> QED
  BY <1>1, <1>2, <1>3, Inductive, PTL DEF Spec
-----------------------------------------------------------------------------
(* the figures of the pages *)

\* A cancel has written over what another wrote.
Torn == \E r \in Requests : At(r, "torn")

\* Until then what a row has made and its outcome go together.
FigureInv == Torn \/ \A x \in Ids : trades[x] # Nothing => Consistent(trades[x])

\* At first nothing is torn.
LEMMA InitFigures == Init => FigureInv
<1> SUFFICES ASSUME Init, NEW x \in Ids, trades[x] # Nothing PROVE Consistent(trades[x])
  BY DEF FigureInv
<1>1. cast \in Casts /\ trades[x] = cast.trades[x] /\ x \in DOMAIN cast.trades
  BY DEF Init
<1> QED
  BY <1>1, CommunityAssumption

\* What has been torn remains so: no call leaves that label.
LEMMA StaysTorn ==
    ASSUME TypeOK, TypeOK', NEW r \in Requests, At(r, "torn"), [Next]_cvars
    PROVE  At(r, "torn")'
<1>1. task[r].pc = "torn" /\ task \in [Requests -> Task]
  BY DEF At, TypeOK
<1>2. ASSUME NEW q \in Requests, WriteStep(q)
      PROVE  At(r, "torn")'
  BY <1>1, <1>2, TradesMove DEF At
<1>3. ASSUME NEW q \in Requests, Finding(q)
      PROVE  At(r, "torn")'
  <2>1. q # r
    BY <1>1, <1>3 DEF Finding, BeginWrite, FindOwn, FindLive, Reload, At
  <2> QED
    BY <1>1, <1>3, <2>1, FindingMoves DEF At
<1>4. ASSUME NEW q \in Requests,
             FindTrader(q) \/ BeginList(q) \/ QueueNotice(q) \/ ReadRows(q) \/ CountRows(q)
      PROVE  At(r, "torn")'
  <2>1. q # r
    BY <1>1, <1>4 DEF FindTrader, BeginList, QueueNotice, ReadRows, CountRows, At
  <2> QED
    BY <1>1, <1>4, <2>1, ReadersMove DEF At
<1>5. ASSUME NEW q \in Requests, FindFollow(q) \/ SaveFollow(q)
      PROVE  At(r, "torn")'
  BY <1>1, <1>5 DEF FindFollow, SaveFollow, Goto, At
<1>6. ASSUME NEW j \in JobNos, JobStep(j)
      PROVE  At(r, "torn")'
  <2>1. task' = task
    BY <1>6 DEF JobStep, TakeNotice, ReadTrade, NextBatch, EndNotice, Mail
  <2> QED
    BY <1>1, <2>1 DEF At
<1>7. CASE Restart
  BY <1>1, <1>7 DEF Restart, Moving, At
<1>8. CASE Tick \/ UNCHANGED cvars
  BY <1>1, <1>8 DEF Tick, cvars, At
<1> QED
  BY <1>2, <1>3, <1>4, <1>5, <1>6, <1>7, <1>8 DEF Next, RequestStep, Finding

\* What a write makes of a consistent row is consistent.
LEMMA RowsConsistent ==
    /\ \A row \in Row : Consistent(row) =>
          \A status, t : Consistent([row EXCEPT !.status = status, !.updatedAt = t])
    /\ \A row \in Row, pnl \in Int :
          Consistent([row EXCEPT !.status = "close", !.outcome = Outcome(pnl), !.pnl = pnl])
    /\ \A row \in Row, c \in Call, t \in Nat : Consistent(row) => Consistent(Updated(row, c, t))
    /\ \A e \in Row, row \in Row, t \in Nat : Consistent(e) => Consistent(Merged(e, row, row, t))
<1>1. \A pnl \in Int : Outcome(pnl) # "none"
  BY DEF Outcome
<1>2. ASSUME NEW row \in Row, NEW status, NEW t, Consistent(row)
      PROVE  Consistent([row EXCEPT !.status = status, !.updatedAt = t])
  BY <1>2 DEF Consistent, Row
<1>3. ASSUME NEW row \in Row, NEW pnl \in Int
      PROVE  Consistent([row EXCEPT !.status = "close", !.outcome = Outcome(pnl), !.pnl = pnl])
  BY <1>1 DEF Consistent, Row
<1>4. ASSUME NEW row \in Row, NEW c \in Call, NEW t \in Nat, Consistent(row)
      PROVE  Consistent(Updated(row, c, t))
  <2>1. c.pnl \in Int
    BY DEF Call
  <2> QED
    BY <1>1, <1>4, <2>1 DEF Updated, Consistent, Row
<1>5. ASSUME NEW e \in Row, NEW row \in Row, NEW t \in Nat, Consistent(e)
      PROVE  Consistent(Merged(e, row, row, t))
  <2>1. Merged(e, row, row, t).outcome = e.outcome /\ Merged(e, row, row, t).pnl = e.pnl
    BY DEF Merged, Row
  <2> QED
    BY <1>5, <2>1 DEF Consistent
<1> QED
  BY <1>2, <1>3, <1>4, <1>5

\* The steps that write.
LEMMA TradesKeepFigures ==
    ASSUME TypeOK, TypeOK', NEW r \in Requests, WriteStep(r), ~At(r, "torn")',
           \A y \in Ids : trades[y] # Nothing => Consistent(trades[y]),
           NEW z \in Ids, trades'[z] # Nothing
    PROVE  Consistent(trades'[z])
<1> DEFINE c == cast.calls[r]
           x == c.row
           now == task[r].since
<1>1. trades \in [Ids -> Row \cup {Nothing}] /\ cast \in Casts /\ r \in Ids
  BY DEF TypeOK, Ids
<1>t. task[r] \in Task /\ now \in Nat
  BY DEF TypeOK, Task
<1>c. r \in DOMAIN cast.calls
  BY Writes
<1>x. x \in Ids /\ c.pnl \in Int /\ c \in Call
  BY <1>1, <1>c, CallTypes, CommunityAssumption
<1>z. trades[z] # Nothing => trades[z] \in Row /\ Consistent(trades[z])
  BY <1>1
<1>s. trades'[z] = trades[z] => Consistent(trades'[z])
  OBVIOUS
<1>2. CASE Post(r)
  <2>1. trades' = [trades EXCEPT ![r] = NewRow(r, c.status)]
    BY <1>2 DEF Post, Write
  <2>2. Consistent(NewRow(r, c.status))
    BY DEF NewRow, Consistent
  <2> QED
    BY <1>1, <1>s, <2>1, <2>2
<1>3. CASE Edit(r)
  <2>1. \E status : trades' = [trades EXCEPT ![x] = IF @ = Nothing THEN Nothing
                                 ELSE [@ EXCEPT !.status = status, !.updatedAt = now]]
    BY <1>3 DEF Edit, Write
  <2>2. PICK status : trades'[z] = IF z # x THEN trades[z] ELSE IF trades[z] = Nothing THEN Nothing
                                   ELSE [trades[z] EXCEPT !.status = status, !.updatedAt = now]
    BY <1>1, <2>1
  <2> QED
    <3>1. CASE z = x /\ trades[z] # Nothing
      <4>1. Consistent([trades[z] EXCEPT !.status = status, !.updatedAt = now])
        BY <1>z, <3>1, RowsConsistent
      <4> QED
        BY <2>2, <3>1, <4>1
    <3> QED
      BY <1>s, <2>2, <3>1
<1>4. CASE RemoveTrade(r)
  <2>1. trades'[z] \in {trades[z], Nothing}
    BY <1>1, <1>4 DEF RemoveTrade, Write
  <2> QED
    BY <1>s, <2>1
<1>5. CASE Cancel(r)
  <2> DEFINE seen == task[r].seen
             row == IF seen = Nothing THEN Cancelled(r)
                    ELSE IF trades[x] = Nothing THEN Nothing
                    ELSE Merged(Cancelled(r), seen, trades[x], now)
  <2>1. task[r].found \in Row
    BY <1>5 DEF TypeOK, Holding, Cancel, Write, At
  <2>2. Cancelled(r) \in Row /\ Consistent(Cancelled(r))
    BY <1>x, <2>1, RowTypes, RowsConsistent DEF Cancelled
  <2>3. trades' = [trades EXCEPT ![x] = row]
    BY <1>5 DEF Cancel, Write
  <2>4. seen = Nothing \/ trades[x] \in {seen, Nothing}
    <3>1. Write(r, [trades EXCEPT ![x] = row],
                IF seen = Nothing \/ trades[x] \in {seen, Nothing} THEN "done" ELSE "torn")
      BY <1>5 DEF Cancel
    <3>2. task'[r].pc = IF seen = Nothing \/ trades[x] \in {seen, Nothing} THEN "done" ELSE "torn"
      <4> HIDE DEF row
      <4> QED
        BY <3>1, WriteMoves
    <3> QED
      BY <3>2 DEF At
  <2>5. row = Nothing \/ Consistent(row)
    <3>1. CASE seen # Nothing /\ trades[x] # Nothing
      <4>1. trades[x] \in Row /\ seen = trades[x]
        BY <1>1, <1>x, <2>4, <3>1
      <4> QED
        BY <1>t, <2>2, <3>1, <4>1, RowsConsistent
    <3> QED
      BY <2>2, <3>1
  <2> HIDE DEF row
  <2> QED
    BY <1>1, <1>s, <1>x, <2>3, <2>5
<1>6. CASE Copy(r)
  <2>1. trades[x] # Nothing
    BY <1>6 DEF Copy, Live
  <2>2. trades[x] \in Row /\ Consistent(trades[x])
    BY <1>1, <1>x, <2>1
  <2> DEFINE status == IF trades[x].status = "pending" THEN c.status ELSE trades[x].status
             old == IF z = r THEN trades[x] ELSE trades[z]
  <2>3. trades'[z] = IF z = r \/ z \in RowsOf(trades[x].trade)
                     THEN [old EXCEPT !.status = status, !.updatedAt = now] ELSE trades[z]
    BY <1>6 DEF Copy, Write
  <2>4. z = r \/ z \in RowsOf(trades[x].trade) => old \in Row /\ Consistent(old)
    BY <1>z, <2>2 DEF RowsOf
  <2> HIDE DEF old, status
  <2>5. CASE z = r \/ z \in RowsOf(trades[x].trade)
    <3>1. Consistent([old EXCEPT !.status = status, !.updatedAt = now])
      BY <2>4, <2>5, RowsConsistent
    <3> QED
      BY <2>3, <2>5, <3>1
  <2> QED
    BY <1>s, <2>3, <2>5
<1>7. CASE SystemUpdate(r)
  <2>1. trades'[z] = IF z \in RowsOf(x) /\ Live(z) THEN Updated(trades[z], c, now) ELSE trades[z]
    BY <1>7 DEF SystemUpdate, Write
  <2> QED
    BY <1>s, <1>t, <1>x, <1>z, <2>1, RowsConsistent DEF RowsOf
<1>8. CASE CancelDuplicate(r) \/ CopyMiss(r)
  BY <1>s, <1>8 DEF CancelDuplicate, CopyMiss
<1> QED
  BY <1>2, <1>3, <1>4, <1>5, <1>6, <1>7, <1>8 DEF WriteStep

\* Every step.
LEMMA FigureStep ==
    ASSUME TypeOK, TypeOK', FigureInv, [Next]_cvars
    PROVE  FigureInv'
<1>1. CASE Torn
  BY <1>1, StaysTorn DEF Torn, FigureInv
<1>2. CASE ~Torn
  <2>1. \A y \in Ids : trades[y] # Nothing => Consistent(trades[y])
    BY <1>2 DEF FigureInv
  <2>2. ASSUME NEW r \in Requests, WriteStep(r)
        PROVE  FigureInv'
    <3>1. CASE At(r, "torn")'
      BY <3>1 DEF FigureInv, Torn
    <3>2. CASE ~At(r, "torn")'
      <4>1. \A z \in Ids : trades'[z] # Nothing => Consistent(trades'[z])
        BY <2>1, <2>2, <3>2, TradesKeepFigures
      <4> QED
        BY <4>1 DEF FigureInv
    <3> QED
      BY <3>1, <3>2
  <2>3. CASE trades' = trades
    BY <2>1, <2>3 DEF FigureInv
  <2>4. ASSUME NEW r \in Requests, Finding(r) \/ FindTrader(r) \/ BeginList(r) \/ RequestStep(r), ~WriteStep(r)
        PROVE  trades' = trades
    BY <2>4, FindingMoves DEF Finding, FindTrader, BeginList, RequestStep, FindFollow, SaveFollow, QueueNotice,
                ReadRows, CountRows
  <2>5. ASSUME NEW j \in JobNos, JobStep(j)
        PROVE  trades' = trades
    BY <2>5 DEF JobStep, TakeNotice, ReadTrade, NextBatch, EndNotice, Mail
  <2>6. CASE Tick \/ Restart \/ UNCHANGED cvars
    BY <2>3, <2>6 DEF Tick, Restart, cvars
  <2> QED
    BY <2>2, <2>3, <2>4, <2>5, <2>6 DEF Next, Finding
<1> QED
  BY <1>1, <1>2

\* The sums of what rows have made are those of one function.
LEMMA PnlSums ==
    ASSUME NEW rows, IsFiniteSet(DOMAIN rows), \A i \in DOMAIN rows : rows[i].pnl \in Int
    PROVE  \E d \in [DOMAIN rows -> Int] : \E f :
              /\ IsSum(f, DOMAIN rows, d)
              /\ \A i \in DOMAIN rows : d[i] = rows[i].pnl
              /\ \A S \in SUBSET DOMAIN rows : PnlOf(rows, S) = f[S]
<1> DEFINE D == DOMAIN rows
           d == [i \in D |-> rows[i].pnl]
<1>1. d \in [D -> Int] /\ IsFiniteSet(D)
  OBVIOUS
<1> HIDE DEF D
<1>2. PICK f : IsSum(f, D, d)
  <2> HIDE DEF d
  <2> QED
    BY <1>1, SumExists
<1>3. ASSUME NEW S \in SUBSET D
      PROVE  PnlOf(rows, S) = f[S]
  <2> DEFINE Pnls(g) == g = [T \in SUBSET S |-> IF T = {} THEN 0 ELSE rows[First(T)].pnl + g[T \ {First(T)}]]
             e == [i \in S |-> rows[i].pnl]
  <2>1. IsFiniteSet(S) /\ e \in [S -> Int] /\ \A i \in S : e[i] = d[i]
    BY <1>1, FS_Subset DEF D
  <2>2. ASSUME NEW g PROVE IsSum(g, S, e) <=> Pnls(g)
    <3>1. \A T \in SUBSET S : T # {} => e[First(T)] = rows[First(T)].pnl
      BY FirstOf
    <3>2. [T \in SUBSET S |-> IF T = {} THEN 0 ELSE e[First(T)] + g[T \ {First(T)}]]
          = [T \in SUBSET S |-> IF T = {} THEN 0 ELSE rows[First(T)].pnl + g[T \ {First(T)}]]
      <4> HIDE DEF e
      <4> QED
        BY <3>1
    <3> HIDE DEF e
    <3> QED
      BY <3>2 DEF IsSum
  <2>3. \E g : IsSum(g, S, e)
    <3> HIDE DEF e
    <3> QED
      BY <2>1, SumExists
  <2>4. PnlOf(rows, S) = (CHOOSE g : Pnls(g))[S]
    BY Zenon DEF PnlOf, MapThenSumSet, MapThenFoldSet, First
  <2>5. IsSum(CHOOSE g : Pnls(g), S, e)
    <3> HIDE DEF e, Pnls
    <3> QED
      BY <2>2, <2>3
  <2>6. (CHOOSE g : Pnls(g))[S] = f[S]
    <3> DEFINE h == CHOOSE g : Pnls(g)
    <3>1. IsSum(h, S, e) /\ S \in SUBSET S
      BY <2>5
    <3> HIDE DEF e, d, h
    <3>2. h[S] = f[S]
      BY <1>2, <2>1, <3>1, SumUnique
    <3> QED
      BY <3>2 DEF h
  <2> QED
    BY <2>4, <2>6
<1>4. \A i \in D : d[i] = rows[i].pnl
  OBVIOUS
<1> HIDE DEF d
<1> QED
  BY <1>1, <1>2, <1>3, <1>4 DEF D

\* They are whole, that of two parts is the sum of both, and zeros add nothing.
LEMMA PnlAdds ==
    ASSUME NEW rows, IsFiniteSet(DOMAIN rows), \A i \in DOMAIN rows : rows[i].pnl \in Int
    PROVE  /\ \A S \in SUBSET DOMAIN rows : PnlOf(rows, S) \in Int
           /\ PnlOf(rows, {}) = 0
           /\ \A S \in SUBSET DOMAIN rows : \A i \in S : PnlOf(rows, S) = rows[i].pnl + PnlOf(rows, S \ {i})
           /\ \A S, T \in SUBSET DOMAIN rows :
                 S \cap T = {} => PnlOf(rows, S \cup T) = PnlOf(rows, S) + PnlOf(rows, T)
           /\ \A S \in SUBSET DOMAIN rows : (\A i \in S : rows[i].pnl = 0) => PnlOf(rows, S) = 0
<1>1. PICK d, f : /\ d \in [DOMAIN rows -> Int] /\ IsSum(f, DOMAIN rows, d)
                  /\ \A i \in DOMAIN rows : d[i] = rows[i].pnl
                  /\ \A S \in SUBSET DOMAIN rows : PnlOf(rows, S) = f[S]
  BY PnlSums
<1>2. \A S \in SUBSET DOMAIN rows : Takes(f, S, d)
  BY <1>1, SumTakes
<1>3. ASSUME NEW S \in SUBSET DOMAIN rows, NEW i \in S
      PROVE  PnlOf(rows, S) = rows[i].pnl + PnlOf(rows, S \ {i})
  <2>1. f[S] = d[i] + f[S \ {i}] /\ S \ {i} \in SUBSET DOMAIN rows
    BY <1>2 DEF Takes
  <2> QED
    BY <1>1, <2>1
<1>4. ASSUME NEW S \in SUBSET DOMAIN rows, NEW T \in SUBSET DOMAIN rows, S \cap T = {}
      PROVE  PnlOf(rows, S \cup T) = PnlOf(rows, S) + PnlOf(rows, T)
  <2>1. f[S \cup T] = f[S] + f[T] /\ S \cup T \in SUBSET DOMAIN rows
    BY <1>1, <1>4, SumSplits
  <2> QED
    BY <1>1, <2>1
<1>5. ASSUME NEW S \in SUBSET DOMAIN rows, \A i \in S : rows[i].pnl = 0
      PROVE  PnlOf(rows, S) = 0
  <2>1. f[S] = 0
    BY <1>1, <1>5, SumOfZeros
  <2> QED
    BY <1>1, <2>1
<1>6. \A S \in SUBSET DOMAIN rows : PnlOf(rows, S) \in Int
  BY <1>1, <1>2 DEF Takes
<1>7. PnlOf(rows, {}) = 0
  BY <1>5
<1> QED
  BY <1>3, <1>4, <1>5, <1>6, <1>7

\* The rows of the table in some order.
LEMMA Tables ==
    ASSUME TypeOK, NEW o \in [1..Cardinality(Placed) -> Placed]
    PROVE  /\ IsFiniteSet(DOMAIN Table(o))
           /\ \A i \in DOMAIN Table(o) :
                 /\ o[i] \in Placed /\ Table(o)[i] = trades[o[i]] /\ Table(o)[i] \in Row
                 /\ Table(o)[i].pnl \in Int /\ Table(o)[i].updatedAt \in Nat
<1>1. Placed \in SUBSET Ids /\ Cardinality(Placed) \in Nat
  BY FiniteParts DEF Placed
<1>2. IsFiniteSet(1..Cardinality(Placed))
  BY <1>1, FS_Interval
<1>3. \A x \in Placed : trades[x] \in Row
  BY DEF Placed, TypeOK
<1>4. DOMAIN Table(o) = 1..Cardinality(Placed) /\ \A i \in DOMAIN Table(o) : Table(o)[i] = trades[o[i]]
  BY DEF Table
<1> QED
  BY <1>2, <1>3, <1>4 DEF Row

\* The order a query returns.
LEMMA SomeOrder ==
    ASSUME TypeOK
    PROVE  /\ SetToSeq(Placed) \in [1..Cardinality(Placed) -> Placed]
           /\ SetToSeq(Placed) \in SetToSeqs(Placed)
<1>1. Placed \in SUBSET Ids /\ IsFiniteSet(Placed)
  BY FiniteParts DEF Placed
<1> DEFINE P == Placed
           n == Cardinality(P)
<1>2. \E f \in [1..n -> P] : IsInjective(f)
  <2>1. ExistsBijection(1..n, P)
    <3> HIDE DEF P
    <3> QED
      BY <1>1, FS_NatBijection, FS_CountingElements DEF P
  <2> HIDE DEF P, n
  <2> QED
    BY <2>1 DEF ExistsBijection, Bijection, Injection
<1> HIDE DEF P, n
<1>3. SetToSeq(P) \in [1..n -> P] /\ IsInjective(SetToSeq(P))
  BY <1>2 DEF SetToSeq, n
<1>4. SetToSeq(P) \in SetToSeqs(P)
  BY <1>3 DEF SetToSeqs, IsInjective, n
<1> QED
  BY <1>3, <1>4 DEF P, n

\* Where outcomes and results go together, so do the pages.
LEMMA FiguresAgree ==
    ASSUME TypeOK, FigureInv
    PROVE  PagesAgree
<1> SUFFICES ASSUME ~Torn, NEW rows, rows \in OneTable
             PROVE  LET running == DOMAIN rows \ Completed(rows)
                    IN  /\ TotalProfit(rows) = ProfileProfit(rows)
                        /\ TotalPnL(rows) = ProfileProfit(rows) + ProfileLoss(rows)
                                            + PnlOf(rows, {i \in running : rows[i].outcome = "Loss"})
                        /\ \/ WinRate(ProfileWins(rows), rows) = WinRate(DashboardWins(rows), rows)
                           \/ \E i \in running : rows[i].outcome = "Win"
  BY DEF PagesAgree, Torn
<1>1. PICK o \in [1..Cardinality(Placed) -> Placed] : rows = Table(o)
  BY SomeOrder DEF OneTable
<1>2. /\ IsFiniteSet(DOMAIN rows)
      /\ \A i \in DOMAIN rows : o[i] \in Placed /\ rows[i] = trades[o[i]] /\ rows[i] \in Row /\ rows[i].pnl \in Int
  BY <1>1, Tables
<1> DEFINE D == DOMAIN rows
           C == Completed(rows)
           W == {i \in D : rows[i].pnl > 0}
           L == {i \in C : rows[i].outcome = "Loss"}
           R == {i \in D \ C : rows[i].outcome = "Loss"}
           Z == {i \in D : rows[i].pnl = 0}
<1>3. ASSUME NEW i \in DOMAIN rows
      PROVE  /\ rows[i].outcome = "Win" <=> rows[i].pnl > 0
             /\ rows[i].outcome = "Loss" <=> rows[i].pnl < 0
             /\ rows[i].pnl > 0 \/ rows[i].pnl < 0 \/ rows[i].pnl = 0
             /\ ~(rows[i].pnl > 0 /\ rows[i].pnl < 0) /\ ~(rows[i].pnl = 0 /\ rows[i].pnl < 0)
             /\ ~(rows[i].pnl > 0 /\ rows[i].pnl = 0)
  <2>1. PICK x \in Placed : rows[i] = trades[x] /\ trades[x].pnl \in Int
    BY <1>2
  <2>2. x \in Ids /\ trades[x] # Nothing /\ Consistent(trades[x])
    BY <2>1 DEF Placed, FigureInv
  <2> QED
    BY <2>1, <2>2 DEF Consistent, Outcome
<1>4. C \subseteq D /\ ProfileWins(rows) = W
  BY <1>3 DEF ProfileWins, Completed
<1>5. TotalProfit(rows) = PnlOf(rows, W) /\ ProfileProfit(rows) = PnlOf(rows, W)
      /\ ProfileLoss(rows) = PnlOf(rows, L)
  BY <1>4 DEF TotalProfit, ProfileProfit, ProfileLoss
<1>6. PnlOf(rows, D) = PnlOf(rows, W) + PnlOf(rows, L) + PnlOf(rows, R)
  <2>1. /\ D = ((W \cup L) \cup R) \cup Z
        /\ W \cap L = {} /\ (W \cup L) \cap R = {} /\ ((W \cup L) \cup R) \cap Z = {}
    <3>1. \A i \in D : /\ i \in W <=> rows[i].outcome = "Win"
                       /\ i \in L <=> i \in C /\ rows[i].outcome = "Loss"
                       /\ i \in R <=> i \notin C /\ rows[i].outcome = "Loss"
                       /\ i \in Z <=> rows[i].outcome \notin {"Win", "Loss"}
      BY <1>3, <1>4
    <3>2. W \subseteq D /\ L \subseteq D /\ R \subseteq D /\ Z \subseteq D
      BY <1>4
    <3> HIDE DEF W, L, R, Z, C, D
    <3> QED
      BY <3>1, <3>2
  <2>2. /\ W \in SUBSET D /\ L \in SUBSET D /\ R \in SUBSET D /\ Z \in SUBSET D
        /\ W \cup L \in SUBSET D /\ (W \cup L) \cup R \in SUBSET D
    BY <1>4
  <2>3. \A i \in Z : rows[i].pnl = 0
    OBVIOUS
  <2> HIDE DEF W, L, R, Z, C
  <2>4. /\ PnlOf(rows, W \cup L) = PnlOf(rows, W) + PnlOf(rows, L)
        /\ PnlOf(rows, (W \cup L) \cup R) = PnlOf(rows, W \cup L) + PnlOf(rows, R)
        /\ PnlOf(rows, ((W \cup L) \cup R) \cup Z) = PnlOf(rows, (W \cup L) \cup R) + PnlOf(rows, Z)
        /\ PnlOf(rows, Z) = 0
        /\ PnlOf(rows, W) \in Int /\ PnlOf(rows, L) \in Int /\ PnlOf(rows, R) \in Int
    <3>1. /\ \A S \in SUBSET D : PnlOf(rows, S) \in Int
          /\ \A S, T \in SUBSET D :
                S \cap T = {} => PnlOf(rows, S \cup T) = PnlOf(rows, S) + PnlOf(rows, T)
          /\ \A S \in SUBSET D : (\A i \in S : rows[i].pnl = 0) => PnlOf(rows, S) = 0
      BY <1>2, PnlAdds
    <3> HIDE DEF D
    <3> QED
      BY <2>1, <2>2, <2>3, <3>1
  <2>5. PICK w, l, k \in Int : w = PnlOf(rows, W) /\ l = PnlOf(rows, L) /\ k = PnlOf(rows, R)
    BY <2>4
  <2>6. PnlOf(rows, D) = ((w + l) + k) + 0
    BY <2>1, <2>4, <2>5
  <2> QED
    BY <2>5, <2>6
<1>7. \/ WinRate(ProfileWins(rows), rows) = WinRate(DashboardWins(rows), rows)
      \/ \E i \in D \ C : rows[i].outcome = "Win"
  <2>1. ASSUME ~\E i \in D \ C : rows[i].outcome = "Win"
        PROVE  ProfileWins(rows) = DashboardWins(rows)
    BY <1>4, <2>1 DEF ProfileWins, DashboardWins
  <2> QED
    BY <2>1
<1> HIDE DEF W, L, Z
<1> QED
  BY <1>5, <1>6, <1>7 DEF TotalPnL

\* The pages of a trader (ActivityService, TradesService.getTradingStats) count
\* one profit, and their sums differ by what trades not closed are losing, for
\* any trades and requests, whatever the monitor writes to trades that stay
\* open, until a cancel saves a row over what another wrote since it was read.
THEOREM PagesAgreeUntilTorn == Spec => []PagesAgree
<1>1. Init => FigureInv
  BY InitFigures
<1>2. IInv /\ IInv' /\ FigureInv /\ [Next]_cvars => FigureInv'
  BY FigureStep DEF IInv
<1>3. IInv /\ FigureInv => PagesAgree
  BY FiguresAgree DEF IInv
<1> QED
  BY <1>1, <1>2, <1>3, Inductive, PTL DEF Spec
-----------------------------------------------------------------------------
(* the largest fall *)

\* What each step adds to p is what a fall looks at.
Falls(g, p, n) ==
    /\ n \in Nat /\ p \in [0..n -> Int] /\ p[0] = 0
    /\ g[0] = Flat /\ \A k \in 1..n : g[k] = Fall(g[k - 1], p[k] - p[k - 1])

\* After k steps: the sum, the highest one and the deepest fall from one to another.
Fallen(g, p, k) ==
    /\ g[k].cumulative = p[k]
    /\ \E i \in 0..k : g[k].peak = p[i]
    /\ \A i \in 0..k : p[i] <= g[k].peak
    /\ \E j \in 0..k, i \in 0..k : i <= j /\ g[k].max = p[i] - p[j]
    /\ \A j \in 0..k, i \in 0..k : i <= j => p[i] - p[j] <= g[k].max

\* One step.
LEMMA FallStep ==
    ASSUME NEW g, NEW p, NEW n, Falls(g, p, n), NEW k \in 1..n, Fallen(g, p, k - 1)
    PROVE  Fallen(g, p, k)
<1>1. /\ k \in Nat /\ k - 1 \in Nat /\ \A i : i \in 0..k <=> i \in 0..(k - 1) \/ i = k
      /\ \A i \in 0..k : p[i] \in Int
  BY DEF Falls
<1>2. PICK c, h, m \in Int : g[k - 1].cumulative = c /\ g[k - 1].peak = h /\ g[k - 1].max = m /\ c = p[k - 1]
  <2>1. p[k - 1] \in Int /\ \A i, j \in 0..(k - 1) : p[i] - p[j] \in Int /\ p[i] \in Int
    BY <1>1
  <2> QED
    BY <2>1 DEF Fallen
<1>3. PICK q \in Int : q = p[k]
  BY <1>1
<1> DEFINE top == IF q > h THEN q ELSE h
           max == IF top - q > m THEN top - q ELSE m
<1>4. g[k].cumulative = q /\ g[k].peak = top /\ g[k].max = max
  <2>1. g[k] = Fall(g[k - 1], q - c)
    BY <1>2, <1>3 DEF Falls
  <2>2. c + (q - c) = q
    BY <1>2, <1>3
  <2> QED
    BY <1>2, <2>1, <2>2 DEF Fall
<1>5. \E i \in 0..k : top = p[i]
  BY <1>1, <1>2, <1>3 DEF Fallen
<1>6. \A i \in 0..k : p[i] <= top
  BY <1>1, <1>2, <1>3 DEF Fallen
<1>7. \E j \in 0..k, i \in 0..k : i <= j /\ max = p[i] - p[j]
  <2>1. CASE top - q > m
    <3>1. PICK i \in 0..k : top = p[i]
      BY <1>5
    <3>2. i <= k /\ k \in 0..k /\ max = p[i] - p[k]
      BY <1>1, <1>3, <2>1, <3>1
    <3> QED
      BY <3>2
  <2>2. CASE ~(top - q > m)
    <3>1. PICK j \in 0..(k - 1), i \in 0..(k - 1) : i <= j /\ m = p[i] - p[j]
      BY <1>2 DEF Fallen
    <3> QED
      BY <1>1, <2>2, <3>1
  <2> QED
    BY <2>1, <2>2
<1>8. ASSUME NEW j \in 0..k, NEW i \in 0..k, i <= j
      PROVE  p[i] - p[j] <= max
  <2>1. CASE j = k
    <3>1. p[i] <= top /\ p[i] \in Int
      BY <1>1, <1>6
    <3> HIDE DEF top
    <3>2. top \in Int /\ top - q <= max /\ max \in Int
      BY <1>2, <1>3 DEF top
    <3> HIDE DEF max
    <3> QED
      BY <1>3, <2>1, <3>1, <3>2
  <2>2. CASE j # k
    <3>1. j \in 0..(k - 1) /\ i \in 0..(k - 1)
      BY <1>1, <1>8, <2>2
    <3>2. p[i] - p[j] <= m /\ p[i] \in Int /\ p[j] \in Int
      BY <1>1, <1>2, <1>8, <3>1 DEF Fallen
    <3>3. m <= max /\ max \in Int
      BY <1>2, <1>3
    <3> HIDE DEF max
    <3> QED
      BY <1>2, <3>2, <3>3
  <2> QED
    BY <2>1, <2>2
<1> HIDE DEF top, max
<1> QED
  BY <1>3, <1>4, <1>5, <1>6, <1>7, <1>8 DEF Fallen

\* All of them.
LEMMA FallsTell ==
    ASSUME NEW g, NEW p, NEW n, Falls(g, p, n)
    PROVE  \A k \in 0..n : Fallen(g, p, k)
<1> DEFINE Bad == {k \in 0..n : ~Fallen(g, p, k)}
<1>1. SUFFICES ASSUME Bad # {} PROVE FALSE
  OBVIOUS
<1>2. PICK m \in Bad : \A k \in Bad : m <= k
  <2>1. Bad \in SUBSET Nat
    OBVIOUS
  <2> HIDE DEF Bad
  <2> QED
    BY <1>1, <2>1, Least
<1>3. n \in Nat /\ m \in 0..n /\ ~Fallen(g, p, m)
  BY <1>2 DEF Falls
<1>4. m # 0
  <2>1. 0..0 = {0} /\ p[0] = 0 /\ g[0] = Flat
    BY DEF Falls
  <2>2. Fallen(g, p, 0)
    BY <2>1 DEF Fallen, Flat
  <2> QED
    BY <1>3, <2>2
<1>5. m \in 1..n /\ m - 1 \in 0..n /\ ~(m <= m - 1)
  BY <1>3, <1>4
<1>6. Fallen(g, p, m - 1)
  BY <1>2, <1>5
<1> QED
  BY <1>3, <1>5, <1>6, FallStep

\* Rows with numbers, times and results.
Whole(rows) ==
    /\ IsFiniteSet(DOMAIN rows) /\ DOMAIN rows \subseteq Int
    /\ \A i \in DOMAIN rows : rows[i].pnl \in Int /\ rows[i].updatedAt \in Int

\* s has the rows of S one after the other, in the order of their times.
Lined(rows, S, s, n) ==
    /\ S \subseteq DOMAIN rows /\ IsFiniteSet(S) /\ n = Cardinality(S) /\ n \in Nat
    /\ s \in [1..n -> S]
    /\ \A i \in S : \E k \in 1..n : s[k] = i
    /\ \A a, b \in 1..n : a < b => s[a] # s[b] /\ rows[s[a]].updatedAt <= rows[s[b]].updatedAt

\* The trades of a day are lined up.
LEMMA PeriodLined ==
    ASSUME NEW rows, Whole(rows), NEW now, NEW S, S = Within(rows, now - PerDay, now)
    PROVE  Lined(rows, S, OfPeriod(rows, now, "daily"), Cardinality(S))
<1> DEFINE R == {p \in S \X S : Earlier(rows, p[1], p[2])}
           s == OfPeriod(rows, now, "daily")
           n == Cardinality(S)
<1>1. /\ S \subseteq DOMAIN rows /\ IsFiniteSet(S)
      /\ \A i \in S : i \in Int /\ rows[i].updatedAt \in Int
  <2>1. S \subseteq DOMAIN rows
    BY DEF Within
  <2> QED
    BY <2>1, FS_Subset DEF Whole
<1>2. \A i, j \in S : <<i, j>> \in R <=> Earlier(rows, i, j)
  OBVIOUS
<1>3. StrictOrder(R, S)
  <2> HIDE DEF R
  <2>1. \A i \in S : <<i, i>> \notin R
    BY <1>1, <1>2 DEF Earlier
  <2>2. \A i, j, k \in S : <<i, j>> \in R /\ <<j, k>> \in R => <<i, k>> \in R
    BY <1>1, <1>2 DEF Earlier
  <2>3. \A i, j \in S : i # j => <<i, j>> \in R \/ <<j, i>> \in R
    BY <1>1, <1>2 DEF Earlier
  <2> QED
    BY <2>1, <2>2, <2>3 DEF StrictOrder
<1>4. \A i \in S : Cardinality({j \in S : Earlier(rows, j, i)}) = Rank(R, S, i)
  <2> TAKE i \in S
  <2>1. {j \in S : Earlier(rows, j, i)} = {j \in S : <<j, i>> \in R}
    BY <1>2
  <2> QED
    BY <2>1 DEF Rank
<1>5. s = [k \in 1..n |-> CHOOSE i \in S : Cardinality({j \in S : Earlier(rows, j, i)}) = k - 1]
  <2>1. now - PeriodDays("daily") * PerDay = now - PerDay
    BY DEF PeriodDays, PerDay
  <2>2. Within(rows, now - PeriodDays("daily") * PerDay, now) = S
    BY <2>1
  <2> QED
    <3>1. OfPeriod(rows, now, "daily") = InOrder(rows, Within(rows, now - PeriodDays("daily") * PerDay, now))
      BY Zenon DEF OfPeriod
    <3>2. OfPeriod(rows, now, "daily") = InOrder(rows, S)
      BY <2>2, <3>1
    <3> QED
      BY <3>2 DEF InOrder
<1> HIDE DEF R, s, n
<1>6. /\ n \in Nat
      /\ \A i \in S : Rank(R, S, i) \in 0..(n - 1)
      /\ \A i, j \in S : <<i, j>> \in R <=> Rank(R, S, i) < Rank(R, S, j)
      /\ \A k \in 1..n : \E i \in S : Rank(R, S, i) = k - 1
  BY <1>1, <1>3, Ranked DEF n
<1>7. \A k \in 1..n : s[k] \in S /\ Rank(R, S, s[k]) = k - 1
  <2> TAKE k \in 1..n
  <2>1. \E i \in S : Cardinality({j \in S : Earlier(rows, j, i)}) = k - 1
    BY <1>4, <1>6
  <2>2. s[k] = CHOOSE i \in S : Cardinality({j \in S : Earlier(rows, j, i)}) = k - 1
    BY <1>5
  <2>3. s[k] \in S /\ Cardinality({j \in S : Earlier(rows, j, s[k])}) = k - 1
    BY <2>1, <2>2
  <2> QED
    BY <1>4, <2>3
<1>8. \A i, j \in S : Rank(R, S, i) = Rank(R, S, j) => i = j
  <2> SUFFICES ASSUME NEW i \in S, NEW j \in S, i # j PROVE Rank(R, S, i) # Rank(R, S, j)
    OBVIOUS
  <2>1. Rank(R, S, i) < Rank(R, S, j) \/ Rank(R, S, j) < Rank(R, S, i)
    BY <1>3, <1>6 DEF StrictOrder
  <2>2. Rank(R, S, i) \in Int /\ Rank(R, S, j) \in Int
    BY <1>6
  <2> QED
    BY <2>1, <2>2
<1>9. s \in [1..n -> S]
  BY <1>5, <1>7
<1>10. ASSUME NEW i \in S PROVE \E k \in 1..n : s[k] = i
  <2>1. PICK k \in 1..n : k - 1 = Rank(R, S, i)
    <3>1. Rank(R, S, i) \in 0..(n - 1) /\ n \in Nat
      BY <1>6
    <3>2. Rank(R, S, i) + 1 \in 1..n /\ (Rank(R, S, i) + 1) - 1 = Rank(R, S, i)
      BY <3>1
    <3> QED
      BY <3>2
  <2> QED
    BY <1>7, <1>8, <2>1
<1>11. ASSUME NEW a \in 1..n, NEW b \in 1..n, a < b
       PROVE  s[a] # s[b] /\ rows[s[a]].updatedAt <= rows[s[b]].updatedAt
  <2>1. Rank(R, S, s[a]) < Rank(R, S, s[b]) /\ s[a] \in S /\ s[b] \in S
    BY <1>6, <1>7, <1>11
  <2>2. Earlier(rows, s[a], s[b])
    BY <1>2, <1>6, <2>1
  <2> QED
    BY <1>1, <2>1, <2>2 DEF Earlier
<1> QED
  BY <1>1, <1>6, <1>9, <1>10, <1>11 DEF Lined, s, n

\* What the first k of them have made.
Sofar(rows, s, k) == PnlOf(rows, {s[a] : a \in 1..k})

\* The next adds its own.
LEMMA SofarAdds ==
    ASSUME NEW rows, Whole(rows), NEW S, NEW s, NEW n, Lined(rows, S, s, n)
    PROVE  /\ Sofar(rows, s, 0) = 0
           /\ \A k \in 0..n : Sofar(rows, s, k) \in Int
           /\ \A k \in 1..n : Sofar(rows, s, k) - Sofar(rows, s, k - 1) = rows[s[k]].pnl
           /\ Sofar(rows, s, n) = PnlOf(rows, S)
<1> DEFINE F(k) == {s[a] : a \in 1..k}
<1>1. n \in Nat /\ \A k \in 0..n : F(k) \in SUBSET DOMAIN rows
  BY DEF Lined
<1>2. /\ \A T \in SUBSET DOMAIN rows : PnlOf(rows, T) \in Int
      /\ PnlOf(rows, {}) = 0
      /\ \A T \in SUBSET DOMAIN rows : \A i \in T : PnlOf(rows, T) = rows[i].pnl + PnlOf(rows, T \ {i})
      /\ \A i \in DOMAIN rows : rows[i].pnl \in Int
  BY PnlAdds DEF Whole
<1>3. F(0) = {}
  OBVIOUS
<1>4. F(n) = S
  BY DEF Lined
<1>5. ASSUME NEW k \in 1..n
      PROVE  PnlOf(rows, F(k)) - PnlOf(rows, F(k - 1)) = rows[s[k]].pnl
  <2>1. k \in 0..n /\ k - 1 \in 0..n /\ \A a : a \in 1..k <=> a \in 1..(k - 1) \/ a = k
    BY <1>1
  <2>2. s[k] \in F(k) /\ s[k] \in DOMAIN rows
    BY <1>1, <2>1 DEF Lined
  <2>3. F(k) \ {s[k]} = F(k - 1)
    <3>1. \A a \in 1..(k - 1) : a \in 1..n /\ a < k
      BY <1>1
    <3>2. \A a \in 1..(k - 1) : s[a] # s[k]
      BY <3>1 DEF Lined
    <3> QED
      BY <2>1, <3>2
  <2> HIDE DEF F
  <2>4. PnlOf(rows, F(k)) = rows[s[k]].pnl + PnlOf(rows, F(k - 1))
    BY <1>1, <1>2, <2>1, <2>2, <2>3
  <2>5. PICK x, y \in Int : x = rows[s[k]].pnl /\ y = PnlOf(rows, F(k - 1))
    BY <1>1, <1>2, <2>1, <2>2
  <2> QED
    BY <2>4, <2>5
<1>6. \A k \in 0..n : PnlOf(rows, F(k)) \in Int
  <2> HIDE DEF F
  <2> QED
    BY <1>1, <1>2
<1>7. \A k : Sofar(rows, s, k) = PnlOf(rows, F(k))
  BY DEF Sofar
<1> HIDE DEF F
<1> QED
  BY <1>2, <1>3, <1>4, <1>5, <1>6, <1>7

\* The rows up to a time are the first k.
Cut(rows, s, n, t, k) == k \in 0..n /\ \A a \in 1..n : a <= k <=> rows[s[a]].updatedAt <= t

\* Every time cuts the line.
LEMMA CutExists ==
    ASSUME NEW rows, Whole(rows), NEW S, NEW s, NEW n, Lined(rows, S, s, n), NEW t \in Int
    PROVE  \E k \in 0..n : Cut(rows, s, n, t, k)
<1> DEFINE K == {k \in 0..n : \A a \in 1..k : rows[s[a]].updatedAt <= t}
<1>1. n \in Nat /\ \A a \in 1..n : rows[s[a]].updatedAt \in Int
  BY DEF Lined, Whole
<1>2. PICK k \in K : \A j \in K : j <= k
  <2>1. 0 \in K /\ K \in SUBSET Int /\ n \in Int /\ \A j \in K : j <= n
    BY <1>1
  <2> HIDE DEF K
  <2> QED
    BY <2>1, Greatest
<1>3. k \in 0..n /\ \A a \in 1..k : rows[s[a]].updatedAt <= t
  OBVIOUS
<1>4. ASSUME NEW a \in 1..n, ~(a <= k), rows[s[a]].updatedAt <= t
      PROVE  FALSE
  <2>1. a \in 0..n /\ a \in Nat /\ k \in Nat
    BY <1>1
  <2>2. ASSUME NEW b \in 1..a PROVE rows[s[b]].updatedAt <= t
    <3>1. b \in 1..n /\ (b = a \/ b < a)
      BY <1>1
    <3>2. b < a => rows[s[b]].updatedAt <= rows[s[a]].updatedAt
      BY <3>1 DEF Lined
    <3> QED
      BY <1>1, <1>4, <3>1, <3>2
  <2>3. a \in K
    BY <2>1, <2>2
  <2> HIDE DEF K
  <2> QED
    BY <1>2, <1>4, <2>3
<1>5. \A a \in 1..n : a <= k => a \in 1..k
  BY <1>1, <1>3
<1> QED
  BY <1>3, <1>4, <1>5 DEF Cut

\* They make what the first k make.
LEMMA CutSums ==
    ASSUME NEW rows, NEW S, NEW s, NEW n, Lined(rows, S, s, n), NEW t, NEW k, Cut(rows, s, n, t, k)
    PROVE  PnlOf(rows, {i \in S : rows[i].updatedAt <= t}) = Sofar(rows, s, k)
<1>1. n \in Nat /\ k \in 0..n /\ \A a : a \in 1..k <=> a \in 1..n /\ a <= k
  BY DEF Lined, Cut
<1>2. {i \in S : rows[i].updatedAt <= t} = {s[a] : a \in 1..k}
  <2>1. \A a \in 1..k : s[a] \in S /\ rows[s[a]].updatedAt <= t
    BY <1>1 DEF Lined, Cut
  <2>2. ASSUME NEW i \in S, rows[i].updatedAt <= t PROVE \E a \in 1..k : s[a] = i
    <3>1. PICK a \in 1..n : s[a] = i
      BY DEF Lined
    <3> QED
      BY <1>1, <2>2, <3>1 DEF Cut
  <2> QED
    BY <2>1, <2>2
<1> QED
  BY <1>2 DEF Sofar

\* A later time cuts later.
LEMMA CutsOrdered ==
    ASSUME NEW rows, Whole(rows), NEW S, NEW s, NEW n, Lined(rows, S, s, n),
           NEW t \in Int, NEW u \in Int, t <= u,
           NEW j, Cut(rows, s, n, t, j), NEW k, Cut(rows, s, n, u, k)
    PROVE  j <= k
<1>1. n \in Nat /\ j \in 0..n /\ k \in 0..n
  BY DEF Lined, Cut
<1>2. CASE j = 0
  BY <1>1, <1>2
<1>3. CASE j # 0
  <2>1. j \in 1..n /\ rows[s[j]].updatedAt \in Int
    BY <1>1, <1>3 DEF Lined, Whole
  <2>2. rows[s[j]].updatedAt <= t
    BY <1>1, <2>1 DEF Cut
  <2>3. rows[s[j]].updatedAt <= u
    BY <2>1, <2>2
  <2> QED
    BY <2>1, <2>3 DEF Cut
<1> QED
  BY <1>2, <1>3

\* f is the fold over the places of s that MaxDrawdown takes.
IsFall(f, n, rows, s) ==
    f = [T \in SUBSET (1..n) |->
            IF T = {} THEN Flat ELSE Fall(f[T \ {Max(T)}], rows[s[Max(T)]].pnl)]

\* The fold has a value for every set of places.
LEMMA FallExists ==
    ASSUME NEW n \in Nat, NEW rows, NEW s, \A k \in 1..n : rows[s[k]].pnl \in Int
    PROVE  \E h : IsFall(h, n, rows, s)
<1>1. PICK D : D = 1..n
  OBVIOUS
<1>2. PICK V : V = [cumulative : Int, peak : Int, max : Int]
  OBVIOUS
<1>3. \A acc \in V, pnl \in Int : Fall(acc, pnl) \in V
  BY <1>2 DEF Fall
<1>4. Flat \in V
  BY <1>2 DEF Flat
<1>5. PICK step : step = [x \in D \X V |-> Fall(x[2], rows[s[x[1]]].pnl)]
  OBVIOUS
<1>6. PICK pick : pick = [T \in SUBSET D |-> Max(T)]
  OBVIOUS
<1>7. step \in [D \X V -> V]
  BY <1>1, <1>3, <1>5
<1>8. \A T \in SUBSET D : pick[T] = Max(T) /\ (T # {} => Max(T) \in T)
  BY <1>1, <1>6, MaxOf
<1>9. IsFiniteSet(D)
  BY <1>1, FS_Interval
<1>10. Foldable(D, V, Flat, step, pick)
  BY <1>4, <1>7, <1>8 DEF Foldable
<1>11. PICK h \in [SUBSET D -> V] : \A T \in SUBSET D : Folded(h, T, Flat, step, pick)
  <2>1. PICK h : FoldOver(h, D, V, Flat, step, pick)
    BY <1>9, <1>10, FoldExists
  <2> QED
    BY <2>1 DEF FoldOver
<1>12. ASSUME NEW T \in SUBSET D
       PROVE  h[T] = IF T = {} THEN Flat ELSE Fall(h[T \ {Max(T)}], rows[s[Max(T)]].pnl)
  <2>1. T # {} => <<Max(T), h[T \ {Max(T)}]>> \in D \X V
    BY <1>8, <1>11
  <2>2. T # {} => step[<<Max(T), h[T \ {Max(T)}]>>] = Fall(h[T \ {Max(T)}], rows[s[Max(T)]].pnl)
    BY <1>5, <2>1
  <2> QED
    BY <1>8, <1>11, <2>2 DEF Folded
<1>13. h = [T \in SUBSET D |-> h[T]]
  BY <1>11
<1>14. h = [T \in SUBSET D |-> IF T = {} THEN Flat ELSE Fall(h[T \ {Max(T)}], rows[s[Max(T)]].pnl)]
  BY <1>12, <1>13, Zenon
<1> QED
  BY <1>1, <1>14 DEF IsFall

\* The largest fall is what the steps come to.
LEMMA FallsAlong ==
    ASSUME NEW rows, Whole(rows), NEW now, NEW S, S = Within(rows, now - PerDay, now),
           NEW s, s = OfPeriod(rows, now, "daily"), NEW n, n = Cardinality(S)
    PROVE  \E g : /\ Falls(g, [k \in 0..n |-> Sofar(rows, s, k)], n)
                  /\ MaxDrawdown(rows, now, "daily") = g[n].max
<1> DEFINE D == 1..n
           p == [k \in 0..n |-> Sofar(rows, s, k)]
           f == CHOOSE f : IsFall(f, n, rows, s)
           g == [k \in 0..n |-> f[1..k]]
<1>1. Lined(rows, S, s, n)
  BY PeriodLined
<1>2. n \in Nat /\ DOMAIN s = D /\ \A k \in D : rows[s[k]].pnl \in Int
  BY <1>1 DEF Lined, Whole
<1>3. MaxDrawdown(rows, now, "daily") = f[D].max
  <2>1. MaxDrawdown(rows, now, "daily") = FoldLeft(LAMBDA acc, i : Fall(acc, rows[i].pnl), Flat, s).max
    BY DEF MaxDrawdown
  <2>2. FoldLeft(LAMBDA acc, i : Fall(acc, rows[i].pnl), Flat, s)
        = (CHOOSE h : h = [T \in SUBSET DOMAIN s |->
                              IF T = {} THEN Flat ELSE Fall(h[T \ {Max(T)}], rows[s[Max(T)]].pnl)])[DOMAIN s]
    BY Zenon DEF FoldLeft, MapThenFoldSet
  <2>3. (CHOOSE h : h = [T \in SUBSET DOMAIN s |->
                              IF T = {} THEN Flat ELSE Fall(h[T \ {Max(T)}], rows[s[Max(T)]].pnl)])[DOMAIN s]
        = f[D]
    BY <1>2, Zenon DEF IsFall
  <2> QED
    BY <2>1, <2>2, <2>3
<1>5. \E h : IsFall(h, n, rows, s)
  BY <1>2, FallExists
<1>6. IsFall(f, n, rows, s)
  BY <1>5
<1>7. ASSUME NEW T \in SUBSET D
      PROVE  f[T] = IF T = {} THEN Flat ELSE Fall(f[T \ {Max(T)}], rows[s[Max(T)]].pnl)
  <2> HIDE DEF f
  <2> QED
    BY <1>6 DEF IsFall
<1> HIDE DEF f
<1>8. \A k \in 0..n : 1..k \in SUBSET D /\ g[k] = f[1..k]
  BY <1>2
<1>9. g[0] = Flat
  <2>1. 1..0 = {} /\ 0 \in 0..n
    BY <1>2
  <2> HIDE DEF g, D
  <2>2. f[{}] = Flat
    BY <1>7
  <2> QED
    BY <1>8, <2>1, <2>2
<1>10. /\ p \in [0..n -> Int] /\ p[0] = 0
       /\ \A k \in 1..n : p[k] - p[k - 1] = rows[s[k]].pnl
  <2>1. /\ Sofar(rows, s, 0) = 0 /\ \A k \in 0..n : Sofar(rows, s, k) \in Int
        /\ \A k \in 1..n : Sofar(rows, s, k) - Sofar(rows, s, k - 1) = rows[s[k]].pnl
    BY <1>1, SofarAdds
  <2>2. \A k \in 1..n : k \in 0..n /\ k - 1 \in 0..n
    BY <1>2
  <2> QED
    BY <1>2, <2>1, <2>2
<1>11. ASSUME NEW k \in 1..n PROVE g[k] = Fall(g[k - 1], p[k] - p[k - 1])
  <2>1. PICK T \in SUBSET D : T = 1..k
    BY <1>2
  <2>2. T # {} /\ Max(T) = k /\ T \ {k} = 1..(k - 1)
    BY <2>1, MaxOfRange
  <2>3. f[T] = Fall(f[1..(k - 1)], rows[s[k]].pnl)
    BY <1>7, <2>2
  <2>4. g[k] = f[T] /\ g[k - 1] = f[1..(k - 1)]
    BY <1>2, <2>1
  <2> HIDE DEF g, p
  <2> QED
    BY <1>10, <2>3, <2>4
<1>12. g[n] = f[D]
  BY <1>2
<1> HIDE DEF g, p, D
<1>13. Falls(g, p, n)
  BY <1>2, <1>9, <1>10, <1>11 DEF Falls
<1> QED
  BY <1>3, <1>12, <1>13 DEF p

\* The largest fall over the line: it is one between two places, and no other
\* is deeper.
LEMMA DeepestFall ==
    ASSUME NEW rows, Whole(rows), NEW now, NEW S, S = Within(rows, now - PerDay, now),
           NEW s, s = OfPeriod(rows, now, "daily"), NEW n, n = Cardinality(S)
    PROVE  LET max == MaxDrawdown(rows, now, "daily")
           IN  /\ max \in Int
               /\ \E j \in 0..n, i \in 0..n : i <= j /\ max = Sofar(rows, s, i) - Sofar(rows, s, j)
               /\ \A j \in 0..n, i \in 0..n : i <= j => Sofar(rows, s, i) - Sofar(rows, s, j) <= max
<1> DEFINE p == [k \in 0..n |-> Sofar(rows, s, k)]
<1>1. PICK g : Falls(g, p, n) /\ MaxDrawdown(rows, now, "daily") = g[n].max
  BY FallsAlong
<1>2. n \in 0..n /\ p \in [0..n -> Int] /\ \A k \in 0..n : p[k] = Sofar(rows, s, k)
  BY <1>1 DEF Falls
<1> HIDE DEF p
<1>3. Fallen(g, p, n)
  BY <1>1, <1>2, FallsTell
<1>4. /\ \E j \in 0..n, i \in 0..n : i <= j /\ g[n].max = p[i] - p[j]
      /\ \A j \in 0..n, i \in 0..n : i <= j => p[i] - p[j] <= g[n].max
  BY <1>3 DEF Fallen
<1>5. g[n].max \in Int
  BY <1>2, <1>4
<1> QED
  BY <1>1, <1>2, <1>4, <1>5

\* A set of integers with a bound in it.
LEMMA ExtremeOf ==
    ASSUME NEW W \in SUBSET Int, W # {}, NEW b \in Int, \A x \in W : x <= b
    PROVE  Extreme(W) \in W /\ \A y \in W : y <= Extreme(W)
<1>1. \E x \in W : \A y \in W : y <= x
  BY Greatest
<1> QED
  BY <1>1 DEF Extreme

\* As many times as rows: none was written at the time of another.
LEMMA TimesApart ==
    ASSUME NEW rows, NEW S, IsFiniteSet(S),
           Cardinality({rows[i].updatedAt : i \in S}) = Cardinality(S)
    PROVE  \A i, j \in S : rows[i].updatedAt = rows[j].updatedAt => i = j
<1> DEFINE times == {rows[i].updatedAt : i \in S}
           f == [i \in S |-> rows[i].updatedAt]
<1>1. f \in Surjection(S, times)
  BY DEF Surjection
<1> HIDE DEF f, times
<1>2. f \in Injection(S, times)
  BY <1>1, FS_Surjection DEF times
<1>3. \A i, j \in S : f[i] = f[j] => i = j
  BY <1>2 DEF Injection, IsInjective
<1> QED
  BY <1>3 DEF f

\* Where no two share a time each row's own time cuts after it.
LEMMA OwnCut ==
    ASSUME NEW rows, Whole(rows), NEW S, NEW s, NEW n, Lined(rows, S, s, n),
           \A i, j \in S : rows[i].updatedAt = rows[j].updatedAt => i = j,
           NEW k \in 1..n
    PROVE  Cut(rows, s, n, rows[s[k]].updatedAt, k)
<1>1. /\ n \in Nat /\ k \in 0..n
      /\ \A a \in 1..n : s[a] \in S /\ rows[s[a]].updatedAt \in Int
  BY DEF Lined, Whole
<1>2. ASSUME NEW a \in 1..n PROVE a <= k <=> rows[s[a]].updatedAt <= rows[s[k]].updatedAt
  <2>1. CASE a = k
    BY <1>1, <2>1
  <2>2. CASE a < k
    BY <2>2 DEF Lined
  <2>3. CASE k < a
    <3>1. s[k] # s[a] /\ rows[s[k]].updatedAt <= rows[s[a]].updatedAt
      BY <2>3 DEF Lined
    <3>2. rows[s[k]].updatedAt # rows[s[a]].updatedAt
      BY <1>1, <3>1
    <3> QED
      BY <1>1, <2>3, <3>1, <3>2
  <2> QED
    BY <1>1, <2>1, <2>2, <2>3
<1> QED
  BY <1>1, <1>2 DEF Cut

\* Of the rows of S the largest fall is the worst one from a time to a later
\* one, or deeper where rows share a time.
Largest(rows, now, S) ==
    LET upTo(t) == PnlOf(rows, {i \in S : rows[i].updatedAt <= t})
        times == {rows[i].updatedAt : i \in S}
        worst == Extreme({0} \cup {-upTo(t) : t \in times}
                         \cup {upTo(p[1]) - upTo(p[2]) : p \in {p \in times \X times : p[1] <= p[2]}})
    IN  /\ MaxDrawdown(rows, now, "daily") >= worst
        /\ Cardinality(times) = Cardinality(S) => MaxDrawdown(rows, now, "daily") = worst

\* That is what the fold over the line comes to.
LEMMA FallOfTable ==
    ASSUME NEW rows, Whole(rows), NEW now, NEW S, S = Within(rows, now - PerDay, now)
    PROVE  Largest(rows, now, S)
<1> DEFINE n == Cardinality(S)
           s == OfPeriod(rows, now, "daily")
           M == MaxDrawdown(rows, now, "daily")
           Q(k) == Sofar(rows, s, k)
           up(t) == PnlOf(rows, {i \in S : rows[i].updatedAt <= t})
           times == {rows[i].updatedAt : i \in S}
           W == {0} \cup {-up(t) : t \in times}
                    \cup {up(p[1]) - up(p[2]) : p \in {p \in times \X times : p[1] <= p[2]}}
<1>1. Lined(rows, S, s, n)
  BY PeriodLined
<1>2. n \in Nat /\ S \subseteq DOMAIN rows /\ IsFiniteSet(S) /\ \A k \in 1..n : s[k] \in S
  BY <1>1 DEF Lined
<1>3. times \subseteq Int
  BY <1>2 DEF Whole
<1>4. Q(0) = 0 /\ \A k \in 0..n : Q(k) \in Int
  BY <1>1, SofarAdds
<1>5. /\ M \in Int
      /\ \E j \in 0..n, i \in 0..n : i <= j /\ M = Q(i) - Q(j)
      /\ \A j \in 0..n, i \in 0..n : i <= j => Q(i) - Q(j) <= M
  BY DeepestFall
<1>6. \A t, k : Cut(rows, s, n, t, k) => up(t) = Q(k)
  BY <1>1, CutSums
<1>7. \A t \in Int : \E k \in 0..n : Cut(rows, s, n, t, k)
  BY <1>1, CutExists
<1>8. \A t, u \in Int : \A j, k : t <= u /\ Cut(rows, s, n, t, j) /\ Cut(rows, s, n, u, k) => j <= k
  BY <1>1, CutsOrdered
<1> HIDE DEF n, s, M, Q, up
<1>9. \A t \in times : up(t) \in Int /\ -up(t) <= M
  <2> TAKE t \in times
  <2>1. PICK k \in 0..n : Cut(rows, s, n, t, k)
    BY <1>3, <1>7
  <2>2. up(t) = Q(k) /\ 0 \in 0..n /\ 0 <= k
    BY <1>2, <1>6, <2>1
  <2>3. Q(0) - Q(k) <= M
    BY <1>5, <2>2
  <2> QED
    BY <1>4, <2>2, <2>3
<1>10. \A t, u \in times : t <= u => up(t) - up(u) <= M
  <2> SUFFICES ASSUME NEW t \in times, NEW u \in times, t <= u PROVE up(t) - up(u) <= M
    OBVIOUS
  <2>1. PICK j \in 0..n : Cut(rows, s, n, t, j)
    BY <1>3, <1>7
  <2>2. PICK k \in 0..n : Cut(rows, s, n, u, k)
    BY <1>3, <1>7
  <2>3. j <= k
    BY <1>3, <1>8, <2>1, <2>2
  <2> QED
    BY <1>5, <1>6, <2>1, <2>2, <2>3
<1>11. 0 <= M
  <2>1. 0 \in 0..n /\ 0 <= 0
    BY <1>2
  <2>2. Q(0) - Q(0) <= M
    BY <1>5, <2>1
  <2> QED
    BY <1>4, <2>2
<1> HIDE DEF times
<1>12. W \in SUBSET Int /\ 0 \in W /\ \A w \in W : w <= M
  <2>1. ASSUME NEW p \in {p \in times \X times : p[1] <= p[2]}
        PROVE  up(p[1]) - up(p[2]) \in Int /\ up(p[1]) - up(p[2]) <= M
    BY <1>9, <1>10
  <2>2. ASSUME NEW t \in times PROVE -up(t) \in Int /\ -up(t) <= M
    BY <1>9
  <2> QED
    BY <1>11, <2>1, <2>2
<1>13. \A t \in times : -up(t) \in W
  OBVIOUS
<1>14. \A t, u \in times : t <= u => up(t) - up(u) \in W
  <2> SUFFICES ASSUME NEW t \in times, NEW u \in times, t <= u PROVE up(t) - up(u) \in W
    OBVIOUS
  <2>1. <<t, u>> \in {p \in times \X times : p[1] <= p[2]}
    OBVIOUS
  <2>2. up(<<t, u>>[1]) - up(<<t, u>>[2]) \in W
    BY <2>1
  <2> QED
    BY <2>2
<1> HIDE DEF W
<1>15. Extreme(W) \in W /\ \A w \in W : w <= Extreme(W)
  <2>1. W # {} /\ M \in Int
    BY <1>5, <1>12
  <2> QED
    BY <1>12, <2>1, ExtremeOf
<1>16. Extreme(W) \in Int /\ M >= Extreme(W)
  BY <1>5, <1>12, <1>15
<1>17. ASSUME Cardinality(times) = Cardinality(S) PROVE M \in W
  <2>1. \A i, j \in S : rows[i].updatedAt = rows[j].updatedAt => i = j
    BY <1>2, <1>17, TimesApart DEF times
  <2>2. \A k \in 1..n : rows[s[k]].updatedAt \in times /\ Cut(rows, s, n, rows[s[k]].updatedAt, k)
    BY <1>1, <1>2, <2>1, OwnCut DEF times
  <2>3. \A k \in 1..n : up(rows[s[k]].updatedAt) = Q(k)
    BY <1>6, <2>2
  <2>4. PICK j \in 0..n, i \in 0..n : i <= j /\ M = Q(i) - Q(j)
    BY <1>5
  <2>5. CASE j = 0
    <3>1. i = 0
      BY <2>4, <2>5
    <3> QED
      BY <1>4, <1>12, <2>4, <2>5, <3>1
  <2>6. CASE j # 0 /\ i = 0
    <3>1. j \in 1..n
      BY <2>6
    <3>2. M = -up(rows[s[j]].updatedAt)
      BY <1>4, <2>3, <2>4, <2>6, <3>1
    <3> QED
      BY <1>13, <2>2, <3>1, <3>2
  <2>7. CASE j # 0 /\ i # 0
    <3>1. j \in 1..n /\ i \in 1..n
      BY <2>7
    <3>2. rows[s[i]].updatedAt <= rows[s[j]].updatedAt
      BY <2>2, <2>4, <3>1 DEF Cut
    <3>3. M = up(rows[s[i]].updatedAt) - up(rows[s[j]].updatedAt)
      BY <2>3, <2>4, <3>1
    <3> QED
      BY <1>14, <2>2, <3>1, <3>2, <3>3
  <2> QED
    BY <2>5, <2>6, <2>7
<1>18. Cardinality(times) = Cardinality(S) => M = Extreme(W)
  BY <1>5, <1>15, <1>16, <1>17
<1> QED
  BY <1>16, <1>18 DEF M, W, times, up, Largest

\* What a table of trades is.
LEMMA TablesWhole ==
    ASSUME TypeOK, NEW o \in [1..Cardinality(Placed) -> Placed]
    PROVE  Whole(Table(o))
<1>1. DOMAIN Table(o) \subseteq Int
  BY DEF Table
<1> QED
  BY <1>1, Tables DEF Whole

\* The largest fall (ActivityService.calculateTraderMetrics) is the worst of a
\* day for any trades, at any time and in any order of the rows.
THEOREM LargestFall == Spec => []FallIsLargest
<1>1. TypeOK => FallIsLargest
  <2> SUFFICES ASSUME TypeOK, NEW rows \in AnyTable
               PROVE  Largest(rows, clock, Within(rows, clock - PerDay, clock))
    BY DEF FallIsLargest, Largest
  <2>1. PICK o \in [1..Cardinality(Placed) -> Placed] : rows = Table(o)
    BY DEF AnyTable, SetToSeqs
  <2>2. Whole(rows)
    BY <2>1, TablesWhole
  <2> QED
    BY <2>2, FallOfTable
<1>2. IInv => TypeOK
  BY DEF IInv
<1> QED
  BY <1>1, <1>2, Inductive, PTL
-----------------------------------------------------------------------------
(* the curves *)

\* c adds up what the n days made, as PerformanceCurve does.
IsCurve(c, n, rows, now, days, dates) ==
    c = [k \in 0..n |-> IF k = 0 THEN 0 ELSE c[k - 1] + OnDay(rows, now, days, dates[k])]

CurveOf(n, rows, now, days, dates) == CHOOSE c : IsCurve(c, n, rows, now, days, dates)

\* f falls from day to day, as DrawdownCurve does.
IsDrawdown(f, n, rows, now, days, dates) ==
    f = [k \in 0..n |-> IF k = 0 THEN Flat ELSE Fall(f[k - 1], OnDay(rows, now, days, dates[k]))]

DrawdownOf(n, rows, now, days, dates) == CHOOSE f : IsDrawdown(f, n, rows, now, days, dates)

\* What a day made is a whole number.
LEMMA DayWhole ==
    ASSUME NEW rows, Whole(rows), NEW now, NEW days
    PROVE  \A day : OnDay(rows, now, days, day) \in Int
<1>1. /\ IsFiniteSet(DOMAIN rows) /\ \A i \in DOMAIN rows : rows[i].pnl \in Int
      /\ \A T \in SUBSET DOMAIN rows : PnlOf(rows, T) \in Int
  BY PnlAdds DEF Whole
<1> TAKE day
<1>2. {i \in Within(rows, CurveStart(now, days), now) : DayOf(rows[i].updatedAt) = day} \in SUBSET DOMAIN rows
  BY DEF Within
<1> QED
  BY <1>1, <1>2 DEF OnDay

\* Steps that add are sums, and the function that is chosen makes them.
LEMMA CurveSteps ==
    ASSUME NEW rows, Whole(rows), NEW now, NEW days, NEW dates,
           dates = DateArray(CurveStart(now, days), now), NEW n \in Nat, Len(dates) = n, DOMAIN dates = 1..n
    PROVE  \E c : /\ c \in [0..n -> Int] /\ c[0] = 0
                  /\ \A k \in 1..n : c[k] = c[k - 1] + OnDay(rows, now, days, dates[k])
                  /\ PerformanceCurve(rows, now, days) = [k \in 1..n |-> c[k]]
<1> DEFINE On(k) == OnDay(rows, now, days, dates[k])
           c == CurveOf(n, rows, now, days, dates)
           step == [x \in (1..n) \X Int |-> x[2] + On(x[1])]
<1>1. \A k \in 1..n : On(k) \in Int
  BY DayWhole
<1>2. \E g : IsCurve(g, n, rows, now, days, dates)
  <2>1. step \in [(1..n) \X Int -> Int]
    <3> HIDE DEF On
    <3> QED
      BY <1>1
  <2> HIDE DEF step
  <2>2. PICK g \in [0..n -> Int] : g[0] = 0 /\ \A k \in 1..n : g[k] = step[<<k, g[k - 1]>>]
    <3>1. PICK V, z : V = Int /\ z = 0
      OBVIOUS
    <3>2. z \in V /\ step \in [(1..n) \X V -> V]
      BY <2>1, <3>1
    <3>3. \E g : StepsTo(g, n, V, z, step)
      BY <3>2, StepsExist
    <3> QED
      BY <3>1, <3>3 DEF StepsTo
  <2>3. ASSUME NEW k \in 1..n PROVE g[k] = g[k - 1] + On(k)
    <3>1. <<k, g[k - 1]>> \in (1..n) \X Int
      BY <2>2
    <3> HIDE DEF On
    <3> QED
      BY <2>2, <3>1 DEF step
  <2>4. \A k \in 0..n : g[k] = IF k = 0 THEN 0 ELSE g[k - 1] + OnDay(rows, now, days, dates[k])
    <3>1. \A k \in 0..n : k = 0 \/ k \in 1..n
      OBVIOUS
    <3> QED
      BY <2>2, <2>3, <3>1
  <2>5. g = [k \in 0..n |-> g[k]]
    BY <2>2
  <2>6. g = [k \in 0..n |-> IF k = 0 THEN 0 ELSE g[k - 1] + OnDay(rows, now, days, dates[k])]
    BY <2>4, <2>5, Zenon
  <2> QED
    BY <2>6 DEF IsCurve
<1>3. IsCurve(c, n, rows, now, days, dates)
  BY <1>2 DEF CurveOf
<1>4. PerformanceCurve(rows, now, days) = [k \in 1..n |-> c[k]]
  <2>1. PerformanceCurve(rows, now, days)
        = [k \in DOMAIN DateArray(CurveStart(now, days), now) |->
              CurveOf(Len(DateArray(CurveStart(now, days), now)), rows, now, days, DateArray(CurveStart(now, days), now))[k]]
    BY Zenon DEF PerformanceCurve, IsCurve, CurveOf
  <2> QED
    BY <2>1
<1> HIDE DEF c
<1>5. DOMAIN c = 0..n /\ \A k \in 0..n : c[k] = IF k = 0 THEN 0 ELSE c[k - 1] + On(k)
  BY <1>3 DEF IsCurve
<1>6. \A k \in 0..n : c[k] \in Int
  <2> DEFINE Bad == {k \in 0..n : c[k] \notin Int}
  <2>1. SUFFICES ASSUME Bad # {} PROVE FALSE
    OBVIOUS
  <2>2. PICK m \in Bad : \A k \in Bad : m <= k
    <3>1. Bad \in SUBSET Nat
      OBVIOUS
    <3> HIDE DEF Bad
    <3> QED
      BY <2>1, <3>1, Least
  <2>3. m \in 0..n /\ c[m] \notin Int
    BY <2>2
  <2>4. m # 0
    BY <1>5, <2>3
  <2>5. m - 1 \in 0..n /\ m \in 1..n /\ ~(m <= m - 1)
    BY <2>3, <2>4
  <2>6. c[m - 1] \in Int
    BY <2>2, <2>5
  <2> HIDE DEF On
  <2> QED
    BY <1>1, <1>5, <2>3, <2>4, <2>5, <2>6
<1>7. c \in [0..n -> Int]
  <2>1. c = [k \in 0..n |-> c[k]]
    BY <1>3 DEF IsCurve
  <2> QED
    BY <1>6, <2>1
<1>8. c[0] = 0 /\ \A k \in 1..n : c[k] = c[k - 1] + On(k)
  <2>1. 0 \in 0..n /\ \A k \in 1..n : k \in 0..n /\ k # 0
    OBVIOUS
  <2> HIDE DEF On
  <2> QED
    BY <1>5, <2>1
<1> QED
  BY <1>4, <1>7, <1>8

\* So do those that fall.
LEMMA DrawdownSteps ==
    ASSUME NEW rows, Whole(rows), NEW now, NEW days, NEW dates,
           dates = DateArray(CurveStart(now, days), now), NEW n \in Nat, Len(dates) = n, DOMAIN dates = 1..n
    PROVE  \E f : /\ f[0] = Flat
                  /\ \A k \in 1..n : f[k] = Fall(f[k - 1], OnDay(rows, now, days, dates[k]))
                  /\ DrawdownCurve(rows, now, days) = [k \in 1..n |-> f[k].cumulative - f[k].peak]
<1> DEFINE On(k) == OnDay(rows, now, days, dates[k])
           f == DrawdownOf(n, rows, now, days, dates)
<1>1. \A k \in 1..n : On(k) \in Int
  BY DayWhole
<1>2. \E g : IsDrawdown(g, n, rows, now, days, dates)
  <2>1. PICK V : V = [cumulative : Int, peak : Int, max : Int]
    OBVIOUS
  <2>2. Flat \in V /\ \A acc \in V, pnl \in Int : Fall(acc, pnl) \in V
    BY <2>1 DEF Flat, Fall
  <2>3. PICK step : step = [x \in (1..n) \X V |-> Fall(x[2], On(x[1]))]
    OBVIOUS
  <2>4. step \in [(1..n) \X V -> V]
    <3> HIDE DEF On
    <3> QED
      BY <1>1, <2>2, <2>3
  <2>5. PICK g \in [0..n -> V] : g[0] = Flat /\ \A k \in 1..n : g[k] = step[<<k, g[k - 1]>>]
    <3>1. \E g : StepsTo(g, n, V, Flat, step)
      BY <2>2, <2>4, StepsExist
    <3> QED
      BY <3>1 DEF StepsTo
  <2>6. ASSUME NEW k \in 1..n PROVE g[k] = Fall(g[k - 1], On(k))
    <3>1. <<k, g[k - 1]>> \in (1..n) \X V
      BY <2>5
    <3> HIDE DEF On
    <3> QED
      BY <2>3, <2>5, <3>1
  <2>7. \A k \in 0..n : g[k] = IF k = 0 THEN Flat ELSE Fall(g[k - 1], OnDay(rows, now, days, dates[k]))
    <3>1. \A k \in 0..n : k = 0 \/ k \in 1..n
      OBVIOUS
    <3> QED
      BY <2>5, <2>6, <3>1
  <2>8. g = [k \in 0..n |-> g[k]]
    BY <2>5
  <2>9. g = [k \in 0..n |-> IF k = 0 THEN Flat ELSE Fall(g[k - 1], OnDay(rows, now, days, dates[k]))]
    BY <2>7, <2>8, Zenon
  <2> QED
    BY <2>9 DEF IsDrawdown
<1>3. IsDrawdown(f, n, rows, now, days, dates)
  BY <1>2 DEF DrawdownOf
<1>4. DrawdownCurve(rows, now, days) = [k \in 1..n |-> f[k].cumulative - f[k].peak]
  <2>1. DrawdownCurve(rows, now, days)
        = [k \in DOMAIN DateArray(CurveStart(now, days), now) |->
              DrawdownOf(Len(DateArray(CurveStart(now, days), now)), rows, now, days, DateArray(CurveStart(now, days), now))[k].cumulative
              - DrawdownOf(Len(DateArray(CurveStart(now, days), now)), rows, now, days, DateArray(CurveStart(now, days), now))[k].peak]
    BY Zenon DEF DrawdownCurve, IsDrawdown, DrawdownOf
  <2> QED
    BY <2>1
<1> HIDE DEF f
<1>5. \A k \in 0..n : f[k] = IF k = 0 THEN Flat ELSE Fall(f[k - 1], On(k))
  BY <1>3 DEF IsDrawdown
<1>6. f[0] = Flat /\ \A k \in 1..n : f[k] = Fall(f[k - 1], On(k))
  <2>1. 0 \in 0..n /\ \A k \in 1..n : k \in 0..n /\ k # 0
    OBVIOUS
  <2> HIDE DEF On
  <2> QED
    BY <1>5, <2>1
<1> QED
  BY <1>4, <1>6

\* The days of a curve.
LEMMA CurveDays ==
    ASSUME NEW now \in Int, NEW days \in {1, 2}, NEW dates, dates = DateArray(CurveStart(now, days), now)
    PROVE  /\ Len(dates) = days /\ DOMAIN dates = 1..days
           /\ \A k \in 1..days : dates[k] = DayOf(CurveStart(now, days)) + k - 1
<1>1. (now - CurveStart(now, days)) \div PerDay + 1 = days
  BY DEF CurveStart, PerDay
<1>2. dates = [k \in 1..days |-> DayOf(CurveStart(now, days)) + k - 1]
  BY <1>1 DEF DateArray
<1>3. DOMAIN dates = 1..days /\ dates \in Seq(Int)
  <2>1. DayOf(CurveStart(now, days)) \in Int
    BY DEF DayOf, PerDay, CurveStart
  <2> QED
    BY <1>2, <2>1
<1>4. Len(dates) = days
  BY <1>3
<1> QED
  BY <1>2, <1>3, <1>4

\* A day of the curve is one of its window: the first day is what was written
\* up to its end, and with the second it is all of it.
LEMMA WindowDays ==
    ASSUME NEW now \in Int, NEW t \in Int
    PROVE  /\ CurveStart(now, 1) <= t /\ t <= now => DayOf(t) = DayOf(CurveStart(now, 1))
           /\ LET d == DayOf(CurveStart(now, 2))
              IN  /\ d \in Int
                  /\ CurveStart(now, 2) <= t /\ t <= now =>
                         /\ DayOf(t) = d \/ DayOf(t) = d + 1
                         /\ DayOf(t) = d <=> t <= 2 * d + 1
<1>1. CurveStart(now, 1) = now /\ CurveStart(now, 2) = now - 2
  BY DEF CurveStart, PerDay
<1>2. \A x \in Int : DayOf(x) \in Int /\ 2 * DayOf(x) <= x /\ x <= 2 * DayOf(x) + 1
  BY DEF DayOf, PerDay
<1>3. PICK d, e \in Int : d = DayOf(now - 2) /\ e = DayOf(t)
  <2>1. now - 2 \in Int
    OBVIOUS
  <2>2. DayOf(now - 2) \in Int /\ DayOf(t) \in Int
    BY <1>2, <2>1
  <2> QED
    BY <2>2
<1>4. 2 * d <= now - 2 /\ now - 2 <= 2 * d + 1 /\ 2 * e <= t /\ t <= 2 * e + 1
  <2>1. now - 2 \in Int
    OBVIOUS
  <2> QED
    BY <1>2, <1>3, <2>1
<1>5. now - 2 <= t /\ t <= now => (e = d \/ e = d + 1) /\ (e = d <=> t <= 2 * d + 1)
  BY <1>4
<1>6. now <= t /\ t <= now => t = now
  OBVIOUS
<1> QED
  BY <1>1, <1>3, <1>5, <1>6

\* c has the sums the curves of a table show, day by day.
Tells(c, rows, now, days) ==
    /\ c \in [0..days -> Int] /\ c[0] = 0
    /\ \A k \in 1..days :
          c[k] = c[k - 1] + OnDay(rows, now, days, DayOf(CurveStart(now, days)) + k - 1)
    /\ PerformanceCurve(rows, now, days) = [k \in 1..days |-> c[k]]
    /\ DOMAIN DrawdownCurve(rows, now, days) = 1..days
    /\ \A k \in 1..days :
          LET fall == DrawdownCurve(rows, now, days)[k]
          IN  /\ fall = c[k] - Extreme({0} \cup {c[i] : i \in 1..k})
              /\ \E i \in 0..k : -fall = c[i] - c[k]

\* The curves come to the sums, the falls come from the highest day.
LEMMA CurvesTell ==
    ASSUME NEW rows, Whole(rows), NEW now \in Int, NEW days \in {1, 2}
    PROVE  \E c : Tells(c, rows, now, days)
<1>1. PICK dates : dates = DateArray(CurveStart(now, days), now)
  OBVIOUS
<1>2. /\ Len(dates) = days /\ DOMAIN dates = 1..days /\ days \in Nat
      /\ \A k \in 1..days : dates[k] = DayOf(CurveStart(now, days)) + k - 1
  <2>1. days \in Nat
    OBVIOUS
  <2>2. /\ Len(dates) = days /\ DOMAIN dates = 1..days
        /\ \A k \in 1..days : dates[k] = DayOf(CurveStart(now, days)) + k - 1
    BY <1>1, CurveDays
  <2> QED
    BY <2>1, <2>2
<1>3. PICK c : /\ c \in [0..days -> Int] /\ c[0] = 0
               /\ \A k \in 1..days : c[k] = c[k - 1] + OnDay(rows, now, days, dates[k])
               /\ PerformanceCurve(rows, now, days) = [k \in 1..days |-> c[k]]
  BY <1>1, <1>2, CurveSteps
<1>4. PICK f : /\ f[0] = Flat
               /\ \A k \in 1..days : f[k] = Fall(f[k - 1], OnDay(rows, now, days, dates[k]))
               /\ DrawdownCurve(rows, now, days) = [k \in 1..days |-> f[k].cumulative - f[k].peak]
  BY <1>1, <1>2, DrawdownSteps
<1>5. Falls(f, c, days)
  <2>1. ASSUME NEW k \in 1..days PROVE f[k] = Fall(f[k - 1], c[k] - c[k - 1])
    <3>1. PICK x \in Int : x = OnDay(rows, now, days, dates[k])
      BY DayWhole
    <3>2. c[k - 1] \in Int /\ c[k] = c[k - 1] + x
      BY <1>2, <1>3, <3>1
    <3>3. c[k] - c[k - 1] = x
      BY <3>2
    <3> QED
      BY <1>4, <3>1, <3>3
  <2> QED
    BY <1>2, <1>3, <1>4, <2>1 DEF Falls
<1>6. ASSUME NEW k \in 1..days
      PROVE  LET fall == DrawdownCurve(rows, now, days)[k]
             IN  /\ fall = c[k] - Extreme({0} \cup {c[i] : i \in 1..k})
                 /\ \E i \in 0..k : -fall = c[i] - c[k]
  <2>1. k \in 0..days /\ k \in Nat /\ \A i \in 0..k : c[i] \in Int
    BY <1>2, <1>3
  <2>2. Fallen(f, c, k)
    BY <1>5, <2>1, FallsTell
  <2>3. PICK top \in Int : top = f[k].peak /\ (\E i \in 0..k : top = c[i]) /\ \A i \in 0..k : c[i] <= top
    BY <2>1, <2>2 DEF Fallen
  <2>4. DrawdownCurve(rows, now, days)[k] = c[k] - top
    BY <1>4, <2>2, <2>3 DEF Fallen
  <2>5. Extreme({0} \cup {c[i] : i \in 1..k}) = top
    <3> DEFINE W == {0} \cup {c[i] : i \in 1..k}
    <3>1. \A x : x \in W <=> \E i \in 0..k : x = c[i]
      <4>1. \A i : i \in 0..k <=> i = 0 \/ i \in 1..k
        BY <2>1
      <4> QED
        BY <1>3, <4>1
    <3> HIDE DEF W
    <3>2. W \in SUBSET Int /\ top \in W /\ \A x \in W : x <= top
      <4>1. \A x \in W : x \in Int /\ x <= top
        BY <2>1, <2>3, <3>1
      <4>2. top \in W
        BY <2>3, <3>1
      <4> QED
        BY <4>1, <4>2
    <3>3. Extreme(W) \in W /\ \A x \in W : x <= Extreme(W)
      BY <3>2, ExtremeOf
    <3>4. Extreme(W) \in Int /\ top <= Extreme(W) /\ Extreme(W) <= top
      BY <3>2, <3>3
    <3> QED
      BY <3>4 DEF W
  <2>6. PICK i \in 0..k : top = c[i]
    BY <2>3
  <2>7. -(c[k] - top) = c[i] - c[k]
    BY <2>1, <2>6
  <2> QED
    BY <2>4, <2>5, <2>7
<1>7. DOMAIN DrawdownCurve(rows, now, days) = 1..days
  BY <1>4
<1>8. \A k \in 1..days :
         c[k] = c[k - 1] + OnDay(rows, now, days, DayOf(CurveStart(now, days)) + k - 1)
  BY <1>2, <1>3
<1> QED
  BY <1>3, <1>6, <1>7, <1>8 DEF Tells

\* What CurvesAgree says of a table at a time.
Agreed(rows, now, days) ==
    LET curve == PerformanceCurve(rows, now, days)
        fall  == DrawdownCurve(rows, now, days)
    IN  /\ Len(curve) = days
        /\ curve[days] = PnlOf(rows, Within(rows, CurveStart(now, days), now))
        /\ \A k \in DOMAIN curve :
              /\ fall[k] = curve[k] - Extreme({0} \cup {curve[i] : i \in 1..k})
              /\ days = 2 => -fall[k] <= MaxDrawdown(rows, now, "daily")

\* The days of a window, of which d is the first of two, make what its trades do.
Covered(rows, now, d, S) ==
    /\ OnDay(rows, now, 1, DayOf(CurveStart(now, 1))) = PnlOf(rows, Within(rows, CurveStart(now, 1), now))
    /\ OnDay(rows, now, 2, d) = PnlOf(rows, {i \in S : rows[i].updatedAt <= 2 * d + 1})
    /\ OnDay(rows, now, 2, d) + OnDay(rows, now, 2, d + 1) = PnlOf(rows, S)
    /\ Within(rows, CurveStart(now, 2), now) = S

\* They do.
LEMMA DaysCover ==
    ASSUME NEW rows, Whole(rows), NEW now \in Int,
           NEW d, d = DayOf(CurveStart(now, 2)), NEW S, S = Within(rows, now - PerDay, now)
    PROVE  Covered(rows, now, d, S)
<1> DEFINE T == Within(rows, CurveStart(now, 1), now)
<1>1. CurveStart(now, 2) = now - PerDay
  BY DEF CurveStart, PerDay
<1>3. \A i \in DOMAIN rows : rows[i].updatedAt \in Int
  BY DEF Whole
<1>4. \A i \in T : DayOf(rows[i].updatedAt) = DayOf(CurveStart(now, 1))
  BY <1>3, WindowDays DEF Within
<1>5. d \in Int
  <2>1. now \in Int
    OBVIOUS
  <2> QED
    BY <2>1, WindowDays
<1>6. ASSUME NEW i \in S
      PROVE  /\ DayOf(rows[i].updatedAt) = d \/ DayOf(rows[i].updatedAt) = d + 1
             /\ DayOf(rows[i].updatedAt) = d <=> rows[i].updatedAt <= 2 * d + 1
  <2>1. rows[i].updatedAt \in Int /\ CurveStart(now, 2) <= rows[i].updatedAt /\ rows[i].updatedAt <= now
    BY <1>1, <1>3 DEF Within
  <2> QED
    BY <2>1, WindowDays
<1> DEFINE A == {i \in S : DayOf(rows[i].updatedAt) = d}
           B == {i \in S : DayOf(rows[i].updatedAt) = d + 1}
<1>7. A = {i \in S : rows[i].updatedAt <= 2 * d + 1}
  BY <1>6
<1>8. A \cup B = S /\ A \cap B = {}
  <2>1. d # d + 1
    BY <1>5
  <2> QED
    BY <1>6, <2>1
<1>9. PnlOf(rows, A) + PnlOf(rows, B) = PnlOf(rows, S)
  <2>1. A \in SUBSET DOMAIN rows /\ B \in SUBSET DOMAIN rows
    BY DEF Within
  <2>2. \A U, V \in SUBSET DOMAIN rows :
            U \cap V = {} => PnlOf(rows, U \cup V) = PnlOf(rows, U) + PnlOf(rows, V)
    BY PnlAdds DEF Whole
  <2> HIDE DEF A, B
  <2> QED
    BY <1>8, <2>1, <2>2
<1>10. OnDay(rows, now, 2, d) = PnlOf(rows, A) /\ OnDay(rows, now, 2, d + 1) = PnlOf(rows, B)
  BY <1>1 DEF OnDay
<1>11. OnDay(rows, now, 1, DayOf(CurveStart(now, 1))) = PnlOf(rows, T)
  <2>1. {i \in T : DayOf(rows[i].updatedAt) = DayOf(CurveStart(now, 1))} = T
    BY <1>4
  <2> QED
    BY <2>1 DEF OnDay
<1>12. /\ OnDay(rows, now, 2, d) = PnlOf(rows, {i \in S : rows[i].updatedAt <= 2 * d + 1})
       /\ OnDay(rows, now, 2, d) + OnDay(rows, now, 2, d + 1) = PnlOf(rows, S)
       /\ Within(rows, CurveStart(now, 2), now) = S
  <2> HIDE DEF A, B
  <2> QED
    BY <1>1, <1>7, <1>9, <1>10
<1> QED
  BY <1>11, <1>12 DEF Covered

\* The last day of two falls no deeper than a fall between two trades.
LEMMA DayFalls ==
    ASSUME NEW rows, Whole(rows), NEW now \in Int, NEW c \in [0..2 -> Int], c[0] = 0,
           \A k \in 1..2 : c[k] = c[k - 1] + OnDay(rows, now, 2, DayOf(CurveStart(now, 2)) + k - 1),
           NEW m \in 0..2, NEW l \in 0..m
    PROVE  c[l] - c[m] <= MaxDrawdown(rows, now, "daily")
<1>1. PICK S : S = Within(rows, now - PerDay, now)
  OBVIOUS
<1>2. PICK s, n : s = OfPeriod(rows, now, "daily") /\ n = Cardinality(S)
  OBVIOUS
<1>3. Lined(rows, S, s, n)
  BY <1>1, <1>2, PeriodLined
<1>4. n \in Nat
  BY <1>3 DEF Lined
<1>5. PICK d \in Int : d = DayOf(CurveStart(now, 2))
  <2>1. now \in Int
    OBVIOUS
  <2> QED
    BY <2>1, WindowDays
<1>6. /\ OnDay(rows, now, 2, d) = PnlOf(rows, {i \in S : rows[i].updatedAt <= 2 * d + 1})
      /\ OnDay(rows, now, 2, d) + OnDay(rows, now, 2, d + 1) = PnlOf(rows, S)
  <2>1. Covered(rows, now, d, S)
    BY <1>1, <1>5, DaysCover
  <2> QED
    BY <2>1 DEF Covered
<1>7. PICK x, y \in Int : x = OnDay(rows, now, 2, d) /\ y = OnDay(rows, now, 2, d + 1)
  BY DayWhole
<1>8. c[1] = x /\ c[2] = x + y
  <2>1. d + 1 - 1 = d /\ d + 2 - 1 = d + 1 /\ 1 \in 1..2 /\ 2 \in 1..2 /\ 1 - 1 = 0 /\ 2 - 1 = 1
    BY <1>5
  <2>2. c[1] = c[1 - 1] + OnDay(rows, now, 2, d + 1 - 1) /\ c[2] = c[2 - 1] + OnDay(rows, now, 2, d + 2 - 1)
    BY <1>5, <2>1
  <2>3. c[1] = 0 + x /\ c[2] = c[1] + y
    BY <1>7, <2>1, <2>2
  <2> QED
    BY <1>7, <2>3
<1>9. PICK j \in 0..n : Cut(rows, s, n, 2 * d + 1, j)
  <2>1. 2 * d + 1 \in Int
    BY <1>5
  <2> QED
    BY <1>3, <2>1, CutExists
<1>10. c[1] = Sofar(rows, s, j)
  BY <1>3, <1>6, <1>7, <1>8, <1>9, CutSums
<1>11. c[2] = Sofar(rows, s, n) /\ c[0] = Sofar(rows, s, 0)
  BY <1>3, <1>6, <1>7, <1>8, SofarAdds
<1>12. \A b \in 0..n, a \in 0..n :
           a <= b => Sofar(rows, s, a) - Sofar(rows, s, b) <= MaxDrawdown(rows, now, "daily")
  BY <1>1, <1>2, DeepestFall
<1> DEFINE at == [k \in 0..2 |-> IF k = 0 THEN 0 ELSE IF k = 1 THEN j ELSE n]
<1>13. \A k \in 0..2 : at[k] \in 0..n /\ c[k] = Sofar(rows, s, at[k])
  <2>1. \A k \in 0..2 : k = 0 \/ k = 1 \/ k = 2
    OBVIOUS
  <2> QED
    BY <1>4, <1>9, <1>10, <1>11, <2>1
<1>14. l \in 0..2 /\ at[l] <= at[m]
  BY <1>4, <1>9
<1> HIDE DEF at
<1> QED
  BY <1>12, <1>13, <1>14

\* The curves of a table agree.
LEMMA CurvesOfTable ==
    ASSUME NEW rows, Whole(rows), NEW now \in Int, NEW days \in {1, 2}
    PROVE  Agreed(rows, now, days)
<1>1. PICK c : /\ c \in [0..days -> Int] /\ c[0] = 0
               /\ \A k \in 1..days :
                     c[k] = c[k - 1] + OnDay(rows, now, days, DayOf(CurveStart(now, days)) + k - 1)
               /\ PerformanceCurve(rows, now, days) = [k \in 1..days |-> c[k]]
               /\ DOMAIN DrawdownCurve(rows, now, days) = 1..days
               /\ \A k \in 1..days :
                     LET fall == DrawdownCurve(rows, now, days)[k]
                     IN  /\ fall = c[k] - Extreme({0} \cup {c[i] : i \in 1..k})
                         /\ \E i \in 0..k : -fall = c[i] - c[k]
  <2>1. \E c : Tells(c, rows, now, days)
    BY CurvesTell
  <2> QED
    BY <2>1 DEF Tells
<1> DEFINE curve == PerformanceCurve(rows, now, days)
           fall  == DrawdownCurve(rows, now, days)
<1>2. curve = [k \in 1..days |-> c[k]]
  BY <1>1
<1>3. days \in Nat /\ DOMAIN curve = 1..days /\ \A k \in 1..days : curve[k] = c[k] /\ c[k] \in Int
  BY <1>1
<1>4. Len(curve) = days
  <2>1. curve \in Seq(Int)
    BY <1>2, <1>3
  <2> HIDE DEF curve
  <2> QED
    BY <1>3, <2>1
<1>5. curve[days] = PnlOf(rows, Within(rows, CurveStart(now, days), now))
  <2>1. CASE days = 1
    <3>1. c[1] = OnDay(rows, now, 1, DayOf(CurveStart(now, 1)))
      <4>1. c[1] = c[1 - 1] + OnDay(rows, now, 1, DayOf(CurveStart(now, 1)) + 1 - 1)
        BY <1>1, <2>1
      <4>2. PICK d \in Int : d = DayOf(CurveStart(now, 1))
        <5>1. CurveStart(now, 1) \in Int
          BY DEF CurveStart, PerDay
        <5> QED
          BY <5>1 DEF DayOf, PerDay
      <4>3. d + 1 - 1 = d /\ 1 - 1 = 0
        BY <4>2
      <4>4. OnDay(rows, now, 1, d) \in Int
        BY DayWhole
      <4> QED
        BY <1>1, <4>1, <4>2, <4>3, <4>4
    <3>2. OnDay(rows, now, 1, DayOf(CurveStart(now, 1))) = PnlOf(rows, Within(rows, CurveStart(now, 1), now))
      BY DaysCover DEF Covered
    <3> QED
      BY <1>3, <2>1, <3>1, <3>2
  <2>2. CASE days = 2
    <3>1. PICK d \in Int : d = DayOf(CurveStart(now, 2))
      <4>1. CurveStart(now, 2) \in Int
        BY DEF CurveStart, PerDay
      <4> QED
        BY <4>1 DEF DayOf, PerDay
    <3>2. PICK x, y \in Int : x = OnDay(rows, now, 2, d) /\ y = OnDay(rows, now, 2, d + 1)
      BY DayWhole
    <3>3. c[2] = x + y
      <4>1. d + 1 - 1 = d /\ d + 2 - 1 = d + 1 /\ 1 \in 1..2 /\ 2 \in 1..2 /\ 1 - 1 = 0 /\ 2 - 1 = 1
        BY <3>1
      <4>2. /\ c[1] = c[1 - 1] + OnDay(rows, now, 2, d + 1 - 1)
            /\ c[2] = c[2 - 1] + OnDay(rows, now, 2, d + 2 - 1)
        BY <1>1, <2>2, <3>1, <4>1
      <4>3. c[1] = 0 + x /\ c[2] = c[1] + y
        BY <1>1, <3>2, <4>1, <4>2
      <4> QED
        BY <3>2, <4>3
    <3>4. PICK S : S = Within(rows, now - PerDay, now)
      OBVIOUS
    <3>5. x + y = PnlOf(rows, S) /\ Within(rows, CurveStart(now, 2), now) = S
      <4>1. Covered(rows, now, d, S)
        BY <3>1, <3>4, DaysCover
      <4> QED
        BY <3>2, <4>1 DEF Covered
    <3> QED
      BY <1>3, <2>2, <3>3, <3>5
  <2> QED
    BY <2>1, <2>2
<1>6. ASSUME NEW k \in 1..days
      PROVE  /\ fall[k] = curve[k] - Extreme({0} \cup {curve[i] : i \in 1..k})
             /\ days = 2 => -fall[k] <= MaxDrawdown(rows, now, "daily")
  <2>1. fall[k] = c[k] - Extreme({0} \cup {c[i] : i \in 1..k}) /\ \E i \in 0..k : -fall[k] = c[i] - c[k]
    BY <1>1
  <2>2. \A i \in 1..k : i \in 1..days
    BY <1>3
  <2>3. {curve[i] : i \in 1..k} = {c[i] : i \in 1..k} /\ curve[k] = c[k]
    BY <1>3, <2>2
  <2>4. ASSUME days = 2 PROVE -fall[k] <= MaxDrawdown(rows, now, "daily")
    <3>1. PICK i \in 0..k : -fall[k] = c[i] - c[k]
      BY <2>1
    <3>2. k \in 0..2
      BY <2>4
    <3>3. /\ c \in [0..2 -> Int] /\ c[0] = 0
          /\ \A m \in 1..2 : c[m] = c[m - 1] + OnDay(rows, now, 2, DayOf(CurveStart(now, 2)) + m - 1)
      BY <1>1, <2>4
    <3>4. c[i] - c[k] <= MaxDrawdown(rows, now, "daily")
      BY <3>2, <3>3, DayFalls
    <3> HIDE DEF fall
    <3> QED
      BY <3>1, <3>4
  <2> HIDE DEF fall, curve
  <2> QED
    BY <2>1, <2>3, <2>4
<1> QED
  BY <1>3, <1>4, <1>5, <1>6 DEF Agreed

\* The curves of a trader (ActivityService.calculatePerformanceCurve,
\* calculateDrawdownCurve) come to the sum of their window and to the falls
\* from their highest day, and no day of them lies deeper than the largest
\* fall, for any trades and at any time.
THEOREM CurvesAgreeAlways == Spec => []CurvesAgree
<1>1. TypeOK => CurvesAgree
  <2> SUFFICES ASSUME TypeOK, NEW rows \in OneTable, NEW days \in {1, 2}
               PROVE  Agreed(rows, clock, days)
    BY DEF CurvesAgree, Agreed
  <2>1. PICK o \in [1..Cardinality(Placed) -> Placed] : rows = Table(o)
    BY SomeOrder DEF OneTable
  <2>2. Whole(rows)
    BY <2>1, TablesWhole
  <2>3. clock \in Int
    BY DEF TypeOK
  <2> QED
    BY <2>2, <2>3, CurvesOfTable
<1>2. IInv => TypeOK
  BY DEF IInv
<1> QED
  BY <1>1, <1>2, Inductive, PTL
=============================================================================
