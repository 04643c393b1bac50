---------------------------- MODULE TradesProofs ----------------------------
(***************************************************************************)
(* Theorems about Trades, for any users, assets, prices, calls and number  *)
(* of concurrent requests.                                                 *)
(***************************************************************************)
EXTENDS Trades, FiniteSetTheorems, TLAPS

\* Writing some columns of one row over another gives a row.
LEMMA MergedRow ==
    ASSUME NEW a \in Row, NEW b \in Row, NEW fs
    PROVE  Merged(a, b, fs) \in Row
  BY DEF Row, Merged, Fields

\* A request that is turned away: its locks go, the tables stay.
Refusal(r) ==
    /\ pc[r] \in Running
    /\ \E outcome \in {"refused", "failed"} : Refuse(r, outcome)

\* Every step is one of these.
LEMMA Cases ==
    ASSUME Next
    PROVE  \/ \E r \in Requests, c \in Calls : Begin(r, c)
           \/ \E r \in Requests :
                \/ Refusal(r)
                \/ CreateFind(r) \/ CreateSave(r)
                \/ CopyCount(r) /\ UNCHANGED <<rows, call, loc, owner, backend>>
                                /\ Goto(r, "lock")
                \/ CopyLock(r) \/ (CopyCheck(r) /\ Goto(r, "insert")) \/ CopyCommit(r)
                \/ CancelFind(r) \/ CancelReload(r) \/ CancelSave(r)
                \/ FindOwned(r) \/ EditCount(r) \/ EditSave(r)
                \/ RemoveCount(r) \/ RemoveDelete(r)
           \/ \E u \in Update : SystemUpdate(u) \/ UpdateFails(u)
           \/ \E j \in Job : RunJob(j)
           \/ \E a \in Assets, p \in Ticks : Tick(a, p)
           \/ Check
           \/ Restart
<1> USE DEF At, Refusal, Running
<1>1. ASSUME NEW r \in Requests, CreateRefuse(r) PROVE Refusal(r)
  BY <1>1 DEF CreateRefuse
<1>2. ASSUME NEW r \in Requests, CopyCount(r)
      PROVE  \/ Refusal(r)
             \/ Goto(r, "lock") /\ UNCHANGED <<rows, call, loc, owner, backend>>
  BY <1>2 DEF CopyCount
<1>3. ASSUME NEW r \in Requests, CopyMiss(r) PROVE Refusal(r)
  BY <1>3 DEF CopyMiss
<1>4. ASSUME NEW r \in Requests, CopyCheck(r) PROVE Refusal(r) \/ Goto(r, "insert")
  BY <1>4 DEF CopyCheck
<1>5. ASSUME NEW r \in Requests, FindRefuse(r) PROVE Refusal(r)
  BY <1>5 DEF FindRefuse
<1>6. ASSUME NEW r \in Requests, CopiedRefuse(r) PROVE Refusal(r)
  BY <1>6 DEF CopiedRefuse
<1>7. ASSUME NEW r \in Requests, CancelDuplicate(r) PROVE Refusal(r)
  BY <1>7 DEF CancelDuplicate
<1>10. ASSUME NEW r \in Requests, EditInvalid(r) PROVE Refusal(r)
  BY <1>10 DEF EditInvalid
<1>8. ASSUME NEW r \in Requests, DeadlockVictim(r) PROVE Refusal(r)
  <2>1. WaitsFor(r) # {}
    BY <1>8 DEF DeadlockVictim, InWaitCycle
  <2>2. pc[r] \in {"lock", "insert"}
    BY <2>1 DEF WaitsFor
  <2> QED
    BY <1>8, <2>2 DEF DeadlockVictim
<1>9. ASSUME NEW r \in Requests, Fail(r) PROVE Refusal(r)
  BY <1>9 DEF Fail
<1> QED
  BY <1>1, <1>2, <1>3, <1>4, <1>5, <1>6, <1>7, <1>8, <1>9, <1>10 DEF Next, Step
-----------------------------------------------------------------------------
(* Type correctness *)

\* A request past its first read holds an entity, and each label belongs to
\* the handlers that have it.
Holding == {"check", "insert", "count", "reload", "write"}
HeldBy(r) ==
    /\ pc[r] \in Holding => loc[r].entity \in Row
    /\ pc[r] \in {"lock", "check", "insert"} => call[r].op = "copy"
    /\ pc[r] = "reload" => call[r].op = "cancel"
    /\ pc[r] = "count" => call[r].op \in {"edit", "remove"}
    /\ pc[r] = "write" => call[r].op \in {"create", "cancel", "edit", "remove"}
Held == \A r \in Requests : HeldBy(r)

\* The arguments of a request that has begun.
LEMMA CallFacts ==
    ASSUME TypeOK, NEW r \in Requests, pc[r] # "idle"
    PROVE  /\ call[r] \in Calls /\ call[r] \in CallType
           /\ call[r].row \in Rows /\ call[r].user \in Users
           /\ call[r].op \in {"create", "copy", "cancel", "edit", "remove"}
<1>1. call[r] \in Calls
  BY DEF TypeOK
<1> QED
  BY <1>1, TradesAssumption DEF CallType

\* The constants that mark absence are not what they stand beside.
LEMMA Marks == NoRow \notin Row /\ Requests \subseteq Rows /\ Nobody \notin Requests
  BY TradesAssumption

\* A live row is a row.
LEMMA LiveRow ==
    ASSUME TypeOK, NEW x \in Rows, rows[x] # NoRow
    PROVE  /\ rows[x] \in Row /\ rows[x].terms.asset \in Assets
           /\ Price(rows[x]) \in Quotes
<1>1. rows[x] \in Row
  BY DEF TypeOK
<1> QED
  BY <1>1 DEF TypeOK, Row, Terms, Price

\* An order taken at any price is open or pending.
LEMMA OpenedStatus == \A terms, p : Opened(terms, p) \in Status
  BY DEF Opened, Status

\* How a change of one request's program counter and entity keeps both
\* well typed.
LEMMA MoveType ==
    ASSUME TypeOK, Held, NEW r \in Requests, pc[r] # "idle",
           NEW label \in Running, Goto(r, label), UNCHANGED call,
           NEW e \in Row \cup {NoRow}, NEW fs \in SUBSET Fields, Hold(r, e, fs),
           label \in Holding => e \in Row,
           label \in {"lock", "check", "insert"} => call[r].op = "copy",
           label = "reload" => call[r].op = "cancel",
           label = "count" => call[r].op \in {"edit", "remove"},
           label = "write" => call[r].op \in {"create", "cancel", "edit", "remove"}
    PROVE  /\ pc' \in [Requests -> {"idle"} \cup Running \cup Answered]
           /\ \A s \in Requests : pc'[s] # "idle" => call'[s] # NoCall
           /\ loc' \in [Requests -> [entity : Row \cup {NoRow}, dirty : SUBSET Fields]]
           /\ Held'
<1>1. pc' \in [Requests -> {"idle"} \cup Running \cup Answered]
  BY DEF TypeOK, Goto
<1>2. \A s \in Requests : pc'[s] # "idle" => call'[s] # NoCall
  BY DEF TypeOK, Goto
<1>3. loc' \in [Requests -> [entity : Row \cup {NoRow}, dirty : SUBSET Fields]]
  BY DEF TypeOK, Hold
<1>4. ASSUME NEW s \in Requests PROVE HeldBy(s)'
  <2>1. CASE s = r
    BY <2>1 DEF TypeOK, HeldBy, Goto, Hold
  <2>2. CASE s # r
    BY <2>2 DEF TypeOK, Held, HeldBy, Goto, Hold
  <2> QED
    BY <2>1, <2>2
<1> QED
  BY <1>1, <1>2, <1>3, <1>4 DEF Held

\* The same for a request that is answered.
LEMMA AnswerType ==
    ASSUME TypeOK, Held, NEW r \in Requests, pc[r] # "idle",
           NEW o \in Answered, Answer(r, o), UNCHANGED call
    PROVE  /\ pc' \in [Requests -> {"idle"} \cup Running \cup Answered]
           /\ \A s \in Requests : pc'[s] # "idle" => call'[s] # NoCall
           /\ loc' \in [Requests -> [entity : Row \cup {NoRow}, dirty : SUBSET Fields]]
           /\ owner' \in [Rows -> Requests \cup {Nobody}]
           /\ Held'
<1> USE DEF Answer, Goto
<1>1. pc' \in [Requests -> {"idle"} \cup Running \cup Answered]
  BY DEF TypeOK
<1>2. \A s \in Requests : pc'[s] # "idle" => call'[s] # NoCall
  BY DEF TypeOK
<1>3. loc' \in [Requests -> [entity : Row \cup {NoRow}, dirty : SUBSET Fields]]
  BY DEF TypeOK, NoLocals
<1>4. owner' \in [Rows -> Requests \cup {Nobody}]
  BY DEF TypeOK
<1>5. ASSUME NEW s \in Requests PROVE HeldBy(s)'
  <2>1. CASE s = r
    BY <2>1 DEF TypeOK, HeldBy, Answered, Holding
  <2>2. CASE s # r
    BY <2>2 DEF TypeOK, Held, HeldBy
  <2> QED
    BY <2>1, <2>2
<1> QED
  BY <1>1, <1>2, <1>3, <1>4, <1>5 DEF Held

\* A refusal changes nothing else.
LEMMA RefusalType ==
    ASSUME TypeOK, Held, NEW r \in Requests, Refusal(r)
    PROVE  TypeOK' /\ Held'
<1>1. PICK o \in {"refused", "failed"} : Refuse(r, o)
  BY DEF Refusal
<1>2. pc[r] # "idle" /\ o \in Answered /\ Answer(r, o) /\ UNCHANGED <<rows, call, backend>>
  BY <1>1 DEF Refusal, Running, Answered, Refuse
<1> QED
  BY <1>2, AnswerType DEF TypeOK, backend

\* The state the service starts in is well typed.
LEMMA InitType == Init => TypeOK /\ Held
  BY TradesAssumption
  DEF Init, TypeOK, Held, HeldBy, Holding, NoLocals, Job, Ending, Starting, Row, Quotes, Live

\* Every step of a handler, a job, the feed or a fault keeps it so.
LEMMA NextType == TypeOK /\ Held /\ [Next]_tvars => TypeOK' /\ Held'
<1> SUFFICES ASSUME TypeOK, Held, [Next]_tvars PROVE TypeOK' /\ Held'
  OBVIOUS
<1> USE DEF backend
<1>1. ASSUME NEW r \in Requests, NEW c \in Calls, Begin(r, c) PROVE TypeOK' /\ Held'
  <2>1. TypeOK'
    BY <1>1, TradesAssumption DEF TypeOK, Begin, Goto, Running
  <2>2. ASSUME NEW s \in Requests PROVE HeldBy(s)'
    BY <1>1 DEF TypeOK, Held, HeldBy, Holding, Begin, Goto
  <2> QED
    BY <2>1, <2>2 DEF Held
<1>2. ASSUME NEW r \in Requests, Refusal(r) PROVE TypeOK' /\ Held'
  BY <1>2, RefusalType
<1>3. ASSUME NEW r \in Requests, CreateFind(r) PROVE TypeOK' /\ Held'
  <2> DEFINE c == call[r]
             terms == [c.terms EXCEPT !.entry = IF @ = NoEntry THEN prices[c.terms.asset] ELSE @]
             status == IF c.draft = "yes" THEN "draft" ELSE Published(c, terms)
             e == [trade |-> r, user |-> c.user, creator |-> c.user,
                   status |-> status, draft |-> (c.draft = "yes"),
                   margin |-> (terms.entry > 0), terms |-> terms, copiers |-> 0,
                   exit |-> NoExit, fresh |-> TRUE]
  <2>1. pc[r] = "start" /\ c.op = "create"
    BY <1>3 DEF CreateFind, At
  <2>2. c \in CallType /\ c.terms # NoTerms /\ r \in Rows
    BY <2>1, CallFacts, TradesAssumption
  <2>3. /\ c.terms \in [asset : Assets, action : {"buy", "sell"}, order : {"market", "limit"},
                        entry : Prices \cup {NoEntry}, stop : Prices, profit : Prices]
        /\ c.user \in Users /\ c.draft \in {"yes", "no", "omitted"}
    BY <2>2 DEF CallType
  <2>4. terms \in Terms
    BY <2>3 DEF Terms, TypeOK, Quotes
  <2>5. status \in Status
    BY OpenedStatus DEF Published, Status
  <2> HIDE DEF terms, status
  <2>6. e \in Row
    BY <2>2, <2>3, <2>4, <2>5 DEF Row
  <2>7. /\ Hold(r, e, Fields) /\ Goto(r, "write") /\ canQuery' = TRUE
        /\ UNCHANGED <<rows, call, owner, updates, prices, checks>>
    BY <1>3 DEF CreateFind, terms, status
  <2>8. jobs' \subseteq Job
    BY <1>3, <2>2 DEF CreateFind, JobsOf, Ending, Starting, Job, TypeOK
  <2> HIDE DEF e, c
  <2>9. pc[r] # "idle" /\ "write" \in Running /\ call[r].op = "create"
    BY <2>1 DEF Running, c
  <2> QED
    BY <2>6, <2>7, <2>8, <2>9, MoveType DEF TypeOK
<1>4. ASSUME NEW r \in Requests, CreateSave(r) PROVE TypeOK' /\ Held'
  <2>1. pc[r] = "write" /\ loc[r].entity \in Row
    BY <1>4 DEF CreateSave, At, Held, HeldBy, Holding
  <2>2. rows' \in [Rows -> Row \cup {NoRow}]
    BY <1>4, <2>1 DEF CreateSave, TypeOK
  <2>3. Answer(r, "done") /\ UNCHANGED <<call, backend>> /\ "done" \in Answered
    BY <1>4 DEF CreateSave, Answered
  <2> QED
    BY <2>1, <2>2, <2>3, AnswerType DEF TypeOK
<1>5. ASSUME NEW r \in Requests, CopyCount(r), Goto(r, "lock"),
             UNCHANGED <<rows, call, loc, owner, backend>>
      PROVE TypeOK' /\ Held'
  <2>1. pc[r] = "start" /\ call[r].op = "copy"
    BY <1>5 DEF CopyCount, At
  <2>2. TypeOK'
    BY <1>5, <2>1 DEF TypeOK, Goto, Running
  <2>3. ASSUME NEW s \in Requests PROVE HeldBy(s)'
    BY <1>5, <2>1 DEF TypeOK, Held, HeldBy, Holding, Goto
  <2> QED
    BY <2>2, <2>3 DEF Held
<1>6. ASSUME NEW r \in Requests, CopyLock(r) PROVE TypeOK' /\ Held'
  <2> DEFINE x == call[r].row
  <2>1. /\ pc[r] = "lock" /\ call[r].op = "copy" /\ Live(rows[x])
        /\ owner' = [owner EXCEPT ![x] = r]
        /\ Hold(r, rows[x], {}) /\ Goto(r, "check") /\ UNCHANGED <<rows, call, backend>>
    BY <1>6 DEF CopyLock, At
  <2>2. x \in Rows /\ rows[x] \in Row
    BY <2>1, CallFacts DEF TypeOK, Live
  <2> HIDE DEF x
  <2>3. owner' \in [Rows -> Requests \cup {Nobody}]
    BY <2>1, <2>2 DEF TypeOK
  <2> QED
    BY <2>1, <2>2, <2>3, MoveType DEF TypeOK, Running
<1>7. ASSUME NEW r \in Requests, CopyCheck(r), Goto(r, "insert") PROVE TypeOK' /\ Held'
  <2> DEFINE e == loc[r].entity
             s2 == IF e.status = "pending" THEN Opened(e.terms, Price(e)) ELSE e.status
             n2 == e.copiers + 1
             e2 == [e EXCEPT !.status = s2, !.copiers = n2]
  <2>1. pc[r] = "check" /\ call[r].op = "copy"
    BY <1>7 DEF CopyCheck, At
  <2>2. e \in Row
    BY <2>1 DEF Held, HeldBy, Holding
  <2>3. Hold(r, e2, {}) /\ UNCHANGED <<rows, call, owner, backend>>
    BY <1>7, <2>1 DEF CopyCheck, Refuse, Answer, Goto, TypeOK
  <2>4. s2 \in Status /\ n2 \in Nat
    BY <2>2, OpenedStatus DEF Row
  <2> HIDE DEF s2, n2
  <2>5. e2 \in Row
    BY <2>2, <2>4 DEF Row
  <2> HIDE DEF e2
  <2> QED
    BY <1>7, <2>1, <2>3, <2>5, MoveType DEF TypeOK, Running
<1>8. ASSUME NEW r \in Requests, CopyCommit(r) PROVE TypeOK' /\ Held'
  <2> DEFINE e == loc[r].entity
  <2>1. pc[r] = "insert" /\ e \in Row
    BY <1>8 DEF CopyCommit, At, Held, HeldBy, Holding
  <2>2. call[r].user \in Users
    BY <2>1, CallFacts
  <2>3. rows' \in [Rows -> Row \cup {NoRow}]
    <3>1. [e EXCEPT !.user = call[r].user] \in Row
      BY <2>1, <2>2 DEF Row
    <3>2. ASSUME NEW x \in RowsOf(e.trade)
          PROVE  [rows[x] EXCEPT !.copiers = e.copiers, !.status = e.status] \in Row
      BY <2>1 DEF RowsOf, TypeOK, Row
    <3> QED
      BY <1>8, <3>1, <3>2 DEF CopyCommit, TypeOK
  <2>4. Answer(r, "done") /\ UNCHANGED <<call, backend>> /\ "done" \in Answered
    BY <1>8 DEF CopyCommit, Answered
  <2> QED
    BY <2>1, <2>3, <2>4, AnswerType DEF TypeOK
<1>9. ASSUME NEW r \in Requests, CancelFind(r) PROVE TypeOK' /\ Held'
  <2> DEFINE x == call[r].row
             e == [rows[x] EXCEPT !.status = "close", !.exit = Price(rows[x])]
  <2>1. /\ pc[r] = "start" /\ call[r].op = "cancel" /\ rows[x] # NoRow
        /\ Hold(r, e, {}) /\ Goto(r, "reload") /\ UNCHANGED <<rows, call, owner, backend>>
    BY <1>9 DEF CancelFind, At, Mine, Live
  <2>2. x \in Rows
    BY <2>1, CallFacts
  <2>3. e \in Row
    BY <2>1, <2>2, LiveRow DEF Row, Status
  <2> HIDE DEF e
  <2> QED
    BY <2>1, <2>3, MoveType DEF TypeOK, Running
<1>10. ASSUME NEW r \in Requests, CancelReload(r) PROVE TypeOK' /\ Held'
  <2> DEFINE e == loc[r].entity
             fs == IF rows[call[r].row] = NoRow THEN Fields
                   ELSE {f \in Fields : e[f] # rows[call[r].row][f]}
  <2>1. /\ pc[r] = "reload" /\ call[r].op = "cancel"
        /\ Hold(r, e, fs) /\ Goto(r, "write") /\ UNCHANGED <<rows, call, owner, backend>>
    BY <1>10 DEF CancelReload, At
  <2>2. e \in Row /\ fs \in SUBSET Fields
    BY <2>1 DEF Held, HeldBy, Holding
  <2> HIDE DEF fs
  <2> QED
    BY <2>1, <2>2, MoveType DEF TypeOK, Running
<1>11. ASSUME NEW r \in Requests, CancelSave(r) PROVE TypeOK' /\ Held'
  <2>1. pc[r] = "write" /\ loc[r].entity \in Row
    BY <1>11 DEF CancelSave, At, Held, HeldBy, Holding
  <2>2. rows' \in [Rows -> Row \cup {NoRow}]
    BY <1>11, <2>1, MergedRow DEF CancelSave, TypeOK
  <2>3. Answer(r, "done") /\ UNCHANGED <<call, backend>> /\ "done" \in Answered
    BY <1>11 DEF CancelSave, Answered
  <2> QED
    BY <2>1, <2>2, <2>3, AnswerType DEF TypeOK
<1>12. ASSUME NEW r \in Requests, FindOwned(r) PROVE TypeOK' /\ Held'
  <2> DEFINE e == rows[call[r].row]
  <2>1. /\ pc[r] = "start" /\ call[r].op \in {"edit", "remove"} /\ e # NoRow
        /\ Hold(r, e, {}) /\ Goto(r, "count") /\ UNCHANGED <<rows, call, owner, backend>>
    BY <1>12 DEF FindOwned, Mine, Live
  <2>2. e \in Row
    BY <2>1, CallFacts DEF TypeOK
  <2> HIDE DEF e
  <2> QED
    BY <2>1, <2>2, MoveType DEF TypeOK, Running
<1>13. ASSUME NEW r \in Requests, EditCount(r) PROVE TypeOK' /\ Held'
  <2> DEFINE c == call[r]
             e == loc[r].entity
             terms == IF c.terms = NoTerms THEN e.terms ELSE c.terms
             publish == c.draft # "yes" /\ e.draft
             e2 == [e EXCEPT !.status = IF publish THEN Published(c, terms) ELSE "draft",
                             !.draft = IF c.draft = "omitted" THEN @ ELSE c.draft = "yes",
                             !.terms = terms]
             fs == {"status"} \cup (IF c.draft = "omitted" THEN {} ELSE {"draft"})
                              \cup (IF c.terms = NoTerms THEN {} ELSE {"terms"})
  <2>1. pc[r] = "count" /\ c.op = "edit" /\ e \in Row
    BY <1>13 DEF EditCount, At, Held, HeldBy, Holding
  <2>2. c \in Calls /\ c \in CallType
    BY <2>1, CallFacts
  <2>3. terms \in Terms
    <3>1. c.terms # NoTerms => c.terms.entry # NoEntry
      BY <2>1, <2>2, TradesAssumption
    <3> QED
      BY <2>1, <2>2, <3>1 DEF CallType, Terms, Row, Quotes
  <2>4. (IF publish THEN Published(c, terms) ELSE "draft") \in Status
    BY OpenedStatus DEF Published, Status
  <2> HIDE DEF terms
  <2>5. e2 \in Row
    BY <2>1, <2>3, <2>4 DEF Row
  <2>6. fs \in SUBSET Fields
    BY DEF Fields
  <2>7. /\ Hold(r, e2, fs) /\ Goto(r, "write")
        /\ UNCHANGED <<rows, call, owner, updates, prices, canQuery, checks>>
    BY <1>13 DEF EditCount, terms
  <2>8. jobs' \subseteq Job
    BY <1>13, <2>1 DEF EditCount, JobsOf, Ending, Starting, Job, TypeOK, Row
  <2>9. pc[r] # "idle" /\ call[r].op = "edit" /\ "write" \in Running
    BY <2>1 DEF Running
  <2> HIDE DEF e2, fs, c
  <2> QED
    BY <2>5, <2>6, <2>7, <2>8, <2>9, MoveType DEF TypeOK
<1>14. ASSUME NEW r \in Requests, EditSave(r) PROVE TypeOK' /\ Held'
  <2>1. pc[r] = "write" /\ loc[r].entity \in Row
    BY <1>14 DEF EditSave, At, Held, HeldBy, Holding
  <2>2. rows' \in [Rows -> Row \cup {NoRow}]
    BY <1>14, <2>1, MergedRow DEF EditSave, TypeOK
  <2>3. Answer(r, "done") /\ UNCHANGED <<call, backend>> /\ "done" \in Answered
    BY <1>14 DEF EditSave, Answered
  <2> QED
    BY <2>1, <2>2, <2>3, AnswerType DEF TypeOK
<1>15. ASSUME NEW r \in Requests, RemoveCount(r) PROVE TypeOK' /\ Held'
  <2>1. pc[r] = "count" /\ call[r].op = "remove"
    BY <1>15 DEF RemoveCount, At
  <2>2. TypeOK'
    BY <1>15, <2>1 DEF TypeOK, RemoveCount, Goto, Running
  <2>3. ASSUME NEW s \in Requests PROVE HeldBy(s)'
    BY <1>15, <2>1 DEF TypeOK, RemoveCount, Held, HeldBy, Holding, Goto
  <2> QED
    BY <2>2, <2>3 DEF Held
<1>16. ASSUME NEW r \in Requests, RemoveDelete(r) PROVE TypeOK' /\ Held'
  <2>1. pc[r] # "idle" /\ rows' \in [Rows -> Row \cup {NoRow}]
    BY <1>16 DEF RemoveDelete, At, TypeOK
  <2>2. Answer(r, "done") /\ UNCHANGED <<call, backend>> /\ "done" \in Answered
    BY <1>16 DEF RemoveDelete, Answered
  <2> QED
    BY <2>1, <2>2, AnswerType DEF TypeOK
<1>17. ASSUME NEW u \in Update, SystemUpdate(u) PROVE TypeOK' /\ Held'
  <2>1. rows' \in [Rows -> Row \cup {NoRow}]
    <3> DEFINE live == LiveRows(u.trade)
               written(first, x) ==
                   IF u.type = "starting"
                   THEN [rows[x] EXCEPT !.status = Opened(rows[first].terms, Price(rows[first]))]
                   ELSE [rows[x] EXCEPT !.status = u.status, !.exit = Price(rows[first])]
    <3>1. ASSUME NEW first \in live, NEW x \in live PROVE written(first, x) \in Row
      <4>1. /\ rows[x] \in Row /\ x \in Rows
            /\ Opened(rows[first].terms, Price(rows[first])) \in Status
            /\ Price(rows[first]) \in Quotes /\ u.status \in Status
        BY <3>1, LiveRow, OpenedStatus DEF LiveRows, RowsOf, Update, Status
      <4> QED
        BY <4>1 DEF Row
    <3>2. \/ UNCHANGED rows
          \/ \E first \in live :
                rows' = [x \in Rows |-> IF x \in live THEN written(first, x) ELSE rows[x]]
      BY <1>17 DEF SystemUpdate
    <3>3. CASE UNCHANGED rows
      BY <3>3 DEF TypeOK
    <3>4. ASSUME NEW first \in live,
                 rows' = [x \in Rows |-> IF x \in live THEN written(first, x) ELSE rows[x]]
          PROVE  rows' \in [Rows -> Row \cup {NoRow}]
      <4>1. \A x \in live : written(first, x) \in Row
        BY <3>1
      <4> HIDE DEF written, live
      <4> QED
        BY <3>4, <4>1 DEF TypeOK
    <3> QED
      BY <3>2, <3>3, <3>4
  <2>2. /\ updates' \subseteq Update
        /\ UNCHANGED <<call, pc, loc, owner, jobs, prices, canQuery, checks>>
    BY <1>17 DEF SystemUpdate, TypeOK
  <2> QED
    BY <2>1, <2>2 DEF TypeOK, Held, HeldBy
<1>18. ASSUME NEW u \in Update, UpdateFails(u) PROVE TypeOK' /\ Held'
  BY <1>18 DEF UpdateFails, TypeOK, Held, HeldBy
<1>19. ASSUME NEW j \in Job, RunJob(j) PROVE TypeOK' /\ Held'
  <2>1. [trade |-> j.trade, type |-> j.type, status |-> "close", job |-> TRUE] \in Update
    BY DEF Job, Update
  <2> QED
    BY <1>19, <2>1 DEF RunJob, TypeOK, Held, HeldBy
<1>20. ASSUME NEW a \in Assets, NEW p \in Ticks, Tick(a, p) PROVE TypeOK' /\ Held'
  BY <1>20, TradesAssumption DEF Tick, TypeOK, Held, HeldBy, Quotes
<1>21. ASSUME Check PROVE TypeOK' /\ Held'
  <2>1. \A x \in Watched : rows[x].trade \in Rows
    BY LiveRow DEF Watched, Row
  <2>2. \A x \in Watched :
           /\ Monitor(x, "starting", "open") \in Update
           /\ Monitor(x, "expiring", "close") \in Update
           /\ Monitor(x, "expiring", "open") \in Update
    BY <2>1 DEF Monitor, Update
  <2>3. updates' \subseteq Update
    BY <1>21, <2>2 DEF Check, TypeOK, HitRows
  <2> QED
    BY <1>21, <2>3 DEF Check, TypeOK, Held, HeldBy
<1>22. ASSUME Restart PROVE TypeOK' /\ Held'
  <2>1. jobs' \subseteq Job
    BY <1>22 DEF Restart, TypeOK, Update, Job
  <2>2. TypeOK'
    BY <1>22, <2>1 DEF Restart, TypeOK, NoLocals, Running, Answered, Quotes
  <2>3. ASSUME NEW s \in Requests PROVE HeldBy(s)'
    BY <1>22 DEF Restart, TypeOK, Held, HeldBy, Holding, Running
  <2> QED
    BY <2>2, <2>3 DEF Held
<1>23. CASE UNCHANGED tvars
  BY <1>23 DEF TypeOK, Held, HeldBy, tvars
<1> QED
  BY <1>1, <1>2, <1>3, <1>4, <1>5, <1>6, <1>7, <1>8, <1>9, <1>10, <1>11, <1>12, <1>13,
     <1>14, <1>15, <1>16, <1>17, <1>18, <1>19, <1>20, <1>21, <1>22, <1>23, Cases

\* The table, the entities, the locks, the queue and the calls in flight
\* stay well typed.
THEOREM TypeCorrect == Spec => []TypeOK
  BY InitType, NextType, PTL DEF Spec
-----------------------------------------------------------------------------
(* Identities.  What a row or an entity says of its trade, owner, author   *)
(* and margin is fixed by its key, wherever it is read and whenever.       *)

Id(x, e) == [key |-> x, trade |-> e.trade, user |-> e.user, creator |-> e.creator,
             margin |-> e.margin]

\* A request that holds an entity read from the table.
Holds(r) ==
    \/ pc[r] \in {"check", "insert", "count", "reload"}
    \/ pc[r] = "write" /\ call[r].op # "create"

Ids == {Id(x, rows[x]) : x \in {y \in Rows : rows[y] # NoRow}}
       \cup {Id(call[r].row, loc[r].entity) : r \in {s \in Requests : Holds(s)}}

\* A key, or a trade, a request has given a row.
Born(x) == x \in Requests => pc[x] = "done"

\* A trade about to be saved is called after its request.
NamedAfter(r) == pc[r] = "write" /\ call[r].op = "create" => loc[r].entity.trade = r

Identified ==
    /\ \A i \in Ids : Born(i.key) /\ Born(i.trade)
    /\ \A i, j \in Ids : i.key = j.key => i = j
    /\ \A i, j \in Ids : i.trade = j.trade => i.margin = j.margin
    /\ \A r \in Requests : NamedAfter(r)

\* The identities of the rows there are, and of the entities held.
LEMMA IdsOf ==
    /\ \A x \in Rows : rows[x] # NoRow => Id(x, rows[x]) \in Ids
    /\ \A r \in Requests : Holds(r) => Id(call[r].row, loc[r].entity) \in Ids
  BY DEF Ids

\* The parts of an identity.
LEMMA IdFields ==
    ASSUME NEW x, NEW e
    PROVE  /\ Id(x, e).key = x /\ Id(x, e).trade = e.trade /\ Id(x, e).user = e.user
           /\ Id(x, e).creator = e.creator /\ Id(x, e).margin = e.margin
  BY DEF Id

SameId(a, b) ==
    a.trade = b.trade /\ a.user = b.user /\ a.creator = b.creator /\ a.margin = b.margin

\* Rows with the same identifying columns have one identity.
LEMMA SameIdEqual == ASSUME NEW x, NEW a, NEW b, SameId(a, b) PROVE Id(x, a) = Id(x, b)
  BY DEF Id, SameId

\* No identity appears and no row is unborn: they stay consistent.
LEMMA IdsKept ==
    ASSUME Identified,
           \A x \in Rows : rows'[x] # NoRow => Id(x, rows'[x]) \in Ids,
           \A s \in Requests : Holds(s)' => Id(call'[s].row, loc'[s].entity) \in Ids,
           \A s \in Requests : pc[s] = "done" => pc'[s] = "done",
           \A s \in Requests : NamedAfter(s)'
    PROVE  Identified'
<1>1. Ids' \subseteq Ids
  BY DEF Ids
<1>2. \A x : Born(x) => Born(x)'
  BY DEF Born
<1> QED
  BY <1>1, <1>2 DEF Identified

\* A request gives its key to one new row, of its own trade or a known one.
LEMMA IdsGrow ==
    ASSUME Identified, NEW r \in Requests, pc[r] # "done", pc'[r] = "done",
           NEW n, n.key = r,
           n.trade = r \/ \E i \in Ids : n.trade = i.trade /\ n.margin = i.margin,
           \A x \in Rows : rows'[x] # NoRow => Id(x, rows'[x]) \in Ids \cup {n},
           \A s \in Requests : Holds(s)' => Id(call'[s].row, loc'[s].entity) \in Ids,
           \A s \in Requests : pc[s] = "done" => pc'[s] = "done",
           \A s \in Requests : NamedAfter(s)'
    PROVE  Identified'
<1>1. Ids' \subseteq Ids \cup {n}
  BY DEF Ids
<1>2. \A x : Born(x) => Born(x)'
  BY DEF Born
<1>3. \A i \in Ids : i.key # r /\ i.trade # r
  BY DEF Identified, Born
<1>4. \A i \in Ids : Born(i.key)' /\ Born(i.trade)'
  BY <1>2 DEF Identified
<1>5. Born(n.key)' /\ Born(n.trade)'
  BY <1>4 DEF Born
<1>6. \A i \in Ids : n.trade = i.trade => n.margin = i.margin
  BY <1>3 DEF Identified
<1>7. \A i, j \in Ids \cup {n} : i.key = j.key => i = j
  BY <1>3 DEF Identified
<1>8. \A i, j \in Ids \cup {n} : i.trade = j.trade => i.margin = j.margin
  BY <1>6 DEF Identified
<1> QED
  BY <1>1, <1>4, <1>5, <1>7, <1>8 DEF Identified

\* Only request r moves.
Others(r) ==
    \A s \in Requests \ {r} : pc'[s] = pc[s] /\ call'[s] = call[s] /\ loc'[s] = loc[s]

\* A request that moves on leaves the place and the entity of others alone.
LEMMA MoveOthers ==
    ASSUME TypeOK, NEW r \in Requests, NEW label, Goto(r, label), UNCHANGED call,
           NEW e, NEW fs, Hold(r, e, fs)
    PROVE  /\ Others(r) /\ pc'[r] = label /\ call'[r] = call[r]
           /\ loc'[r].entity = e /\ loc'[r].dirty = fs
  BY DEF TypeOK, Goto, Hold, Others

\* A request that is answered leaves those of others alone, and gives up its locks.
LEMMA AnswerOthers ==
    ASSUME TypeOK, NEW r \in Requests, NEW o, Answer(r, o), UNCHANGED call
    PROVE  /\ Others(r) /\ pc'[r] = o /\ call'[r] = call[r]
           /\ \A x \in Rows : owner'[x] = IF owner[x] = r THEN Nobody ELSE owner[x]
  BY DEF TypeOK, Answer, Goto, Others

\* The rows are left alone and r reads nothing new.
LEMMA MoveIds ==
    ASSUME Identified, NEW r \in Requests, Others(r), UNCHANGED rows,
           pc[r] # "done",
           Holds(r)' => Id(call'[r].row, loc'[r].entity) \in Ids,
           NamedAfter(r)'
    PROVE  Identified'
<1>1. \A s \in Requests \ {r} : Holds(s)' => Holds(s)
  BY DEF Others, Holds
<1>2. \A s \in Requests : Holds(s)' => Id(call'[s].row, loc'[s].entity) \in Ids
  BY <1>1, IdsOf DEF Others
<1>3. \A s \in Requests : pc[s] = "done" => pc'[s] = "done"
  BY DEF Others
<1>4. \A s \in Requests : NamedAfter(s)'
  BY DEF Others, NamedAfter, Identified
<1> QED
  BY <1>2, <1>3, <1>4, IdsKept, IdsOf

\* The rows change but for their identity, and r is answered.
LEMMA WriteIds ==
    ASSUME Identified, NEW r \in Requests, Others(r), pc'[r] \in Answered, pc[r] # "done",
           \A x \in Rows : rows'[x] # NoRow => Id(x, rows'[x]) \in Ids
    PROVE  Identified'
<1>1. \A s \in Requests : Holds(s)' => Id(call'[s].row, loc'[s].entity) \in Ids
  BY IdsOf DEF Others, Holds, Answered
<1>2. \A s \in Requests : NamedAfter(s)'
  BY DEF Others, NamedAfter, Identified, Answered
<1>3. \A s \in Requests : pc[s] = "done" => pc'[s] = "done"
  BY DEF Others
<1> QED
  BY <1>1, <1>2, <1>3, IdsKept

\* Nothing about requests changes, and the rows keep their identity.
LEMMA BackendIds ==
    ASSUME Identified, UNCHANGED <<pc, call, loc>>,
           \A x \in Rows : rows'[x] # NoRow => Id(x, rows'[x]) \in Ids
    PROVE  Identified'
<1>1. \A s \in Requests : Holds(s)' => Id(call'[s].row, loc'[s].entity) \in Ids
  BY IdsOf DEF Holds
<1>2. \A s \in Requests : NamedAfter(s)'
  BY DEF NamedAfter, Identified
<1> QED
  BY <1>1, <1>2, IdsKept

\* The rows the service starts with identify their trades.
LEMMA InitIds == Init => Identified
<1> SUFFICES ASSUME Init PROVE Identified
  OBVIOUS
<1>1. \A r \in Requests : ~Holds(r) /\ NamedAfter(r)
  BY DEF Init, Holds, NamedAfter
<1>2. \A i \in Ids : \E x \in Rows : rows[x] # NoRow /\ i = Id(x, rows[x])
  BY <1>1 DEF Ids
<1>3. /\ \A r \in Requests : rows[r] = NoRow
      /\ \A x \in Rows : rows[x] # NoRow => rows[x].trade \in Seeds
      /\ \A x, y \in Rows :
            x # y /\ rows[x] # NoRow /\ rows[y] # NoRow /\ rows[x].trade = rows[y].trade
            => rows[x].margin = rows[y].margin
  BY TradesAssumption DEF Init
<1>4. \A i \in Ids : Born(i.key) /\ Born(i.trade)
  BY <1>2, <1>3, IdFields, TradesAssumption DEF Born
<1>5. \A i, j \in Ids : i.key = j.key => i = j
  BY <1>2, IdFields
<1>6. \A i, j \in Ids : i.trade = j.trade => i.margin = j.margin
  BY <1>2, <1>3, IdFields
<1> QED
  BY <1>1, <1>4, <1>5, <1>6 DEF Identified

\* What a systemUpdate may do to a row.
LEMMA SystemUpdateRows ==
    ASSUME TypeOK, NEW u \in Update, SystemUpdate(u), NEW x \in Rows
    PROVE  \/ rows'[x] = rows[x]
           \/ /\ x \in LiveRows(u.trade) /\ owner[x] = Nobody
              /\ SameId(rows'[x], rows[x]) /\ rows'[x] # NoRow
              /\ rows'[x].terms = rows[x].terms
<1> DEFINE live == LiveRows(u.trade)
           written(first, y) ==
               IF u.type = "starting"
               THEN [rows[y] EXCEPT !.status = Opened(rows[first].terms, Price(rows[first]))]
               ELSE [rows[y] EXCEPT !.status = u.status, !.exit = Price(rows[first])]
<1>1. CASE UNCHANGED rows
  BY <1>1
<1>2. ASSUME NEW first \in live,
             rows' = [y \in Rows |-> IF y \in live THEN written(first, y) ELSE rows[y]]
      PROVE  rows'[x] = rows[x] \/ (x \in live /\ rows'[x] = written(first, x))
  BY <1>2
<1>3. ASSUME NEW first \in live, x \in live
      PROVE  /\ SameId(written(first, x), rows[x]) /\ written(first, x) # NoRow
             /\ written(first, x).terms = rows[x].terms
  <2>1. rows[x] \in Row /\ rows[x] # NoRow /\ NoRow \notin Row
    BY <1>3, Marks DEF LiveRows, RowsOf, TypeOK
  <2>2. rows[first] \in Row /\ first \in Rows /\ rows[first] # NoRow
    BY <1>3 DEF LiveRows, RowsOf, TypeOK
  <2>3. /\ Opened(rows[first].terms, Price(rows[first])) \in Status
        /\ u.status \in Status /\ Price(rows[first]) \in Quotes
    BY <2>2, OpenedStatus, LiveRow DEF Update, Status
  <2>4. written(first, x) \in Row
    BY <2>1, <2>3 DEF Row
  <2> QED
    BY <2>1, <2>4 DEF SameId, Row
<1>4. \A y \in live : owner[y] = Nobody
  BY DEF SystemUpdate
<1>5. \/ UNCHANGED rows
      \/ \E first \in live :
            rows' = [y \in Rows |-> IF y \in live THEN written(first, y) ELSE rows[y]]
  BY DEF SystemUpdate
<1> HIDE DEF written, live
<1>6. x \in live => owner[x] = Nobody
  BY <1>4
<1> QED
  BY <1>1, <1>2, <1>3, <1>5, <1>6 DEF live

\* What the end of a copy does to a row.
LEMMA CopyCommitRows ==
    ASSUME TypeOK, Held, NEW r \in Requests, CopyCommit(r)
    PROVE  LET e == loc[r].entity
           IN  /\ e \in Row
               /\ rows'[r] \in Row
               /\ rows'[r] = [e EXCEPT !.user = call[r].user]
               /\ rows'[r].trade = e.trade /\ rows'[r].user = call[r].user
               /\ rows'[r].creator = e.creator /\ rows'[r].margin = e.margin
               /\ rows'[r].terms = e.terms /\ rows'[r].status = e.status
               /\ \A x \in Rows \ {r} :
                     \/ x \notin RowsOf(e.trade) /\ rows'[x] = rows[x]
                     \/ /\ x \in RowsOf(e.trade) /\ owner[x] \in {r, Nobody}
                        /\ SameId(rows'[x], rows[x]) /\ rows'[x] # NoRow
                        /\ rows'[x].terms = rows[x].terms
                        /\ rows'[x].status = e.status
<1> DEFINE e == loc[r].entity
<1>1. pc[r] = "insert" /\ e \in Row /\ RowsFree(r, e.trade)
  BY DEF CopyCommit, At, Held, HeldBy, Holding
<1>2. call[r].user \in Users /\ r \in Rows
  BY <1>1, CallFacts, Marks
<1>3. rows'[r] = [e EXCEPT !.user = call[r].user]
  BY <1>2 DEF CopyCommit
<1>4. [e EXCEPT !.user = call[r].user] \in Row
  BY <1>1, <1>2 DEF Row
<1>5. /\ rows'[r].trade = e.trade /\ rows'[r].user = call[r].user
      /\ rows'[r].creator = e.creator /\ rows'[r].margin = e.margin
      /\ rows'[r].terms = e.terms /\ rows'[r].status = e.status
  BY <1>1, <1>3 DEF Row
<1>6. ASSUME NEW x \in Rows \ {r}, x \notin RowsOf(e.trade) PROVE rows'[x] = rows[x]
  BY <1>6 DEF CopyCommit
<1>7. ASSUME NEW x \in Rows \ {r}, x \in RowsOf(e.trade)
      PROVE  /\ owner[x] \in {r, Nobody}
             /\ SameId(rows'[x], rows[x]) /\ rows'[x] # NoRow
             /\ rows'[x].terms = rows[x].terms
             /\ rows'[x].status = e.status
  <2>1. rows'[x] = [rows[x] EXCEPT !.copiers = e.copiers, !.status = e.status]
    BY <1>7 DEF CopyCommit
  <2>2. rows[x] \in Row /\ NoRow \notin Row
    BY <1>7, Marks DEF RowsOf, TypeOK
  <2>3. rows'[x] \in Row
    BY <1>1, <2>1, <2>2 DEF Row
  <2>4. owner[x] \in {r, Nobody}
    BY <1>1, <1>7 DEF RowsFree
  <2> QED
    BY <2>1, <2>2, <2>3, <2>4 DEF SameId, Row
<1> QED
  BY <1>1, <1>3, <1>4, <1>5, <1>6, <1>7

\* A merged row has the columns written from the entity, the others from the row.
LEMMA MergedFields ==
    ASSUME NEW a, NEW b, NEW fs, NEW f \in Fields
    PROVE  Merged(a, b, fs)[f] \in {a[f], b[f]} /\ (f \notin fs => Merged(a, b, fs)[f] = b[f])
  BY DEF Merged

\* Merging two rows of one identity keeps it.
LEMMA MergedId ==
    ASSUME NEW a, NEW b, NEW fs, SameId(a, b)
    PROVE  SameId(Merged(a, b, fs), b)
  BY MergedFields DEF SameId, Fields

\* What the saves of cancel and edit do to the row they write.
LEMMA SavedRow ==
    ASSUME TypeOK, Held, Identified, NEW r \in Requests, CancelSave(r) \/ EditSave(r)
    PROVE  LET x == call[r].row
               e == loc[r].entity
           IN  /\ x \in Rows /\ e \in Row /\ owner[x] = Nobody
               /\ Id(x, e) \in Ids
               /\ \A y \in Rows \ {x} : rows'[y] = rows[y]
               /\ \/ rows[x] = NoRow /\ rows'[x] = NoRow
                  \/ /\ call[r].op = "cancel" /\ loc[r].dirty = Fields
                     /\ rows[x] = NoRow /\ rows'[x] = e
                  \/ /\ rows[x] \in Row /\ rows'[x] \in Row
                     /\ rows'[x] = Merged(e, rows[x], loc[r].dirty)
                     /\ SameId(rows'[x], rows[x]) /\ SameId(e, rows[x])
<1> DEFINE x == call[r].row
           e == loc[r].entity
<1>1. pc[r] = "write" /\ call[r].op \in {"cancel", "edit"} /\ owner[x] = Nobody
  BY DEF CancelSave, EditSave, At
<1>2. x \in Rows /\ e \in Row /\ Id(x, e) \in Ids
  BY <1>1, CallFacts, IdsOf DEF Held, HeldBy, Holding, Holds
<1>3. \A y \in Rows \ {x} : rows'[y] = rows[y]
  BY <1>2 DEF CancelSave, EditSave, TypeOK
<1>4. CASE rows[x] = NoRow
  <2>1. rows'[x] = NoRow
           \/ (call[r].op = "cancel" /\ loc[r].dirty = Fields /\ rows'[x] = e)
    BY <1>2, <1>4 DEF CancelSave, EditSave, TypeOK, At
  <2> QED
    BY <1>1, <1>2, <1>3, <1>4, <2>1
<1>5. CASE rows[x] # NoRow
  <2>1. rows'[x] = Merged(e, rows[x], loc[r].dirty)
    BY <1>2, <1>5 DEF CancelSave, EditSave, TypeOK
  <2>2. rows[x] \in Row
    BY <1>2, <1>5 DEF TypeOK
  <2>3. Id(x, e) = Id(x, rows[x])
    BY <1>2, <1>5, IdsOf, IdFields DEF Identified
  <2>4. SameId(e, rows[x])
    BY <2>3, IdFields DEF SameId
  <2> QED
    BY <1>1, <1>2, <1>3, <2>1, <2>2, <2>4, MergedRow, MergedId
<1> QED
  BY <1>4, <1>5

\* No step changes what identifies a trade, or two rows of one trade in its margin.
LEMMA NextIds ==
    TypeOK /\ Held /\ Identified /\ [Next]_tvars => Identified'
<1> SUFFICES ASSUME TypeOK, Held, Identified, [Next]_tvars PROVE Identified'
  OBVIOUS
<1> USE DEF backend
<1>1. ASSUME NEW r \in Requests, NEW c \in Calls, Begin(r, c) PROVE Identified'
  <2>1. pc[r] = "idle" /\ pc'[r] = "start" /\ Others(r) /\ UNCHANGED rows
    BY <1>1 DEF Begin, Goto, TypeOK, Others
  <2>2. ~Holds(r)' /\ NamedAfter(r)'
    BY <2>1 DEF Holds, NamedAfter
  <2> QED
    BY <2>1, <2>2, MoveIds
<1>2. ASSUME NEW r \in Requests, Refusal(r) PROVE Identified'
  <2>1. PICK o \in {"refused", "failed"} : Refuse(r, o)
    BY <1>2 DEF Refusal
  <2>2. Others(r) /\ pc'[r] = o /\ UNCHANGED rows /\ pc[r] # "done"
    BY <1>2, <2>1, AnswerOthers DEF Refuse, Refusal, Running
  <2>3. ~Holds(r)' /\ NamedAfter(r)'
    BY <2>2 DEF Holds, NamedAfter
  <2> QED
    BY <2>2, <2>3, MoveIds
<1>3. ASSUME NEW r \in Requests, CreateFind(r) PROVE Identified'
  <2>1. /\ pc[r] = "start" /\ call[r].op = "create" /\ Goto(r, "write")
        /\ \E e : Hold(r, e, Fields) /\ e.trade = r
        /\ UNCHANGED <<rows, call>>
    BY <1>3 DEF CreateFind, At
  <2>2. PICK e : Hold(r, e, Fields) /\ e.trade = r
    BY <2>1
  <2>3. /\ Others(r) /\ pc'[r] = "write" /\ call'[r] = call[r] /\ loc'[r].entity = e
    BY <2>1, <2>2, MoveOthers
  <2>4. ~Holds(r)' /\ NamedAfter(r)'
    BY <2>1, <2>2, <2>3 DEF Holds, NamedAfter
  <2> QED
    BY <2>1, <2>3, <2>4, MoveIds
<1>4. ASSUME NEW r \in Requests, CreateSave(r) PROVE Identified'
  <2> DEFINE e == loc[r].entity
             n == Id(r, e)
  <2>1. pc[r] = "write" /\ call[r].op = "create" /\ e.trade = r
    BY <1>4 DEF CreateSave, At, Identified, NamedAfter
  <2>2. Others(r) /\ pc'[r] = "done"
    BY <1>4, AnswerOthers DEF CreateSave
  <2>3. n.key = r /\ n.trade = r
    BY <2>1, IdFields
  <2>4. \A x \in Rows : rows'[x] # NoRow => Id(x, rows'[x]) \in Ids \cup {n}
    BY <1>4, IdsOf DEF CreateSave, TypeOK
  <2> HIDE DEF n
  <2>5. \A s \in Requests : Holds(s)' => Id(call'[s].row, loc'[s].entity) \in Ids
    BY <2>2, IdsOf DEF Others, Holds
  <2>6. \A s \in Requests : NamedAfter(s)' /\ (pc[s] = "done" => pc'[s] = "done")
    BY <2>2 DEF Others, NamedAfter, Identified
  <2> QED
    BY <2>1, <2>2, <2>3, <2>4, <2>5, <2>6, IdsGrow
<1>5. ASSUME NEW r \in Requests, CopyCount(r), Goto(r, "lock"),
             UNCHANGED <<rows, call, loc, owner, backend>>
      PROVE Identified'
  <2>1. pc[r] = "start" /\ pc'[r] = "lock" /\ Others(r)
    BY <1>5 DEF CopyCount, At, Goto, TypeOK, Others
  <2>2. ~Holds(r)' /\ NamedAfter(r)'
    BY <2>1 DEF Holds, NamedAfter
  <2> QED
    BY <1>5, <2>1, <2>2, MoveIds
<1>6. ASSUME NEW r \in Requests, CopyLock(r) PROVE Identified'
  <2>1. /\ pc[r] = "lock" /\ rows[call[r].row] # NoRow /\ UNCHANGED <<rows, call>>
        /\ Goto(r, "check") /\ Hold(r, rows[call[r].row], {})
    BY <1>6 DEF CopyLock, At, Live
  <2>2. /\ Others(r) /\ pc'[r] = "check" /\ call'[r] = call[r]
        /\ loc'[r].entity = rows[call[r].row]
    BY <2>1, MoveOthers
  <2>3. Id(call'[r].row, loc'[r].entity) \in Ids /\ NamedAfter(r)'
    BY <2>1, <2>2, IdsOf, CallFacts DEF NamedAfter
  <2> QED
    BY <2>1, <2>2, <2>3, MoveIds
<1>7. ASSUME NEW r \in Requests, CopyCheck(r), Goto(r, "insert") PROVE Identified'
  <2> DEFINE e == loc[r].entity
             s2 == IF e.status = "pending" THEN Opened(e.terms, Price(e)) ELSE e.status
             n2 == e.copiers + 1
             e2 == [e EXCEPT !.status = s2, !.copiers = n2]
  <2>1. pc[r] = "check" /\ e \in Row
    BY <1>7 DEF CopyCheck, At, Held, HeldBy, Holding
  <2>2. Hold(r, e2, {}) /\ UNCHANGED <<rows, call>>
    BY <1>7, <2>1 DEF CopyCheck, Refuse, Answer, Goto, TypeOK
  <2> HIDE DEF s2, n2
  <2>3. SameId(e2, e)
    BY <2>1 DEF SameId, Row
  <2> HIDE DEF e2
  <2>4. /\ Others(r) /\ pc'[r] = "insert" /\ call'[r] = call[r] /\ loc'[r].entity = e2
    BY <1>7, <2>2, MoveOthers
  <2>5. Id(call'[r].row, loc'[r].entity) \in Ids /\ NamedAfter(r)'
    BY <2>1, <2>3, <2>4, IdsOf, SameIdEqual DEF NamedAfter, Holds
  <2> QED
    BY <2>1, <2>2, <2>4, <2>5, MoveIds
<1>8. ASSUME NEW r \in Requests, CopyCommit(r) PROVE Identified'
  <2> DEFINE e == loc[r].entity
             n == Id(r, rows'[r])
  <2>1. pc[r] = "insert" /\ Others(r) /\ pc'[r] = "done"
    BY <1>8, AnswerOthers DEF CopyCommit, At
  <2> DEFINE row == rows'[r]
  <2>7. /\ row.trade = e.trade /\ row.margin = e.margin
        /\ \A x \in Rows \ {r} :
              \/ rows'[x] = rows[x]
              \/ SameId(rows'[x], rows[x]) /\ rows[x] # NoRow
    BY <1>8, CopyCommitRows DEF RowsOf
  <2> HIDE DEF row
  <2>8. Id(r, row).key = r /\ Id(r, row).trade = row.trade /\ Id(r, row).margin = row.margin
    BY IdFields
  <2>2. n.key = r /\ n.trade = e.trade /\ n.margin = e.margin
    BY <2>7, <2>8 DEF row
  <2>3. \E i \in Ids : n.trade = i.trade /\ n.margin = i.margin
    BY <2>1, <2>2, IdsOf, IdFields DEF Holds
  <2>4. \A x \in Rows : rows'[x] # NoRow => Id(x, rows'[x]) \in Ids \cup {n}
    <3>1. ASSUME NEW x \in Rows \ {r}, rows'[x] # NoRow PROVE Id(x, rows'[x]) \in Ids
      <4>1. rows[x] # NoRow /\ Id(x, rows'[x]) = Id(x, rows[x])
        BY <2>7, <3>1, SameIdEqual
      <4> QED
        BY <4>1, IdsOf
    <3> QED
      BY <3>1
  <2> HIDE DEF n
  <2>5. \A s \in Requests : Holds(s)' => Id(call'[s].row, loc'[s].entity) \in Ids
    BY <2>1, IdsOf DEF Others, Holds
  <2>6. \A s \in Requests : NamedAfter(s)' /\ (pc[s] = "done" => pc'[s] = "done")
    BY <2>1 DEF Others, NamedAfter, Identified
  <2> QED
    BY <2>1, <2>2, <2>3, <2>4, <2>5, <2>6, IdsGrow
<1>9. ASSUME NEW r \in Requests, CancelFind(r) PROVE Identified'
  <2> DEFINE x == call[r].row
             e == [rows[x] EXCEPT !.status = "close", !.exit = Price(rows[x])]
  <2>1. /\ pc[r] = "start" /\ rows[x] # NoRow /\ UNCHANGED <<rows, call>>
        /\ Hold(r, e, {}) /\ Goto(r, "reload")
    BY <1>9 DEF CancelFind, At, Mine, Live
  <2>2. x \in Rows /\ rows[x] \in Row
    BY <2>1, CallFacts DEF TypeOK
  <2>3. SameId(e, rows[x])
    BY <2>2 DEF SameId, Row
  <2> HIDE DEF e
  <2>4. Others(r) /\ pc'[r] = "reload" /\ call'[r] = call[r] /\ loc'[r].entity = e
    BY <2>1, MoveOthers
  <2>5. Id(call'[r].row, loc'[r].entity) \in Ids /\ NamedAfter(r)'
    BY <2>1, <2>2, <2>3, <2>4, IdsOf, SameIdEqual DEF NamedAfter
  <2> QED
    BY <2>1, <2>4, <2>5, MoveIds
<1>10. ASSUME NEW r \in Requests, CancelReload(r) PROVE Identified'
  <2>1. /\ pc[r] = "reload" /\ call[r].op = "cancel" /\ UNCHANGED <<rows, call>>
        /\ \E fs : Hold(r, loc[r].entity, fs) /\ Goto(r, "write")
    BY <1>10 DEF CancelReload, At
  <2>2. /\ Others(r) /\ pc'[r] = "write" /\ call'[r] = call[r]
        /\ loc'[r].entity = loc[r].entity
    BY <2>1, MoveOthers
  <2>3. Id(call'[r].row, loc'[r].entity) \in Ids /\ NamedAfter(r)'
    BY <2>1, <2>2, IdsOf DEF Holds, NamedAfter
  <2> QED
    BY <2>1, <2>2, <2>3, MoveIds
<1>11. ASSUME NEW r \in Requests, CancelSave(r) \/ EditSave(r) PROVE Identified'
  <2>1. pc[r] = "write" /\ Answer(r, "done") /\ UNCHANGED call
    BY <1>11 DEF CancelSave, EditSave, At
  <2>2. Others(r) /\ pc'[r] = "done"
    BY <2>1, AnswerOthers
  <2>3. \A x \in Rows : rows'[x] # NoRow => Id(x, rows'[x]) \in Ids
    BY <1>11, SavedRow, IdsOf, SameIdEqual, Marks
  <2> QED
    BY <2>1, <2>2, <2>3, WriteIds DEF Answered
<1>12. ASSUME NEW r \in Requests, FindOwned(r) PROVE Identified'
  <2>1. /\ pc[r] = "start" /\ rows[call[r].row] # NoRow /\ UNCHANGED <<rows, call>>
        /\ Goto(r, "count") /\ Hold(r, rows[call[r].row], {})
    BY <1>12 DEF FindOwned, Mine, Live
  <2>2. /\ Others(r) /\ pc'[r] = "count" /\ call'[r] = call[r]
        /\ loc'[r].entity = rows[call[r].row]
    BY <2>1, MoveOthers
  <2>3. Id(call'[r].row, loc'[r].entity) \in Ids /\ NamedAfter(r)'
    BY <2>1, <2>2, IdsOf, CallFacts DEF NamedAfter
  <2> QED
    BY <2>1, <2>2, <2>3, MoveIds
<1>13. ASSUME NEW r \in Requests, EditCount(r) PROVE Identified'
  <2> DEFINE e == loc[r].entity
  <2>1. pc[r] = "count" /\ call[r].op = "edit" /\ e \in Row
    BY <1>13 DEF EditCount, At, Held, HeldBy, Holding
  <2>2. PICK st, dr, te, fs :
           Hold(r, [e EXCEPT !.status = st, !.draft = dr, !.terms = te], fs)
    BY <1>13 DEF EditCount
  <2> DEFINE e2 == [e EXCEPT !.status = st, !.draft = dr, !.terms = te]
  <2>3. SameId(e2, e)
    BY <2>1 DEF SameId, Row
  <2>4. Goto(r, "write") /\ UNCHANGED <<rows, call>> /\ Hold(r, e2, fs)
    BY <1>13, <2>2 DEF EditCount
  <2> HIDE DEF e2
  <2>5. Others(r) /\ pc'[r] = "write" /\ call'[r] = call[r] /\ loc'[r].entity = e2
    BY <2>4, MoveOthers
  <2>6. Id(call'[r].row, loc'[r].entity) \in Ids /\ NamedAfter(r)'
    BY <2>1, <2>3, <2>5, IdsOf, SameIdEqual DEF NamedAfter, Holds
  <2> QED
    BY <2>1, <2>4, <2>5, <2>6, MoveIds
<1>14. ASSUME NEW r \in Requests, RemoveCount(r) PROVE Identified'
  <2>1. /\ pc[r] = "count" /\ call[r].op = "remove" /\ Others(r) /\ UNCHANGED <<rows, call, loc>>
        /\ pc'[r] = "write"
    BY <1>14 DEF RemoveCount, At, Goto, TypeOK, Others
  <2>2. Id(call'[r].row, loc'[r].entity) \in Ids /\ NamedAfter(r)'
    BY <2>1, IdsOf DEF Holds, NamedAfter
  <2> QED
    BY <2>1, <2>2, MoveIds
<1>15. ASSUME NEW r \in Requests, RemoveDelete(r) PROVE Identified'
  <2>1. pc[r] = "write" /\ Answer(r, "done") /\ UNCHANGED call
    BY <1>15 DEF RemoveDelete, At
  <2>2. Others(r) /\ pc'[r] = "done"
    BY <2>1, AnswerOthers
  <2>3. \A x \in Rows : rows'[x] # NoRow => Id(x, rows'[x]) \in Ids
    BY <1>15, IdsOf DEF RemoveDelete, TypeOK
  <2> QED
    BY <2>1, <2>2, <2>3, WriteIds DEF Answered
<1>16. ASSUME NEW u \in Update, SystemUpdate(u) PROVE Identified'
  <2>1. UNCHANGED <<pc, call, loc>>
    BY <1>16 DEF SystemUpdate
  <2>2. \A x \in Rows : rows'[x] # NoRow => Id(x, rows'[x]) \in Ids
    BY <1>16, SystemUpdateRows, IdsOf, SameIdEqual DEF LiveRows, RowsOf
  <2> QED
    BY <2>1, <2>2, BackendIds
<1>17. ASSUME UNCHANGED <<rows, call, pc, loc>> PROVE Identified'
  BY <1>17, IdsOf, BackendIds
<1>18. ASSUME Restart PROVE Identified'
  <2>1. \A s \in Requests : ~Holds(s)' /\ NamedAfter(s)' /\ (pc[s] = "done" => pc'[s] = "done")
    BY <1>18 DEF Restart, Holds, NamedAfter, Running, TypeOK
  <2>2. UNCHANGED rows
    BY <1>18 DEF Restart
  <2> QED
    BY <2>1, <2>2, IdsKept, IdsOf
<1>19. ASSUME (\E u \in Update : UpdateFails(u)) \/ (\E j \in Job : RunJob(j))
              \/ (\E a \in Assets, p \in Ticks : Tick(a, p)) \/ Check
              \/ UNCHANGED tvars
       PROVE Identified'
  BY <1>17, <1>19 DEF UpdateFails, RunJob, Tick, Check, tvars
<1> QED
  BY <1>1, <1>2, <1>3, <1>4, <1>5, <1>6, <1>7, <1>8, <1>9, <1>10, <1>11, <1>12, <1>13,
     <1>14, <1>15, <1>16, <1>18, <1>19, Cases
-----------------------------------------------------------------------------
(* Copies.  The row a copy has locked stays as it was read.                *)

CopyHolds(r) ==
    pc[r] \in {"check", "insert"} =>
        LET x == call[r].row
            e == loc[r].entity
        IN  /\ owner[x] = r
            /\ Live(rows[x])
            /\ e.status # "close" /\ e.terms = rows[x].terms
            /\ e.status = "draft" <=> rows[x].status = "draft"
CopiesHold == \A r \in Requests : CopyHolds(r)

\* Keys and trades of rows that are there, or are held, have been given.
LEMMA BornRows ==
    ASSUME Identified
    PROVE  /\ \A x \in Rows : rows[x] # NoRow => Born(x) /\ Born(rows[x].trade)
           /\ \A r \in Requests :
                 Holds(r) => Born(call[r].row) /\ Born(loc[r].entity.trade)
<1>1. ASSUME NEW x \in Rows, rows[x] # NoRow PROVE Born(x) /\ Born(rows[x].trade)
  <2>1. Id(x, rows[x]) \in Ids
    BY <1>1, IdsOf
  <2>2. Id(x, rows[x]).key = x /\ Id(x, rows[x]).trade = rows[x].trade
    BY IdFields
  <2> QED
    BY <2>1, <2>2 DEF Identified
<1>2. ASSUME NEW r \in Requests, Holds(r)
      PROVE  Born(call[r].row) /\ Born(loc[r].entity.trade)
  <2> DEFINE i == Id(call[r].row, loc[r].entity)
  <2>1. i \in Ids
    BY <1>2, IdsOf
  <2>2. i.key = call[r].row /\ i.trade = loc[r].entity.trade
    BY IdFields
  <2> QED
    BY <2>1, <2>2 DEF Identified
<1> QED
  BY <1>1, <1>2

\* An entity agrees with its row, if that is still there.
LEMMA HeldId ==
    ASSUME Identified, NEW r \in Requests, Holds(r),
           call[r].row \in Rows, rows[call[r].row] # NoRow
    PROVE  SameId(loc[r].entity, rows[call[r].row])
<1> DEFINE x == call[r].row
<1>1. Id(x, loc[r].entity) \in Ids /\ Id(x, rows[x]) \in Ids
  BY IdsOf
<1>2. Id(x, loc[r].entity).key = x /\ Id(x, rows[x]).key = x
  BY IdFields
<1>3. Id(x, loc[r].entity) = Id(x, rows[x])
  BY <1>1, <1>2 DEF Identified
<1> HIDE DEF x
<1>4. SameId(loc[r].entity, rows[x])
  BY <1>3, IdFields DEF SameId
<1> QED
  BY <1>4 DEF x

\* While copy s holds a lock every step leaves its row, its lock and its
\* entity alone, but for its own.
LEMMA LockedRowStays ==
    ASSUME TypeOK, Held, Identified, [Next]_tvars, NEW s \in Requests,
           pc[s] \in {"check", "insert"},
           NEW x \in Rows, owner[x] = s, rows[x] # NoRow
    PROVE  \/ pc'[s] \in Answered
           \/ /\ rows'[x] = rows[x] /\ owner'[x] = s /\ call'[s] = call[s]
              /\ \/ pc'[s] = pc[s] /\ loc'[s] = loc[s]
                 \/ CopyCheck(s) /\ Goto(s, "insert")
<1> USE DEF backend
<1> DEFINE Goal == \/ pc'[s] \in Answered
                   \/ /\ rows'[x] = rows[x] /\ owner'[x] = s /\ call'[s] = call[s]
                      /\ \/ pc'[s] = pc[s] /\ loc'[s] = loc[s]
                         \/ CopyCheck(s) /\ Goto(s, "insert")
<1> SUFFICES Goal
  OBVIOUS
<1>a. owner[x] # Nobody /\ Born(x)
  BY Marks, BornRows
<1>b. ASSUME NEW r \in Requests, NEW o \in Answered, Answer(r, o), UNCHANGED call,
             r # s => rows'[x] = rows[x]
      PROVE  Goal
  <2>1. Others(r) /\ pc'[r] = o /\ \A y \in Rows : owner'[y] = IF owner[y] = r THEN Nobody ELSE owner[y]
    BY <1>b, AnswerOthers
  <2> QED
    BY <1>b, <2>1 DEF Others
<1>c. ASSUME NEW r \in Requests, Others(r), r # s, UNCHANGED <<rows, owner>> PROVE Goal
  BY <1>c DEF Others
<1>1. ASSUME NEW r \in Requests, NEW c \in Calls, Begin(r, c) PROVE Goal
  <2>1. Others(r) /\ r # s /\ UNCHANGED <<rows, owner>>
    BY <1>1 DEF Begin, Goto, TypeOK, Others
  <2> QED
    BY <2>1, <1>c
<1>2. ASSUME NEW r \in Requests, Refusal(r) PROVE Goal
  BY <1>2, <1>b DEF Refusal, Refuse, Answered
<1>3. ASSUME NEW r \in Requests, CreateFind(r) PROVE Goal
  <2>1. /\ r # s /\ UNCHANGED <<rows, owner, call>> /\ Goto(r, "write")
        /\ \E e, fs : Hold(r, e, fs)
    BY <1>3 DEF CreateFind, At
  <2> QED
    BY <2>1, MoveOthers, <1>c
<1>4. ASSUME NEW r \in Requests, CreateSave(r) PROVE Goal
  <2>1. r # x
    BY <1>4, <1>a DEF CreateSave, At, Born
  <2>2. rows'[x] = rows[x]
    BY <1>4, <2>1 DEF CreateSave
  <2> QED
    BY <1>4, <2>2, <1>b DEF CreateSave, Answered
<1>5. ASSUME NEW r \in Requests, CopyCount(r), Goto(r, "lock"),
             UNCHANGED <<rows, call, loc, owner, backend>>
      PROVE Goal
  BY <1>5, <1>c DEF CopyCount, At, Goto, Others, TypeOK
<1>6. ASSUME NEW r \in Requests, CopyLock(r) PROVE Goal
  <2>1. /\ r # s /\ UNCHANGED <<rows, call>> /\ Goto(r, "check")
        /\ Hold(r, rows[call[r].row], {})
        /\ owner[call[r].row] = Nobody /\ owner' = [owner EXCEPT ![call[r].row] = r]
    BY <1>6 DEF CopyLock, At
  <2>2. Others(r)
    BY <2>1, MoveOthers
  <2>3. owner'[x] = owner[x]
    BY <2>1, <1>a DEF TypeOK
  <2> QED
    BY <2>1, <2>2, <2>3 DEF Others
<1>7. ASSUME NEW r \in Requests, CopyCheck(r), Goto(r, "insert") PROVE Goal
  <2>1. UNCHANGED <<rows, call, owner>> /\ \E e, fs : Hold(r, e, fs)
    BY <1>7 DEF CopyCheck, Refuse, Answer, Goto, TypeOK, At
  <2>2. Others(r)
    BY <1>7, <2>1, MoveOthers
  <2> QED
    BY <1>7, <2>1, <2>2 DEF Others
<1>8. ASSUME NEW r \in Requests, CopyCommit(r) PROVE Goal
  <2>1. r # s => rows'[x] = rows[x]
    <3>1. r # x
      BY <1>8, <1>a DEF CopyCommit, At, Born
    <3> QED
      BY <1>8, <1>a, <3>1, CopyCommitRows
  <2> QED
    BY <1>8, <2>1, <1>b DEF CopyCommit, Answered
<1>9. ASSUME NEW r \in Requests, CancelFind(r) \/ CancelReload(r) \/ FindOwned(r) \/ EditCount(r)
      PROVE Goal
  <2>1. /\ pc[r] \in {"start", "reload", "count"} /\ UNCHANGED <<rows, owner, call>>
        /\ \E label, e, fs : Goto(r, label) /\ Hold(r, e, fs)
    BY <1>9 DEF CancelFind, CancelReload, FindOwned, EditCount, At
  <2>2. Others(r)
    BY <2>1, MoveOthers
  <2> QED
    BY <2>1, <2>2, <1>c
<1>10. ASSUME NEW r \in Requests, CancelSave(r) \/ EditSave(r) PROVE Goal
  <2>1. rows'[x] = rows[x]
    BY <1>10, <1>a, SavedRow
  <2> QED
    BY <1>10, <2>1, <1>b DEF CancelSave, EditSave, Answered
<1>11. ASSUME NEW r \in Requests, RemoveCount(r) PROVE Goal
  BY <1>11, <1>c DEF RemoveCount, At, Goto, Others, TypeOK
<1>12. ASSUME NEW r \in Requests, RemoveDelete(r) PROVE Goal
  <2>1. rows'[x] = rows[x]
    BY <1>12, <1>a DEF RemoveDelete, TypeOK
  <2> QED
    BY <1>12, <2>1, <1>b DEF RemoveDelete, Answered
<1>13. ASSUME NEW u \in Update, SystemUpdate(u) PROVE Goal
  <2>1. rows'[x] = rows[x]
    BY <1>13, <1>a, SystemUpdateRows
  <2> QED
    BY <1>13, <2>1 DEF SystemUpdate
<1>14. ASSUME (\E u \in Update : UpdateFails(u)) \/ (\E j \in Job : RunJob(j))
              \/ (\E a \in Assets, p \in Ticks : Tick(a, p)) \/ Check
              \/ UNCHANGED tvars
       PROVE Goal
  BY <1>14 DEF UpdateFails, RunJob, Tick, Check, tvars
<1>15. ASSUME Restart PROVE Goal
  BY <1>15 DEF Restart, Running, Answered, TypeOK
<1> QED
  BY <1>1, <1>2, <1>3, <1>4, <1>5, <1>6, <1>7, <1>8, <1>9, <1>10, <1>11, <1>12, <1>13,
     <1>14, <1>15, Cases

\* The steps by which a request gets where it is.
LEMMA Entry ==
    ASSUME TypeOK, [Next]_tvars, NEW s \in Requests, pc'[s] # pc[s]
    PROVE  \/ pc'[s] \in {"lock", "refused", "failed"}
           \/ pc'[s] = "start" /\ pc[s] = "idle"
           \/ pc'[s] = "check" /\ CopyLock(s)
           \/ pc'[s] = "insert" /\ CopyCheck(s) /\ Goto(s, "insert")
           \/ pc'[s] = "reload" /\ CancelFind(s)
           \/ pc'[s] = "count" /\ FindOwned(s)
           \/ pc'[s] = "write"
                /\ (CreateFind(s) \/ CancelReload(s) \/ EditCount(s) \/ RemoveCount(s))
           \/ pc'[s] = "done"
                /\ (CreateSave(s) \/ CopyCommit(s) \/ CancelSave(s) \/ EditSave(s)
                      \/ RemoveDelete(s))
<1> DEFINE Goal == \/ pc'[s] \in {"lock", "refused", "failed"}
                   \/ pc'[s] = "start" /\ pc[s] = "idle"
                   \/ pc'[s] = "check" /\ CopyLock(s)
                   \/ pc'[s] = "insert" /\ CopyCheck(s) /\ Goto(s, "insert")
                   \/ pc'[s] = "reload" /\ CancelFind(s)
                   \/ pc'[s] = "count" /\ FindOwned(s)
                   \/ pc'[s] = "write"
                        /\ (CreateFind(s) \/ CancelReload(s) \/ EditCount(s) \/ RemoveCount(s))
                   \/ pc'[s] = "done"
                        /\ (CreateSave(s) \/ CopyCommit(s) \/ CancelSave(s) \/ EditSave(s)
                              \/ RemoveDelete(s))
<1> SUFFICES Goal
  OBVIOUS
<1>1. ASSUME NEW r \in Requests, NEW label, Goto(r, label) PROVE s = r /\ pc'[s] = label
  BY <1>1 DEF TypeOK, Goto
<1>2. ASSUME NEW r \in Requests, Refusal(r) PROVE Goal
  <2>1. Goto(r, "refused") \/ Goto(r, "failed")
    BY <1>2 DEF Refusal, Refuse, Answer
  <2> QED
    BY <2>1, <1>1
<1>3. ASSUME NEW r \in Requests, NEW c \in Calls, Begin(r, c) PROVE Goal
  BY <1>1, <1>3 DEF Begin
<1>4. ASSUME NEW r \in Requests, Goto(r, "lock") PROVE Goal
  BY <1>1, <1>4
<1>5. ASSUME NEW r \in Requests, CopyLock(r) PROVE Goal
  BY <1>1, <1>5 DEF CopyLock
<1>6. ASSUME NEW r \in Requests, CopyCheck(r), Goto(r, "insert") PROVE Goal
  BY <1>1, <1>6
<1>7. ASSUME NEW r \in Requests, CancelFind(r) PROVE Goal
  BY <1>1, <1>7 DEF CancelFind
<1>8. ASSUME NEW r \in Requests, FindOwned(r) PROVE Goal
  BY <1>1, <1>8 DEF FindOwned
<1>9. ASSUME NEW r \in Requests,
             CreateFind(r) \/ CancelReload(r) \/ EditCount(r) \/ RemoveCount(r)
      PROVE  Goal
  <2>1. Goto(r, "write")
    BY <1>9 DEF CreateFind, CancelReload, EditCount, RemoveCount
  <2> QED
    BY <2>1, <1>1, <1>9
<1>10. ASSUME NEW r \in Requests,
              CreateSave(r) \/ CopyCommit(r) \/ CancelSave(r) \/ EditSave(r) \/ RemoveDelete(r)
       PROVE  Goal
  <2>1. Goto(r, "done")
    BY <1>10 DEF CreateSave, CopyCommit, CancelSave, EditSave, RemoveDelete, Answer
  <2> QED
    BY <2>1, <1>1, <1>10
<1>11. Restart => Goal
  BY DEF Restart, TypeOK
<1>12. /\ \A u \in Update : ~SystemUpdate(u) /\ ~UpdateFails(u)
       /\ \A j \in Job : ~RunJob(j)
       /\ \A a \in Assets, p \in Ticks : ~Tick(a, p)
       /\ ~Check
  BY DEF SystemUpdate, UpdateFails, RunJob, Tick, Check
<1>13. ~UNCHANGED tvars
  BY DEF tvars
<1> HIDE DEF Goal
<1> QED
  BY <1>2, <1>3, <1>4, <1>5, <1>6, <1>7, <1>8, <1>9, <1>10, <1>11, <1>12, <1>13, Cases

\* No copy is under way at the start.
LEMMA InitCopies == Init => CopiesHold
  BY DEF Init, CopiesHold, CopyHolds

\* Whatever the others do, what a copy holds stays that of its locked row.
LEMMA NextCopies ==
    TypeOK /\ Held /\ Identified /\ CopiesHold /\ [Next]_tvars => CopiesHold'
<1> SUFFICES ASSUME TypeOK, Held, Identified, CopiesHold, [Next]_tvars,
                    NEW s \in Requests, pc'[s] \in {"check", "insert"}
             PROVE  CopyHolds(s)'
  BY DEF CopiesHold, CopyHolds
<1> DEFINE x == call[s].row
           e == loc[s].entity
<1>1. CASE pc[s] \in {"check", "insert"}
  <2>1. x \in Rows /\ e \in Row
    BY <1>1, CallFacts DEF Held, HeldBy, Holding
  <2>2. /\ owner[x] = s /\ Live(rows[x]) /\ rows[x] # NoRow
        /\ e.status # "close" /\ e.terms = rows[x].terms
        /\ e.status = "draft" <=> rows[x].status = "draft"
    BY <1>1 DEF CopiesHold, CopyHolds, Live
  <2>3. /\ rows'[x] = rows[x] /\ owner'[x] = s /\ call'[s] = call[s]
        /\ \/ pc'[s] = pc[s] /\ loc'[s] = loc[s]
           \/ CopyCheck(s) /\ Goto(s, "insert")
    BY <1>1, <2>1, <2>2, LockedRowStays DEF Answered
  <2>4. CASE pc'[s] = pc[s] /\ loc'[s] = loc[s]
    BY <1>1, <2>2, <2>3, <2>4 DEF CopyHolds, Live
  <2>5. CASE CopyCheck(s) /\ Goto(s, "insert")
    <3> DEFINE s2 == IF e.status = "pending" THEN Opened(e.terms, Price(e)) ELSE e.status
               n2 == e.copiers + 1
               e2 == [e EXCEPT !.status = s2, !.copiers = n2]
    <3>1. loc'[s].entity = e2
      BY <2>5, <1>1 DEF CopyCheck, Refuse, Answer, Goto, TypeOK, At, Hold
    <3>2. s2 # "close" /\ (s2 = "draft" <=> e.status = "draft")
      BY <2>2 DEF Opened
    <3> HIDE DEF s2, n2
    <3>3. e2.status = s2 /\ e2.terms = e.terms
      BY <2>1 DEF Row
    <3> HIDE DEF e2
    <3> QED
      BY <2>2, <2>3, <3>1, <3>2, <3>3 DEF CopyHolds, Live
  <2> QED
    BY <2>3, <2>4, <2>5
<1>2. CASE pc[s] \notin {"check", "insert"}
  <2>1. CopyLock(s)
    BY <1>2, Entry DEF CopyCheck, At
  <2>2. x \in Rows
    BY <2>1, CallFacts DEF CopyLock, At
  <2>3. /\ Live(rows[x]) /\ UNCHANGED <<rows, call>> /\ owner'[x] = s
        /\ loc'[s].entity = rows[x]
    BY <2>1, <2>2 DEF CopyLock, Hold, TypeOK
  <2> QED
    BY <2>3 DEF CopyHolds, Live
<1> QED
  BY <1>1, <1>2

\* A copy that commits is of a live row and equals it in terms and author.
LEMMA CommittedCopy ==
    ASSUME TypeOK, Held, Identified, CopiesHold, NEW r \in Requests, CopyCommit(r)
    PROVE  /\ Live(rows[call[r].row]) /\ Live(rows'[r])
           /\ rows'[r].terms = rows[call[r].row].terms
           /\ rows'[r].creator = rows[call[r].row].creator
<1> DEFINE x == call[r].row
           e == loc[r].entity
<1>1. pc[r] = "insert" /\ Holds(r) /\ x \in Rows
  BY CallFacts DEF CopyCommit, At, Holds
<1>2. Live(rows[x]) /\ e.status # "close" /\ e.terms = rows[x].terms
  BY <1>1 DEF CopiesHold, CopyHolds
<1>3. SameId(e, rows[x])
  BY <1>1, <1>2, HeldId DEF Live
<1>4. /\ rows'[r] \in Row /\ rows'[r].status = e.status
      /\ rows'[r].terms = e.terms /\ rows'[r].creator = e.creator
  BY CopyCommitRows
<1> QED
  BY <1>2, <1>3, <1>4, Marks DEF Live, SameId

Copied == TypeOK /\ Held /\ Identified /\ CopiesHold

\* The inductive invariant on which the theorems about copies rest.
LEMMA CopiedInvariant == Spec => []Copied
<1>1. Init => Copied
  BY InitType, InitIds, InitCopies DEF Copied
<1>2. Copied /\ [Next]_tvars => Copied'
  BY NextType, NextIds, NextCopies DEF Copied
<1> QED
  BY <1>1, <1>2, PTL DEF Spec

\* Every copy is made of a trade that is live at that moment, with the terms
\* and the author it has then, whoever closes, edits or removes it.
THEOREM CopiesAreOfLiveTrades == Spec => CopiesLiveTrade
<1>1. ASSUME Copied, [Next]_tvars
      PROVE  [\A r \in Requests :
                Copies(r) =>
                    /\ Live(rows[call[r].row]) /\ Live(rows'[r])
                    /\ rows'[r].terms = rows[call[r].row].terms
                    /\ rows'[r].creator = rows[call[r].row].creator]_tvars
  <2>1. ASSUME NEW r \in Requests, Copies(r) PROVE CopyCommit(r)
    BY <1>1, <2>1, Entry
    DEF Copied, Copies, CreateSave, CancelSave, EditSave, RemoveDelete, At
  <2> QED
    BY <1>1, <2>1, CommittedCopy DEF Copied
<1> QED
  BY <1>1, CopiedInvariant, PTL DEF Spec, CopiesLiveTrade
-----------------------------------------------------------------------------
(* Settled trades *)

\* A request that does not move keeps its arguments and what it holds.
LEMMA Stays ==
    ASSUME TypeOK, [Next]_tvars, NEW s \in Requests, pc'[s] = pc[s], pc[s] \in Running
    PROVE  call'[s] = call[s] /\ loc'[s] = loc[s]
<1> USE DEF backend
<1> DEFINE Goal == call'[s] = call[s] /\ loc'[s] = loc[s]
<1> SUFFICES Goal
  OBVIOUS
<1>1. ASSUME NEW r \in Requests, NEW label, Goto(r, label) PROVE r = s => label = pc[s]
  BY <1>1 DEF TypeOK, Goto
<1>2. ASSUME NEW r \in Requests, NEW o \in Answered, Answer(r, o), UNCHANGED call PROVE Goal
  <2>1. r # s
    BY <1>1, <1>2 DEF Answer, Answered, Running
  <2> QED
    BY <1>2, <2>1, AnswerOthers DEF Others
<1>3. ASSUME NEW r \in Requests, NEW label, label # pc[r], Goto(r, label), UNCHANGED call,
             NEW e, NEW fs, Hold(r, e, fs)
      PROVE  Goal
  BY <1>1, <1>3, MoveOthers DEF Others
<1>4. ASSUME NEW r \in Requests, NEW c \in Calls, Begin(r, c) PROVE Goal
  <2>1. r # s
    BY <1>4 DEF Begin, Running
  <2> QED
    BY <1>4, <2>1 DEF Begin, TypeOK
<1>5. ASSUME NEW r \in Requests, Refusal(r) PROVE Goal
  BY <1>2, <1>5 DEF Refusal, Refuse, Answered
<1>6. ASSUME NEW r \in Requests,
             CreateSave(r) \/ CopyCommit(r) \/ CancelSave(r) \/ EditSave(r) \/ RemoveDelete(r)
      PROVE  Goal
  BY <1>2, <1>6
  DEF CreateSave, CopyCommit, CancelSave, EditSave, RemoveDelete, Answered
<1>7. ASSUME NEW r \in Requests, UNCHANGED <<call, loc>> PROVE Goal
  BY <1>7
<1>8. ASSUME NEW r \in Requests,
             CopyLock(r) \/ CancelFind(r) \/ CancelReload(r) \/ FindOwned(r) \/ EditCount(r)
               \/ CreateFind(r)
      PROVE  Goal
  <2>1. \E label, e, fs : label # pc[r] /\ Goto(r, label) /\ UNCHANGED call /\ Hold(r, e, fs)
    BY <1>8 DEF CopyLock, CancelFind, CancelReload, FindOwned, EditCount, CreateFind, At
  <2> QED
    BY <2>1, <1>3
<1>9. ASSUME NEW r \in Requests, CopyCheck(r), Goto(r, "insert") PROVE Goal
  <2>1. pc[r] = "check" /\ UNCHANGED call /\ \E e, fs : Hold(r, e, fs)
    BY <1>9 DEF CopyCheck, Refuse, Answer, Goto, TypeOK, At
  <2> QED
    BY <1>9, <2>1, <1>3
<1>10. ASSUME NEW r \in Requests, RemoveCount(r) PROVE Goal
  BY <1>10 DEF RemoveCount
<1>11. /\ \A u \in Update : SystemUpdate(u) \/ UpdateFails(u) => Goal
       /\ \A j \in Job : RunJob(j) => Goal
       /\ \A a \in Assets, p \in Ticks : Tick(a, p) => Goal
       /\ Check => Goal
       /\ UNCHANGED tvars => Goal
  BY DEF SystemUpdate, UpdateFails, RunJob, Tick, Check, tvars
<1>12. ~Restart
  BY DEF Restart, Running, TypeOK
<1> HIDE DEF Goal
<1> QED
  BY <1>4, <1>5, <1>6, <1>7, <1>8, <1>9, <1>10, <1>11, <1>12, Cases

\* A cancel that has read its row will write it closed.
Closing(r) ==
    pc[r] \in {"reload", "write"} /\ call[r].op = "cancel" => loc[r].entity.status = "close"
CancelsClose == \A r \in Requests : Closing(r)

\* No request is at work at the start.
LEMMA InitCancels == Init => CancelsClose
  BY DEF Init, CancelsClose, Closing

\* What a cancel holds is closed when it is read and not changed after.
LEMMA NextCancels == TypeOK /\ Held /\ CancelsClose /\ [Next]_tvars => CancelsClose'
<1> SUFFICES ASSUME TypeOK, Held, CancelsClose, [Next]_tvars, NEW s \in Requests,
                    pc'[s] \in {"reload", "write"}, call'[s].op = "cancel"
             PROVE  loc'[s].entity.status = "close"
  BY DEF CancelsClose, Closing
<1>1. CASE pc'[s] = pc[s]
  BY <1>1, Stays DEF CancelsClose, Closing, Running
<1>2. CASE pc'[s] = "reload" /\ CancelFind(s)
  <2> DEFINE x == call[s].row
  <2>1. pc[s] # "idle" /\ rows[x] # NoRow /\ UNCHANGED call
        /\ Hold(s, [rows[x] EXCEPT !.status = "close", !.exit = Price(rows[x])], {})
    BY <1>2 DEF CancelFind, At, Mine, Live
  <2>2. rows[x] \in Row
    BY <2>1, CallFacts DEF TypeOK
  <2> QED
    BY <2>1, <2>2 DEF Hold, Row, TypeOK
<1>3. CASE pc'[s] = "write" /\ CancelReload(s)
  BY <1>3 DEF CancelReload, At, Hold, TypeOK, CancelsClose, Closing
<1>4. CASE CreateFind(s) \/ EditCount(s) \/ RemoveCount(s)
  BY <1>4 DEF CreateFind, EditCount, RemoveCount, At
<1> QED
  BY <1>1, <1>2, <1>3, <1>4, Entry

\* A row left live that was not live before, or was not of the trade.
LEMMA Revived ==
    ASSUME Copied, CancelsClose, [Next]_tvars, NEW t \in Rows, Settled(t),
           NEW x \in Rows, rows'[x] # NoRow, rows'[x].trade = t, rows'[x].status # "close"
    PROVE  \E r \in Requests : Saves(r) /\ loc[r].entity.trade = t
<1> USE DEF Copied, backend
<1> DEFINE Goal == \E r \in Requests : Saves(r) /\ loc[r].entity.trade = t
<1> SUFFICES Goal
  OBVIOUS
<1>a. \A y \in Rows : rows[y] # NoRow /\ rows[y].trade = t => rows[y].status = "close"
  BY DEF Settled, LiveRows, RowsOf
<1>b. rows'[x] = rows[x] => Goal
  BY <1>a
<1>1. ASSUME NEW r \in Requests, CreateSave(r) PROVE Goal
  <2>1. pc[r] = "write" /\ loc[r].entity.trade = r
    BY <1>1 DEF CreateSave, At, Identified, NamedAfter
  <2>2. PICK y \in Rows : rows[y] # NoRow /\ rows[y].trade = t
    BY DEF Settled, RowsOf
  <2>3. t # r
    BY <2>1, <2>2, BornRows DEF Born
  <2>4. x # r => rows'[x] = rows[x]
    BY <1>1 DEF CreateSave
  <2>5. rows'[r] = loc[r].entity
    BY <1>1, Marks DEF CreateSave, TypeOK
  <2> QED
    BY <2>1, <2>3, <2>4, <2>5, <1>b
<1>2. ASSUME NEW r \in Requests, CopyCommit(r) PROVE Goal
  <2> DEFINE e == loc[r].entity
             y == call[r].row
  <2>1. pc[r] = "insert" /\ Holds(r) /\ y \in Rows
    BY <1>2, CallFacts DEF CopyCommit, At, Holds
  <2>2. Live(rows[y])
    BY <1>2, CommittedCopy
  <2>3. SameId(e, rows[y])
    BY <2>1, <2>2, HeldId DEF Live
  <2>4. e.trade # t
    BY <2>1, <2>2, <2>3, <1>a DEF Live, SameId
  <2>5. /\ rows'[r].trade = e.trade
        /\ x # r => rows'[x] = rows[x]
                    \/ (x \in RowsOf(e.trade) /\ SameId(rows'[x], rows[x]))
    BY <1>2, CopyCommitRows
  <2> QED
    BY <2>4, <2>5, <1>b DEF RowsOf, SameId
<1>3. ASSUME NEW r \in Requests, CancelSave(r) PROVE Goal
  <2> DEFINE e == loc[r].entity
  <2>1. pc[r] = "write" /\ call[r].op = "cancel"
    BY <1>3 DEF CancelSave, At
  <2>2. e.status = "close"
    BY <2>1 DEF CancelsClose, Closing
  <2>3. /\ x # call[r].row => rows'[x] = rows[x]
        /\ \/ rows'[call[r].row] = NoRow
           \/ rows'[call[r].row] = e
           \/ /\ rows[call[r].row] \in Row
              /\ rows'[call[r].row] = Merged(e, rows[call[r].row], loc[r].dirty)
              /\ SameId(rows'[call[r].row], rows[call[r].row])
    BY <1>3, SavedRow
  <2>4. CASE /\ x = call[r].row /\ rows[x] \in Row
             /\ rows'[x] = Merged(e, rows[x], loc[r].dirty)
             /\ SameId(rows'[x], rows[x])
    <3>1. rows'[x].status \in {e.status, rows[x].status}
      BY <2>4, MergedFields DEF Fields
    <3>2. rows[x] # NoRow /\ rows[x].trade = t
      BY <2>4, Marks DEF SameId
    <3> QED
      BY <3>1, <3>2, <2>2, <1>a
  <2> QED
    BY <2>2, <2>3, <2>4, <1>b
<1>4. ASSUME NEW r \in Requests, EditSave(r) PROVE Goal
  <2> DEFINE e == loc[r].entity
  <2>1. pc[r] = "write" /\ call[r].op = "edit" /\ pc'[r] = "done"
    BY <1>4, AnswerOthers DEF EditSave, At
  <2>2. /\ x # call[r].row => rows'[x] = rows[x]
        /\ \/ rows'[call[r].row] = NoRow
           \/ /\ SameId(rows'[call[r].row], rows[call[r].row])
              /\ SameId(e, rows[call[r].row])
    BY <1>4, <2>1, SavedRow
  <2>3. x = call[r].row => e.trade = t
    BY <2>2 DEF SameId
  <2> QED
    BY <2>1, <2>2, <2>3, <1>b DEF Saves, At
<1>5. ASSUME NEW r \in Requests, RemoveDelete(r) PROVE Goal
  <2>1. rows'[x] = rows[x]
    BY <1>5 DEF RemoveDelete, TypeOK
  <2> QED
    BY <2>1, <1>b
<1>6. ASSUME NEW u \in Update, SystemUpdate(u) PROVE Goal
  <2>1. rows'[x] = rows[x] \/ (x \in LiveRows(u.trade) /\ SameId(rows'[x], rows[x]))
    BY <1>6, SystemUpdateRows
  <2> QED
    BY <2>1, <1>a, <1>b DEF LiveRows, RowsOf, SameId
<1>7. UNCHANGED rows => Goal
  BY <1>b
<1>8. ASSUME NEW r \in Requests,
             \/ Refusal(r) \/ CreateFind(r) \/ CopyLock(r)
             \/ CopyCheck(r) /\ Goto(r, "insert")
             \/ CancelFind(r) \/ CancelReload(r) \/ FindOwned(r) \/ EditCount(r)
             \/ RemoveCount(r)
      PROVE  Goal
  <2>1. UNCHANGED rows
    BY <1>8 DEF Refusal, Refuse, CreateFind, CopyLock, CopyCheck, CancelFind, CancelReload,
                FindOwned, EditCount, RemoveCount
  <2> QED
    BY <2>1, <1>7
<1>9. /\ \A r \in Requests, c \in Calls : Begin(r, c) => Goal
      /\ \A u \in Update : UpdateFails(u) => Goal
      /\ \A j \in Job : RunJob(j) => Goal
      /\ \A a \in Assets, p \in Ticks : Tick(a, p) => Goal
      /\ Check => Goal
      /\ Restart => Goal
      /\ UNCHANGED tvars => Goal
  BY <1>7 DEF Begin, UpdateFails, RunJob, Tick, Check, Restart, tvars
<1> HIDE DEF Goal
<1> QED
  BY <1>1, <1>2, <1>3, <1>4, <1>5, <1>6, <1>7, <1>8, <1>9, Cases

\* However copies, cancels, jobs and ticks interleave, a trade all of whose
\* rows are closed comes back only by an edit that had found it before.
THEOREM SettledTradesStay == Spec => SettledStaysSettled
<1>1. Init => CancelsClose
  BY InitCancels
<1>2. Copied /\ CancelsClose /\ [Next]_tvars => CancelsClose'
  BY NextCancels DEF Copied
<1>3. ASSUME Copied, CancelsClose, [Next]_tvars
      PROVE  [\A t \in Rows :
                Settled(t) /\ ~Settled(t)' =>
                    \/ RowsOf(t)' = {}
                    \/ \E r \in Requests : Saves(r) /\ loc[r].entity.trade = t]_tvars
  <2>1. ASSUME NEW t \in Rows, Settled(t), ~Settled(t)', RowsOf(t)' # {}
        PROVE  \E r \in Requests : Saves(r) /\ loc[r].entity.trade = t
    <3>1. PICK x \in Rows : rows'[x] # NoRow /\ rows'[x].trade = t /\ rows'[x].status # "close"
      BY <2>1 DEF Settled, LiveRows, RowsOf
    <3> QED
      BY <1>3, <2>1, <3>1, Revived
  <2> QED
    BY <2>1
<1> QED
  BY <1>1, <1>2, <1>3, CopiedInvariant, PTL DEF Spec, SettledStaysSettled
-----------------------------------------------------------------------------
(* One row per user *)

\* A request that has been answered stays so.
LEMMA AnsweredStays ==
    ASSUME TypeOK, [Next]_tvars, NEW s \in Requests, pc[s] \in Answered
    PROVE  pc'[s] = pc[s] /\ call'[s] = call[s]
<1> USE DEF backend
<1> DEFINE Goal == pc'[s] = pc[s] /\ call'[s] = call[s]
<1> SUFFICES Goal
  OBVIOUS
<1>1. ASSUME NEW r \in Requests, pc[r] \notin Answered, NEW label, Goto(r, label),
             UNCHANGED call
      PROVE  Goal
  BY <1>1 DEF Goto, TypeOK
<1>2. ASSUME NEW r \in Requests, NEW c \in Calls, Begin(r, c) PROVE Goal
  BY <1>2 DEF Begin, Goto, TypeOK, Answered
<1>3. ASSUME NEW r \in Requests, Refusal(r) PROVE Goal
  <2>1. pc[r] \notin Answered /\ UNCHANGED call /\ \E label : Goto(r, label)
    BY <1>3 DEF Refusal, Refuse, Answer, Running, Answered
  <2> QED
    BY <2>1, <1>1
<1>4. ASSUME NEW r \in Requests,
             CreateSave(r) \/ CopyCommit(r) \/ CancelSave(r) \/ EditSave(r) \/ RemoveDelete(r)
      PROVE  Goal
  <2>1. pc[r] \notin Answered /\ UNCHANGED call /\ Goto(r, "done")
    BY <1>4 DEF CreateSave, CopyCommit, CancelSave, EditSave, RemoveDelete, Answer, At, Answered
  <2> QED
    BY <2>1, <1>1
<1>5. ASSUME NEW r \in Requests,
             CopyLock(r) \/ CancelFind(r) \/ CancelReload(r) \/ FindOwned(r) \/ EditCount(r)
               \/ CreateFind(r) \/ RemoveCount(r)
      PROVE  Goal
  <2>1. pc[r] \notin Answered /\ UNCHANGED call /\ \E label : Goto(r, label)
    BY <1>5 DEF CopyLock, CancelFind, CancelReload, FindOwned, EditCount, CreateFind,
                RemoveCount, At, Answered
  <2> QED
    BY <2>1, <1>1
<1>6. ASSUME NEW r \in Requests,
             \/ CopyCheck(r) /\ Goto(r, "insert")
             \/ CopyCount(r) /\ Goto(r, "lock") /\ UNCHANGED <<rows, call, loc, owner, backend>>
      PROVE  Goal
  <2>1. pc[r] \notin Answered /\ UNCHANGED call /\ \E label : Goto(r, label)
    BY <1>6 DEF CopyCheck, CopyCount, Refuse, At, Answered
  <2> QED
    BY <2>1, <1>1
<1>7. /\ \A u \in Update : SystemUpdate(u) \/ UpdateFails(u) => Goal
      /\ \A j \in Job : RunJob(j) => Goal
      /\ \A a \in Assets, p \in Ticks : Tick(a, p) => Goal
      /\ Check => Goal
      /\ UNCHANGED tvars => Goal
  BY DEF SystemUpdate, UpdateFails, RunJob, Tick, Check, tvars
<1>8. Restart => Goal
  BY DEF Restart, Running, Answered, TypeOK
<1> HIDE DEF Goal
<1> QED
  BY <1>2, <1>3, <1>4, <1>5, <1>6, <1>7, <1>8, Cases

\* A row that was there, and what a step may make of it.
Kept(x) == rows[x] # NoRow /\ SameId(rows'[x], rows[x])
PutBack(r, x) ==
    /\ CancelSave(r) /\ call[r].row = x /\ loc[r].dirty = Fields
    /\ rows[x] = NoRow /\ rows'[x] = loc[r].entity

\* Every row after a step was there before, or is inserted by the request of
\* its name or by a cancel; every row that goes is removed.
LEMMA RowSteps ==
    ASSUME Copied, [Next]_tvars, NEW x \in Rows
    PROVE  /\ rows'[x] # NoRow =>
                \/ Kept(x)
                \/ x \in Requests /\ (CreateSave(x) \/ CopyCommit(x))
                \/ \E r \in Requests : PutBack(r, x)
           /\ rows[x] # NoRow /\ rows'[x] = NoRow =>
                \E r \in Requests : RemoveDelete(r) /\ call[r].row = x
<1> USE DEF Copied, backend
<1> DEFINE There == rows'[x] # NoRow =>
                      \/ Kept(x)
                      \/ x \in Requests /\ (CreateSave(x) \/ CopyCommit(x))
                      \/ \E r \in Requests : PutBack(r, x)
           Gone  == rows[x] # NoRow /\ rows'[x] = NoRow =>
                      \E r \in Requests : RemoveDelete(r) /\ call[r].row = x
           Goal  == There /\ Gone
<1> SUFFICES Goal
  OBVIOUS
<1>a. rows'[x] = rows[x] => Goal
  BY DEF Kept, SameId
<1>b. Kept(x) /\ rows'[x] # NoRow => Goal
  OBVIOUS
<1>1. ASSUME NEW r \in Requests, CreateSave(r) PROVE Goal
  <2>1. x # r => rows'[x] = rows[x]
    BY <1>1 DEF CreateSave
  <2>2. pc[r] = "write" /\ rows'[r] = loc[r].entity
    BY <1>1, Marks DEF CreateSave, At, TypeOK
  <2>3. rows'[r] # NoRow
    BY <2>2, Marks DEF Held, HeldBy, Holding
  <2> QED
    BY <1>1, <2>1, <2>3, <1>a
<1>2. ASSUME NEW r \in Requests, CopyCommit(r) PROVE Goal
  <2>1. /\ rows'[r] \in Row
        /\ x # r => \/ rows'[x] = rows[x]
                    \/ /\ x \in RowsOf(loc[r].entity.trade)
                       /\ SameId(rows'[x], rows[x]) /\ rows'[x] # NoRow
    BY <1>2, CopyCommitRows
  <2> QED
    BY <1>2, <2>1, <1>a, <1>b, Marks DEF Kept, RowsOf
<1>3. ASSUME NEW r \in Requests, CancelSave(r) \/ EditSave(r) PROVE Goal
  <2> DEFINE y == call[r].row
             e == loc[r].entity
  <2>1. /\ e \in Row
        /\ x # y => rows'[x] = rows[x]
        /\ \/ rows[y] = NoRow /\ rows'[y] = NoRow
           \/ /\ call[r].op = "cancel" /\ loc[r].dirty = Fields
              /\ rows[y] = NoRow /\ rows'[y] = e
           \/ /\ rows[y] \in Row /\ rows'[y] \in Row
              /\ SameId(rows'[y], rows[y])
    BY <1>3, SavedRow
  <2>2. call[r].op = "cancel" => CancelSave(r)
    BY <1>3 DEF EditSave, At
  <2>3. CASE x = y /\ rows[x] \in Row /\ rows'[x] \in Row /\ SameId(rows'[x], rows[x])
    BY <2>3, <1>b, Marks DEF Kept
  <2>4. CASE x = y /\ call[r].op = "cancel" /\ loc[r].dirty = Fields
             /\ rows[x] = NoRow /\ rows'[x] = e
    BY <2>4, <2>2 DEF PutBack
  <2> QED
    BY <2>1, <2>3, <2>4, <1>a
<1>4. ASSUME NEW r \in Requests, RemoveDelete(r) PROVE Goal
  <2>1. x # call[r].row => rows'[x] = rows[x]
    BY <1>4 DEF RemoveDelete
  <2>2. x = call[r].row => rows'[x] = NoRow
    BY <1>4 DEF RemoveDelete, TypeOK
  <2> QED
    BY <1>4, <2>1, <2>2, <1>a
<1>5. ASSUME NEW u \in Update, SystemUpdate(u) PROVE Goal
  <2>1. rows'[x] = rows[x]
        \/ (x \in LiveRows(u.trade) /\ SameId(rows'[x], rows[x]) /\ rows'[x] # NoRow)
    BY <1>5, SystemUpdateRows
  <2> QED
    BY <2>1, <1>a, <1>b DEF Kept, LiveRows, RowsOf
<1>6. UNCHANGED rows => Goal
  BY <1>a
<1>7. ASSUME NEW r \in Requests,
             \/ Refusal(r) \/ CreateFind(r) \/ CopyLock(r)
             \/ CopyCheck(r) /\ Goto(r, "insert")
             \/ CancelFind(r) \/ CancelReload(r) \/ FindOwned(r) \/ EditCount(r)
             \/ RemoveCount(r)
      PROVE  Goal
  <2>1. UNCHANGED rows
    BY <1>7 DEF Refusal, Refuse, CreateFind, CopyLock, CopyCheck, CancelFind, CancelReload,
                FindOwned, EditCount, RemoveCount
  <2> QED
    BY <2>1, <1>6
<1>8. /\ \A r \in Requests, c \in Calls : Begin(r, c) => Goal
      /\ \A u \in Update : UpdateFails(u) => Goal
      /\ \A j \in Job : RunJob(j) => Goal
      /\ \A a \in Assets, p \in Ticks : Tick(a, p) => Goal
      /\ Check => Goal
      /\ Restart => Goal
      /\ UNCHANGED tvars => Goal
  BY <1>6 DEF Begin, UpdateFails, RunJob, Tick, Check, Restart, tvars
<1> HIDE DEF Goal
<1> QED
  BY <1>1, <1>2, <1>3, <1>4, <1>5, <1>6, <1>7, <1>8, Cases

Removed(x) == \E s \in Requests : Done(s, "remove", x)
Exempt(x)  == Removed(x) /\ \E r \in Requests : Done(r, "cancel", x)

\* What has been done stays done.
LEMMA DoneStays ==
    ASSUME TypeOK, [Next]_tvars, NEW x \in Rows
    PROVE  (Removed(x) => Removed(x)') /\ (Exempt(x) => Exempt(x)')
  BY AnsweredStays DEF Removed, Exempt, Done, Answered

\* A row that is held and gone has been removed.
Vanished(r) == Holds(r) /\ rows[call[r].row] = NoRow => Removed(call[r].row)

\* A copy about to be inserted is the only row of its trade and user, but
\* for rows that a cancel has put back.
Inserting(r) ==
    pc[r] = "insert" =>
        \A y \in RowsOf(loc[r].entity.trade) : rows[y].user # call[r].user \/ Exempt(y)

Single ==
    \A x, y \in Rows :
        x # y /\ rows[x] # NoRow /\ rows[y] # NoRow /\ rows[x].trade = rows[y].trade
            => rows[x].user # rows[y].user \/ Exempt(x) \/ Exempt(y)

Singles ==
    /\ Single
    /\ \A r \in Requests : Vanished(r) /\ Inserting(r)

\* The tables the service may start with have one row per trade and user.
LEMMA InitSingles == Init => Singles
<1> SUFFICES ASSUME Init PROVE Singles
  OBVIOUS
<1>1. Single
  BY TradesAssumption DEF Init, Single
<1>2. \A r \in Requests : Vanished(r) /\ Inserting(r)
  BY DEF Init, Vanished, Inserting, Holds
<1> QED
  BY <1>1, <1>2 DEF Singles

\* A row is gone only when it is removed, and is there when it is found.
LEMMA NextVanished ==
    ASSUME Copied, Singles, [Next]_tvars, NEW s \in Requests
    PROVE  Vanished(s)'
<1> USE DEF Copied
<1> SUFFICES ASSUME Holds(s)', rows'[call'[s].row] = NoRow PROVE Removed(call[s].row)'
  BY DEF Vanished
<1>1. CASE CopyLock(s) \/ CancelFind(s) \/ FindOwned(s)
  BY <1>1 DEF CopyLock, CancelFind, FindOwned, Mine, Live
<1>2. CASE ~(CopyLock(s) \/ CancelFind(s) \/ FindOwned(s))
  <2>1. Holds(s) /\ call'[s] = call[s]
    <3>1. CASE pc'[s] = pc[s]
      <4>1. pc[s] \in Running
        BY <3>1 DEF Holds, Running
      <4> QED
        BY <3>1, <4>1, Stays DEF Holds
    <3>2. CASE pc'[s] # pc[s]
      <4>1. \/ CopyCheck(s) /\ Goto(s, "insert")
            \/ CreateFind(s) \/ CancelReload(s) \/ EditCount(s) \/ RemoveCount(s)
        BY <1>2, <3>2, Entry DEF Holds
      <4>2. ~CreateFind(s)
        BY DEF CreateFind, Holds, Goto, At, TypeOK
      <4> QED
        BY <4>1, <4>2 DEF CopyCheck, Refuse, CancelReload, EditCount, RemoveCount, At, Holds
    <3> QED
      BY <3>1, <3>2
  <2>2. PICK x \in Rows : x = call[s].row
    BY <2>1, CallFacts DEF Holds
  <2>5. x = call'[s].row
    BY <2>1, <2>2
  <2>6. SUFFICES Removed(x)'
    BY <2>5 DEF Removed, Done
  <2>3. CASE rows[x] = NoRow
    <3>1. Removed(x)
      BY <2>1, <2>2, <2>3 DEF Singles, Vanished
    <3> QED
      BY <3>1, DoneStays
  <2>4. CASE rows[x] # NoRow
    <3>1. PICK r \in Requests : RemoveDelete(r) /\ call[r].row = x
      BY <2>4, <2>5, RowSteps
    <3>2. pc'[r] = "done" /\ call'[r] = call[r] /\ call[r].op = "remove"
      BY <3>1, AnswerOthers DEF RemoveDelete, At
    <3> QED
      BY <3>1, <3>2 DEF Removed, Done
  <2> QED
    BY <2>3, <2>4
<1> QED
  BY <1>1, <1>2

\* A cancel puts back only a row that has been removed.
LEMMA PutBackExempt ==
    ASSUME Copied, Singles, [Next]_tvars, NEW x \in Rows,
           NEW r \in Requests, PutBack(r, x)
    PROVE  Exempt(x)'
<1> USE DEF Copied
<1>1. pc[r] = "write" /\ call[r].op = "cancel" /\ call[r].row = x /\ rows[x] = NoRow
  BY DEF PutBack, CancelSave, At
<1>2. Removed(x)
  BY <1>1 DEF Singles, Vanished, Holds
<1>3. pc'[r] = "done" /\ call'[r] = call[r]
  BY AnswerOthers DEF PutBack, CancelSave
<1> QED
  BY <1>1, <1>2, <1>3, DoneStays DEF Exempt, Done

\* While a copy waits to be inserted nobody else adds a row to its trade:
\* every copy of the trade must write the row it has locked.
LEMMA NextInserting ==
    ASSUME Copied, Singles, [Next]_tvars, NEW s \in Requests
    PROVE  Inserting(s)'
<1> USE DEF Copied
<1> SUFFICES ASSUME pc'[s] = "insert",
                    NEW y \in Rows, rows'[y] # NoRow, rows'[y].trade = loc'[s].entity.trade
             PROVE  rows'[y].user # call'[s].user \/ Exempt(y)'
  BY DEF Inserting, RowsOf
<1>1. CASE pc[s] = "insert"
  <2> DEFINE e == loc[s].entity
             x == call[s].row
  <2>1. call'[s] = call[s] /\ loc'[s] = loc[s]
    BY <1>1, Stays DEF Running
  <2>2. Holds(s) /\ x \in Rows /\ owner[x] = s /\ Live(rows[x])
    BY <1>1, CallFacts DEF CopiesHold, CopyHolds, Holds
  <2>3. rows[x].trade = e.trade /\ Born(e.trade)
    BY <2>2, HeldId, BornRows DEF Live, SameId
  <2>4. CASE Kept(y)
    <3>1. y \in RowsOf(e.trade) /\ rows'[y].user = rows[y].user
      BY <2>1, <2>4 DEF Kept, SameId, RowsOf
    <3> QED
      BY <1>1, <2>1, <3>1, DoneStays DEF Singles, Inserting
  <2>5. CASE y \in Requests /\ CreateSave(y)
    <3>1. pc[y] = "write" /\ loc[y].entity.trade = y /\ rows'[y] = loc[y].entity
      BY <2>5 DEF CreateSave, At, Identified, NamedAfter, TypeOK
    <3> QED
      BY <2>1, <2>3, <2>5, <3>1 DEF Born
  <2>6. CASE y \in Requests /\ CopyCommit(y)
    <3>1. pc'[y] = "done" /\ rows'[y].trade = loc[y].entity.trade
      <4>1. pc'[y] = "done"
        BY <2>6, AnswerOthers DEF CopyCommit
      <4>2. rows'[y].trade = loc[y].entity.trade
        BY <2>6, CopyCommitRows
      <4> QED
        BY <4>1, <4>2
    <3>2. x \in RowsOf(loc[y].entity.trade)
      BY <2>1, <2>2, <2>3, <3>1 DEF RowsOf, Live
    <3>3. owner[x] \in {y, Nobody}
      BY <2>6, <3>2 DEF CopyCommit, RowsFree
    <3> QED
      BY <2>2, <3>1, <3>3, Marks
  <2>7. CASE \E r \in Requests : PutBack(r, y)
    BY <2>7, PutBackExempt
  <2> QED
    BY <2>4, <2>5, <2>6, <2>7, RowSteps
<1>2. CASE pc[s] # "insert"
  <2>1. CopyCheck(s) /\ Goto(s, "insert")
    BY <1>2, Entry
  <2> DEFINE e == loc[s].entity
             s2 == IF e.status = "pending" THEN Opened(e.terms, Price(e)) ELSE e.status
             n2 == e.copiers + 1
             e2 == [e EXCEPT !.status = s2, !.copiers = n2]
  <2>2. pc[s] = "check" /\ e \in Row
    BY <2>1 DEF CopyCheck, At, Held, HeldBy, Holding
  <2>3. /\ UNCHANGED <<rows, call>> /\ loc'[s].entity = e2
        /\ ~\E x \in RowsOf(e.trade) : rows[x].user = call[s].user
    BY <2>1, <2>2 DEF CopyCheck, Refuse, Answer, Goto, TypeOK, Hold
  <2> HIDE DEF s2, n2
  <2>4. e2.trade = e.trade
    BY <2>2 DEF Row
  <2> HIDE DEF e2
  <2> QED
    BY <2>3, <2>4 DEF RowsOf
<1> QED
  BY <1>1, <1>2

\* A row that appears is the first of its user in the trade, or put back.
LEMMA NextSingle == ASSUME Copied, Singles, [Next]_tvars PROVE Single'
<1> USE DEF Copied
<1> DEFINE Apart(x, y) == rows'[x].user # rows'[y].user \/ Exempt(x)' \/ Exempt(y)'
<1>1. ASSUME NEW x \in Rows, NEW y \in Rows, x # y, rows'[x] # NoRow, rows'[y] # NoRow,
             rows'[x].trade = rows'[y].trade, ~Kept(x)
      PROVE  Apart(x, y)
  <2>1. CASE x \in Requests /\ CreateSave(x)
    <3>1. pc[x] = "write" /\ rows'[x].trade = x /\ rows'[y] = rows[y]
      BY <1>1, <2>1, Marks DEF CreateSave, At, Identified, NamedAfter, TypeOK
    <3> QED
      BY <1>1, <2>1, <3>1, BornRows DEF Born
  <2>2. CASE x \in Requests /\ CopyCommit(x)
    <3> DEFINE e == loc[x].entity
    <3>1. /\ rows'[x].trade = e.trade /\ rows'[x].user = call[x].user
          /\ \/ y \notin RowsOf(e.trade) /\ rows'[y] = rows[y]
             \/ y \in RowsOf(e.trade) /\ SameId(rows'[y], rows[y])
      BY <1>1, <2>2, CopyCommitRows
    <3>2. y \in RowsOf(e.trade) /\ rows'[y].user = rows[y].user
      BY <1>1, <3>1 DEF RowsOf, SameId
    <3>3. rows[y].user # call[x].user \/ Exempt(y)
      BY <2>2, <3>2 DEF Singles, Inserting, CopyCommit, At
    <3> QED
      BY <3>1, <3>2, <3>3, DoneStays
  <2>3. CASE \E r \in Requests : PutBack(r, x)
    BY <2>3, PutBackExempt
  <2> QED
    BY <1>1, <2>1, <2>2, <2>3, RowSteps
<1>2. ASSUME NEW x \in Rows, NEW y \in Rows, x # y, rows'[x] # NoRow, rows'[y] # NoRow,
             rows'[x].trade = rows'[y].trade, Kept(x), Kept(y)
      PROVE  Apart(x, y)
  BY <1>2, DoneStays DEF Kept, SameId, Singles, Single
<1> QED
  BY <1>1, <1>2 DEF Single

\* No user ever holds two rows of a trade, whichever rows of it they copy at
\* once, unless a cancel has put back a row that was removed under it.
THEOREM HeldOnce == Spec => []OneRowPerUser
<1>1. Init => Singles
  BY InitSingles
<1>2. Copied /\ Singles /\ [Next]_tvars => Singles'
  BY NextSingle, NextVanished, NextInserting DEF Singles
<1>3. Singles => OneRowPerUser
  BY DEF Singles, Single, Exempt, Removed, OneRowPerUser
<1> QED
  BY <1>1, <1>2, <1>3, CopiedInvariant, PTL DEF Spec
-----------------------------------------------------------------------------
(* Edits of trades with copies *)

\* A cancel has written row x, or has put back some row that was removed.
Rewritten(x) == (\E s \in Requests : Done(s, "cancel", x)) \/ \E y \in Rows : Exempt(y)

\* Request q is about to write row y for operation op.
AtWork(q, op, y) == pc[q] \in {"reload", "write"} /\ call[q].op = op /\ call[q].row = y

\* What requests know of the number of copiers: a copy has the row it locked,
\* an edit never writes it.
Counts(r) ==
    LET x == call[r].row
        e == loc[r].entity
    IN  /\ pc[r] = "check" => e.copiers = rows[x].copiers
        /\ pc[r] = "insert" => e.copiers = rows[x].copiers + 1
        /\ At(r, "edit", "write") => "copiers" \notin loc[r].dirty

\* An edit that has found its row and not yet counted: if the row has been
\* copied since, a second row of its trade is there, and cannot be removed.
Found(r) ==
    LET x == call[r].row
        e == loc[r].entity
    IN  At(r, "edit", "count") =>
            \/ rows[x] = NoRow \/ Rewritten(x)
            \/ rows[x].copiers = e.copiers
            \/ \E y \in RowsOf(e.trade) \ {x} : \A q \in Requests : ~AtWork(q, "remove", y)

\* Every row of trade t has more than n copiers, and no cancel of another
\* row than x will put n back.
Beyond(x, t, n) ==
    /\ \A y \in RowsOf(t) : rows[y].copiers > n
    /\ \A y \in RowsOf(t) \ {x} : \A q \in Requests :
          AtWork(q, "cancel", y) => loc[q].entity.copiers > n

\* An edit that has counted one row: either there is one still, with the
\* copiers it had, or every row has more.
Counted(r) ==
    LET x == call[r].row
        e == loc[r].entity
    IN  At(r, "edit", "write") =>
            \/ rows[x] = NoRow \/ Rewritten(x)
            \/ RowsOf(e.trade) = {x} /\ rows[x].copiers = e.copiers
            \/ Beyond(x, e.trade, e.copiers)

Edits == \A r \in Requests : Counts(r) /\ Found(r) /\ Counted(r)

\* What has been written by a cancel stays so.
LEMMA RewrittenStays ==
    ASSUME TypeOK, [Next]_tvars, NEW x, Rewritten(x)
    PROVE  Rewritten(x)'
<1>1. ASSUME NEW s \in Requests, Done(s, "cancel", x) PROVE Done(s, "cancel", x)'
  BY <1>1, AnsweredStays DEF Done, Answered
<1>2. \A y \in Rows : Exempt(y) => Exempt(y)'
  BY DoneStays
<1> QED
  BY <1>1, <1>2 DEF Rewritten

\* The end of a copy gives every row of the trade the count of the copy, one
\* more than the row copied had; the copy is the only row that appears, and
\* no request has found it.
LEMMA CopyCommitCopiers ==
    ASSUME Copied, Edits, NEW c \in Requests, CopyCommit(c)
    PROVE  LET e == loc[c].entity
               z == call[c].row
           IN  /\ rows[c] = NoRow /\ rows'[c].copiers = e.copiers
               /\ \A y \in RowsOf(e.trade) : y # c /\ rows'[y].copiers = e.copiers
               /\ z \in RowsOf(e.trade) /\ e.copiers = rows[z].copiers + 1
               /\ \A q \in Requests : Holds(q)' => call'[q].row # c
<1> DEFINE e == loc[c].entity
           z == call[c].row
<1> USE DEF Copied
<1>1. pc[c] = "insert" /\ Holds(c) /\ c \in Rows /\ z \in Rows /\ e \in Row
  BY Marks, CallFacts DEF CopyCommit, At, Holds, Held, HeldBy, Holding
<1>2. rows[c] = NoRow
  BY <1>1, BornRows DEF Born
<1>3. rows'[c].copiers = e.copiers
  <2>1. rows'[c] = [e EXCEPT !.user = call[c].user]
    BY CopyCommitRows
  <2> QED
    BY <1>1, <2>1 DEF Row
<1>4. ASSUME NEW y \in RowsOf(e.trade) PROVE y # c /\ rows'[y].copiers = e.copiers
  <2>1. y # c /\ y \in Rows /\ rows[y] \in Row
    BY <1>2, <1>4, LiveRow DEF RowsOf
  <2>2. rows'[y] = [rows[y] EXCEPT !.copiers = e.copiers, !.status = e.status]
    BY <1>4, <2>1 DEF CopyCommit
  <2> QED
    BY <2>1, <2>2 DEF Row
<1>5. z \in RowsOf(e.trade)
  <2>1. rows[z] # NoRow
    BY <1>1 DEF CopiesHold, CopyHolds, Live
  <2> QED
    BY <1>1, <2>1, HeldId DEF SameId, RowsOf
<1>6. e.copiers = rows[z].copiers + 1
  BY <1>1 DEF Edits, Counts
<1>7. ASSUME NEW q \in Requests, Holds(q)' PROVE call'[q].row # c
  <2>1. Others(c) /\ pc'[c] = "done"
    BY AnswerOthers DEF CopyCommit
  <2>2. q # c
    BY <1>7, <2>1 DEF Holds
  <2>3. Holds(q) /\ call'[q] = call[q]
    BY <1>7, <2>1, <2>2 DEF Others, Holds
  <2> QED
    BY <1>1, <2>3, BornRows DEF Born
<1> QED
  BY <1>1, <1>2, <1>3, <1>4, <1>5, <1>6, <1>7

\* Who may change the number of copiers of a row.
LEMMA CopiersSteps ==
    ASSUME Copied, Edits, [Next]_tvars, NEW x \in Rows, rows[x] # NoRow, rows'[x] # NoRow
    PROVE  \/ rows'[x].copiers = rows[x].copiers
           \/ \E c \in Requests : CopyCommit(c) /\ x \in RowsOf(loc[c].entity.trade)
           \/ \E q \in Requests :
                 /\ CancelSave(q) /\ call[q].row = x
                 /\ rows'[x].copiers \in {loc[q].entity.copiers, rows[x].copiers}
<1> USE DEF Copied, backend
<1> DEFINE Goal == \/ rows'[x].copiers = rows[x].copiers
                   \/ \E c \in Requests : CopyCommit(c) /\ x \in RowsOf(loc[c].entity.trade)
                   \/ \E q \in Requests :
                         /\ CancelSave(q) /\ call[q].row = x
                         /\ rows'[x].copiers \in {loc[q].entity.copiers, rows[x].copiers}
<1> SUFFICES Goal
  OBVIOUS
<1>a. Born(x)
  BY BornRows
<1>b. rows'[x] = rows[x] => Goal
  OBVIOUS
<1>1. ASSUME NEW r \in Requests, CreateSave(r) PROVE Goal
  <2>1. x # r
    BY <1>1, <1>a DEF CreateSave, At, Born
  <2> QED
    BY <1>1, <2>1 DEF CreateSave
<1>2. ASSUME NEW r \in Requests, CopyCommit(r) PROVE Goal
  <2>1. x # r
    BY <1>2, <1>a DEF CopyCommit, At, Born
  <2>2. x \notin RowsOf(loc[r].entity.trade) => rows'[x] = rows[x]
    BY <1>2, <2>1 DEF CopyCommit
  <2> QED
    BY <1>2, <2>2
<1>3. ASSUME NEW r \in Requests, CancelSave(r) \/ EditSave(r) PROVE Goal
  <2> DEFINE e == loc[r].entity
             y == call[r].row
  <2>1. /\ x # y => rows'[x] = rows[x]
        /\ rows[y] # NoRow => rows'[y] = Merged(e, rows[y], loc[r].dirty)
    BY <1>3, SavedRow, Marks
  <2>2. x = y => /\ rows'[x].copiers \in {e.copiers, rows[x].copiers}
                 /\ "copiers" \notin loc[r].dirty => rows'[x].copiers = rows[x].copiers
    BY <2>1, MergedFields DEF Fields
  <2>3. EditSave(r) => "copiers" \notin loc[r].dirty
    BY DEF EditSave, Edits, Counts
  <2> QED
    BY <1>3, <2>1, <2>2, <2>3
<1>4. ASSUME NEW r \in Requests, RemoveDelete(r) PROVE Goal
  BY <1>4 DEF RemoveDelete, TypeOK
<1>5. ASSUME NEW u \in Update, SystemUpdate(u) PROVE Goal
  <2> DEFINE live == LiveRows(u.trade)
             written(row) ==
               IF u.type = "starting"
               THEN [rows[x] EXCEPT !.status = Opened(row.terms, Price(row))]
               ELSE [rows[x] EXCEPT !.status = u.status, !.exit = Price(row)]
  <2>1. rows'[x] = rows[x] \/ \E row : rows'[x] = written(row)
    BY <1>5 DEF SystemUpdate
  <2>2. rows[x] \in Row
    BY LiveRow
  <2>3. ASSUME NEW row PROVE written(row).copiers = rows[x].copiers
    BY <2>2 DEF Row
  <2> QED
    BY <2>1, <2>3
<1>6. UNCHANGED rows => Goal
  BY <1>b
<1>7. ASSUME NEW r \in Requests,
             \/ Refusal(r) \/ CreateFind(r) \/ CopyLock(r)
             \/ CopyCheck(r) /\ Goto(r, "insert")
             \/ CancelFind(r) \/ CancelReload(r) \/ FindOwned(r) \/ EditCount(r)
             \/ RemoveCount(r)
      PROVE  Goal
  <2>1. UNCHANGED rows
    BY <1>7 DEF Refusal, Refuse, CreateFind, CopyLock, CopyCheck, CancelFind, CancelReload,
                FindOwned, EditCount, RemoveCount
  <2> QED
    BY <2>1, <1>6
<1>8. /\ \A r \in Requests, c \in Calls : Begin(r, c) => Goal
      /\ \A u \in Update : UpdateFails(u) => Goal
      /\ \A j \in Job : RunJob(j) => Goal
      /\ \A a \in Assets, p \in Ticks : Tick(a, p) => Goal
      /\ Check => Goal
      /\ Restart => Goal
      /\ UNCHANGED tvars => Goal
  BY <1>6 DEF Begin, UpdateFails, RunJob, Tick, Check, Restart, tvars
<1> HIDE DEF Goal
<1> QED
  BY <1>1, <1>2, <1>3, <1>4, <1>5, <1>6, <1>7, <1>8, Cases

\* A copy keeps the count of the row it has locked, and an edit does not
\* write it.
LEMMA NextCounts ==
    ASSUME Copied, Edits, [Next]_tvars, NEW s \in Requests
    PROVE  Counts(s)'
<1> USE DEF Copied
<1> DEFINE x == call[s].row
           e == loc[s].entity
<1>1. ASSUME pc'[s] \in {"check", "insert"}, pc[s] \in {"check", "insert"}
      PROVE  /\ pc'[s] = "check" => loc'[s].entity.copiers = rows'[call'[s].row].copiers
             /\ pc'[s] = "insert" => loc'[s].entity.copiers = rows'[call'[s].row].copiers + 1
  <2>1. x \in Rows /\ e \in Row
    BY <1>1, CallFacts DEF Held, HeldBy, Holding
  <2>2. owner[x] = s /\ rows[x] # NoRow
    BY <1>1 DEF CopiesHold, CopyHolds, Live
  <2>3. /\ rows'[x] = rows[x] /\ call'[s] = call[s]
        /\ \/ pc'[s] = pc[s] /\ loc'[s] = loc[s]
           \/ CopyCheck(s) /\ Goto(s, "insert")
    BY <1>1, <2>1, <2>2, LockedRowStays DEF Answered
  <2>4. CASE pc'[s] = pc[s] /\ loc'[s] = loc[s]
    BY <2>3, <2>4 DEF Edits, Counts
  <2>5. CASE CopyCheck(s) /\ Goto(s, "insert")
    <3> DEFINE s2 == IF e.status = "pending" THEN Opened(e.terms, Price(e)) ELSE e.status
               n2 == e.copiers + 1
               e2 == [e EXCEPT !.status = s2, !.copiers = n2]
    <3>1. pc[s] = "check" /\ pc'[s] = "insert" /\ loc'[s].entity = e2
      BY <2>5, <1>1 DEF CopyCheck, Refuse, Answer, Goto, TypeOK, At, Hold
    <3> HIDE DEF s2, n2
    <3>2. e2.copiers = n2
      BY <2>1 DEF Row
    <3> HIDE DEF e2
    <3> QED
      BY <2>3, <3>1, <3>2 DEF Edits, Counts, n2
  <2> QED
    BY <2>3, <2>4, <2>5
<1>2. ASSUME pc'[s] \in {"check", "insert"}, pc[s] \notin {"check", "insert"}
      PROVE  pc'[s] = "check" /\ loc'[s].entity.copiers = rows'[call'[s].row].copiers
  <2>1. CopyLock(s) /\ pc'[s] = "check"
    BY <1>2, Entry DEF CopyCheck, At
  <2>2. UNCHANGED <<rows, call>> /\ loc'[s].entity = rows[x]
    BY <2>1 DEF CopyLock, Hold, TypeOK
  <2> QED
    BY <2>1, <2>2
<1>3. ASSUME pc'[s] = "write", call'[s].op = "edit" PROVE "copiers" \notin loc'[s].dirty
  <2>1. CASE pc[s] = "write"
    <3>1. call'[s] = call[s] /\ loc'[s] = loc[s]
      BY <1>3, <2>1, Stays DEF Running
    <3> QED
      BY <1>3, <2>1, <3>1 DEF Edits, Counts, At
  <2>2. CASE pc[s] # "write"
    <3>1. EditCount(s)
      BY <1>3, <2>2, Entry DEF CreateFind, CancelReload, RemoveCount, At
    <3>2. "copiers" \notin loc'[s].dirty
      BY <3>1 DEF EditCount, Hold, TypeOK
    <3> QED
      BY <3>2
  <2> QED
    BY <2>1, <2>2
<1> QED
  BY <1>1, <1>2, <1>3 DEF Counts, At

\* The rows of a trade that is there: they were, or one is the copy just
\* made, or one is put back.
LEMMA TradeSteps ==
    ASSUME Copied, Singles, [Next]_tvars, NEW t, Born(t), NEW y \in RowsOf(t)'
    PROVE  \/ y \in RowsOf(t)
           \/ y \in Requests /\ CopyCommit(y) /\ loc[y].entity.trade = t
           \/ Exempt(y)'
<1> USE DEF Copied
<1>1. y \in Rows /\ rows'[y] # NoRow /\ rows'[y].trade = t
  BY DEF RowsOf
<1>2. CASE Kept(y)
  BY <1>1, <1>2 DEF Kept, SameId, RowsOf
<1>3. CASE y \in Requests /\ CreateSave(y)
  <2>1. pc[y] = "write" /\ rows'[y].trade = y
    BY <1>1, <1>3 DEF CreateSave, At, Identified, NamedAfter, TypeOK
  <2> QED
    BY <1>1, <1>3, <2>1 DEF Born
<1>4. CASE y \in Requests /\ CopyCommit(y)
  <2>1. rows'[y].trade = loc[y].entity.trade
    BY <1>4, CopyCommitRows
  <2> QED
    BY <1>1, <1>4, <2>1
<1>5. CASE \E r \in Requests : PutBack(r, y)
  BY <1>1, <1>5, PutBackExempt
<1> QED
  BY <1>1, <1>2, <1>3, <1>4, <1>5, RowSteps

\* The row of an edit that waits is there if it will be, unless a cancel
\* puts it back.
LEMMA EditWaits ==
    ASSUME Copied, Singles, [Next]_tvars, NEW s \in Requests,
           pc[s] \in {"count", "write"}, call[s].op = "edit", pc'[s] = pc[s],
           NEW x, x = call'[s].row, rows'[x] # NoRow, ~Rewritten(x)'
    PROVE  /\ call'[s] = call[s] /\ loc'[s] = loc[s]
           /\ x = call[s].row /\ x \in Rows
           /\ x \in RowsOf(loc[s].entity.trade) /\ Born(loc[s].entity.trade)
           /\ ~Rewritten(x) /\ \A y \in Rows : ~Exempt(y)'
           /\ \A q \in Requests : call[q].row = x => ~CancelSave(q)
<1> USE DEF Copied
<1>1. call'[s] = call[s] /\ loc'[s] = loc[s]
  BY Stays DEF Running
<1>2. x \in Rows /\ x = call[s].row
  BY <1>1, CallFacts
<1>3. Holds(s)
  BY DEF Holds
<1>5. ~Rewritten(x)
  BY RewrittenStays
<1>6. \A y \in Rows : ~Exempt(y)'
  BY DEF Rewritten
<1>7. rows[x] # NoRow
  <2>1. Born(x)
    BY <1>2, <1>3, BornRows
  <2>2. ~(x \in Requests /\ (CreateSave(x) \/ CopyCommit(x)))
    BY <2>1 DEF Born, CreateSave, CopyCommit, At
  <2>3. ~\E r \in Requests : PutBack(r, x)
    BY <1>2, <1>6, PutBackExempt
  <2> QED
    BY <1>2, <2>2, <2>3, RowSteps DEF Kept
<1>8. x \in RowsOf(loc[s].entity.trade) /\ Born(loc[s].entity.trade)
  BY <1>2, <1>3, <1>7, HeldId, BornRows DEF SameId, RowsOf
<1>9. ASSUME NEW q \in Requests, call[q].row = x, CancelSave(q) PROVE FALSE
  <2>1. call[q].op = "cancel" /\ pc'[q] = "done" /\ call'[q] = call[q]
    BY <1>9, AnswerOthers DEF CancelSave, At
  <2>2. Done(q, "cancel", x)'
    BY <1>9, <2>1 DEF Done
  <2> QED
    BY <2>2 DEF Rewritten
<1> QED
  BY <1>1, <1>2, <1>5, <1>6, <1>8, <1>9

\* Two rows of a trade are counted as two.
LEMMA TwoRows ==
    ASSUME NEW t, NEW x \in RowsOf(t), NEW y \in RowsOf(t), x # y
    PROVE  ~(Cardinality(RowsOf(t)) < 2)
<1>1. IsFiniteSet(RowsOf(t)) /\ RowsOf(t) \in SUBSET Rows
  BY TradesAssumption, FS_Subset DEF RowsOf
<1>2. IsFiniteSet({x}) /\ Cardinality({x}) = 1
  BY FS_Singleton
<1>3. IsFiniteSet({x} \cup {y}) /\ Cardinality({x} \cup {y}) = 2
  BY <1>2, FS_AddElement
<1>4. {x} \cup {y} \in SUBSET RowsOf(t)
  OBVIOUS
<1>5. Cardinality({x} \cup {y}) <= Cardinality(RowsOf(t))
  BY <1>1, <1>4, FS_Subset
<1>6. Cardinality(RowsOf(t)) \in Nat
  BY <1>1, FS_CardinalityType
<1> QED
  BY <1>3, <1>5, <1>6

\* Before an edit has counted: only a copy changes the count of its row, and
\* it leaves a second row that no remove will pass.
LEMMA NextFound ==
    ASSUME Copied, Singles, Edits, [Next]_tvars, NEW s \in Requests
    PROVE  Found(s)'
<1> USE DEF Copied
<1>0. SUFFICES ASSUME pc'[s] = "count", call'[s].op = "edit",
                      NEW x, x = call'[s].row, rows'[x] # NoRow, ~Rewritten(x)',
                      NEW e, e = loc'[s].entity
               PROVE  \/ rows'[x].copiers = e.copiers
                      \/ \E y \in RowsOf(e.trade)' \ {x} :
                            \A q \in Requests : ~AtWork(q, "remove", y)'
  BY DEF Found, At
<1> DEFINE Goal == \/ rows'[x].copiers = e.copiers
                   \/ \E y \in RowsOf(e.trade)' \ {x} :
                         \A q \in Requests : ~AtWork(q, "remove", y)'
<1>1. CASE pc[s] = "count"
  <2>2. call[s].op = "edit"
    BY <1>0, <1>1, Stays DEF Running
  <2>3. /\ call'[s] = call[s] /\ loc'[s] = loc[s]
        /\ x = call[s].row /\ x \in Rows /\ e = loc[s].entity
        /\ x \in RowsOf(e.trade) /\ Born(e.trade) /\ ~Rewritten(x)
        /\ \A y \in Rows : ~Exempt(y)'
        /\ \A q \in Requests : call[q].row = x => ~CancelSave(q)
    BY <1>0, <1>1, <2>2, EditWaits
  <2>4. rows[x] # NoRow /\ rows[x].trade = e.trade
    BY <2>3 DEF RowsOf
  <2>6. \/ rows[x].copiers = e.copiers
        \/ \E y \in RowsOf(e.trade) \ {x} : \A q \in Requests : ~AtWork(q, "remove", y)
    BY <1>1, <2>2, <2>3, <2>4 DEF Edits, Found, At
  <2>7. CASE rows[x].copiers = e.copiers
    <3>1. CASE rows'[x].copiers = rows[x].copiers
      BY <2>7, <3>1
    <3>2. ASSUME NEW c \in Requests, CopyCommit(c), x \in RowsOf(loc[c].entity.trade)
          PROVE  Goal
      <4>1. loc[c].entity.trade = e.trade
        BY <2>4, <3>2 DEF RowsOf
      <4>2. rows[c] = NoRow /\ \A q \in Requests : Holds(q)' => call'[q].row # c
        BY <3>2, CopyCommitCopiers
      <4>3. c \in Rows /\ rows'[c] # NoRow /\ rows'[c].trade = e.trade
        BY <3>2, <4>1, CopyCommitRows, Marks
      <4>4. c \in RowsOf(e.trade)' \ {x}
        BY <2>4, <4>2, <4>3 DEF RowsOf
      <4>5. \A q \in Requests : ~AtWork(q, "remove", c)'
        BY <4>2 DEF AtWork, Holds
      <4> QED
        BY <4>4, <4>5
    <3> QED
      BY <1>0, <2>3, <2>4, <3>1, <3>2, CopiersSteps
  <2>8. ASSUME NEW y \in RowsOf(e.trade) \ {x}, \A q \in Requests : ~AtWork(q, "remove", y)
        PROVE  Goal
    <3>1. y \in Rows /\ rows[y] # NoRow /\ rows[y].trade = e.trade
      BY <2>8 DEF RowsOf
    <3>2. rows'[y] # NoRow
      <4>1. ASSUME NEW r \in Requests, RemoveDelete(r), call[r].row = y PROVE FALSE
        BY <2>8, <4>1 DEF RemoveDelete, At, AtWork
      <4> QED
        BY <3>1, <4>1, RowSteps
    <3>3. Kept(y)
      <4>1. Born(y)
        BY <3>1, BornRows
      <4>2. ~(y \in Requests /\ (CreateSave(y) \/ CopyCommit(y)))
        BY <4>1 DEF Born, CreateSave, CopyCommit, At
      <4>3. ~\E r \in Requests : PutBack(r, y)
        BY <3>1 DEF PutBack
      <4> QED
        BY <3>1, <3>2, <4>2, <4>3, RowSteps
    <3>4. y \in RowsOf(e.trade)' \ {x}
      BY <2>8, <3>1, <3>2, <3>3 DEF Kept, SameId, RowsOf
    <3>5. ASSUME NEW q \in Requests, AtWork(q, "remove", y)' PROVE FALSE
      <4>1. pc'[q] \in {"reload", "write"} /\ call'[q].op = "remove" /\ call'[q].row = y
        BY <3>5 DEF AtWork
      <4>2. CASE pc'[q] = pc[q]
        BY <2>8, <4>1, <4>2, Stays DEF AtWork, Running
      <4>3. CASE pc'[q] # pc[q]
        <5>1. RemoveCount(q)
          BY <4>1, <4>3, Entry DEF CancelFind, CreateFind, CancelReload, EditCount, At
        <5>2. Holds(q) /\ call[q].row = y /\ Cardinality(RowsOf(loc[q].entity.trade)) < 2
          BY <4>1, <5>1 DEF RemoveCount, At, Holds
        <5>3. loc[q].entity.trade = e.trade
          BY <3>1, <5>2, HeldId DEF SameId
        <5> QED
          BY <2>3, <2>8, <5>2, <5>3, TwoRows
      <4> QED
        BY <4>2, <4>3
    <3> QED
      BY <3>4, <3>5
  <2> QED
    BY <2>6, <2>7, <2>8
<1>2. CASE pc[s] # "count"
  <2>1. FindOwned(s)
    BY <1>0, <1>2, Entry
  <2>2. UNCHANGED <<rows, call>> /\ loc'[s].entity = rows[call[s].row]
    BY <2>1 DEF FindOwned, Hold, TypeOK
  <2> QED
    BY <1>0, <2>2
<1> QED
  BY <1>1, <1>2

\* After an edit has counted: a copy of the one row lifts both above the
\* count it has, and later copies start from there.
LEMMA NextCounted ==
    ASSUME Copied, Singles, Edits, [Next]_tvars, NEW s \in Requests
    PROVE  Counted(s)'
<1> USE DEF Copied
<1>0. SUFFICES ASSUME pc'[s] = "write", call'[s].op = "edit",
                      NEW x, x = call'[s].row, rows'[x] # NoRow, ~Rewritten(x)',
                      NEW e, e = loc'[s].entity
               PROVE  \/ RowsOf(e.trade)' = {x} /\ rows'[x].copiers = e.copiers
                      \/ Beyond(x, e.trade, e.copiers)'
  BY DEF Counted, At
<1> DEFINE t == e.trade
           n == e.copiers
           Goal == \/ RowsOf(t)' = {x} /\ rows'[x].copiers = n
                   \/ Beyond(x, t, n)'
<1>1. CASE pc[s] = "write"
  <2>1. call[s].op = "edit"
    BY <1>0, <1>1, Stays DEF Running
  <2>2. /\ x = call[s].row /\ x \in Rows /\ e = loc[s].entity
        /\ x \in RowsOf(t) /\ Born(t) /\ ~Rewritten(x)
        /\ \A y \in Rows : ~Exempt(y)'
        /\ \A q \in Requests : call[q].row = x => ~CancelSave(q)
    BY <1>0, <1>1, <2>1, EditWaits
  <2>3. e \in Row /\ n \in Nat
    <3>1. e \in Row
      BY <1>1, <2>2 DEF Held, HeldBy, Holding
    <3> QED
      BY <3>1 DEF Row
  <2>4. rows[x] # NoRow /\ rows[x].trade = t
    BY <2>2 DEF RowsOf
  <2>5. RowsOf(t)' \subseteq Rows /\ RowsOf(t) \subseteq Rows
    BY DEF RowsOf
  <2>6. ASSUME NEW y \in RowsOf(t)'
        PROVE  y \in RowsOf(t) \/ (y \in Requests /\ CopyCommit(y) /\ loc[y].entity.trade = t)
    BY <2>2, <2>5, TradeSteps
  <2>7. \A y \in RowsOf(t) : rows[y] # NoRow /\ rows[y].trade = t /\ rows[y].copiers \in Nat
    BY LiveRow DEF RowsOf, Row
  <2>8. x \in RowsOf(t)'
    <3>1. Kept(x)
      <4>1. Born(x)
        BY <2>2, <2>4, BornRows
      <4>2. ~(x \in Requests /\ (CreateSave(x) \/ CopyCommit(x)))
        BY <4>1 DEF Born, CreateSave, CopyCommit, At
      <4>3. ~\E r \in Requests : PutBack(r, x)
        BY <2>4 DEF PutBack
      <4> QED
        BY <1>0, <2>2, <4>2, <4>3, RowSteps
    <3> QED
      BY <1>0, <2>2, <2>4, <3>1 DEF Kept, SameId, RowsOf
  <2>9. \/ RowsOf(t) = {x} /\ rows[x].copiers = n
        \/ Beyond(x, t, n)
    BY <1>1, <2>1, <2>2, <2>4 DEF Edits, Counted, At
  <2>10. CASE RowsOf(t) = {x} /\ rows[x].copiers = n
    <3>1. ASSUME NEW c \in Requests, CopyCommit(c), loc[c].entity.trade = t PROVE Goal
      <4>1. /\ rows'[c].copiers = n + 1 /\ rows'[x].copiers = n + 1
            /\ \A q \in Requests : Holds(q)' => call'[q].row # c
        BY <2>10, <3>1, CopyCommitCopiers
      <4>2. ASSUME NEW y \in RowsOf(t)' PROVE y = x \/ y = c
        <5>1. CASE y \in RowsOf(t)
          BY <2>10, <5>1
        <5>2. CASE y \in Requests /\ CopyCommit(y)
          <6>1. pc[y] = "insert" /\ pc'[y] = "done" /\ Others(c)
            BY <3>1, <5>2, AnswerOthers DEF CopyCommit, At
          <6> QED
            BY <5>2, <6>1 DEF Others
        <5> QED
          BY <2>6, <5>1, <5>2
      <4>3. \A y \in RowsOf(t)' : rows'[y].copiers > n
        BY <2>3, <4>1, <4>2
      <4>4. \A y \in RowsOf(t)' \ {x} : \A q \in Requests : ~AtWork(q, "cancel", y)'
        BY <4>1, <4>2 DEF AtWork, Holds
      <4> QED
        BY <4>3, <4>4 DEF Beyond
    <3>2. ASSUME \A c \in Requests : CopyCommit(c) => loc[c].entity.trade # t PROVE Goal
      <4>1. RowsOf(t)' = {x}
        BY <2>6, <2>8, <2>10, <3>2
      <4>2. ASSUME NEW c \in Requests, CopyCommit(c), x \in RowsOf(loc[c].entity.trade)
            PROVE  FALSE
        BY <2>4, <3>2, <4>2 DEF RowsOf
      <4>3. rows'[x].copiers = rows[x].copiers
        BY <1>0, <2>2, <2>4, <4>2, CopiersSteps
      <4> QED
        BY <2>10, <4>1, <4>3
    <3> QED
      BY <3>1, <3>2
  <2>11. CASE Beyond(x, t, n)
    <3>1. ASSUME NEW c \in Requests, CopyCommit(c), loc[c].entity.trade = t
          PROVE  /\ loc[c].entity.copiers > n /\ rows'[c].copiers > n
                 /\ \A y \in RowsOf(t) : rows'[y].copiers > n
      <4> DEFINE z == call[c].row
                 k == loc[c].entity.copiers
      <4>1. /\ z \in RowsOf(t) /\ k = rows[z].copiers + 1 /\ rows'[c].copiers = k
            /\ \A y \in RowsOf(t) : rows'[y].copiers = k
        BY <3>1, CopyCommitCopiers
      <4>2. rows[z].copiers > n /\ rows[z].copiers \in Nat
        BY <2>7, <2>11, <4>1 DEF Beyond
      <4>3. k > n
        BY <2>3, <4>1, <4>2
      <4> QED
        BY <4>1, <4>3
    <3>2. ASSUME NEW y \in RowsOf(t)' PROVE rows'[y].copiers > n
      <4>1. CASE y \in RowsOf(t)
        <5>1. y \in Rows /\ rows[y] # NoRow /\ rows'[y] # NoRow /\ rows[y].trade = t
              /\ rows[y].copiers > n
          BY <2>11, <3>2, <4>1 DEF RowsOf, Beyond
        <5>2. ASSUME NEW c \in Requests, CopyCommit(c), y \in RowsOf(loc[c].entity.trade)
              PROVE  rows'[y].copiers > n
          <6>1. loc[c].entity.trade = t
            BY <5>1, <5>2 DEF RowsOf
          <6> QED
            BY <3>1, <4>1, <5>2, <6>1
        <5>3. ASSUME NEW q \in Requests, CancelSave(q), call[q].row = y
              PROVE  loc[q].entity.copiers > n
          <6>1. y # x /\ AtWork(q, "cancel", y)
            BY <2>2, <5>3 DEF CancelSave, At, AtWork
          <6> QED
            BY <2>11, <4>1, <6>1 DEF Beyond
        <5> QED
          BY <5>1, <5>2, <5>3, CopiersSteps
      <4>2. CASE y \in Requests /\ CopyCommit(y) /\ loc[y].entity.trade = t
        BY <3>1, <4>2
      <4> QED
        BY <2>6, <3>2, <4>1, <4>2
    <3>3. ASSUME NEW y \in RowsOf(t)' \ {x}, NEW q \in Requests, AtWork(q, "cancel", y)'
          PROVE  loc'[q].entity.copiers > n
      <4>1. pc'[q] \in {"reload", "write"} /\ call'[q].op = "cancel" /\ call'[q].row = y
        BY <3>3 DEF AtWork
      <4>2. y \in RowsOf(t)
        <5>1. Holds(q)'
          BY <4>1 DEF Holds
        <5> QED
          BY <2>6, <3>3, <4>1, <5>1, CopyCommitCopiers
      <4>3. AtWork(q, "cancel", y) => loc[q].entity.copiers > n
        BY <2>11, <3>3, <4>2 DEF Beyond
      <4>4. CASE pc'[q] = pc[q]
        BY <4>1, <4>3, <4>4, Stays DEF AtWork, Running
      <4>5. CASE pc'[q] # pc[q]
        <5>1. CancelFind(q) \/ CancelReload(q)
          BY <4>1, <4>5, Entry DEF CreateFind, EditCount, RemoveCount, At
        <5>2. CASE CancelFind(q)
          <6>1. /\ call[q].row = y
                /\ loc'[q].entity = [rows[y] EXCEPT !.status = "close", !.exit = Price(rows[y])]
            BY <4>1, <5>2 DEF CancelFind, Hold, TypeOK
          <6>2. y \in Rows /\ rows[y] \in Row /\ rows[y].copiers > n
            BY <2>5, <2>11, <4>2, <2>7, LiveRow DEF Beyond
          <6> QED
            BY <6>1, <6>2 DEF Row
        <5>3. CASE CancelReload(q)
          <6>1. AtWork(q, "cancel", y) /\ loc'[q].entity = loc[q].entity
            BY <4>1, <5>3 DEF CancelReload, At, AtWork, Hold, TypeOK
          <6> QED
            BY <4>3, <6>1
        <5> QED
          BY <5>1, <5>2, <5>3
      <4> QED
        BY <4>4, <4>5
    <3> QED
      BY <3>2, <3>3 DEF Beyond
  <2> QED
    BY <2>9, <2>10, <2>11
<1>2. CASE pc[s] # "write"
  <2> DEFINE f == loc[s].entity
  <2>1. EditCount(s)
    BY <1>0, <1>2, Entry DEF CreateFind, CancelReload, RemoveCount, At
  <2>2. /\ UNCHANGED <<rows, call>> /\ Holds(s) /\ At(s, "edit", "count") /\ f \in Row
        /\ Cardinality(RowsOf(f.trade)) < 2
    BY <2>1 DEF EditCount, At, Holds, Held, HeldBy, Holding
  <2>3. \E st, d, tm : e = [f EXCEPT !.status = st, !.draft = d, !.terms = tm]
    <3> DEFINE c == call[s]
               terms == IF c.terms = NoTerms THEN f.terms ELSE c.terms
               publish == c.draft # "yes" /\ f.draft
    <3>1. e = [f EXCEPT
                 !.status = IF publish THEN Published(c, terms) ELSE "draft",
                 !.draft = IF c.draft = "omitted" THEN @ ELSE c.draft = "yes",
                 !.terms = terms]
      BY <1>0, <2>1 DEF EditCount, Hold, TypeOK
    <3> QED
      BY <3>1
  <2>4. t = f.trade /\ n = f.copiers
    BY <2>2, <2>3 DEF Row
  <2>5. x = call[s].row /\ x \in Rows /\ rows[x] # NoRow
    BY <1>0, <2>2, CallFacts DEF At
  <2>6. x \in RowsOf(t)
    BY <2>2, <2>4, <2>5, HeldId DEF SameId, RowsOf
  <2>7. RowsOf(t) = {x}
    BY <2>2, <2>4, <2>6, TwoRows
  <2>8. ~Rewritten(x)
    BY <1>0, RewrittenStays
  <2>9. rows[x].copiers = n
    BY <2>2, <2>4, <2>5, <2>7, <2>8 DEF Edits, Found
  <2> QED
    BY <2>2, <2>7, <2>9 DEF RowsOf
<1> QED
  BY <1>1, <1>2

\* An edit that is saved over a trade with copies had counted before them,
\* and its row has more copiers than the entity it holds, unless a cancel has
\* written the row or put back a removed one.
THEOREM EditsFoundUncopied == Spec => EditFoundItUncopied
<1>1. Init => Singles /\ Edits
  BY InitSingles DEF Init, Edits, Counts, Found, Counted, At
<1>2. Copied /\ Singles /\ Edits /\ [Next]_tvars => Singles' /\ Edits'
  BY NextSingle, NextVanished, NextInserting, NextCounts, NextFound, NextCounted
  DEF Singles, Edits
<1>3. ASSUME Copied, Edits, [Next]_tvars
      PROVE  [\A r \in Requests :
                LET x == call[r].row
                IN  Saves(r) /\ rows[x] # NoRow /\ Cardinality(RowsOf(rows[x].trade)) >= 2 =>
                      \/ rows[x].copiers > loc[r].entity.copiers
                      \/ \E s \in Requests : Done(s, "cancel", x)
                      \/ \E q, s \in Requests, y \in Rows :
                            Done(q, "remove", y) /\ Done(s, "cancel", y)]_tvars
  <2>1. ASSUME NEW r \in Requests, NEW x, x = call[r].row, Saves(r), rows[x] # NoRow,
               Cardinality(RowsOf(rows[x].trade)) >= 2
        PROVE  rows[x].copiers > loc[r].entity.copiers \/ Rewritten(x)
    <3>1. At(r, "edit", "write") /\ Holds(r) /\ x \in Rows
      BY <1>3, <2>1, CallFacts DEF Saves, At, Holds, Copied
    <3>2. rows[x].trade = loc[r].entity.trade
      BY <1>3, <2>1, <3>1, HeldId DEF SameId, Copied
    <3>3. RowsOf(rows[x].trade) # {x}
      <4>1. Cardinality({x}) = 1
        BY FS_Singleton
      <4>2. ~(1 >= 2)
        OBVIOUS
      <4> QED
        BY <2>1, <4>1, <4>2
    <3>4. x \in RowsOf(rows[x].trade)
      BY <2>1, <3>1 DEF RowsOf
    <3> QED
      BY <1>3, <2>1, <3>1, <3>2, <3>3, <3>4 DEF Edits, Counted, Beyond
  <2> QED
    BY <2>1 DEF Rewritten, Exempt, Removed
<1> QED
  BY <1>1, <1>2, <1>3, CopiedInvariant, PTL DEF Spec, EditFoundItUncopied
-----------------------------------------------------------------------------
(* Ends ahead *)

NoEdits == \A r \in Requests : pc[r] # "idle" => call[r].op # "edit"
Custom(t) == \E r \in Requests : pc[r] # "idle" /\ call[r].custom /\ t = r
Touched(t) == (\E j \in jobs : j.trade = t) \/ (\E u \in updates : u.trade = t)

\* A row whose end is due: nothing keeps its trade from ending, and something
\* is on its way to the trade or has opened it.
Due(x) ==
    /\ Live(rows[x]) /\ rows[x].margin /\ ~Custom(rows[x].trade)
    /\ rows[x].status # "draft" \/ Touched(rows[x].trade)

\* No job or call knows a trade before it is posted; from then until it is
\* saved the job waits, unless it is a draft.
Unpublished(r) == pc[r] \in {"idle", "start"} => ~Touched(r)
AboutToSave(r) ==
    pc[r] = "write" /\ call[r].op = "create" /\ ~call[r].custom =>
        IF loc[r].entity.status = "draft" THEN ~Touched(r) ELSE Ending(r) \in jobs

Ahead ==
    NoEdits =>
        /\ \A x \in Rows : Due(x) => EndAhead(rows[x].trade)
        /\ \A r \in Requests : Unpublished(r) /\ AboutToSave(r)

\* A request at its beginning was there before.
LEMMA Early ==
    ASSUME TypeOK, [Next]_tvars, NEW s \in Requests, pc'[s] \in {"idle", "start"}
    PROVE  pc[s] \in {"idle", "start"}
  BY Entry

\* Edits and custom durations, once there, stay.
LEMMA CallsGrow ==
    ASSUME TypeOK, [Next]_tvars, NEW s \in Requests, pc[s] # "idle"
    PROVE  pc'[s] # "idle" /\ call'[s] = call[s]
<1>1. pc'[s] # "idle"
  BY Early, Entry
<1>2. CASE pc[s] \in Answered
  BY <1>2, AnsweredStays
<1>3. CASE pc[s] \in Running
  <2>1. CASE pc'[s] = pc[s]
    BY <1>3, <2>1, Stays
  <2>2. CASE pc'[s] # pc[s]
    <3>1. UNCHANGED call \/ \E r \in Requests, c \in Calls : Begin(r, c)
      BY <2>2, Cases
      DEF Refusal, Refuse, CreateFind, CreateSave, CopyLock, CopyCheck, CopyCommit,
          CancelFind, CancelReload, CancelSave, FindOwned, EditCount, EditSave,
          RemoveCount, RemoveDelete, SystemUpdate, UpdateFails, RunJob, Tick, Check,
          Restart, tvars
    <3>2. ASSUME NEW r \in Requests, NEW c \in Calls, Begin(r, c) PROVE call'[s] = call[s]
      BY <3>2 DEF Begin, TypeOK
    <3> QED
      BY <1>1, <3>1, <3>2
  <2> QED
    BY <1>1, <2>1, <2>2
<1> QED
  BY <1>1, <1>2, <1>3 DEF TypeOK

\* Only a create or the monitor sends something to a trade nothing is on its
\* way to.
LEMMA TouchedSteps ==
    ASSUME TypeOK, Held, NoEdits, [Next]_tvars, NEW t \in Rows, ~Touched(t), Touched(t)'
    PROVE  \/ t \in Requests /\ CreateFind(t) /\ call[t].draft # "yes"
           \/ Check /\ \E x \in Watched : rows[x].trade = t
<1> USE DEF backend
<1> DEFINE Goal == \/ t \in Requests /\ CreateFind(t) /\ call[t].draft # "yes"
                   \/ Check /\ \E x \in Watched : rows[x].trade = t
<1> SUFFICES Goal
  OBVIOUS
<1>1. UNCHANGED <<jobs, updates>> => Goal
  BY DEF Touched
<1>2. ASSUME NEW r \in Requests, CreateFind(r) PROVE Goal
  <2>1. /\ updates' = updates
        /\ jobs' = jobs \cup (IF call[r].draft = "yes" THEN {} ELSE JobsOf(r, call[r]))
    BY <1>2 DEF CreateFind
  <2>2. \A j \in JobsOf(r, call[r]) : j.trade = r
    BY DEF JobsOf, Ending, Starting
  <2> QED
    BY <1>2, <2>1, <2>2 DEF Touched
<1>3. ASSUME NEW r \in Requests, EditCount(r) PROVE Goal
  BY <1>3 DEF EditCount, At, NoEdits
<1>4. ASSUME NEW u \in Update, SystemUpdate(u) \/ UpdateFails(u) PROVE Goal
  BY <1>4 DEF SystemUpdate, UpdateFails, Touched
<1>5. ASSUME NEW j \in Job, RunJob(j) PROVE Goal
  BY <1>5 DEF RunJob, Touched
<1>6. ASSUME Check PROVE Goal
  <2>1. PICK u \in updates' : u.trade = t /\ u \notin updates
    BY <1>6 DEF Check, Touched
  <2>2. \E x \in Watched : \E type, status : u = Monitor(x, type, status)
    BY <1>6, <2>1 DEF Check, HitRows
  <2> QED
    BY <1>6, <2>1, <2>2 DEF Monitor
<1>7. ASSUME Restart PROVE Goal
  BY <1>7 DEF Restart, Touched
<1>8. ASSUME NEW r \in Requests,
             \/ Refusal(r) \/ CreateSave(r) \/ CopyLock(r)
             \/ CopyCheck(r) /\ Goto(r, "insert")
             \/ CopyCommit(r)
             \/ CancelFind(r) \/ CancelReload(r) \/ CancelSave(r)
             \/ FindOwned(r) \/ EditSave(r) \/ RemoveCount(r) \/ RemoveDelete(r)
      PROVE  Goal
  <2>1. UNCHANGED <<jobs, updates>>
    BY <1>8 DEF Refusal, Refuse, CreateSave, CopyLock, CopyCheck, CopyCommit, CancelFind,
                CancelReload, CancelSave, FindOwned, EditSave, RemoveCount, RemoveDelete
  <2> QED
    BY <2>1, <1>1
<1>9. /\ \A r \in Requests, c \in Calls : Begin(r, c) => Goal
      /\ \A a \in Assets, p \in Ticks : Tick(a, p) => Goal
      /\ UNCHANGED tvars => Goal
  BY <1>1 DEF Begin, Tick, tvars
<1> HIDE DEF Goal
<1> QED
  BY <1>1, <1>2, <1>3, <1>4, <1>5, <1>6, <1>7, <1>8, <1>9, Cases

\* An expiry job waits until it is run or the monitor finds its trade hit.
LEMMA EndingSteps ==
    ASSUME TypeOK, [Next]_tvars, NEW t \in Rows, Ending(t) \in jobs
    PROVE  \/ Ending(t) \in jobs'
           \/ RunJob(Ending(t))
           \/ Check /\ \E x \in HitRows : rows[x].trade = t
<1> USE DEF backend
<1> DEFINE Goal == \/ Ending(t) \in jobs'
                   \/ RunJob(Ending(t))
                   \/ Check /\ \E x \in HitRows : rows[x].trade = t
<1> SUFFICES Goal
  OBVIOUS
<1>1. jobs \subseteq jobs' => Goal
  OBVIOUS
<1>2. ASSUME NEW j \in Job, RunJob(j) PROVE Goal
  BY <1>2 DEF RunJob
<1>3. ASSUME Check PROVE Goal
  BY <1>3 DEF Check, Ending
<1>4. ASSUME NEW r \in Requests,
             \/ Refusal(r) \/ CreateFind(r) \/ CreateSave(r) \/ CopyLock(r)
             \/ CopyCheck(r) /\ Goto(r, "insert")
             \/ CopyCommit(r)
             \/ CancelFind(r) \/ CancelReload(r) \/ CancelSave(r)
             \/ FindOwned(r) \/ EditCount(r) \/ EditSave(r) \/ RemoveCount(r)
             \/ RemoveDelete(r)
      PROVE  Goal
  <2>1. jobs \subseteq jobs'
    BY <1>4 DEF Refusal, Refuse, CreateFind, CreateSave, CopyLock, CopyCheck, CopyCommit,
                CancelFind, CancelReload, CancelSave, FindOwned, EditCount, EditSave,
                RemoveCount, RemoveDelete
  <2> QED
    BY <2>1, <1>1
<1>5. /\ \A r \in Requests, c \in Calls : Begin(r, c) => Goal
      /\ \A u \in Update : SystemUpdate(u) \/ UpdateFails(u) => Goal
      /\ \A a \in Assets, p \in Ticks : Tick(a, p) => Goal
      /\ Restart => Goal
      /\ UNCHANGED tvars => Goal
  BY <1>1 DEF Begin, SystemUpdate, UpdateFails, Tick, Restart, tvars
<1> HIDE DEF Goal
<1> QED
  BY <1>1, <1>2, <1>3, <1>4, <1>5, Cases

Closes(u, t) == u.trade = t /\ u.type = "expiring" /\ u.status = "close"

\* An end stays ahead until the update that closes the trade is carried out.
LEMMA EndAheadSteps ==
    ASSUME TypeOK, [Next]_tvars, Faults \subseteq {"request"}, NEW t \in Rows, EndAhead(t)
    PROVE  EndAhead(t)' \/ \E u \in Update : SystemUpdate(u) /\ Closes(u, t)
<1> USE DEF backend
<1>1. CASE Ending(t) \in jobs
  <2>1. CASE RunJob(Ending(t))
    <3> DEFINE u == [trade |-> t, type |-> "expiring", status |-> "close", job |-> TRUE]
    <3>1. u \in updates'
      BY <2>1 DEF RunJob, Ending
    <3> QED
      BY <3>1 DEF EndAhead
  <2>2. ASSUME Check, NEW x \in HitRows, rows[x].trade = t PROVE EndAhead(t)'
    <3>1. Monitor(x, "expiring", "close") \in updates'
      BY <2>2 DEF Check
    <3> QED
      BY <2>2, <3>1 DEF EndAhead, Monitor
  <2> QED
    BY <1>1, <2>1, <2>2, EndingSteps DEF EndAhead
<1>2. ASSUME NEW u \in updates, Closes(u, t)
      PROVE  u \in updates' \/ (u \in Update /\ SystemUpdate(u))
  <2> DEFINE Goal == u \in updates' \/ (u \in Update /\ SystemUpdate(u))
  <2> SUFFICES Goal
    OBVIOUS
  <2>1. updates \subseteq updates' => Goal
    BY <1>2
  <2>2. ASSUME NEW v \in Update, SystemUpdate(v) PROVE Goal
    BY <2>2 DEF SystemUpdate
  <2>3. ASSUME NEW r \in Requests,
               \/ Refusal(r) \/ CreateFind(r) \/ CreateSave(r) \/ CopyLock(r)
               \/ CopyCheck(r) /\ Goto(r, "insert")
               \/ CopyCommit(r)
               \/ CancelFind(r) \/ CancelReload(r) \/ CancelSave(r)
               \/ FindOwned(r) \/ EditCount(r) \/ EditSave(r) \/ RemoveCount(r)
               \/ RemoveDelete(r)
        PROVE  Goal
    <3>1. updates \subseteq updates'
      BY <2>3 DEF Refusal, Refuse, CreateFind, CreateSave, CopyLock, CopyCheck, CopyCommit,
                  CancelFind, CancelReload, CancelSave, FindOwned, EditCount, EditSave,
                  RemoveCount, RemoveDelete
    <3> QED
      BY <3>1, <2>1
  <2>4. /\ \A r \in Requests, c \in Calls : Begin(r, c) => Goal
        /\ \A j \in Job : RunJob(j) => Goal
        /\ \A a \in Assets, p \in Ticks : Tick(a, p) => Goal
        /\ Check => Goal
        /\ UNCHANGED tvars => Goal
        /\ UNCHANGED updates => Goal
    BY <2>1 DEF Begin, RunJob, Tick, Check, tvars
  <2>5. ~Restart /\ \A v \in Update : ~UpdateFails(v)
    BY DEF Restart, UpdateFails
  <2> HIDE DEF Goal
  <2> QED
    BY <2>2, <2>3, <2>4, <2>5, Cases
<1> QED
  BY <1>1, <1>2 DEF EndAhead, Closes

\* Rows of one trade agree in their margin.
LEMMA OneMargin ==
    ASSUME Identified, NEW x \in Rows, NEW y \in Rows, rows[x] # NoRow, rows[y] # NoRow,
           rows[x].trade = rows[y].trade
    PROVE  rows[x].margin = rows[y].margin
<1>1. Id(x, rows[x]) \in Ids /\ Id(y, rows[y]) \in Ids
  BY IdsOf
<1>2. /\ Id(x, rows[x]).trade = rows[x].trade /\ Id(x, rows[x]).margin = rows[x].margin
      /\ Id(y, rows[y]).trade = rows[y].trade /\ Id(y, rows[y]).margin = rows[y].margin
  BY IdFields
<1> QED
  BY <1>1, <1>2 DEF Identified

\* The update that closes a trade leaves it no live row with a margin.
LEMMA ClosesAll ==
    ASSUME Copied, NEW t \in Rows, NEW u \in Update, SystemUpdate(u), Closes(u, t),
           NEW x \in Rows, rows[x] # NoRow, rows[x].trade = t, rows[x].margin
    PROVE  rows'[x].status = "close"
<1> USE DEF Copied
<1>1. CASE x \notin LiveRows(t)
  <2>1. rows[x].status = "close"
    BY <1>1 DEF LiveRows, RowsOf
  <2>2. rows'[x] = rows[x]
    BY <1>1, SystemUpdateRows DEF Closes
  <2> QED
    BY <2>1, <2>2
<1>2. CASE x \in LiveRows(t)
  <2>1. PICK first \in LiveRows(t) :
           HasResult(rows[first], Price(rows[first])) =>
               rows'[x] = [rows[x] EXCEPT !.status = "close", !.exit = Price(rows[first])]
    <3>1. u.trade = t /\ u.type = "expiring" /\ u.status = "close" /\ u.type # "starting"
      BY DEF Closes
    <3>2. PICK first \in LiveRows(u.trade) :
             HasResult(rows[first], Price(rows[first])) =>
                 rows' = [y \in Rows |->
                             IF y \in LiveRows(u.trade)
                             THEN [rows[y] EXCEPT !.status = u.status, !.exit = Price(rows[first])]
                             ELSE rows[y]]
      BY <1>2, <3>1 DEF SystemUpdate
    <3>3. HasResult(rows[first], Price(rows[first])) =>
             rows'[x] = [rows[x] EXCEPT !.status = u.status, !.exit = Price(rows[first])]
      BY <1>2, <3>1, <3>2
    <3> QED
      BY <3>1, <3>2, <3>3
  <2>2. rows[first].margin
    BY <2>1, OneMargin DEF LiveRows, RowsOf
  <2>3. HasResult(rows[first], Price(rows[first]))
    BY <2>2 DEF HasResult
  <2>4. rows'[x] = [rows[x] EXCEPT !.status = "close", !.exit = Price(rows[first])]
    BY <2>1, <2>3
  <2>5. rows[x] \in Row
    BY LiveRow
  <2> QED
    BY <2>4, <2>5 DEF Row
<1> QED
  BY <1>1, <1>2

\* The end of a copy gives every row of the trade the status of the copy.
LEMMA CopyCommitStatus ==
    ASSUME TypeOK, Held, NEW r \in Requests, CopyCommit(r),
           NEW x \in RowsOf(loc[r].entity.trade), x # r
    PROVE  rows'[x].status = loc[r].entity.status
<1> DEFINE e == loc[r].entity
<1>1. /\ x \in Rows /\ rows[x] \in Row
      /\ rows'[x] = [rows[x] EXCEPT !.copiers = e.copiers, !.status = e.status]
  BY LiveRow DEF CopyCommit, RowsOf
<1> QED
  BY <1>1 DEF Row

\* Who may change the status of a row that stays live.
LEMMA StatusSteps ==
    ASSUME Copied, CancelsClose, NoEdits, [Next]_tvars, NEW x \in Rows,
           Kept(x), rows'[x] # NoRow, rows'[x].status # "close"
    PROVE  \/ rows'[x].status = rows[x].status
           \/ \E r \in Requests :
                 CopyCommit(r) /\ x # r /\ x \in RowsOf(loc[r].entity.trade)
           \/ \E u \in Update : SystemUpdate(u) /\ x \in LiveRows(u.trade)
<1> USE DEF Copied, backend
<1> DEFINE Goal == \/ rows'[x].status = rows[x].status
                   \/ \E r \in Requests :
                         CopyCommit(r) /\ x # r /\ x \in RowsOf(loc[r].entity.trade)
                   \/ \E u \in Update : SystemUpdate(u) /\ x \in LiveRows(u.trade)
<1> SUFFICES Goal
  OBVIOUS
<1>a. Born(x) /\ rows[x] # NoRow
  BY BornRows DEF Kept
<1>b. rows'[x] = rows[x] => Goal
  OBVIOUS
<1>1. ASSUME NEW r \in Requests, CreateSave(r) PROVE Goal
  <2>1. x # r
    BY <1>1, <1>a DEF CreateSave, At, Born
  <2> QED
    BY <1>1, <2>1 DEF CreateSave
<1>2. ASSUME NEW r \in Requests, CopyCommit(r) PROVE Goal
  <2>1. x # r
    BY <1>2, <1>a DEF CopyCommit, At, Born
  <2>2. x \notin RowsOf(loc[r].entity.trade) => rows'[x] = rows[x]
    BY <1>2, <2>1 DEF CopyCommit
  <2> QED
    BY <1>2, <2>1, <2>2
<1>3. ASSUME NEW r \in Requests, CancelSave(r) PROVE Goal
  <2> DEFINE e == loc[r].entity
             y == call[r].row
  <2>1. e.status = "close"
    BY <1>3 DEF CancelSave, At, CancelsClose, Closing
  <2>2. /\ x # y => rows'[x] = rows[x]
        /\ rows[y] # NoRow => rows'[y] = Merged(e, rows[y], loc[r].dirty)
    BY <1>3, SavedRow, Marks
  <2>3. x = y => rows'[x].status \in {e.status, rows[x].status}
    BY <2>2, <1>a, MergedFields DEF Fields
  <2> QED
    BY <2>1, <2>2, <2>3
<1>4. ASSUME NEW r \in Requests, EditSave(r) PROVE Goal
  BY <1>4 DEF EditSave, At, NoEdits
<1>5. ASSUME NEW r \in Requests, RemoveDelete(r) PROVE Goal
  BY <1>5 DEF RemoveDelete, TypeOK
<1>6. ASSUME NEW u \in Update, SystemUpdate(u) PROVE Goal
  <2>1. rows'[x] = rows[x] \/ x \in LiveRows(u.trade)
    BY <1>6, SystemUpdateRows
  <2> QED
    BY <1>6, <2>1
<1>7. UNCHANGED rows => Goal
  BY <1>b
<1>8. ASSUME NEW r \in Requests,
             \/ Refusal(r) \/ CreateFind(r) \/ CopyLock(r)
             \/ CopyCheck(r) /\ Goto(r, "insert")
             \/ CancelFind(r) \/ CancelReload(r) \/ FindOwned(r) \/ EditCount(r)
             \/ RemoveCount(r)
      PROVE  Goal
  <2>1. UNCHANGED rows
    BY <1>8 DEF Refusal, Refuse, CreateFind, CopyLock, CopyCheck, CancelFind, CancelReload,
                FindOwned, EditCount, RemoveCount
  <2> QED
    BY <2>1, <1>7
<1>9. /\ \A r \in Requests, c \in Calls : Begin(r, c) => Goal
      /\ \A u \in Update : UpdateFails(u) => Goal
      /\ \A j \in Job : RunJob(j) => Goal
      /\ \A a \in Assets, p \in Ticks : Tick(a, p) => Goal
      /\ Check => Goal
      /\ Restart => Goal
      /\ UNCHANGED tvars => Goal
  BY <1>7 DEF Begin, UpdateFails, RunJob, Tick, Check, Restart, tvars
<1> HIDE DEF Goal
<1> QED
  BY <1>1, <1>2, <1>3, <1>4, <1>5, <1>6, <1>7, <1>8, <1>9, Cases

\* Nothing is on its way to a trade before it is posted.
LEMMA NextUnpublished ==
    ASSUME Copied, Ahead, NoEdits, [Next]_tvars, NEW s \in Requests, ~Touched(s), Touched(s)',
           pc[s] # "done"
    PROVE  CreateFind(s) /\ call[s].draft # "yes"
<1> USE DEF Copied
<1>1. s \in Rows
  BY Marks
<1>2. ASSUME NEW x \in Watched, rows[x].trade = s PROVE FALSE
  BY <1>2, BornRows DEF Watched, Born
<1> QED
  BY <1>1, <1>2, TouchedSteps

\* A trade about to be saved keeps its job; a draft has none.
LEMMA NextAboutToSave ==
    ASSUME Copied, Ahead, NoEdits, [Next]_tvars, NEW s \in Requests
    PROVE  AboutToSave(s)'
<1> USE DEF Copied
<1> SUFFICES ASSUME pc'[s] = "write", call'[s].op = "create", ~call'[s].custom
             PROVE  IF loc'[s].entity.status = "draft" THEN ~Touched(s)' ELSE Ending(s) \in jobs'
  BY DEF AboutToSave, Ending
<1>1. CASE pc[s] = "write"
  <2>1. call'[s] = call[s] /\ loc'[s] = loc[s]
    BY <1>1, Stays DEF Running
  <2>2. ~CreateFind(s)
    BY <1>1 DEF CreateFind, At
  <2>3. CASE loc[s].entity.status = "draft"
    BY <1>1, <2>1, <2>2, <2>3, NextUnpublished DEF Ahead, AboutToSave
  <2>4. CASE loc[s].entity.status # "draft"
    <3>1. Ending(s) \in jobs /\ s \in Rows
      BY <1>1, <2>1, <2>4, Marks DEF Ahead, AboutToSave
    <3>2. ~RunJob(Ending(s))
      <4>1. loc[s].entity # NoRow /\ loc[s].entity.trade = s
        BY <1>1, <2>1, Marks DEF Held, HeldBy, Holding, Identified, NamedAfter
      <4> QED
        BY <1>1, <2>1, <4>1 DEF RunJob, Ending
    <3>3. ASSUME NEW x \in HitRows, rows[x].trade = s PROVE FALSE
      BY <1>1, <3>3, BornRows DEF HitRows, Watched, Born
    <3> QED
      BY <2>1, <2>4, <3>1, <3>2, <3>3, EndingSteps
  <2> QED
    BY <2>3, <2>4
<1>2. CASE pc[s] # "write"
  <2>1. CreateFind(s)
    BY <1>2, Entry DEF CancelReload, EditCount, RemoveCount, At
  <2> DEFINE c == call[s]
             price == prices[c.terms.asset]
             terms == [c.terms EXCEPT !.entry = IF @ = NoEntry THEN price ELSE @]
             status == IF c.draft = "yes" THEN "draft" ELSE Published(c, terms)
  <2>2. /\ UNCHANGED <<call, updates>> /\ pc[s] = "start"
        /\ jobs' = jobs \cup (IF c.draft = "yes" THEN {} ELSE JobsOf(s, c))
        /\ \E e : Hold(s, e, Fields) /\ e.status = status
    BY <2>1 DEF CreateFind, At
  <2>3. loc'[s].entity.status = status
    BY <2>2 DEF Hold, TypeOK
  <2> HIDE DEF terms
  <2>4. status = "draft" <=> c.draft = "yes"
    BY DEF Published, Opened
  <2>5. ~Touched(s)
    BY <2>2 DEF Ahead, Unpublished
  <2>6. c.draft = "yes" => ~Touched(s)'
    BY <2>2, <2>5 DEF Touched
  <2>7. c.draft # "yes" => Ending(s) \in jobs'
    BY <2>2 DEF JobsOf
  <2> QED
    BY <2>3, <2>4, <2>6, <2>7
<1> QED
  BY <1>1, <1>2

\* An end ahead of a row that was due is still ahead of every row of the
\* trade that is live after the step.
LEMMA StaysAhead ==
    ASSUME Copied, Ahead, NoEdits, [Next]_tvars, Faults \subseteq {"request"},
           NEW x \in Rows, NEW z \in Rows, Due(z), Kept(x), rows[x].trade = rows[z].trade,
           rows'[x].status # "close"
    PROVE  EndAhead(rows[x].trade)'
<1> USE DEF Copied
<1> PICK t \in Rows : t = rows[x].trade
  BY LiveRow DEF Kept, Row
<1>1. EndAhead(t)
  BY DEF Ahead
<1>2. ASSUME NEW u \in Update, SystemUpdate(u), Closes(u, t) PROVE FALSE
  <2>1. rows[x] # NoRow /\ rows[x].margin
    BY OneMargin DEF Kept, Due, Live
  <2> QED
    BY <1>2, <2>1, ClosesAll
<1>3. EndAhead(t)'
  BY <1>1, <1>2, EndAheadSteps
<1>4. rows'[x].trade = t
  BY DEF Kept, SameId
<1> HIDE DEF Kept
<1> QED
  BY <1>3, <1>4

\* A row that becomes due has an end ahead: posted, its job waits; copied or
\* opened, a row of its trade was due before.
LEMMA NextDue ==
    ASSUME Copied, CancelsClose, Ahead, NoEdits, [Next]_tvars, Faults \subseteq {"request"},
           NEW x \in Rows, Due(x)'
    PROVE  EndAhead(rows[x].trade)'
<1> USE DEF Copied
<1>1. /\ rows'[x] # NoRow /\ rows'[x].status # "close" /\ rows'[x].margin
      /\ rows'[x].status # "draft" \/ Touched(rows[x].trade)'
  BY DEF Due, Live
<1>2. \A r \in Requests :
         pc[r] # "idle" /\ call[r].custom => rows'[x].trade # r
  BY CallsGrow DEF Due, Custom
<1>3. CASE x \in Requests /\ CreateSave(x)
  <2>1. /\ pc[x] = "write" /\ call[x].op = "create" /\ loc[x].entity.trade = x
        /\ rows'[x] = loc[x].entity /\ UNCHANGED <<jobs, updates>>
    BY <1>3 DEF CreateSave, At, Identified, NamedAfter, TypeOK, backend
  <2>2. rows'[x].trade = x /\ ~call[x].custom
    BY <1>2, <1>3, <2>1
  <2>3. loc[x].entity.status # "draft"
    BY <1>1, <1>3, <2>1, <2>2 DEF Ahead, AboutToSave, Touched
  <2>4. Ending(x) \in jobs'
    BY <1>3, <2>1, <2>2, <2>3 DEF Ahead, AboutToSave
  <2> QED
    BY <2>2, <2>4 DEF EndAhead, Ending
<1>4. ASSUME NEW r \in Requests, CopyCommit(r), x = r \/ x \in RowsOf(loc[r].entity.trade)
      PROVE  EndAhead(rows[x].trade)'
  <2> DEFINE e == loc[r].entity
             y == call[r].row
  <2>1. /\ pc[r] = "insert" /\ Holds(r) /\ y \in Rows /\ Live(rows[y])
        /\ e.status = "draft" <=> rows[y].status = "draft"
    BY <1>4, CallFacts DEF CopyCommit, At, Holds, CopiesHold, CopyHolds
  <2>2. SameId(e, rows[y])
    BY <2>1, HeldId DEF Live
  <2>3. /\ rows'[r].trade = e.trade /\ rows'[r].margin = e.margin
        /\ rows'[r].status = e.status
        /\ x # r => rows'[x] = rows[x] \/ SameId(rows'[x], rows[x])
    BY <1>4, CopyCommitRows
  <2>4. rows'[x].trade = e.trade /\ rows'[x].status = e.status
    BY <1>4, <2>3, CopyCommitStatus DEF RowsOf, SameId
  <2>5. rows[y].margin
    <3>1. CASE x = r
      BY <1>1, <2>2, <2>3, <3>1 DEF SameId
    <3>2. CASE x # r
      <4>1. rows[x] # NoRow /\ rows[x].trade = rows[y].trade /\ rows[x].margin
        BY <1>1, <1>4, <2>2, <2>3, <3>2 DEF RowsOf, SameId
      <4> QED
        BY <2>1, <4>1, OneMargin DEF Live
    <3> QED
      BY <3>1, <3>2
  <2>6. UNCHANGED <<jobs, updates>>
    BY <1>4 DEF CopyCommit, backend
  <2>7. rows[y].status # "draft" \/ Touched(rows[y].trade)
    BY <1>1, <2>1, <2>2, <2>4, <2>6 DEF Touched, SameId
  <2>8. Due(y)
    BY <1>2, <2>1, <2>2, <2>4, <2>5, <2>7 DEF Due, Custom, SameId
  <2>9. EndAhead(rows[y].trade)
    BY <2>1, <2>8 DEF Ahead
  <2> QED
    BY <2>2, <2>4, <2>6, <2>9 DEF EndAhead, SameId, Ending
<1>5. CASE Kept(x)
  <2>1. rows[x] # NoRow /\ rows[x].trade = rows'[x].trade /\ rows[x].margin
    BY <1>1, <1>5 DEF Kept, SameId
  <2>2. ASSUME NEW z \in Rows, Live(rows[z]), rows[z].trade = rows[x].trade,
               rows[z].status # "draft" \/ Touched(rows[z].trade)
        PROVE  EndAhead(rows[x].trade)'
    <3>1. rows[z].margin
      BY <2>1, <2>2, OneMargin DEF Live
    <3>2. Due(z)
      BY <1>2, <2>1, <2>2, <3>1 DEF Due, Custom
    <3> QED
      BY <1>1, <1>5, <2>2, <3>2, StaysAhead
  <2>3. ASSUME NEW u \in Update, SystemUpdate(u), x \in LiveRows(u.trade)
        PROVE  EndAhead(rows[x].trade)'
    <3>1. Live(rows[x]) /\ Touched(rows[x].trade)
      BY <2>3 DEF LiveRows, RowsOf, Live, SystemUpdate, Touched
    <3> QED
      BY <2>2, <3>1
  <2>4. CASE rows'[x].status = rows[x].status
    <3>1. Live(rows[x])
      BY <1>1, <2>1, <2>4 DEF Live
    <3>2. CASE rows[x].status # "draft" \/ Touched(rows[x].trade)
      BY <2>2, <3>1, <3>2
    <3>3. CASE rows[x].status = "draft" /\ ~Touched(rows[x].trade)
      <4> PICK t \in Rows : t = rows[x].trade
        BY <2>1, LiveRow DEF Row
      <4>1. ~Touched(t) /\ Touched(t)'
        BY <1>1, <2>1, <2>4, <3>3 DEF Touched
      <4>2. ~(t \in Requests /\ CreateFind(t))
        BY <2>1, BornRows DEF Born, CreateFind, At
      <4>3. PICK z \in Watched : rows[z].trade = t
        BY <4>1, <4>2, TouchedSteps
      <4>4. z \in Rows /\ Live(rows[z]) /\ rows[z].status # "draft"
        BY DEF Watched, Live
      <4> QED
        BY <2>2, <4>3, <4>4
    <3> QED
      BY <3>2, <3>3
  <2> QED
    BY <1>1, <1>4, <1>5, <2>3, <2>4, StatusSteps
<1>6. ASSUME NEW r \in Requests, PutBack(r, x) PROVE FALSE
  BY <1>1, <1>6 DEF PutBack, CancelSave, At, CancelsClose, Closing
<1> QED
  BY <1>1, <1>3, <1>4, <1>5, <1>6, RowSteps

\* The state the service starts in has its jobs.
LEMMA InitAhead == Init => Ahead
<1> SUFFICES ASSUME Init PROVE Ahead
  OBVIOUS
<1>1. ASSUME NEW x \in Rows, Due(x) PROVE EndAhead(rows[x].trade)
  <2>1. CASE rows[x].status # "draft"
    BY <1>1, <2>1 DEF Init, Due, EndAhead
  <2>2. CASE Touched(rows[x].trade)
    <3>1. PICK j \in jobs : j.trade = rows[x].trade
      BY <2>2 DEF Init, Touched
    <3>2. PICK z \in Rows : /\ Live(rows[z]) /\ rows[z].status # "draft"
                            /\ j \in {Ending(rows[z].trade), Starting(rows[z].trade)}
      BY DEF Init
    <3>3. j.trade = rows[z].trade
      BY <3>2 DEF Ending, Starting
    <3>4. Ending(rows[z].trade) \in jobs
      BY <3>2 DEF Init
    <3> QED
      BY <3>1, <3>3, <3>4 DEF EndAhead
  <2> QED
    BY <1>1, <2>1, <2>2 DEF Due
<1>2. ASSUME NEW r \in Requests PROVE ~Touched(r)
  <2>1. \A j \in jobs : \E z \in Rows : rows[z] # NoRow /\ j.trade = rows[z].trade
    BY DEF Init, Ending, Starting, Live
  <2>2. \A z \in Rows : rows[z] # NoRow => rows[z].trade \in Seeds
    BY TradesAssumption DEF Init
  <2> QED
    BY <2>1, <2>2, TradesAssumption DEF Init, Touched
<1>3. \A r \in Requests : Unpublished(r) /\ AboutToSave(r)
  BY <1>2 DEF Init, Unpublished, AboutToSave
<1> QED
  BY <1>1, <1>3 DEF Ahead

\* As long as nobody edits, no step takes the end from a row that is due.
LEMMA NextAhead ==
    Copied /\ CancelsClose /\ Ahead /\ [Next]_tvars /\ Faults \subseteq {"request"} => Ahead'
<1> SUFFICES ASSUME Copied, CancelsClose, Ahead, [Next]_tvars, Faults \subseteq {"request"},
                    NoEdits'
             PROVE  /\ \A x \in Rows : Due(x)' => EndAhead(rows[x].trade)'
                    /\ \A r \in Requests : Unpublished(r)' /\ AboutToSave(r)'
  BY DEF Ahead
<1>1. NoEdits
  BY CallsGrow DEF NoEdits, Copied
<1>2. ASSUME NEW r \in Requests PROVE Unpublished(r)'
  <2> SUFFICES ASSUME pc'[r] \in {"idle", "start"}, Touched(r)' PROVE FALSE
    BY DEF Unpublished
  <2>1. pc[r] \in {"idle", "start"}
    BY Early DEF Copied
  <2>2. ~Touched(r)
    BY <1>1, <2>1 DEF Ahead, Unpublished
  <2>3. CreateFind(r)
    BY <1>1, <2>1, <2>2, NextUnpublished
  <2> QED
    BY <2>3 DEF CreateFind, Goto, Copied, TypeOK
<1> QED
  BY <1>1, <1>2, NextAboutToSave, NextDue

\* However the monitor marks jobs as done, and however a trade is copied and
\* cancelled, no promised trade is left without an end ahead: when requests
\* may fail but neither an update is lost nor the process restarts.
THEOREM EndsAhead ==
    ASSUME Faults \subseteq {"request"}
    PROVE  Spec => []EndingAhead
<1>1. Init => CancelsClose /\ Ahead
  BY InitCancels, InitAhead
<1>2. Copied /\ CancelsClose /\ Ahead /\ [Next]_tvars => (CancelsClose /\ Ahead)'
  BY NextCancels, NextAhead DEF Copied
<1>3. Ahead => EndingAhead
  <2> SUFFICES ASSUME Ahead, NEW x \in Rows, Promised(x) PROVE EndAhead(rows[x].trade)
    BY DEF EndingAhead
  <2>1. NoEdits
    BY DEF Promised, NoEdits
  <2>2. Due(x)
    BY DEF Promised, Due, Custom
  <2> QED
    BY <2>1, <2>2 DEF Ahead
<1> QED
  BY <1>1, <1>2, <1>3, CopiedInvariant, PTL DEF Spec
=============================================================================
