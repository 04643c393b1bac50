-------------------------- MODULE PublishingProofs --------------------------
(***************************************************************************)
(* Theorems about Publishing, for any rows, people, groups, calls, batch   *)
(* size and number of jobs and restarts.                                   *)
(***************************************************************************)
EXTENDS Publishing, TLAPS

\* What requests and jobs ask is well formed.
LEMMA RequestCall ==
    ASSUME TypeOK, NEW t \in DOMAIN cast.calls
    PROVE  /\ t \in Requests /\ t \in Tasks /\ t \in Ids
           /\ CallOf(t) = cast.calls[t] /\ CallOf(t) \in Call /\ Sound(CallOf(t))
           /\ CallOf(t).op = "create" => CallOf(t).doc = t
<1>1. cast \in Casts
  BY DEF TypeOK
<1>2. t \in Requests
  BY <1>1, PublishingAssumption
<1> QED
  BY <1>1, <1>2, PublishingAssumption DEF CallOf, Tasks, Ids

\* A job calls update, and tells a status and nothing else.
LEMMA JobCall ==
    ASSUME TypeOK, NEW t \in DOMAIN jobs
    PROVE  /\ t \in JobNos /\ t \in Tasks /\ t \notin Requests /\ jobs[t] \in JobRow
           /\ CallOf(t).op = "update" /\ CallOf(t).kind = jobs[t].kind /\ CallOf(t).doc = jobs[t].doc
           /\ CallOf(t).status \in {"Sent", "Published"}
           /\ CallOf(t).date = Nothing /\ CallOf(t).text = Nothing /\ CallOf(t).to = Nothing
           /\ CallOf(t).by = "job" /\ CallOf(t).file = FALSE
<1>1. t \in JobNos /\ jobs[t] \in JobRow
  BY PublishingAssumption DEF TypeOK, JobNos
<1>2. t \notin Requests
  BY <1>1, PublishingAssumption
<1> QED
  BY <1>1, <1>2 DEF CallOf, Tasks

\* The fields of what is under way.
LEMMA CallTypes ==
    ASSUME TypeOK, NEW t, t \in DOMAIN cast.calls \/ t \in DOMAIN jobs
    PROVE  /\ t \in Tasks
           /\ CallOf(t).op \in {"create", "update", "remove"} /\ CallOf(t).kind \in Kinds
           /\ CallOf(t).doc \in Ids
           /\ CallOf(t).status \in Status \cup {Nothing}
           /\ CallOf(t).date \in Dates /\ CallOf(t).text \in STRING \cup {Nothing}
           /\ CallOf(t).to \in Groups \cup {Nothing}
<1>1. CASE t \in DOMAIN cast.calls
  BY <1>1, RequestCall DEF Call
<1>2. CASE t \in DOMAIN jobs
  <2>1. jobs[t] \in JobRow
    BY <1>2, JobCall
  <2> QED
    BY <1>2, <2>1, JobCall DEF JobRow, Dates, Status
<1> QED
  BY <1>1, <1>2

\* The delay of a call that is scheduled is a number.
LEMMA DelayType ==
    ASSUME TypeOK, NEW t \in DOMAIN cast.calls
    PROVE  Delay(CallOf(t)) \in Int
<1>1. CallOf(t).date # Nothing => CallOf(t).date \in Int
  BY CallTypes, PublishingAssumption DEF Dates
<1> QED
  BY <1>1 DEF Delay, TypeOK

\* The recipients of a group are people.
LEMMA RecipientsType ==
    ASSUME NEW to \in Groups \cup {Nothing}
    PROVE  Recipients(to) \in SUBSET People
  BY PublishingAssumption DEF Recipients, Groups

\* A work that is set to well-formed fields is well formed.
LEMMA WorkType ==
    ASSUME TypeOK, NEW t \in Tasks
    PROVE  /\ task[t] \in Work
           /\ \A pc \in Labels : [task[t] EXCEPT !.pc = pc] \in Work
           /\ \A w \in Work : [task EXCEPT ![t] = w] \in [Tasks -> Work]
  BY DEF TypeOK, Work

\* A call that only goes to another step is well formed.
LEMMA GotoType ==
    ASSUME TypeOK, NEW t \in Tasks
    PROVE  /\ [task EXCEPT ![t].pc = "failed"] \in [Tasks -> Work]
           /\ [task EXCEPT ![t].pc = "done"] \in [Tasks -> Work]
           /\ [task EXCEPT ![t].pc = "queue"] \in [Tasks -> Work]
           /\ [task EXCEPT ![t].pc = "delete"] \in [Tasks -> Work]
           /\ [task EXCEPT ![t].pc = "find"] \in [Tasks -> Work]
<1>1. task \in [Tasks -> Work] /\ task[t] \in Work
  BY DEF TypeOK
<1> QED
  BY <1>1 DEF Work, Labels, Moving

\* What is queued is well formed, and a job of the caller's row.
LEMMA QueueType ==
    ASSUME TypeOK, NEW t \in DOMAIN cast.calls, NEW text \in STRING \cup {Nothing},
           NEW people \in SUBSET People, NEW delay \in Int, Queue(t, text, people, delay)
    PROVE  /\ jobs' \in Seq(JobRow) /\ Len(jobs') <= MaxJobs
           /\ Len(jobs) + 1 \in JobNos /\ Len(jobs) + 1 \in Nat
           /\ DOMAIN jobs = 1..Len(jobs) /\ DOMAIN jobs' = 1..(Len(jobs) + 1)
           /\ Len(jobs) + 1 \in DOMAIN jobs'
           /\ \A j \in DOMAIN jobs : jobs'[j] = jobs[j]
           /\ jobs'[Len(jobs) + 1] = Job(t, text, people, delay)
<1>1. Job(t, text, people, delay) \in JobRow
  <2>1. now + delay \in Int
    BY DEF TypeOK
  <2> QED
    BY <2>1, RequestCall, CallTypes DEF Job, JobRow
<1>2. Len(jobs) \in Nat /\ Len(jobs) + 1 <= MaxJobs /\ MaxJobs \in Nat
  BY PublishingAssumption DEF TypeOK, Queue
<1>3. jobs' = Append(jobs, Job(t, text, people, delay)) /\ jobs \in Seq(JobRow)
  BY DEF Queue, TypeOK
<1> QED
  BY <1>1, <1>2, <1>3 DEF JobNos

\* A job whose state is set is well formed.
LEMMA StateType ==
    ASSUME TypeOK, NEW j \in DOMAIN jobs, NEW state \in {"pending", "running", "done", "failed"},
           jobs' = [jobs EXCEPT ![j].state = state]
    PROVE  /\ jobs' \in Seq(JobRow) /\ Len(jobs') = Len(jobs)
           /\ DOMAIN jobs' = DOMAIN jobs
           /\ \A i \in DOMAIN jobs : i # j => jobs'[i] = jobs[i]
           /\ jobs'[j] = [jobs[j] EXCEPT !.state = state]
           /\ jobs'[j].state = state
           /\ \A i \in DOMAIN jobs : /\ jobs'[i].kind = jobs[i].kind /\ jobs'[i].doc = jobs[i].doc
                                     /\ jobs'[i].users = jobs[i].users /\ jobs'[i].by = jobs[i].by
<1>1. jobs \in Seq(JobRow) /\ jobs[j] \in JobRow
  BY DEF TypeOK
<1> DEFINE job == [jobs[j] EXCEPT !.state = state]
<1>2. job \in JobRow /\ job.state = state /\ job.kind = jobs[j].kind /\ job.doc = jobs[j].doc
      /\ job.users = jobs[j].users /\ job.by = jobs[j].by
  BY <1>1 DEF JobRow
<1> HIDE DEF job
<1>3. jobs' = [jobs EXCEPT ![j] = job]
  BY <1>1 DEF job
<1>4. jobs' \in Seq(JobRow) /\ Len(jobs') = Len(jobs) /\ DOMAIN jobs' = DOMAIN jobs
  BY <1>1, <1>2, <1>3
<1>5. jobs'[j] = job /\ \A i \in DOMAIN jobs : i # j => jobs'[i] = jobs[i]
  BY <1>1, <1>3
<1> QED
  BY <1>2, <1>4, <1>5 DEF job
-----------------------------------------------------------------------------
\* A call is at a step only if there is one, and at a step of its kind; what
\* is about to be written has its job, if it schedules.
Labelled(t) ==
    /\ task[t].pc # "idle" => t \in DOMAIN cast.calls \/ t \in DOMAIN jobs
    /\ t \in JobNos => task[t].pc \in {"idle", "find", "write", "done", "failed"}
    /\ t \in Requests =>
          /\ task[t].pc \in {"save", "queue"} => CallOf(t).op = "create"
          /\ task[t].pc = "recipients" => CallOf(t).kind = "email"
          /\ task[t].pc \in {"upload", "recipients"} /\ CallOf(t).op = "update" => task[t].seen # Nothing
          /\ task[t].users # {} => CallOf(t).kind = "email"
          /\ task[t].pc = "write" =>
                /\ CallOf(t).op = "update"
                /\ Schedules(CallOf(t), task[t].seen) =>
                      /\ task[t].job \in DOMAIN jobs
                      /\ jobs[task[t].job].by = t

\* A job is of the row its call names; only an email has people, and of one
\* that is over they all have been tried.
Queued(j) ==
    /\ jobs[j].by \in DOMAIN cast.calls
    /\ jobs[j].doc = cast.calls[jobs[j].by].doc
    /\ jobs[j].kind # "email" => jobs[j].users = {}
    /\ Owed(j)
    /\ jobs[j].kind = "email" => jobs[j].state # "failed"
    /\ jobs[j].kind = "email" /\ task[j].pc \in Moving => jobs[j].state = "done"

\* The people of the email under way are to be tried, or have been.
Tried ==
    /\ \A i, j \in Running("email") : i = j
    /\ \A j \in Running("email") : jobs[j].users \subseteq settled[j] \cup sending.batch \cup sending.todo

\* Who has set the status of a row is a call or a job of that row.
SetBy(d) ==
    LET s == docs[d].setter
    IN  /\ s \in Drafts => docs[d].status = "Draft"
        /\ s \in JobNos => s \in DOMAIN jobs
        /\ s \in Requests => /\ s \in DOMAIN cast.calls
                             /\ cast.calls[s].doc = d
                             /\ task[s].pc \in {"queue", "done", "failed"}

SentBy(d) ==
    LET s == docs[d].setter
    IN  \/ s \in JobNos /\ jobs[s].users \subseteq settled[s]
        \/ s \in Requests /\ CallOf(s).op = "update"
        \/ s \in Requests /\ task[s].pc \in {"queue", "failed"}
        \/ s \in Requests /\ \E j \in DOMAIN jobs : jobs[j].by = s /\ Owed(j)

PlannedBy(d) ==
    LET s == docs[d].setter
    IN  \/ docs[d].late
        \/ CallOf(s).op = "create" /\ task[s].pc \in {"queue", "failed"}
        \/ CallOf(s).op = "update" /\ ~Schedules(CallOf(s), task[s].seen)
        \/ \E j \in DOMAIN jobs : jobs[j].by = s /\ Coming(j)

Accounted(d) ==
    /\ SetBy(d)
    /\ docs[d].status = "Sent" => SentBy(d)
    /\ docs[d].status = "Scheduled" /\ docs[d].setter \in Requests => PlannedBy(d)

CallsInv == \A t \in Tasks : Labelled(t)
JobsInv  == (\A j \in DOMAIN jobs : Queued(j)) /\ Tried
RowsInv  == \A d \in Ids : Placed(d) => Accounted(d)

IInv == TypeOK /\ CallsInv /\ JobsInv /\ RowsInv

-----------------------------------------------------------------------------
(* types *)

\* The types hold at first.
LEMMA InitTypes == Init => TypeOK
<1> SUFFICES ASSUME Init PROVE TypeOK
  OBVIOUS
<1>1. docs \in [Ids -> Row \cup {Nothing}]
  BY PublishingAssumption DEF Init
<1>2. task \in [Tasks -> Work]
  BY DEF Init, Idle, Work, Labels
<1>3. sending \in Round
  BY DEF Init, Quiet, Round
<1>4. mails \in [JobNos -> [People -> Nat]] /\ settled \in [JobNos -> SUBSET People]
  BY DEF Init
<1>5. jobs \in Seq(JobRow) /\ Len(jobs) <= MaxJobs
  BY PublishingAssumption DEF Init
<1> QED
  BY <1>1, <1>2, <1>3, <1>4, <1>5 DEF Init, TypeOK

\* Who is at a step that only a call reaches.
LEMMA Under ==
    ASSUME TypeOK, CallsInv, NEW t \in Tasks, task[t].pc # "idle"
    PROVE  t \in DOMAIN cast.calls \/ t \in DOMAIN jobs
  BY DEF CallsInv, Labelled

\* Only a request is at one of these steps.
LEMMA UnderCall ==
    ASSUME TypeOK, CallsInv, NEW t \in Tasks,
           task[t].pc \in {"upload", "recipients", "save", "queue", "delete"}
    PROVE  t \in DOMAIN cast.calls
<1>1. t \in DOMAIN jobs => t \in JobNos
  BY JobCall
<1> QED
  BY <1>1 DEF CallsInv, Labelled

\* The steps of a call up to its writing.
LEMMA BeginTyped ==
    ASSUME TypeOK, NEW t \in Tasks, Begin(t)
    PROVE  TypeOK'
<1>1. t \in DOMAIN cast.calls
  BY DEF Begin
<1>2. PICK pc \in Labels : task' = [task EXCEPT ![t] = [@ EXCEPT !.pc = pc, !.delay = Delay(CallOf(t))]]
  BY <1>1, RequestCall DEF Begin, Labels, Moving, Call
<1>3. [task[t] EXCEPT !.pc = pc, !.delay = Delay(CallOf(t))] \in Work
  BY <1>1, DelayType, WorkType DEF Work
<1>4. task' \in [Tasks -> Work]
  BY <1>2, <1>3 DEF TypeOK
<1> QED
  BY <1>4 DEF Begin, TypeOK

\* The rest of a create keeps the types.
LEMMA NewTyped ==
    ASSUME TypeOK, CallsInv, NEW t \in Tasks, UploadNew(t) \/ RecipientsNew(t) \/ Save(t) \/ QueueNew(t)
    PROVE  TypeOK'
<1>1. t \in DOMAIN cast.calls
  BY UnderCall DEF UploadNew, RecipientsNew, Save, QueueNew, At
<1>2. CallOf(t).to \in Groups \cup {Nothing} /\ Delay(CallOf(t)) \in Int /\ task[t] \in Work
  BY <1>1, CallTypes, DelayType DEF TypeOK
<1>3. CASE UploadNew(t)
  <2>1. [task[t] EXCEPT !.pc = "save", !.delay = Delay(CallOf(t))] \in Work
    BY <1>2 DEF Work, Labels, Moving
  <2> QED
    BY <1>3, <2>1, WorkType DEF UploadNew, TypeOK
<1>4. CASE RecipientsNew(t)
  <2>1. [task[t] EXCEPT !.pc = "save", !.users = Recipients(CallOf(t).to), !.delay = Delay(CallOf(t))] \in Work
    BY <1>2, RecipientsType DEF Work, Labels, Moving
  <2> QED
    BY <1>4, <2>1, WorkType DEF RecipientsNew, TypeOK
<1>5. CASE Save(t)
  <2> DEFINE c == CallOf(t)
             row == [kind |-> c.kind, status |-> c.status, date |-> c.date, text |-> c.text,
                     to |-> c.to, writer |-> t, setter |-> t, late |-> FALSE]
  <2>1. c.op = "create"
    <3>1. t \in Requests
      BY <1>1, RequestCall
    <3> QED
      BY <1>5, <3>1 DEF CallsInv, Labelled, Save, At
  <2>2. c.status \in Status /\ c.text \in STRING
    BY <1>1, <2>1, RequestCall, CallTypes DEF Sound
  <2>3. row \in Row
    BY <1>1, <2>2, CallTypes DEF Row
  <2>4. docs' = docs \/ docs' = [docs EXCEPT ![t] = row]
    BY <1>5 DEF Save
  <2>5. docs' \in [Ids -> Row \cup {Nothing}]
    BY <2>3, <2>4 DEF TypeOK
  <2>6. task' \in [Tasks -> Work]
    BY <1>5, GotoType DEF Save, Goto
  <2> QED
    BY <1>5, <2>5, <2>6 DEF Save, TypeOK
<1>6. CASE QueueNew(t)
  <2>1. /\ CallOf(t).text \in STRING \cup {Nothing} /\ task[t].users \in SUBSET People
        /\ task[t].delay \in Int
    BY <1>1, <1>2, CallTypes DEF Work
  <2>2. jobs' \in Seq(JobRow) /\ Len(jobs') <= MaxJobs /\ Len(jobs) + 1 \in Nat
    BY <1>1, <1>6, <2>1, QueueType DEF QueueNew
  <2>3. [task[t] EXCEPT !.pc = "done", !.job = Len(jobs) + 1] \in Work
    BY <1>2, <2>2 DEF Work, Labels
  <2> QED
    BY <1>6, <2>2, <2>3, WorkType DEF QueueNew, TypeOK
<1> QED
  BY <1>3, <1>4, <1>5, <1>6

\* What update decides.
LEMMA DecideTyped ==
    ASSUME TypeOK, NEW t \in Tasks, t \in DOMAIN cast.calls \/ t \in DOMAIN jobs,
           NEW seen \in Row \cup {Nothing}, Decide(t, seen)
    PROVE  task' \in [Tasks -> Work] /\ jobs' \in Seq(JobRow) /\ Len(jobs') <= MaxJobs
<1> DEFINE c == CallOf(t)
<1>1. task[t] \in Work /\ [task[t] EXCEPT !.seen = seen] \in Work
  BY DEF TypeOK, Work
<1>2. CASE ~Schedules(c, seen)
  <2>1. [task[t] EXCEPT !.seen = seen, !.pc = "write"] \in Work
    BY <1>1 DEF Work, Labels, Moving
  <2>2. task' = [task EXCEPT ![t] = [task[t] EXCEPT !.seen = seen, !.pc = "write"]] /\ jobs' = jobs
    BY <1>2 DEF Decide
  <2> QED
    BY <2>1, <2>2, WorkType DEF TypeOK
<1>3. CASE Schedules(c, seen) /\ (c.date = Nothing \/ c.date <= now)
  <2>1. task' = [task EXCEPT ![t].pc = "failed"] /\ jobs' = jobs
    BY <1>3 DEF Decide, Goto
  <2> QED
    BY <2>1, GotoType DEF TypeOK
<1>4. CASE Schedules(c, seen) /\ ~(c.date = Nothing \/ c.date <= now)
  <2>1. t \in DOMAIN cast.calls
    BY <1>4, JobCall DEF Schedules
  <2>2. c.date - now \in Int
    BY <1>4, CallTypes, PublishingAssumption DEF Dates, TypeOK
  <2>3. CASE c.kind = "email"
    <3>1. [task[t] EXCEPT !.seen = seen, !.pc = "recipients", !.delay = c.date - now] \in Work
      BY <1>1, <2>2 DEF Work, Labels, Moving
    <3>2. /\ task' = [task EXCEPT ![t] = [task[t] EXCEPT !.seen = seen, !.pc = "recipients", !.delay = c.date - now]]
          /\ jobs' = jobs
      BY <1>4, <2>3 DEF Decide
    <3> QED
      BY <3>1, <3>2, WorkType DEF TypeOK
  <2>4. CASE c.kind # "email"
    <3>1. /\ Queue(t, Nothing, {}, c.date - now)
          /\ task' = [task EXCEPT ![t] = [task[t] EXCEPT !.seen = seen, !.pc = "write", !.job = Len(jobs) + 1]]
      BY <1>4, <2>4 DEF Decide
    <3>2. jobs' \in Seq(JobRow) /\ Len(jobs') <= MaxJobs /\ Len(jobs) + 1 \in Nat
      BY <2>1, <2>2, <3>1, QueueType
    <3>3. [task[t] EXCEPT !.seen = seen, !.pc = "write", !.job = Len(jobs) + 1] \in Work
      BY <1>1, <3>2 DEF Work, Labels, Moving
    <3> QED
      BY <3>1, <3>2, <3>3, WorkType
  <2> QED
    BY <2>3, <2>4
<1> QED
  BY <1>2, <1>3, <1>4

\* An update keeps the types until it writes.
LEMMA UpdateTyped ==
    ASSUME TypeOK, CallsInv, NEW t \in Tasks, Find(t) \/ Upload(t) \/ RecipientsOld(t)
    PROVE  TypeOK'
<1>1. t \in DOMAIN cast.calls \/ t \in DOMAIN jobs
  BY Under DEF Find, Upload, RecipientsOld, At
<1>2. task[t] \in Work /\ task[t].seen \in Row \cup {Nothing} /\ docs[CallOf(t).doc] \in Row \cup {Nothing}
  BY <1>1, CallTypes DEF TypeOK, Work
<1>3. CASE Find(t)
  <2>1. CASE Decide(t, docs[CallOf(t).doc])
    BY <1>1, <1>2, <1>3, <2>1, DecideTyped DEF Find, TypeOK
  <2>2. CASE Goto(t, "failed") /\ UNCHANGED jobs
    BY <1>3, <2>2, WorkType DEF Find, Goto, TypeOK, Labels
  <2>3. CASE task' = [task EXCEPT ![t] = [@ EXCEPT !.pc = "upload", !.seen = docs[CallOf(t).doc]]] /\ UNCHANGED jobs
    <3>1. [task[t] EXCEPT !.pc = "upload", !.seen = docs[CallOf(t).doc]] \in Work
      BY <1>2 DEF Work, Labels, Moving
    <3> QED
      BY <1>3, <2>3, <3>1, WorkType DEF Find, TypeOK
  <2> QED
    BY <1>3, <2>1, <2>2, <2>3 DEF Find
<1>4. CASE Upload(t)
  BY <1>1, <1>2, <1>4, DecideTyped DEF Upload, TypeOK
<1>5. CASE RecipientsOld(t)
  <2>1. t \in DOMAIN cast.calls
    BY <1>5, UnderCall DEF RecipientsOld, At
  <2>2. Recipients(CallOf(t).to) \in SUBSET People /\ task[t].delay \in Int
    BY <1>1, <1>2, CallTypes, RecipientsType DEF Work
  <2>6. task[t].seen \in Row
    <3>1. t \in Requests /\ task[t].pc = "recipients" /\ CallOf(t).op = "update"
      BY <1>5, <2>1, RequestCall DEF RecipientsOld, At
    <3> QED
      BY <1>2, <3>1 DEF CallsInv, Labelled
  <2>3. Wording(CallOf(t), task[t].seen) \in STRING \cup {Nothing}
    BY <1>1, <2>6, CallTypes DEF Wording, Row
  <2>4. jobs' \in Seq(JobRow) /\ Len(jobs') <= MaxJobs /\ Len(jobs) + 1 \in Nat
    BY <1>5, <2>1, <2>2, <2>3, QueueType DEF RecipientsOld
  <2>5. [task[t] EXCEPT !.pc = "write", !.job = Len(jobs) + 1] \in Work
    BY <1>2, <2>4 DEF Work, Labels, Moving
  <2> QED
    BY <1>5, <2>4, <2>5, WorkType DEF RecipientsOld, TypeOK
<1> QED
  BY <1>3, <1>4, <1>5

\* What is written is a row.
LEMMA WriteTyped ==
    ASSUME TypeOK, CallsInv, NEW t \in Tasks, Write(t)
    PROVE  TypeOK'
<1> DEFINE c == CallOf(t)
           d == c.doc
<1>1. t \in DOMAIN cast.calls \/ t \in DOMAIN jobs
  BY Under DEF Write, At
<1>2. d \in Ids
  BY <1>1, CallTypes
<1>3. ASSUME docs[d] # Nothing
      PROVE  Written(t, docs[d]) \in Row
  <2>1. docs[d] \in Row
    BY <1>2, <1>3 DEF TypeOK
  <2>2. /\ Given(c.status, docs[d].status) \in Status /\ Given(c.date, docs[d].date) \in Dates
        /\ Given(c.text, docs[d].text) \in STRING /\ Given(c.to, docs[d].to) \in Groups \cup {Nothing}
    BY <1>1, <2>1, CallTypes DEF Given, Row
  <2>3. /\ (IF c.status = Nothing THEN docs[d].setter ELSE t) \in Tasks \cup Drafts
        /\ (IF c.status = Nothing THEN docs[d].late
            ELSE task[t].job # 0 /\ jobs[task[t].job].state # "pending") \in BOOLEAN
    BY <2>1 DEF Row
  <2> QED
    BY <2>1, <2>2, <2>3 DEF Written, Row
<1>4. docs' \in [Ids -> Row \cup {Nothing}]
  <2>1. docs' = docs \/ (docs[d] # Nothing /\ docs' = [docs EXCEPT ![d] = Written(t, docs[d])])
    BY DEF Write
  <2> HIDE DEF d
  <2> QED
    BY <1>3, <2>1 DEF TypeOK
<1>5. task' \in [Tasks -> Work]
  BY GotoType DEF Write, Goto
<1>6. jobs' \in Seq(JobRow) /\ Len(jobs') <= MaxJobs
  <2>1. CASE t \in Requests
    BY <2>1 DEF Write, TypeOK
  <2>2. CASE t \notin Requests
    <3>1. t \in DOMAIN jobs /\ jobs' = [jobs EXCEPT ![t].state = "done"]
      BY <1>1, <2>2, RequestCall DEF Write
    <3> QED
      BY <3>1, StateType DEF TypeOK
  <2> QED
    BY <2>1, <2>2
<1> QED
  BY <1>4, <1>5, <1>6 DEF Write, TypeOK

\* A removal keeps the types.
LEMMA RemoveTyped ==
    ASSUME TypeOK, NEW t \in Tasks, FindToRemove(t) \/ Delete(t)
    PROVE  TypeOK'
<1>1. task' \in [Tasks -> Work]
  <2>1. \/ task' = [task EXCEPT ![t].pc = "delete"]
        \/ task' = [task EXCEPT ![t].pc = "failed"]
        \/ task' = [task EXCEPT ![t].pc = "done"]
    <3>1. FindToRemove(t) => \/ task' = [task EXCEPT ![t].pc = "delete"]
                             \/ task' = [task EXCEPT ![t].pc = "failed"]
      BY DEF FindToRemove, Goto
    <3>2. Delete(t) => task' = [task EXCEPT ![t].pc = "done"]
      BY DEF Delete, Goto
    <3> QED
      BY <3>1, <3>2
  <2> QED
    BY <2>1, GotoType
<1>2. docs' \in [Ids -> Row \cup {Nothing}]
  BY DEF FindToRemove, Delete, TypeOK
<1> QED
  BY <1>1, <1>2 DEF FindToRemove, Delete, TypeOK

\* The workers.
LEMMA WorkersTyped ==
    ASSUME TypeOK, NEW j \in JobNos, JobStep(j)
    PROVE  TypeOK'
<1>1. /\ sending \in Round /\ mails \in [JobNos -> [People -> Nat]] /\ settled \in [JobNos -> SUBSET People]
      /\ j \in Tasks
  BY DEF TypeOK, Tasks
<1>2. CASE TakeJob(j)
  <2>1. j \in DOMAIN jobs /\ jobs' = [jobs EXCEPT ![j].state = "running"]
    BY <1>2 DEF TakeJob
  <2>2. jobs' \in Seq(JobRow) /\ Len(jobs') <= MaxJobs
    BY <2>1, StateType DEF TypeOK
  <2>3. sending' \in Round
    <3>1. jobs[j].users \in SUBSET People
      BY <2>1, JobCall DEF JobRow
    <3>2. [Quiet EXCEPT !.todo = jobs[j].users] \in Round
      BY <3>1 DEF Quiet, Round
    <3> QED
      BY <1>1, <1>2, <3>2 DEF TakeJob
  <2>4. task' \in [Tasks -> Work]
    BY <1>1, <1>2, GotoType DEF TakeJob, Goto, TypeOK
  <2> QED
    BY <1>2, <2>2, <2>3, <2>4 DEF TakeJob, TypeOK
<1>3. CASE NextBatch(j)
  <2>1. PICK batch \in SUBSET sending.todo : sending' = [sending EXCEPT !.batch = batch, !.todo = sending.todo \ batch]
    BY <1>3 DEF NextBatch
  <2>2. batch \in SUBSET People /\ sending.todo \ batch \in SUBSET People
    BY <1>1 DEF Round
  <2>3. sending' \in Round
    BY <1>1, <2>1, <2>2 DEF Round
  <2> QED
    BY <1>3, <2>3 DEF NextBatch, TypeOK
<1>4. ASSUME NEW p \in People, Mail(j, p)
      PROVE  TypeOK'
  <2>1. sending.batch \ {p} \in SUBSET People /\ sending.tries[p] + 1 \in Nat
    BY <1>1 DEF Round
  <2>2. settled[j] \cup {p} \in SUBSET People /\ mails[j][p] + 1 \in Nat
    BY <1>1
  <2>3. mails' = mails \/ mails' = [mails EXCEPT ![j][p] = mails[j][p] + 1]
    <3>1. mails = [mails EXCEPT ![j][p] = mails[j][p]]
      BY <1>1
    <3>2. CASE mails' = [mails EXCEPT ![j][p] = @ + 1]
      BY <3>2
    <3>3. CASE \E reached \in BOOLEAN : MailFails(j, p, reached)
      BY <3>1, <3>3 DEF MailFails
    <3> QED
      BY <1>4, <3>2, <3>3 DEF Mail
  <2>4. mails' \in [JobNos -> [People -> Nat]]
    <3> DEFINE row == [mails[j] EXCEPT ![p] = mails[j][p] + 1]
    <3>1. row \in [People -> Nat]
      BY <1>1, <2>2
    <3>2. mails' = mails \/ mails' = [mails EXCEPT ![j] = row]
      BY <2>3
    <3> HIDE DEF row
    <3> QED
      BY <1>1, <3>1, <3>2
  <2>5. settled' \in [JobNos -> SUBSET People]
    <3>1. settled' = [settled EXCEPT ![j] = settled[j] \cup {p}] \/ settled' = [settled EXCEPT ![j] = settled[j]]
      BY <1>4 DEF Mail, MailFails
    <3> QED
      BY <1>1, <2>2, <3>1
  <2>6. sending' \in Round
    <3>1. CASE sending' = [sending EXCEPT !.batch = sending.batch \ {p}]
      BY <1>1, <2>1, <3>1 DEF Round
    <3>2. CASE \E reached \in BOOLEAN : MailFails(j, p, reached)
      <4> DEFINE left == IF GivesUp(p) THEN sending.batch \ {p} ELSE sending.batch
                 tries == [sending.tries EXCEPT ![p] = sending.tries[p] + 1]
      <4>1. left \in SUBSET People /\ tries \in [People -> Nat]
        BY <1>1, <2>1 DEF Round
      <4>2. sending' = [sending EXCEPT !.tries = tries, !.batch = left]
        BY <3>2 DEF MailFails
      <4> HIDE DEF left, tries
      <4>3. [sending EXCEPT !.tries = tries] \in Round
        BY <1>1, <4>1 DEF Round
      <4>4. \A s \in Round : [s EXCEPT !.batch = left] \in Round
        BY <4>1 DEF Round
      <4> QED
        BY <4>2, <4>3, <4>4
    <3> QED
      BY <1>4, <3>1, <3>2 DEF Mail
  <2> QED
    BY <1>4, <2>4, <2>5, <2>6 DEF Mail, TypeOK
<1>5. CASE EndMails(j)
  <2>1. j \in DOMAIN jobs /\ jobs' = [jobs EXCEPT ![j].state = "done"]
    BY <1>5 DEF EndMails, Running
  <2>2. jobs' \in Seq(JobRow) /\ Len(jobs') <= MaxJobs
    BY <2>1, StateType DEF TypeOK
  <2>3. task' \in [Tasks -> Work]
    BY <1>1, <1>5, GotoType DEF EndMails, Goto
  <2> QED
    BY <1>5, <2>2, <2>3 DEF EndMails, TypeOK
<1> QED
  BY <1>2, <1>3, <1>4, <1>5 DEF JobStep

\* The end of the process, and of a call.
LEMMA EndTyped ==
    ASSUME TypeOK, End
    PROVE  TypeOK'
<1>1. jobs' \in Seq(JobRow) /\ Len(jobs') <= MaxJobs
  <2>1. \A j \in DOMAIN jobs : jobs[j] \in JobRow
    BY DEF TypeOK
  <2>2. \A j \in DOMAIN jobs : AfterEnd(jobs[j]) \in JobRow
    BY <2>1 DEF AfterEnd, JobRow
  <2>3. DOMAIN jobs = 1..Len(jobs) /\ Len(jobs) \in Nat
    BY DEF TypeOK
  <2> QED
    BY <2>2, <2>3 DEF End, TypeOK
<1>2. task' \in [Tasks -> Work]
  <2>1. Idle \in Work
    BY DEF Idle, Work, Labels
  <2>2. \A t \in Tasks : task[t] \in Work /\ [task[t] EXCEPT !.pc = "failed"] \in Work
    BY DEF TypeOK, Work, Labels
  <2> QED
    BY <2>1, <2>2 DEF End
<1>3. sending' \in Round
  BY DEF End, Quiet, Round
<1> QED
  BY <1>1, <1>2, <1>3 DEF End, TypeOK

\* A failure keeps the types.
LEMMA FailsTyped ==
    ASSUME TypeOK, NEW t \in Tasks, t \in DOMAIN cast.calls \/ t \in DOMAIN jobs, Fails(t)
    PROVE  TypeOK'
<1>1. CASE t \in Requests
  BY <1>1, GotoType DEF Fails, Goto, TypeOK
<1>2. CASE t \notin Requests
  <2>1. t \in DOMAIN jobs
    BY <1>2, RequestCall
  <2>2. CASE jobs[t].kind = "post"
    <3>1. /\ jobs' = [jobs EXCEPT ![t].state = "failed"] /\ task' = [task EXCEPT ![t].pc = "failed"]
          /\ UNCHANGED <<cast, now, docs, sending, mails, settled, restarts>>
      BY <1>2, <2>2 DEF Fails, Goto
    <3>2. jobs' \in Seq(JobRow) /\ Len(jobs') <= MaxJobs
      BY <2>1, <3>1, StateType DEF TypeOK
    <3> QED
      BY <3>1, <3>2, GotoType DEF TypeOK
  <2>3. CASE jobs[t].kind # "post"
    BY <1>2, <2>3, EndTyped DEF Fails
  <2> QED
    BY <2>2, <2>3
<1> QED
  BY <1>1, <1>2

\* Every step keeps the types.
LEMMA TypeStep ==
    ASSUME TypeOK, CallsInv, [Next]_pvars
    PROVE  TypeOK'
<1>1. ASSUME NEW t \in Requests, Begin(t)
      PROVE  TypeOK'
  BY <1>1, BeginTyped DEF Tasks
<1>2. ASSUME NEW t \in Tasks, CallStep(t)
      PROVE  TypeOK'
  <2>1. FindNone(t) => Fails(t) /\ task[t].pc # "idle"
    BY DEF FindNone, At
  <2> QED
    BY <1>2, <2>1, NewTyped, UpdateTyped, WriteTyped, RemoveTyped, FailsTyped, Under DEF CallStep
<1>3. ASSUME NEW t \in Tasks, FailTask(t)
      PROVE  TypeOK'
  <2>1. Fails(t) /\ task[t].pc # "idle"
    BY <1>3 DEF FailTask, Moving
  <2> QED
    BY <2>1, FailsTyped, Under
<1>4. ASSUME NEW j \in JobNos, JobStep(j)
      PROVE  TypeOK'
  BY <1>4, WorkersTyped
<1>5. CASE Tick
  BY <1>5 DEF Tick, TypeOK
<1>6. CASE Restart
  BY <1>6, EndTyped DEF Restart
<1>7. CASE UNCHANGED pvars
  BY <1>7 DEF pvars, TypeOK
<1> QED
  BY <1>1, <1>2, <1>3, <1>4, <1>5, <1>6, <1>7 DEF Next
-----------------------------------------------------------------------------
(* what a step leaves alone *)

\* The jobs there are stay, and whom they have reached.
Steady ==
    /\ cast' = cast
    /\ \A j \in DOMAIN jobs :
          /\ j \in DOMAIN jobs'
          /\ jobs'[j].by = jobs[j].by /\ jobs'[j].doc = jobs[j].doc
          /\ jobs'[j].kind = jobs[j].kind /\ jobs'[j].users = jobs[j].users
          /\ settled[j] \subseteq settled'[j]

\* A call that has saved its row only adds its job, or fails to.
Passed(s) ==
    /\ task'[s].seen = task[s].seen
    /\ \/ task'[s].pc = task[s].pc
       \/ task[s].pc = "queue" /\ task'[s].pc = "failed"
       \/ /\ task[s].pc = "queue" /\ task'[s].pc = "done"
          /\ \E j \in DOMAIN jobs' : jobs'[j].by = s /\ jobs'[j].state = "pending"

\* What a request asks does not change.
LEMMA SameCall ==
    ASSUME cast' = cast, NEW t \in Requests
    PROVE  CallOf(t)' = CallOf(t)
  BY DEF CallOf

\* A call that does not move is at its step still.
LEMMA LabelKept ==
    ASSUME Steady, NEW t \in Tasks, Labelled(t), task'[t] = task[t]
    PROVE  Labelled(t)'
<1>1. t \in Requests => CallOf(t)' = CallOf(t)
  BY SameCall DEF Steady
<1> QED
  BY <1>1 DEF Labelled, Steady, Schedules

\* A row is accounted for as long as its setter and the jobs of its setter are.
LEMMA RowKept ==
    ASSUME Steady, JobsInv', NEW d \in Ids, Accounted(d),
           docs'[d].status = docs[d].status, docs'[d].setter = docs[d].setter, docs'[d].late = docs[d].late,
           docs[d].setter \in Requests => Passed(docs[d].setter),
           \A j \in DOMAIN jobs : jobs[j].by = docs[d].setter /\ Coming(j) => Coming(j)'
    PROVE  Accounted(d)'
<1> DEFINE s == docs[d].setter
<1>1. s \in Requests => CallOf(s)' = CallOf(s) /\ cast'.calls = cast.calls /\ DOMAIN cast'.calls = DOMAIN cast.calls
  BY SameCall DEF Steady
<1>2. SetBy(d)'
  BY DEF Accounted, SetBy, Steady, Passed
<1>3. ASSUME docs[d].status = "Sent"
      PROVE  SentBy(d)'
  <2>1. SentBy(d) /\ SetBy(d)
    BY <1>3 DEF Accounted
  <2>2. CASE s \in JobNos /\ jobs[s].users \subseteq settled[s]
    BY <2>1, <2>2 DEF SetBy, SentBy, Steady
  <2>3. CASE s \in Requests /\ CallOf(s).op = "update"
    BY <1>1, <2>3 DEF SentBy
  <2>4. CASE s \in Requests /\ \E j \in DOMAIN jobs : jobs[j].by = s
    <3>1. PICK j \in DOMAIN jobs : jobs[j].by = s
      BY <2>4
    <3>2. j \in DOMAIN jobs' /\ jobs'[j].by = s
      BY <3>1 DEF Steady
    <3>3. Owed(j)'
      BY <3>2 DEF JobsInv, Queued
    <3> QED
      BY <2>4, <3>2, <3>3 DEF SentBy
  <2>5. CASE s \in Requests /\ task[s].pc \in {"queue", "failed"}
    <3>1. CASE task'[s].pc \in {"queue", "failed"}
      BY <2>5, <3>1 DEF SentBy
    <3>2. CASE \E j \in DOMAIN jobs' : jobs'[j].by = s
      <4>1. PICK j \in DOMAIN jobs' : jobs'[j].by = s
        BY <3>2
      <4>2. Owed(j)'
        BY <4>1 DEF JobsInv, Queued
      <4> QED
        BY <2>5, <4>1, <4>2 DEF SentBy
    <3> QED
      BY <2>5, <3>1, <3>2 DEF Passed
  <2> QED
    BY <2>1, <2>2, <2>3, <2>4, <2>5 DEF SentBy
<1>4. ASSUME docs[d].status = "Scheduled", s \in Requests
      PROVE  PlannedBy(d)'
  <2>1. PlannedBy(d) /\ Passed(s)
    BY <1>4 DEF Accounted
  <2>2. CASE docs[d].late
    BY <2>2 DEF PlannedBy
  <2>3. CASE CallOf(s).op = "create" /\ task[s].pc \in {"queue", "failed"}
    <3>1. CASE task'[s].pc \in {"queue", "failed"}
      BY <1>1, <1>4, <2>3, <3>1 DEF PlannedBy
    <3>2. CASE \E j \in DOMAIN jobs' : jobs'[j].by = s /\ jobs'[j].state = "pending"
      BY <3>2 DEF PlannedBy, Coming
    <3> QED
      BY <2>1, <2>3, <3>1, <3>2 DEF Passed
  <2>4. CASE CallOf(s).op = "update" /\ ~Schedules(CallOf(s), task[s].seen)
    <3>1. task'[s].seen = task[s].seen
      BY <2>1 DEF Passed
    <3> QED
      BY <1>1, <1>4, <2>4, <3>1 DEF PlannedBy, Schedules
  <2>5. CASE \E j \in DOMAIN jobs : jobs[j].by = s /\ Coming(j)
    <3>1. PICK j \in DOMAIN jobs : jobs[j].by = s /\ Coming(j)
      BY <2>5
    <3>2. j \in DOMAIN jobs' /\ jobs'[j].by = s /\ Coming(j)'
      BY <3>1 DEF Steady
    <3> QED
      BY <3>2 DEF PlannedBy
  <2> QED
    BY <2>1, <2>2, <2>3, <2>4, <2>5 DEF PlannedBy
<1> QED
  BY <1>2, <1>3, <1>4 DEF Accounted

\* The jobs are as before when none of them moves.
LEMMA JobsKept ==
    ASSUME JobsInv, cast' = cast, jobs' = jobs, settled' = settled, sending' = sending,
           \A j \in DOMAIN jobs : task'[j].pc \in Moving => task[j].pc \in Moving
    PROVE  JobsInv'
<1>1. \A j \in DOMAIN jobs : Queued(j)'
  BY DEF JobsInv, Queued, Owed
<1>2. Tried'
  BY DEF JobsInv, Tried, Running
<1> QED
  BY <1>1, <1>2 DEF JobsInv

\* One call moves on, and has no row that waits for it.
LEMMA CallMoves ==
    ASSUME IInv, TypeOK', NEW t \in Tasks, Labelled(t)',
           UNCHANGED <<cast, jobs, sending, settled>>,
           \A s \in Tasks : s # t => task'[s] = task[s],
           \A d \in Ids : docs'[d] = docs[d] \/ docs'[d] = Nothing,
           t \in Requests => task[t].pc \notin {"queue", "done", "failed"},
           t \in DOMAIN jobs => task[t].pc \in Moving /\ task'[t].pc \in Moving \cup {"failed"}
    PROVE  IInv'
<1>1. Steady
  BY DEF Steady
<1>2. DOMAIN jobs \subseteq Tasks
  BY JobCall DEF IInv
<1>3. JobsInv'
  BY <1>2, JobsKept DEF IInv
<1>4. CallsInv'
  BY <1>1, LabelKept DEF CallsInv, IInv
<1>5. ASSUME NEW d \in Ids, Placed(d)'
      PROVE  Accounted(d)'
  <2>1. docs'[d] = docs[d] /\ Accounted(d)
    BY <1>5 DEF Placed, RowsInv, IInv
  <2>2. docs[d].setter \in Requests => Passed(docs[d].setter)
    BY <2>1 DEF Accounted, SetBy, Passed, Tasks
  <2>3. \A j \in DOMAIN jobs : Coming(j) => Coming(j)'
    BY <1>2 DEF Coming
  <2> QED
    BY <1>1, <1>3, <2>1, <2>2, <2>3, RowKept
<1> QED
  BY <1>3, <1>4, <1>5 DEF IInv, RowsInv

\* A call adds its job, and is done or about to write.
LEMMA JobAdded ==
    ASSUME IInv, TypeOK', NEW t \in DOMAIN cast.calls,
           NEW text \in STRING \cup {Nothing}, NEW people \in SUBSET People, NEW delay \in Int,
           Queue(t, text, people, delay), people # {} => CallOf(t).kind = "email",
           UNCHANGED <<cast, docs, sending, settled>>,
           \A s \in Tasks : s # t => task'[s] = task[s],
           Labelled(t)',
           task[t].pc \notin {"done", "failed"},
           task[t].pc = "queue" => task'[t].pc = "done" /\ task'[t].seen = task[t].seen
    PROVE  IInv'
<1> PICK n \in Int : n = Len(jobs) + 1
  BY DEF IInv, TypeOK
<1>1. /\ n \in JobNos /\ DOMAIN jobs' = DOMAIN jobs \cup {n} /\ n \notin DOMAIN jobs
      /\ \A j \in DOMAIN jobs : jobs'[j] = jobs[j]
      /\ jobs'[n] = Job(t, text, people, delay)
  <2>1. /\ n \in JobNos /\ DOMAIN jobs = 1..Len(jobs) /\ DOMAIN jobs' = 1..(Len(jobs) + 1)
        /\ \A j \in DOMAIN jobs : jobs'[j] = jobs[j]
        /\ jobs'[n] = Job(t, text, people, delay)
    BY QueueType DEF IInv
  <2>2. Len(jobs) \in Nat
    BY DEF IInv, TypeOK
  <2> QED
    BY <2>1, <2>2
<1>2. Steady
  BY <1>1 DEF Steady
<1>3. DOMAIN jobs \subseteq JobNos /\ JobNos \subseteq Tasks /\ t \in Requests /\ t \notin JobNos
  BY <1>1, JobCall, RequestCall, PublishingAssumption DEF IInv, Tasks
<1>4. CallOf(t) = cast.calls[t]
  BY RequestCall DEF IInv
<1>5. Queued(n)'
  <2>1. n \notin DOMAIN cast.calls /\ n # t
    BY <1>1, <1>3, RequestCall, PublishingAssumption DEF IInv
  <2>2. task[n].pc = "idle" /\ task'[n] = task[n]
    BY <1>1, <1>3, <2>1 DEF IInv, CallsInv, Labelled
  <2>3. /\ jobs'[n].by = t /\ jobs'[n].doc = CallOf(t).doc /\ jobs'[n].kind = CallOf(t).kind
        /\ jobs'[n].users = people /\ jobs'[n].state = "pending"
    BY <1>1 DEF Job
  <2>4. Owed(n)'
    BY <2>3 DEF Owed
  <2>5. task'[n].pc \notin Moving
    BY <2>2 DEF Moving
  <2> QED
    BY <1>2, <1>4, <2>3, <2>4, <2>5 DEF Queued, Steady
<1>6. ASSUME NEW j \in DOMAIN jobs
      PROVE  Queued(j)'
  <2>1. jobs'[j] = jobs[j] /\ task'[j] = task[j] /\ Queued(j)
    BY <1>1, <1>3 DEF IInv, JobsInv
  <2> QED
    BY <2>1 DEF Queued, Owed
<1>7. Tried'
  <2>1. jobs'[n].state = "pending"
    BY <1>1 DEF Job
  <2>2. Running("email")' = Running("email")
    BY <1>1, <2>1 DEF Running
  <2>3. \A j \in Running("email") : jobs'[j] = jobs[j]
    BY <1>1 DEF Running
  <2> QED
    BY <2>2, <2>3 DEF IInv, JobsInv, Tried
<1>8. JobsInv'
  BY <1>1, <1>5, <1>6, <1>7 DEF JobsInv
<1>9. CallsInv'
  BY <1>2, LabelKept DEF CallsInv, IInv
<1>10. ASSUME NEW d \in Ids, Placed(d)'
       PROVE  Accounted(d)'
  <2>1. docs'[d] = docs[d] /\ Accounted(d)
    BY <1>10 DEF Placed, RowsInv, IInv
  <2>2. jobs'[n].by = t /\ jobs'[n].state = "pending" /\ n \in DOMAIN jobs'
    BY <1>1 DEF Job
  <2>3. docs[d].setter \in Requests => Passed(docs[d].setter)
    <3>1. docs[d].setter = t => Passed(t)
      BY <2>1, <2>2, <1>3 DEF Accounted, SetBy, Passed
    <3> QED
      BY <3>1 DEF Passed, Tasks
  <2>4. \A j \in DOMAIN jobs : Coming(j) => Coming(j)'
    BY <1>1, <1>3 DEF Coming
  <2> QED
    BY <1>2, <1>8, <2>1, <2>3, <2>4, RowKept
<1> QED
  BY <1>8, <1>9, <1>10 DEF IInv, RowsInv

\* A job of a row moves on to one of the states that leave no one out.
LEMMA JobMoves ==
    ASSUME IInv, TypeOK', NEW j \in DOMAIN jobs, cast' = cast, docs' = docs,
           NEW state \in {"pending", "running", "done", "failed"},
           jobs' = [jobs EXCEPT ![j].state = state],
           task' = task \/ \E pc \in {"find", "failed"} : task' = [task EXCEPT ![j].pc = pc],
           \A i \in DOMAIN jobs : settled[i] \subseteq settled'[i],
           Queued(j)', Tried', Coming(j)'
    PROVE  IInv'
<1>1. /\ DOMAIN jobs' = DOMAIN jobs
      /\ \A i \in DOMAIN jobs : i # j => jobs'[i] = jobs[i]
      /\ \A i \in DOMAIN jobs : /\ jobs'[i].kind = jobs[i].kind /\ jobs'[i].doc = jobs[i].doc
                                /\ jobs'[i].users = jobs[i].users /\ jobs'[i].by = jobs[i].by
  BY StateType DEF IInv
<1>2. Steady
  BY <1>1 DEF Steady
<1>3. j \in JobNos /\ j \notin Requests /\ DOMAIN jobs \subseteq Tasks
  BY JobCall DEF IInv
<1>4. \A s \in Tasks : s # j => task'[s] = task[s]
  BY DEF IInv, TypeOK
<1>5. JobsInv'
  <2>1. \A i \in DOMAIN jobs : i # j => Queued(i)'
    BY <1>1, <1>2, <1>3, <1>4 DEF IInv, JobsInv, Queued, Owed, Steady
  <2> QED
    BY <1>1, <2>1 DEF JobsInv
<1>6. CallsInv'
  <2>1. Labelled(j)'
    <3>1. task'[j].pc = task[j].pc \/ task'[j].pc \in {"find", "failed"}
      BY <1>3 DEF IInv, TypeOK, Work
    <3> QED
      BY <1>1, <1>3, <3>1 DEF IInv, CallsInv, Labelled
  <2> QED
    BY <1>2, <1>4, <2>1, LabelKept DEF CallsInv, IInv
<1>7. ASSUME NEW d \in Ids, Placed(d)'
      PROVE  Accounted(d)'
  <2>1. docs'[d] = docs[d] /\ Accounted(d)
    BY <1>7 DEF Placed, RowsInv, IInv
  <2>2. docs[d].setter \in Requests => Passed(docs[d].setter)
    BY <1>3, <1>4 DEF Passed, Tasks
  <2>3. \A i \in DOMAIN jobs : Coming(i) => Coming(i)'
    BY <1>1, <1>3, <1>4 DEF Coming
  <2> QED
    BY <1>2, <1>5, <2>1, <2>2, <2>3, RowKept
<1> QED
  BY <1>5, <1>6, <1>7 DEF IInv, RowsInv
-----------------------------------------------------------------------------
(* the actions *)

\* The invariant holds at first: the rows are drafts, and nothing is under way.
LEMMA InitInv == Init => IInv
<1> SUFFICES ASSUME Init PROVE IInv
  OBVIOUS
<1>1. TypeOK
  BY InitTypes
<1>2. CallsInv
  BY DEF CallsInv, Labelled, Init, Idle
<1>3. JobsInv
  <2>1. DOMAIN jobs = {}
    BY DEF Init
  <2> QED
    BY <2>1 DEF JobsInv, Tried, Running
<1>4. RowsInv
  <2>1. ASSUME NEW d \in Ids, Placed(d)
        PROVE  Accounted(d)
    <3>1. docs[d].status = "Draft" /\ docs[d].setter \in Drafts
      BY <2>1, PublishingAssumption DEF Init, Placed
    <3>2. docs[d].setter \notin JobNos /\ docs[d].setter \notin Requests
      BY <3>1, PublishingAssumption
    <3> QED
      BY <3>1, <3>2 DEF Accounted, SetBy
  <2> QED
    BY <2>1 DEF RowsInv
<1> QED
  BY <1>1, <1>2, <1>3, <1>4 DEF IInv

\* The steps of a call that only move it on.
LEMMA MoveStep ==
    ASSUME IInv, TypeOK', NEW t \in Tasks,
           Begin(t) \/ UploadNew(t) \/ RecipientsNew(t) \/ FindToRemove(t) \/ Delete(t)
    PROVE  IInv'
<1>1. t \in DOMAIN cast.calls
  <2>1. t \in DOMAIN cast.calls \/ t \in DOMAIN jobs
    BY Under DEF IInv, Begin, UploadNew, RecipientsNew, FindToRemove, Delete, At
  <2>2. t \in DOMAIN jobs => CallOf(t).op = "update" /\ task[t].pc # "delete" /\ task[t].pc # "upload" /\ task[t].pc # "recipients"
    BY JobCall DEF IInv, CallsInv, Labelled
  <2> QED
    BY <2>1, <2>2 DEF Begin, UploadNew, RecipientsNew, FindToRemove, Delete, At
<1>2. t \in Requests /\ t \notin JobNos /\ t \notin DOMAIN jobs /\ CallOf(t) \in Call /\ CallOf(t)' = CallOf(t)
  BY <1>1, RequestCall, JobCall, SameCall, PublishingAssumption
     DEF IInv, Begin, UploadNew, RecipientsNew, FindToRemove, Delete
<1>3. /\ task[t] \in Work /\ task \in [Tasks -> Work]
      /\ Labelled(t)
  BY DEF IInv, TypeOK, CallsInv
<1>4. UNCHANGED <<cast, jobs, sending, settled>>
  BY DEF Begin, UploadNew, RecipientsNew, FindToRemove, Delete
<1>5. \A s \in Tasks : s # t => task'[s] = task[s]
  BY <1>3 DEF Begin, UploadNew, RecipientsNew, FindToRemove, Delete, Goto
<1>6. \A d \in Ids : docs'[d] = docs[d] \/ docs'[d] = Nothing
  BY DEF Begin, UploadNew, RecipientsNew, FindToRemove, Delete, IInv, TypeOK
<1>7. task[t].pc \notin {"queue", "done", "failed"}
  BY DEF Begin, UploadNew, RecipientsNew, FindToRemove, Delete, At
<1>8. Labelled(t)'
  <2>1. CASE Begin(t)
    <3> DEFINE c == CallOf(t)
               pc == CASE c.op = "remove" /\ c.kind = "email" -> "delete"
                       [] c.op = "remove" /\ c.kind # "email" -> "find"
                       [] c.op = "update" -> "find"
                       [] c.op = "create" /\ c.kind = "email" -> IF c.date = Nothing THEN "failed" ELSE "recipients"
                       [] c.op = "create" /\ c.kind # "email" -> IF c.file THEN "upload" ELSE "save"
    <3>3. c.op \in {"create", "update", "remove"} /\ c.file \in BOOLEAN
      BY <1>2 DEF Call
    <3>4. /\ pc \in {"delete", "find", "failed", "recipients", "upload", "save"}
          /\ pc = "recipients" => CallOf(t).kind = "email"
          /\ pc \in {"recipients", "upload", "save"} => CallOf(t).op = "create"
      BY <3>3
    <3>1. task' = [task EXCEPT ![t] = [@ EXCEPT !.pc = pc, !.delay = Delay(CallOf(t))]]
      BY <2>1 DEF Begin
    <3> HIDE DEF pc
    <3>2. task'[t].pc = pc /\ task'[t].users = task[t].users
      BY <1>3, <3>1 DEF Work
    <3> QED
      BY <1>1, <1>2, <1>3, <1>4, <3>4, <3>2 DEF Labelled
  <2>2. CASE UploadNew(t)
    <3>1. task'[t].pc = "save" /\ task'[t].users = task[t].users
      BY <1>3, <2>2 DEF UploadNew, Work
    <3> QED
      BY <1>1, <1>2, <1>3, <1>4, <2>2, <3>1 DEF Labelled, UploadNew
  <2>3. CASE RecipientsNew(t)
    <3>1. task'[t].pc = "save" /\ CallOf(t).kind = "email"
      BY <1>2, <1>3, <2>3 DEF RecipientsNew, Work, Labelled, At
    <3> QED
      BY <1>1, <1>2, <1>3, <1>4, <2>3, <3>1 DEF Labelled, RecipientsNew
  <2>4. CASE FindToRemove(t) \/ Delete(t)
    <3>1. task'[t].pc \in {"delete", "failed", "done"} /\ task'[t].users = task[t].users
      BY <1>3, <2>4 DEF FindToRemove, Delete, Goto, Work
    <3> QED
      BY <1>1, <1>2, <1>3, <1>4, <3>1 DEF Labelled
  <2> QED
    BY <2>1, <2>2, <2>3, <2>4
<1> QED
  BY <1>2, <1>4, <1>5, <1>6, <1>7, <1>8, CallMoves

\* The row is saved, and waits for its job if it is to.
LEMMA SaveStep ==
    ASSUME IInv, TypeOK', NEW t \in Tasks, Save(t)
    PROVE  IInv'
<1>1. t \in DOMAIN cast.calls /\ task[t].pc = "save"
  BY UnderCall DEF IInv, Save, At
<1>2. /\ t \in Requests /\ t \notin JobNos /\ t \notin Drafts /\ t \in Ids
      /\ CallOf(t) = cast.calls[t] /\ CallOf(t) \in Call /\ Sound(CallOf(t))
      /\ CallOf(t).op = "create" /\ CallOf(t).doc = t
  BY <1>1, RequestCall, PublishingAssumption DEF IInv, CallsInv, Labelled
<1>3. /\ UNCHANGED <<cast, jobs, sending, settled>> /\ CallOf(t)' = CallOf(t)
      /\ task[t] \in Work /\ task \in [Tasks -> Work] /\ docs \in [Ids -> Row \cup {Nothing}]
  BY <1>2, SameCall DEF IInv, TypeOK, Save
<1>4. \A s \in Tasks : s # t => task'[s] = task[s]
  BY <1>3 DEF Save, Goto
<1>5. task'[t].pc \in {"failed", "queue", "done"} /\ task'[t].users = task[t].users
  BY <1>3 DEF Save, Goto, Work
<1>6. Steady
  BY <1>3 DEF Steady
<1>7. DOMAIN jobs \subseteq Tasks /\ t \notin DOMAIN jobs
  BY <1>2, JobCall DEF IInv
<1>8. JobsInv'
  BY <1>3, <1>4, <1>7, JobsKept DEF IInv
<1>9. CallsInv'
  <2>1. Labelled(t)'
    BY <1>1, <1>2, <1>3, <1>5 DEF IInv, CallsInv, Labelled
  <2> QED
    BY <1>4, <1>6, <2>1, LabelKept DEF CallsInv, IInv
<1>10. ASSUME NEW d \in Ids, Placed(d)'
       PROVE  Accounted(d)'
  <2>1. CASE docs'[d] = docs[d]
    <3>1. Accounted(d)
      BY <1>10, <2>1 DEF Placed, RowsInv, IInv
    <3>2. docs[d].setter \in Requests => Passed(docs[d].setter)
      <4>1. docs[d].setter # t
        BY <1>1, <1>2, <3>1 DEF Accounted, SetBy
      <4> QED
        BY <1>4, <4>1 DEF Passed, Tasks
    <3>3. \A j \in DOMAIN jobs : Coming(j) => Coming(j)'
      BY <1>3, <1>4, <1>7 DEF Coming
    <3> QED
      BY <1>6, <1>8, <2>1, <3>1, <3>2, <3>3, RowKept
  <2>2. CASE docs'[d] # docs[d]
    <3>1. /\ d = t
          /\ docs'[t].status = CallOf(t).status /\ docs'[t].setter = t
          /\ task' = [task EXCEPT ![t].pc = IF Waits(CallOf(t)) THEN "queue" ELSE "done"]
      <4>1. ~(CallOf(t).kind = "post" /\ CallOf(t).status = "Scheduled" /\ CallOf(t).date = Nothing)
        BY <2>2 DEF Save
      <4> QED
        BY <1>2, <1>3, <2>2, <4>1 DEF Save, Goto
    <3>2. task'[t].pc = IF Waits(CallOf(t)) THEN "queue" ELSE "done"
      BY <1>3, <3>1 DEF Work
    <3>3. CallOf(t).status \in {"Sent", "Scheduled"} => task'[t].pc = "queue"
      BY <1>2, <3>2 DEF Waits, Sound, Call
    <3>4. SetBy(d)'
      BY <1>1, <1>2, <1>3, <1>5, <3>1 DEF SetBy
    <3>5. docs'[d].status = "Sent" => SentBy(d)'
      BY <1>2, <3>1, <3>3 DEF SentBy
    <3>6. docs'[d].status = "Scheduled" => PlannedBy(d)'
      BY <1>2, <1>3, <3>1, <3>3 DEF PlannedBy
    <3> QED
      BY <3>4, <3>5, <3>6 DEF Accounted
  <2> QED
    BY <2>1, <2>2
<1> QED
  BY <1>8, <1>9, <1>10 DEF IInv, RowsInv

\* A create adds its job after its row.
LEMMA QueueNewStep ==
    ASSUME IInv, TypeOK', NEW t \in Tasks, QueueNew(t)
    PROVE  IInv'
<1>1. t \in DOMAIN cast.calls /\ task[t].pc = "queue"
  BY UnderCall DEF IInv, QueueNew, At
<1>2. /\ t \in Requests /\ t \notin JobNos /\ CallOf(t)' = CallOf(t)
      /\ CallOf(t).text \in STRING \cup {Nothing}
  BY <1>1, RequestCall, CallTypes, SameCall, PublishingAssumption DEF IInv, QueueNew
<1>3. task[t] \in Work /\ task \in [Tasks -> Work] /\ Labelled(t)
  BY DEF IInv, TypeOK, CallsInv
<1>4. task[t].users \in SUBSET People /\ task[t].delay \in Int /\ Len(jobs) + 1 \in Nat
  BY <1>3 DEF Work, IInv, TypeOK
<1>5. /\ task'[t].pc = "done" /\ task'[t].seen = task[t].seen /\ task'[t].users = task[t].users
      /\ \A s \in Tasks : s # t => task'[s] = task[s]
  BY <1>3 DEF QueueNew, Work
<1>6. task[t].users # {} => CallOf(t).kind = "email"
  BY <1>2, <1>3 DEF Labelled
<1>7. Labelled(t)'
  BY <1>1, <1>2, <1>5, <1>6 DEF Labelled, QueueNew
<1>8. Queue(t, CallOf(t).text, task[t].users, task[t].delay) /\ UNCHANGED <<cast, docs, sending, settled>>
  BY DEF QueueNew
<1> QED
  BY <1>1, <1>2, <1>4, <1>5, <1>6, <1>7, <1>8, JobAdded

\* What update decides, from the row it has read.
LEMMA DecideStep ==
    ASSUME IInv, TypeOK', NEW t \in Tasks, t \in DOMAIN cast.calls \/ t \in DOMAIN jobs,
           NEW seen \in Row, Decide(t, seen), CallOf(t).op = "update",
           task[t].pc \in {"find", "upload"},
           UNCHANGED <<cast, docs, sending, settled>>
    PROVE  IInv'
<1> DEFINE c == CallOf(t)
<1>1. task[t] \in Work /\ task \in [Tasks -> Work] /\ Labelled(t)
  BY DEF IInv, TypeOK, CallsInv
<1>2. t \in Requests => CallOf(t)' = CallOf(t)
  BY SameCall
<1>3. Nothing \notin Row
  BY PublishingAssumption
<1>4. CASE ~Schedules(c, seen)
  <2>1. /\ task' = [task EXCEPT ![t] = [task[t] EXCEPT !.seen = seen, !.pc = "write"]] /\ jobs' = jobs
    BY <1>4 DEF Decide
  <2>2. /\ task'[t].pc = "write" /\ task'[t].seen = seen /\ task'[t].users = task[t].users
        /\ \A s \in Tasks : s # t => task'[s] = task[s]
    BY <1>1, <2>1 DEF Work
  <2>3. Labelled(t)'
    BY <1>1, <1>2, <1>4, <2>1, <2>2 DEF Labelled, Schedules
  <2> QED
    BY <2>1, <2>2, <2>3, CallMoves DEF Moving
<1>5. CASE Schedules(c, seen) /\ (c.date = Nothing \/ c.date <= now)
  <2>1. /\ task' = [task EXCEPT ![t].pc = "failed"] /\ jobs' = jobs
    BY <1>5 DEF Decide, Goto
  <2>2. /\ task'[t].pc = "failed" /\ task'[t].users = task[t].users
        /\ \A s \in Tasks : s # t => task'[s] = task[s]
    BY <1>1, <2>1 DEF Work
  <2>3. Labelled(t)'
    BY <1>1, <1>2, <2>1, <2>2 DEF Labelled
  <2> QED
    BY <2>1, <2>2, <2>3, CallMoves DEF Moving
<1>6. CASE Schedules(c, seen) /\ ~(c.date = Nothing \/ c.date <= now)
  <2>1. t \in DOMAIN cast.calls /\ t \in Requests /\ t \notin JobNos
    <3>1. t \in DOMAIN cast.calls
      BY <1>6, JobCall DEF Schedules, IInv
    <3> QED
      BY <3>1, RequestCall, PublishingAssumption DEF IInv
  <2>2. c.date - now \in Int
    BY <1>6, CallTypes, PublishingAssumption DEF Dates, TypeOK, IInv
  <2>3. CASE c.kind = "email"
    <3>1. /\ task' = [task EXCEPT ![t] = [task[t] EXCEPT !.seen = seen, !.pc = "recipients", !.delay = c.date - now]]
          /\ jobs' = jobs
      BY <1>6, <2>3 DEF Decide
    <3>2. /\ task'[t].pc = "recipients" /\ task'[t].seen = seen /\ task'[t].users = task[t].users
          /\ \A s \in Tasks : s # t => task'[s] = task[s]
      BY <1>1, <3>1 DEF Work
    <3>3. Labelled(t)'
      BY <1>2, <1>3, <2>1, <2>3, <3>1, <3>2 DEF Labelled
    <3>4. t \notin DOMAIN jobs
      BY <2>1, JobCall DEF IInv
    <3> QED
      BY <2>1, <3>1, <3>2, <3>3, <3>4, CallMoves
  <2>4. CASE c.kind # "email"
    <3>1. /\ Queue(t, Nothing, {}, c.date - now)
          /\ task' = [task EXCEPT ![t] = [task[t] EXCEPT !.seen = seen, !.pc = "write", !.job = Len(jobs) + 1]]
      BY <1>6, <2>4 DEF Decide
    <3>2. /\ task'[t].pc = "write" /\ task'[t].seen = seen /\ task'[t].users = task[t].users
          /\ task'[t].job = Len(jobs) + 1
          /\ \A s \in Tasks : s # t => task'[s] = task[s]
      BY <1>1, <3>1 DEF Work
    <3>3. jobs'[Len(jobs) + 1] = Job(t, Nothing, {}, c.date - now) /\ Len(jobs) + 1 \in DOMAIN jobs'
      <4>1. Nothing \in STRING \cup {Nothing} /\ {} \in SUBSET People
        OBVIOUS
      <4> QED
        BY <2>1, <2>2, <3>1, <4>1, QueueType DEF IInv
    <3>4. jobs'[Len(jobs) + 1].by = t
      BY <3>3 DEF Job
    <3>5. Labelled(t)'
      BY <1>1, <1>2, <2>1, <3>2, <3>3, <3>4 DEF Labelled
    <3> QED
      BY <2>1, <2>2, <3>1, <3>2, <3>5, JobAdded
  <2> QED
    BY <2>3, <2>4
<1> QED
  BY <1>4, <1>5, <1>6

\* The row is read, the file goes up, the addresses are read.
LEMMA UpdateStep ==
    ASSUME IInv, TypeOK', NEW t \in Tasks, Find(t) \/ Upload(t) \/ RecipientsOld(t)
    PROVE  IInv'
<1>1. t \in DOMAIN cast.calls \/ t \in DOMAIN jobs
  BY Under DEF Find, Upload, RecipientsOld, At, IInv
<1>2. task[t] \in Work /\ task \in [Tasks -> Work] /\ Labelled(t)
  BY DEF IInv, TypeOK, CallsInv
<1>3. t \in Requests => CallOf(t)' = CallOf(t)
  BY SameCall DEF Find, Upload, RecipientsOld
<1>4. CASE Find(t)
  <2> DEFINE row == docs[CallOf(t).doc]
  <2>1. row \in Row
    BY <1>1, <1>4, CallTypes DEF Find, IInv, TypeOK
  <2>2. /\ CallOf(t).op = "update" /\ task[t].pc = "find"
        /\ UNCHANGED <<cast, docs, sending, settled>>
    BY <1>4 DEF Find, At
  <2>3. CASE Decide(t, row)
    BY <1>1, <2>1, <2>2, <2>3, DecideStep
  <2>4. CASE Goto(t, "failed") /\ UNCHANGED jobs
    <3>1. /\ task'[t].pc = "failed" /\ task'[t].users = task[t].users
          /\ \A s \in Tasks : s # t => task'[s] = task[s]
      BY <1>2, <2>4 DEF Goto, Work
    <3>2. Labelled(t)'
      BY <1>2, <1>3, <2>2, <2>4, <3>1 DEF Labelled
    <3> QED
      BY <2>2, <2>4, <3>1, <3>2, CallMoves DEF Moving
  <2>5. CASE CallOf(t).file /\ jobs' = jobs /\ task' = [task EXCEPT ![t] = [@ EXCEPT !.pc = "upload", !.seen = row]]
    <3>1. t \notin DOMAIN jobs /\ t \in DOMAIN cast.calls /\ t \in Requests /\ t \notin JobNos
      <4>1. t \notin DOMAIN jobs /\ t \in DOMAIN cast.calls
        BY <1>1, <2>5, JobCall DEF IInv
      <4> QED
        BY <4>1, RequestCall, PublishingAssumption DEF IInv
    <3>2. /\ task'[t].pc = "upload" /\ task'[t].users = task[t].users /\ task'[t].seen = row
          /\ \A s \in Tasks : s # t => task'[s] = task[s]
      BY <1>2, <2>5 DEF Work
    <3>3. Labelled(t)'
      BY <1>2, <1>3, <2>1, <2>2, <2>5, <3>1, <3>2, PublishingAssumption DEF Labelled
    <3> QED
      BY <2>2, <2>5, <3>1, <3>2, <3>3, CallMoves
  <2> QED
    BY <1>4, <2>3, <2>4, <2>5 DEF Find
<1>5. (t \in DOMAIN cast.calls /\ t \in Requests /\ t \notin JobNos) \/ Find(t)
  BY UnderCall, RequestCall, PublishingAssumption DEF Upload, RecipientsOld, At, IInv
<1>6. CASE Upload(t)
  <2>1. CallOf(t).op = "update" /\ task[t].pc = "upload" /\ UNCHANGED <<cast, docs, sending, settled>>
    BY <1>6 DEF Upload, At
  <2>2. task[t].seen \in Row
    BY <1>2, <1>5, <2>1 DEF Labelled, Work, Find, At
  <2> QED
    BY <1>1, <1>6, <2>1, <2>2, DecideStep DEF Upload
<1>7. CASE RecipientsOld(t)
  <2> DEFINE text == Wording(CallOf(t), task[t].seen)
             people == Recipients(CallOf(t).to)
  <2>1. /\ CallOf(t).op = "update" /\ task[t].pc = "recipients" /\ UNCHANGED <<cast, docs, sending, settled>>
        /\ Queue(t, text, people, task[t].delay)
        /\ task' = [task EXCEPT ![t] = [@ EXCEPT !.pc = "write", !.job = Len(jobs) + 1]]
    BY <1>7 DEF RecipientsOld, At
  <2>2. t \in DOMAIN cast.calls /\ t \in Requests /\ t \notin JobNos
    BY <1>5, <2>1 DEF Find, At
  <2>3. task[t].seen \in Row /\ CallOf(t).kind = "email"
    BY <1>2, <2>1, <2>2 DEF Labelled, Work
  <2>4. text \in STRING \cup {Nothing} /\ people \in SUBSET People /\ task[t].delay \in Int
    BY <1>1, <1>2, <2>3, CallTypes, RecipientsType DEF Wording, Row, Work, IInv
  <2>5. /\ task'[t].pc = "write" /\ task'[t].users = task[t].users /\ task'[t].job = Len(jobs) + 1
        /\ \A s \in Tasks : s # t => task'[s] = task[s]
    BY <1>2, <2>1 DEF Work
  <2> HIDE DEF text, people
  <2>6. jobs'[Len(jobs) + 1] = Job(t, text, people, task[t].delay) /\ Len(jobs) + 1 \in DOMAIN jobs'
    BY <2>1, <2>2, <2>4, QueueType DEF IInv
  <2>7. jobs'[Len(jobs) + 1].by = t
    BY <2>6 DEF Job
  <2>8. Labelled(t)'
    BY <1>2, <1>3, <2>1, <2>2, <2>3, <2>5, <2>6, <2>7 DEF Labelled
  <2> QED
    BY <2>1, <2>2, <2>3, <2>4, <2>5, <2>8, JobAdded
<1> QED
  BY <1>4, <1>6, <1>7

\* The row takes the columns that are given; the job of an update is done.
LEMMA WriteStep ==
    ASSUME IInv, TypeOK', NEW t \in Tasks, Write(t)
    PROVE  IInv'
<1> DEFINE c == CallOf(t)
           w == c.doc
<1>1. t \in DOMAIN cast.calls \/ t \in DOMAIN jobs
  BY Under DEF Write, At, IInv
<1>2. /\ task[t] \in Work /\ task \in [Tasks -> Work] /\ Labelled(t)
      /\ docs \in [Ids -> Row \cup {Nothing}]
  BY DEF IInv, TypeOK, CallsInv
<1>3. task[t].pc = "write" /\ UNCHANGED <<cast, sending, settled>>
  BY DEF Write, At
<1>4. /\ task'[t].pc = "done" /\ task'[t].seen = task[t].seen /\ task'[t].users = task[t].users
      /\ \A s \in Tasks : s # t => task'[s] = task[s]
  BY <1>2 DEF Write, Goto, Work
<1>5. DOMAIN jobs \subseteq JobNos /\ JobNos \subseteq Tasks /\ JobNos \cap Requests = {}
  <2>1. DOMAIN jobs \subseteq JobNos
    BY JobCall DEF IInv
  <2> QED
    BY <2>1, PublishingAssumption DEF Tasks
<1>6. /\ DOMAIN jobs' = DOMAIN jobs
      /\ \A j \in DOMAIN jobs : j # t => jobs'[j] = jobs[j]
      /\ t \in Requests => jobs' = jobs
      /\ t \notin Requests => jobs'[t].state = "done"
      /\ \A j \in DOMAIN jobs : /\ jobs'[j].kind = jobs[j].kind /\ jobs'[j].doc = jobs[j].doc
                                /\ jobs'[j].users = jobs[j].users /\ jobs'[j].by = jobs[j].by
  <2>1. CASE t \in Requests
    BY <2>1 DEF Write
  <2>2. CASE t \notin Requests
    <3>1. t \in DOMAIN jobs /\ jobs' = [jobs EXCEPT ![t].state = "done"]
      BY <1>1, <2>2, RequestCall DEF Write, IInv
    <3> QED
      BY <2>2, <3>1, StateType DEF IInv
  <2> QED
    BY <2>1, <2>2
<1>7. Steady
  BY <1>3, <1>6 DEF Steady
<1>8. ASSUME t \notin Requests
      PROVE  /\ t \in DOMAIN jobs /\ jobs[t].users \subseteq settled[t]
             /\ jobs[t].kind = "email" => jobs[t].state = "done"
  <2>1. t \in DOMAIN jobs
    BY <1>1, <1>8, RequestCall DEF IInv
  <2>2. Queued(t)
    BY <2>1 DEF IInv, JobsInv
  <2> QED
    BY <1>3, <2>1, <2>2 DEF Queued, Owed, Moving
<1>9. JobsInv'
  <2>1. ASSUME NEW j \in DOMAIN jobs
        PROVE  Queued(j)'
    <3>1. Queued(j)
      BY DEF IInv, JobsInv
    <3>2. CASE j = t
      <4>1. t \notin Requests
        BY <1>5, <3>2
      <4> QED
        BY <1>3, <1>4, <1>6, <1>8, <3>1, <3>2, <4>1 DEF Queued, Owed
    <3>3. CASE j # t
      BY <1>3, <1>4, <1>5, <1>6, <3>1, <3>3 DEF Queued, Owed
    <3> QED
      BY <3>2, <3>3
  <2>2. Tried'
    <3>1. \A j \in Running("email")' : j \in Running("email") /\ jobs'[j].users = jobs[j].users
      <4>1. \A j \in DOMAIN jobs : jobs'[j].state = "running" => jobs'[j] = jobs[j]
        BY <1>6
      <4> QED
        BY <1>6, <4>1 DEF Running
    <3> QED
      BY <1>3, <3>1 DEF IInv, JobsInv, Tried
  <2> QED
    BY <1>6, <2>1, <2>2 DEF JobsInv
<1>10. CallsInv'
  <2>1. Labelled(t)'
    BY <1>1, <1>3, <1>4, <1>6, <1>2, SameCall DEF Labelled
  <2> QED
    BY <1>4, <1>7, <2>1, LabelKept DEF CallsInv, IInv
<1>11. ASSUME NEW d \in Ids, Placed(d)'
       PROVE  Accounted(d)'
  <2>1. docs[d] # Nothing /\ docs[d] \in Row /\ Accounted(d)
    BY <1>2, <1>11 DEF Placed, RowsInv, IInv, Write
  <2>2. docs[d].setter \in Requests => Passed(docs[d].setter)
    <3>1. docs[d].setter # t \/ t \notin Requests
      BY <1>3, <2>1 DEF Accounted, SetBy
    <3> QED
      BY <1>4, <3>1 DEF Passed, Tasks
  <2>3. ASSUME NEW j \in DOMAIN jobs, Coming(j), j # t
        PROVE  Coming(j)'
    BY <1>4, <1>5, <1>6, <2>3 DEF Coming
  <2>4. docs'[d] = docs[d] \/ (d = w /\ docs'[d] = Written(t, docs[d]))
    BY <1>2 DEF Write
  <2>5. CASE docs'[d] = docs[d] /\ d # w
    <3>1. \A j \in DOMAIN jobs : jobs[j].by = docs[d].setter => j # t
      <4>1. SUFFICES ASSUME t \in DOMAIN jobs, jobs[t].by = docs[d].setter PROVE d = w
        BY <2>5
      <4>2. c.doc = jobs[t].doc
        BY <4>1, JobCall DEF IInv
      <4>3. docs[d].setter \in DOMAIN cast.calls /\ jobs[t].doc = cast.calls[docs[d].setter].doc
        BY <4>1 DEF IInv, JobsInv, Queued
      <4>4. docs[d].setter \in Requests
        BY <4>3, RequestCall DEF IInv
      <4> QED
        BY <2>1, <4>2, <4>3, <4>4 DEF Accounted, SetBy
    <3> QED
      BY <1>7, <1>9, <2>1, <2>2, <2>3, <2>5, <3>1, RowKept
  <2>6. CASE d = w /\ docs'[d] = Written(t, docs[d])
    <3>1. /\ docs'[d].status = Given(c.status, docs[d].status)
          /\ docs'[d].setter = IF c.status = Nothing THEN docs[d].setter ELSE t
          /\ docs'[d].late = IF c.status = Nothing THEN docs[d].late
                             ELSE task[t].job # 0 /\ jobs[task[t].job].state # "pending"
      BY <2>1, <2>6 DEF Written, Row
    <3>2. CASE c.status = Nothing
      <4>1. t \notin DOMAIN jobs
        <5>1. Nothing \notin {"Sent", "Published"}
          BY PublishingAssumption DEF Status
        <5> QED
          BY <3>2, <5>1, JobCall DEF IInv
      <4>2. \A j \in DOMAIN jobs : Coming(j) => Coming(j)'
        BY <2>3, <4>1
      <4>3. docs'[d].status = docs[d].status /\ docs'[d].setter = docs[d].setter /\ docs'[d].late = docs[d].late
        BY <3>1, <3>2 DEF Given
      <4> QED
        BY <1>7, <1>9, <2>1, <2>2, <4>2, <4>3, RowKept
    <3>3. CASE c.status # Nothing /\ t \in Requests
      <4>1. docs'[d].status = c.status /\ docs'[d].setter = t
        BY <3>1, <3>3 DEF Given
      <4>2. c.op = "update" /\ CallOf(t)' = c /\ t \in DOMAIN cast.calls /\ c.doc = cast.calls[t].doc
        BY <1>1, <1>2, <1>3, <1>5, <3>3, SameCall, RequestCall DEF Labelled, IInv
      <4>3. t \notin Drafts /\ t \notin JobNos
        BY <1>5, <3>3, PublishingAssumption
      <4>4. SetBy(d)' /\ SentBy(d)'
        BY <1>3, <1>4, <2>6, <3>3, <4>1, <4>2, <4>3 DEF SetBy, SentBy
      <4>5. ASSUME docs'[d].status = "Scheduled"
            PROVE  PlannedBy(d)'
        <5>1. CASE ~Schedules(c, task[t].seen)
          BY <1>4, <4>1, <4>2, <5>1 DEF PlannedBy, Schedules
        <5>2. CASE Schedules(c, task[t].seen)
          <6>1. task[t].job \in DOMAIN jobs /\ jobs[task[t].job].by = t
            BY <1>2, <1>3, <3>3, <5>2 DEF Labelled
          <6>2. CASE jobs[task[t].job].state = "pending"
            BY <1>6, <3>3, <4>1, <6>1, <6>2 DEF PlannedBy, Coming
          <6>3. CASE jobs[task[t].job].state # "pending"
            <7>1. task[t].job # 0
              BY <1>5, <6>1 DEF JobNos
            <7> QED
              BY <3>1, <3>3, <6>3, <7>1 DEF PlannedBy
          <6> QED
            BY <6>2, <6>3
        <5> QED
          BY <5>1, <5>2
      <4> QED
        BY <4>4, <4>5 DEF Accounted
    <3>4. CASE c.status # Nothing /\ t \notin Requests
      <4>1. docs'[d].status = c.status /\ docs'[d].setter = t /\ c.status \in {"Sent", "Published"}
        BY <1>8, <3>1, <3>4, JobCall DEF Given, IInv
      <4>2. t \in JobNos /\ t \in DOMAIN jobs' /\ t \notin Drafts
        BY <1>5, <1>6, <1>8, <3>4, PublishingAssumption
      <4>3. SetBy(d)' /\ SentBy(d)'
        BY <1>3, <1>6, <1>8, <3>4, <4>1, <4>2 DEF SetBy, SentBy
      <4> QED
        BY <3>4, <4>1, <4>3 DEF Accounted
    <3> QED
      BY <3>2, <3>3, <3>4
  <2>7. CASE docs'[d] = docs[d] /\ d = w
    <3>1. docs'[d] = Written(t, docs[d])
      BY <1>2, <2>1, <2>7 DEF Write
    <3> QED
      BY <2>6, <2>7, <3>1
  <2> QED
    BY <2>4, <2>5, <2>6, <2>7
<1> QED
  BY <1>9, <1>10, <1>11 DEF IInv, RowsInv

\* A worker takes a job.
LEMMA TakeStep ==
    ASSUME IInv, TypeOK', NEW j \in JobNos, TakeJob(j)
    PROVE  IInv'
<1>1. /\ j \in DOMAIN jobs /\ jobs[j].state = "pending" /\ Running(jobs[j].kind) = {}
      /\ jobs' = [jobs EXCEPT ![j].state = "running"]
      /\ UNCHANGED <<cast, docs, settled>>
  BY DEF TakeJob
<1>2. /\ j \in Tasks /\ jobs[j] \in JobRow /\ task[j] \in Work /\ sending \in Round
      /\ task \in [Tasks -> Work]
  BY <1>1, JobCall DEF IInv, TypeOK
<1>3. /\ DOMAIN jobs' = DOMAIN jobs
      /\ \A i \in DOMAIN jobs : i # j => jobs'[i] = jobs[i]
      /\ jobs'[j].state = "running"
      /\ \A i \in DOMAIN jobs : /\ jobs'[i].kind = jobs[i].kind /\ jobs'[i].doc = jobs[i].doc
                                /\ jobs'[i].users = jobs[i].users /\ jobs'[i].by = jobs[i].by
  BY <1>1, StateType DEF IInv
<1>4. Queued(j)
  BY <1>1 DEF IInv, JobsInv
<1>5. CASE jobs[j].kind = "email"
  <2>1. sending' = [Quiet EXCEPT !.todo = jobs[j].users] /\ task' = task
    BY <1>5 DEF TakeJob
  <2>2. Queued(j)'
    BY <1>1, <1>3, <1>4, <1>5, <2>1 DEF Queued, Owed
  <2>3. Tried'
    <3>1. \A i \in Running("email")' : i = j
      BY <1>1, <1>3, <1>5 DEF Running
    <3>2. sending'.todo = jobs[j].users
      BY <2>1 DEF Quiet
    <3> QED
      BY <1>1, <1>3, <3>1, <3>2 DEF Tried, Running
  <2>4. Coming(j)'
    BY <1>3 DEF Coming
  <2> QED
    BY <1>1, <2>1, <2>2, <2>3, <2>4, JobMoves
<1>6. CASE jobs[j].kind # "email"
  <2>1. task' = [task EXCEPT ![j].pc = "find"] /\ sending' = sending
    BY <1>6 DEF TakeJob, Goto
  <2>2. Queued(j)'
    BY <1>1, <1>3, <1>4, <1>6 DEF Queued, Owed
  <2>3. Tried'
    <3>1. \A i \in Running("email")' : i \in Running("email") /\ jobs'[i] = jobs[i]
      BY <1>3, <1>6 DEF Running
    <3> QED
      BY <1>1, <2>1, <3>1 DEF IInv, JobsInv, Tried
  <2>4. Coming(j)'
    BY <1>3 DEF Coming
  <2> QED
    BY <1>1, <2>1, <2>2, <2>3, <2>4, JobMoves
<1> QED
  BY <1>5, <1>6

\* The mails leave rows and calls alone; no one is dropped untried.
LEMMA MailMoves ==
    ASSUME IInv, TypeOK', UNCHANGED <<cast, docs, jobs, task>>,
           \A j \in DOMAIN jobs : settled[j] \subseteq settled'[j],
           NEW j \in Running("email"),
           settled[j] \cup sending.batch \cup sending.todo
             \subseteq settled'[j] \cup sending'.batch \cup sending'.todo
    PROVE  IInv'
<1>1. Steady
  BY DEF Steady
<1>2. JobsInv'
  <2>1. \A i \in DOMAIN jobs : Queued(i)'
    BY DEF IInv, JobsInv, Queued, Owed
  <2>2. Tried'
    <3>1. Running("email")' = Running("email")
      BY DEF Running
    <3> QED
      BY <3>1 DEF IInv, JobsInv, Tried
  <2> QED
    BY <2>1, <2>2 DEF JobsInv
<1>3. CallsInv'
  BY <1>1, LabelKept DEF IInv, CallsInv
<1>4. ASSUME NEW d \in Ids, Placed(d)'
      PROVE  Accounted(d)'
  <2>1. Accounted(d)
    BY <1>4 DEF IInv, RowsInv, Placed
  <2>2. \A s \in Requests : Passed(s)
    BY DEF Passed
  <2>3. \A i \in DOMAIN jobs : Coming(i) => Coming(i)'
    BY DEF Coming
  <2> QED
    BY <1>1, <1>2, <2>1, <2>2, <2>3, RowKept
<1> QED
  BY <1>2, <1>3, <1>4 DEF IInv, RowsInv

\* A batch is taken, and a mail of it succeeds, fails or is given up.
LEMMA MailsStep ==
    ASSUME IInv, TypeOK', NEW j \in JobNos, NextBatch(j) \/ (\E p \in People : Mail(j, p))
    PROVE  IInv'
<1>1. /\ sending \in Round /\ settled \in [JobNos -> SUBSET People]
      /\ DOMAIN jobs \subseteq JobNos
  BY JobCall DEF IInv, TypeOK
<1>2. CASE NextBatch(j)
  <2>1. PICK batch \in SUBSET sending.todo : sending' = [sending EXCEPT !.batch = batch, !.todo = sending.todo \ batch]
    BY <1>2 DEF NextBatch
  <2>2. sending'.batch = batch /\ sending'.todo = sending.todo \ batch /\ sending.batch = {}
    BY <1>1, <1>2, <2>1 DEF Round, NextBatch
  <2>3. /\ UNCHANGED <<cast, docs, jobs, task>> /\ settled' = settled /\ j \in Running("email")
    BY <1>2 DEF NextBatch
  <2> QED
    BY <2>1, <2>2, <2>3, MailMoves
<1>3. ASSUME NEW p \in People, Mail(j, p)
      PROVE  IInv'
  <2>1. UNCHANGED <<cast, docs, jobs, task>> /\ j \in Running("email")
    BY <1>3 DEF Mail
  <2>2. CASE /\ sending' = [sending EXCEPT !.batch = @ \ {p}]
             /\ settled' = [settled EXCEPT ![j] = @ \cup {p}]
    <3>1. sending'.batch = sending.batch \ {p} /\ sending'.todo = sending.todo
      BY <1>1, <2>2 DEF Round
    <3>2. settled'[j] = settled[j] \cup {p} /\ \A i \in JobNos : settled[i] \subseteq settled'[i]
      BY <1>1, <2>2
    <3> QED
      BY <1>1, <2>1, <3>1, <3>2, MailMoves
  <2>3. CASE \E reached \in BOOLEAN : MailFails(j, p, reached)
    <3> DEFINE left == IF GivesUp(p) THEN sending.batch \ {p} ELSE sending.batch
               over == IF GivesUp(p) THEN settled[j] \cup {p} ELSE settled[j]
    <3>1. sending'.batch = left /\ sending'.todo = sending.todo
      <4>1. sending' = [sending EXCEPT !.tries[p] = sending.tries[p] + 1, !.batch = left]
        BY <2>3 DEF MailFails
      <4> QED
        BY <1>1, <4>1 DEF Round
    <3>2. settled' = [settled EXCEPT ![j] = over]
      BY <2>3 DEF MailFails
    <3>3. settled'[j] = over /\ \A i \in JobNos : settled[i] \subseteq settled'[i]
      BY <1>1, <3>2
    <3>4. settled[j] \cup sending.batch \subseteq over \cup left
      OBVIOUS
    <3> HIDE DEF left, over
    <3> QED
      BY <1>1, <2>1, <3>1, <3>3, <3>4, MailMoves
  <2> QED
    BY <1>3, <2>2, <2>3 DEF Mail
<1> QED
  BY <1>2, <1>3

\* The job of an email is over when everyone has been tried.
LEMMA EndMailsStep ==
    ASSUME IInv, TypeOK', NEW j \in JobNos, EndMails(j)
    PROVE  IInv'
<1>1. /\ j \in Running("email") /\ j \in DOMAIN jobs /\ jobs[j].kind = "email" /\ jobs[j].state = "running"
      /\ jobs' = [jobs EXCEPT ![j].state = "done"] /\ task' = [task EXCEPT ![j].pc = "find"]
      /\ UNCHANGED <<cast, docs, sending, settled>>
      /\ sending.batch = {} /\ sending.todo = {}
  BY DEF EndMails, Goto, Running
<1>2. /\ DOMAIN jobs' = DOMAIN jobs
      /\ \A i \in DOMAIN jobs : i # j => jobs'[i] = jobs[i]
      /\ jobs'[j].state = "done"
      /\ \A i \in DOMAIN jobs : /\ jobs'[i].kind = jobs[i].kind /\ jobs'[i].doc = jobs[i].doc
                                /\ jobs'[i].users = jobs[i].users /\ jobs'[i].by = jobs[i].by
  BY <1>1, StateType DEF IInv
<1>3. jobs[j].users \subseteq settled[j] /\ Queued(j)
  BY <1>1 DEF IInv, JobsInv, Tried
<1>4. Queued(j)'
  BY <1>1, <1>2, <1>3 DEF Queued, Owed
<1>5. Tried'
  <2>1. \A i \in Running("email")' : i \in Running("email") /\ jobs'[i] = jobs[i]
    BY <1>2 DEF Running
  <2> QED
    BY <1>1, <2>1 DEF IInv, JobsInv, Tried
<1>6. Coming(j)'
  <2>1. task'[j].pc = "find"
    BY <1>1, JobCall DEF IInv, TypeOK, Work
  <2> QED
    BY <2>1 DEF Coming, Moving
<1> QED
  BY <1>1, <1>4, <1>5, <1>6, JobMoves

\* The process ends: no job is lost with it.
LEMMA EndStep ==
    ASSUME IInv, TypeOK', End
    PROVE  IInv'
<1>1. /\ UNCHANGED <<cast, docs, settled>> /\ DOMAIN jobs' = DOMAIN jobs
      /\ \A j \in DOMAIN jobs : jobs'[j] = AfterEnd(jobs[j])
  BY DEF End
<1>2. \A t \in Tasks :
         task'[t] = IF task[t].pc \notin Moving THEN task[t]
                    ELSE IF t \in JobNos /\ jobs[t].state = "running" THEN Idle
                    ELSE [task[t] EXCEPT !.pc = "failed"]
  BY DEF End
<1>3. \A t \in Tasks : task[t] \in Work /\ Labelled(t)
  BY DEF IInv, TypeOK, CallsInv
<1>4. DOMAIN jobs \subseteq JobNos /\ JobNos \subseteq Tasks /\ Requests \subseteq Tasks /\ JobNos \cap Requests = {}
  <2>1. DOMAIN jobs \subseteq JobNos
    BY JobCall DEF IInv
  <2> QED
    BY <2>1, PublishingAssumption DEF Tasks
<1>5. \A j \in DOMAIN jobs :
         /\ jobs'[j].by = jobs[j].by /\ jobs'[j].doc = jobs[j].doc /\ jobs'[j].kind = jobs[j].kind
         /\ jobs'[j].users = jobs[j].users
         /\ jobs'[j].state = IF jobs[j].state = "running" THEN "pending" ELSE jobs[j].state
  <2>1. \A j \in DOMAIN jobs : jobs[j] \in JobRow
    BY JobCall DEF IInv
  <2> QED
    BY <1>1, <2>1 DEF AfterEnd, JobRow
<1>6. Steady
  BY <1>1, <1>5 DEF Steady
<1>7. ASSUME NEW t \in Tasks
      PROVE  task'[t].pc \notin Moving
  <2>1. CASE task[t].pc \notin Moving
    BY <1>2, <2>1
  <2>2. CASE task'[t] = Idle
    BY <2>2 DEF Idle, Moving
  <2>3. CASE task'[t] = [task[t] EXCEPT !.pc = "failed"]
    <3>1. task'[t].pc = "failed"
      BY <1>3, <2>3 DEF Work
    <3> QED
      BY <3>1 DEF Moving
  <2> QED
    BY <1>2, <2>1, <2>2, <2>3
<1>8. JobsInv'
  <2>1. ASSUME NEW j \in DOMAIN jobs
        PROVE  Queued(j)'
    <3>1. Queued(j)
      BY DEF IInv, JobsInv
    <3> QED
      BY <1>1, <1>4, <1>5, <1>7, <3>1 DEF Queued, Owed
  <2>2. Running("email")' = {}
    BY <1>1, <1>5 DEF Running
  <2> QED
    BY <1>1, <2>1, <2>2 DEF JobsInv, Tried
<1>9. CallsInv'
  <2>1. ASSUME NEW t \in Tasks
        PROVE  Labelled(t)'
    <3>1. CASE task[t].pc \notin Moving
      BY <1>2, <1>3, <1>6, <3>1, LabelKept
    <3>2. CASE task[t].pc \in Moving /\ t \in JobNos /\ jobs[t].state = "running"
      <4>1. task'[t] = Idle
        BY <1>2, <3>2
      <4> QED
        BY <1>4, <3>2, <4>1 DEF Labelled, Idle
    <3>3. CASE task[t].pc \in Moving /\ ~(t \in JobNos /\ jobs[t].state = "running")
      <4>1. task'[t].pc = "failed" /\ task'[t].users = task[t].users
        BY <1>2, <1>3, <3>3 DEF Work
      <4>2. t \in DOMAIN cast.calls \/ t \in DOMAIN jobs
        BY <3>3, Under DEF Moving, IInv
      <4> QED
        BY <1>1, <1>3, <4>1, <4>2, SameCall DEF Labelled
    <3> QED
      BY <3>1, <3>2, <3>3
  <2> QED
    BY <2>1 DEF CallsInv
<1>10. ASSUME NEW d \in Ids, Placed(d)'
       PROVE  Accounted(d)'
  <2>1. docs'[d] = docs[d] /\ Accounted(d)
    BY <1>1, <1>10 DEF IInv, RowsInv, Placed
  <2>2. docs[d].setter \in Requests => Passed(docs[d].setter)
    <3>1. ASSUME docs[d].setter \in Requests
          PROVE  Passed(docs[d].setter)
      <4> DEFINE s == docs[d].setter
      <4>1. task[s].pc \in {"queue", "done", "failed"} /\ task[s] \in Work /\ s \notin JobNos
        BY <1>3, <1>4, <2>1, <3>1 DEF Accounted, SetBy
      <4>2. task'[s] = IF task[s].pc = "queue" THEN [task[s] EXCEPT !.pc = "failed"] ELSE task[s]
        BY <1>2, <1>4, <3>1, <4>1 DEF Moving
      <4> QED
        BY <4>1, <4>2 DEF Passed, Work
    <3> QED
      BY <3>1
  <2>3. ASSUME NEW j \in DOMAIN jobs, Coming(j)
        PROVE  Coming(j)'
    <3>1. CASE jobs[j].state \in {"pending", "running", "failed"}
      BY <1>5, <3>1 DEF Coming
    <3>2. CASE jobs[j].state \notin {"pending", "running", "failed"}
      <4>1. task[j].pc \in Moving \cup {"failed"} /\ j \in Tasks
        BY <1>4, <2>3, <3>2 DEF Coming
      <4>2. task'[j].pc = "failed"
        BY <1>2, <1>3, <3>2, <4>1 DEF Work
      <4> QED
        BY <4>2 DEF Coming
    <3> QED
      BY <3>1, <3>2
  <2> QED
    BY <1>6, <1>8, <2>1, <2>2, <2>3, RowKept
<1> QED
  BY <1>8, <1>9, <1>10 DEF IInv, RowsInv

\* A call fails, and is not one that has added its job.
LEMMA FailsStep ==
    ASSUME IInv, TypeOK', NEW t \in Tasks, task[t].pc \in Moving \ {"queue"}, Fails(t)
    PROVE  IInv'
<1>1. task[t] \in Work /\ task \in [Tasks -> Work] /\ Labelled(t)
  BY DEF IInv, TypeOK, CallsInv
<1>2. t \in DOMAIN cast.calls \/ t \in DOMAIN jobs
  BY Under DEF Moving, IInv
<1>3. CASE t \in Requests
  <2>1. task' = [task EXCEPT ![t].pc = "failed"] /\ UNCHANGED <<cast, docs, jobs, sending, settled>>
    BY <1>3 DEF Fails, Goto
  <2>2. /\ task'[t].pc = "failed" /\ task'[t].users = task[t].users
        /\ \A s \in Tasks : s # t => task'[s] = task[s]
    BY <1>1, <2>1 DEF Work
  <2>3. Labelled(t)'
    BY <1>1, <1>2, <1>3, <2>1, <2>2, SameCall, PublishingAssumption DEF Labelled
  <2>4. task[t].pc \notin {"queue", "done", "failed"}
    BY DEF Moving
  <2> QED
    BY <2>1, <2>2, <2>3, <2>4, CallMoves
<1>4. CASE t \notin Requests /\ jobs[t].kind = "post"
  <2>1. /\ t \in DOMAIN jobs
        /\ jobs' = [jobs EXCEPT ![t].state = "failed"] /\ task' = [task EXCEPT ![t].pc = "failed"]
        /\ UNCHANGED <<cast, docs, sending, settled>>
    BY <1>2, <1>4, RequestCall DEF Fails, Goto, IInv
  <2>2. /\ DOMAIN jobs' = DOMAIN jobs
        /\ \A i \in DOMAIN jobs : i # t => jobs'[i] = jobs[i]
        /\ jobs'[t].state = "failed"
        /\ \A i \in DOMAIN jobs : /\ jobs'[i].kind = jobs[i].kind /\ jobs'[i].doc = jobs[i].doc
                                  /\ jobs'[i].users = jobs[i].users /\ jobs'[i].by = jobs[i].by
    BY <2>1, StateType DEF IInv
  <2>3. Queued(t)
    BY <2>1 DEF IInv, JobsInv
  <2>4. Queued(t)'
    BY <1>4, <2>1, <2>2, <2>3 DEF Queued, Owed
  <2>5. Tried'
    <3>1. \A i \in Running("email")' : i \in Running("email") /\ jobs'[i] = jobs[i]
      BY <2>2 DEF Running
    <3> QED
      BY <2>1, <3>1 DEF IInv, JobsInv, Tried
  <2>6. Coming(t)'
    BY <2>2 DEF Coming
  <2> QED
    BY <2>1, <2>4, <2>5, <2>6, JobMoves
<1>5. CASE t \notin Requests /\ jobs[t].kind # "post"
  BY <1>5, EndStep DEF Fails
<1> QED
  BY <1>3, <1>4, <1>5

\* Every step keeps the invariant.
LEMMA Inductive == IInv /\ [Next]_pvars => IInv'
<1> SUFFICES ASSUME IInv, [Next]_pvars PROVE IInv'
  OBVIOUS
<1>0. TypeOK'
  BY TypeStep DEF IInv
<1>1. ASSUME NEW t \in Requests, Begin(t)
      PROVE  IInv'
  BY <1>0, <1>1, MoveStep DEF Tasks
<1>2. ASSUME NEW t \in Tasks, CallStep(t)
      PROVE  IInv'
  <2>1. FindNone(t) => Fails(t) /\ task[t].pc \in Moving \ {"queue"}
    BY DEF FindNone, At, Moving
  <2> QED
    BY <1>0, <1>2, <2>1, MoveStep, SaveStep, QueueNewStep, UpdateStep, WriteStep, FailsStep DEF CallStep
<1>3. ASSUME NEW t \in Tasks, FailTask(t)
      PROVE  IInv'
  BY <1>0, <1>3, FailsStep DEF FailTask
<1>4. ASSUME NEW j \in JobNos, JobStep(j)
      PROVE  IInv'
  BY <1>0, <1>4, TakeStep, MailsStep, EndMailsStep DEF JobStep
<1>5. CASE Restart
  BY <1>0, <1>5, EndStep DEF Restart
<1>6. CASE Tick \/ UNCHANGED pvars
  <2>1. UNCHANGED <<cast, docs, jobs, task, sending, settled>>
    BY <1>6 DEF Tick, pvars
  <2>2. Steady
    BY <2>1 DEF Steady
  <2>3. JobsInv'
    BY <2>1, JobsKept DEF IInv
  <2>4. CallsInv'
    BY <2>1, <2>2, LabelKept DEF IInv, CallsInv
  <2>5. ASSUME NEW d \in Ids, Placed(d)'
        PROVE  Accounted(d)'
    <3>1. Accounted(d) /\ \A s \in Requests : Passed(s)
      BY <2>1, <2>5 DEF IInv, RowsInv, Placed, Passed
    <3>2. \A i \in DOMAIN jobs : Coming(i) => Coming(i)'
      BY <2>1 DEF Coming
    <3> QED
      BY <2>1, <2>2, <2>3, <3>1, <3>2, RowKept
  <2> QED
    BY <1>0, <2>3, <2>4, <2>5 DEF IInv, RowsInv
<1> QED
  BY <1>1, <1>2, <1>3, <1>4, <1>5, <1>6 DEF Next
-----------------------------------------------------------------------------
(* jobs and the rows they were made for *)

\* A request about to save or to queue: an email, and what is scheduled, has a
\* date, which the delay reaches.
Ready(r) ==
    LET c == cast.calls[r]
        w == task[r]
    IN  /\ w.pc \in {"recipients", "save", "queue"} /\ c.kind = "email" => c.date # Nothing
        /\ w.pc = "queue" /\ c.status = "Scheduled" => c.date # Nothing
        /\ w.pc \in {"save", "queue"} \/ (w.pc = "recipients" /\ c.op = "update") =>
              (c.status = "Scheduled" /\ c.date # Nothing => c.date <= now + w.delay)
        /\ w.pc \in {"save", "queue"} /\ c.kind = "email" => w.users = Recipients(c.to)
        /\ w.pc = "recipients" /\ c.op = "update" => c.status = "Scheduled"
        /\ w.pc = "upload" /\ c.op = "create" => c.kind # "email"

\* Past its job a request keeps the row it has read.
Past == {"write", "done", "failed"}

\* A job is due no earlier than its call says and carries the text and the
\* people of the call; it has been taken when it was due, and the update that
\* the job of a post or a course is runs while the job does.
Kept(j) ==
    LET c == cast.calls[jobs[j].by]
        w == task[jobs[j].by]
    IN  /\ c.status # Nothing /\ w.pc \in Past
        /\ c.status = "Scheduled" => c.date # Nothing /\ c.date <= jobs[j].due
        /\ jobs[j].kind = "email" => jobs[j].text = Wording(c, w.seen) /\ jobs[j].users = Recipients(c.to)
        /\ jobs[j].state # "pending" => jobs[j].due <= now
        /\ jobs[j].kind # "email" /\ task[j].pc \in Moving => jobs[j].state = "running"

\* A row bears what the call that wrote it last has named.
Bears(d) ==
    docs[d] # Nothing /\ docs[d].writer \in Requests =>
        LET c == cast.calls[docs[d].writer]
        IN  /\ c.status # Nothing => docs[d].status = c.status
            /\ c.date # Nothing => docs[d].date = c.date
            /\ c.text # Nothing => docs[d].text = c.text
            /\ c.to # Nothing => docs[d].to = c.to

Match ==
    /\ \A r \in DOMAIN cast.calls : Ready(r)
    /\ \A j \in DOMAIN jobs : Kept(j)
    /\ \A d \in Ids : Bears(d)

\* Numbers are numbers, and requests are not jobs.
LEMMA Numbers ==
    ASSUME TypeOK
    PROVE  /\ now \in Nat /\ DOMAIN jobs \subseteq JobNos /\ DOMAIN cast.calls \subseteq Requests
           /\ JobNos \cap Requests = {} /\ Requests \subseteq Tasks /\ JobNos \subseteq Tasks
           /\ \A r \in Requests : CallOf(r) = cast.calls[r]
           /\ \A t \in Tasks : task[t] \in Work /\ task[t].delay \in Int
           /\ \A j \in DOMAIN jobs : jobs[j] \in JobRow /\ jobs[j].due \in Int /\ jobs[j].by \in Requests
           /\ \A r \in DOMAIN cast.calls :
                 cast.calls[r] \in Call /\ (cast.calls[r].date # Nothing => cast.calls[r].date \in Int)
<1>1. /\ DOMAIN jobs \subseteq JobNos /\ DOMAIN cast.calls \subseteq Requests
      /\ \A r \in DOMAIN cast.calls : cast.calls[r] \in Call
  BY JobCall, RequestCall
<1>2. \A j \in DOMAIN jobs : jobs[j] \in JobRow
  BY JobCall
<1>3. \A r \in DOMAIN cast.calls : cast.calls[r].date # Nothing => cast.calls[r].date \in Int
  BY <1>1, PublishingAssumption DEF Call, Dates
<1>4. \A j \in DOMAIN jobs : jobs[j].due \in Int /\ jobs[j].by \in Requests
  BY <1>2 DEF JobRow
<1>5. \A t \in Tasks : task[t] \in Work
  BY DEF TypeOK
<1>6. \A t \in Tasks : task[t].delay \in Int
  BY <1>5 DEF Work
<1> QED
  BY <1>1, <1>2, <1>3, <1>4, <1>5, <1>6, PublishingAssumption DEF TypeOK, CallOf, Tasks

\* What must stay for the jobs and rows there are to match as they did.
LEMMA MatchKept ==
    ASSUME TypeOK, TypeOK', JobsInv, Match, cast' = cast, now <= now',
           \A j \in DOMAIN jobs :
              /\ j \in DOMAIN jobs' /\ jobs'[j].by = jobs[j].by /\ jobs'[j].kind = jobs[j].kind
              /\ jobs'[j].text = jobs[j].text /\ jobs'[j].users = jobs[j].users /\ jobs'[j].due = jobs[j].due
              /\ jobs'[j].state # "pending" => jobs[j].state # "pending" \/ jobs[j].due <= now
              /\ jobs[j].kind # "email" /\ task'[j].pc \in Moving => jobs'[j].state = "running",
           \A j \in DOMAIN jobs' \ DOMAIN jobs : Kept(j)',
           \A r \in DOMAIN cast.calls :
              task[r].pc \in Past => task'[r].pc \in Past /\ task'[r].seen = task[r].seen,
           \A r \in DOMAIN cast.calls : task'[r] = task[r] \/ Ready(r)',
           \A d \in Ids : docs'[d] = docs[d] \/ docs'[d] = Nothing \/ Bears(d)'
    PROVE  Match'
<1>1. ASSUME NEW r \in DOMAIN cast.calls PROVE Ready(r)'
  <2>1. CASE task'[r] = task[r]
    <3>1. /\ now \in Int /\ now' \in Int /\ task[r].delay \in Int
          /\ cast.calls[r].date # Nothing => cast.calls[r].date \in Int
      <4>1. r \in Tasks
        BY Numbers
      <4> QED
        BY <4>1, Numbers DEF TypeOK
    <3>2. Ready(r)
      BY DEF Match
    <3> QED
      BY <2>1, <3>1, <3>2 DEF Ready
  <2> QED
    BY <2>1
<1>2. ASSUME NEW j \in DOMAIN jobs PROVE Kept(j)'
  <2>1. Kept(j) /\ jobs[j].by \in DOMAIN cast.calls
    BY DEF Match, JobsInv, Queued
  <2>2. now \in Int /\ now' \in Int /\ jobs[j].due \in Int
    BY Numbers DEF TypeOK
  <2> QED
    BY <2>1, <2>2 DEF Kept
<1>3. ASSUME NEW d \in Ids PROVE Bears(d)'
  BY DEF Match, Bears
<1> QED
  BY <1>1, <1>2, <1>3 DEF Match

\* One call moves on and adds no job.
LEMMA OneMoves ==
    ASSUME IInv, TypeOK', Match, UNCHANGED <<cast, now, jobs>>, NEW t \in Tasks,
           \A s \in Tasks : s # t => task'[s] = task[s],
           t \in DOMAIN cast.calls =>
              /\ Ready(t)'
              /\ task[t].pc \in Past => task'[t].pc \in Past /\ task'[t].seen = task[t].seen,
           t \in DOMAIN jobs => (task'[t].pc \in Moving => task[t].pc \in Moving),
           \A d \in Ids : docs'[d] = docs[d] \/ docs'[d] = Nothing \/ Bears(d)'
    PROVE  Match'
<1>1. TypeOK /\ JobsInv
  BY DEF IInv
<1>2. /\ DOMAIN jobs \subseteq Tasks /\ DOMAIN cast.calls \subseteq Tasks /\ now <= now'
  BY <1>1, Numbers
<1>3. ASSUME NEW j \in DOMAIN jobs, jobs[j].kind # "email", task'[j].pc \in Moving
      PROVE  jobs[j].state = "running"
  <2>1. task[j].pc \in Moving
    BY <1>2, <1>3
  <2> QED
    BY <1>3, <2>1 DEF Match, Kept
<1> QED
  BY <1>1, <1>2, <1>3, MatchKept

\* One request adds the job of its row.
LEMMA OneQueues ==
    ASSUME IInv, TypeOK', Match, UNCHANGED <<cast, now, docs>>, NEW t \in DOMAIN cast.calls,
           NEW text \in STRING \cup {Nothing}, NEW people \in SUBSET People, NEW delay \in Int,
           Queue(t, text, people, delay),
           \A s \in Tasks : s # t => task'[s] = task[s],
           task[t].pc \notin Past, task'[t].pc \in {"write", "done"},
           cast.calls[t].status # Nothing,
           cast.calls[t].status = "Scheduled" =>
              cast.calls[t].date # Nothing /\ cast.calls[t].date <= now + delay,
           cast.calls[t].kind = "email" =>
              text = Wording(cast.calls[t], task'[t].seen) /\ people = Recipients(cast.calls[t].to)
    PROVE  Match'
<1>1. TypeOK /\ JobsInv /\ CallsInv
  BY DEF IInv
<1>2. /\ DOMAIN jobs \subseteq Tasks /\ DOMAIN cast.calls \subseteq Tasks /\ now <= now'
      /\ t \notin JobNos /\ CallOf(t) = cast.calls[t] /\ DOMAIN jobs \subseteq JobNos
      /\ JobNos \subseteq Tasks /\ JobNos \cap Requests = {} /\ DOMAIN cast.calls \subseteq Requests
      /\ now \in Nat
  BY <1>1, Numbers
<1>3. PICK n \in JobNos :
         /\ n \notin DOMAIN jobs /\ DOMAIN jobs' = DOMAIN jobs \cup {n}
         /\ \A j \in DOMAIN jobs : jobs'[j] = jobs[j]
         /\ jobs'[n] = Job(t, text, people, delay)
  <2>1. /\ Len(jobs) + 1 \in JobNos
        /\ DOMAIN jobs = 1..Len(jobs) /\ DOMAIN jobs' = 1..(Len(jobs) + 1)
        /\ \A j \in DOMAIN jobs : jobs'[j] = jobs[j]
        /\ jobs'[Len(jobs) + 1] = Job(t, text, people, delay)
    BY <1>1, QueueType
  <2>2. Len(jobs) \in Nat
    BY <1>1 DEF TypeOK
  <2>3. 1..(Len(jobs) + 1) = (1..Len(jobs)) \cup {Len(jobs) + 1} /\ Len(jobs) + 1 \notin 1..Len(jobs)
    BY <2>2
  <2> QED
    BY <2>1, <2>3
<1>4. /\ jobs'[n].kind = cast.calls[t].kind /\ jobs'[n].text = text /\ jobs'[n].users = people
      /\ jobs'[n].due = now + delay /\ jobs'[n].by = t /\ jobs'[n].state = "pending"
  BY <1>2, <1>3 DEF Job
<1>5. task'[n].pc \notin Moving
  <2>1. task'[n] = task[n] /\ n \in Tasks
    BY <1>2, <1>3
  <2>2. n \notin DOMAIN jobs /\ n \notin DOMAIN cast.calls
    BY <1>2, <1>3
  <2>3. task[n].pc = "idle"
    BY <1>1, <2>1, <2>2, Under
  <2> QED
    BY <2>1, <2>3 DEF Moving
<1>6. Kept(n)'
  <2>1. cast'.calls[t] = cast.calls[t] /\ now' = now /\ task'[t].pc \in Past
    BY DEF Past
  <2> QED
    BY <1>4, <1>5, <2>1 DEF Kept
<1>7. \A j \in DOMAIN jobs' \ DOMAIN jobs : j = n
  BY <1>3
<1>8. ASSUME NEW j \in DOMAIN jobs, jobs[j].kind # "email", task'[j].pc \in Moving
      PROVE  jobs[j].state = "running"
  <2>1. task'[j] = task[j]
    BY <1>2
  <2> QED
    BY <1>8, <2>1 DEF Match, Kept
<1>9. Ready(t)'
  BY DEF Ready
<1>10. \A r \in DOMAIN cast.calls : task'[r] = task[r] \/ Ready(r)'
  BY <1>2, <1>9
<1>11. \A r \in DOMAIN cast.calls :
          task[r].pc \in Past => task'[r].pc \in Past /\ task'[r].seen = task[r].seen
  BY <1>2
<1>12. \A j \in DOMAIN jobs :
          /\ j \in DOMAIN jobs' /\ jobs'[j] = jobs[j]
          /\ jobs[j].kind # "email" /\ task'[j].pc \in Moving => jobs'[j].state = "running"
  BY <1>3, <1>8
<1>13. \A j \in DOMAIN jobs' \ DOMAIN jobs : Kept(j)'
  BY <1>6, <1>7
<1> QED
  BY <1>1, <1>2, <1>10, <1>11, <1>12, <1>13, MatchKept

\* A call before its job: it begins, its file is stored, the addresses are
\* read, a row is removed.
LEMMA MoveMatch ==
    ASSUME IInv, TypeOK', Match, NEW t \in Tasks,
           Begin(t) \/ UploadNew(t) \/ RecipientsNew(t) \/ FindToRemove(t) \/ Delete(t)
    PROVE  Match'
<1>1. t \in DOMAIN cast.calls
  <2>1. t \in DOMAIN cast.calls \/ t \in DOMAIN jobs
    BY Under DEF IInv, Begin, UploadNew, RecipientsNew, FindToRemove, Delete, At
  <2>2. t \in DOMAIN jobs => CallOf(t).op = "update" /\ task[t].pc # "delete" /\ task[t].pc # "upload" /\ task[t].pc # "recipients"
    BY JobCall DEF IInv, CallsInv, Labelled
  <2> QED
    BY <2>1, <2>2 DEF Begin, UploadNew, RecipientsNew, FindToRemove, Delete, At
<1> DEFINE c == cast.calls[t]
<1>2. /\ t \notin DOMAIN jobs /\ CallOf(t) = c /\ c \in Call
      /\ c.op \in {"create", "update", "remove"} /\ c.file \in BOOLEAN /\ cast' = cast /\ now' = now
      /\ t \in Requests
  BY <1>1, RequestCall, JobCall DEF IInv, Call, Begin, UploadNew, RecipientsNew, FindToRemove, Delete
<1>3. task[t] \in Work /\ task \in [Tasks -> Work] /\ Ready(t) /\ Labelled(t)
  BY <1>1 DEF IInv, TypeOK, Match, CallsInv
<1>4. c.status = "Scheduled" /\ c.date # Nothing => c.date = now + Delay(c)
  <2>1. now \in Int /\ (c.date # Nothing => c.date \in Int)
    BY <1>1, Numbers DEF IInv
  <2> QED
    BY <2>1 DEF Delay
<1>5. c.status = "Scheduled" /\ c.date # Nothing => c.date <= now + Delay(c)
  <2>1. now \in Int /\ (c.date # Nothing => c.date \in Int)
    BY <1>1, Numbers DEF IInv
  <2> QED
    BY <1>4, <2>1
<1>6. Ready(t)'
  <2>1. CASE Begin(t)
    <3> DEFINE pc == CASE c.op = "remove" /\ c.kind = "email" -> "delete"
                       [] c.op = "remove" /\ c.kind # "email" -> "find"
                       [] c.op = "update" -> "find"
                       [] c.op = "create" /\ c.kind = "email" -> IF c.date = Nothing THEN "failed" ELSE "recipients"
                       [] c.op = "create" /\ c.kind # "email" -> IF c.file THEN "upload" ELSE "save"
    <3>1. /\ pc \in {"delete", "find", "failed", "recipients", "upload", "save"}
          /\ pc = "recipients" => c.kind = "email" /\ c.date # Nothing /\ c.op = "create"
          /\ pc \in {"upload", "save"} => c.op = "create" /\ c.kind # "email"
      BY <1>2
    <3>2. task' = [task EXCEPT ![t] = [@ EXCEPT !.pc = pc, !.delay = Delay(c)]]
      BY <1>2, <2>1 DEF Begin
    <3> HIDE DEF pc
    <3>3. task'[t].pc = pc /\ task'[t].delay = Delay(c)
      BY <1>3, <3>2 DEF Work
    <3> QED
      BY <1>2, <1>5, <3>1, <3>3 DEF Ready
  <2>2. CASE UploadNew(t)
    <3>1. /\ task'[t].pc = "save" /\ task'[t].delay = Delay(c)
          /\ task[t].pc = "upload" /\ c.op = "create"
      BY <1>2, <1>3, <2>2 DEF UploadNew, Work, At
    <3> QED
      BY <1>2, <1>3, <1>5, <3>1 DEF Ready
  <2>3. CASE RecipientsNew(t)
    <3>1. /\ task'[t].pc = "save" /\ task'[t].delay = Delay(c) /\ task'[t].users = Recipients(c.to)
          /\ task[t].pc = "recipients" /\ c.op = "create"
      BY <1>2, <1>3, <2>3 DEF RecipientsNew, Work, At
    <3> QED
      BY <1>2, <1>3, <1>5, <3>1 DEF Ready
  <2>4. CASE FindToRemove(t) \/ Delete(t)
    <3>1. task'[t].pc \in {"delete", "failed", "done"}
      BY <1>3, <2>4 DEF FindToRemove, Delete, Goto, Work
    <3> QED
      BY <3>1 DEF Ready
  <2> QED
    BY <2>1, <2>2, <2>3, <2>4
<1>7. task[t].pc \notin Past /\ UNCHANGED <<cast, now, jobs>>
  BY DEF Begin, UploadNew, RecipientsNew, FindToRemove, Delete, At, Past
<1>8. \A s \in Tasks : s # t => task'[s] = task[s]
  BY <1>3 DEF Begin, UploadNew, RecipientsNew, FindToRemove, Delete, Goto
<1>9. \A d \in Ids : docs'[d] = docs[d] \/ docs'[d] = Nothing
  BY DEF Begin, UploadNew, RecipientsNew, FindToRemove, Delete, IInv, TypeOK
<1> QED
  BY <1>2, <1>6, <1>7, <1>8, <1>9, OneMoves

\* The row of a create bears what the call names.
LEMMA SaveMatch ==
    ASSUME IInv, TypeOK', Match, NEW t \in Tasks, Save(t)
    PROVE  Match'
<1> DEFINE c == cast.calls[t]
<1>1. t \in DOMAIN cast.calls /\ task[t].pc = "save" /\ t \in Requests
  BY UnderCall, RequestCall DEF IInv, Save, At
<1>2. /\ t \notin DOMAIN jobs /\ CallOf(t) = c /\ Sound(c)
      /\ UNCHANGED <<cast, now, jobs>> /\ CallOf(t).op = "create" /\ c.kind \in Kinds
  <2>1. CallOf(t) = c /\ c.kind \in Kinds /\ Sound(c) /\ t \in Tasks
    BY <1>1, RequestCall, CallTypes DEF IInv
  <2>2. t \notin DOMAIN jobs
    BY <1>1, JobCall DEF IInv
  <2>3. CallOf(t).op = "create"
    BY <1>1, <2>1 DEF IInv, CallsInv, Labelled
  <2> QED
    BY <2>1, <2>2, <2>3 DEF Save
<1>3. task[t] \in Work /\ task \in [Tasks -> Work] /\ Ready(t) /\ docs \in [Ids -> Row \cup {Nothing}]
  BY <1>1 DEF IInv, TypeOK, Match
<1>4. /\ \A s \in Tasks : s # t => task'[s] = task[s]
      /\ task'[t].delay = task[t].delay /\ task'[t].users = task[t].users
      /\ task'[t].pc \in {"failed", "queue", "done"}
      /\ task'[t].pc = "queue" => ~(c.kind = "post" /\ c.status = "Scheduled" /\ c.date = Nothing)
  BY <1>2, <1>3 DEF Save, Goto, Work
<1>5. c.status = "Scheduled" => c.kind \in {"email", "post"}
  BY <1>2 DEF Sound, Kinds
<1>6. Ready(t)'
  BY <1>1, <1>2, <1>3, <1>4, <1>5 DEF Ready
<1>7. \A d \in Ids : docs'[d] = docs[d] \/ Bears(d)'
  <2>1. ASSUME NEW d \in Ids, docs'[d] # docs[d]
        PROVE  Bears(d)'
    <3>1. /\ d = t /\ docs'[d].status = c.status /\ docs'[d].date = c.date
          /\ docs'[d].text = c.text /\ docs'[d].to = c.to /\ docs'[d].writer = t
      BY <1>2, <1>3, <2>1 DEF Save
    <3> QED
      BY <1>2, <3>1 DEF Bears
  <2> QED
    BY <2>1
<1>8. task[t].pc \notin Past
  BY <1>1 DEF Past
<1> QED
  BY <1>2, <1>4, <1>6, <1>7, <1>8, OneMoves

\* The job of a create is due when its call says.
LEMMA QueueNewMatch ==
    ASSUME IInv, TypeOK', Match, NEW t \in Tasks, QueueNew(t)
    PROVE  Match'
<1> DEFINE c == cast.calls[t]
<1>1. t \in DOMAIN cast.calls /\ task[t].pc = "queue" /\ t \in Requests
  BY UnderCall, RequestCall DEF IInv, QueueNew, At
<1>2. /\ CallOf(t) = c /\ Sound(c) /\ c.op = "create"
      /\ UNCHANGED <<cast, now, docs>> /\ c.text \in STRING \cup {Nothing}
  BY <1>1, RequestCall, CallTypes DEF IInv, QueueNew, CallsInv, Labelled
<1>3. task[t] \in Work /\ task \in [Tasks -> Work] /\ Ready(t)
  BY <1>1 DEF IInv, TypeOK, Match
<1>4. task[t].users \in SUBSET People /\ task[t].delay \in Int
  BY <1>3 DEF Work
<1>5. task'[t].pc = "done" /\ \A s \in Tasks : s # t => task'[s] = task[s]
  BY <1>3 DEF QueueNew, Work
<1>6. Queue(t, c.text, task[t].users, task[t].delay)
  BY <1>2 DEF QueueNew
<1>7. c.status # Nothing /\ c.text # Nothing
  BY <1>2 DEF Sound
<1>8. c.status = "Scheduled" => c.date # Nothing /\ c.date <= now + task[t].delay
  BY <1>1, <1>3 DEF Ready
<1>9. c.kind = "email" => c.text = Wording(c, task'[t].seen) /\ task[t].users = Recipients(c.to)
  BY <1>1, <1>3, <1>7 DEF Ready, Wording
<1>10. task[t].pc \notin Past
  BY <1>1 DEF Past
<1> QED
  BY <1>1, <1>2, <1>4, <1>5, <1>6, <1>7, <1>8, <1>9, <1>10, OneQueues

\* What update decides: the job of a post is due when its call says.
LEMMA DecideMatch ==
    ASSUME IInv, TypeOK', Match, NEW t \in Tasks, t \in DOMAIN cast.calls \/ t \in DOMAIN jobs,
           NEW seen \in Row, Decide(t, seen), task[t].pc \in {"find", "upload"},
           UNCHANGED <<cast, now, docs>>
    PROVE  Match'
<1> DEFINE c == CallOf(t)
<1>1. task[t] \in Work /\ task \in [Tasks -> Work]
  BY DEF IInv, TypeOK
<1>2. task[t].pc \notin Past /\ task[t].pc \in Moving
  BY DEF Past, Moving
<1>3. CASE ~Schedules(c, seen)
  <2>1. /\ task' = [task EXCEPT ![t] = [task[t] EXCEPT !.seen = seen, !.pc = "write"]] /\ jobs' = jobs
    BY <1>3 DEF Decide
  <2>2. task'[t].pc = "write" /\ \A s \in Tasks : s # t => task'[s] = task[s]
    BY <1>1, <2>1 DEF Work
  <2>3. Ready(t)'
    BY <2>2 DEF Ready
  <2> QED
    BY <1>2, <2>1, <2>2, <2>3, OneMoves
<1>4. CASE Schedules(c, seen) /\ (c.date = Nothing \/ c.date <= now)
  <2>1. task' = [task EXCEPT ![t].pc = "failed"] /\ jobs' = jobs
    BY <1>4 DEF Decide, Goto
  <2>2. task'[t].pc = "failed" /\ \A s \in Tasks : s # t => task'[s] = task[s]
    BY <1>1, <2>1 DEF Work
  <2>3. Ready(t)'
    BY <2>2 DEF Ready
  <2> QED
    BY <1>2, <2>1, <2>2, <2>3, OneMoves
<1>5. CASE Schedules(c, seen) /\ ~(c.date = Nothing \/ c.date <= now)
  <2>1. t \in DOMAIN cast.calls /\ c = cast.calls[t] /\ t \notin DOMAIN jobs
    <3>1. t \in DOMAIN cast.calls
      BY <1>5, JobCall DEF Schedules, IInv
    <3>2. t \notin DOMAIN jobs
      BY <3>1, RequestCall, JobCall DEF IInv
    <3> QED
      BY <3>1, <3>2, RequestCall DEF IInv
  <2>2. now \in Int /\ c.date \in Int /\ c.date # Nothing
    BY <1>5, <2>1, Numbers DEF IInv
  <2>3. c.date - now \in Int /\ c.date <= now + (c.date - now) /\ c.status = "Scheduled"
    BY <1>5, <2>2 DEF Schedules
  <2>4. c.status # Nothing
    BY <2>3, PublishingAssumption DEF Status
  <2> HIDE DEF c
  <2>5. CASE c.kind = "email"
    <3>1. /\ task' = [task EXCEPT ![t] = [task[t] EXCEPT !.seen = seen, !.pc = "recipients", !.delay = c.date - now]]
          /\ jobs' = jobs
      BY <1>5, <2>5 DEF Decide, c
    <3>2. /\ task'[t].pc = "recipients" /\ task'[t].delay = c.date - now
          /\ \A s \in Tasks : s # t => task'[s] = task[s]
      BY <1>1, <3>1 DEF Work
    <3>3. Ready(t)'
      <4>1. cast'.calls[t] = c /\ now' = now
        BY <2>1
      <4> QED
        BY <2>2, <2>3, <3>2, <4>1 DEF Ready
    <3> QED
      BY <1>2, <2>1, <3>1, <3>2, <3>3, OneMoves
  <2>6. CASE c.kind # "email"
    <3>1. /\ Queue(t, Nothing, {}, c.date - now)
          /\ task' = [task EXCEPT ![t] = [task[t] EXCEPT !.seen = seen, !.pc = "write", !.job = Len(jobs) + 1]]
      BY <1>5, <2>6 DEF Decide, c
    <3>2. task'[t].pc = "write" /\ \A s \in Tasks : s # t => task'[s] = task[s]
      BY <1>1, <3>1 DEF Work
    <3>3. Nothing \in STRING \cup {Nothing} /\ {} \in SUBSET People
      OBVIOUS
    <3>4. /\ cast.calls[t].status # Nothing
          /\ cast.calls[t].status = "Scheduled" =>
                cast.calls[t].date # Nothing /\ cast.calls[t].date <= now + (c.date - now)
          /\ cast.calls[t].kind # "email"
      BY <2>1, <2>2, <2>3, <2>4, <2>6
    <3> QED
      BY <1>2, <2>1, <2>3, <3>1, <3>2, <3>3, <3>4, OneQueues
  <2> QED
    BY <2>5, <2>6
<1> QED
  BY <1>3, <1>4, <1>5

\* The row is read, the file goes up, the addresses are read: the job of an
\* email carries the text and the people of its call.
LEMMA UpdateMatch ==
    ASSUME IInv, TypeOK', Match, NEW t \in Tasks, Find(t) \/ Upload(t) \/ RecipientsOld(t)
    PROVE  Match'
<1>1. t \in DOMAIN cast.calls \/ t \in DOMAIN jobs
  BY Under DEF Find, Upload, RecipientsOld, At, IInv
<1>2. task[t] \in Work /\ task \in [Tasks -> Work] /\ Labelled(t)
  BY DEF IInv, TypeOK, CallsInv
<1>3. (t \in DOMAIN cast.calls /\ t \in Requests) \/ Find(t)
  BY UnderCall, RequestCall DEF Upload, RecipientsOld, At, IInv
<1>4. CASE Find(t)
  <2> DEFINE row == docs[CallOf(t).doc]
  <2>1. row \in Row
    BY <1>1, <1>4, CallTypes DEF Find, IInv, TypeOK
  <2>2. task[t].pc = "find" /\ UNCHANGED <<cast, now, docs>>
    BY <1>4 DEF Find, At
  <2>3. CASE Decide(t, row)
    BY <1>1, <2>1, <2>2, <2>3, DecideMatch
  <2>4. ASSUME jobs' = jobs, NEW pc \in {"failed", "upload"}, task'[t].pc = pc,
               pc = "upload" => CallOf(t).op = "update" /\ t \notin DOMAIN jobs,
               \A s \in Tasks : s # t => task'[s] = task[s]
        PROVE  Match'
    <3>1. t \in DOMAIN cast.calls => Ready(t)'
      <4>1. SUFFICES ASSUME t \in DOMAIN cast.calls PROVE Ready(t)'
        OBVIOUS
      <4>2. CallOf(t) = cast.calls[t]
        BY <4>1, RequestCall DEF IInv
      <4> QED
        BY <2>2, <2>4, <4>2 DEF Ready
    <3>2. task[t].pc \notin Past /\ task[t].pc \in Moving
      BY <2>2 DEF Past, Moving
    <3> QED
      BY <2>2, <2>4, <3>1, <3>2, OneMoves
  <2>5. CASE Goto(t, "failed") /\ UNCHANGED jobs
    <3>1. task'[t].pc = "failed" /\ \A s \in Tasks : s # t => task'[s] = task[s]
      BY <1>2, <2>5 DEF Goto, Work
    <3> QED
      BY <2>4, <2>5, <3>1
  <2>6. CASE CallOf(t).file /\ jobs' = jobs /\ task' = [task EXCEPT ![t] = [@ EXCEPT !.pc = "upload", !.seen = row]]
    <3>1. task'[t].pc = "upload" /\ \A s \in Tasks : s # t => task'[s] = task[s]
      BY <1>2, <2>6 DEF Work
    <3>2. t \notin DOMAIN jobs /\ CallOf(t).op = "update"
      BY <1>4, <2>6, JobCall DEF IInv, Find
    <3> QED
      BY <2>4, <2>6, <3>1, <3>2
  <2> QED
    BY <1>4, <2>3, <2>5, <2>6 DEF Find
<1>5. CASE Upload(t)
  <2>1. CallOf(t).op = "update" /\ task[t].pc = "upload" /\ UNCHANGED <<cast, now, docs>>
    BY <1>5 DEF Upload, At
  <2>2. task[t].seen \in Row
    BY <1>2, <1>3, <2>1 DEF Labelled, Work, Find, At
  <2> QED
    BY <1>1, <1>5, <2>1, <2>2, DecideMatch DEF Upload
<1>6. CASE RecipientsOld(t)
  <2> DEFINE c == cast.calls[t]
             text == Wording(c, task[t].seen)
             people == Recipients(c.to)
  <2>1. t \in DOMAIN cast.calls /\ task[t].pc = "recipients" /\ CallOf(t) = c /\ t \in Requests
    BY <1>3, <1>6, RequestCall DEF RecipientsOld, Find, At, IInv
  <2>2. /\ c.op = "update" /\ UNCHANGED <<cast, now, docs>>
        /\ Queue(t, text, people, task[t].delay)
        /\ task' = [task EXCEPT ![t] = [@ EXCEPT !.pc = "write", !.job = Len(jobs) + 1]]
    BY <1>6, <2>1 DEF RecipientsOld
  <2>3. task[t].seen \in Row /\ c.kind = "email"
    BY <1>2, <2>1, <2>2 DEF Labelled, Work
  <2>4. text \in STRING \cup {Nothing} /\ people \in SUBSET People /\ task[t].delay \in Int
    BY <1>1, <1>2, <2>1, <2>3, CallTypes, RecipientsType DEF Wording, Row, Work, IInv
  <2>5. /\ task'[t].pc = "write" /\ task'[t].seen = task[t].seen
        /\ \A s \in Tasks : s # t => task'[s] = task[s]
    BY <1>2, <2>2 DEF Work
  <2>6. Ready(t)
    BY <2>1 DEF Match
  <2>7. c.status = "Scheduled" /\ c.date # Nothing /\ c.date <= now + task[t].delay
    BY <2>1, <2>2, <2>3, <2>6 DEF Ready
  <2>8. c.status # Nothing
    BY <2>7, PublishingAssumption DEF Status
  <2>9. text = Wording(c, task'[t].seen) /\ people = Recipients(c.to)
    BY <2>5
  <2>10. task[t].pc \notin Past
    BY <2>1 DEF Past
  <2> HIDE DEF text, people
  <2> QED
    BY <2>1, <2>2, <2>4, <2>5, <2>7, <2>8, <2>9, <2>10, OneQueues
<1> QED
  BY <1>4, <1>5, <1>6

\* A step of a job, which is no request: rows it writes bear what no request
\* has named.
LEMMA JobActs ==
    ASSUME IInv, TypeOK', Match, UNCHANGED <<cast, now>>, NEW t \in DOMAIN jobs,
           NEW state \in {"running", "done", "failed"}, jobs' = [jobs EXCEPT ![t].state = state],
           jobs[t].state # "pending" \/ jobs[t].due <= now,
           jobs[t].kind # "email" /\ task'[t].pc \in Moving => state = "running",
           \A s \in Tasks : s # t => task'[s] = task[s],
           \A d \in Ids : docs'[d] = docs[d] \/ docs'[d] = Nothing \/ Bears(d)'
    PROVE  Match'
<1>1. TypeOK /\ JobsInv
  BY DEF IInv
<1>2. /\ DOMAIN jobs \subseteq Tasks /\ DOMAIN cast.calls \subseteq Tasks /\ now <= now'
      /\ t \notin DOMAIN cast.calls
  BY <1>1, Numbers
<1>3. /\ DOMAIN jobs' = DOMAIN jobs
      /\ \A i \in DOMAIN jobs : i # t => jobs'[i] = jobs[i]
      /\ jobs'[t].state = state
      /\ jobs[t] \in JobRow /\ jobs'[t] = [jobs[t] EXCEPT !.state = state]
  BY <1>1, StateType, JobCall
<1>4. /\ jobs'[t].by = jobs[t].by /\ jobs'[t].kind = jobs[t].kind /\ jobs'[t].due = jobs[t].due
      /\ jobs'[t].text = jobs[t].text /\ jobs'[t].users = jobs[t].users
  BY <1>3 DEF JobRow
<1>5. ASSUME NEW j \in DOMAIN jobs, j # t, jobs[j].kind # "email", task'[j].pc \in Moving
      PROVE  jobs'[j].state = "running"
  <2>1. task'[j] = task[j] /\ jobs'[j] = jobs[j]
    BY <1>2, <1>3, <1>5
  <2> QED
    BY <1>5, <2>1 DEF Match, Kept
<1>6. \A j \in DOMAIN jobs :
         /\ j \in DOMAIN jobs' /\ jobs'[j].by = jobs[j].by /\ jobs'[j].kind = jobs[j].kind
         /\ jobs'[j].text = jobs[j].text /\ jobs'[j].users = jobs[j].users /\ jobs'[j].due = jobs[j].due
         /\ jobs'[j].state # "pending" => jobs[j].state # "pending" \/ jobs[j].due <= now
         /\ jobs[j].kind # "email" /\ task'[j].pc \in Moving => jobs'[j].state = "running"
  BY <1>3, <1>4, <1>5
<1>7. \A r \in DOMAIN cast.calls : task'[r] = task[r]
  BY <1>2
<1>8. \A j \in DOMAIN jobs' \ DOMAIN jobs : Kept(j)'
  BY <1>3
<1> QED
  BY <1>1, <1>2, <1>6, <1>7, <1>8, MatchKept

\* The row takes the columns that are given.
LEMMA WriteMatch ==
    ASSUME IInv, TypeOK', Match, NEW t \in Tasks, Write(t)
    PROVE  Match'
<1> DEFINE w == CallOf(t).doc
<1>1. t \in DOMAIN cast.calls \/ t \in DOMAIN jobs
  BY Under DEF Write, At, IInv
<1>2. /\ task[t] \in Work /\ task \in [Tasks -> Work] /\ docs \in [Ids -> Row \cup {Nothing}]
  BY DEF IInv, TypeOK
<1>3. task[t].pc = "write" /\ UNCHANGED <<cast, now>>
  BY DEF Write, At
<1>4. /\ task'[t].pc = "done" /\ task'[t].seen = task[t].seen
      /\ \A s \in Tasks : s # t => task'[s] = task[s]
  BY <1>2 DEF Write, Goto, Work
<1>5. ASSUME NEW d \in Ids, docs'[d] # docs[d]
      PROVE  Bears(d)'
  <2>1. docs[d] \in Row /\ d = w /\ docs'[d] = Written(t, docs[d])
    BY <1>2, <1>5 DEF Write
  <2>2. /\ docs'[d].status = Given(CallOf(t).status, docs[d].status)
        /\ docs'[d].date = Given(CallOf(t).date, docs[d].date)
        /\ docs'[d].text = Given(CallOf(t).text, docs[d].text)
        /\ docs'[d].to = Given(CallOf(t).to, docs[d].to)
        /\ docs'[d].writer = t
    BY <2>1 DEF Written, Row
  <2>3. t \in Requests => CallOf(t) = cast'.calls[t]
    BY <1>3 DEF CallOf
  <2> QED
    BY <2>2, <2>3 DEF Bears, Given
<1>6. CASE t \in Requests
  <2>1. Ready(t)'
    BY <1>4 DEF Ready
  <2>2. jobs' = jobs
    BY <1>6 DEF Write
  <2>3. t \notin DOMAIN jobs
    BY <1>6, JobCall DEF IInv
  <2> QED
    BY <1>3, <1>4, <1>5, <1>6, <2>1, <2>2, <2>3, OneMoves DEF Past
<1>7. CASE t \notin Requests
  <2>1. t \in DOMAIN jobs /\ jobs' = [jobs EXCEPT ![t].state = "done"]
    BY <1>1, <1>7, RequestCall DEF Write, IInv
  <2>2. Queued(t) /\ Kept(t)
    BY <2>1 DEF IInv, JobsInv, Match
  <2>3. jobs[t].state # "pending"
    <3>1. task[t].pc \in Moving
      BY <1>3 DEF Moving
    <3> QED
      BY <2>2, <3>1 DEF Queued, Kept
  <2>4. task'[t].pc \notin Moving
    BY <1>4 DEF Moving
  <2> QED
    BY <1>3, <1>4, <1>5, <2>1, <2>3, <2>4, JobActs
<1> QED
  BY <1>6, <1>7

\* A worker takes a job when it is due; mails are over before the mark.
LEMMA WorkerMatch ==
    ASSUME IInv, TypeOK', Match, NEW j \in JobNos, TakeJob(j) \/ EndMails(j)
    PROVE  Match'
<1>1. j \in DOMAIN jobs /\ UNCHANGED <<cast, now, docs>> /\ task \in [Tasks -> Work]
  BY DEF TakeJob, EndMails, Running, IInv, TypeOK
<1>2. CASE TakeJob(j)
  <2>1. /\ jobs' = [jobs EXCEPT ![j].state = "running"] /\ jobs[j].due <= now
        /\ \A s \in Tasks : s # j => task'[s] = task[s]
    BY <1>1, <1>2 DEF TakeJob, Goto
  <2> QED
    BY <1>1, <2>1, JobActs
<1>3. CASE EndMails(j)
  <2>1. /\ jobs' = [jobs EXCEPT ![j].state = "done"] /\ jobs[j].state = "running" /\ jobs[j].kind = "email"
        /\ \A s \in Tasks : s # j => task'[s] = task[s]
    BY <1>1, <1>3 DEF EndMails, Goto, Running
  <2>2. jobs[j].state # "pending"
    BY <2>1
  <2> QED
    BY <1>1, <2>1, <2>2, JobActs
<1> QED
  BY <1>2, <1>3

\* Mails are sent, or time goes on.
LEMMA RestMatch ==
    ASSUME IInv, TypeOK', Match, UNCHANGED <<cast, docs, jobs, task>>, now' = now \/ now' = now + 1
    PROVE  Match'
<1>1. TypeOK /\ JobsInv /\ now <= now'
  BY DEF IInv, TypeOK
<1>2. \A j \in DOMAIN jobs : Kept(j)
  BY DEF Match
<1>3. \A j \in DOMAIN jobs : jobs[j].kind # "email" /\ task'[j].pc \in Moving => jobs'[j].state = "running"
  BY <1>2 DEF Kept
<1> QED
  BY <1>1, <1>3, MatchKept

\* The process ends: what was running is given out again, later.
LEMMA EndMatch ==
    ASSUME IInv, TypeOK', Match, End
    PROVE  Match'
<1>1. TypeOK /\ JobsInv /\ UNCHANGED <<cast, now, docs>> /\ now <= now'
  BY DEF IInv, End, TypeOK
<1>2. DOMAIN jobs \subseteq Tasks /\ DOMAIN cast.calls \subseteq Tasks /\ DOMAIN cast.calls \cap JobNos = {}
  BY <1>1, Numbers
<1>3. \A t \in Tasks :
         task'[t] = IF task[t].pc \notin Moving THEN task[t]
                    ELSE IF t \in JobNos /\ jobs[t].state = "running" THEN Idle
                    ELSE [task[t] EXCEPT !.pc = "failed"]
  BY DEF End
<1>4. \A t \in Tasks : task[t] \in Work
  BY <1>1 DEF TypeOK
<1>5. ASSUME NEW t \in Tasks
      PROVE  task'[t].pc \notin Moving
  <2>1. CASE task[t].pc \notin Moving
    BY <1>3, <2>1
  <2>2. CASE task'[t] = Idle
    BY <2>2 DEF Idle, Moving
  <2>3. CASE task'[t] = [task[t] EXCEPT !.pc = "failed"]
    <3>1. task'[t].pc = "failed"
      BY <1>4, <2>3 DEF Work
    <3> QED
      BY <3>1 DEF Moving
  <2> QED
    BY <1>3, <2>1, <2>2, <2>3
<1>6. ASSUME NEW r \in DOMAIN cast.calls
      PROVE  /\ task[r].pc \in Past => task'[r].pc \in Past /\ task'[r].seen = task[r].seen
             /\ task'[r] = task[r] \/ Ready(r)'
  <2>1. task'[r] = task[r] \/ task'[r] = [task[r] EXCEPT !.pc = "failed"]
    BY <1>2, <1>3
  <2>2. CASE task'[r] = [task[r] EXCEPT !.pc = "failed"]
    <3>1. task'[r].pc = "failed" /\ task'[r].seen = task[r].seen
      BY <1>2, <1>4, <2>2 DEF Work
    <3> QED
      BY <3>1 DEF Past, Ready
  <2> QED
    BY <2>1, <2>2
<1>7. ASSUME NEW j \in DOMAIN jobs
      PROVE  /\ j \in DOMAIN jobs' /\ jobs'[j].by = jobs[j].by /\ jobs'[j].kind = jobs[j].kind
             /\ jobs'[j].text = jobs[j].text /\ jobs'[j].users = jobs[j].users /\ jobs'[j].due = jobs[j].due
             /\ jobs'[j].state # "pending" => jobs[j].state # "pending"
  <2>1. jobs[j] \in JobRow
    BY <1>1, JobCall
  <2>2. DOMAIN jobs' = DOMAIN jobs /\ jobs'[j] = AfterEnd(jobs[j])
    BY DEF End
  <2> QED
    BY <2>1, <2>2 DEF AfterEnd, JobRow
<1>8. \A j \in DOMAIN jobs' \ DOMAIN jobs : Kept(j)'
  BY DEF End
<1> QED
  BY <1>1, <1>2, <1>5, <1>6, <1>7, <1>8, MatchKept

\* A call fails.
LEMMA FailsMatch ==
    ASSUME IInv, TypeOK', Match, NEW t \in Tasks, task[t].pc \in Moving, Fails(t)
    PROVE  Match'
<1>1. task[t] \in Work /\ task \in [Tasks -> Work]
  BY DEF IInv, TypeOK
<1>2. t \in DOMAIN cast.calls \/ t \in DOMAIN jobs
  BY Under DEF Moving, IInv
<1>3. CASE t \in Requests
  <2>1. task' = [task EXCEPT ![t].pc = "failed"] /\ UNCHANGED <<cast, now, docs, jobs>>
    BY <1>3 DEF Fails, Goto
  <2>2. task'[t].pc = "failed" /\ \A s \in Tasks : s # t => task'[s] = task[s]
    BY <1>1, <2>1 DEF Work
  <2>3. Ready(t)'
    BY <2>2 DEF Ready
  <2>4. task[t].pc \notin Past \/ task[t].pc = "write"
    BY DEF Past, Moving
  <2>5. task'[t].seen = task[t].seen
    BY <1>1, <2>1 DEF Work
  <2> QED
    BY <2>1, <2>2, <2>3, <2>5, OneMoves DEF Past
<1>4. CASE t \notin Requests /\ jobs[t].kind = "post"
  <2>1. /\ t \in DOMAIN jobs
        /\ jobs' = [jobs EXCEPT ![t].state = "failed"] /\ task' = [task EXCEPT ![t].pc = "failed"]
        /\ UNCHANGED <<cast, now, docs>>
    BY <1>2, <1>4, RequestCall DEF Fails, Goto, IInv
  <2>2. task'[t].pc \notin Moving /\ \A s \in Tasks : s # t => task'[s] = task[s]
    BY <1>1, <2>1 DEF Work, Moving
  <2>3. jobs[t].state # "pending"
    <3>1. Kept(t)
      BY <2>1 DEF Match
    <3> QED
      BY <1>4, <3>1 DEF Kept
  <2> QED
    BY <2>1, <2>2, <2>3, JobActs
<1>5. CASE t \notin Requests /\ jobs[t].kind # "post"
  BY <1>5, EndMatch DEF Fails
<1> QED
  BY <1>3, <1>4, <1>5

\* At first there is no job and no row of a request.
LEMMA InitMatch == Init => Match
<1> SUFFICES ASSUME Init PROVE Match
  OBVIOUS
<1>1. TypeOK
  BY InitTypes
<1>2. ASSUME NEW r \in DOMAIN cast.calls
      PROVE  Ready(r)
  <2>1. r \in Tasks
    BY <1>1, Numbers
  <2>2. task[r].pc = "idle"
    BY <2>1 DEF Init, Idle
  <2> QED
    BY <2>2 DEF Ready
<1>3. ASSUME NEW d \in Ids
      PROVE  Bears(d)
  <2>1. docs[d] = Nothing \/ (d \in DOMAIN cast.docs /\ docs[d] = cast.docs[d])
    BY DEF Init
  <2>2. d \in DOMAIN cast.docs => cast.docs[d].writer \in Drafts
    BY PublishingAssumption DEF Init
  <2> QED
    BY <2>1, <2>2, PublishingAssumption DEF Bears
<1>4. \A j \in DOMAIN jobs : Kept(j)
  BY DEF Init
<1> QED
  BY <1>2, <1>3, <1>4 DEF Match

\* Every step keeps jobs and rows matching.
LEMMA MatchStep == IInv /\ Match /\ [Next]_pvars => Match'
<1> SUFFICES ASSUME IInv, Match, [Next]_pvars PROVE Match'
  OBVIOUS
<1>0. TypeOK'
  BY TypeStep DEF IInv
<1>1. ASSUME NEW t \in Requests, Begin(t)
      PROVE  Match'
  BY <1>0, <1>1, MoveMatch DEF Tasks
<1>2. ASSUME NEW t \in Tasks, CallStep(t)
      PROVE  Match'
  <2>1. FindNone(t) => Fails(t) /\ task[t].pc \in Moving
    BY DEF FindNone, At, Moving
  <2> QED
    BY <1>0, <1>2, <2>1, MoveMatch, SaveMatch, QueueNewMatch, UpdateMatch, WriteMatch, FailsMatch DEF CallStep
<1>3. ASSUME NEW t \in Tasks, FailTask(t)
      PROVE  Match'
  BY <1>0, <1>3, FailsMatch DEF FailTask
<1>4. ASSUME NEW j \in JobNos, JobStep(j)
      PROVE  Match'
  <2>1. NextBatch(j) \/ (\E p \in People : Mail(j, p)) => UNCHANGED <<cast, now, docs, jobs, task>>
    BY DEF NextBatch, Mail
  <2> QED
    BY <1>0, <1>4, <2>1, WorkerMatch, RestMatch DEF JobStep
<1>5. CASE Restart
  BY <1>0, <1>5, EndMatch DEF Restart
<1>6. CASE Tick \/ UNCHANGED pvars
  BY <1>0, <1>6, RestMatch DEF Tick, pvars
<1> QED
  BY <1>1, <1>2, <1>3, <1>4, <1>5, <1>6 DEF Next

\* A job whose row stands as its call left it is due when the row says, and
\* carries the row's text and people.
LEMMA Fits ==
    ASSUME IInv, Match, NEW j \in DOMAIN jobs, jobs[j].state # "pending",
           docs[jobs[j].doc] # Nothing, docs[jobs[j].doc].writer = jobs[j].by,
           docs[jobs[j].doc].status = "Scheduled"
    PROVE  LET row == docs[jobs[j].doc]
           IN  /\ row.date <= now
               /\ jobs[j].kind = "email" =>
                     /\ row.text # jobs[j].text =>
                           /\ CallOf(jobs[j].by).text = Nothing
                           /\ row.text # task[jobs[j].by].seen.text
                     /\ jobs[j].users = Recipients(row.to) \/ CallOf(jobs[j].by).to = Nothing
<1> DEFINE row == docs[jobs[j].doc]
<1>1. Kept(j) /\ Queued(j)
  BY DEF Match, IInv, JobsInv
<1>2. PICK r \in DOMAIN cast.calls : r = jobs[j].by
  BY <1>1 DEF Queued
<1> DEFINE c == cast.calls[r]
<1>3. r \in Requests /\ CallOf(jobs[j].by) = c
  BY <1>2, RequestCall DEF IInv
<1>4. jobs[j].doc \in Ids
  BY JobCall DEF IInv, JobRow
<1>5. Bears(jobs[j].doc)
  BY <1>4 DEF Match
<1>6. /\ c.status # Nothing => row.status = c.status
      /\ c.date # Nothing => row.date = c.date
      /\ c.text # Nothing => row.text = c.text
      /\ c.to # Nothing => row.to = c.to
  BY <1>2, <1>3, <1>5 DEF Bears
<1>7. /\ c.status # Nothing
      /\ c.status = "Scheduled" => c.date # Nothing /\ c.date <= jobs[j].due
      /\ jobs[j].kind = "email" => /\ jobs[j].text = Wording(c, task[r].seen)
                                   /\ jobs[j].users = Recipients(c.to)
      /\ jobs[j].due <= now
  BY <1>1, <1>2 DEF Kept
<1>8. row.date <= now
  <2>1. row.date = c.date /\ c.date # Nothing /\ c.date <= jobs[j].due
    BY <1>6, <1>7
  <2>2. c.date \in Int /\ jobs[j].due \in Int /\ now \in Int
    BY <2>1, Numbers DEF IInv
  <2> QED
    BY <1>7, <2>1, <2>2
<1> QED
  BY <1>2, <1>3, <1>6, <1>7, <1>8 DEF Wording
-----------------------------------------------------------------------------
(* the theorems *)

\* The invariant holds throughout.
LEMMA Invariant == Spec => []IInv
  BY InitInv, Inductive, PTL DEF Spec

\* Jobs match the rows they were made for throughout.
LEMMA Matched == Spec => [](IInv /\ Match)
<1>1. Init => IInv /\ Match
  BY InitInv, InitMatch
<1>2. IInv /\ Match /\ [Next]_pvars => (IInv /\ Match)'
  BY Inductive, MatchStep
<1> QED
  BY <1>1, <1>2, PTL DEF Spec

\* Rows, jobs, calls and mails have their types.
THEOREM TypeCorrect == Spec => []TypeOK
<1>1. IInv => TypeOK
  BY DEF IInv
<1> QED
  BY <1>1, Invariant, PTL

\* An email that says Sent has been tried with each of its addressees, or is
\* on the way to them, or was marked so by an editor, whatever the batches,
\* failures and restarts.
THEOREM SentMailed == Spec => []SentIsMailed
<1>1. IInv => SentIsMailed
  BY DEF IInv, RowsInv, Accounted, SentBy, SentIsMailed
<1> QED
  BY <1>1, Invariant, PTL

\* A row that a call has scheduled has its job before it, but for the faults
\* that ScheduledIsPlanned names.
THEOREM ScheduledPlanned == Spec => []ScheduledIsPlanned
<1>1. IInv => ScheduledIsPlanned
  BY DEF IInv, RowsInv, Accounted, PlannedBy, ScheduledIsPlanned
<1> QED
  BY <1>1, Invariant, PTL

\* A job that acts while its row stands as the call that queued it left it
\* acts no earlier than the row says, and mails the text of the row to the
\* people of the row, but for what the call did not name.
THEOREM JobsMatchRows == Spec => JobMatchesItsRow
<1>1. IInv /\ Match /\ [Next]_pvars =>
         [\A j \in DOMAIN jobs :
            LET row == docs[jobs[j].doc]
            IN  /\ mails'[j] # mails[j] \/ (jobs[j].kind = "post" /\ At(j, "write") /\ task'[j].pc = "done")
                /\ row # Nothing
                /\ row.writer = jobs[j].by
                /\ row.status = "Scheduled"
                => /\ row.date <= now
                   /\ jobs[j].kind = "email" =>
                         /\ row.text # jobs[j].text =>
                               /\ CallOf(jobs[j].by).text = Nothing
                               /\ row.text # task[jobs[j].by].seen.text
                         /\ jobs[j].users = Recipients(row.to) \/ CallOf(jobs[j].by).to = Nothing]_pvars
  <2> SUFFICES ASSUME IInv, Match, [Next]_pvars, NEW j \in DOMAIN jobs,
                      mails'[j] # mails[j] \/ (jobs[j].kind = "post" /\ At(j, "write"))
               PROVE  jobs[j].state # "pending" \/ UNCHANGED pvars
    BY Fits
  <2>1. CASE jobs[j].kind = "post" /\ At(j, "write")
    <3>1. Kept(j)
      BY DEF Match
    <3> QED
      BY <2>1, <3>1 DEF Kept, At, Moving
  <2>2. CASE mails'[j] # mails[j]
    <3>1. ASSUME NEW k \in JobNos, NEW p \in People, Mail(k, p)
          PROVE  jobs[j].state # "pending"
      <4>1. mails' = [mails EXCEPT ![k] = mails'[k]] /\ k \in DOMAIN jobs /\ jobs[k].state = "running"
        BY <3>1 DEF Mail, MailFails, Running, IInv, TypeOK
      <4>2. j = k
        <5>1. mails \in [JobNos -> [People -> Nat]] /\ j \in JobNos
          BY JobCall DEF IInv, TypeOK
        <5> QED
          BY <2>2, <4>1, <5>1
      <4> QED
        BY <4>1, <4>2
    <3>2. CASE mails' = mails
      BY <2>2, <3>2
    <3>3. (\E k \in JobNos, p \in People : Mail(k, p)) \/ mails' = mails
      BY DEF Next, Begin, CallStep, FailTask, JobStep, Tick, Restart, UploadNew, RecipientsNew, Save, QueueNew,
             Find, Upload, RecipientsOld, Write, FindNone, FindToRemove, Delete, Fails, End,
             TakeJob, NextBatch, EndMails, pvars
    <3> QED
      BY <3>1, <3>2, <3>3
  <2> QED
    BY <2>1, <2>2
<1> QED
  BY <1>1, Matched, PTL DEF Spec, JobMatchesItsRow
=============================================================================
