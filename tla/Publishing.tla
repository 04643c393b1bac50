----------------------------- MODULE Publishing -----------------------------
(***************************************************************************)
(* The admins' documents: broadcast emails (EmailCenterService), blog      *)
(* posts (BlogManagerService) and courses (LearningHubService), and the    *)
(* two queues whose workers send an email or publish a post when it is     *)
(* due.  A row and the job it waits for are written by separate calls and  *)
(* nothing ties them together afterwards.  One action is what the code     *)
(* does between two waits.                                                 *)
(***************************************************************************)
EXTENDS Integers, Sequences, FiniteSets

CONSTANTS
    Requests,       \* HTTP requests; the row one creates has its name
    Drafts,         \* the rows there are at first
    People,
    Audience,       \* who a recipient group is made of
    MaxTries,       \* maxRetries, 3 in the code
    BatchSize,      \* 10 in the code
    MaxDate,        \* bound on the dates asked for
    MaxJobs,        \* bound on the jobs ever queued
    MaxRestarts,    \* bound on the times the process is ended from outside
    Casts,          \* bound: the rows, requests and faults of a behaviour
    Nothing

Kinds  == {"email", "post", "course"}
Status == {"Draft", "Scheduled", "Sent", "Published"}
Dates  == (0..MaxDate) \cup {Nothing}
Groups == DOMAIN Audience
Ids    == Requests \cup Drafts
JobNos == 1..MaxJobs
Tasks  == Requests \cup JobNos

\* What a request asks.  A field it leaves out is Nothing.
Call == [op : {"create", "update", "remove"}, kind : Kinds, doc : Ids,
         status : Status \cup {Nothing}, date : Dates, text : STRING \cup {Nothing},
         to : Groups \cup {Nothing}, by : {"author", "admin", "other", "job"}, file : BOOLEAN]

\* A row; writer and setter are history: who wrote it last, who wrote its
\* status, and whether the job that one queued had been taken by then.
Row == [kind : Kinds, status : Status, date : Dates, text : STRING, to : Groups \cup {Nothing},
        writer : Tasks \cup Drafts, setter : Tasks \cup Drafts, late : BOOLEAN]

\* Posts are not sent; courses are not scheduled either.  What creates a row
\* tells its text and its status.
Sound(c) ==
    /\ c.kind = "post" => c.status # "Sent"
    /\ c.kind = "course" => c.status \notin {"Sent", "Scheduled"}
    /\ c.op = "create" => c.status # Nothing /\ c.text # Nothing

ASSUME PublishingAssumption ==
    /\ MaxTries \in Nat \ {0} /\ BatchSize \in Nat \ {0}
    /\ MaxDate \in Nat /\ MaxJobs \in Nat /\ MaxRestarts \in Nat
    /\ Audience \in [Groups -> SUBSET People]
    /\ \A c \in Casts :
          /\ c.faults \subseteq {"call", "mail", "end"}
          /\ DOMAIN c.docs \subseteq Drafts
          /\ \A d \in DOMAIN c.docs : c.docs[d] \in Row /\ c.docs[d].status = "Draft"
                                       /\ c.docs[d].setter \in Drafts /\ c.docs[d].writer \in Drafts
          /\ DOMAIN c.calls \subseteq Requests
          /\ \A r \in DOMAIN c.calls :
                /\ c.calls[r] \in Call /\ Sound(c.calls[r])
                /\ c.calls[r].op = "create" => c.calls[r].doc = r
    /\ Requests \cap JobNos = {} /\ Requests \cap Drafts = {} /\ Drafts \cap JobNos = {}
    /\ Nothing \notin Row \cup Status

VARIABLES
    cast,
    now,
    docs,           \* tables email_center, blog_manager and learning_hub
    jobs,           \* both queues, in the order the jobs were added
    task,           \* the calls under way, of requests and of jobs
    sending,        \* the email job the worker is at
    mails,          \* history: mails of a job that reached a person
    settled,        \* history: whom a job has reached or given up
    restarts

pvars == <<cast, now, docs, jobs, task, sending, mails, settled, restarts>>

Idle   == [pc |-> "idle", seen |-> Nothing, delay |-> 0, users |-> {}, job |-> 0]
Quiet  == [todo |-> {}, batch |-> {}, tries |-> [p \in People |-> 0]]
Moving == {"upload", "recipients", "save", "queue", "find", "write", "delete"}

CallOf(t) ==
    IF t \in Requests THEN cast.calls[t]
    ELSE [op |-> "update", kind |-> jobs[t].kind, doc |-> jobs[t].doc, text |-> Nothing,
          status |-> IF jobs[t].kind = "email" THEN "Sent" ELSE "Published",
          date |-> Nothing, to |-> Nothing, by |-> "job", file |-> FALSE]

At(t, label)   == task[t].pc = label
Goto(t, label) == task' = [task EXCEPT ![t].pc = label]

Init ==
    /\ cast \in Casts
    /\ now = 1
    /\ docs = [d \in Ids |-> IF d \in DOMAIN cast.docs THEN cast.docs[d] ELSE Nothing]
    /\ jobs = <<>>
    /\ task = [t \in Tasks |-> Idle]
    /\ sending = Quiet
    /\ mails = [j \in JobNos |-> [p \in People |-> 0]]
    /\ settled = [j \in JobNos |-> {}]
    /\ restarts = 0

\* Time goes on while a date or a job is still to come.
Tick ==
    /\ now < MaxDate \/ \E j \in DOMAIN jobs : jobs[j].state = "pending" /\ jobs[j].due > now
    /\ now' = now + 1
    /\ UNCHANGED <<cast, docs, jobs, task, sending, mails, settled, restarts>>
-----------------------------------------------------------------------------
(* adding a job *)

\* Mutant of Job: the delay is not handed to the queue.
Job_NoDelay(t, text, users, delay) ==
    [doc |-> CallOf(t).doc, kind |-> CallOf(t).kind, text |-> text, users |-> users,
     due |-> now, by |-> t, state |-> "pending"]

\* The queue counts the delay from when the job is added.
Job(t, text, users, delay) ==
    [doc |-> CallOf(t).doc, kind |-> CallOf(t).kind, text |-> text, users |-> users,
     due |-> now + delay, by |-> t, state |-> "pending"]

Queue(t, text, users, delay) ==
    /\ Len(jobs) < MaxJobs
    /\ jobs' = Append(jobs, Job(t, text, users, delay))

Recipients(to) == IF to = Nothing THEN {} ELSE Audience[to]
-----------------------------------------------------------------------------
(* create *)

Delay(c) == IF c.status = "Scheduled" /\ c.date # Nothing THEN c.date - now ELSE 0

\* An email that is sent at once must bear a date too; of a post or a course
\* the files go up first.
Begin(t) ==
    LET c == CallOf(t)
    IN  /\ t \in DOMAIN cast.calls
        /\ At(t, "idle")
        /\ task' = [task EXCEPT ![t] =
              [@ EXCEPT !.pc =
                  CASE c.op = "remove" /\ c.kind = "email" -> "delete"
                    [] c.op = "remove" /\ c.kind # "email" -> "find"
                    [] c.op = "update" -> "find"
                    [] c.op = "create" /\ c.kind = "email" -> IF c.date = Nothing THEN "failed" ELSE "recipients"
                    [] c.op = "create" /\ c.kind # "email" -> IF c.file THEN "upload" ELSE "save",
                        !.delay = Delay(c)]]
        /\ UNCHANGED <<cast, now, docs, jobs, sending, mails, settled, restarts>>

\* The file is stored.
UploadNew(t) ==
    /\ At(t, "upload") /\ CallOf(t).op = "create"
    /\ task' = [task EXCEPT ![t] = [@ EXCEPT !.pc = "save", !.delay = Delay(CallOf(t))]]
    /\ UNCHANGED <<cast, now, docs, jobs, sending, mails, settled, restarts>>

\* The addresses are read before the email is saved.
RecipientsNew(t) ==
    LET c == CallOf(t)
    IN  /\ At(t, "recipients") /\ c.op = "create"
        /\ task' = [task EXCEPT ![t] = [@ EXCEPT !.pc = "save", !.users = Recipients(c.to), !.delay = Delay(c)]]
        /\ UNCHANGED <<cast, now, docs, jobs, sending, mails, settled, restarts>>

\* An email is sent by the queue even when it is not scheduled.
Waits(c) == (c.kind # "course" /\ c.status = "Scheduled") \/ c.status = "Sent"

\* A post scheduled without a date is refused before it is saved.
Save(t) ==
    LET c == CallOf(t)
    IN  /\ At(t, "save")
        /\ IF c.kind = "post" /\ c.status = "Scheduled" /\ c.date = Nothing
           THEN Goto(t, "failed") /\ UNCHANGED docs
           ELSE /\ docs' = [docs EXCEPT ![t] =
                     [kind |-> c.kind, status |-> c.status, date |-> c.date, text |-> c.text,
                      to |-> c.to, writer |-> t, setter |-> t, late |-> FALSE]]
                /\ Goto(t, IF Waits(c) THEN "queue" ELSE "done")
        /\ UNCHANGED <<cast, now, jobs, sending, mails, settled, restarts>>

QueueNew(t) ==
    /\ At(t, "queue")
    /\ Queue(t, CallOf(t).text, task[t].users, task[t].delay)
    /\ task' = [task EXCEPT ![t] = [@ EXCEPT !.pc = "done", !.job = Len(jobs) + 1]]
    /\ UNCHANGED <<cast, now, docs, sending, mails, settled, restarts>>
-----------------------------------------------------------------------------
(* update *)

MayEdit(c)   == c.kind = "email" \/ c.by # "other"
MayRemove(c) == c.kind = "email" \/ c.by = "author" \/ (c.kind = "post" /\ c.by = "admin")

\* The change of status that makes a job: of an email from any other status,
\* of a post from Draft only.
Schedules(c, seen) ==
    /\ c.status = "Scheduled"
    /\ \/ c.kind = "email" /\ seen.status # "Scheduled"
       \/ c.kind = "post" /\ seen.status = "Draft"

\* What update does with the row as it was read.  The job of a post is added
\* here, before the row is written.
Decide(t, seen) ==
    LET c == CallOf(t)
        next == [task[t] EXCEPT !.seen = seen]
    IN  IF ~Schedules(c, seen)
        THEN task' = [task EXCEPT ![t] = [next EXCEPT !.pc = "write"]] /\ UNCHANGED jobs
        ELSE IF c.date = Nothing \/ c.date <= now
        THEN Goto(t, "failed") /\ UNCHANGED jobs
        ELSE IF c.kind = "email"
        THEN /\ task' = [task EXCEPT ![t] = [next EXCEPT !.pc = "recipients", !.delay = c.date - now]]
             /\ UNCHANGED jobs
        ELSE /\ Queue(t, Nothing, {}, c.date - now)
             /\ task' = [task EXCEPT ![t] = [next EXCEPT !.pc = "write", !.job = Len(jobs) + 1]]

\* The row is read; a file that came along goes up while others may write.
Find(t) ==
    LET c == CallOf(t)
        row == docs[c.doc]
    IN  /\ At(t, "find") /\ c.op = "update" /\ row # Nothing
        /\ IF ~MayEdit(c) THEN Goto(t, "failed") /\ UNCHANGED jobs
           ELSE IF c.file
           THEN task' = [task EXCEPT ![t] = [@ EXCEPT !.pc = "upload", !.seen = row]] /\ UNCHANGED jobs
           ELSE Decide(t, row)
        /\ UNCHANGED <<cast, now, docs, sending, mails, settled, restarts>>

Upload(t) ==
    /\ At(t, "upload") /\ CallOf(t).op = "update"
    /\ Decide(t, task[t].seen)
    /\ UNCHANGED <<cast, now, docs, sending, mails, settled, restarts>>

Wording(c, seen) == IF c.text = Nothing THEN seen.text ELSE c.text

\* The addresses of an update are those of the group it names itself, not of
\* the one the draft names; the job is added before the row is written.
RecipientsOld(t) ==
    LET c == CallOf(t)
    IN  /\ At(t, "recipients") /\ c.op = "update"
        /\ Queue(t, Wording(c, task[t].seen), Recipients(c.to), task[t].delay)
        /\ task' = [task EXCEPT ![t] = [@ EXCEPT !.pc = "write", !.job = Len(jobs) + 1]]
        /\ UNCHANGED <<cast, now, docs, sending, mails, settled, restarts>>

Given(new, old) == IF new = Nothing THEN old ELSE new

\* The columns that are given are written to the row, if it is still there.
Written(t, row) ==
    LET c == CallOf(t)
        j == task[t].job
    IN  [row EXCEPT !.status = Given(c.status, @), !.date = Given(c.date, @),
                    !.text = Given(c.text, @), !.to = Given(c.to, @),
                    !.writer = t,
                    !.setter = IF c.status = Nothing THEN @ ELSE t,
                    !.late = IF c.status = Nothing THEN @ ELSE j # 0 /\ jobs[j].state # "pending"]

\* The job of a post is over with its update; the update of an email is made
\* when its job is over.
Write(t) ==
    LET d == CallOf(t).doc
    IN  /\ At(t, "write")
        /\ docs' = IF docs[d] = Nothing THEN docs ELSE [docs EXCEPT ![d] = Written(t, @)]
        /\ Goto(t, "done")
        /\ jobs' = IF t \in Requests THEN jobs ELSE [jobs EXCEPT ![t].state = "done"]
        /\ UNCHANGED <<cast, now, sending, mails, settled, restarts>>
-----------------------------------------------------------------------------
(* remove *)

FindToRemove(t) ==
    LET c == CallOf(t)
    IN  /\ At(t, "find") /\ c.op = "remove"
        /\ Goto(t, IF docs[c.doc] # Nothing /\ MayRemove(c) THEN "delete" ELSE "failed")
        /\ UNCHANGED <<cast, now, docs, jobs, sending, mails, settled, restarts>>

\* The row goes; a job that waits for it stays.
Delete(t) ==
    /\ At(t, "delete")
    /\ docs' = [docs EXCEPT ![CallOf(t).doc] = Nothing]
    /\ Goto(t, "done")
    /\ UNCHANGED <<cast, now, jobs, sending, mails, settled, restarts>>
-----------------------------------------------------------------------------
(* the two workers *)

Running(kind) == {j \in DOMAIN jobs : jobs[j].kind = kind /\ jobs[j].state = "running"}

\* A worker takes one job at a time; that of a post is an update.
TakeJob(j) ==
    /\ j \in DOMAIN jobs
    /\ jobs[j].state = "pending" /\ jobs[j].due <= now
    /\ Running(jobs[j].kind) = {}
    /\ jobs' = [jobs EXCEPT ![j].state = "running"]
    /\ IF jobs[j].kind = "email"
       THEN sending' = [Quiet EXCEPT !.todo = jobs[j].users] /\ UNCHANGED task
       ELSE Goto(j, "find") /\ UNCHANGED sending
    /\ UNCHANGED <<cast, now, docs, mails, settled, restarts>>

\* sendEmail goes through the addresses batch by batch ...
NextBatch(j) ==
    /\ j \in Running("email")
    /\ sending.batch = {} /\ sending.todo # {}
    /\ \E batch \in SUBSET sending.todo :
          /\ \/ Cardinality(batch) = BatchSize
             \/ batch = sending.todo /\ Cardinality(batch) < BatchSize
          /\ sending' = [sending EXCEPT !.batch = batch, !.todo = @ \ batch]
    /\ UNCHANGED <<cast, now, docs, jobs, task, mails, settled, restarts>>

GivesUp(p) == sending.tries[p] + 1 = MaxTries

\* Mutant of MailFails: one that is given up breaks off the job.
MailFails_Breaks(j, p, reached) ==
    /\ sending' = [sending EXCEPT !.tries[p] = @ + 1, !.todo = IF GivesUp(p) THEN {} ELSE @,
                             !.batch = IF GivesUp(p) THEN {} ELSE @]
    /\ settled' = [settled EXCEPT ![j] = IF GivesUp(p) THEN @ \cup {p} ELSE @]
    /\ mails' = [mails EXCEPT ![j][p] = IF reached THEN @ + 1 ELSE @]

\* ... and tries each again that fails.  A mail whose answer is late has
\* reached its addressee and counts as a failure.
MailFails(j, p, reached) ==
    /\ sending' = [sending EXCEPT !.tries[p] = @ + 1, !.batch = IF GivesUp(p) THEN @ \ {p} ELSE @]
    /\ settled' = [settled EXCEPT ![j] = IF GivesUp(p) THEN @ \cup {p} ELSE @]
    /\ mails' = [mails EXCEPT ![j][p] = IF reached THEN @ + 1 ELSE @]

Mail(j, p) ==
    /\ j \in Running("email") /\ p \in sending.batch
    /\ \/ /\ sending' = [sending EXCEPT !.batch = @ \ {p}]
          /\ settled' = [settled EXCEPT ![j] = @ \cup {p}]
          /\ mails' = [mails EXCEPT ![j][p] = @ + 1]
       \/ "mail" \in cast.faults /\ \E reached \in BOOLEAN : MailFails(j, p, reached)
    /\ UNCHANGED <<cast, now, docs, jobs, task, restarts>>

\* Mutant of EndMails: the row is not marked.
EndMails_NoMark(j) ==
    /\ j \in Running("email")
    /\ sending.batch = {} /\ sending.todo = {}
    /\ jobs' = [jobs EXCEPT ![j].state = "done"]
    /\ UNCHANGED <<cast, now, docs, task, sending, mails, settled, restarts>>

\* The job is completed, whoever was reached, and only then is the row to be
\* marked, by a call nobody waits for.
EndMails(j) ==
    /\ j \in Running("email")
    /\ sending.batch = {} /\ sending.todo = {}
    /\ jobs' = [jobs EXCEPT ![j].state = "done"]
    /\ Goto(j, "find")
    /\ UNCHANGED <<cast, now, docs, sending, mails, settled, restarts>>
-----------------------------------------------------------------------------
(* failures *)

\* Mutant of AfterEnd: a job that was running is not given out again.
AfterEnd_Drops(job) == IF job.state = "running" THEN [job EXCEPT !.state = "done"] ELSE job

\* The queue gives a job out again that was running for too long.
AfterEnd(job) == IF job.state = "running" THEN [job EXCEPT !.state = "pending"] ELSE job

\* The process ends: requests and the updates after emails are cut off.
End ==
    /\ restarts' = restarts + 1
    /\ jobs' = [j \in DOMAIN jobs |-> AfterEnd(jobs[j])]
    /\ sending' = Quiet
    /\ task' = [t \in Tasks |->
                  IF task[t].pc \notin Moving THEN task[t]
                  ELSE IF t \in JobNos /\ jobs[t].state = "running" THEN Idle
                  ELSE [task[t] EXCEPT !.pc = "failed"]]
    /\ UNCHANGED <<cast, now, docs, mails, settled>>

Restart == "end" \in cast.faults /\ restarts < MaxRestarts /\ End

\* A call that fails is answered so; a post's job has failed for good; the
\* update after an email is awaited by nobody and its failure ends the process.
Fails(t) ==
    IF t \in Requests
    THEN Goto(t, "failed") /\ UNCHANGED <<cast, now, docs, jobs, sending, mails, settled, restarts>>
    ELSE IF jobs[t].kind = "post"
    THEN /\ Goto(t, "failed")
         /\ jobs' = [jobs EXCEPT ![t].state = "failed"]
         /\ UNCHANGED <<cast, now, docs, sending, mails, settled, restarts>>
    ELSE End

\* The row is gone.
FindNone(t) ==
    /\ At(t, "find") /\ CallOf(t).op = "update"
    /\ docs[CallOf(t).doc] = Nothing
    /\ Fails(t)

\* A call of the database or the file store fails, or an address is not valid.
\* The queue is a local file and does not fail.
FailTask(t) ==
    /\ "call" \in cast.faults
    /\ task[t].pc \in Moving \ {"queue"}
    /\ Fails(t)

CallStep(t) ==
    \/ UploadNew(t) \/ RecipientsNew(t) \/ Save(t) \/ QueueNew(t)
    \/ Find(t) \/ Upload(t) \/ RecipientsOld(t) \/ Write(t) \/ FindNone(t)
    \/ FindToRemove(t) \/ Delete(t)

JobStep(j) ==
    TakeJob(j) \/ NextBatch(j) \/ EndMails(j) \/ \E p \in People : Mail(j, p)

Next ==
    \/ \E t \in Requests : Begin(t)
    \/ \E t \in Tasks : CallStep(t) \/ FailTask(t)
    \/ \E j \in JobNos : JobStep(j)
    \/ Tick \/ Restart

\* Time goes on, the workers poll their queues, and calls begun go on.
Spec ==
    /\ Init /\ [][Next]_pvars
    /\ WF_pvars(Tick)
    /\ \A j \in JobNos : WF_pvars(JobStep(j)) /\ WF_pvars(CallStep(j))
-----------------------------------------------------------------------------
Placed(d) == docs[d] # Nothing

Labels == {"idle", "done", "failed"} \cup Moving
Work   == [pc : Labels, seen : Row \cup {Nothing}, delay : Int, users : SUBSET People, job : Nat]
JobRow == [doc : Ids, kind : Kinds, text : STRING \cup {Nothing}, users : SUBSET People, due : Int,
           by : Requests, state : {"pending", "running", "done", "failed"}]
Round  == [todo : SUBSET People, batch : SUBSET People, tries : [People -> Nat]]

TypeOK ==
    /\ cast \in Casts /\ now \in Nat /\ restarts \in Nat
    /\ docs \in [Ids -> Row \cup {Nothing}]
    /\ jobs \in Seq(JobRow) /\ Len(jobs) <= MaxJobs
    /\ task \in [Tasks -> Work]
    /\ sending \in Round
    /\ mails \in [JobNos -> [People -> Nat]]
    /\ settled \in [JobNos -> SUBSET People]

\* The people of a job are to be tried, or have been.
Owed(j) == jobs[j].state \in {"pending", "running"} \/ jobs[j].users \subseteq settled[j]

\* An email that says Sent has been tried with each of its addressees, however
\* batches fail and the process ends; or it was to be sent at once and its job
\* is on the way, or was cut off before it was added; or an editor wrote Sent.
SentIsMailed ==
    \A d \in Ids :
        Placed(d) /\ docs[d].kind = "email" /\ docs[d].status = "Sent" =>
            LET s == docs[d].setter
            IN  \/ s \in JobNos /\ jobs[s].users \subseteq settled[s]
                \/ s \in Requests /\ CallOf(s).op = "update"
                \/ s \in Requests /\ task[s].pc \in {"queue", "failed"}
                \/ s \in Requests /\ \E j \in DOMAIN jobs : jobs[j].by = s /\ Owed(j)

\* The job is still to change its row, or cannot any more.
Coming(j) ==
    jobs[j].state \in {"pending", "running", "failed"} \/ task[j].pc \in Moving \cup {"failed"}

\* A row that a scheduling call has marked Scheduled has its job before it,
\* or the process ended between the row and the job or between the mails and
\* the mark, or a job failed, or the job overtook the write of the row.
ScheduledIsPlanned ==
    \A d \in Ids :
        Placed(d) /\ docs[d].status = "Scheduled" /\ docs[d].setter \in Requests =>
            LET s == docs[d].setter
            IN  \/ docs[d].late
                \/ CallOf(s).op = "create" /\ task[s].pc \in {"queue", "failed"}
                \/ CallOf(s).op = "update" /\ ~Schedules(CallOf(s), task[s].seen)
                \/ \E j \in DOMAIN jobs : jobs[j].by = s /\ Coming(j)

\* A job that acts while its row stands as the call that queued it left it
\* acts no earlier than the row says, and mails the text of the row to the
\* people of the row, unless that call named no group, or no text and another
\* wrote one between its reading and its writing.  A job whose row was edited
\* since, or unscheduled, or removed, acts all the same.
JobMatchesItsRow ==
    [][\A j \in DOMAIN jobs :
          LET row == docs[jobs[j].doc]
          IN  /\ mails'[j] # mails[j] \/ (jobs[j].kind = "post" /\ At(j, "write") /\ task'[j].pc = "done")
              /\ row # Nothing
              /\ row.writer = jobs[j].by
              /\ row.status = "Scheduled"
              => /\ row.date <= now
                 /\ jobs[j].kind = "email" =>
                       /\ row.text # jobs[j].text =>
                             /\ CallOf(jobs[j].by).text = Nothing
                             /\ row.text # task[jobs[j].by].seen.text
                       /\ jobs[j].users = Recipients(row.to) \/ CallOf(jobs[j].by).to = Nothing]_pvars

\* What is scheduled comes true: the row does not stay as it is while its job
\* waits, unless the job fails or the mark after the mails is cut off.
ScheduledComesTrue ==
    \A j \in JobNos :
        /\ j \in DOMAIN jobs
        /\ jobs[j].state = "pending"
        ~> /\ j \in DOMAIN jobs
           /\ LET row == docs[jobs[j].doc]
              IN  \/ jobs[j].state = "failed" \/ task[j].pc = "failed"
                  \/ row = Nothing \/ row.status # "Scheduled" \/ row.setter # jobs[j].by
=============================================================================
