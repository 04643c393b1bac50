------------------------------ MODULE Accounts ------------------------------
(***************************************************************************)
(* UsersService, AuthService, TwoFAService, GoogleStrategy, ReferralService *)
(* and RoleService: the rows of users, the rewards for bringing users and   *)
(* the privileges of a role.  Most operations load an entity, change some   *)
(* of its columns and save it: TypeORM reads the row once more and writes   *)
(* every loaded column that differs, so a save can undo what was written    *)
(* since the load.  Others update the columns they name.  One action is     *)
(* what the code does between two waits.                                    *)
(***************************************************************************)
EXTENDS Naturals, Sequences, FiniteSets

CONSTANTS
    Users,          \* e-mail addresses, each the key of at most one row
    Names,          \* usernames
    Requests,       \* HTTP requests; what one makes up bears its name
    Permissions,
    Casts,          \* bound: the calls of a behaviour, the rows it starts with and
                    \* what may fail by itself, a subset of {"request", "restart"}
    MaxRestarts,    \* bound on the times the process ends by itself
    Undefined,      \* a column the entity was not loaded with
    Nothing         \* null

Plain   == {"verified", "otp", "otpVerified", "hasPin", "tfa", "role", "username"}
Hidden  == {"password", "pin", "secret"}       \* select: false
Columns == Plain \cup Hidden

\* Codes are numbered as they are made up; those of the opening rows are 1.
Codes   == Nat
Old     == "old"                                \* the secrets of the opening rows

\* Rows of which some columns may have a value of missing instead.
Rows(missing) ==
    [verified : BOOLEAN \cup missing, otp : Codes \cup missing, otpVerified : BOOLEAN \cup missing,
     hasPin : BOOLEAN \cup missing, tfa : BOOLEAN \cup missing,
     role : {"FOLLOWER", "PRO_TRADER", "ADMIN"} \cup missing, username : Names \cup {Nothing} \cup missing,
     password : Requests \cup {Old} \cup missing, pin : Requests \cup {Old, Nothing} \cup missing,
     secret : Requests \cup {Old, Nothing} \cup missing]
User == Rows({})

Creations == {"register", "google", "admin"}
WholeSaves == {"verifyEmail", "resendOtp", "forgotPassword", "verifyOtp", "resetPassword",
               "changePassword", "createPin", "changePin"}
Updates   == {"toggleRole", "updateProfile", "initiateTfa", "enableTfa", "disableTfa"}
Logins    == {"userLogin", "adminLogin", "verifyTfaLogin"}
Settings  == {"createReward", "updateReward", "removeReward"}
Grants    == {"assign", "remove"}
Mailed    == {"resendOtp", "forgotPassword", "register"}

Reward == [count : Nat, amount : Nat]
Call == [op : Creations \cup WholeSaves \cup Updates \cup Logins \cup Settings \cup Grants,
         user : Users, name : Names \cup {Nothing}, by : Users \cup {Nothing},
         role : {"FOLLOWER", "PRO_TRADER"}, perms : SUBSET Permissions, reward : Reward]

\* Neither Google nor an admin tells a username or a referrer; of the updates
\* of a profile only those that tell a username are modelled.
ASSUME AccountsAssumption ==
    /\ MaxRestarts \in Nat
    /\ Undefined \notin {Nothing} \cup BOOLEAN \cup Nat \cup Requests
    /\ Nothing \notin User \cup Users \cup Requests \cup Reward
    /\ \A perms \in SUBSET Permissions : perms # Nothing
    /\ Users \cap Requests = {}
    /\ \A c \in Casts :
          /\ \A r \in Requests : c.calls[r] = Nothing
                \/ /\ c.calls[r] \in Call
                   /\ c.calls[r].op \in {"google", "admin"} =>
                         c.calls[r].name = Nothing /\ c.calls[r].by = Nothing
                   /\ c.calls[r].op = "updateProfile" => c.calls[r].name # Nothing
          /\ c.users \in [Users -> User \cup {Nothing}]
          /\ c.faults \subseteq {"request", "restart"}

VARIABLES
    cast,
    users,          \* the row of each address, or Nothing
    codes,          \* codes made up so far
    mails,          \* codes that were mailed
    jobs,           \* wallet jobs added for each user
    task,           \* requests
    log,            \* history: what was meant to be written, in the order written
    refer,          \* the referral of each registration, which nobody waits for
    referrals,      \* rows of referrals, in the order saved
    rewards,        \* rows of referral_reward_settings, named by their request
    grants,         \* rows of privileges of one role, named by their request
    restarts

account  == <<users, codes, mails, jobs>>
referral == <<refer, referrals, rewards>>
avars    == <<cast, account, task, log, referral, grants, restarts>>

NoEntity == [c \in Columns |-> Undefined]
Idle == [pc |-> "idle", entity |-> NoEntity, code |-> 0, seen |-> 0, dirty |-> {},
         row |-> Nothing, perms |-> {}]
NoReferral == [pc |-> "none", user |-> Nothing, by |-> Nothing, tiers |-> {}, count |-> 0,
               knew |-> 0]

Op(r) == IF cast.calls[r] = Nothing THEN "none" ELSE cast.calls[r].op
Subject(r) == cast.calls[r].user
At(r, label) == task[r].pc = label
Goto(r, label) == task' = [task EXCEPT ![r].pc = label]
Over == {"idle", "done", "second", "empty", "refused", "cut"}

Init ==
    /\ cast \in Casts
    /\ users = cast.users
    /\ codes = 1 /\ mails = {<<u, 1>> : u \in {v \in Users : cast.users[v] # Nothing}}
    /\ jobs = [u \in Users |-> 0]
    /\ task = [r \in Requests |-> Idle]
    /\ log = <<>>
    /\ refer = [r \in Requests |-> NoReferral] /\ referrals = <<>>
    /\ rewards = [r \in Requests |-> Nothing]
    /\ grants = [r \in Requests |-> Nothing]
    /\ restarts = 0

\* What r meant to write to a row is appended to the log.
Meant(r, row, columns) ==
    Append(log, [by |-> r, row |-> row, columns |-> columns, seen |-> task[r].seen])
-----------------------------------------------------------------------------
(* loading an entity *)

\* Mutant of Entity: every query selects the hidden columns too.
Entity_Whole(r, row) == row

\* login() selects the hidden columns; findByEmail and findById do not.
Entity(r, row) ==
    IF Op(r) \in {"createPin", "changePin", "initiateTfa", "enableTfa", "disableTfa"} \cup Logins
    THEN row
    ELSE [c \in Columns |-> IF c \in Hidden THEN Undefined ELSE row[c]]

\* What the entity must fulfil.  A code, a pin or a token that is entered
\* belongs to the column it is compared with; a request with another one is
\* refused.  changePassword compares with a password it has not loaded, and
\* fails.
Accepts(r, e, code) ==
    CASE Op(r) = "verifyEmail" -> ~e.verified /\ e.otp # 0 /\ code = e.otp
      [] Op(r) \in {"resendOtp", "register"} -> ~e.otpVerified
      [] Op(r) = "verifyOtp" -> ~e.otpVerified /\ e.otp # 0 /\ code = e.otp
      [] Op(r) = "resetPassword" -> e.otpVerified
      [] Op(r) = "changePassword" -> e.password # Undefined
      [] Op(r) = "createPin" -> e.pin = Nothing
      [] Op(r) = "changePin" -> e.pin # Nothing
      [] Op(r) = "enableTfa" -> ~e.tfa /\ e.secret # Nothing
      [] Op(r) = "disableTfa" -> e.tfa /\ e.secret # Nothing
      [] OTHER -> TRUE

\* The columns the operation assigns.
Assigned(r) ==
    CASE Op(r) = "verifyEmail" -> [verified |-> TRUE, otp |-> 0]
      [] Op(r) \in Mailed -> [otp |-> task[r].code, otpVerified |-> FALSE]
      [] Op(r) = "verifyOtp" -> [otp |-> 0, otpVerified |-> TRUE]
      [] Op(r) \in {"resetPassword", "changePassword"} -> [password |-> r]
      [] Op(r) = "createPin" -> [pin |-> r, hasPin |-> TRUE]
      [] Op(r) = "changePin" -> [pin |-> r]
      [] Op(r) = "toggleRole" -> [role |-> cast.calls[r].role]
      [] Op(r) = "updateProfile" -> [username |-> cast.calls[r].name]
      [] Op(r) = "initiateTfa" -> [secret |-> r]
      [] Op(r) = "enableTfa" -> [tfa |-> TRUE]
      [] Op(r) = "disableTfa" -> [tfa |-> FALSE]

\* The codes a user may enter.
Enters(r) ==
    IF Op(r) \in {"verifyEmail", "verifyOtp"} THEN {m[2] : m \in {n \in mails : n[1] = Subject(r)}} ELSE {0}

\* r holds the entity and goes on at label; a code for the mail is made up.
Hold(r, label, e, code) ==
    /\ codes' = IF Op(r) \in Mailed THEN codes + 1 ELSE codes
    /\ task' = [task EXCEPT ![r] =
                  [Idle EXCEPT !.pc = label, !.entity = e, !.seen = Len(log),
                               !.code = IF Op(r) \in Mailed THEN codes + 1 ELSE code]]

Refuse(r) == Goto(r, "refused") /\ UNCHANGED codes

\* The request arrives and its first query runs: a user who is not there, or
\* is not as the operation wants him, ends it.
Load(r) ==
    /\ At(r, "idle") /\ Op(r) \in WholeSaves \cup Updates
    /\ LET u == users[Subject(r)]
           next == CASE Op(r) \in WholeSaves -> "reread"
                     [] Op(r) = "updateProfile" -> "name"
                     [] OTHER -> "update"
       IN  \E code \in Enters(r) :
              IF u # Nothing /\ Accepts(r, Entity(r, u), code) THEN Hold(r, next, Entity(r, u), code)
              ELSE Refuse(r)
    /\ UNCHANGED <<cast, users, mails, jobs, log, referral, grants, restarts>>
-----------------------------------------------------------------------------
(* save of a whole entity *)

Owners(n) == {u \in Users : users[u] # Nothing /\ users[u].username = n /\ n # Nothing}
Taken(n)  == Owners(n) # {}
TakenByOther(r, n) == Owners(n) \ {Subject(r)} # {}

Changed(r) == [c \in Columns |-> IF c \in DOMAIN Assigned(r) THEN Assigned(r)[c] ELSE task[r].entity[c]]

\* save() reads the row again, without its hidden columns, and sees which of
\* the columns the entity has are to be written.
Reread(r) ==
    /\ At(r, "reread")
    /\ task' = [task EXCEPT ![r] =
                  [@ EXCEPT !.pc = "save",
                            !.dirty = {c \in Columns : /\ Changed(r)[c] # Undefined
                                                       /\ c \in Hidden \/ Changed(r)[c] # users[Subject(r)][c]}]]
    /\ UNCHANGED <<cast, account, log, referral, grants, restarts>>

\* The columns that were to be written, and the others as they are now.
Merged(r, cs) == [c \in Columns |-> IF c \in cs THEN Changed(r)[c] ELSE users[Subject(r)][c]]

After(r) == CASE Op(r) = "verifyEmail" -> "job" [] Op(r) \in Mailed -> "mail" [] OTHER -> "done"

\* ... and writes them, unless a username it would bring back has been taken.
Save(r) ==
    /\ At(r, "save")
    /\ IF "username" \in task[r].dirty /\ TakenByOther(r, task[r].entity.username)
       THEN Goto(r, "refused") /\ UNCHANGED <<users, log>>
       ELSE /\ users' = [users EXCEPT ![Subject(r)] = Merged(r, task[r].dirty)]
            /\ log' = Meant(r, Subject(r), Assigned(r))
            /\ Goto(r, After(r))
    /\ UNCHANGED <<cast, codes, mails, jobs, referral, grants, restarts>>

\* verifyEmail adds the wallet job of the user it has saved.
AddJob(r) ==
    /\ At(r, "job")
    /\ jobs' = [jobs EXCEPT ![Subject(r)] = @ + 1]
    /\ Goto(r, "done")
    /\ UNCHANGED <<cast, users, codes, mails, log, referral, grants, restarts>>

\* The code is mailed once it is saved.
SendMail(r) ==
    /\ At(r, "mail")
    /\ mails' = mails \cup {<<Subject(r), task[r].code>>}
    /\ Goto(r, "done")
    /\ UNCHANGED <<cast, users, codes, jobs, log, referral, grants, restarts>>
-----------------------------------------------------------------------------
(* update of named columns *)

\* updateProfile and register look for the username.
FindName(r) ==
    /\ At(r, "name")
    /\ Goto(r, IF Taken(cast.calls[r].name) THEN "refused"
               ELSE IF Op(r) = "register" THEN "insert" ELSE "update")
    /\ UNCHANGED <<cast, account, log, referral, grants, restarts>>

\* A username that another user has taken meanwhile violates the unique
\* constraint, and the error is swallowed: the answer is empty.
Update(r) ==
    /\ At(r, "update")
    /\ IF Op(r) = "updateProfile" /\ TakenByOther(r, cast.calls[r].name)
       THEN Goto(r, "empty") /\ UNCHANGED <<users, log>>
       ELSE /\ users' = [users EXCEPT ![Subject(r)] = Merged(r, DOMAIN Assigned(r))]
            /\ log' = Meant(r, Subject(r), Assigned(r))
            /\ Goto(r, "done")
    /\ UNCHANGED <<cast, codes, mails, jobs, referral, grants, restarts>>
-----------------------------------------------------------------------------
(* signing in *)

Admits(r, u) ==
    CASE Op(r) = "userLogin" -> u.verified /\ u.role = "FOLLOWER"
      [] Op(r) = "adminLogin" -> u.verified /\ u.role # "FOLLOWER"
      [] Op(r) = "verifyTfaLogin" -> u.tfa /\ u.secret # Nothing

\* The password and the token that are entered are those of the row, or the
\* request is refused; with two factors on, the first yields no token.
Login(r) ==
    /\ At(r, "idle") /\ Op(r) \in Logins
    /\ \/ /\ users[Subject(r)] # Nothing /\ Admits(r, users[Subject(r)])
          /\ Hold(r, IF users[Subject(r)].tfa /\ Op(r) # "verifyTfaLogin" THEN "second" ELSE "done",
                  users[Subject(r)], 0)
       \/ Refuse(r)
    /\ UNCHANGED <<cast, users, mails, jobs, log, referral, grants, restarts>>
-----------------------------------------------------------------------------
(* registration *)

\* The process ends: what is under way is cut off, and the referrals nobody
\* waits for are lost.
ProcessEnds ==
    /\ task' = [r \in Requests |-> IF task[r].pc \in Over THEN task[r] ELSE [task[r] EXCEPT !.pc = "cut"]]
    /\ refer' = [r \in Requests |-> IF refer[r].pc \in {"none", "done"} THEN refer[r]
                                    ELSE [refer[r] EXCEPT !.pc = "lost"]]
    /\ restarts' = restarts + 1

\* An address that is known is refused, with a new code if it is not
\* verified; Google's user is signed in.
FindByEmail(r) ==
    /\ At(r, "idle") /\ Op(r) \in Creations
    /\ LET u == users[Subject(r)]
       IN  IF u = Nothing
           THEN Hold(r, IF cast.calls[r].by # Nothing THEN "refer"
                        ELSE IF cast.calls[r].name # Nothing THEN "name" ELSE "insert", NoEntity, 0)
           ELSE /\ UNCHANGED codes
                /\ Goto(r, CASE Op(r) = "google" -> "done"
                             [] Op(r) = "register" /\ ~u.verified -> "resend"
                             [] OTHER -> "refused")
    /\ UNCHANGED <<cast, users, mails, jobs, log, referral, grants, restarts>>

\* The answer is out, and resendOtp runs with nobody waiting: if it refuses,
\* the rejection ends the process.
ResendOtp(r) ==
    /\ At(r, "resend")
    /\ LET e == Entity(r, users[Subject(r)])
       IN  IF Accepts(r, e, 0) THEN Hold(r, "reread", e, 0) /\ UNCHANGED <<refer, restarts>>
           ELSE ProcessEnds /\ UNCHANGED codes
    /\ UNCHANGED <<cast, users, mails, jobs, log, referrals, rewards, grants>>

\* The referrer must be verified.
FindReferrer(r) ==
    /\ At(r, "refer")
    /\ LET by == users[cast.calls[r].by]
       IN  Goto(r, IF by = Nothing \/ ~by.verified THEN "refused"
                   ELSE IF cast.calls[r].name # Nothing THEN "name" ELSE "insert")
    /\ UNCHANGED <<cast, account, log, referral, grants, restarts>>

NewUser(r) ==
    [verified |-> Op(r) # "register", otp |-> IF Op(r) = "register" THEN task[r].code ELSE 0,
     otpVerified |-> Op(r) = "admin", hasPin |-> FALSE, tfa |-> FALSE,
     role |-> IF Op(r) = "admin" THEN "ADMIN" ELSE "FOLLOWER", username |-> cast.calls[r].name,
     password |-> r, pin |-> Nothing, secret |-> Nothing]

Collides(r) == users[Subject(r)] # Nothing \/ Taken(cast.calls[r].name)

\* A row that violates a unique constraint is not inserted; the error is
\* swallowed, except for Google's user, and register goes on without an id.
\* The code is mailed and the referral made with nobody waiting.
Insert(r) ==
    /\ At(r, "insert")
    /\ IF Collides(r)
       THEN /\ Goto(r, IF Op(r) = "google" THEN "refused" ELSE "empty")
            /\ UNCHANGED <<users, mails, log>>
       ELSE /\ users' = [users EXCEPT ![Subject(r)] = NewUser(r)]
            /\ mails' = IF Op(r) = "register" THEN mails \cup {<<Subject(r), task[r].code>>} ELSE mails
            /\ log' = Meant(r, Subject(r), NewUser(r))
            /\ Goto(r, "done")
    /\ refer' = IF Op(r) = "register" /\ cast.calls[r].by # Nothing
                THEN [refer EXCEPT ![r] = [NoReferral EXCEPT !.pc = "settings", !.by = cast.calls[r].by,
                                              !.user = IF Collides(r) THEN Nothing ELSE Subject(r)]]
                ELSE refer
    /\ UNCHANGED <<cast, codes, jobs, referrals, rewards, grants, restarts>>
-----------------------------------------------------------------------------
(* ReferralService.create *)

\* getReward: the highest tier the count reaches, of equal ones either.
Amounts(tiers, count) ==
    LET reached == {t \in tiers : t.count <= count}
        best    == {t \in reached : \A s \in reached : s.count <= t.count}
    IN  IF reached = {} THEN {10} ELSE {t.amount : t \in best}

Earlier(by, n) == Cardinality({i \in 1..n : referrals[i].by = by})

\* The settings are read; then a second referrer would be looked for among
\* the rows that are active, and nothing makes a row active.
ReadSettings(r) ==
    /\ refer[r].pc = "settings"
    /\ refer' = [refer EXCEPT ![r] = [@ EXCEPT !.pc = "count",
                                         !.tiers = {rewards[q] : q \in Requests} \ {Nothing}]]
    /\ UNCHANGED <<cast, account, task, log, referrals, rewards, grants, restarts>>

\* knew is history: the rows there were.
CountReferrals(r) ==
    /\ refer[r].pc = "count"
    /\ refer' = [refer EXCEPT ![r] = [@ EXCEPT !.pc = "save",
                    !.count = Earlier(refer[r].by, Len(referrals)), !.knew = Len(referrals)]]
    /\ UNCHANGED <<cast, account, task, log, referrals, rewards, grants, restarts>>

\* Mutant of SaveReferral: a referral without a user is saved.
SaveReferral_Any(r) ==
    /\ refer[r].pc = "save"
    /\ \E amount \in Amounts(refer[r].tiers, refer[r].count) :
          referrals' = Append(referrals, [request |-> r, user |-> refer[r].user, by |-> refer[r].by,
                          amount |-> amount, tiers |-> refer[r].tiers, knew |-> refer[r].knew])
    /\ refer' = [refer EXCEPT ![r].pc = "done"]
    /\ UNCHANGED <<cast, account, task, log, rewards, grants, restarts>>

\* Without a user the row is refused, and the rejection ends the process.
SaveReferral(r) ==
    /\ refer[r].pc = "save"
    /\ IF refer[r].user = Nothing THEN ProcessEnds /\ UNCHANGED referrals
       ELSE /\ \E amount \in Amounts(refer[r].tiers, refer[r].count) :
                  referrals' = Append(referrals, [request |-> r, user |-> refer[r].user, by |-> refer[r].by,
                                  amount |-> amount, tiers |-> refer[r].tiers, knew |-> refer[r].knew])
            /\ refer' = [refer EXCEPT ![r].pc = "done"]
            /\ UNCHANGED <<task, restarts>>
    /\ UNCHANGED <<cast, account, log, rewards, grants>>

\* createReward inserts; update and remove find a row first ...
FindReward(r) ==
    /\ At(r, "idle") /\ Op(r) \in Settings
    /\ \/ Op(r) = "createReward" /\ rewards' = [rewards EXCEPT ![r] = cast.calls[r].reward]
          /\ Goto(r, "done")
       \/ /\ Op(r) # "createReward" /\ UNCHANGED rewards
          /\ \/ \E q \in Requests : rewards[q] # Nothing /\ task' = [task EXCEPT ![r] = [Idle EXCEPT !.pc = "reward", !.row = q]]
             \/ Goto(r, "refused")
    /\ UNCHANGED <<cast, account, log, refer, referrals, grants, restarts>>

\* ... and write it if it is still there.
WriteReward(r) ==
    /\ At(r, "reward")
    /\ rewards' = [rewards EXCEPT ![task[r].row] =
                      IF Op(r) = "removeReward" \/ @ = Nothing THEN Nothing ELSE cast.calls[r].reward]
    /\ Goto(r, "done")
    /\ UNCHANGED <<cast, account, log, refer, referrals, grants, restarts>>
-----------------------------------------------------------------------------
(* RoleService: the privileges of a role are one JSON column of one row, or  *)
(* of several.                                                               *)

HoldGrant(r, label, row, perms) ==
    task' = [task EXCEPT ![r] = [Idle EXCEPT !.pc = label, !.row = row, !.perms = perms, !.seen = Len(log)]]

\* Mutant of Granted: what was there is replaced.
Granted_Replaces(r, perms) ==
    IF Op(r) = "assign" THEN cast.calls[r].perms ELSE perms \ cast.calls[r].perms

Granted(r, perms) ==
    IF Op(r) = "assign" THEN perms \cup cast.calls[r].perms ELSE perms \ cast.calls[r].perms

Wished(r) == [p \in cast.calls[r].perms |-> Op(r) = "assign"]

\* Any row of the role is found; assignPermission makes one if there is none.
FindGrant(r) ==
    /\ At(r, "idle") /\ Op(r) \in Grants
    /\ \/ \E q \in Requests : grants[q] # Nothing /\ HoldGrant(r, "regrant", q, Granted(r, grants[q]))
       \/ /\ \A q \in Requests : grants[q] = Nothing
          /\ IF Op(r) = "assign" THEN HoldGrant(r, "grant", r, cast.calls[r].perms) ELSE Goto(r, "refused")
    /\ UNCHANGED <<cast, account, log, referral, grants, restarts>>

\* save() reads the row again; an equal column is not written.
RereadGrant(r) ==
    /\ At(r, "regrant")
    /\ IF grants[task[r].row] # task[r].perms THEN Goto(r, "grant") /\ UNCHANGED log
       ELSE Goto(r, "done") /\ log' = Meant(r, task[r].row, Wished(r))
    /\ UNCHANGED <<cast, account, referral, grants, restarts>>

SaveGrant(r) ==
    /\ At(r, "grant")
    /\ grants' = [grants EXCEPT ![task[r].row] = task[r].perms]
    /\ log' = Meant(r, task[r].row, Wished(r))
    /\ Goto(r, "done")
    /\ UNCHANGED <<cast, account, referral, restarts>>
-----------------------------------------------------------------------------
\* The database or the mailer fails.
FailRequest(r) ==
    /\ "request" \in cast.faults
    /\ task[r].pc \notin Over
    /\ Goto(r, "cut")
    /\ UNCHANGED <<cast, account, log, referral, grants, restarts>>

Restart ==
    /\ "restart" \in cast.faults
    /\ restarts < MaxRestarts
    /\ ProcessEnds
    /\ UNCHANGED <<cast, account, log, referrals, rewards, grants>>

Arrive(r) == Load(r) \/ Login(r) \/ FindByEmail(r) \/ FindReward(r) \/ FindGrant(r)
GoOn(r) ==
    \/ Reread(r) \/ Save(r) \/ AddJob(r) \/ SendMail(r)
    \/ FindName(r) \/ Update(r) \/ ResendOtp(r) \/ FindReferrer(r) \/ Insert(r)
    \/ WriteReward(r) \/ RereadGrant(r) \/ SaveGrant(r)
Refer(r) == ReadSettings(r) \/ CountReferrals(r) \/ SaveReferral(r)

Next ==
    \/ \E r \in Requests : Arrive(r) \/ GoOn(r) \/ Refer(r) \/ FailRequest(r)
    \/ Restart

Spec == Init /\ [][Next]_avars
-----------------------------------------------------------------------------
Labels == Over \cup {"reread", "save", "job", "mail", "name", "update", "resend",
                     "refer", "insert", "reward", "regrant", "grant"}
Work   == [pc : Labels, entity : Rows({Undefined}), code : Nat, seen : Nat, dirty : SUBSET Columns,
           row : Requests \cup {Nothing}, perms : SUBSET Permissions]
Referring == [pc : {"none", "settings", "count", "save", "done", "lost"}, user : Users \cup {Nothing},
              by : Users \cup {Nothing}, tiers : SUBSET Reward, count : Nat, knew : Nat]
Referral  == [request : Requests, user : Users, by : Users, amount : Nat, tiers : SUBSET Reward, knew : Nat]

TypeOK ==
    /\ cast \in Casts
    /\ users \in [Users -> User \cup {Nothing}]
    /\ codes \in Codes /\ mails \subseteq Users \X Codes
    /\ jobs \in [Users -> Nat]
    /\ task \in [Requests -> Work]
    /\ refer \in [Requests -> Referring] /\ referrals \in Seq(Referral)
    /\ rewards \in [Requests -> Reward \cup {Nothing}]
    /\ grants \in [Requests -> {Nothing} \cup SUBSET Permissions]
    /\ log \in Seq({log[i] : i \in DOMAIN log})
    /\ \A i \in DOMAIN log : log[i].by \in Requests /\ log[i].row \in Users \cup Requests /\ log[i].seen < i
    /\ restarts \in Nat

\* What was last meant for a column, among the first n of the log.
Latest(row, c, n) == {i \in 1..n : /\ log[i].row = row /\ c \in DOMAIN log[i].columns
                                   /\ \A j \in i + 1 .. n :
                                         log[j].row = row => c \notin DOMAIN log[j].columns}

\* The columns a request may write without meaning to.
MayCarry(r) ==
    IF Op(r) \in {"createPin", "changePin"} THEN Columns
    ELSE IF Op(r) \in WholeSaves \cup {"register"} THEN Plain ELSE {}

\* k had loaded the row before i was written to it, and saved it later.
Straddles(k, i) == k > i /\ log[k].row = log[i].row /\ log[k].seen < i

Explained(u, c, value, n) ==
    IF Latest(u, c, n) = {} THEN value = cast.users[u][c]
    ELSE \A i \in Latest(u, c, n) :
            \/ value = log[i].columns[c]
            \/ \E k \in 1..n :
                  \/ Straddles(k, i) /\ c \in MayCarry(log[k].by)
                  \/ Straddles(i, k) /\ c \in MayCarry(log[i].by)

\* Every column of a user has the value that was last meant for it, unless a
\* save of the whole row straddled that write (and undid it) or that write,
\* a save itself, straddled another (and, its value being the one it had
\* read, wrote nothing); a password or a secret is never undone by anything
\* but an operation on the pin.
ColumnsStand ==
    \A u \in Users, c \in Columns : users[u] # Nothing => Explained(u, c, users[u][c], Len(log))

\* Whoever registered with a code of a referrer has a referral, or it is on
\* its way, or the process ended before it was saved; there is none of anybody
\* who did not register; and it is worth what the referrer's earlier ones make
\* it, unless one of his was saved between the count and the save.
ReferralsMatchRegistrations ==
    /\ \A i \in DOMAIN log :
          LET r == log[i].by
          IN  Op(r) = "register" /\ "password" \in DOMAIN log[i].columns /\ cast.calls[r].by # Nothing =>
                 \/ refer[r].pc \in {"settings", "count", "save"}
                 \/ refer[r].pc = "lost" /\ restarts > 0
                 \/ Cardinality({j \in DOMAIN referrals :
                        referrals[j].user = Subject(r) /\ referrals[j].by = cast.calls[r].by}) = 1
    /\ \A j \in DOMAIN referrals :
          LET x == referrals[j]
          IN  /\ \E i \in DOMAIN log : log[i].row = x.user /\ log[i].by = x.request
              /\ \/ x.amount \in Amounts(x.tiers, Earlier(x.by, j - 1))
                 \/ \E i \in x.knew + 1 .. j - 1 : referrals[i].by = x.by

\* Whether p may be in perms, or not in it, after the first n of the log.
Granting(q, p, perms, n) ==
    IF Latest(q, p, n) = {} THEN p \notin perms
    ELSE \A i \in Latest(q, p, n) : (p \in perms) = log[i].columns[p] \/ \E k \in 1..n : Straddles(k, i)

\* A permission is as it was last assigned or removed in its row, unless a
\* save of the row straddled that; and a role gets a second row only by two
\* requests that both found none.
PermissionsStand ==
    /\ \A q \in Requests, p \in Permissions : grants[q] # Nothing => Granting(q, p, grants[q], Len(log))
    /\ \A i, j \in DOMAIN log :
          i < j /\ log[i].row = log[i].by /\ log[j].row = log[j].by => log[j].seen < i
=============================================================================
