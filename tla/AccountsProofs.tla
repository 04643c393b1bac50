--------------------------- MODULE AccountsProofs ---------------------------
(***************************************************************************)
(* Proofs about Accounts, for any users, calls, rewards and number of      *)
(* requests: types, the columns of a user, the privileges of a role and    *)
(* the referrals.                                                          *)
(***************************************************************************)
EXTENDS Accounts, FiniteSetTheorems, TLAPS

WholeRows == WholeSaves \cup {"register"}

\* What the label of a request tells of it.
Placed(r) ==
    LET t == task[r]
    IN  /\ t.seen <= Len(log)
        /\ t.pc # "idle" => Op(r) # "none"
        /\ t.pc \in {"reread", "save"} => Op(r) \in WholeRows
        /\ t.pc = "update" => Op(r) \in Updates
        /\ t.pc = "name" => Op(r) \in {"updateProfile", "register"}
        /\ t.pc \in {"refer", "insert"} => Op(r) \in Creations
        /\ t.pc = "refer" => cast.calls[r].by # Nothing /\ Op(r) = "register"
        /\ t.pc = "resend" => Op(r) = "register"
        /\ t.pc \in {"reread", "save", "update", "job", "mail", "resend"} => users[Subject(r)] # Nothing
        /\ t.pc = "name" /\ Op(r) = "updateProfile" => users[Subject(r)] # Nothing
        /\ t.pc = "save" => \A c \in t.dirty : Changed(r)[c] # Undefined
        /\ t.pc = "reward" => Op(r) \in Settings /\ t.row \in Requests
        /\ t.pc \in {"regrant", "grant"} => Op(r) \in Grants /\ t.row \in Requests
        /\ t.pc = "regrant" => t.row # r /\ grants[t.row] # Nothing
        /\ t.pc = "grant" => IF t.row = r THEN grants[r] = Nothing ELSE grants[t.row] # Nothing
        /\ grants[r] # Nothing => t.pc = "done"

Inv0 == TypeOK /\ \A r \in Requests : Placed(r)
-----------------------------------------------------------------------------
(* The columns of a user *)

\* Once something was meant for a column, something is.
LatestKept == \A row \in Users \cup Requests : \A c : \A m \in 0..Len(log) : \A n \in 0..m :
                 Latest(row, c, m) = {} => Latest(row, c, n) = {}

\* An entity holds what its row held when it was loaded, and hidden columns
\* are held by the operations on the pin alone.
EntityOld(r) ==
    task[r].pc \in {"reread", "save"} =>
        \A c \in Columns : task[r].entity[c] # Undefined =>
            /\ Explained(Subject(r), c, task[r].entity[c], task[r].seen)
            /\ c \in Hidden => Op(r) \in {"createPin", "changePin"}

\* A column is left out of a save because the row has its value, or had it
\* before a write that came in between.
DirtyOld(r) ==
    task[r].pc = "save" => \A c \in Columns \ task[r].dirty : Changed(r)[c] # Undefined =>
        /\ c \in Plain
        /\ \/ users[Subject(r)][c] = Changed(r)[c]
           \/ \E k \in 1..Len(log) : k > task[r].seen /\ log[k].row = Subject(r)

ColumnsInv ==
    /\ ColumnsStand
    /\ LatestKept
    /\ \A r \in Requests : EntityOld(r) /\ DirtyOld(r)
-----------------------------------------------------------------------------
(* The privileges of a role *)

\* A save of privileges holds what the row held when it was read, with what
\* is asked for; a row is made by who saw none.
GrantOld(r) ==
    task[r].pc \in {"regrant", "grant"} =>
        /\ \A p \in Permissions :
              IF p \in cast.calls[r].perms THEN p \in task[r].perms <=> Op(r) = "assign"
              ELSE Granting(task[r].row, p, task[r].perms, task[r].seen)
        /\ task[r].row = r => \A i \in 1..task[r].seen : log[i].row # log[i].by

GrantsInv ==
    /\ PermissionsStand
    /\ \A i \in DOMAIN log : log[i].row \in Requests => grants[log[i].row] # Nothing
    /\ \A r \in Requests : GrantOld(r)
-----------------------------------------------------------------------------
(* The referrals *)

\* A referral under way is that of the registration it bears the name of.
ReferOld(r) ==
    LET x == refer[r]
    IN  /\ x.pc # "none" => /\ Op(r) = "register" /\ x.by = cast.calls[r].by /\ x.by \in Users
                            /\ task[r].pc \in Over \ {"idle"}
        /\ x.user # Nothing => /\ x.pc # "none" /\ x.user = Subject(r) /\ users[x.user] # Nothing
                               /\ \E i \in DOMAIN log : log[i].row = x.user /\ log[i].by = r
        /\ x.pc = "lost" => restarts > 0
        /\ x.pc = "save" => x.knew <= Len(referrals) /\ x.count = Earlier(x.by, x.knew)
        /\ x.pc = "done" => x.user # Nothing /\ \E j \in DOMAIN referrals : referrals[j].request = r

\* A registration that wrote a row has a referral if it named a referrer.
Registered(i) ==
    LET r == log[i].by
    IN  Op(r) = "register" /\ "password" \in DOMAIN log[i].columns /\ cast.calls[r].by # Nothing =>
            refer[r].pc # "none" /\ refer[r].user = Subject(r) /\ refer[r].by = cast.calls[r].by

\* A row of referrals is that of a referral that is done.
Saved(j) ==
    LET x == referrals[j]
    IN  /\ refer[x.request].pc = "done" /\ refer[x.request].user = x.user /\ refer[x.request].by = x.by
        /\ x.knew < j /\ x.amount \in Amounts(x.tiers, Earlier(x.by, x.knew))

ReferralsInv ==
    /\ \A r \in Requests : ReferOld(r)
    /\ \A r, s \in Requests : refer[r].user = refer[s].user /\ refer[r].user # Nothing => r = s
    /\ \A i \in DOMAIN log : Registered(i)
    /\ \A j \in DOMAIN referrals : Saved(j)
    /\ \A i, j \in DOMAIN referrals : referrals[i].request = referrals[j].request => i = j
-----------------------------------------------------------------------------
(* Types *)

\* The values a column may have.
Value == [verified |-> BOOLEAN, otp |-> Nat, otpVerified |-> BOOLEAN, hasPin |-> BOOLEAN, tfa |-> BOOLEAN,
          role |-> {"FOLLOWER", "PRO_TRADER", "ADMIN"}, username |-> Names \cup {Nothing},
          password |-> Requests \cup {Old}, pin |-> Requests \cup {Old, Nothing},
          secret |-> Requests \cup {Old, Nothing}]

\* A row is a function of its columns.
LEMMA RowByColumn ==
    ASSUME NEW missing, NEW e
    PROVE  /\ e \in Rows(missing) => e = [c \in Columns |-> e[c]]
           /\ e \in Rows(missing) => \A c \in Columns : e[c] \in Value[c] \cup missing
           /\ e = [c \in Columns |-> e[c]] /\ (\A c \in Columns : e[c] \in Value[c] \cup missing) => e \in Rows(missing)
<1>1. Columns = {"verified", "otp", "otpVerified", "hasPin", "tfa", "role", "username", "password", "pin", "secret"}
  BY DEF Columns, Plain, Hidden
<1>2. e \in Rows(missing) => e = [c \in Columns |-> e[c]]
  BY <1>1 DEF Rows
<1>3. ASSUME e \in Rows(missing), NEW c \in Columns PROVE e[c] \in Value[c] \cup missing
  BY <1>1, <1>3 DEF Rows, Value, Codes
<1>4. ASSUME e = [c \in Columns |-> e[c]], \A c \in Columns : e[c] \in Value[c] \cup missing
      PROVE  e \in Rows(missing)
  <2>1. DOMAIN e = {"verified", "otp", "otpVerified", "hasPin", "tfa", "role", "username", "password", "pin", "secret"}
    BY <1>1, <1>4
  <2>2. /\ e.verified \in BOOLEAN \cup missing /\ e.otp \in Nat \cup missing
        /\ e.otpVerified \in BOOLEAN \cup missing /\ e.hasPin \in BOOLEAN \cup missing
        /\ e.tfa \in BOOLEAN \cup missing /\ e.role \in {"FOLLOWER", "PRO_TRADER", "ADMIN"} \cup missing
        /\ e.username \in Names \cup {Nothing} \cup missing
        /\ e.password \in Requests \cup {Old} \cup missing
        /\ e.pin \in Requests \cup {Old, Nothing} \cup missing
        /\ e.secret \in Requests \cup {Old, Nothing} \cup missing
    BY <1>1, <1>4 DEF Value
  <2> QED  BY <1>1, <1>4, <2>1, <2>2 DEF Rows, Codes
<1> QED  BY <1>2, <1>3, <1>4

\* No column has the value Undefined.
LEMMA ValueDefined == \A c \in {"verified", "otp", "otpVerified", "hasPin", "tfa"} : Undefined \notin Value[c]
  BY AccountsAssumption DEF Value

\* What a request asks for is a call.
LEMMA CallTyped ==
    ASSUME TypeOK, NEW r \in Requests, Op(r) # "none"
    PROVE  /\ cast.calls[r] \in Call /\ cast.calls[r] # Nothing /\ Op(r) = cast.calls[r].op
           /\ Subject(r) \in Users /\ cast.calls[r].name \in Names \cup {Nothing}
           /\ cast.calls[r].by \in Users \cup {Nothing} /\ cast.calls[r].perms \in SUBSET Permissions
           /\ cast.calls[r].reward \in Reward /\ cast.calls[r].role \in {"FOLLOWER", "PRO_TRADER"}
           /\ Op(r) \in {"google", "admin"} => cast.calls[r].name = Nothing /\ cast.calls[r].by = Nothing
<1>1. cast.calls[r] \in Call /\ cast.calls[r] # Nothing
  BY AccountsAssumption DEF TypeOK, Op
<1>2. Op(r) \in {"google", "admin"} => cast.calls[r].name = Nothing /\ cast.calls[r].by = Nothing
  BY <1>1, AccountsAssumption DEF TypeOK, Op
<1> QED  BY <1>1, <1>2 DEF Call, Op, Subject

\* An entity is a row some of whose columns are not loaded.
LEMMA EntityTyped ==
    ASSUME NEW r \in Requests, NEW u \in User
    PROVE  /\ Entity(r, u) \in Rows({Undefined})
           /\ \A c \in Columns : /\ Entity(r, u)[c] # Undefined => Entity(r, u)[c] = u[c]
                                 /\ Entity(r, u)[c] # Undefined /\ c \in Hidden =>
                                       Op(r) \in {"createPin", "changePin", "initiateTfa", "enableTfa", "disableTfa"}
                                                     \cup Logins
<1>1. u = [c \in Columns |-> u[c]] /\ \A c \in Columns : u[c] \in Value[c]
  BY RowByColumn DEF User
<1>2. Entity(r, u) = [c \in Columns |-> Entity(r, u)[c]]
  BY <1>1 DEF Entity
<1>3. \A c \in Columns : Entity(r, u)[c] = u[c] \/ Entity(r, u)[c] = Undefined
  BY <1>1 DEF Entity
<1>4. Entity(r, u) \in Rows({Undefined})
  BY <1>1, <1>2, <1>3, RowByColumn
<1>5. ASSUME NEW c \in Columns, Entity(r, u)[c] # Undefined, c \in Hidden
      PROVE  Op(r) \in {"createPin", "changePin", "initiateTfa", "enableTfa", "disableTfa"} \cup Logins
  BY <1>5 DEF Entity
<1> QED  BY <1>3, <1>4, <1>5

\* What an operation assigns are values of columns.
LEMMA AssignedTyped ==
    ASSUME TypeOK, NEW r \in Requests, Op(r) \in WholeRows \cup Updates
    PROVE  /\ DOMAIN Assigned(r) \subseteq Columns
           /\ \A c \in DOMAIN Assigned(r) : Assigned(r)[c] \in Value[c]
<1>1. cast.calls[r].name \in Names \cup {Nothing} /\ task[r].code \in Nat /\ Op(r) # "none"
  <2>1. Op(r) # "none"
    BY DEF WholeRows, WholeSaves, Updates
  <2> QED  BY <2>1, CallTyped DEF TypeOK, Work
<1>2. Columns = {"verified", "otp", "otpVerified", "hasPin", "tfa", "role", "username", "password", "pin", "secret"}
  BY DEF Columns, Plain, Hidden
<1>3. CASE Op(r) = "verifyEmail"
  <2>1. Assigned(r) = [verified |-> TRUE, otp |-> 0]
    BY <1>3 DEF Assigned, Mailed
  <2>2. DOMAIN Assigned(r) = {"verified", "otp"}
    BY <2>1
  <2>3. Assigned(r).verified \in Value.verified /\ Assigned(r).otp \in Value.otp
    BY <1>1, <2>1 DEF Value
  <2> QED  BY <1>2, <2>2, <2>3
<1>4. CASE Op(r) \in Mailed
  <2>1. Assigned(r) = [otp |-> task[r].code, otpVerified |-> FALSE]
    BY <1>4 DEF Assigned, Mailed
  <2>2. DOMAIN Assigned(r) = {"otp", "otpVerified"}
    BY <2>1
  <2>3. Assigned(r).otp \in Value.otp /\ Assigned(r).otpVerified \in Value.otpVerified
    BY <1>1, <2>1 DEF Value
  <2> QED  BY <1>2, <2>2, <2>3
<1>5. CASE Op(r) = "verifyOtp"
  <2>1. Assigned(r) = [otp |-> 0, otpVerified |-> TRUE]
    BY <1>5 DEF Assigned, Mailed
  <2>2. DOMAIN Assigned(r) = {"otp", "otpVerified"}
    BY <2>1
  <2>3. Assigned(r).otp \in Value.otp /\ Assigned(r).otpVerified \in Value.otpVerified
    BY <1>1, <2>1 DEF Value
  <2> QED  BY <1>2, <2>2, <2>3
<1>6. CASE Op(r) \in {"resetPassword", "changePassword"}
  <2>1. Assigned(r) = [password |-> r]
    BY <1>6 DEF Assigned, Mailed
  <2>2. DOMAIN Assigned(r) = {"password"}
    BY <2>1
  <2>3. Assigned(r).password \in Value.password
    BY <1>1, <2>1 DEF Value
  <2> QED  BY <1>2, <2>2, <2>3
<1>7. CASE Op(r) = "createPin"
  <2>1. Assigned(r) = [pin |-> r, hasPin |-> TRUE]
    BY <1>7 DEF Assigned, Mailed
  <2>2. DOMAIN Assigned(r) = {"pin", "hasPin"}
    BY <2>1
  <2>3. Assigned(r).pin \in Value.pin /\ Assigned(r).hasPin \in Value.hasPin
    BY <1>1, <2>1 DEF Value
  <2> QED  BY <1>2, <2>2, <2>3
<1>8. CASE Op(r) = "toggleRole"
  <2>1. Assigned(r) = [role |-> cast.calls[r].role]
    BY <1>8 DEF Assigned, Mailed
  <2>2. DOMAIN Assigned(r) = {"role"}
    BY <2>1
  <2>3. Assigned(r).role \in Value.role
    BY <1>8, <2>1, CallTyped DEF Value
  <2> QED  BY <1>2, <2>2, <2>3
<1>12. CASE Op(r) \in {"changePin", "updateProfile"}
  BY <1>1, <1>2, <1>12 DEF Assigned, Value, Mailed
<1>9. CASE Op(r) = "initiateTfa"
  BY <1>2, <1>9 DEF Assigned, Value, Mailed
<1>10. CASE Op(r) = "enableTfa"
  <2>1. Assigned(r) = [tfa |-> TRUE]
    BY <1>10 DEF Assigned, Mailed
  <2>2. DOMAIN Assigned(r) = {"tfa"}
    BY <2>1
  <2>3. Assigned(r).tfa \in Value.tfa
    BY <1>1, <2>1 DEF Value
  <2> QED  BY <1>2, <2>2, <2>3
<1>11. CASE Op(r) = "disableTfa"
  <2>1. Assigned(r) = [tfa |-> FALSE]
    BY <1>11 DEF Assigned, Mailed
  <2>2. DOMAIN Assigned(r) = {"tfa"}
    BY <2>1
  <2>3. Assigned(r).tfa \in Value.tfa
    BY <1>1, <2>1 DEF Value
  <2> QED  BY <1>2, <2>2, <2>3
<1> QED  BY <1>3, <1>4, <1>5, <1>6, <1>7, <1>8, <1>9, <1>10, <1>11, <1>12 DEF WholeRows, WholeSaves, Updates, Mailed

\* The columns as a save has them, and the row it leaves.
LEMMA ChangedTyped ==
    ASSUME TypeOK, NEW r \in Requests, Op(r) \in WholeRows \cup Updates
    PROVE  /\ Changed(r) = [c \in Columns |-> Changed(r)[c]]
           /\ \A c \in Columns : /\ Changed(r)[c] \in Value[c] \cup {Undefined}
                                 /\ c \in DOMAIN Assigned(r) => Changed(r)[c] = Assigned(r)[c]
                                 /\ c \notin DOMAIN Assigned(r) => Changed(r)[c] = task[r].entity[c]
           /\ \A cs : users[Subject(r)] # Nothing /\ (\A c \in cs \cap Columns : Changed(r)[c] \in Value[c]) =>
                 /\ Merged(r, cs) \in User
                 /\ \A c \in Columns : /\ c \in cs => Merged(r, cs)[c] = Changed(r)[c]
                                       /\ c \notin cs => Merged(r, cs)[c] = users[Subject(r)][c]
<1>1. /\ \A c \in Columns : task[r].entity[c] \in Value[c] \cup {Undefined}
      /\ Subject(r) \in Users
  <2>1. task[r].entity \in Rows({Undefined})
    BY DEF TypeOK, Work
  <2>2. Op(r) # "none"
    BY DEF WholeRows, WholeSaves, Updates
  <2> QED  BY <2>1, <2>2, RowByColumn, CallTyped
<1>2. Changed(r) = [c \in Columns |-> Changed(r)[c]]
  BY DEF Changed
<1>3. \A c \in Columns : /\ Changed(r)[c] \in Value[c] \cup {Undefined}
                         /\ c \in DOMAIN Assigned(r) => Changed(r)[c] = Assigned(r)[c]
                         /\ c \notin DOMAIN Assigned(r) => Changed(r)[c] = task[r].entity[c]
  BY <1>1, AssignedTyped DEF Changed
<1>4. ASSUME NEW cs, users[Subject(r)] # Nothing, \A c \in cs \cap Columns : Changed(r)[c] \in Value[c]
      PROVE  /\ Merged(r, cs) \in User
             /\ \A c \in Columns : /\ c \in cs => Merged(r, cs)[c] = Changed(r)[c]
                                   /\ c \notin cs => Merged(r, cs)[c] = users[Subject(r)][c]
  <2>1. users[Subject(r)] \in User
    BY <1>1, <1>4 DEF TypeOK
  <2>2. \A c \in Columns : users[Subject(r)][c] \in Value[c]
    BY <2>1, RowByColumn DEF User
  <2>3. Merged(r, cs) = [c \in Columns |-> Merged(r, cs)[c]]
    BY DEF Merged
  <2>4. \A c \in Columns : Merged(r, cs)[c] \in Value[c]
    BY <1>4, <2>2 DEF Merged
  <2>5. Merged(r, cs) \in User
    BY <2>3, <2>4, RowByColumn DEF User
  <2> QED  BY <2>5 DEF Merged
<1> QED  BY <1>2, <1>3, <1>4
\* Appending what a request meant keeps the log typed and its beginning.
LEMMA LogAppended ==
    ASSUME TypeOK, NEW r \in Requests, NEW row \in Users \cup Requests, NEW columns,
           task[r].seen <= Len(log), log' = Meant(r, row, columns)
    PROVE  /\ Len(log) \in Nat /\ Len(log') = Len(log) + 1
           /\ DOMAIN log = 1..Len(log) /\ DOMAIN log' = 1 .. Len(log) + 1
           /\ \A i \in 1..Len(log) : log'[i] = log[i]
           /\ log'[Len(log) + 1] = [by |-> r, row |-> row, columns |-> columns, seen |-> task[r].seen]
           /\ log' \in Seq({log'[i] : i \in DOMAIN log'})
           /\ \A i \in DOMAIN log' : /\ log'[i].by \in Requests /\ log'[i].row \in Users \cup Requests
                                     /\ log'[i].seen < i
<1> DEFINE x == [by |-> r, row |-> row, columns |-> columns, seen |-> task[r].seen]
           S == {log[i] : i \in DOMAIN log} \cup {x}
<1>1. log \in Seq(S) /\ x \in S /\ log' = Append(log, x) /\ task[r].seen \in Nat
  BY DEF TypeOK, Meant, Work
<1>2. /\ log' \in Seq(S) /\ Len(log) \in Nat /\ Len(log') = Len(log) + 1
      /\ \A i \in 1..Len(log) : log'[i] = log[i]
      /\ log'[Len(log) + 1] = x
      /\ DOMAIN log = 1..Len(log) /\ DOMAIN log' = 1 .. Len(log) + 1
  <2> HIDE DEF x, S
  <2> QED  BY <1>1
<1>3. log' \in Seq({log'[i] : i \in DOMAIN log'})
  <2> HIDE DEF x, S
  <2> QED  BY <1>2
<1>4. ASSUME NEW i \in DOMAIN log'
      PROVE  log'[i].by \in Requests /\ log'[i].row \in Users \cup Requests /\ log'[i].seen < i
  <2>1. CASE i \in 1..Len(log)
    BY <1>2, <2>1 DEF TypeOK
  <2>2. CASE i = Len(log) + 1
    BY <1>1, <1>2, <2>2
  <2> QED  BY <1>2, <2>1, <2>2
<1> QED  BY <1>2, <1>3, <1>4

\* What a save would write depends on the entity and the code alone.
LEMMA ChangedSame ==
    ASSUME NEW r \in Requests, cast' = cast, task'[r].entity = task[r].entity, task'[r].code = task[r].code
    PROVE  Assigned(r)' = Assigned(r) /\ Changed(r)' = Changed(r)
<1>1. Op(r)' = Op(r) /\ cast'.calls[r].name = cast.calls[r].name
  BY DEF Op
<1>2. Assigned(r)' = Assigned(r)
  BY <1>1 DEF Assigned
<1>3. Changed(r)' = Changed(r)
  BY <1>2 DEF Changed
<1> QED  BY <1>2, <1>3

\* What a label tells stays true while its request waits.
LEMMA PlacedKept ==
    ASSUME TypeOK, NEW s \in Requests, Placed(s), task'[s] = task[s], cast' = cast,
           Len(log') \in Nat, Len(log') >= Len(log),
           \A u \in Users : users[u] # Nothing => users'[u] # Nothing,
           \A q \in Requests : grants[q] # Nothing => grants'[q] # Nothing,
           grants'[s] = grants[s]
    PROVE  Placed(s)'
<1>1. Op(s)' = Op(s) /\ Subject(s)' = Subject(s)
  BY DEF Op, Subject
<1>2. Op(s) # "none" => Subject(s) \in Users
  BY CallTyped
<1>3. (task[s].seen <= Len(log))'
  BY DEF Placed, TypeOK, Work
<1>4. (grants[s] # Nothing => task[s].pc = "done")'
  BY DEF Placed
<1>5. task[s].pc \in {"reread", "save", "update", "job", "mail", "resend"} => users'[Subject(s)] # Nothing
  BY <1>2 DEF Placed
<1>6. task[s].pc = "name" /\ Op(s) = "updateProfile" => users'[Subject(s)] # Nothing
  BY <1>2 DEF Placed
<1>7. task[s].pc = "regrant" => task[s].row # s /\ grants'[task[s].row] # Nothing
  BY DEF Placed
<1>8. task[s].pc = "grant" => IF task[s].row = s THEN grants'[s] = Nothing ELSE grants'[task[s].row] # Nothing
  BY DEF Placed
<1>9. task[s].pc = "refer" => cast'.calls[s].by # Nothing
  BY DEF Placed
<1>10. task[s].pc = "save" => \A c \in task[s].dirty : Changed(s)'[c] # Undefined
  BY ChangedSame DEF Placed
<1> QED  BY <1>1, <1>3, <1>4, <1>5, <1>6, <1>7, <1>8, <1>9, <1>10 DEF Placed

\* The first steps of a request.
LEMMA HoldTyped ==
    ASSUME Inv0, NEW r \in Requests, NEW label \in Labels, NEW e \in Rows({Undefined}), NEW code \in Nat,
           Hold(r, label, e, code)
    PROVE  /\ codes' \in Codes /\ task' \in [Requests -> Work]
           /\ \A s \in Requests \ {r} : task'[s] = task[s]
           /\ task'[r].pc = label /\ task'[r].entity = e /\ task'[r].seen = Len(log) /\ Len(log) \in Nat
           /\ task'[r].row = Nothing /\ task'[r].perms = {} /\ task'[r].dirty = {}
<1> DEFINE made == IF Op(r) \in Mailed THEN codes + 1 ELSE code
           t == [Idle EXCEPT !.pc = label, !.entity = e, !.seen = Len(log), !.code = made]
<1>1. made \in Nat /\ Len(log) \in Nat /\ task \in [Requests -> Work]
  BY DEF Inv0, TypeOK, Codes
<1>2. task' = [task EXCEPT ![r] = t] /\ codes' \in Codes
  BY DEF Hold, Inv0, TypeOK, Codes
<1>3. /\ t.pc = label /\ t.entity = e /\ t.seen = Len(log) /\ t.row = Nothing /\ t.perms = {} /\ t.dirty = {}
      /\ t \in Work
  <2> HIDE DEF made
  <2> QED  BY <1>1 DEF Idle, Work
<1> HIDE DEF t
<1> QED  BY <1>1, <1>2, <1>3

\* A change of label is all that happens to the tasks.
LEMMA GotoTyped ==
    ASSUME TypeOK, NEW r \in Requests, NEW label \in Labels, Goto(r, label)
    PROVE  /\ task' \in [Requests -> Work]
           /\ \A s \in Requests \ {r} : task'[s] = task[s]
           /\ task'[r] = [task[r] EXCEPT !.pc = label] /\ task'[r].pc = label
           /\ task'[r].seen = task[r].seen /\ task'[r].row = task[r].row /\ task'[r].perms = task[r].perms
<1>1. task \in [Requests -> Work]
  BY DEF TypeOK
<1>2. task' = [task EXCEPT ![r] = [task[r] EXCEPT !.pc = label]]
  BY <1>1 DEF Goto
<1> QED  BY <1>1, <1>2 DEF Work
-----------------------------------------------------------------------------
(* Types and labels, step by step *)

\* A request that ends, or is told to wait elsewhere, is placed.
LEMMA GotoPlaced ==
    ASSUME Inv0, NEW r \in Requests, NEW label \in Labels, Goto(r, label), UNCHANGED <<cast, users, log, grants>>,
           Op(r) # "none", task[r].pc # "done",
           label \in {"save", "name", "insert", "update", "resend", "reread", "reward", "regrant", "grant", "refer",
                      "job", "mail"} => Placed(r)'
    PROVE  /\ task' \in [Requests -> Work]
           /\ \A s \in Requests : Placed(s)'
<1>1. /\ task' \in [Requests -> Work]
      /\ \A s \in Requests \ {r} : task'[s] = task[s]
      /\ task'[r].pc = label /\ task'[r].seen = task[r].seen
  BY GotoTyped DEF Inv0
<1>2. ASSUME NEW s \in Requests \ {r} PROVE Placed(s)'
  <2>1. TypeOK /\ Placed(s) /\ Len(log) \in Nat
    BY DEF Inv0, TypeOK
  <2> QED  BY <1>1, <2>1, PlacedKept
<1>3. Placed(r)'
  <2>1. CASE label \in Over
    <3>1. task[r].seen <= Len(log) /\ grants[r] = Nothing
      BY DEF Inv0, Placed
    <3> QED  BY <1>1, <2>1, <3>1 DEF Placed, Over, Op
  <2> QED  BY <2>1 DEF Labels
<1> QED  BY <1>1, <1>2, <1>3

\* A request that is loaded is placed.
LEMMA HoldPlaced ==
    ASSUME Inv0, NEW r \in Requests, NEW label \in Labels, NEW e \in Rows({Undefined}), NEW code \in Nat,
           Hold(r, label, e, code), UNCHANGED <<cast, users, log, grants>>,
           Op(r) # "none", grants[r] = Nothing,
           label \in Over \/ Placed(r)'
    PROVE  \A s \in Requests : Placed(s)'
<1>1. /\ \A s \in Requests \ {r} : task'[s] = task[s]
      /\ task'[r].pc = label /\ task'[r].seen = Len(log) /\ Len(log) \in Nat
  BY HoldTyped
<1>2. ASSUME NEW s \in Requests \ {r} PROVE Placed(s)'
  <2>1. TypeOK /\ Placed(s)
    BY DEF Inv0
  <2> QED  BY <1>1, <2>1, PlacedKept
<1>3. label \in Over => Placed(r)'
  BY <1>1 DEF Placed, Over, Op
<1> QED  BY <1>2, <1>3

\* A load that is admitted holds a row that is there; one that is not is refused.
LEMMA LoadInv0 == ASSUME Inv0, NEW r \in Requests, Load(r) PROVE Inv0'
<1>1. Op(r) # "none" /\ task[r].pc = "idle" /\ Subject(r) \in Users /\ grants[r] = Nothing
  <2>1. Op(r) # "none" /\ task[r].pc = "idle"
    BY DEF Load, At, WholeSaves, Updates
  <2> QED  BY <2>1, CallTyped DEF Inv0, Placed
<1> DEFINE u == users[Subject(r)]
           next == CASE Op(r) \in WholeSaves -> "reread"
                     [] Op(r) = "updateProfile" -> "name"
                     [] OTHER -> "update"
<1>2. \E code \in Enters(r) :
         \/ u # Nothing /\ Hold(r, next, Entity(r, u), code)
         \/ Refuse(r)
  BY DEF Load
<1>3. PICK code \in Enters(r) : \/ u # Nothing /\ Hold(r, next, Entity(r, u), code)
                                \/ Refuse(r)
  BY <1>2
<1>4. code \in Nat
  BY DEF Enters, Inv0, TypeOK, Codes
<1>5. CASE u # Nothing /\ Hold(r, next, Entity(r, u), code)
  <2>1. u \in User
    BY <1>1, <1>5 DEF Inv0, TypeOK
  <2>2. Entity(r, u) \in Rows({Undefined})
    BY <2>1, EntityTyped
  <2>3. next \in Labels
    BY DEF Labels
  <2>4. /\ codes' \in Codes /\ task' \in [Requests -> Work]
        /\ task'[r].pc = next /\ task'[r].seen = Len(log) /\ Len(log) \in Nat
    BY <1>4, <1>5, <2>2, <2>3, HoldTyped
  <2>5. Placed(r)'
    <3>1. \/ Op(r) \in WholeSaves /\ next = "reread"
          \/ Op(r) = "updateProfile" /\ next = "name"
          \/ Op(r) \in Updates /\ next = "update"
      BY DEF Load
    <3> QED  BY <1>1, <1>5, <2>4, <3>1 DEF Placed, Load, Op, Subject, WholeRows
  <2>6. \A s \in Requests : Placed(s)'
    BY <1>1, <1>4, <1>5, <2>2, <2>3, <2>5, HoldPlaced DEF Load
  <2> QED  BY <2>4, <2>6 DEF Inv0, TypeOK, Load, referral
<1>6. CASE Refuse(r)
  <2>1. task' \in [Requests -> Work] /\ \A s \in Requests : Placed(s)'
    BY <1>1, <1>6, GotoPlaced DEF Refuse, Labels, Over, Load
  <2> QED  BY <1>6, <2>1 DEF Inv0, TypeOK, Load, referral, Refuse
<1> QED  BY <1>3, <1>5, <1>6

\* A sign-in holds the row it is admitted by, or is refused.
LEMMA LoginInv0 == ASSUME Inv0, NEW r \in Requests, Login(r) PROVE Inv0'
<1>1. Op(r) # "none" /\ task[r].pc = "idle" /\ Subject(r) \in Users /\ grants[r] = Nothing
  <2>1. Op(r) # "none" /\ task[r].pc = "idle"
    BY DEF Login, At, Logins
  <2> QED  BY <2>1, CallTyped DEF Inv0, Placed
<1> DEFINE u == users[Subject(r)]
           label == IF u.tfa /\ Op(r) # "verifyTfaLogin" THEN "second" ELSE "done"
<1>2. CASE u # Nothing /\ Hold(r, label, u, 0)
  <2>1. u \in Rows({Undefined})
    <3>1. u \in User
      BY <1>1, <1>2 DEF Inv0, TypeOK
    <3> QED  BY <3>1, RowByColumn DEF User
  <2>2. label \in Labels /\ label \in Over
    BY DEF Labels, Over
  <2>3. codes' \in Codes /\ task' \in [Requests -> Work]
    BY <1>2, <2>1, <2>2, HoldTyped
  <2>4. \A s \in Requests : Placed(s)'
    BY <1>1, <1>2, <2>1, <2>2, HoldPlaced DEF Login
  <2> QED  BY <2>3, <2>4 DEF Inv0, TypeOK, Login, referral
<1>3. CASE Refuse(r)
  <2>1. task' \in [Requests -> Work] /\ \A s \in Requests : Placed(s)'
    BY <1>1, <1>3, GotoPlaced DEF Refuse, Labels, Over, Login
  <2> QED  BY <1>3, <2>1 DEF Inv0, TypeOK, Login, referral, Refuse
<1> QED  BY <1>2, <1>3 DEF Login

\* Nothing loaded is an entity all the same.
LEMMA NoEntityTyped == NoEntity \in Rows({Undefined})
  BY RowByColumn DEF NoEntity

\* A registration of an unknown address goes on to its referrer, name or row.
LEMMA FindByEmailInv0 == ASSUME Inv0, NEW r \in Requests, FindByEmail(r) PROVE Inv0'
<1>1. Op(r) # "none" /\ task[r].pc = "idle" /\ Subject(r) \in Users /\ grants[r] = Nothing /\ Op(r) \in Creations
  <2>1. Op(r) # "none" /\ task[r].pc = "idle"
    BY DEF FindByEmail, At, Creations
  <2> QED  BY <2>1, CallTyped DEF Inv0, Placed, FindByEmail
<1> DEFINE u == users[Subject(r)]
           next == IF cast.calls[r].by # Nothing THEN "refer"
                   ELSE IF cast.calls[r].name # Nothing THEN "name" ELSE "insert"
           label == CASE Op(r) = "google" -> "done"
                      [] Op(r) = "register" /\ ~u.verified -> "resend"
                      [] OTHER -> "refused"
<1>2. CASE u = Nothing
  <2>1. Hold(r, next, NoEntity, 0)
    BY <1>2 DEF FindByEmail
  <2>2. next \in Labels
    BY DEF Labels
  <2>3. /\ codes' \in Codes /\ task' \in [Requests -> Work]
        /\ task'[r].pc = next /\ task'[r].seen = Len(log) /\ Len(log) \in Nat
    BY <2>1, <2>2, NoEntityTyped, HoldTyped
  <2>4. next \in {"refer", "name"} => Op(r) = "register"
    BY <1>1, CallTyped DEF Creations, Inv0
  <2>5. Placed(r)'
    BY <1>1, <2>3, <2>4 DEF Placed, FindByEmail, Op, Subject
  <2>6. \A s \in Requests : Placed(s)'
    BY <1>1, <2>1, <2>2, <2>5, NoEntityTyped, HoldPlaced DEF FindByEmail
  <2> QED  BY <2>3, <2>6 DEF Inv0, TypeOK, FindByEmail, referral
<1>3. CASE u # Nothing
  <2>1. Goto(r, label) /\ UNCHANGED codes
    BY <1>3 DEF FindByEmail
  <2>2. label \in Labels /\ label \in {"done", "resend", "refused"}
    BY DEF Labels, Over
  <2>3. task'[r].pc = label /\ task'[r].seen = task[r].seen /\ task[r].seen <= Len(log)
    BY <2>1, <2>2, GotoTyped DEF Inv0, Placed
  <2>4. label = "resend" => Op(r) = "register"
    OBVIOUS
  <2>5. Placed(r)'
    BY <1>1, <1>3, <2>2, <2>3, <2>4 DEF Placed, FindByEmail, Op, Subject
  <2>6. task' \in [Requests -> Work] /\ \A s \in Requests : Placed(s)'
    BY <1>1, <2>1, <2>2, <2>5, GotoPlaced DEF FindByEmail
  <2> QED  BY <2>1, <2>6 DEF Inv0, TypeOK, FindByEmail, referral
<1> QED  BY <1>2, <1>3

\* A change of the settings is done, waits for its row, or is refused.
LEMMA FindRewardInv0 == ASSUME Inv0, NEW r \in Requests, FindReward(r) PROVE Inv0'
<1>1. Op(r) # "none" /\ task[r].pc = "idle" /\ grants[r] = Nothing /\ cast.calls[r].reward \in Reward
  <2>1. Op(r) # "none" /\ task[r].pc = "idle"
    BY DEF FindReward, At, Settings
  <2> QED  BY <2>1, CallTyped DEF Inv0, Placed
<1>2. CASE Goto(r, "done") \/ Goto(r, "refused")
  <2>1. task' \in [Requests -> Work] /\ \A s \in Requests : Placed(s)'
    BY <1>1, <1>2, GotoPlaced DEF Labels, Over, FindReward, account
  <2>2. rewards' \in [Requests -> Reward \cup {Nothing}]
    BY <1>1 DEF FindReward, Inv0, TypeOK
  <2> QED  BY <2>1, <2>2 DEF Inv0, TypeOK, FindReward, account
<1>3. ASSUME NEW q \in Requests, task' = [task EXCEPT ![r] = [Idle EXCEPT !.pc = "reward", !.row = q]], UNCHANGED rewards
      PROVE  Inv0'
  <2>0. UNCHANGED <<cast, users, codes, mails, jobs, log, refer, referrals, rewards, grants, restarts>>
    BY <1>3 DEF FindReward, account
  <2> DEFINE t == [Idle EXCEPT !.pc = "reward", !.row = q]
  <2>1. t \in Work /\ t.pc = "reward" /\ t.row = q /\ t.seen = 0
    BY NoEntityTyped DEF Idle, Work, Labels
  <2>2. task' = [task EXCEPT ![r] = t]
    BY <1>3
  <2> HIDE DEF t
  <2>3. task' \in [Requests -> Work] /\ task'[r] = t /\ \A s \in Requests \ {r} : task'[s] = task[s]
    BY <2>1, <2>2 DEF Inv0, TypeOK
  <2>4. ASSUME NEW s \in Requests \ {r} PROVE Placed(s)'
    <3>1. TypeOK /\ Placed(s) /\ Len(log) \in Nat
      BY DEF Inv0, TypeOK
    <3> QED  BY <2>0, <2>3, <3>1, PlacedKept
  <2>5. Op(r)' \in Settings
    BY <2>0 DEF Op, FindReward
  <2>6. Placed(r)'
    BY <1>1, <2>0, <2>1, <2>3, <2>5 DEF Placed, Inv0, TypeOK, Settings
  <2> QED  BY <2>0, <2>3, <2>4, <2>6 DEF Inv0, TypeOK
<1> QED  BY <1>2, <1>3 DEF FindReward

\* A request that holds what it will write to a row of privileges is placed.
LEMMA HoldGrantInv0 ==
    ASSUME Inv0, NEW r \in Requests, NEW label \in {"regrant", "grant"}, NEW row \in Requests,
           NEW perms \in SUBSET Permissions, HoldGrant(r, label, row, perms),
           UNCHANGED <<cast, account, log, referral, grants, restarts>>,
           Op(r) \in Grants, grants[r] = Nothing, row # r => grants[row] # Nothing, row = r => label = "grant"
    PROVE  Inv0'
<1> DEFINE t == [Idle EXCEPT !.pc = label, !.row = row, !.perms = perms, !.seen = Len(log)]
<1>1. /\ t \in Work /\ t.pc = label /\ t.row = row /\ t.seen = Len(log)
  <2>1. label \in Labels /\ Len(log) \in Nat
    BY DEF Labels, Inv0, TypeOK
  <2> QED  BY <2>1, NoEntityTyped DEF Idle, Work
<1>2. task' = [task EXCEPT ![r] = t]
  BY DEF HoldGrant
<1> HIDE DEF t
<1>3. task' \in [Requests -> Work] /\ task'[r] = t /\ \A s \in Requests \ {r} : task'[s] = task[s]
  BY <1>1, <1>2 DEF Inv0, TypeOK
<1>4. ASSUME NEW s \in Requests \ {r} PROVE Placed(s)'
  <2>1. TypeOK /\ Placed(s) /\ Len(log) \in Nat
    BY DEF Inv0, TypeOK
  <2> QED  BY <1>3, <2>1, PlacedKept DEF account
<1>5. Op(r)' \in Grants
  BY DEF Op
<1>6. Placed(r)'
  BY <1>1, <1>3, <1>5 DEF Placed, Inv0, TypeOK, account, Grants
<1> QED  BY <1>3, <1>4, <1>6 DEF Inv0, TypeOK, account, referral

\* A change of privileges waits for the row it found, or for one to make.
LEMMA FindGrantInv0 == ASSUME Inv0, NEW r \in Requests, FindGrant(r) PROVE Inv0'
<1>1. /\ Op(r) \in Grants /\ Op(r) # "none" /\ task[r].pc = "idle" /\ grants[r] = Nothing
      /\ cast.calls[r].perms \in SUBSET Permissions
  <2>1. Op(r) \in Grants /\ Op(r) # "none" /\ task[r].pc = "idle"
    BY DEF FindGrant, At, Grants
  <2> QED  BY <2>1, CallTyped DEF Inv0, Placed
<1>2. ASSUME NEW q \in Requests, grants[q] # Nothing, HoldGrant(r, "regrant", q, Granted(r, grants[q]))
      PROVE  Inv0'
  <2>1. Granted(r, grants[q]) \in SUBSET Permissions
    BY <1>1, <1>2 DEF Granted, Inv0, TypeOK
  <2> QED  BY <1>1, <1>2, <2>1, HoldGrantInv0 DEF FindGrant
<1>3. CASE HoldGrant(r, "grant", r, cast.calls[r].perms)
  BY <1>1, <1>3, HoldGrantInv0 DEF FindGrant
<1>4. CASE Goto(r, "refused")
  <2>1. task' \in [Requests -> Work] /\ \A s \in Requests : Placed(s)'
    BY <1>1, <1>4, GotoPlaced DEF Labels, Over, FindGrant, account
  <2> QED  BY <2>1 DEF Inv0, TypeOK, FindGrant, account, referral
<1> QED  BY <1>2, <1>3, <1>4 DEF FindGrant

\* What is to be written was loaded or assigned.
LEMMA RereadInv0 == ASSUME Inv0, NEW r \in Requests, Reread(r) PROVE Inv0'
<1> DEFINE dirty == {c \in Columns : /\ Changed(r)[c] # Undefined
                                     /\ c \in Hidden \/ Changed(r)[c] # users[Subject(r)][c]}
           t == [task[r] EXCEPT !.pc = "save", !.dirty = dirty]
<1>1. task[r] \in Work /\ task[r].pc = "reread" /\ dirty \in SUBSET Columns
  BY DEF Reread, At, Inv0, TypeOK
<1>2. t \in Work /\ t.pc = "save" /\ t.seen = task[r].seen
  <2> HIDE DEF dirty
  <2> QED  BY <1>1 DEF Work, Labels
<1>3. task' = [task EXCEPT ![r] = t]
  BY DEF Reread, Inv0, TypeOK
<1> HIDE DEF t
<1>4. task' \in [Requests -> Work] /\ task'[r] = t /\ \A s \in Requests \ {r} : task'[s] = task[s]
  BY <1>2, <1>3 DEF Inv0, TypeOK
<1>0. UNCHANGED <<cast, users, codes, mails, jobs, log, refer, referrals, rewards, grants, restarts>>
  BY DEF Reread, account, referral
<1>5. ASSUME NEW s \in Requests \ {r} PROVE Placed(s)'
  <2>1. TypeOK /\ Placed(s) /\ Len(log) \in Nat
    BY DEF Inv0, TypeOK
  <2> QED  BY <1>0, <1>4, <2>1, PlacedKept
<1>6. Placed(r)
  BY DEF Inv0
<1>7. \A c \in t.dirty : Changed(r)'[c] # Undefined
  <2>1. Changed(r)' = Changed(r)
    <3>1. task'[r].entity = task[r].entity /\ task'[r].code = task[r].code
      BY <1>1, <1>4 DEF t, Work
    <3> QED  BY <1>0, <3>1, ChangedSame
  <2> QED  BY <1>1, <2>1 DEF t
<1>8. Placed(r)'
  BY <1>0, <1>1, <1>2, <1>4, <1>6, <1>7 DEF Placed, Op, Subject
<1> QED  BY <1>0, <1>4, <1>5, <1>8 DEF Inv0, TypeOK

\* A request that writes a row and its log, and goes on.
LEMMA RowWritten ==
    ASSUME Inv0, NEW r \in Requests, NEW label \in {"done", "job", "mail"}, NEW row \in User, NEW columns,
           Op(r) # "none", task[r].pc # "done",
           users' = [users EXCEPT ![Subject(r)] = row], log' = Meant(r, Subject(r), columns), Goto(r, label),
           UNCHANGED <<cast, grants>>
    PROVE  /\ users' \in [Users -> User \cup {Nothing}] /\ task' \in [Requests -> Work]
           /\ log' \in Seq({log'[i] : i \in DOMAIN log'})
           /\ \A i \in DOMAIN log' : /\ log'[i].by \in Requests /\ log'[i].row \in Users \cup Requests
                                     /\ log'[i].seen < i
           /\ \A s \in Requests : Placed(s)'
<1>1. Subject(r) \in Users /\ task[r].seen <= Len(log) /\ label \in Labels /\ row # Nothing
  BY CallTyped, AccountsAssumption DEF Inv0, Placed, Labels, Over
<1>2. /\ Len(log) \in Nat /\ Len(log') = Len(log) + 1
      /\ log' \in Seq({log'[i] : i \in DOMAIN log'})
      /\ \A i \in DOMAIN log' : /\ log'[i].by \in Requests /\ log'[i].row \in Users \cup Requests
                                /\ log'[i].seen < i
  BY <1>1, LogAppended DEF Inv0
<1>3. /\ task' \in [Requests -> Work] /\ \A s \in Requests \ {r} : task'[s] = task[s]
      /\ task'[r].pc = label /\ task'[r].seen = task[r].seen
  BY <1>1, GotoTyped DEF Inv0
<1>4. /\ users' \in [Users -> User \cup {Nothing}] /\ users'[Subject(r)] # Nothing
      /\ \A u \in Users : users[u] # Nothing => users'[u] # Nothing
  BY <1>1 DEF Inv0, TypeOK
<1>5. ASSUME NEW s \in Requests \ {r} PROVE Placed(s)'
  <2>1. TypeOK /\ Placed(s)
    BY DEF Inv0
  <2> QED  BY <1>2, <1>3, <1>4, <2>1, PlacedKept
<1>6. Placed(r)'
  <2>1. Placed(r) /\ task[r].seen \in Nat
    BY DEF Inv0, TypeOK, Work
  <2> QED  BY <1>1, <1>2, <1>3, <1>4, <2>1 DEF Placed, Op, Subject
<1> QED  BY <1>2, <1>3, <1>4, <1>5, <1>6

\* A save leaves a row of the right type, or is refused.
LEMMA SaveInv0 == ASSUME Inv0, NEW r \in Requests, Save(r) PROVE Inv0'
<1>1. /\ task[r].pc = "save" /\ Op(r) \in WholeRows /\ Op(r) # "none" /\ users[Subject(r)] # Nothing
  <2>1. task[r].pc = "save" /\ Placed(r)
    BY DEF Save, At, Inv0
  <2> QED  BY <2>1 DEF Placed
<1>2. CASE Goto(r, "refused") /\ UNCHANGED <<users, log>>
  <2>1. task' \in [Requests -> Work] /\ \A s \in Requests : Placed(s)'
    BY <1>1, <1>2, GotoPlaced DEF Labels, Over, Save
  <2> QED  BY <1>2, <2>1 DEF Inv0, TypeOK, Save, referral
<1>3. CASE /\ users' = [users EXCEPT ![Subject(r)] = Merged(r, task[r].dirty)]
           /\ log' = Meant(r, Subject(r), Assigned(r))
           /\ Goto(r, After(r))
  <2>1. After(r) \in {"done", "job", "mail"}
    BY DEF After
  <2>2. \A c \in task[r].dirty \cap Columns : Changed(r)[c] \in Value[c]
    BY <1>1, ChangedTyped DEF Placed, Inv0
  <2>3. Merged(r, task[r].dirty) \in User
    BY <1>1, <2>2, ChangedTyped DEF Inv0
  <2>4. /\ users' \in [Users -> User \cup {Nothing}] /\ task' \in [Requests -> Work]
        /\ log' \in Seq({log'[i] : i \in DOMAIN log'})
        /\ \A i \in DOMAIN log' : /\ log'[i].by \in Requests /\ log'[i].row \in Users \cup Requests
                                  /\ log'[i].seen < i
        /\ \A s \in Requests : Placed(s)'
    BY <1>1, <1>3, <2>1, <2>3, RowWritten DEF Save
  <2> QED  BY <2>4 DEF Inv0, TypeOK, Save, referral
<1> QED  BY <1>2, <1>3 DEF Save

\* The wallet job of a user is counted.
LEMMA AddJobInv0 == ASSUME Inv0, NEW r \in Requests, AddJob(r) PROVE Inv0'
<1>1. /\ task[r].pc = "job" /\ Op(r) # "none" /\ Subject(r) \in Users
  <2>1. task[r].pc = "job" /\ Placed(r)
    BY DEF AddJob, At, Inv0
  <2> QED  BY <2>1, CallTyped DEF Placed, Inv0
<1>2. task' \in [Requests -> Work] /\ \A s \in Requests : Placed(s)'
  BY <1>1, GotoPlaced DEF Labels, Over, AddJob
<1>3. jobs' \in [Users -> Nat]
  BY <1>1 DEF AddJob, Inv0, TypeOK
<1> QED  BY <1>2, <1>3 DEF Inv0, TypeOK, AddJob, referral

\* A code that is mailed goes to an address.
LEMMA SendMailInv0 == ASSUME Inv0, NEW r \in Requests, SendMail(r) PROVE Inv0'
<1>1. /\ task[r].pc = "mail" /\ Op(r) # "none" /\ Subject(r) \in Users
  <2>1. task[r].pc = "mail" /\ Placed(r)
    BY DEF SendMail, At, Inv0
  <2> QED  BY <2>1, CallTyped DEF Placed, Inv0
<1>2. task' \in [Requests -> Work] /\ \A s \in Requests : Placed(s)'
  BY <1>1, GotoPlaced DEF Labels, Over, SendMail
<1>3. mails' \subseteq Users \X Codes
  BY <1>1 DEF SendMail, Inv0, TypeOK, Work, Codes
<1> QED  BY <1>2, <1>3 DEF Inv0, TypeOK, SendMail, referral

\* A name that is free leads to the row or the update.
LEMMA FindNameInv0 == ASSUME Inv0, NEW r \in Requests, FindName(r) PROVE Inv0'
<1> DEFINE label == IF Taken(cast.calls[r].name) THEN "refused"
                    ELSE IF Op(r) = "register" THEN "insert" ELSE "update"
<1>1. UNCHANGED <<cast, users, codes, mails, jobs, log, refer, referrals, rewards, grants, restarts>>
  BY DEF FindName, account, referral
<1>2. /\ task[r].pc = "name" /\ Op(r) # "none" /\ Op(r) \in {"updateProfile", "register"} /\ Placed(r)
      /\ Op(r) = "updateProfile" => users[Subject(r)] # Nothing
  <2>1. task[r].pc = "name" /\ Placed(r)
    BY DEF FindName, At, Inv0
  <2> QED  BY <2>1 DEF Placed
<1>3. Goto(r, label) /\ label \in Labels /\ label \in {"refused", "insert", "update"}
  BY DEF FindName, Labels, Over
<1>4. (label = "insert" => Op(r) = "register") /\ (label = "update" => Op(r) = "updateProfile")
  BY <1>2
<1>5. task'[r].pc = label /\ task'[r].seen = task[r].seen
  BY <1>3, GotoTyped DEF Inv0
<1> HIDE DEF label
<1>6. Placed(r)'
  BY <1>1, <1>2, <1>3, <1>4, <1>5 DEF Placed, Op, Subject, Creations, Updates
<1>7. task' \in [Requests -> Work] /\ \A s \in Requests : Placed(s)'
  BY <1>1, <1>2, <1>3, <1>6, GotoPlaced
<1> QED  BY <1>1, <1>7 DEF Inv0, TypeOK

\* An update leaves a row of the right type, or is empty.
LEMMA UpdateInv0 == ASSUME Inv0, NEW r \in Requests, Update(r) PROVE Inv0'
<1>1. /\ task[r].pc = "update" /\ Op(r) \in Updates /\ Op(r) # "none" /\ users[Subject(r)] # Nothing
  <2>1. task[r].pc = "update" /\ Placed(r)
    BY DEF Update, At, Inv0
  <2> QED  BY <2>1 DEF Placed
<1>2. CASE Goto(r, "empty") /\ UNCHANGED <<users, log>>
  <2>1. task' \in [Requests -> Work] /\ \A s \in Requests : Placed(s)'
    BY <1>1, <1>2, GotoPlaced DEF Labels, Over, Update
  <2> QED  BY <1>2, <2>1 DEF Inv0, TypeOK, Update, referral
<1>3. CASE /\ users' = [users EXCEPT ![Subject(r)] = Merged(r, DOMAIN Assigned(r))]
           /\ log' = Meant(r, Subject(r), Assigned(r))
           /\ Goto(r, "done")
  <2>1. Merged(r, DOMAIN Assigned(r)) \in User
    <3>1. \A c \in (DOMAIN Assigned(r)) \cap Columns : Changed(r)[c] \in Value[c]
      BY <1>1, ChangedTyped, AssignedTyped DEF Inv0
    <3> QED  BY <1>1, <3>1, ChangedTyped DEF Inv0
  <2>2. /\ users' \in [Users -> User \cup {Nothing}] /\ task' \in [Requests -> Work]
        /\ log' \in Seq({log'[i] : i \in DOMAIN log'})
        /\ \A i \in DOMAIN log' : /\ log'[i].by \in Requests /\ log'[i].row \in Users \cup Requests
                                  /\ log'[i].seen < i
        /\ \A s \in Requests : Placed(s)'
    BY <1>1, <1>3, <2>1, RowWritten DEF Update
  <2> QED  BY <2>2 DEF Inv0, TypeOK, Update, referral
<1> QED  BY <1>2, <1>3 DEF Update

\* The process ends: every request it cuts off stays placed.
LEMMA EndInv0 ==
    ASSUME Inv0, ProcessEnds, UNCHANGED <<cast, account, log, referrals, rewards, grants>>
    PROVE  Inv0'
<1>1. UNCHANGED <<cast, users, codes, mails, jobs, log, referrals, rewards, grants>>
  BY DEF account
<1>2. ASSUME NEW r \in Requests
      PROVE  /\ task'[r] = IF task[r].pc \in Over THEN task[r] ELSE [task[r] EXCEPT !.pc = "cut"]
             /\ task'[r] \in Work /\ Placed(r)'
  <2>1. task'[r] = IF task[r].pc \in Over THEN task[r] ELSE [task[r] EXCEPT !.pc = "cut"]
    BY DEF ProcessEnds
  <2>2. TypeOK /\ Placed(r) /\ Len(log) \in Nat /\ task[r] \in Work
    BY DEF Inv0, TypeOK
  <2>3. CASE task[r].pc \in Over
    BY <1>1, <2>1, <2>2, <2>3, PlacedKept
  <2>4. CASE task[r].pc \notin Over
    <3>1. task'[r] \in Work /\ task'[r].pc = "cut" /\ task'[r].seen = task[r].seen
      BY <2>1, <2>2, <2>4 DEF Work, Labels, Over
    <3> QED  BY <1>1, <2>1, <2>2, <2>4, <3>1 DEF Placed, Op, Over
  <2> QED  BY <2>1, <2>2, <2>3, <2>4
<1>3. task' \in [Requests -> Work]
  BY <1>2 DEF ProcessEnds
<1>4. refer' \in [Requests -> Referring]
  <2>1. ASSUME NEW r \in Requests PROVE refer'[r] \in Referring
    <3>1. refer[r] \in Referring
      BY DEF Inv0, TypeOK
    <3>2. refer'[r] = refer[r] \/ refer'[r] = [refer[r] EXCEPT !.pc = "lost"]
      BY DEF ProcessEnds
    <3> QED  BY <3>1, <3>2 DEF Referring
  <2> QED  BY <2>1 DEF ProcessEnds
<1>5. restarts' \in Nat
  BY DEF ProcessEnds, Inv0, TypeOK
<1> QED  BY <1>1, <1>2, <1>3, <1>4, <1>5 DEF Inv0, TypeOK

\* A second code is held with the row, or the process ends.
LEMMA ResendOtpInv0 == ASSUME Inv0, NEW r \in Requests, ResendOtp(r) PROVE Inv0'
<1> DEFINE e == Entity(r, users[Subject(r)])
<1>1. /\ task[r].pc = "resend" /\ Op(r) = "register" /\ users[Subject(r)] # Nothing /\ Subject(r) \in Users
      /\ grants[r] = Nothing
  <2>1. task[r].pc = "resend" /\ Placed(r)
    BY DEF ResendOtp, At, Inv0
  <2> QED  BY <2>1, CallTyped DEF Placed, Inv0
<1>2. CASE Hold(r, "reread", e, 0) /\ UNCHANGED <<refer, restarts>>
  <2>1. e \in Rows({Undefined})
    BY <1>1, EntityTyped DEF Inv0, TypeOK
  <2>2. /\ codes' \in Codes /\ task' \in [Requests -> Work]
        /\ task'[r].pc = "reread" /\ task'[r].seen = Len(log) /\ Len(log) \in Nat
    BY <1>2, <2>1, HoldTyped DEF Labels
  <2>3. Placed(r)'
    BY <1>1, <2>2 DEF Placed, ResendOtp, Op, Subject, WholeRows
  <2>4. \A s \in Requests : Placed(s)'
    BY <1>1, <1>2, <2>1, <2>3, HoldPlaced DEF ResendOtp, Labels
  <2> QED  BY <1>2, <2>2, <2>4 DEF Inv0, TypeOK, ResendOtp
<1>3. CASE ProcessEnds /\ UNCHANGED codes
  BY <1>3, EndInv0 DEF ResendOtp, account
<1> QED  BY <1>2, <1>3 DEF ResendOtp

\* A referrer who is verified leads on to the name or the row.
LEMMA FindReferrerInv0 == ASSUME Inv0, NEW r \in Requests, FindReferrer(r) PROVE Inv0'
<1> DEFINE by == users[cast.calls[r].by]
           label == IF by = Nothing \/ ~by.verified THEN "refused"
                    ELSE IF cast.calls[r].name # Nothing THEN "name" ELSE "insert"
<1>1. UNCHANGED <<cast, users, codes, mails, jobs, log, refer, referrals, rewards, grants, restarts>>
  BY DEF FindReferrer, account, referral
<1>2. /\ task[r].pc = "refer" /\ Op(r) # "none" /\ Op(r) = "register" /\ Placed(r)
  <2>1. task[r].pc = "refer" /\ Placed(r)
    BY DEF FindReferrer, At, Inv0
  <2> QED  BY <2>1 DEF Placed
<1>3. Goto(r, label) /\ label \in Labels /\ label \in {"refused", "name", "insert"}
  BY DEF FindReferrer, Labels, Over
<1>4. task'[r].pc = label /\ task'[r].seen = task[r].seen
  BY <1>3, GotoTyped DEF Inv0
<1> HIDE DEF label
<1>5. Placed(r)'
  BY <1>1, <1>2, <1>3, <1>4 DEF Placed, Op, Subject, Creations
<1>6. task' \in [Requests -> Work] /\ \A s \in Requests : Placed(s)'
  BY <1>1, <1>2, <1>3, <1>5, GotoPlaced
<1> QED  BY <1>1, <1>6 DEF Inv0, TypeOK

\* The row of a new user is a row with every column.
LEMMA NewUserTyped ==
    ASSUME TypeOK, NEW r \in Requests, Op(r) # "none"
    PROVE  NewUser(r) \in User /\ DOMAIN NewUser(r) = Columns
<1>1. cast.calls[r].name \in Names \cup {Nothing} /\ task[r].code \in Nat
  BY CallTyped DEF TypeOK, Work
<1>2. NewUser(r) \in User
  BY <1>1 DEF NewUser, User, Rows, Codes
<1> QED  BY <1>2, RowByColumn DEF User

\* Whoever inserts is placed, and his referral starts if he named a referrer.
LEMMA InsertInv0 == ASSUME Inv0, NEW r \in Requests, Insert(r) PROVE Inv0'
<1>1. /\ task[r].pc = "insert" /\ Op(r) \in Creations /\ Op(r) # "none" /\ Subject(r) \in Users
      /\ cast.calls[r].by \in Users \cup {Nothing}
  <2>1. task[r].pc = "insert" /\ Placed(r)
    BY DEF Insert, At, Inv0
  <2>2. Op(r) \in Creations /\ Op(r) # "none"
    BY <2>1 DEF Placed
  <2> QED  BY <2>1, <2>2, CallTyped DEF Inv0
<1>2. refer' \in [Requests -> Referring]
  <2> DEFINE x == [NoReferral EXCEPT !.pc = "settings", !.by = cast.calls[r].by,
                                     !.user = IF Collides(r) THEN Nothing ELSE Subject(r)]
  <2>1. x \in Referring
    BY <1>1 DEF NoReferral, Referring
  <2>2. refer' = [refer EXCEPT ![r] = x] \/ refer' = refer
    BY DEF Insert
  <2> HIDE DEF x
  <2> QED  BY <2>1, <2>2 DEF Inv0, TypeOK
<1>3. CASE Collides(r)
  <2>1. /\ Goto(r, IF Op(r) = "google" THEN "refused" ELSE "empty") /\ UNCHANGED <<users, mails, log>>
    BY <1>3 DEF Insert
  <2>2. task' \in [Requests -> Work] /\ \A s \in Requests : Placed(s)'
    BY <1>1, <2>1, GotoPlaced DEF Labels, Over, Insert
  <2> QED  BY <1>2, <2>1, <2>2 DEF Inv0, TypeOK, Insert
<1>4. CASE ~Collides(r)
  <2>1. /\ users' = [users EXCEPT ![Subject(r)] = NewUser(r)]
        /\ mails' = IF Op(r) = "register" THEN mails \cup {<<Subject(r), task[r].code>>} ELSE mails
        /\ log' = Meant(r, Subject(r), NewUser(r))
        /\ Goto(r, "done")
    BY <1>4 DEF Insert
  <2>2. mails' \subseteq Users \X Codes
    BY <1>1, <2>1 DEF Inv0, TypeOK, Work, Codes
  <2>3. /\ users' \in [Users -> User \cup {Nothing}] /\ task' \in [Requests -> Work]
        /\ log' \in Seq({log'[i] : i \in DOMAIN log'})
        /\ \A i \in DOMAIN log' : /\ log'[i].by \in Requests /\ log'[i].row \in Users \cup Requests
                                  /\ log'[i].seen < i
        /\ \A s \in Requests : Placed(s)'
    BY <1>1, <2>1, NewUserTyped, RowWritten DEF Insert, Inv0
  <2> QED  BY <1>2, <2>2, <2>3 DEF Inv0, TypeOK, Insert
<1> QED  BY <1>3, <1>4

\* A reward is changed or removed.
LEMMA WriteRewardInv0 == ASSUME Inv0, NEW r \in Requests, WriteReward(r) PROVE Inv0'
<1>1. /\ task[r].pc = "reward" /\ Op(r) # "none" /\ cast.calls[r].reward \in Reward
  <2>1. task[r].pc = "reward" /\ Placed(r)
    BY DEF WriteReward, At, Inv0
  <2> QED  BY <2>1, CallTyped DEF Placed, Inv0
<1>2. task' \in [Requests -> Work] /\ \A s \in Requests : Placed(s)'
  BY <1>1, GotoPlaced DEF Labels, Over, WriteReward, account
<1>3. rewards' \in [Requests -> Reward \cup {Nothing}]
  BY <1>1 DEF WriteReward, Inv0, TypeOK
<1> QED  BY <1>2, <1>3 DEF Inv0, TypeOK, WriteReward, account

\* What a request meant to write to a row of privileges is logged as it ends.
LEMMA GrantWritten ==
    ASSUME Inv0, NEW r \in Requests, task[r].pc \in {"regrant", "grant"},
           log' = Meant(r, task[r].row, Wished(r)), Goto(r, "done"), UNCHANGED <<cast, account, referral, restarts>>,
           grants' = grants \/ grants' = [grants EXCEPT ![task[r].row] = task[r].perms]
    PROVE  Inv0'
<1>1. /\ UNCHANGED <<cast, users, codes, mails, jobs, refer, referrals, rewards, restarts>>
  BY DEF account, referral
<1>2. /\ task[r].row \in Requests /\ task[r].perms \in SUBSET Permissions /\ task[r].seen <= Len(log)
      /\ task[r].seen \in Nat /\ Op(r) # "none"
      /\ task[r].row # r => grants[task[r].row] # Nothing
      /\ grants[r] = Nothing /\ task[r].perms # Nothing
  <2>1. Placed(r) /\ task[r] \in Work
    BY DEF Inv0, TypeOK
  <2> QED  BY <2>1, AccountsAssumption DEF Placed, Work
<1>3. /\ Len(log) \in Nat /\ Len(log') = Len(log) + 1
      /\ log' \in Seq({log'[i] : i \in DOMAIN log'})
      /\ \A i \in DOMAIN log' : /\ log'[i].by \in Requests /\ log'[i].row \in Users \cup Requests
                                /\ log'[i].seen < i
  BY <1>2, LogAppended DEF Inv0
<1>4. /\ task' \in [Requests -> Work] /\ \A s \in Requests \ {r} : task'[s] = task[s]
      /\ task'[r].pc = "done" /\ task'[r].seen = task[r].seen
  BY GotoTyped DEF Inv0, Labels, Over
<1>5. /\ grants' \in [Requests -> {Nothing} \cup SUBSET Permissions]
      /\ \A q \in Requests : grants[q] # Nothing => grants'[q] # Nothing
      /\ \A q \in Requests : q # task[r].row => grants'[q] = grants[q]
  BY <1>2 DEF Inv0, TypeOK
<1>6. ASSUME NEW s \in Requests \ {r} PROVE Placed(s)'
  <2>1. TypeOK /\ Placed(s)
    BY DEF Inv0
  <2>2. CASE s # task[r].row
    <3>1. grants'[s] = grants[s]
      BY <1>5, <2>2
    <3> QED  BY <1>1, <1>3, <1>4, <1>5, <2>1, <3>1, PlacedKept
  <2>3. CASE s = task[r].row
    <3>1. task[s].pc = "done"
      BY <1>2, <2>1, <2>3 DEF Placed
    <3>2. task[s].seen \in Nat
      BY DEF Inv0, TypeOK, Work
    <3> QED  BY <1>1, <1>3, <1>4, <2>1, <3>1, <3>2 DEF Placed, Op
  <2> QED  BY <2>2, <2>3
<1>7. Placed(r)'
  BY <1>1, <1>2, <1>3, <1>4 DEF Placed, Op
<1> QED  BY <1>1, <1>3, <1>4, <1>5, <1>6, <1>7 DEF Inv0, TypeOK

\* Privileges that are as they should be end the request.
LEMMA RereadGrantInv0 == ASSUME Inv0, NEW r \in Requests, RereadGrant(r) PROVE Inv0'
<1>1. task[r].pc = "regrant" /\ Op(r) # "none" /\ Op(r) \in Grants /\ Placed(r)
  <2>1. task[r].pc = "regrant" /\ Placed(r)
    BY DEF RereadGrant, At, Inv0
  <2> QED  BY <2>1 DEF Placed
<1>2. CASE Goto(r, "grant") /\ UNCHANGED log
  <2>1. UNCHANGED <<cast, users, codes, mails, jobs, log, refer, referrals, rewards, grants, restarts>>
    BY <1>2 DEF RereadGrant, account, referral
  <2>2. task'[r].pc = "grant" /\ task'[r].seen = task[r].seen /\ task'[r].row = task[r].row
    BY <1>2, GotoTyped DEF Inv0, Labels
  <2>3. Placed(r)'
    BY <1>1, <2>1, <2>2 DEF Placed, Op
  <2>4. task' \in [Requests -> Work] /\ \A s \in Requests : Placed(s)'
    BY <1>1, <1>2, <2>1, <2>3, GotoPlaced DEF Labels
  <2> QED  BY <2>1, <2>4 DEF Inv0, TypeOK
<1>3. CASE Goto(r, "done") /\ log' = Meant(r, task[r].row, Wished(r))
  BY <1>1, <1>3, GrantWritten DEF RereadGrant
<1> QED  BY <1>2, <1>3 DEF RereadGrant

\* Privileges are written to the row that was found, or made.
LEMMA SaveGrantInv0 == ASSUME Inv0, NEW r \in Requests, SaveGrant(r) PROVE Inv0'
  BY GrantWritten DEF SaveGrant, At

\* What a reward is worth is a number, and so is a count of referrals.
LEMMA EarlierTyped == ASSUME TypeOK, NEW by, NEW n \in Nat PROVE Earlier(by, n) \in Nat
<1>1. IsFiniteSet(1..n)
  BY FS_Interval
<1>2. IsFiniteSet({i \in 1..n : referrals[i].by = by})
  BY <1>1, FS_Subset
<1> QED  BY <1>2, FS_CardinalityType DEF Earlier

\* What a referral is worth is a number.
LEMMA AmountsTyped == ASSUME NEW tiers \in SUBSET Reward, NEW n PROVE Amounts(tiers, n) \subseteq Nat
  BY DEF Amounts, Reward

\* A step of a referral under way leaves the requests alone.
LEMMA ReferKept ==
    ASSUME Inv0, UNCHANGED <<cast, account, task, log, rewards, grants, restarts>>,
           refer' \in [Requests -> Referring], referrals' \in Seq(Referral)
    PROVE  Inv0'
<1>1. UNCHANGED <<cast, users, codes, mails, jobs, task, log, rewards, grants, restarts>>
  BY DEF account
<1>2. ASSUME NEW s \in Requests PROVE Placed(s)'
  <2>1. TypeOK /\ Placed(s) /\ Len(log) \in Nat
    BY DEF Inv0, TypeOK
  <2> QED  BY <1>1, <2>1, PlacedKept
<1> QED  BY <1>1, <1>2 DEF Inv0, TypeOK

\* A referral keeps the tiers it has read.
LEMMA ReadSettingsInv0 == ASSUME Inv0, NEW r \in Requests, ReadSettings(r) PROVE Inv0'
<1> DEFINE x == [refer[r] EXCEPT !.pc = "count", !.tiers = {rewards[q] : q \in Requests} \ {Nothing}]
<1>1. refer[r] \in Referring /\ {rewards[q] : q \in Requests} \ {Nothing} \in SUBSET Reward
  BY DEF Inv0, TypeOK
<1>2. x \in Referring
  BY <1>1 DEF Referring
<1>3. refer' = [refer EXCEPT ![r] = x]
  BY DEF ReadSettings, Inv0, TypeOK
<1> HIDE DEF x
<1>4. refer' \in [Requests -> Referring] /\ referrals' \in Seq(Referral)
  BY <1>2, <1>3 DEF Inv0, TypeOK, ReadSettings
<1> QED  BY <1>4, ReferKept DEF ReadSettings

\* A referral keeps the count it has taken.
LEMMA CountReferralsInv0 == ASSUME Inv0, NEW r \in Requests, CountReferrals(r) PROVE Inv0'
<1> DEFINE x == [refer[r] EXCEPT !.pc = "save", !.count = Earlier(refer[r].by, Len(referrals)), !.knew = Len(referrals)]
<1>1. refer[r] \in Referring /\ Len(referrals) \in Nat /\ Earlier(refer[r].by, Len(referrals)) \in Nat
  BY EarlierTyped DEF Inv0, TypeOK
<1>2. x \in Referring
  BY <1>1 DEF Referring
<1>3. refer' = [refer EXCEPT ![r] = x]
  BY DEF CountReferrals, Inv0, TypeOK
<1> HIDE DEF x
<1>4. refer' \in [Requests -> Referring] /\ referrals' \in Seq(Referral)
  BY <1>2, <1>3 DEF Inv0, TypeOK, CountReferrals
<1> QED  BY <1>4, ReferKept DEF CountReferrals

\* A referral with a user is saved as a row of the right type.
LEMMA SaveReferralInv0 == ASSUME Inv0, NEW r \in Requests, SaveReferral(r), ReferOld(r) PROVE Inv0'
<1>1. CASE ProcessEnds /\ UNCHANGED referrals
  BY <1>1, EndInv0 DEF SaveReferral
<1>2. CASE /\ refer[r].user # Nothing
           /\ \E amount \in Amounts(refer[r].tiers, refer[r].count) :
                 referrals' = Append(referrals, [request |-> r, user |-> refer[r].user, by |-> refer[r].by,
                                 amount |-> amount, tiers |-> refer[r].tiers, knew |-> refer[r].knew])
           /\ refer' = [refer EXCEPT ![r].pc = "done"]
           /\ UNCHANGED <<task, restarts>>
  <2>1. PICK amount \in Amounts(refer[r].tiers, refer[r].count) :
                 referrals' = Append(referrals, [request |-> r, user |-> refer[r].user, by |-> refer[r].by,
                                 amount |-> amount, tiers |-> refer[r].tiers, knew |-> refer[r].knew])
    BY <1>2
  <2>2. refer[r] \in Referring /\ refer[r].pc = "save"
    BY DEF Inv0, TypeOK, SaveReferral
  <2>3. amount \in Nat
    BY <2>2, AmountsTyped DEF Referring
  <2>4. refer[r].by \in Users
    BY <2>2 DEF ReferOld
  <2>5. [request |-> r, user |-> refer[r].user, by |-> refer[r].by,
            amount |-> amount, tiers |-> refer[r].tiers, knew |-> refer[r].knew] \in Referral
    BY <1>2, <2>2, <2>3, <2>4 DEF Referring, Referral
  <2>6. referrals' \in Seq(Referral)
    BY <2>1, <2>5 DEF Inv0, TypeOK
  <2>7. refer' \in [Requests -> Referring]
    <3>1. [refer[r] EXCEPT !.pc = "done"] \in Referring
      BY <2>2 DEF Referring
    <3>2. refer' = [refer EXCEPT ![r] = [refer[r] EXCEPT !.pc = "done"]]
      BY <1>2 DEF Inv0, TypeOK
    <3> QED  BY <3>1, <3>2 DEF Inv0, TypeOK
  <2> QED  BY <1>2, <2>6, <2>7, ReferKept DEF SaveReferral
<1> QED  BY <1>1, <1>2 DEF SaveReferral

\* A request that fails is cut off.
LEMMA FailRequestInv0 == ASSUME Inv0, NEW r \in Requests, FailRequest(r) PROVE Inv0'
<1>1. UNCHANGED <<cast, users, codes, mails, jobs, log, refer, referrals, rewards, grants, restarts>>
  BY DEF FailRequest, account, referral
<1>2. task[r].pc \notin Over /\ Op(r) # "none"
  BY DEF FailRequest, Inv0, Placed, Over
<1>3. task' \in [Requests -> Work] /\ \A s \in Requests : Placed(s)'
  BY <1>1, <1>2, GotoPlaced DEF FailRequest, Labels, Over
<1> QED  BY <1>1, <1>3 DEF Inv0, TypeOK

\* It holds of the opening rows.
LEMMA InitInv0 == Init => Inv0
<1> SUFFICES ASSUME Init PROVE Inv0
  OBVIOUS
<1>1. Idle \in Work /\ Idle.pc = "idle" /\ Idle.seen = 0
  BY NoEntityTyped DEF Idle, Work, Labels, Over
<1>2. NoReferral \in Referring
  BY DEF NoReferral, Referring
<1>3. users \in [Users -> User \cup {Nothing}] /\ cast \in Casts
  BY AccountsAssumption DEF Init
<1>4. task = [r \in Requests |-> Idle]
  BY DEF Init
<1> HIDE DEF Idle
<1>5. task \in [Requests -> Work] /\ \A r \in Requests : task[r] = Idle
  BY <1>1, <1>4
<1>6. TypeOK
  BY <1>2, <1>3, <1>5 DEF Init, TypeOK, Codes
<1>7. Len(log) = 0
  BY DEF Init
<1>8. \A r \in Requests : Placed(r)
  BY <1>1, <1>5, <1>7 DEF Placed, Init
<1> QED  BY <1>6, <1>8 DEF Inv0
-----------------------------------------------------------------------------
(* The log *)

\* The log only grows, and the calls stay.
Grown ==
    /\ cast' = cast
    /\ Len(log) \in Nat /\ Len(log') \in Nat /\ Len(log') >= Len(log)
    /\ \A i \in 1..Len(log) : log'[i] = log[i]

\* What was the case after the first n of the log stays so.
LEMMA Prefix ==
    ASSUME Grown
    PROVE  /\ \A row, c, n : n \in 0..Len(log) => Latest(row, c, n)' = Latest(row, c, n)
           /\ \A u, c, value, n : n \in 0..Len(log) /\ Explained(u, c, value, n) => Explained(u, c, value, n)'
           /\ \A q, p, perms, n : n \in 0..Len(log) /\ Granting(q, p, perms, n) => Granting(q, p, perms, n)'
           /\ \A k \in 1..Len(log) : MayCarry(log[k].by)' = MayCarry(log[k].by)
<1>1. ASSUME NEW row, NEW c, NEW n \in 0..Len(log) PROVE Latest(row, c, n)' = Latest(row, c, n)
  <2>1. \A j \in 1..n : log'[j] = log[j]
    BY DEF Grown
  <2> QED  BY <2>1 DEF Latest, Grown
<1>2. \A k \in 1..Len(log) : MayCarry(log[k].by)' = MayCarry(log[k].by)
  BY DEF MayCarry, Op, Grown
<1>3. ASSUME NEW u, NEW c, NEW value, NEW n \in 0..Len(log), Explained(u, c, value, n)
      PROVE  Explained(u, c, value, n)'
  <2>1. Latest(u, c, n)' = Latest(u, c, n)
    BY <1>1
  <2>2. \A k \in 1..n : log'[k] = log[k] /\ MayCarry(log[k].by)' = MayCarry(log[k].by)
    BY <1>2 DEF Grown
  <2>3. Latest(u, c, n) \subseteq 1..n
    BY DEF Latest
  <2> QED  BY <1>3, <2>1, <2>2, <2>3 DEF Explained, Straddles, Grown
<1>4. ASSUME NEW q, NEW p, NEW perms, NEW n \in 0..Len(log), Granting(q, p, perms, n)
      PROVE  Granting(q, p, perms, n)'
  <2>1. Latest(q, p, n)' = Latest(q, p, n)
    BY <1>1
  <2>2. \A k \in 1..n : log'[k] = log[k]
    BY DEF Grown
  <2>3. Latest(q, p, n) \subseteq 1..n
    BY DEF Latest
  <2> QED  BY <1>4, <2>1, <2>2, <2>3 DEF Granting, Straddles, Grown
<1> QED  BY <1>1, <1>2, <1>3, <1>4

\* Appending what a request meant is such a growth.
LEMMA GrownAppended ==
    ASSUME TypeOK, NEW r \in Requests, NEW row \in Users \cup Requests, NEW columns,
           task[r].seen <= Len(log), log' = Meant(r, row, columns), cast' = cast
    PROVE  /\ Grown /\ Len(log) \in Nat /\ Len(log') = Len(log) + 1
           /\ \A i \in 1..Len(log) : log'[i] = log[i]
           /\ log'[Len(log) + 1] = [by |-> r, row |-> row, columns |-> columns, seen |-> task[r].seen]
<1>1. /\ Len(log) \in Nat /\ Len(log') = Len(log) + 1 /\ \A i \in 1..Len(log) : log'[i] = log[i]
      /\ log'[Len(log) + 1] = [by |-> r, row |-> row, columns |-> columns, seen |-> task[r].seen]
  BY LogAppended
<1> QED  BY <1>1 DEF Grown

\* What a request meant for row is the latest of its columns, and of no other.
LEMMA LatestAppended ==
    ASSUME TypeOK, NEW r \in Requests, NEW row \in Users \cup Requests, NEW columns,
           task[r].seen <= Len(log), log' = Meant(r, row, columns), cast' = cast
    PROVE  \A w, c : /\ w = row /\ c \in DOMAIN columns => Latest(w, c, Len(log))' = {Len(log')}
                     /\ w # row \/ c \notin DOMAIN columns => Latest(w, c, Len(log))' = Latest(w, c, Len(log))
<1>0. /\ Len(log) \in Nat /\ Len(log') = Len(log) + 1 /\ \A i \in 1..Len(log) : log'[i] = log[i]
      /\ log'[Len(log) + 1] = [by |-> r, row |-> row, columns |-> columns, seen |-> task[r].seen]
  BY LogAppended
<1>2. PICK n \in Nat : n = Len(log) /\ n + 1 = Len(log')
  BY <1>0
<1>3. /\ log'[n + 1].row = row /\ log'[n + 1].columns = columns
      /\ \A i \in 1..n : log'[i] = log[i]
  BY <1>0, <1>2
<1>4. ASSUME NEW w, NEW c, w = row /\ c \in DOMAIN columns
      PROVE  Latest(w, c, n + 1)' = {n + 1}
  BY <1>3, <1>4 DEF Latest
<1>5. ASSUME NEW w, NEW c, ~(w = row /\ c \in DOMAIN columns)
      PROVE  Latest(w, c, n + 1)' = Latest(w, c, n)
  <2>1. ASSUME NEW i \in 1..n, i \in Latest(w, c, n) PROVE i \in Latest(w, c, n + 1)'
    <3>1. ASSUME NEW j \in i + 1 .. n + 1, log'[j].row = w PROVE c \notin DOMAIN log'[j].columns
      <4>1. CASE j \in i + 1 .. n
        BY <1>3, <2>1, <3>1, <4>1 DEF Latest
      <4>2. CASE j = n + 1
        BY <1>3, <1>5, <3>1, <4>2
      <4> QED  BY <4>1, <4>2
    <3> QED  BY <1>3, <2>1, <3>1 DEF Latest
  <2>2. ASSUME NEW i \in 1 .. n + 1, i \in Latest(w, c, n + 1)' PROVE i \in Latest(w, c, n)
    <3>1. i # n + 1
      BY <1>3, <1>5, <2>2 DEF Latest
    <3>2. i \in 1..n
      BY <3>1
    <3>3. log[i].row = w /\ c \in DOMAIN log[i].columns
      BY <1>3, <2>2, <3>2 DEF Latest
    <3>4. ASSUME NEW j \in i + 1 .. n, log[j].row = w PROVE c \notin DOMAIN log[j].columns
      <4>1. j \in 1..n /\ j \in i + 1 .. n + 1 /\ log'[j] = log[j]
        BY <1>3
      <4> QED  BY <2>2, <3>4, <4>1 DEF Latest
    <3> QED  BY <3>2, <3>3, <3>4 DEF Latest
  <2>3. Latest(w, c, n) \subseteq 1..n /\ Latest(w, c, n + 1)' \subseteq 1 .. n + 1
    BY DEF Latest
  <2> QED  BY <2>1, <2>2, <2>3
<1> QED  BY <1>2, <1>4, <1>5

\* Once something was meant for a column, something is, whatever is appended.
LEMMA KeptAppended ==
    ASSUME TypeOK, LatestKept, NEW r \in Requests, NEW row \in Users \cup Requests, NEW columns,
           task[r].seen <= Len(log), log' = Meant(r, row, columns), cast' = cast
    PROVE  LatestKept'
<1>1. PICK n \in Nat : n = Len(log) /\ n + 1 = Len(log')
  BY GrownAppended
<1>2. /\ Len(log') = n + 1
      /\ \A w, c, k : k \in 0..n => Latest(w, c, k)' = Latest(w, c, k)
      /\ \A w, c : Latest(w, c, n + 1)' = {n + 1} \/ Latest(w, c, n + 1)' = Latest(w, c, n)
  <2>1. Grown
    BY GrownAppended
  <2>2. \A w, c : Latest(w, c, n + 1)' = {n + 1} \/ Latest(w, c, n + 1)' = Latest(w, c, n)
    BY <1>1, LatestAppended
  <2> QED  BY <1>1, <2>1, <2>2, Prefix
<1>3. ASSUME NEW w \in Users \cup Requests, NEW c, NEW m \in 0 .. n + 1, NEW k \in 0..m, Latest(w, c, m)' = {}
      PROVE  Latest(w, c, k)' = {}
  <2>1. CASE k = n + 1
    BY <1>3, <2>1
  <2>2. CASE k \in 0..n /\ m \in 0..n
    <3>1. Latest(w, c, m) = {}
      BY <1>2, <1>3, <2>2
    <3>2. Latest(w, c, k) = {}
      BY <1>1, <1>3, <2>2, <3>1 DEF LatestKept
    <3> QED  BY <1>2, <2>2, <3>2
  <2>3. CASE k \in 0..n /\ m = n + 1
    <3>1. Latest(w, c, n) = {}
      BY <1>2, <1>3, <2>3
    <3>2. Latest(w, c, k) = {}
      BY <1>1, <2>3, <3>1 DEF LatestKept
    <3> QED  BY <1>2, <2>3, <3>2
  <2> QED  BY <2>1, <2>2, <2>3
<1> QED  BY <1>2, <1>3 DEF LatestKept

\* A value is explained still when nothing was meant for its column.
LEMMA ExplainedMore ==
    ASSUME TypeOK, NEW r \in Requests, NEW row \in Users \cup Requests, NEW columns,
           task[r].seen <= Len(log), log' = Meant(r, row, columns), cast' = cast
    PROVE  \A u, c, value : Explained(u, c, value, Len(log)) /\ ~(u = row /\ c \in DOMAIN columns) =>
              Explained(u, c, value, Len(log))'
<1>1. PICK n \in Nat : n = Len(log) /\ n + 1 = Len(log')
  BY GrownAppended
<1>0. Grown
  BY GrownAppended
<1>2. ASSUME NEW u, NEW c, ~(u = row /\ c \in DOMAIN columns)
      PROVE  Latest(u, c, n + 1)' = Latest(u, c, n)
  BY <1>1, <1>2, LatestAppended
<1>3. ASSUME NEW u, NEW c, NEW value, Explained(u, c, value, n), ~(u = row /\ c \in DOMAIN columns)
      PROVE  Explained(u, c, value, n + 1)'
  <2>1. Latest(u, c, n + 1)' = Latest(u, c, n) /\ Latest(u, c, n)' = Latest(u, c, n) /\ cast' = cast
    BY <1>0, <1>1, <1>2, <1>3, Prefix
  <2>2. Explained(u, c, value, n)'
    BY <1>0, <1>1, <1>2, <1>3, Prefix
  <2> QED  BY <2>1, <2>2 DEF Explained
<1> QED  BY <1>1, <1>3

\* A value is explained when it is what was meant, or when its save straddled
\* another.
LEMMA ExplainedWritten ==
    ASSUME TypeOK, NEW r \in Requests, NEW row \in Users \cup Requests, NEW columns,
           task[r].seen <= Len(log), log' = Meant(r, row, columns), cast' = cast,
           NEW c \in DOMAIN columns, NEW value,
           \/ value = columns[c]
           \/ /\ c \in MayCarry(r)
              /\ \E k \in 1..Len(log) : k > task[r].seen /\ log[k].row = row
    PROVE  Explained(row, c, value, Len(log))'
<1>1. PICK n \in Nat : n = Len(log) /\ n + 1 = Len(log')
  BY GrownAppended
<1>2. /\ Latest(row, c, n + 1)' = {n + 1} /\ \A k \in 1..n : log'[k] = log[k]
      /\ log'[n + 1] = [by |-> r, row |-> row, columns |-> columns, seen |-> task[r].seen]
  BY <1>1, LatestAppended, GrownAppended
<1>3. log'[n + 1].columns = columns /\ log'[n + 1].by = r /\ log'[n + 1].row = row /\ log'[n + 1].seen = task[r].seen
  BY <1>2
<1>4. MayCarry(r)' = MayCarry(r)
  BY DEF MayCarry, Op
<1>5. CASE value = columns[c]
  BY <1>1, <1>2, <1>3, <1>5 DEF Explained
<1>6. CASE c \in MayCarry(r) /\ \E k \in 1..Len(log) : k > task[r].seen /\ log[k].row = row
  <2>1. PICK k \in 1..n : k > task[r].seen /\ log[k].row = row
    BY <1>1, <1>6
  <2>2. k \in 1 .. n + 1 /\ n + 1 > k /\ log'[k].row = row
    BY <1>2, <2>1
  <2>3. Straddles(n + 1, k)' /\ (c \in MayCarry(log[n + 1].by))'
    BY <1>3, <1>4, <1>6, <2>1, <2>2 DEF Straddles
  <2> QED  BY <1>1, <1>2, <2>2, <2>3 DEF Explained
<1> QED  BY <1>5, <1>6

\* A value that was loaded and written back is explained: what was meant for
\* it since then is straddled by the save.
LEMMA ExplainedBack ==
    ASSUME TypeOK, LatestKept, NEW r \in Requests, NEW row \in Users \cup Requests, NEW columns,
           task[r].seen \in Nat, task[r].seen <= Len(log), log' = Meant(r, row, columns), cast' = cast,
           NEW c, c \notin DOMAIN columns, NEW value, Explained(row, c, value, task[r].seen), c \in MayCarry(r)
    PROVE  Explained(row, c, value, Len(log))'
<1>1. PICK n \in Nat, m \in Nat : n = Len(log) /\ m = task[r].seen /\ m <= n /\ n + 1 = Len(log')
  BY GrownAppended
<1>2. /\ Latest(row, c, n + 1)' = Latest(row, c, n) /\ \A k \in 1..n : log'[k] = log[k]
      /\ log'[n + 1] = [by |-> r, row |-> row, columns |-> columns, seen |-> task[r].seen]
  BY <1>1, LatestAppended, GrownAppended
<1>3. /\ Latest(row, c, m)' = Latest(row, c, m) /\ Explained(row, c, value, m)'
  <2>1. Grown
    BY GrownAppended
  <2> QED  BY <1>1, <2>1, Prefix
<1>4. log'[n + 1].by = r /\ log'[n + 1].row = row /\ log'[n + 1].seen = m /\ MayCarry(r)' = MayCarry(r)
  BY <1>1, <1>2 DEF MayCarry, Op
<1>5. CASE Latest(row, c, n) = {}
  <2>1. Latest(row, c, m) = {}
    BY <1>1, <1>5 DEF LatestKept
  <2> QED  BY <1>1, <1>2, <1>3, <1>5, <2>1 DEF Explained
<1>6. ASSUME NEW i \in Latest(row, c, n)
      PROVE  \/ value = log'[i].columns[c]
             \/ \E k \in 1 .. n + 1 : \/ Straddles(k, i)' /\ (c \in MayCarry(log[k].by))'
                                      \/ Straddles(i, k)' /\ (c \in MayCarry(log[i].by))'
  <2>1. i \in 1..n /\ log'[i] = log[i] /\ log[i].row = row /\ c \in DOMAIN log[i].columns
    BY <1>2 DEF Latest
  <2>2. CASE i > m
    <3>1. Straddles(n + 1, i)' /\ (c \in MayCarry(log[n + 1].by))'
      BY <1>4, <2>1, <2>2 DEF Straddles
    <3> QED  BY <3>1
  <2>3. CASE ~(i > m)
    <3>1. i \in Latest(row, c, m)
      BY <1>1, <2>1, <2>3 DEF Latest
    <3>2. 1..m \subseteq 1 .. n + 1
      BY <1>1
    <3> QED  BY <1>3, <3>1, <3>2 DEF Explained
  <2> QED  BY <2>2, <2>3
<1>7. CASE Latest(row, c, n) # {}
  BY <1>1, <1>2, <1>6, <1>7 DEF Explained
<1> QED  BY <1>5, <1>7
-----------------------------------------------------------------------------
(* The columns of a user, step by step *)

\* Who writes the row of a user logs it.
Logged == \A u \in Users : users'[u] = users[u] \/ \E k \in 1..Len(log') : k > Len(log) /\ log'[k].row = u

\* What is true of an entity under way stays true, whatever others write.
LEMMA EntityKept ==
    ASSUME Inv0, Grown, Logged, NEW s \in Requests, EntityOld(s), DirtyOld(s),
           task'[s] = task[s] \/ task'[s].pc \notin {"reread", "save"}
    PROVE  EntityOld(s)' /\ DirtyOld(s)'
<1>1. CASE task'[s].pc \notin {"reread", "save"}
  BY <1>1 DEF EntityOld, DirtyOld
<1>2. CASE task'[s] = task[s] /\ task[s].pc \in {"reread", "save"}
  <2>1. /\ Op(s) # "none" /\ Subject(s) \in Users /\ Op(s)' = Op(s) /\ Subject(s)' = Subject(s)
        /\ task[s].seen \in 0..Len(log)
    <3>1. Placed(s) /\ task[s].seen \in Nat
      BY DEF Inv0, TypeOK, Work
    <3>2. Op(s) # "none" /\ Op(s)' = Op(s) /\ Subject(s)' = Subject(s) /\ task[s].seen \in 0..Len(log)
      BY <1>2, <3>1 DEF Placed, Op, Subject, Grown
    <3> QED  BY <3>2, CallTyped DEF Inv0
  <2>2. PICK u \in Users, n \in 0..Len(log) : u = Subject(s) /\ n = task[s].seen
    BY <2>1
  <2>3. u = Subject(s)' /\ n = task'[s].seen
    BY <1>2, <2>1, <2>2
  <2>4. ASSUME NEW c \in Columns, task'[s].entity[c] # Undefined
        PROVE  /\ (Explained(Subject(s), c, task[s].entity[c], task[s].seen))'
               /\ c \in Hidden => Op(s)' \in {"createPin", "changePin"}
    <3>1. PICK v : v = task[s].entity[c] /\ v = task'[s].entity[c]
      BY <1>2
    <3>2. Explained(u, c, v, n) /\ (c \in Hidden => Op(s) \in {"createPin", "changePin"})
      BY <1>2, <2>2, <2>4, <3>1 DEF EntityOld
    <3>3. Explained(u, c, v, n)'
      BY <3>2, Prefix
    <3> QED  BY <2>1, <2>3, <3>1, <3>2, <3>3
  <2>5. EntityOld(s)'
    BY <2>4 DEF EntityOld
  <2>6. ASSUME task[s].pc = "save", NEW c \in Columns \ task[s].dirty, Changed(s)'[c] # Undefined
        PROVE  /\ c \in Plain
               /\ \/ users'[u][c] = Changed(s)'[c]
                  \/ \E k \in 1..Len(log') : k > n /\ log'[k].row = u
    <3>1. Changed(s)' = Changed(s)
      BY <1>2, ChangedSame DEF Grown
    <3>2. /\ c \in Plain
          /\ \/ users[u][c] = Changed(s)[c]
             \/ \E k \in 1..Len(log) : k > n /\ log[k].row = u
      BY <2>2, <2>6, <3>1 DEF DirtyOld
    <3>3. CASE \E k \in 1..Len(log) : k > n /\ log[k].row = u
      BY <3>2, <3>3 DEF Grown
    <3>4. CASE users'[u] = users[u]
      BY <3>1, <3>2, <3>3, <3>4
    <3>5. CASE \E k \in 1..Len(log') : k > Len(log) /\ log'[k].row = u
      BY <2>2, <3>2, <3>5 DEF Grown
    <3> QED  BY <3>2, <3>4, <3>5 DEF Logged
  <2>7. DirtyOld(s)'
    BY <1>2, <2>3, <2>6 DEF DirtyOld
  <2> QED  BY <2>5, <2>7
<1> QED  BY <1>1, <1>2

\* A step that writes no row and logs nothing leaves the columns as they are.
LEMMA ColumnsSame ==
    ASSUME TypeOK, ColumnsStand, LatestKept, UNCHANGED <<cast, users, log>>
    PROVE  ColumnsStand' /\ LatestKept' /\ Grown /\ Logged
<1>1. Grown /\ Logged
  BY DEF Grown, Logged, TypeOK
<1>2. PICK n \in Nat : n = Len(log) /\ n = Len(log')
  BY DEF TypeOK
<1>3. ASSUME NEW u \in Users, NEW c \in Columns, users'[u] # Nothing
      PROVE  Explained(u, c, users[u][c], Len(log))'
  <2>1. Explained(u, c, users[u][c], n)
    BY <1>2, <1>3 DEF ColumnsStand
  <2>2. PICK v : v = users[u][c] /\ v = users'[u][c]
    OBVIOUS
  <2>3. Explained(u, c, v, n)'
    BY <1>1, <1>2, <2>1, <2>2, Prefix
  <2> QED  BY <1>2, <2>2, <2>3
<1>4. ColumnsStand'
  BY <1>3 DEF ColumnsStand
<1>5. LatestKept'
  <2>1. \A row, c, k : k \in 0..n => Latest(row, c, k)' = Latest(row, c, k)
    BY <1>1, <1>2, Prefix
  <2> QED  BY <1>2, <2>1 DEF LatestKept
<1> QED  BY <1>1, <1>4, <1>5

\* A row is written: every column has what was meant, or what the row had, or
\* what a save had loaded.
LEMMA ColumnsWritten ==
    ASSUME TypeOK, ColumnsStand, LatestKept, NEW r \in Requests, NEW columns, NEW row,
           Subject(r) \in Users, task[r].seen <= Len(log),
           users' = [users EXCEPT ![Subject(r)] = row], log' = Meant(r, Subject(r), columns), cast' = cast,
           \A c \in Columns :
              IF c \in DOMAIN columns
              THEN \/ row[c] = columns[c]
                   \/ c \in MayCarry(r) /\ \E k \in 1..Len(log) : k > task[r].seen /\ log[k].row = Subject(r)
              ELSE \/ users[Subject(r)] # Nothing /\ row[c] = users[Subject(r)][c]
                   \/ c \in MayCarry(r) /\ Explained(Subject(r), c, row[c], task[r].seen)
    PROVE  ColumnsStand' /\ LatestKept' /\ Grown /\ Logged
<1>1. PICK u \in Users, n \in Nat : u = Subject(r) /\ n = Len(log) /\ n + 1 = Len(log')
  BY GrownAppended
<1>2. log' = Meant(r, u, columns) /\ u \in Users \cup Requests /\ task[r].seen \in Nat
  BY <1>1 DEF TypeOK, Work
<1>3. Grown
  BY <1>2, GrownAppended
<1>4. Logged
  <2>0. log'[Len(log) + 1] = [by |-> r, row |-> u, columns |-> columns, seen |-> task[r].seen]
    BY <1>2, GrownAppended
  <2>1. n + 1 \in 1..Len(log') /\ n + 1 > Len(log) /\ log'[n + 1].row = u
    BY <1>1, <2>0
  <2> QED  BY <1>1, <2>1 DEF Logged, TypeOK
<1>5. LatestKept'
  BY <1>2, KeptAppended
<1>6. ASSUME NEW w \in Users, NEW c \in Columns, users'[w] # Nothing
      PROVE  Explained(w, c, users[w][c], Len(log))'
  <2>1. CASE w # u
    <3>1. PICK v : v = users[w][c] /\ v = users'[w][c]
      BY <1>1, <2>1 DEF TypeOK
    <3>2. Explained(w, c, v, Len(log))
      BY <1>1, <1>6, <2>1, <3>1 DEF ColumnsStand, TypeOK
    <3>3. Explained(w, c, v, Len(log))'
      BY <1>2, <2>1, <3>2, ExplainedMore
    <3> QED  BY <3>1, <3>3
  <2>2. CASE w = u /\ c \in DOMAIN columns
    <3>1. \/ row[c] = columns[c]
          \/ c \in MayCarry(r) /\ \E k \in 1..Len(log) : k > task[r].seen /\ log[k].row = u
      BY <1>1, <2>2
    <3>2. Explained(u, c, row[c], Len(log))'
      BY <1>2, <2>2, <3>1, ExplainedWritten
    <3>3. row[c] = users'[u][c]
      BY <1>1 DEF TypeOK
    <3> QED  BY <2>2, <3>2, <3>3
  <2>3. CASE w = u /\ c \notin DOMAIN columns
    <3>1. \/ users[u] # Nothing /\ row[c] = users[u][c]
          \/ c \in MayCarry(r) /\ Explained(u, c, row[c], task[r].seen)
      BY <1>1, <2>3
    <3>2. Explained(u, c, row[c], Len(log))'
      <4>1. CASE users[u] # Nothing /\ row[c] = users[u][c]
        <5>1. Explained(u, c, row[c], Len(log))
          BY <4>1 DEF ColumnsStand
        <5> QED  BY <1>2, <2>3, <5>1, ExplainedMore
      <4>2. CASE c \in MayCarry(r) /\ Explained(u, c, row[c], task[r].seen)
        BY <1>2, <2>3, <4>2, ExplainedBack
      <4> QED  BY <3>1, <4>1, <4>2
    <3>3. row[c] = users'[u][c]
      BY <1>1 DEF TypeOK
    <3> QED  BY <2>3, <3>2, <3>3
  <2> QED  BY <2>1, <2>2, <2>3
<1>7. ColumnsStand'
  BY <1>6 DEF ColumnsStand
<1> QED  BY <1>3, <1>4, <1>5, <1>7

\* A step that writes no row disturbs no entity but the one it loads.
LEMMA ColumnsQuiet ==
    ASSUME Inv0, ColumnsInv, UNCHANGED <<cast, users, log>>,
           \A s \in Requests : \/ task'[s] = task[s]
                               \/ task'[s].pc \notin {"reread", "save"}
                               \/ EntityOld(s)' /\ DirtyOld(s)'
    PROVE  ColumnsInv'
<1>1. ColumnsStand' /\ LatestKept' /\ Grown /\ Logged
  BY ColumnsSame DEF Inv0, ColumnsInv
<1>2. ASSUME NEW s \in Requests PROVE EntityOld(s)' /\ DirtyOld(s)'
  <2>1. EntityOld(s) /\ DirtyOld(s)
    BY DEF ColumnsInv
  <2> QED  BY <1>1, <2>1, EntityKept
<1> QED  BY <1>1, <1>2 DEF ColumnsInv

\* An entity that is loaded holds what the row holds.
LEMMA EntityLoaded ==
    ASSUME Inv0, ColumnsInv, NEW r \in Requests, NEW label \in Labels, NEW code \in Nat,
           Subject(r) \in Users, users[Subject(r)] # Nothing,
           Hold(r, label, Entity(r, users[Subject(r)]), code), UNCHANGED <<cast, users, log>>,
           label # "save", label = "reread" => Op(r) \in WholeRows
    PROVE  EntityOld(r)' /\ DirtyOld(r)'
<1>1. PICK u \in Users, n \in Nat : u = Subject(r) /\ u = Subject(r)' /\ n = Len(log) /\ n = Len(log')
  BY DEF Inv0, TypeOK, Subject
<1>2. PICK e : e = Entity(r, users[u])
  OBVIOUS
<1>3. users[u] \in User /\ e \in Rows({Undefined}) /\ Hold(r, label, e, code)
  BY <1>1, <1>2, EntityTyped DEF Inv0, TypeOK
<1>4. task'[r].pc = label /\ task'[r].entity = e /\ task'[r].seen = Len(log)
  BY <1>3, HoldTyped
<1>5. EntityOld(r)'
  <2>1. Op(r)' = Op(r) /\ Grown
    BY ColumnsSame DEF Op, Inv0, ColumnsInv
  <2>2. ASSUME task'[r].pc \in {"reread", "save"}, NEW c \in Columns, task'[r].entity[c] # Undefined
        PROVE  /\ (Explained(Subject(r), c, task[r].entity[c], task[r].seen))'
               /\ c \in Hidden => Op(r)' \in {"createPin", "changePin"}
    <3>1. /\ e[c] = users[u][c]
          /\ c \in Hidden => Op(r) \in {"createPin", "changePin", "initiateTfa", "enableTfa", "disableTfa"} \cup Logins
      BY <1>2, <1>3, <1>4, <2>2, EntityTyped
    <3>2. Op(r) \in WholeRows
      BY <1>4, <2>2
    <3>3. c \in Hidden => Op(r) \in {"createPin", "changePin"}
      BY <3>1, <3>2 DEF WholeRows, WholeSaves, Logins
    <3>4. Explained(u, c, e[c], n)
      BY <1>1, <3>1 DEF ColumnsInv, ColumnsStand
    <3>5. Explained(u, c, e[c], n)'
      BY <1>1, <2>1, <3>4, Prefix
    <3> QED  BY <1>1, <1>4, <2>1, <3>3, <3>5
  <2> QED  BY <2>2 DEF EntityOld
<1>6. DirtyOld(r)'
  BY <1>4 DEF DirtyOld
<1> QED  BY <1>5, <1>6

\* What is loaded is what the row holds now.
LEMMA LoadColumns == ASSUME Inv0, ColumnsInv, NEW r \in Requests, Load(r) PROVE ColumnsInv'
<1>1. Op(r) # "none" /\ Subject(r) \in Users /\ Op(r) \in WholeSaves \cup Updates
      /\ UNCHANGED <<cast, users, log>>
  <2>1. Op(r) # "none"
    BY DEF Load, WholeSaves, Updates
  <2> QED  BY <2>1, CallTyped DEF Inv0, Load
<1> DEFINE u == users[Subject(r)]
           next == CASE Op(r) \in WholeSaves -> "reread"
                     [] Op(r) = "updateProfile" -> "name"
                     [] OTHER -> "update"
<1>2. PICK code \in Enters(r) : \/ u # Nothing /\ Hold(r, next, Entity(r, u), code)
                                \/ Refuse(r)
  BY DEF Load
<1>3. code \in Nat
  BY DEF Enters, Inv0, TypeOK, Codes
<1>4. CASE u # Nothing /\ Hold(r, next, Entity(r, u), code)
  <2>1. next \in Labels /\ next # "save" /\ (next = "reread" => Op(r) \in WholeRows)
    BY <1>1 DEF Labels, WholeRows
  <2>2. EntityOld(r)' /\ DirtyOld(r)'
    BY <1>1, <1>3, <1>4, <2>1, EntityLoaded
  <2>3. \A s \in Requests \ {r} : task'[s] = task[s]
    BY <1>4 DEF Hold, Inv0, TypeOK
  <2> QED  BY <1>1, <2>2, <2>3, ColumnsQuiet
<1>5. CASE Refuse(r)
  <2>1. task'[r].pc = "refused" /\ \A s \in Requests \ {r} : task'[s] = task[s]
    BY <1>5, GotoTyped DEF Refuse, Labels, Over, Inv0
  <2> QED  BY <1>1, <2>1, ColumnsQuiet
<1> QED  BY <1>2, <1>4, <1>5

\* What a second code is sent for is what the row holds now.
LEMMA ResendOtpColumns == ASSUME Inv0, ColumnsInv, NEW r \in Requests, ResendOtp(r) PROVE ColumnsInv'
<1>1. /\ Op(r) = "register" /\ users[Subject(r)] # Nothing /\ Subject(r) \in Users
      /\ UNCHANGED <<cast, users, log>>
  <2>1. task[r].pc = "resend" /\ Placed(r)
    BY DEF ResendOtp, At, Inv0
  <2> QED  BY <2>1, CallTyped DEF Placed, Inv0, ResendOtp
<1>2. CASE Hold(r, "reread", Entity(r, users[Subject(r)]), 0)
  <2>1. EntityOld(r)' /\ DirtyOld(r)'
    BY <1>1, <1>2, EntityLoaded DEF Labels, WholeRows
  <2>2. \A s \in Requests \ {r} : task'[s] = task[s]
    BY <1>2 DEF Hold, Inv0, TypeOK
  <2> QED  BY <1>1, <2>1, <2>2, ColumnsQuiet
<1>3. CASE ProcessEnds
  <2>1. \A s \in Requests : task'[s] = task[s] \/ task'[s].pc = "cut"
    BY <1>3 DEF ProcessEnds, Inv0, TypeOK, Work
  <2> QED  BY <1>1, <2>1, ColumnsQuiet
<1> QED  BY <1>2, <1>3 DEF ResendOtp

\* A column is left out of a save when the row has its value now.
LEMMA RereadColumns == ASSUME Inv0, ColumnsInv, NEW r \in Requests, Reread(r) PROVE ColumnsInv'
<1> DEFINE dirty == {c \in Columns : /\ Changed(r)[c] # Undefined
                                     /\ c \in Hidden \/ Changed(r)[c] # users[Subject(r)][c]}
<1>1. UNCHANGED <<cast, users, log>> /\ task[r].pc = "reread" /\ task[r] \in Work
  BY DEF Reread, At, account, Inv0, TypeOK
<1>2. /\ task'[r] = [task[r] EXCEPT !.pc = "save", !.dirty = dirty]
      /\ \A s \in Requests \ {r} : task'[s] = task[s]
  BY DEF Reread, Inv0, TypeOK
<1>3. /\ task'[r].entity = task[r].entity /\ task'[r].code = task[r].code /\ task'[r].seen = task[r].seen
      /\ task'[r].dirty = dirty
  <2> HIDE DEF dirty
  <2> QED  BY <1>1, <1>2 DEF Work
<1>4. Changed(r)' = Changed(r) /\ Op(r)' = Op(r) /\ Subject(r)' = Subject(r)
  BY <1>1, <1>3, ChangedSame DEF Op, Subject
<1>5. DirtyOld(r)'
  <2>1. ASSUME NEW c \in Columns \ task'[r].dirty, Changed(r)'[c] # Undefined
        PROVE  c \in Plain /\ (users[Subject(r)][c])' = Changed(r)'[c]
    BY <1>1, <1>3, <1>4, <2>1 DEF Columns
  <2> QED  BY <2>1 DEF DirtyOld
<1>6. EntityOld(r)'
  <2>1. Grown /\ EntityOld(r) /\ Placed(r) /\ task[r].seen \in Nat
    BY <1>1, ColumnsSame DEF Inv0, ColumnsInv, Work
  <2>2. ASSUME NEW c \in Columns, task'[r].entity[c] # Undefined
        PROVE  /\ (Explained(Subject(r), c, task[r].entity[c], task[r].seen))'
               /\ c \in Hidden => Op(r)' \in {"createPin", "changePin"}
    <3>1. PICK v, u, n : /\ v = task[r].entity[c] /\ v = task'[r].entity[c] /\ u = Subject(r) /\ u = Subject(r)'
                         /\ n = task[r].seen /\ n = task'[r].seen
      BY <1>3, <1>4
    <3>2. Explained(u, c, v, n) /\ (c \in Hidden => Op(r) \in {"createPin", "changePin"})
      BY <1>1, <2>1, <2>2, <3>1 DEF EntityOld
    <3>3. n \in 0..Len(log)
      BY <2>1, <3>1 DEF Placed, Grown
    <3>4. Explained(u, c, v, n)'
      BY <2>1, <3>2, <3>3, Prefix
    <3> QED  BY <1>4, <3>1, <3>2, <3>4
  <2> QED  BY <2>2 DEF EntityOld
<1> QED  BY <1>1, <1>2, <1>5, <1>6, ColumnsQuiet

\* The steps that load nothing and write nothing: who goes on has another label.
LEMMA OthersColumns ==
    ASSUME Inv0, ColumnsInv, NEW r \in Requests,
           \/ Login(r) \/ FindByEmail(r) \/ FindReward(r) \/ FindGrant(r) \/ AddJob(r) \/ SendMail(r)
           \/ FindName(r) \/ FindReferrer(r) \/ WriteReward(r) \/ FailRequest(r)
    PROVE  ColumnsInv'
<1>1. UNCHANGED <<cast, users, log>>
  BY DEF Login, FindByEmail, FindReward, FindGrant, AddJob, SendMail, FindName, FindReferrer, WriteReward,
         FailRequest, account
<1>2. ASSUME NEW label, label \notin {"reread", "save"}, Goto(r, label)
      PROVE  ColumnsInv'
  <2>1. task'[r].pc = label /\ \A s \in Requests \ {r} : task'[s] = task[s]
    BY <1>2 DEF Goto, Inv0, TypeOK, Work
  <2> QED  BY <1>1, <1>2, <2>1, ColumnsQuiet
<1>3. ASSUME NEW label, label \notin {"reread", "save"}, NEW e, NEW code, Hold(r, label, e, code)
      PROVE  ColumnsInv'
  <2>1. task'[r].pc = label /\ \A s \in Requests \ {r} : task'[s] = task[s]
    BY <1>3 DEF Hold, Idle, Inv0, TypeOK
  <2> QED  BY <1>1, <1>3, <2>1, ColumnsQuiet
<1>4. ASSUME NEW label, label \notin {"reread", "save"}, NEW row, NEW perms, HoldGrant(r, label, row, perms)
      PROVE  ColumnsInv'
  <2>1. task'[r].pc = label /\ \A s \in Requests \ {r} : task'[s] = task[s]
    BY <1>4 DEF HoldGrant, Idle, Inv0, TypeOK
  <2> QED  BY <1>1, <1>4, <2>1, ColumnsQuiet
<1>5. CASE Login(r)
  BY <1>2, <1>3, <1>5 DEF Login, Refuse
<1>6. CASE FindByEmail(r)
  <2>1. \/ \E label \in {"refer", "name", "insert"} : Hold(r, label, NoEntity, 0)
        \/ \E label \in {"done", "resend", "refused"} : Goto(r, label)
    BY <1>6 DEF FindByEmail
  <2> QED  BY <1>2, <1>3, <2>1
<1>7. CASE FindReward(r)
  <2>1. CASE \E label \in {"done", "refused"} : Goto(r, label)
    BY <1>2, <2>1
  <2>2. ASSUME NEW q \in Requests, task' = [task EXCEPT ![r] = [Idle EXCEPT !.pc = "reward", !.row = q]]
        PROVE  ColumnsInv'
    <3>1. task'[r].pc = "reward" /\ \A s \in Requests \ {r} : task'[s] = task[s]
      BY <2>2 DEF Idle, Inv0, TypeOK
    <3> QED  BY <1>1, <3>1, ColumnsQuiet
  <2> QED  BY <1>7, <2>1, <2>2 DEF FindReward
<1>8. CASE FindGrant(r)
  BY <1>2, <1>4, <1>8 DEF FindGrant
<1>9. CASE AddJob(r) \/ SendMail(r) \/ WriteReward(r) \/ FailRequest(r)
  BY <1>2, <1>9 DEF AddJob, SendMail, WriteReward, FailRequest
<1>10. CASE FindName(r) \/ FindReferrer(r)
  <2>1. \E label \in {"refused", "insert", "update", "name"} : Goto(r, label)
    BY <1>10 DEF FindName, FindReferrer
  <2> QED  BY <1>2, <2>1
<1> QED  BY <1>5, <1>6, <1>7, <1>8, <1>9, <1>10

\* A step that writes and logs disturbs no entity of the others.
LEMMA ColumnsLoud ==
    ASSUME Inv0, ColumnsInv, NEW r \in Requests, NEW label, label \notin {"reread", "save"}, Goto(r, label),
           ColumnsStand', LatestKept', Grown, Logged
    PROVE  ColumnsInv'
<1>1. task'[r].pc = label /\ \A s \in Requests \ {r} : task'[s] = task[s]
  BY DEF Goto, Inv0, TypeOK, Work
<1>2. ASSUME NEW s \in Requests PROVE EntityOld(s)' /\ DirtyOld(s)'
  <2>1. EntityOld(s) /\ DirtyOld(s)
    BY DEF ColumnsInv
  <2> QED  BY <1>1, <2>1, EntityKept
<1> QED  BY <1>2 DEF ColumnsInv

\* A save writes what was meant, what the entity had, or leaves what is there.
LEMMA SaveColumns == ASSUME Inv0, ColumnsInv, NEW r \in Requests, Save(r) PROVE ColumnsInv'
<1>1. /\ task[r].pc = "save" /\ Op(r) \in WholeRows /\ users[Subject(r)] # Nothing /\ task[r].seen <= Len(log)
      /\ Subject(r) \in Users /\ \A c \in task[r].dirty : Changed(r)[c] # Undefined
  <2>1. task[r].pc = "save" /\ Placed(r)
    BY DEF Save, At, Inv0
  <2>2. Op(r) \in WholeRows /\ Op(r) # "none"
    BY <2>1 DEF Placed, WholeRows, WholeSaves
  <2> QED  BY <2>1, <2>2, CallTyped DEF Placed, Inv0
<1>2. CASE Goto(r, "refused") /\ UNCHANGED <<users, log>>
  <2>1. task'[r].pc = "refused" /\ \A s \in Requests \ {r} : task'[s] = task[s]
    BY <1>2, GotoTyped DEF Labels, Over, Inv0
  <2> QED  BY <1>2, <2>1, ColumnsQuiet DEF Save
<1>3. CASE /\ users' = [users EXCEPT ![Subject(r)] = Merged(r, task[r].dirty)]
           /\ log' = Meant(r, Subject(r), Assigned(r))
           /\ Goto(r, After(r))
  <2> DEFINE row == Merged(r, task[r].dirty)
             columns == Assigned(r)
  <2>1. /\ DOMAIN columns \subseteq Columns
        /\ \A c \in DOMAIN columns : columns[c] \in Value[c]
    BY <1>1, AssignedTyped DEF Inv0
  <2>2. /\ \A c \in Columns : /\ Changed(r)[c] \in Value[c] \cup {Undefined}
                              /\ c \in DOMAIN columns => Changed(r)[c] = columns[c]
                              /\ c \notin DOMAIN columns => Changed(r)[c] = task[r].entity[c]
    BY <1>1, ChangedTyped DEF Inv0
  <2>3. \A c \in Columns : /\ c \in task[r].dirty => row[c] = Changed(r)[c]
                           /\ c \notin task[r].dirty => row[c] = users[Subject(r)][c]
    <3>1. \A c \in task[r].dirty \cap Columns : Changed(r)[c] \in Value[c]
      BY <1>1, <2>2
    <3> QED  BY <1>1, <3>1, ChangedTyped DEF Inv0
  <2>4. \A c \in DOMAIN columns : columns[c] # Undefined
    <3>1. /\ DOMAIN columns \subseteq {"verified", "otp", "otpVerified", "hasPin", "pin", "password"}
          /\ \A c \in {"pin", "password"} \cap DOMAIN columns : columns[c] = r
      BY <1>1 DEF Assigned, Mailed, WholeRows, WholeSaves
    <3>2. \A c \in {"verified", "otp", "otpVerified", "hasPin"} : Undefined \notin Value[c]
      BY ValueDefined
    <3>3. r # Undefined
      BY AccountsAssumption
    <3> QED  BY <2>1, <3>1, <3>2, <3>3
  <2>5. /\ MayCarry(r) = IF Op(r) \in {"createPin", "changePin"} THEN Columns ELSE Plain
        /\ Plain \subseteq MayCarry(r)
    BY <1>1 DEF MayCarry, WholeRows, Columns
  <2>6. ASSUME NEW c \in Columns, c \in DOMAIN columns
        PROVE  \/ row[c] = columns[c]
               \/ c \in MayCarry(r) /\ \E k \in 1..Len(log) : k > task[r].seen /\ log[k].row = Subject(r)
    <3>1. CASE c \in task[r].dirty
      BY <2>2, <2>3, <2>6, <3>1
    <3>2. CASE c \notin task[r].dirty
      <4>1. DirtyOld(r) /\ Changed(r)[c] = columns[c] /\ Changed(r)[c] # Undefined /\ row[c] = users[Subject(r)][c]
        BY <2>2, <2>3, <2>4, <2>6, <3>2 DEF ColumnsInv
      <4> QED  BY <1>1, <2>5, <3>2, <4>1 DEF DirtyOld
    <3> QED  BY <3>1, <3>2
  <2>7. ASSUME NEW c \in Columns, c \notin DOMAIN columns
        PROVE  \/ users[Subject(r)] # Nothing /\ row[c] = users[Subject(r)][c]
               \/ c \in MayCarry(r) /\ Explained(Subject(r), c, row[c], task[r].seen)
    <3>1. CASE c \notin task[r].dirty
      BY <1>1, <2>3, <3>1
    <3>2. CASE c \in task[r].dirty
      <4>1. row[c] = task[r].entity[c] /\ task[r].entity[c] # Undefined
        BY <1>1, <2>2, <2>3, <2>7, <3>2
      <4>2. Explained(Subject(r), c, row[c], task[r].seen) /\ (c \in Hidden => Op(r) \in {"createPin", "changePin"})
        BY <1>1, <4>1 DEF ColumnsInv, EntityOld
      <4> QED  BY <2>5, <4>2 DEF Columns
    <3> QED  BY <3>1, <3>2
  <2> HIDE DEF row, columns
  <2>8. ColumnsStand' /\ LatestKept' /\ Grown /\ Logged
    <3>1. PICK x, y : x = row /\ y = columns
      OBVIOUS
    <3>2. users' = [users EXCEPT ![Subject(r)] = x] /\ log' = Meant(r, Subject(r), y)
      BY <1>3, <3>1 DEF row, columns
    <3>3. \A c \in Columns :
              IF c \in DOMAIN y
              THEN \/ x[c] = y[c]
                   \/ c \in MayCarry(r) /\ \E k \in 1..Len(log) : k > task[r].seen /\ log[k].row = Subject(r)
              ELSE \/ users[Subject(r)] # Nothing /\ x[c] = users[Subject(r)][c]
                   \/ c \in MayCarry(r) /\ Explained(Subject(r), c, x[c], task[r].seen)
      BY <2>6, <2>7, <3>1
    <3> QED  BY <1>1, <3>2, <3>3, ColumnsWritten DEF Inv0, ColumnsInv, Save
  <2>9. After(r) \notin {"reread", "save"}
    BY DEF After
  <2> QED  BY <1>3, <2>8, <2>9, ColumnsLoud
<1> QED  BY <1>2, <1>3 DEF Save

\* An update writes the columns it was meant for and no other.
LEMMA UpdateColumns == ASSUME Inv0, ColumnsInv, NEW r \in Requests, Update(r) PROVE ColumnsInv'
<1>1. /\ Op(r) \in Updates /\ users[Subject(r)] # Nothing /\ task[r].seen <= Len(log)
      /\ Subject(r) \in Users
  <2>1. task[r].pc = "update" /\ Placed(r)
    BY DEF Update, At, Inv0
  <2>2. Op(r) \in Updates /\ Op(r) # "none"
    BY <2>1 DEF Placed, Updates
  <2> QED  BY <2>1, <2>2, CallTyped DEF Placed, Inv0
<1>2. CASE Goto(r, "empty") /\ UNCHANGED <<users, log>>
  <2>1. task'[r].pc = "empty" /\ \A s \in Requests \ {r} : task'[s] = task[s]
    BY <1>2, GotoTyped DEF Labels, Over, Inv0
  <2> QED  BY <1>2, <2>1, ColumnsQuiet DEF Update
<1>3. CASE /\ users' = [users EXCEPT ![Subject(r)] = Merged(r, DOMAIN Assigned(r))]
           /\ log' = Meant(r, Subject(r), Assigned(r))
           /\ Goto(r, "done")
  <2>1. PICK x, y : x = Merged(r, DOMAIN Assigned(r)) /\ y = Assigned(r)
    OBVIOUS
  <2>2. \A c \in (DOMAIN y) \cap Columns : Changed(r)[c] = y[c] /\ Changed(r)[c] \in Value[c]
    BY <1>1, <2>1, ChangedTyped, AssignedTyped DEF Inv0
  <2>3. \A c \in Columns : /\ c \in DOMAIN y => x[c] = y[c]
                           /\ c \notin DOMAIN y => x[c] = users[Subject(r)][c]
    BY <1>1, <2>1, <2>2, ChangedTyped DEF Inv0
  <2>4. users' = [users EXCEPT ![Subject(r)] = x] /\ log' = Meant(r, Subject(r), y)
    BY <1>3, <2>1
  <2>5. ColumnsStand' /\ LatestKept' /\ Grown /\ Logged
    <3>1. cast' = cast /\ TypeOK /\ ColumnsStand /\ LatestKept
      BY DEF Inv0, ColumnsInv, Update
    <3>2. \A c \in Columns :
              IF c \in DOMAIN y
              THEN \/ x[c] = y[c]
                   \/ c \in MayCarry(r) /\ \E k \in 1..Len(log) : k > task[r].seen /\ log[k].row = Subject(r)
              ELSE \/ users[Subject(r)] # Nothing /\ x[c] = users[Subject(r)][c]
                   \/ c \in MayCarry(r) /\ Explained(Subject(r), c, x[c], task[r].seen)
      BY <1>1, <2>3
    <3> QED  BY <1>1, <2>4, <3>1, <3>2, ColumnsWritten
  <2> QED  BY <1>3, <2>5, ColumnsLoud
<1> QED  BY <1>2, <1>3 DEF Update

\* A row that is inserted is all that was meant for it.
LEMMA InsertColumns == ASSUME Inv0, ColumnsInv, NEW r \in Requests, Insert(r) PROVE ColumnsInv'
<1>1. /\ task[r].seen <= Len(log) /\ Op(r) # "none" /\ Subject(r) \in Users
  <2>1. task[r].pc = "insert" /\ Placed(r)
    BY DEF Insert, At, Inv0
  <2>2. Op(r) # "none"
    BY <2>1 DEF Placed
  <2> QED  BY <2>1, <2>2, CallTyped DEF Placed, Inv0
<1>2. CASE Collides(r)
  <2>1. \E label \in {"refused", "empty"} : Goto(r, label)
    BY <1>2 DEF Insert
  <2>2. task'[r].pc \in {"refused", "empty"} /\ \A s \in Requests \ {r} : task'[s] = task[s]
    BY <2>1, GotoTyped DEF Labels, Over, Inv0
  <2>3. UNCHANGED <<cast, users, log>>
    BY <1>2 DEF Insert
  <2> QED  BY <2>2, <2>3, ColumnsQuiet
<1>3. CASE ~Collides(r)
  <2>1. PICK x : x = NewUser(r)
    OBVIOUS
  <2>2. /\ users' = [users EXCEPT ![Subject(r)] = x] /\ log' = Meant(r, Subject(r), x) /\ cast' = cast
        /\ Goto(r, "done")
    BY <1>3, <2>1 DEF Insert
  <2>3. DOMAIN x = Columns
    BY <1>1, <2>1, NewUserTyped DEF Inv0
  <2>4. ColumnsStand' /\ LatestKept' /\ Grown /\ Logged
    BY <1>1, <2>2, <2>3, ColumnsWritten DEF Inv0, ColumnsInv
  <2> QED  BY <2>2, <2>4, ColumnsLoud
<1> QED  BY <1>2, <1>3

\* A write to the privileges of a role is logged under another key.
LEMMA GrantColumns ==
    ASSUME Inv0, ColumnsInv, NEW r \in Requests, task[r].pc \in {"regrant", "grant"},
           log' = Meant(r, task[r].row, Wished(r)), Goto(r, "done"), UNCHANGED <<cast, users>>
    PROVE  ColumnsInv'
<1>1. PICK q \in Requests, n \in Nat : q = task[r].row /\ n = Len(log)
  BY DEF Inv0, Placed, TypeOK
<1>2. PICK y : y = Wished(r)
  OBVIOUS
<1>3. /\ log' = Meant(r, q, y) /\ q \in Users \cup Requests /\ task[r].seen <= Len(log) /\ TypeOK
  BY <1>1, <1>2 DEF Inv0, Placed
<1>4. Grown /\ Logged
  <2>1. Grown
    BY <1>3, GrownAppended
  <2> QED  BY <2>1 DEF Logged
<1>5. LatestKept'
  BY <1>3, KeptAppended DEF ColumnsInv
<1>6. ASSUME NEW u \in Users, NEW c \in Columns, users'[u] # Nothing
      PROVE  Explained(u, c, users[u][c], Len(log))'
  <2>1. PICK v : v = users[u][c] /\ v = users'[u][c]
    OBVIOUS
  <2>2. Explained(u, c, v, Len(log))
    BY <1>6, <2>1 DEF ColumnsInv, ColumnsStand
  <2>3. u # q
    BY AccountsAssumption
  <2>4. Explained(u, c, v, Len(log))'
    BY <1>3, <2>2, <2>3, ExplainedMore
  <2> QED  BY <2>1, <2>4
<1>7. ColumnsStand'
  BY <1>6 DEF ColumnsStand
<1> QED  BY <1>4, <1>5, <1>7, ColumnsLoud

\* Privileges that are written nowhere touch no column of a user.
LEMMA RereadGrantColumns == ASSUME Inv0, ColumnsInv, NEW r \in Requests, RereadGrant(r) PROVE ColumnsInv'
<1>1. CASE Goto(r, "grant") /\ UNCHANGED log
  <2>1. task'[r].pc = "grant" /\ \A s \in Requests \ {r} : task'[s] = task[s]
    BY <1>1, GotoTyped DEF Labels, Inv0
  <2> QED  BY <1>1, <2>1, ColumnsQuiet DEF RereadGrant, account
<1>2. CASE Goto(r, "done") /\ log' = Meant(r, task[r].row, Wished(r))
  BY <1>2, GrantColumns DEF RereadGrant, At, account
<1> QED  BY <1>1, <1>2 DEF RereadGrant

\* A row of privileges is no row of a user.
LEMMA SaveGrantColumns == ASSUME Inv0, ColumnsInv, NEW r \in Requests, SaveGrant(r) PROVE ColumnsInv'
  BY GrantColumns DEF SaveGrant, At, account

\* A referral leaves the columns alone, unless it ends the process.
LEMMA ReferColumns ==
    ASSUME Inv0, ColumnsInv, UNCHANGED <<cast, account, log>>, UNCHANGED task \/ ProcessEnds
    PROVE  ColumnsInv'
<1>1. UNCHANGED <<cast, users, log>>
  BY DEF account
<1>2. ASSUME NEW s \in Requests PROVE task'[s] = task[s] \/ task'[s].pc = "cut"
  BY DEF ProcessEnds, Inv0, TypeOK, Work
<1> QED  BY <1>1, <1>2, ColumnsQuiet

\* Nothing is meant yet, and every column is that of its opening row.
LEMMA InitColumns == Init => ColumnsInv
<1> SUFFICES ASSUME Init PROVE ColumnsInv
  OBVIOUS
<1>1. Len(log) = 0 /\ users = cast.users
  BY DEF Init
<1>2. \A w, c : Latest(w, c, 0) = {}
  BY DEF Latest
<1>3. ColumnsStand
  BY <1>1, <1>2 DEF ColumnsStand, Explained
<1>4. LatestKept
  BY <1>1, <1>2 DEF LatestKept
<1>5. \A r \in Requests : task[r].pc = "idle"
  BY DEF Init, Idle
<1> QED  BY <1>3, <1>4, <1>5 DEF ColumnsInv, EntityOld, DirtyOld
-----------------------------------------------------------------------------
(* The privileges of a role, step by step *)

\* A permission is right still when nothing was meant for it.
LEMMA GrantingMore ==
    ASSUME TypeOK, NEW r \in Requests, NEW row \in Users \cup Requests, NEW columns,
           task[r].seen <= Len(log), log' = Meant(r, row, columns), cast' = cast
    PROVE  \A q, p, perms : Granting(q, p, perms, Len(log)) /\ ~(q = row /\ p \in DOMAIN columns) =>
              Granting(q, p, perms, Len(log))'
<1>1. PICK n \in Nat : n = Len(log) /\ n + 1 = Len(log')
  BY GrownAppended
<1>2. Grown
  BY GrownAppended
<1>3. ASSUME NEW q, NEW p, ~(q = row /\ p \in DOMAIN columns)
      PROVE  Latest(q, p, n + 1)' = Latest(q, p, n)
  BY <1>1, <1>3, LatestAppended
<1>4. ASSUME NEW q, NEW p, NEW perms, Granting(q, p, perms, n), ~(q = row /\ p \in DOMAIN columns)
      PROVE  Granting(q, p, perms, n + 1)'
  <2>1. Latest(q, p, n + 1)' = Latest(q, p, n) /\ Latest(q, p, n)' = Latest(q, p, n)
    BY <1>1, <1>2, <1>3, <1>4, Prefix
  <2>2. Granting(q, p, perms, n)'
    BY <1>1, <1>2, <1>4, Prefix
  <2>3. \A k \in 1..n : k \in 1 .. n + 1
    OBVIOUS
  <2> QED  BY <2>1, <2>2, <2>3 DEF Granting
<1> QED  BY <1>1, <1>4

\* A permission is right when it is as was meant.
LEMMA GrantingWritten ==
    ASSUME TypeOK, NEW r \in Requests, NEW row \in Users \cup Requests, NEW columns,
           task[r].seen <= Len(log), log' = Meant(r, row, columns), cast' = cast,
           NEW p \in DOMAIN columns, NEW perms, (p \in perms) = columns[p]
    PROVE  Granting(row, p, perms, Len(log))'
<1>1. PICK n \in Nat : n = Len(log) /\ n + 1 = Len(log')
  BY GrownAppended
<1>2. /\ Latest(row, p, n + 1)' = {n + 1}
      /\ log'[n + 1] = [by |-> r, row |-> row, columns |-> columns, seen |-> task[r].seen]
  BY <1>1, LatestAppended, GrownAppended
<1>3. log'[n + 1].columns = columns
  BY <1>2
<1> QED  BY <1>1, <1>2, <1>3 DEF Granting

\* A permission that was read and written back is right: what was meant for
\* it since then is straddled by the save.
LEMMA GrantingBack ==
    ASSUME TypeOK, LatestKept, NEW r \in Requests, NEW row \in Users \cup Requests, NEW columns,
           task[r].seen \in Nat, task[r].seen <= Len(log), log' = Meant(r, row, columns), cast' = cast,
           NEW p, p \notin DOMAIN columns, NEW perms, Granting(row, p, perms, task[r].seen)
    PROVE  Granting(row, p, perms, Len(log))'
<1>1. PICK n \in Nat, m \in Nat : n = Len(log) /\ m = task[r].seen /\ m <= n /\ n + 1 = Len(log')
  BY GrownAppended
<1>2. /\ Latest(row, p, n + 1)' = Latest(row, p, n) /\ \A k \in 1..n : log'[k] = log[k]
      /\ log'[n + 1] = [by |-> r, row |-> row, columns |-> columns, seen |-> task[r].seen]
  BY <1>1, LatestAppended, GrownAppended
<1>3. /\ Latest(row, p, m)' = Latest(row, p, m) /\ Granting(row, p, perms, m)'
  <2>1. Grown
    BY GrownAppended
  <2> QED  BY <1>1, <2>1, Prefix
<1>4. log'[n + 1].row = row /\ log'[n + 1].seen = m
  BY <1>1, <1>2
<1>5. CASE Latest(row, p, n) = {}
  <2>1. Latest(row, p, m) = {}
    BY <1>1, <1>5 DEF LatestKept
  <2> QED  BY <1>1, <1>2, <1>3, <1>5, <2>1 DEF Granting
<1>6. ASSUME NEW i \in Latest(row, p, n)
      PROVE  \/ (p \in perms) = log'[i].columns[p]
             \/ \E k \in 1 .. n + 1 : Straddles(k, i)'
  <2>1. i \in 1..n /\ log'[i] = log[i] /\ log[i].row = row /\ p \in DOMAIN log[i].columns
    BY <1>2 DEF Latest
  <2>2. CASE i > m
    <3>1. Straddles(n + 1, i)'
      BY <1>4, <2>1, <2>2 DEF Straddles
    <3> QED  BY <3>1
  <2>3. CASE ~(i > m)
    <3>1. i \in Latest(row, p, m)
      BY <1>1, <2>1, <2>3 DEF Latest
    <3>2. 1..m \subseteq 1 .. n + 1
      BY <1>1
    <3> QED  BY <1>3, <3>1, <3>2 DEF Granting
  <2> QED  BY <2>2, <2>3
<1>7. CASE Latest(row, p, n) # {}
  BY <1>1, <1>2, <1>6, <1>7 DEF Granting
<1> QED  BY <1>5, <1>7

\* Only the members of perms among the permissions matter, one at a time.
LEMMA GrantingOf ==
    ASSUME NEW q, NEW p, NEW a, NEW b, NEW n, (p \in a) = (p \in b), Granting(q, p, a, n)
    PROVE  Granting(q, p, b, n)
  BY DEF Granting

\* What a save of privileges holds stays right while it waits.
LEMMA GrantKept ==
    ASSUME Inv0, Grown, NEW s \in Requests, GrantOld(s),
           task'[s] = task[s] \/ task'[s].pc \notin {"regrant", "grant"}
    PROVE  GrantOld(s)'
<1>1. CASE task'[s].pc \notin {"regrant", "grant"}
  BY <1>1 DEF GrantOld
<1>2. CASE task'[s] = task[s] /\ task[s].pc \in {"regrant", "grant"}
  <2>1. task[s].seen \in 0..Len(log) /\ Op(s)' = Op(s) /\ cast' = cast
    BY DEF Inv0, Placed, TypeOK, Work, Op, Grown
  <2>2. PICK q, perms, n : /\ q = task[s].row /\ perms = task[s].perms /\ n = task[s].seen
                           /\ q = task'[s].row /\ perms = task'[s].perms /\ n = task'[s].seen
    BY <1>2
  <2>3. ASSUME NEW p \in Permissions
        PROVE  IF p \in cast.calls[s].perms THEN p \in perms <=> Op(s) = "assign"
               ELSE Granting(q, p, perms, n)
    BY <1>2, <2>2 DEF GrantOld
  <2>4. ASSUME NEW p \in Permissions
        PROVE  IF p \in cast.calls[s].perms THEN p \in perms <=> Op(s) = "assign"
               ELSE Granting(q, p, perms, n)'
    BY <2>1, <2>2, <2>3, Prefix
  <2>5. q = s => \A i \in 1..n : log'[i].row # log'[i].by
    BY <1>2, <2>1, <2>2 DEF GrantOld, Grown
  <2> QED  BY <2>1, <2>2, <2>4, <2>5 DEF GrantOld
<1> QED  BY <1>1, <1>2

\* A step that touches neither the log nor the privileges disturbs no save of
\* them but the one it starts.
LEMMA GrantsQuiet ==
    ASSUME Inv0, GrantsInv, UNCHANGED <<cast, log, grants>>,
           \A s \in Requests : \/ task'[s] = task[s]
                               \/ task'[s].pc \notin {"regrant", "grant"}
                               \/ GrantOld(s)'
    PROVE  GrantsInv'
<1>1. Grown
  BY DEF Grown, Inv0, TypeOK
<1>2. PICK n \in Nat : n = Len(log) /\ n = Len(log')
  BY DEF Inv0, TypeOK
<1>3. ASSUME NEW q \in Requests, NEW p \in Permissions, grants'[q] # Nothing
      PROVE  Granting(q, p, grants[q], Len(log))'
  <2>1. PICK perms : perms = grants[q] /\ perms = grants'[q]
    OBVIOUS
  <2>2. Granting(q, p, perms, n)
    BY <1>2, <1>3, <2>1 DEF GrantsInv, PermissionsStand
  <2>3. Granting(q, p, perms, n)'
    BY <1>1, <1>2, <2>2, Prefix
  <2> QED  BY <1>2, <2>1, <2>3
<1>4. PermissionsStand'
  BY <1>3 DEF GrantsInv, PermissionsStand
<1>5. ASSUME NEW s \in Requests PROVE GrantOld(s)'
  <2>1. GrantOld(s)
    BY DEF GrantsInv
  <2> QED  BY <1>1, <2>1, GrantKept
<1> QED  BY <1>4, <1>5 DEF GrantsInv

\* Nor does a step that writes the row of a user.
LEMMA GrantsApart ==
    ASSUME Inv0, GrantsInv, NEW r \in Requests, NEW u \in Users, NEW columns,
           log' = Meant(r, u, columns), UNCHANGED <<cast, grants>>,
           \A s \in Requests : task'[s] = task[s] \/ task'[s].pc \notin {"regrant", "grant"}
    PROVE  GrantsInv'
<1>1. TypeOK /\ u \in Users \cup Requests /\ task[r].seen <= Len(log)
  BY DEF Inv0, Placed
<1>2. PICK n \in Nat : n = Len(log) /\ n + 1 = Len(log')
  BY <1>1, GrownAppended
<1>3. /\ Grown /\ DOMAIN log = 1..n /\ DOMAIN log' = 1 .. n + 1
      /\ \A i \in 1..n : log'[i] = log[i]
      /\ log'[n + 1] = [by |-> r, row |-> u, columns |-> columns, seen |-> task[r].seen]
  BY <1>1, <1>2, GrownAppended, LogAppended
<1>4. u \notin Requests /\ log'[n + 1].row = u /\ log'[n + 1].by = r
  BY <1>3, AccountsAssumption
<1>5. ASSUME NEW q \in Requests, NEW p \in Permissions, grants'[q] # Nothing
      PROVE  Granting(q, p, grants[q], Len(log))'
  <2>1. PICK perms : perms = grants[q] /\ perms = grants'[q]
    OBVIOUS
  <2>2. Granting(q, p, perms, Len(log)) /\ q # u
    BY <1>4, <1>5, <2>1 DEF GrantsInv, PermissionsStand
  <2>3. Granting(q, p, perms, Len(log))'
    BY <1>1, <2>2, GrantingMore
  <2> QED  BY <2>1, <2>3
<1>6. ASSUME NEW i \in 1 .. n + 1, NEW j \in 1 .. n + 1,
             i < j, log'[i].row = log'[i].by, log'[j].row = log'[j].by
      PROVE  log'[j].seen < i
  <2>1. j # n + 1
    BY <1>4, <1>6
  <2>2. i \in 1..n /\ j \in 1..n
    BY <1>6, <2>1
  <2>3. log[i].row = log[i].by /\ log[j].row = log[j].by /\ log'[j] = log[j]
    BY <1>3, <1>6, <2>2
  <2> QED  BY <1>3, <1>6, <2>2, <2>3 DEF GrantsInv, PermissionsStand
<1>7. PermissionsStand'
  BY <1>3, <1>5, <1>6 DEF PermissionsStand
<1>8. \A i \in DOMAIN log' : log'[i].row \in Requests => grants'[log'[i].row] # Nothing
  <2>1. ASSUME NEW i \in 1 .. n + 1, log'[i].row \in Requests PROVE grants'[log'[i].row] # Nothing
    <3>1. i \in 1..n
      BY <1>4, <2>1
    <3> QED  BY <1>3, <2>1, <3>1 DEF GrantsInv
  <2> QED  BY <1>3, <2>1
<1>9. ASSUME NEW s \in Requests PROVE GrantOld(s)'
  <2>1. GrantOld(s)
    BY DEF GrantsInv
  <2> QED  BY <1>3, <2>1, GrantKept
<1> QED  BY <1>7, <1>8, <1>9 DEF GrantsInv

\* A row of privileges is written, or found as it should be.
LEMMA GrantsWritten ==
    ASSUME Inv0, LatestKept, GrantsInv, NEW r \in Requests, task[r].pc \in {"regrant", "grant"},
           log' = Meant(r, task[r].row, Wished(r)), Goto(r, "done"), cast' = cast,
           grants'[task[r].row] = task[r].perms,
           \A q \in Requests \ {task[r].row} : grants'[q] = grants[q]
    PROVE  GrantsInv'
<1>1. PICK q, y, perms, n :
         /\ q = task[r].row /\ y = Wished(r) /\ perms = task[r].perms /\ n = Len(log)
         /\ q \in Requests /\ n \in Nat
  <2>1. Placed(r) /\ log \in Seq({log[i] : i \in DOMAIN log})
    BY DEF Inv0, TypeOK
  <2>2. Len(log) \in Nat
    BY <2>1
  <2>3. task[r].row \in Requests
    BY <2>1 DEF Placed
  <2> QED  BY <2>2, <2>3
<1>2. /\ TypeOK /\ q \in Users \cup Requests /\ task[r].seen <= Len(log) /\ task[r].seen \in Nat
      /\ log' = Meant(r, q, y) /\ perms \in SUBSET Permissions /\ perms # Nothing
  BY <1>1, AccountsAssumption DEF Inv0, Placed, TypeOK, Work
<1>3. n + 1 = Len(log')
  BY <1>1, <1>2, GrownAppended
<1>4. /\ Grown /\ DOMAIN log = 1..n /\ DOMAIN log' = 1 .. n + 1
      /\ \A i \in 1..n : log'[i] = log[i]
      /\ log'[n + 1] = [by |-> r, row |-> q, columns |-> y, seen |-> task[r].seen]
  BY <1>1, <1>2, <1>3, GrownAppended, LogAppended
<1>5. log'[n + 1].row = q /\ log'[n + 1].by = r /\ log'[n + 1].seen = task[r].seen
  BY <1>4
<1>6. GrantOld(r)
  BY DEF GrantsInv
<1>7. ASSUME NEW w \in Requests, NEW p \in Permissions, grants'[w] # Nothing
      PROVE  Granting(w, p, grants[w], Len(log))'
  <2>1. CASE w # q
    <3>1. PICK a : a = grants[w] /\ a = grants'[w]
      BY <1>1, <2>1
    <3>2. Granting(w, p, a, Len(log))
      BY <1>7, <3>1 DEF GrantsInv, PermissionsStand
    <3>3. Granting(w, p, a, Len(log))'
      BY <1>2, <2>1, <3>2, GrantingMore
    <3> QED  BY <3>1, <3>3
  <2>2. CASE w = q /\ p \in DOMAIN y
    <3>1. p \in cast.calls[r].perms /\ y[p] = (Op(r) = "assign")
      BY <1>1, <2>2 DEF Wished
    <3>2. (p \in perms) = y[p]
      BY <1>1, <1>6, <3>1 DEF GrantOld
    <3>3. Granting(q, p, perms, Len(log))'
      BY <1>2, <2>2, <3>2, GrantingWritten
    <3> QED  BY <1>1, <2>2, <3>3
  <2>3. CASE w = q /\ p \notin DOMAIN y
    <3>1. p \notin cast.calls[r].perms
      BY <1>1, <2>3 DEF Wished
    <3>2. Granting(q, p, perms, task[r].seen)
      BY <1>1, <1>6, <3>1 DEF GrantOld
    <3>3. Granting(q, p, perms, Len(log))'
      BY <1>2, <2>3, <3>2, GrantingBack
    <3> QED  BY <1>1, <2>3, <3>3
  <2> QED  BY <2>1, <2>2, <2>3
<1>8. ASSUME NEW i \in 1 .. n + 1, NEW j \in 1 .. n + 1,
             i < j, log'[i].row = log'[i].by, log'[j].row = log'[j].by
      PROVE  log'[j].seen < i
  <2>1. i \in 1..n /\ log'[i] = log[i]
    BY <1>1, <1>4, <1>8
  <2>2. CASE j = n + 1
    <3>1. q = r
      BY <1>5, <1>8, <2>2
    <3>2. ~(i \in 1..task[r].seen)
      BY <1>1, <1>6, <1>8, <2>1, <3>1 DEF GrantOld
    <3> QED  BY <1>2, <1>5, <2>1, <2>2, <3>2
  <2>3. CASE j \in 1..n
    BY <1>4, <1>8, <2>1, <2>3 DEF GrantsInv, PermissionsStand
  <2> QED  BY <1>1, <2>2, <2>3
<1>9. PermissionsStand'
  BY <1>4, <1>7, <1>8 DEF PermissionsStand
<1>10. ASSUME NEW i \in 1 .. n + 1, log'[i].row \in Requests PROVE grants'[log'[i].row] # Nothing
  <2>1. CASE log'[i].row = q
    BY <1>1, <1>2, <2>1
  <2>2. CASE log'[i].row # q
    <3>1. i \in 1..n /\ log'[i] = log[i]
      BY <1>1, <1>4, <1>5, <2>2
    <3> QED  BY <1>1, <1>4, <1>10, <2>2, <3>1 DEF GrantsInv
  <2> QED  BY <2>1, <2>2
<1>11. ASSUME NEW s \in Requests PROVE GrantOld(s)'
  <2>1. GrantOld(s)
    BY DEF GrantsInv
  <2>2. task'[r].pc = "done" /\ \A t \in Requests \ {r} : task'[t] = task[t]
    BY GotoTyped DEF Inv0, Labels, Over
  <2> QED  BY <1>4, <2>1, <2>2, GrantKept
<1> QED  BY <1>4, <1>9, <1>10, <1>11 DEF GrantsInv

\* A step that says only where a request waits next, or that loads an entity.
LEMMA OthersGrants ==
    ASSUME Inv0, GrantsInv, NEW r \in Requests,
           \/ Load(r) \/ Login(r) \/ FindByEmail(r) \/ FindReward(r) \/ Reread(r) \/ AddJob(r) \/ SendMail(r)
           \/ FindName(r) \/ ResendOtp(r) \/ FindReferrer(r) \/ WriteReward(r) \/ FailRequest(r)
    PROVE  GrantsInv'
<1>1. UNCHANGED <<cast, log, grants>>
  BY DEF Load, Login, FindByEmail, FindReward, Reread, AddJob, SendMail, FindName, ResendOtp, FindReferrer,
         WriteReward, FailRequest, account
<1>2. ASSUME NEW label, label \notin {"regrant", "grant"}, Goto(r, label)
      PROVE  GrantsInv'
  <2>1. task'[r].pc = label /\ \A s \in Requests \ {r} : task'[s] = task[s]
    BY <1>2 DEF Goto, Inv0, TypeOK, Work
  <2> QED  BY <1>1, <1>2, <2>1, GrantsQuiet
<1>3. ASSUME NEW label, label \notin {"regrant", "grant"}, NEW e, NEW code, Hold(r, label, e, code)
      PROVE  GrantsInv'
  <2>1. task'[r].pc = label /\ \A s \in Requests \ {r} : task'[s] = task[s]
    BY <1>3 DEF Hold, Idle, Inv0, TypeOK
  <2> QED  BY <1>1, <1>3, <2>1, GrantsQuiet
<1>4. CASE Load(r)
  <2>1. \/ \E label \in {"reread", "name", "update"}, e \in {Entity(r, users[Subject(r)])}, code \in Enters(r) :
              Hold(r, label, e, code)
        \/ Refuse(r)
    BY <1>4 DEF Load
  <2> QED  BY <1>2, <1>3, <2>1 DEF Refuse
<1>5. CASE Login(r)
  BY <1>2, <1>3, <1>5 DEF Login, Refuse
<1>6. CASE FindByEmail(r)
  <2>1. \/ \E label \in {"refer", "name", "insert"} : Hold(r, label, NoEntity, 0)
        \/ \E label \in {"done", "resend", "refused"} : Goto(r, label)
    BY <1>6 DEF FindByEmail
  <2> QED  BY <1>2, <1>3, <2>1
<1>7. CASE FindReward(r)
  <2>1. CASE \E label \in {"done", "refused"} : Goto(r, label)
    BY <1>2, <2>1
  <2>2. ASSUME NEW q \in Requests, task' = [task EXCEPT ![r] = [Idle EXCEPT !.pc = "reward", !.row = q]]
        PROVE  GrantsInv'
    <3>1. task'[r].pc = "reward" /\ \A s \in Requests \ {r} : task'[s] = task[s]
      BY <2>2 DEF Idle, Inv0, TypeOK
    <3> QED  BY <1>1, <3>1, GrantsQuiet
  <2> QED  BY <1>7, <2>1, <2>2 DEF FindReward
<1>8. CASE AddJob(r) \/ SendMail(r) \/ WriteReward(r) \/ FailRequest(r)
  BY <1>2, <1>8 DEF AddJob, SendMail, WriteReward, FailRequest
<1>9. CASE FindName(r) \/ FindReferrer(r)
  <2>1. \E label \in {"refused", "insert", "update", "name"} : Goto(r, label)
    BY <1>9 DEF FindName, FindReferrer
  <2> QED  BY <1>2, <2>1
<1>10. CASE Reread(r)
  <2>1. task'[r].pc = "save" /\ \A s \in Requests \ {r} : task'[s] = task[s]
    BY <1>10 DEF Reread, Inv0, TypeOK, Work
  <2> QED  BY <1>1, <2>1, GrantsQuiet
<1>11. CASE ResendOtp(r)
  <2>1. CASE Hold(r, "reread", Entity(r, users[Subject(r)]), 0)
    BY <1>3, <2>1
  <2>2. CASE ProcessEnds
    <3>1. \A s \in Requests : task'[s] = task[s] \/ task'[s].pc = "cut"
      BY <2>2 DEF ProcessEnds, Inv0, TypeOK, Work
    <3> QED  BY <1>1, <3>1, GrantsQuiet
  <2> QED  BY <1>11, <2>1, <2>2 DEF ResendOtp
<1> QED  BY <1>4, <1>5, <1>6, <1>7, <1>8, <1>9, <1>10, <1>11

\* A write to the row of a user, or a request that ends without one.
LEMMA UsersGrants ==
    ASSUME Inv0, GrantsInv, NEW r \in Requests, Save(r) \/ Update(r) \/ Insert(r)
    PROVE  GrantsInv'
<1>1. UNCHANGED <<cast, grants>> /\ Subject(r) \in Users
  <2>1. task[r].pc \in {"save", "update", "insert"} /\ Placed(r)
    BY DEF Save, Update, Insert, At, Inv0
  <2>2. Op(r) # "none"
    BY <2>1 DEF Placed
  <2> QED  BY <2>2, CallTyped DEF Inv0, Save, Update, Insert
<1>2. PICK label : label \notin {"regrant", "grant"} /\ Goto(r, label)
  <2>1. CASE Save(r)
    BY <2>1 DEF Save, After
  <2>2. CASE Update(r)
    BY <2>2 DEF Update
  <2>3. CASE Insert(r)
    BY <2>3 DEF Insert
  <2> QED  BY <2>1, <2>2, <2>3
<1>3. \A s \in Requests : task'[s] = task[s] \/ task'[s].pc \notin {"regrant", "grant"}
  BY <1>2 DEF Goto, Inv0, TypeOK, Work
<1>4. CASE log' = log
  BY <1>1, <1>3, <1>4, GrantsQuiet
<1>5. ASSUME NEW columns, log' = Meant(r, Subject(r), columns) PROVE GrantsInv'
  BY <1>1, <1>3, <1>5, GrantsApart
<1> QED  BY <1>4, <1>5 DEF Save, Update, Insert

\* The privileges a request holds are those of the row now, with what it asks.
LEMMA FindGrantGrants == ASSUME Inv0, GrantsInv, NEW r \in Requests, FindGrant(r) PROVE GrantsInv'
<1>1. UNCHANGED <<cast, log, grants>> /\ Op(r) \in Grants /\ task[r].pc = "idle" /\ grants[r] = Nothing
      /\ Op(r)' = Op(r)
  BY DEF FindGrant, At, Inv0, Placed, Op
<1>2. ASSUME NEW label, NEW row, NEW perms, HoldGrant(r, label, row, perms)
      PROVE  /\ task'[r].row = row /\ task'[r].perms = perms /\ task'[r].seen = Len(log)
             /\ \A s \in Requests \ {r} : task'[s] = task[s]
  BY <1>2 DEF HoldGrant, Idle, Inv0, TypeOK
<1>3. PICK n \in Nat : n = Len(log) /\ n = Len(log')
  BY <1>1 DEF Inv0, TypeOK
<1>4. Grown
  BY <1>1 DEF Grown, Inv0, TypeOK
<1>5. ASSUME NEW q \in Requests, grants[q] # Nothing, HoldGrant(r, "regrant", q, Granted(r, grants[q]))
      PROVE  GrantsInv'
  <2>1. PICK a, b : a = grants[q] /\ b = Granted(r, grants[q])
    OBVIOUS
  <2>2. task'[r].row = q /\ task'[r].perms = b /\ task'[r].seen = n /\ \A s \in Requests \ {r} : task'[s] = task[s]
    BY <1>2, <1>3, <1>5, <2>1
  <2>3. ASSUME NEW p \in Permissions
        PROVE  IF p \in cast.calls[r].perms THEN p \in b <=> Op(r) = "assign" ELSE Granting(q, p, b, n)'
    <3>1. CASE p \in cast.calls[r].perms
      BY <2>1, <3>1 DEF Granted
    <3>2. CASE p \notin cast.calls[r].perms
      <4>1. (p \in a) = (p \in b)
        BY <2>1, <3>2 DEF Granted
      <4>2. Granting(q, p, a, n)
        BY <1>3, <1>5, <2>1 DEF GrantsInv, PermissionsStand
      <4>3. Granting(q, p, b, n)
        BY <4>1, <4>2, GrantingOf
      <4> QED  BY <1>3, <1>4, <3>2, <4>3, Prefix
    <3> QED  BY <3>1, <3>2
  <2>4. q # r
    BY <1>1, <1>5
  <2>5. GrantOld(r)'
    BY <1>1, <2>2, <2>3, <2>4 DEF GrantOld
  <2> QED  BY <1>1, <2>2, <2>5, GrantsQuiet
<1>6. ASSUME \A q \in Requests : grants[q] = Nothing, HoldGrant(r, "grant", r, cast.calls[r].perms), Op(r) = "assign"
      PROVE  GrantsInv'
  <2>1. PICK b : b = cast.calls[r].perms
    OBVIOUS
  <2>2. task'[r].row = r /\ task'[r].perms = b /\ task'[r].seen = n /\ \A s \in Requests \ {r} : task'[s] = task[s]
    BY <1>2, <1>3, <1>6, <2>1
  <2>3. \A i \in 1..n : log[i].row \notin Requests /\ log[i].by \in Requests /\ log'[i] = log[i]
    BY <1>1, <1>3, <1>6 DEF GrantsInv, Inv0, TypeOK
  <2>4. \A p : Latest(r, p, n) = {}
    BY <2>3 DEF Latest
  <2>5. ASSUME NEW p \in Permissions
        PROVE  IF p \in cast.calls[r].perms THEN p \in b <=> Op(r) = "assign" ELSE Granting(r, p, b, n)'
    <3>1. p \notin b => Granting(r, p, b, n)
      BY <2>4 DEF Granting
    <3> QED  BY <1>3, <1>4, <1>6, <2>1, <3>1, Prefix
  <2>6. GrantOld(r)'
    BY <1>1, <2>2, <2>3, <2>5 DEF GrantOld
  <2> QED  BY <1>1, <2>2, <2>6, GrantsQuiet
<1>7. CASE Goto(r, "refused")
  <2>1. task'[r].pc = "refused" /\ \A s \in Requests \ {r} : task'[s] = task[s]
    BY <1>7, GotoTyped DEF Inv0, Labels, Over
  <2> QED  BY <1>1, <2>1, GrantsQuiet
<1> QED  BY <1>5, <1>6, <1>7 DEF FindGrant

\* Privileges that are as a request would have them need no save.
LEMMA RereadGrantGrants ==
    ASSUME Inv0, LatestKept, GrantsInv, NEW r \in Requests, RereadGrant(r) PROVE GrantsInv'
<1>1. UNCHANGED <<cast, grants>> /\ task[r].pc = "regrant"
  BY DEF RereadGrant, At
<1>2. CASE Goto(r, "grant") /\ UNCHANGED log
  <2>1. task'[r] = [task[r] EXCEPT !.pc = "grant"] /\ \A s \in Requests \ {r} : task'[s] = task[s]
    BY <1>2, GotoTyped DEF Inv0, Labels
  <2>2. task'[r].row = task[r].row /\ task'[r].perms = task[r].perms /\ task'[r].seen = task[r].seen
    BY <2>1 DEF Inv0, TypeOK, Work
  <2>3. GrantOld(r)'
    <3>1. Grown /\ task[r].seen \in 0..Len(log) /\ Op(r)' = Op(r)
      BY <1>1, <1>2 DEF Grown, Inv0, TypeOK, Placed, Work, Op
    <3>2. PICK q, perms, n : /\ q = task[r].row /\ perms = task[r].perms /\ n = task[r].seen
                             /\ q = task'[r].row /\ perms = task'[r].perms /\ n = task'[r].seen
      BY <2>2
    <3>3. ASSUME NEW p \in Permissions
          PROVE  IF p \in cast.calls[r].perms THEN p \in perms <=> Op(r) = "assign"
                 ELSE Granting(q, p, perms, n)
      BY <1>1, <3>2 DEF GrantOld, GrantsInv
    <3>4. ASSUME NEW p \in Permissions
          PROVE  IF p \in cast.calls[r].perms THEN p \in perms <=> Op(r) = "assign"
                 ELSE Granting(q, p, perms, n)'
      BY <3>1, <3>2, <3>3, Prefix
    <3>5. q # r
      BY <1>1, <3>2 DEF Inv0, Placed
    <3> QED  BY <1>1, <3>1, <3>2, <3>4, <3>5 DEF GrantOld
  <2> QED  BY <1>1, <1>2, <2>1, <2>3, GrantsQuiet
<1>3. CASE grants[task[r].row] = task[r].perms /\ Goto(r, "done") /\ log' = Meant(r, task[r].row, Wished(r))
  BY <1>1, <1>3, GrantsWritten
<1> QED  BY <1>2, <1>3 DEF RereadGrant

\* A save writes the privileges the request holds.
LEMMA SaveGrantGrants ==
    ASSUME Inv0, LatestKept, GrantsInv, NEW r \in Requests, SaveGrant(r) PROVE GrantsInv'
<1>1. task[r].pc = "grant" /\ task[r].row \in Requests
  BY DEF SaveGrant, At, Inv0, Placed
<1>2. /\ grants'[task[r].row] = task[r].perms
      /\ \A q \in Requests \ {task[r].row} : grants'[q] = grants[q]
  BY <1>1 DEF SaveGrant, Inv0, TypeOK
<1> QED  BY <1>1, <1>2, GrantsWritten DEF SaveGrant

\* A referral leaves the privileges alone, unless it ends the process.
LEMMA ReferGrants ==
    ASSUME Inv0, GrantsInv, UNCHANGED <<cast, log, grants>>, UNCHANGED task \/ ProcessEnds
    PROVE  GrantsInv'
<1>1. ASSUME NEW s \in Requests PROVE task'[s] = task[s] \/ task'[s].pc = "cut"
  BY DEF ProcessEnds, Inv0, TypeOK, Work
<1> QED  BY <1>1, GrantsQuiet

\* There are no privileges yet.
LEMMA InitGrants == Init => GrantsInv
<1> SUFFICES ASSUME Init PROVE GrantsInv
  OBVIOUS
<1>1. DOMAIN log = {} /\ (\A q \in Requests : grants[q] = Nothing) /\ \A r \in Requests : task[r].pc = "idle"
  BY DEF Init, Idle
<1> QED  BY <1>1 DEF GrantsInv, PermissionsStand, GrantOld
-----------------------------------------------------------------------------
(* The referrals, step by step *)

\* The rows of referrals stay, and so does whose a referral under way is.
ReferGrown ==
    /\ Len(referrals) \in Nat /\ Len(referrals') \in Nat /\ Len(referrals') >= Len(referrals)
    /\ \A j \in 1..Len(referrals) : referrals'[j] = referrals[j]
    /\ \A s \in Requests : refer[s].pc # "none" =>
          /\ refer'[s].pc # "none" /\ refer'[s].user = refer[s].user /\ refer'[s].by = refer[s].by
          /\ refer[s].pc = "done" => refer'[s].pc = "done"

\* The first n rows of a referrer stay as many.
LEMMA EarlierKept ==
    ASSUME ReferGrown, NEW by, NEW n \in 0..Len(referrals) PROVE Earlier(by, n)' = Earlier(by, n)
<1>1. {i \in 1..n : referrals'[i].by = by} = {i \in 1..n : referrals[i].by = by}
  BY DEF ReferGrown
<1> QED  BY <1>1 DEF Earlier

\* A registration that has a referral, and a row of referrals, keep it.
LEMMA RegisteredKept ==
    ASSUME Inv0, Grown, ReferGrown, NEW i \in 1..Len(log), Registered(i) PROVE Registered(i)'
<1>1. log'[i] = log[i] /\ log[i].by \in Requests /\ cast' = cast
  BY DEF Grown, Inv0, TypeOK
<1>2. PICK r \in Requests : r = log[i].by /\ r = log'[i].by
  BY <1>1
<1>3. Op(r)' = Op(r) /\ Subject(r)' = Subject(r) /\ cast'.calls[r].by = cast.calls[r].by
  BY <1>1 DEF Op, Subject
<1>4. Op(r) = "register" /\ "password" \in DOMAIN log[i].columns /\ cast.calls[r].by # Nothing =>
            refer[r].pc # "none" /\ refer[r].user = Subject(r) /\ refer[r].by = cast.calls[r].by
  BY <1>2 DEF Registered
<1>5. Op(r)' = "register" /\ "password" \in DOMAIN log'[i].columns /\ cast'.calls[r].by # Nothing =>
            refer'[r].pc # "none" /\ refer'[r].user = Subject(r)' /\ refer'[r].by = cast'.calls[r].by
  BY <1>1, <1>3, <1>4 DEF ReferGrown
<1> QED  BY <1>2, <1>5 DEF Registered

\* A row of referrals stays that of a referral that is done.
LEMMA SavedKept ==
    ASSUME Inv0, ReferGrown, NEW j \in 1..Len(referrals), Saved(j) PROVE Saved(j)'
<1>1. PICK x : x = referrals[j] /\ x = referrals'[j]
  BY DEF ReferGrown
<1>2. x \in Referral
  BY <1>1 DEF Inv0, TypeOK, ReferGrown
<1>3. /\ refer[x.request].pc = "done" /\ refer[x.request].user = x.user /\ refer[x.request].by = x.by
      /\ x.knew < j /\ x.amount \in Amounts(x.tiers, Earlier(x.by, x.knew))
  BY <1>1 DEF Saved
<1>4. refer'[x.request].pc = "done" /\ refer'[x.request].user = x.user /\ refer'[x.request].by = x.by
  BY <1>2, <1>3 DEF ReferGrown, Referral
<1>5. PICK by, n : by = x.by /\ n = x.knew
  OBVIOUS
<1>6. n \in 0..Len(referrals)
  BY <1>2, <1>3, <1>5 DEF Referral, ReferGrown
<1>7. Earlier(by, n)' = Earlier(by, n)
  BY <1>6, EarlierKept
<1>8. PICK m : m = Earlier(by, n) /\ m = Earlier(by, n)'
  BY <1>7
<1>9. x.amount \in Amounts(x.tiers, m)
  BY <1>3, <1>5, <1>8
<1> QED  BY <1>1, <1>3, <1>4, <1>5, <1>8, <1>9 DEF Saved

\* A referral that is not touched, or lost, is as before.
LEMMA ReferOldKept ==
    ASSUME Inv0, Grown, ReferGrown, NEW s \in Requests, ReferOld(s),
           task[s].pc \in Over \ {"idle"} => task'[s].pc \in Over \ {"idle"},
           \A u \in Users : users[u] # Nothing => users'[u] # Nothing,
           restarts' \in Nat, restarts' >= restarts,
           \/ refer'[s] = refer[s]
           \/ refer[s].pc # "none" /\ refer'[s] = [refer[s] EXCEPT !.pc = "lost"] /\ restarts' > 0
    PROVE  ReferOld(s)'
<1>1. /\ Op(s)' = Op(s) /\ Subject(s)' = Subject(s) /\ cast' = cast
      /\ \A i \in 1..Len(log) : log'[i] = log[i]
      /\ DOMAIN log = 1..Len(log) /\ DOMAIN log' = 1..Len(log') /\ 1..Len(log) \subseteq 1..Len(log')
      /\ DOMAIN referrals = 1..Len(referrals) /\ DOMAIN referrals' = 1..Len(referrals')
      /\ 1..Len(referrals) \subseteq 1..Len(referrals')
      /\ \A j \in 1..Len(referrals) : referrals'[j] = referrals[j]
  BY DEF Grown, ReferGrown, Op, Subject, Inv0, TypeOK
<1>2. refer[s] \in Referring
  BY DEF Inv0, TypeOK
<1>3. PICK x, y : x = refer[s] /\ y = refer'[s]
  OBVIOUS
<1>4. /\ y.user = x.user /\ y.by = x.by /\ y.knew = x.knew /\ y.count = x.count
      /\ y.pc = x.pc \/ (x.pc # "none" /\ y.pc = "lost" /\ restarts' > 0)
  BY <1>2, <1>3 DEF Referring
<1>5. /\ x.pc # "none" => /\ Op(s) = "register" /\ x.by = cast.calls[s].by /\ x.by \in Users
                          /\ task[s].pc \in Over \ {"idle"}
      /\ x.user # Nothing => /\ x.pc # "none" /\ x.user = Subject(s) /\ users[x.user] # Nothing
                             /\ \E i \in DOMAIN log : log[i].row = x.user /\ log[i].by = s
      /\ x.pc = "lost" => restarts > 0
      /\ x.pc = "save" => x.knew <= Len(referrals) /\ x.count = Earlier(x.by, x.knew)
      /\ x.pc = "done" => x.user # Nothing /\ \E j \in DOMAIN referrals : referrals[j].request = s
  BY <1>3 DEF ReferOld
<1>6. y.pc # "none" => /\ Op(s)' = "register" /\ y.by = cast'.calls[s].by /\ y.by \in Users
                       /\ task'[s].pc \in Over \ {"idle"}
  BY <1>1, <1>4, <1>5
<1>7. y.user # Nothing => /\ y.pc # "none" /\ y.user = Subject(s)' /\ users'[y.user] # Nothing
                          /\ \E i \in DOMAIN log' : log'[i].row = y.user /\ log'[i].by = s
  <2>1. x.user \in Users \cup {Nothing}
    BY <1>2, <1>3 DEF Referring
  <2> QED  BY <1>1, <1>4, <1>5, <2>1
<1>8. y.pc = "lost" => restarts' > 0
  BY <1>4, <1>5 DEF Inv0, TypeOK
<1>9. y.pc = "save" => y.knew <= Len(referrals') /\ y.count = Earlier(y.by, y.knew)'
  <2>1. SUFFICES ASSUME y.pc = "save" PROVE y.knew <= Len(referrals') /\ y.count = Earlier(y.by, y.knew)'
    OBVIOUS
  <2>2. PICK by, n : by = x.by /\ n = x.knew
    OBVIOUS
  <2>3. n \in 0..Len(referrals)
    BY <1>2, <1>3, <1>4, <1>5, <2>1, <2>2 DEF Referring, ReferGrown
  <2>4. Earlier(by, n)' = Earlier(by, n)
    BY <2>3, EarlierKept
  <2>5. x.pc = "save"
    BY <1>4, <2>1
  <2> QED  BY <1>4, <1>5, <2>2, <2>3, <2>4, <2>5 DEF ReferGrown
<1>10. y.pc = "done" => y.user # Nothing /\ \E j \in DOMAIN referrals' : referrals'[j].request = s
  BY <1>1, <1>4, <1>5
<1> QED  BY <1>3, <1>6, <1>7, <1>8, <1>9, <1>10 DEF ReferOld

\* A step that starts no referral and saves none.
LEMMA ReferralsQuiet ==
    ASSUME Inv0, ReferralsInv, Grown, UNCHANGED referrals, restarts' \in Nat, restarts' >= restarts,
           \A s \in Requests : task[s].pc \in Over \ {"idle"} => task'[s].pc \in Over \ {"idle"},
           \A u \in Users : users[u] # Nothing => users'[u] # Nothing,
           \A s \in Requests :
              \/ refer'[s] = refer[s]
              \/ /\ refer[s].pc \notin {"none", "done"} /\ refer'[s] = [refer[s] EXCEPT !.pc = "lost"]
                 /\ restarts' > 0,
           \A i \in 1..Len(log') : i > Len(log) => Registered(i)'
    PROVE  ReferralsInv'
<1>1. /\ DOMAIN log = 1..Len(log) /\ DOMAIN log' = 1..Len(log') /\ DOMAIN referrals = 1..Len(referrals)
      /\ Len(referrals) \in Nat /\ Len(log) \in Nat /\ Len(log') \in Nat
      /\ \A s \in Requests : refer[s] \in Referring
  BY DEF Inv0, TypeOK, Grown
<1>2. \A s \in Requests : /\ refer'[s].user = refer[s].user /\ refer'[s].by = refer[s].by
                          /\ refer[s].pc # "none" => refer'[s].pc # "none"
                          /\ refer[s].pc = "done" => refer'[s].pc = "done"
  <2>1. SUFFICES ASSUME NEW s \in Requests
                 PROVE  /\ refer'[s].user = refer[s].user /\ refer'[s].by = refer[s].by
                        /\ refer[s].pc # "none" => refer'[s].pc # "none"
                        /\ refer[s].pc = "done" => refer'[s].pc = "done"
    OBVIOUS
  <2>2. CASE refer'[s] = refer[s]
    BY <2>2
  <2>3. CASE refer[s].pc \notin {"none", "done"} /\ refer'[s] = [refer[s] EXCEPT !.pc = "lost"]
    <3>1. refer[s] \in Referring
      BY <1>1
    <3> QED  BY <2>3, <3>1 DEF Referring
  <2> QED  BY <2>2, <2>3
<1>3. ReferGrown
  BY <1>1, <1>2 DEF ReferGrown
<1>4. \A s \in Requests : ReferOld(s)'
  BY <1>3, ReferOldKept DEF ReferralsInv
<1>5. \A r, s \in Requests : refer'[r].user = refer'[s].user /\ refer'[r].user # Nothing => r = s
  BY <1>2 DEF ReferralsInv
<1>6. ASSUME NEW i \in DOMAIN log' PROVE Registered(i)'
  <2>1. CASE i \in 1..Len(log)
    BY <1>1, <1>3, <2>1, RegisteredKept DEF ReferralsInv
  <2>2. CASE i > Len(log)
    BY <1>1, <2>2
  <2> QED  BY <1>1, <2>1, <2>2
<1>7. \A j \in DOMAIN referrals' : Saved(j)'
  BY <1>1, <1>3, SavedKept DEF ReferralsInv
<1> QED  BY <1>4, <1>5, <1>6, <1>7 DEF ReferralsInv

\* The process ends.
LEMMA EndReferrals ==
    ASSUME Inv0, ReferralsInv, ProcessEnds, UNCHANGED <<cast, users, log, referrals>>
    PROVE  ReferralsInv'
<1>1. Grown /\ restarts' \in Nat /\ restarts' > 0 /\ restarts' >= restarts
  BY DEF Grown, Inv0, TypeOK, ProcessEnds
<1>2. \A s \in Requests : task[s].pc \in Over \ {"idle"} => task'[s].pc \in Over \ {"idle"}
  BY DEF ProcessEnds
<1>3. \A s \in Requests :
              \/ refer'[s] = refer[s]
              \/ /\ refer[s].pc \notin {"none", "done"} /\ refer'[s] = [refer[s] EXCEPT !.pc = "lost"]
                 /\ restarts' > 0
  BY <1>1 DEF ProcessEnds
<1>4. \A i \in 1..Len(log') : i > Len(log) => Registered(i)'
  BY <1>1 DEF Grown
<1> QED  BY <1>1, <1>2, <1>3, <1>4, ReferralsQuiet

\* A step of a request that makes no referral and writes no log.
LEMMA ReferApart ==
    ASSUME Inv0, ReferralsInv, NEW r \in Requests, task[r].pc \notin Over \ {"idle"},
           \A s \in Requests \ {r} : task'[s] = task[s],
           UNCHANGED <<cast, users, log, refer, referrals, restarts>>
    PROVE  ReferralsInv'
<1>1. Grown /\ restarts' \in Nat /\ restarts' >= restarts
  BY DEF Grown, Inv0, TypeOK
<1>2. \A s \in Requests : task[s].pc \in Over \ {"idle"} => task'[s].pc \in Over \ {"idle"}
  OBVIOUS
<1>3. \A i \in 1..Len(log') : i > Len(log) => Registered(i)'
  BY <1>1 DEF Grown
<1> QED  BY <1>1, <1>2, <1>3, ReferralsQuiet

\* A step of a request that logs what it meant, which is no registration.
LEMMA ReferLogged ==
    ASSUME Inv0, ReferralsInv, NEW r \in Requests, task[r].pc \notin Over \ {"idle"},
           \A s \in Requests \ {r} : task'[s] = task[s],
           \A u \in Users : users[u] # Nothing => users'[u] # Nothing,
           NEW row \in Users \cup Requests, NEW columns, log' = Meant(r, row, columns),
           Op(r) # "register" \/ "password" \notin DOMAIN columns,
           UNCHANGED <<cast, refer, referrals, restarts>>
    PROVE  ReferralsInv'
<1>1. restarts' \in Nat /\ restarts' >= restarts /\ TypeOK /\ task[r].seen <= Len(log)
  BY DEF Inv0, TypeOK, Placed
<1>2. \A s \in Requests : task[s].pc \in Over \ {"idle"} => task'[s].pc \in Over \ {"idle"}
  OBVIOUS
<1>3. /\ Grown /\ Len(log) \in Nat /\ Len(log') = Len(log) + 1
      /\ log'[Len(log) + 1] = [by |-> r, row |-> row, columns |-> columns, seen |-> task[r].seen]
  BY <1>1, GrownAppended
<1>4. ASSUME NEW i \in 1..Len(log'), i > Len(log) PROVE Registered(i)'
  <2>1. i = Len(log) + 1
    BY <1>3, <1>4
  <2>2. log'[i].by = r /\ log'[i].columns = columns /\ Op(r)' = Op(r)
    BY <1>3, <2>1 DEF Op
  <2>3. PICK q : q = r /\ q = log'[i].by
    BY <2>2
  <2>4. ~(Op(q)' = "register" /\ "password" \in DOMAIN log'[i].columns)
    BY <2>2, <2>3
  <2> QED  BY <2>3, <2>4 DEF Registered
<1> QED  BY <1>1, <1>2, <1>3, <1>4, ReferralsQuiet

\* The requests that make no referral.
LEMMA OthersReferrals ==
    ASSUME Inv0, ReferralsInv, NEW r \in Requests,
           \/ Load(r) \/ Login(r) \/ FindByEmail(r) \/ FindReward(r) \/ FindGrant(r)
           \/ Reread(r) \/ AddJob(r) \/ SendMail(r) \/ FindName(r) \/ FindReferrer(r)
           \/ WriteReward(r) \/ FailRequest(r)
    PROVE  ReferralsInv'
<1>1. UNCHANGED <<cast, users, log, refer, referrals, restarts>>
  BY DEF Load, Login, FindByEmail, FindReward, FindGrant, Reread, AddJob, SendMail, FindName, FindReferrer,
         WriteReward, FailRequest, account, referral
<1>2. task[r].pc \notin Over \ {"idle"}
  BY DEF Load, Login, FindByEmail, FindReward, FindGrant, Reread, AddJob, SendMail, FindName, FindReferrer,
         WriteReward, FailRequest, At, Over
<1>3. PICK t : task' = [task EXCEPT ![r] = t]
  <2>1. ASSUME NEW label, Goto(r, label) PROVE \E t : task' = [task EXCEPT ![r] = t]
    BY <2>1 DEF Goto
  <2>2. ASSUME NEW label, NEW e, NEW code, Hold(r, label, e, code) PROVE \E t : task' = [task EXCEPT ![r] = t]
    BY <2>2 DEF Hold
  <2>3. ASSUME NEW label, NEW row, NEW perms, HoldGrant(r, label, row, perms)
        PROVE  \E t : task' = [task EXCEPT ![r] = t]
    BY <2>3 DEF HoldGrant
  <2>4. CASE Load(r) \/ Login(r) \/ FindByEmail(r)
    BY <2>1, <2>2, <2>4 DEF Load, Login, FindByEmail, Refuse
  <2>5. CASE FindReward(r) \/ Reread(r)
    BY <2>1, <2>5 DEF FindReward, Reread
  <2>6. CASE FindGrant(r)
    BY <2>1, <2>3, <2>6 DEF FindGrant
  <2>7. CASE AddJob(r) \/ SendMail(r) \/ FindName(r) \/ FindReferrer(r) \/ WriteReward(r) \/ FailRequest(r)
    BY <2>1, <2>7 DEF AddJob, SendMail, FindName, FindReferrer, WriteReward, FailRequest
  <2> QED  BY <2>4, <2>5, <2>6, <2>7
<1>4. \A s \in Requests \ {r} : task'[s] = task[s]
  BY <1>3 DEF Inv0, TypeOK
<1> QED  BY <1>1, <1>2, <1>4, ReferApart

\* A save or an update of a row that is there.
LEMMA WritesReferrals ==
    ASSUME Inv0, ReferralsInv, NEW r \in Requests, Save(r) \/ Update(r) PROVE ReferralsInv'
<1>1. /\ task[r].pc \in {"save", "update"} /\ Op(r) \in WholeRows \cup Updates /\ users[Subject(r)] # Nothing
      /\ Subject(r) \in Users
  <2>1. task[r].pc \in {"save", "update"} /\ Placed(r)
    BY DEF Save, Update, At, Inv0
  <2> QED  BY <2>1, CallTyped DEF Placed, Inv0
<1>2. UNCHANGED <<cast, refer, referrals, restarts>>
  BY DEF Save, Update, referral
<1>3. PICK label : Goto(r, label)
  BY DEF Save, Update
<1>4. task[r].pc \notin Over \ {"idle"} /\ \A s \in Requests \ {r} : task'[s] = task[s]
  BY <1>1, <1>3 DEF Over, Goto, Inv0, TypeOK
<1>5. CASE UNCHANGED <<users, log>>
  BY <1>2, <1>4, <1>5, ReferApart
<1>6. ASSUME NEW cs, (cs = task[r].dirty /\ task[r].pc = "save") \/ cs = DOMAIN Assigned(r),
             users' = [users EXCEPT ![Subject(r)] = Merged(r, cs)], log' = Meant(r, Subject(r), Assigned(r))
      PROVE  ReferralsInv'
  <2>1. \A c \in cs \cap Columns : Changed(r)[c] \in Value[c]
    BY <1>1, <1>6, ChangedTyped, AssignedTyped DEF Inv0, Placed
  <2>2. Merged(r, cs) \in User
    BY <1>1, <2>1, ChangedTyped DEF Inv0
  <2>3. Merged(r, cs) # Nothing
    BY <2>2, AccountsAssumption
  <2>4. \A u \in Users : users[u] # Nothing => users'[u] # Nothing
    BY <1>6, <2>3 DEF Inv0, TypeOK
  <2>5. Op(r) = "register" => "password" \notin DOMAIN Assigned(r)
    <3>1. Op(r) = "register" => Assigned(r) = [otp |-> task[r].code, otpVerified |-> FALSE]
      BY DEF Assigned, Mailed
    <3> QED  BY <3>1
  <2> QED  BY <1>1, <1>2, <1>4, <1>6, <2>4, <2>5, ReferLogged
<1> QED  BY <1>5, <1>6 DEF Save, Update, At

\* A save of privileges.
LEMMA GrantReferrals ==
    ASSUME Inv0, ReferralsInv, NEW r \in Requests, RereadGrant(r) \/ SaveGrant(r) PROVE ReferralsInv'
<1>1. /\ task[r].pc \in {"regrant", "grant"} /\ Op(r) # "register" /\ task[r].row \in Requests
  <2>1. task[r].pc \in {"regrant", "grant"} /\ Placed(r)
    BY DEF RereadGrant, SaveGrant, At, Inv0
  <2> QED  BY <2>1 DEF Placed, Grants
<1>2. UNCHANGED <<cast, users, refer, referrals, restarts>>
  BY DEF RereadGrant, SaveGrant, account, referral
<1>3. PICK label : Goto(r, label)
  BY DEF RereadGrant, SaveGrant
<1>4. task[r].pc \notin Over \ {"idle"} /\ \A s \in Requests \ {r} : task'[s] = task[s]
  BY <1>1, <1>3 DEF Over, Goto, Inv0, TypeOK
<1>5. CASE UNCHANGED log
  BY <1>2, <1>4, <1>5, ReferApart
<1>6. CASE log' = Meant(r, task[r].row, Wished(r))
  BY <1>1, <1>2, <1>4, <1>6, ReferLogged
<1> QED  BY <1>5, <1>6 DEF RereadGrant, SaveGrant

\* The second code is asked for, or the process ends.
LEMMA ResendReferrals ==
    ASSUME Inv0, ReferralsInv, NEW r \in Requests, ResendOtp(r) PROVE ReferralsInv'
<1>1. UNCHANGED <<cast, users, log, referrals>> /\ task[r].pc = "resend"
  BY DEF ResendOtp, At
<1>2. CASE ProcessEnds
  BY <1>1, <1>2, EndReferrals
<1>3. CASE Hold(r, "reread", Entity(r, users[Subject(r)]), 0) /\ UNCHANGED <<refer, restarts>>
  <2>1. \A s \in Requests \ {r} : task'[s] = task[s]
    BY <1>3 DEF Hold, Inv0, TypeOK
  <2> QED  BY <1>1, <1>3, <2>1, ReferApart DEF Over
<1> QED  BY <1>2, <1>3 DEF ResendOtp

\* A registration starts its referral; its row, if it is inserted, is logged.
LEMMA InsertReferrals ==
    ASSUME Inv0, ReferralsInv, NEW r \in Requests, Insert(r) PROVE ReferralsInv'
<1>1. /\ task[r].pc = "insert" /\ Op(r) # "none" /\ Subject(r) \in Users /\ task[r].seen <= Len(log)
      /\ cast.calls[r].by \in Users \cup {Nothing} /\ Op(r)' = Op(r) /\ Subject(r)' = Subject(r)
  <2>1. task[r].pc = "insert" /\ Placed(r)
    BY DEF Insert, At, Inv0
  <2>2. Op(r) # "none" /\ task[r].seen <= Len(log)
    BY <2>1 DEF Placed
  <2> QED  BY <2>1, <2>2, CallTyped DEF Inv0, Insert, Op, Subject
<1>2. UNCHANGED <<cast, referrals, restarts>>
  BY DEF Insert
<1>3. PICK label : label \in {"refused", "empty", "done"} /\ Goto(r, label)
  BY DEF Insert
<1>4. /\ \A s \in Requests \ {r} : task'[s] = task[s]
      /\ task'[r].pc \in Over \ {"idle"} /\ task[r].pc \notin Over \ {"idle"}
  BY <1>1, <1>3 DEF Over, Goto, Inv0, TypeOK, Work
<1>5. NewUser(r) # Nothing
  <2>1. NewUser(r) \in User
    BY <1>1, NewUserTyped DEF Inv0, Insert, At, Placed
  <2> QED  BY <2>1, AccountsAssumption
<1>6. \A u \in Users : users[u] # Nothing => users'[u] # Nothing
  BY <1>5 DEF Insert, Inv0, TypeOK
<1>7. refer[r].pc = "none" /\ refer[r].user = Nothing
  BY <1>4 DEF ReferralsInv, ReferOld
<1>8. /\ Grown /\ Len(log) \in Nat /\ DOMAIN log = 1..Len(log) /\ DOMAIN log' = 1..Len(log')
      /\ \/ log' = log /\ Collides(r)
         \/ /\ Len(log') = Len(log) + 1 /\ ~Collides(r)
            /\ log'[Len(log) + 1] = [by |-> r, row |-> Subject(r), columns |-> NewUser(r), seen |-> task[r].seen]
            /\ users'[Subject(r)] = NewUser(r)
  <2>1. CASE Collides(r)
    BY <1>2, <2>1 DEF Insert, Grown, Inv0, TypeOK
  <2>2. CASE ~Collides(r)
    <3>1. log' = Meant(r, Subject(r), NewUser(r)) /\ users'[Subject(r)] = NewUser(r)
      BY <1>1, <2>2 DEF Insert, Inv0, TypeOK
    <3>2. /\ Grown /\ Len(log) \in Nat /\ Len(log') = Len(log) + 1
          /\ log'[Len(log) + 1] = [by |-> r, row |-> Subject(r), columns |-> NewUser(r), seen |-> task[r].seen]
          /\ DOMAIN log = 1..Len(log) /\ DOMAIN log' = 1 .. Len(log) + 1
      BY <1>1, <1>2, <3>1, GrownAppended, LogAppended DEF Inv0
    <3> QED  BY <2>2, <3>1, <3>2
  <2> QED  BY <2>1, <2>2
<1> DEFINE starts == Op(r) = "register" /\ cast.calls[r].by # Nothing
           user == IF Collides(r) THEN Nothing ELSE Subject(r)
<1>9. PICK x : x = [NoReferral EXCEPT !.pc = "settings", !.by = cast.calls[r].by, !.user = user]
  OBVIOUS
<1>10. x.pc = "settings" /\ x.by = cast.calls[r].by /\ x.user = user /\ x.knew = 0
  BY <1>9 DEF NoReferral
<1>11. /\ refer' = IF starts THEN [refer EXCEPT ![r] = x] ELSE refer
       /\ \A s \in Requests \ {r} : refer'[s] = refer[s]
       /\ refer'[r] = IF starts THEN x ELSE refer[r]
  BY <1>9 DEF Insert, Inv0, TypeOK
<1> HIDE DEF starts, user
<1>12. ReferGrown
  BY <1>2, <1>7, <1>11 DEF ReferGrown, Inv0, TypeOK
<1>13. restarts' \in Nat /\ restarts' >= restarts
  BY <1>2 DEF Inv0, TypeOK
<1>14. ASSUME NEW s \in Requests, refer'[s] = refer[s] PROVE ReferOld(s)'
  <2>1. task[s].pc \in Over \ {"idle"} => task'[s].pc \in Over \ {"idle"}
    BY <1>4
  <2>2. ReferOld(s)
    BY DEF ReferralsInv
  <2> QED  BY <1>6, <1>8, <1>12, <1>13, <1>14, <2>1, <2>2, ReferOldKept
<1>15. ReferOld(r)'
  <2>1. CASE starts
    <3>1. refer'[r] = x
      BY <1>11, <2>1
    <3>2. Op(r)' = "register" /\ x.by = cast'.calls[r].by /\ x.by \in Users /\ task'[r].pc \in Over \ {"idle"}
      BY <1>1, <1>2, <1>4, <1>10, <2>1 DEF starts
    <3>3. x.user # Nothing => /\ x.user = Subject(r)' /\ users'[x.user] # Nothing
                              /\ \E i \in DOMAIN log' : log'[i].row = x.user /\ log'[i].by = r
      <4>1. SUFFICES ASSUME x.user # Nothing
                     PROVE  /\ x.user = Subject(r)' /\ users'[x.user] # Nothing
                            /\ \E i \in DOMAIN log' : log'[i].row = x.user /\ log'[i].by = r
        OBVIOUS
      <4>2. ~Collides(r) /\ x.user = Subject(r)
        BY <1>10, <4>1 DEF user
      <4>3. PICK n \in Nat : n = Len(log)
        BY <1>8
      <4>4. /\ Len(log') = n + 1 /\ DOMAIN log' = 1..Len(log')
            /\ log'[n + 1] = [by |-> r, row |-> Subject(r), columns |-> NewUser(r), seen |-> task[r].seen]
        BY <1>8, <4>2, <4>3
      <4>5. n + 1 \in DOMAIN log' /\ log'[n + 1].row = Subject(r) /\ log'[n + 1].by = r
        BY <4>4
      <4> QED  BY <1>1, <1>5, <1>8, <4>2, <4>5
    <3> QED  BY <1>10, <3>1, <3>2, <3>3 DEF ReferOld
  <2>2. CASE ~starts
    BY <1>11, <1>14, <2>2
  <2> QED  BY <2>1, <2>2
<1>16. ASSUME NEW s \in Requests \ {r}, refer'[s].user = refer'[r].user, refer'[r].user # Nothing PROVE FALSE
  <2>1. CASE starts
    <3>1. refer'[r].user = Subject(r) /\ users[Subject(r)] = Nothing
      BY <1>10, <1>11, <1>16, <2>1 DEF user, Collides
    <3>2. refer[s].user = Subject(r)
      BY <1>11, <1>16, <3>1
    <3>3. users[Subject(r)] # Nothing
      BY <1>16, <3>1, <3>2 DEF ReferralsInv, ReferOld
    <3> QED  BY <3>1, <3>3
  <2>2. CASE ~starts
    BY <1>7, <1>11, <1>16, <2>2
  <2> QED  BY <2>1, <2>2
<1>17. \A q, s \in Requests : refer'[q].user = refer'[s].user /\ refer'[q].user # Nothing => q = s
  <2>1. SUFFICES ASSUME NEW q \in Requests, NEW s \in Requests, refer'[q].user = refer'[s].user,
                        refer'[q].user # Nothing
                 PROVE  q = s
    OBVIOUS
  <2>2. CASE q = r \/ s = r
    BY <1>16, <2>1, <2>2
  <2>3. CASE q # r /\ s # r
    BY <1>11, <2>1, <2>3 DEF ReferralsInv
  <2> QED  BY <2>2, <2>3
<1>18. ASSUME NEW i \in DOMAIN log' PROVE Registered(i)'
  <2>1. CASE i \in 1..Len(log)
    BY <1>8, <1>12, <2>1, RegisteredKept DEF ReferralsInv
  <2>2. CASE i \notin 1..Len(log)
    <3>1. i = Len(log) + 1 /\ ~Collides(r) /\ log'[i].by = r
      <4>1. PICK n \in Nat : n = Len(log)
        BY <1>8
      <4>2. i \in 1..Len(log') /\ i \notin 1..n
        BY <1>8, <1>18, <2>2, <4>1
      <4>3. Len(log') # n
        BY <4>2
      <4>4. /\ Len(log') = n + 1 /\ ~Collides(r)
            /\ log'[n + 1] = [by |-> r, row |-> Subject(r), columns |-> NewUser(r), seen |-> task[r].seen]
        BY <1>8, <4>1, <4>3
      <4>5. i = n + 1
        BY <4>2, <4>4
      <4> QED  BY <4>1, <4>4, <4>5
    <3>2. PICK q \in Requests : q = log'[i].by /\ q = r
      BY <3>1
    <3>3. Op(q)' = "register" /\ cast'.calls[q].by # Nothing => starts
      BY <1>1, <1>2, <3>2 DEF starts
    <3>4. starts => /\ refer'[q].pc # "none" /\ refer'[q].user = Subject(q)' /\ refer'[q].by = cast'.calls[q].by
      BY <1>1, <1>2, <1>10, <1>11, <3>1, <3>2 DEF user
    <3> QED  BY <3>2, <3>3, <3>4 DEF Registered
  <2> QED  BY <2>1, <2>2
<1>19. \A j \in DOMAIN referrals' : Saved(j)'
  BY <1>2, <1>12, SavedKept DEF ReferralsInv, ReferGrown, Inv0, TypeOK
<1>20. \A s \in Requests : ReferOld(s)'
  BY <1>11, <1>14, <1>15
<1> QED  BY <1>2, <1>17, <1>18, <1>19, <1>20 DEF ReferralsInv

\* A referral under way that has read the settings, or counted.
LEMMA AskedReferrals ==
    ASSUME Inv0, ReferralsInv, NEW r \in Requests, ReadSettings(r) \/ CountReferrals(r) PROVE ReferralsInv'
<1>1. /\ UNCHANGED <<cast, users, task, log, referrals, restarts>> /\ refer[r].pc \in {"settings", "count"}
      /\ \A s \in Requests : refer[s] \in Referring
  BY DEF ReadSettings, CountReferrals, account, Inv0, TypeOK
<1>2. PICK x, y : x = refer[r] /\ y = refer'[r]
  OBVIOUS
<1>3. \A s \in Requests \ {r} : refer'[s] = refer[s]
  BY DEF ReadSettings, CountReferrals, Inv0, TypeOK
<1>4. /\ y.user = x.user /\ y.by = x.by /\ y.pc \in {"count", "save"} /\ x.pc \in {"settings", "count"}
      /\ y.pc = "save" => y.knew = Len(referrals) /\ y.count = Earlier(x.by, Len(referrals))
  <2>1. CASE ReadSettings(r)
    <3>1. refer' = [refer EXCEPT ![r] = [refer[r] EXCEPT !.pc = "count",
                                         !.tiers = {rewards[q] : q \in Requests} \ {Nothing}]]
      BY <2>1 DEF ReadSettings, Inv0, TypeOK
    <3>2. y = [x EXCEPT !.pc = "count", !.tiers = {rewards[q] : q \in Requests} \ {Nothing}]
      BY <1>2, <3>1 DEF Inv0, TypeOK
    <3> QED  BY <1>1, <1>2, <3>2 DEF Referring
  <2>2. CASE CountReferrals(r)
    <3>1. refer' = [refer EXCEPT ![r] = [refer[r] EXCEPT !.pc = "save",
                       !.count = Earlier(refer[r].by, Len(referrals)), !.knew = Len(referrals)]]
      BY <2>2 DEF CountReferrals, Inv0, TypeOK
    <3>2. y = [x EXCEPT !.pc = "save", !.count = Earlier(x.by, Len(referrals)), !.knew = Len(referrals)]
      BY <1>2, <3>1 DEF Inv0, TypeOK
    <3> QED  BY <1>1, <1>2, <3>2 DEF Referring
  <2> QED  BY <2>1, <2>2
<1>5. Grown /\ ReferGrown /\ restarts' \in Nat /\ restarts' >= restarts
  <2>1. restarts' \in Nat /\ restarts' >= restarts /\ Len(log) \in Nat /\ Len(referrals) \in Nat
    BY <1>1 DEF Inv0, TypeOK
  <2>2. Grown
    BY <1>1, <2>1 DEF Grown
  <2>3. \A s \in Requests : refer[s].pc # "none" =>
          /\ refer'[s].pc # "none" /\ refer'[s].user = refer[s].user /\ refer'[s].by = refer[s].by
          /\ refer[s].pc = "done" => refer'[s].pc = "done"
    BY <1>2, <1>3, <1>4
  <2>4. ReferGrown
    BY <1>1, <2>1, <2>3 DEF ReferGrown
  <2> QED  BY <2>1, <2>2, <2>4
<1>6. ASSUME NEW s \in Requests \ {r} PROVE ReferOld(s)'
  BY <1>1, <1>3, <1>5, ReferOldKept DEF ReferralsInv
<1>7. ReferOld(r)'
  <2>1. Op(r)' = Op(r) /\ Subject(r)' = Subject(r)
    BY <1>1 DEF Op, Subject
  <2>2. ReferOld(r)
    BY DEF ReferralsInv
  <2>3. PICK by, n : by = x.by /\ n = Len(referrals)
    OBVIOUS
  <2>4. n \in 0..Len(referrals)
    BY <2>3 DEF Inv0, TypeOK
  <2>5. Earlier(by, n)' = Earlier(by, n)
    BY <1>5, <2>4, EarlierKept
  <2>6. y.pc = "save" => y.knew <= Len(referrals') /\ y.count = Earlier(y.by, y.knew)'
    <3>1. SUFFICES ASSUME y.pc = "save" PROVE y.knew <= Len(referrals') /\ y.count = Earlier(y.by, y.knew)'
      OBVIOUS
    <3>2. y.by = by /\ y.knew = n /\ y.count = Earlier(by, n)
      BY <1>4, <2>3, <3>1
    <3> QED  BY <1>1, <2>3, <2>4, <2>5, <3>2
  <2>7. y.pc # "done" /\ y.pc # "lost" /\ y.pc # "none" /\ x.pc # "none"
    BY <1>4
  <2> QED  BY <1>1, <1>2, <1>4, <2>1, <2>2, <2>6, <2>7 DEF ReferOld
<1>8. \A q, s \in Requests : refer'[q].user = refer'[s].user /\ refer'[q].user # Nothing => q = s
  <2>1. \A s \in Requests : refer'[s].user = refer[s].user
    BY <1>2, <1>3, <1>4
  <2> QED  BY <2>1 DEF ReferralsInv
<1>9. \A i \in DOMAIN log' : Registered(i)'
  BY <1>1, <1>5, RegisteredKept DEF ReferralsInv, Inv0, TypeOK
<1>10. \A j \in DOMAIN referrals' : Saved(j)'
  BY <1>1, <1>5, SavedKept DEF ReferralsInv, Inv0, TypeOK
<1> QED  BY <1>1, <1>6, <1>7, <1>8, <1>9, <1>10 DEF ReferralsInv

\* A referral is saved as the last row, or takes the process with it.
LEMMA SaveReferrals ==
    ASSUME Inv0, ReferralsInv, NEW r \in Requests, SaveReferral(r) PROVE ReferralsInv'
<1>1. CASE ProcessEnds /\ UNCHANGED referrals
  BY <1>1, EndReferrals DEF SaveReferral, account
<1>2. CASE /\ refer[r].user # Nothing
           /\ \E amount \in Amounts(refer[r].tiers, refer[r].count) :
                 referrals' = Append(referrals, [request |-> r, user |-> refer[r].user, by |-> refer[r].by,
                                 amount |-> amount, tiers |-> refer[r].tiers, knew |-> refer[r].knew])
           /\ refer' = [refer EXCEPT ![r].pc = "done"]
           /\ UNCHANGED <<task, restarts>>
  <2>1. PICK amount \in Amounts(refer[r].tiers, refer[r].count) :
                 referrals' = Append(referrals, [request |-> r, user |-> refer[r].user, by |-> refer[r].by,
                                 amount |-> amount, tiers |-> refer[r].tiers, knew |-> refer[r].knew])
    BY <1>2
  <2>2. PICK x, row : /\ x = refer[r]
                      /\ row = [request |-> r, user |-> refer[r].user, by |-> refer[r].by, amount |-> amount,
                                tiers |-> refer[r].tiers, knew |-> refer[r].knew]
    OBVIOUS
  <2>3. x \in Referring /\ x.pc = "save" /\ amount \in Amounts(x.tiers, x.count)
    BY <2>1, <2>2 DEF Inv0, TypeOK, SaveReferral
  <2>4. /\ row.request = r /\ row.user = x.user /\ row.by = x.by /\ row.amount = amount
        /\ row.tiers = x.tiers /\ row.knew = x.knew
    BY <2>2
  <2>5. PICK m : m = Len(referrals)
    OBVIOUS
  <2>6. /\ m \in Nat /\ Len(referrals') = m + 1 /\ DOMAIN referrals = 1..m /\ DOMAIN referrals' = 1 .. m + 1
        /\ referrals'[m + 1] = row /\ \A j \in 1..m : referrals'[j] = referrals[j]
    <3>1. referrals' = Append(referrals, row) /\ referrals \in Seq(Referral)
      BY <2>1, <2>2 DEF Inv0, TypeOK
    <3>2. row \in Referral
      <4>1. amount \in Nat
        BY <2>3, AmountsTyped DEF Referring
      <4>2. x.by \in Users
        BY <2>2, <2>3 DEF ReferralsInv, ReferOld
      <4> QED  BY <1>2, <2>2, <2>3, <4>1, <4>2 DEF Referring, Referral
    <3> QED  BY <2>5, <3>1, <3>2
  <2>7. /\ UNCHANGED <<cast, users, task, log, restarts>>
        /\ refer'[r] = [x EXCEPT !.pc = "done"] /\ \A s \in Requests \ {r} : refer'[s] = refer[s]
    BY <1>2, <2>2 DEF SaveReferral, account, Inv0, TypeOK
  <2>8. refer'[r].pc = "done" /\ refer'[r].user = x.user /\ refer'[r].by = x.by
    BY <2>3, <2>7 DEF Referring
  <2>9. Grown /\ ReferGrown /\ restarts' \in Nat /\ restarts' >= restarts
    <3>1. restarts' \in Nat /\ restarts' >= restarts /\ Len(log) \in Nat
      BY <2>7 DEF Inv0, TypeOK
    <3>2. Grown
      BY <2>7, <3>1 DEF Grown
    <3>3. \A s \in Requests : refer[s].pc # "none" =>
            /\ refer'[s].pc # "none" /\ refer'[s].user = refer[s].user /\ refer'[s].by = refer[s].by
            /\ refer[s].pc = "done" => refer'[s].pc = "done"
      BY <2>2, <2>7, <2>8
    <3>4. ReferGrown
      BY <2>5, <2>6, <3>3 DEF ReferGrown
    <3> QED  BY <3>1, <3>2, <3>4
  <2>10. ASSUME NEW s \in Requests \ {r} PROVE ReferOld(s)'
    BY <2>7, <2>9, ReferOldKept DEF ReferralsInv
  <2>11. ReferOld(r)'
    <3>1. ReferOld(r) /\ Op(r)' = Op(r) /\ Subject(r)' = Subject(r)
      BY <2>7 DEF ReferralsInv, Op, Subject
    <3>2. \E j \in DOMAIN referrals' : referrals'[j].request = r
      BY <2>4, <2>6
    <3>3. x.pc # "none" /\ x.user # Nothing
      BY <1>2, <2>2, <2>3
    <3> QED  BY <2>2, <2>7, <2>8, <3>1, <3>2, <3>3 DEF ReferOld
  <2>12. \A q, s \in Requests : refer'[q].user = refer'[s].user /\ refer'[q].user # Nothing => q = s
    <3>1. \A s \in Requests : refer'[s].user = refer[s].user
      BY <2>2, <2>7, <2>8
    <3> QED  BY <3>1 DEF ReferralsInv
  <2>13. \A i \in DOMAIN log' : Registered(i)'
    <3>1. DOMAIN log = 1..Len(log) /\ log' = log
      BY <2>7 DEF Inv0, TypeOK
    <3> QED  BY <2>9, <3>1, RegisteredKept DEF ReferralsInv
  <2>14. ASSUME NEW j \in DOMAIN referrals' PROVE Saved(j)'
    <3>1. CASE j \in 1..m
      BY <2>5, <2>6, <2>9, <3>1, SavedKept DEF ReferralsInv
    <3>2. CASE j = m + 1
      <4>1. referrals'[j] = row /\ x.knew < j /\ x.knew \in 0..m /\ x.count = Earlier(x.by, x.knew)
        BY <2>2, <2>3, <2>5, <2>6, <3>2 DEF ReferralsInv, ReferOld, Referring
      <4>2. PICK by, n : by = x.by /\ n = x.knew
        OBVIOUS
      <4>3. PICK e : e = Earlier(by, n) /\ e = Earlier(by, n)'
        BY <2>5, <2>9, <4>1, <4>2, EarlierKept
      <4>4. amount \in Amounts(x.tiers, e)
        BY <2>3, <4>1, <4>2, <4>3
      <4>5. PICK z : z = referrals'[j] /\ z = row
        BY <4>1
      <4> QED  BY <2>4, <2>8, <4>1, <4>2, <4>3, <4>4, <4>5 DEF Saved
    <3> QED  BY <2>6, <3>1, <3>2
  <2>15. ASSUME NEW i \in 1..m PROVE referrals[i].request # r
    BY <2>2, <2>3, <2>6, <2>15 DEF ReferralsInv, Saved
  <2>16. \A i, j \in DOMAIN referrals' : referrals'[i].request = referrals'[j].request => i = j
    <3>1. \A i, j \in 1..m : referrals'[i].request = referrals'[j].request => i = j
      BY <2>6 DEF ReferralsInv
    <3>2. \A i \in 1..m : referrals'[i].request # r
      BY <2>6, <2>15
    <3>3. referrals'[m + 1].request = r
      BY <2>4, <2>6
    <3> QED  BY <2>6, <3>1, <3>2, <3>3
  <2> QED  BY <2>7, <2>10, <2>11, <2>12, <2>13, <2>14, <2>16 DEF ReferralsInv
<1> QED  BY <1>1, <1>2 DEF SaveReferral

\* There is no referral yet.
LEMMA InitReferrals == Init => ReferralsInv
<1> SUFFICES ASSUME Init PROVE ReferralsInv
  OBVIOUS
<1>1. DOMAIN log = {} /\ DOMAIN referrals = {} /\ \A r \in Requests : refer[r] = NoReferral
  BY DEF Init
<1>2. NoReferral.pc = "none" /\ NoReferral.user = Nothing
  BY DEF NoReferral
<1> QED  BY <1>1, <1>2 DEF ReferralsInv, ReferOld
-----------------------------------------------------------------------------
(* The referrals match the registrations *)

\* Whose registration and whose row it is tells one row of referrals.
LEMMA OneReferral ==
    ASSUME Inv0, ReferralsInv, NEW i \in DOMAIN log, NEW r \in Requests, r = log[i].by, Op(r) = "register",
           "password" \in DOMAIN log[i].columns, cast.calls[r].by # Nothing
    PROVE  \/ refer[r].pc \in {"settings", "count", "save"}
           \/ refer[r].pc = "lost" /\ restarts > 0
           \/ Cardinality({j \in DOMAIN referrals :
                  referrals[j].user = Subject(r) /\ referrals[j].by = cast.calls[r].by}) = 1
<1>1. refer[r].pc # "none" /\ refer[r].user = Subject(r) /\ refer[r].by = cast.calls[r].by
  BY DEF ReferralsInv, Registered
<1>2. ReferOld(r) /\ refer[r] \in Referring /\ Subject(r) \in Users /\ Subject(r) # Nothing
  BY CallTyped, AccountsAssumption DEF ReferralsInv, Inv0, TypeOK
<1>3. CASE refer[r].pc = "done"
  <2>1. PICK j \in DOMAIN referrals : referrals[j].request = r
    BY <1>2, <1>3 DEF ReferOld
  <2>2. referrals[j].user = Subject(r) /\ referrals[j].by = cast.calls[r].by
    BY <1>1, <2>1 DEF ReferralsInv, Saved
  <2>3. ASSUME NEW k \in DOMAIN referrals, referrals[k].user = Subject(r) PROVE k = j
    <3>1. PICK q \in Requests : q = referrals[k].request
      <4>1. referrals[k] \in Referral
        BY DEF Inv0, TypeOK
      <4> QED  BY <4>1 DEF Referral
    <3>2. refer[q].user = refer[r].user
      BY <1>1, <2>3, <3>1 DEF ReferralsInv, Saved
    <3>3. q = r
      BY <1>1, <1>2, <3>2 DEF ReferralsInv
    <3> QED  BY <2>1, <3>1, <3>3 DEF ReferralsInv
  <2>4. {k \in DOMAIN referrals : referrals[k].user = Subject(r) /\ referrals[k].by = cast.calls[r].by} = {j}
    BY <2>2, <2>3
  <2> QED  BY <2>4, FS_Singleton
<1>4. CASE refer[r].pc # "done"
  BY <1>1, <1>2, <1>4 DEF ReferOld, Referring
<1> QED  BY <1>3, <1>4

\* A row of referrals is worth what it was worth when it was counted.
LEMMA WorthIt ==
    ASSUME Inv0, ReferralsInv, NEW j \in DOMAIN referrals
    PROVE  LET x == referrals[j]
           IN  /\ \E i \in DOMAIN log : log[i].row = x.user /\ log[i].by = x.request
               /\ \/ x.amount \in Amounts(x.tiers, Earlier(x.by, j - 1))
                  \/ \E i \in x.knew + 1 .. j - 1 : referrals[i].by = x.by
<1>1. PICK x : x = referrals[j]
  OBVIOUS
<1>2. x \in Referral /\ j \in Nat \ {0}
  BY <1>1 DEF Inv0, TypeOK
<1>3. /\ refer[x.request].pc = "done" /\ refer[x.request].user = x.user
      /\ x.knew < j /\ x.amount \in Amounts(x.tiers, Earlier(x.by, x.knew))
  BY <1>1 DEF ReferralsInv, Saved
<1>4. \E i \in DOMAIN log : log[i].row = x.user /\ log[i].by = x.request
  <2>1. ReferOld(x.request)
    BY <1>2 DEF ReferralsInv, Referral
  <2> QED  BY <1>3, <2>1 DEF ReferOld
<1>5. ASSUME \A i \in x.knew + 1 .. j - 1 : referrals[i].by # x.by
      PROVE  Earlier(x.by, j - 1) = Earlier(x.by, x.knew)
  <2>1. x.knew \in Nat /\ x.knew <= j - 1
    BY <1>2, <1>3 DEF Referral
  <2>2. {i \in 1 .. j - 1 : referrals[i].by = x.by} = {i \in 1..x.knew : referrals[i].by = x.by}
    BY <1>2, <1>5, <2>1
  <2> QED  BY <2>2 DEF Earlier
<1> QED  BY <1>1, <1>3, <1>4, <1>5

\* The two parts together.
LEMMA ReferralsMatch == ASSUME Inv0, ReferralsInv PROVE ReferralsMatchRegistrations
<1>1. \A i \in DOMAIN log : log[i].by \in Requests
  BY DEF Inv0, TypeOK
<1> QED  BY <1>1, OneReferral, WorthIt DEF ReferralsMatchRegistrations
-----------------------------------------------------------------------------
(* The inductive invariant *)

Inv == Inv0 /\ ColumnsInv /\ GrantsInv /\ ReferralsInv

\* The invariant holds at the start.
LEMMA InitInv == Init => Inv
  BY InitInv0, InitColumns, InitGrants, InitReferrals DEF Inv

\* Every step keeps the invariant.
LEMMA NextInv == ASSUME Inv, [Next]_avars PROVE Inv'
<1> USE DEF Inv
<1>1. LatestKept
  BY DEF ColumnsInv
<1>2. ASSUME NEW r \in Requests, Load(r) PROVE Inv'
  BY <1>2, LoadInv0, LoadColumns, OthersGrants, OthersReferrals
<1>3. ASSUME NEW r \in Requests, Login(r) PROVE Inv'
  BY <1>3, LoginInv0, OthersColumns, OthersGrants, OthersReferrals
<1>4. ASSUME NEW r \in Requests, FindByEmail(r) PROVE Inv'
  BY <1>4, FindByEmailInv0, OthersColumns, OthersGrants, OthersReferrals
<1>5. ASSUME NEW r \in Requests, FindReward(r) PROVE Inv'
  BY <1>5, FindRewardInv0, OthersColumns, OthersGrants, OthersReferrals
<1>6. ASSUME NEW r \in Requests, FindGrant(r) PROVE Inv'
  BY <1>6, FindGrantInv0, OthersColumns, FindGrantGrants, OthersReferrals
<1>7. ASSUME NEW r \in Requests, Reread(r) PROVE Inv'
  BY <1>7, RereadInv0, RereadColumns, OthersGrants, OthersReferrals
<1>8. ASSUME NEW r \in Requests, Save(r) PROVE Inv'
  BY <1>8, SaveInv0, SaveColumns, UsersGrants, WritesReferrals
<1>9. ASSUME NEW r \in Requests, AddJob(r) PROVE Inv'
  BY <1>9, AddJobInv0, OthersColumns, OthersGrants, OthersReferrals
<1>10. ASSUME NEW r \in Requests, SendMail(r) PROVE Inv'
  BY <1>10, SendMailInv0, OthersColumns, OthersGrants, OthersReferrals
<1>11. ASSUME NEW r \in Requests, FindName(r) PROVE Inv'
  BY <1>11, FindNameInv0, OthersColumns, OthersGrants, OthersReferrals
<1>12. ASSUME NEW r \in Requests, Update(r) PROVE Inv'
  BY <1>12, UpdateInv0, UpdateColumns, UsersGrants, WritesReferrals
<1>13. ASSUME NEW r \in Requests, ResendOtp(r) PROVE Inv'
  BY <1>13, ResendOtpInv0, ResendOtpColumns, OthersGrants, ResendReferrals
<1>14. ASSUME NEW r \in Requests, FindReferrer(r) PROVE Inv'
  BY <1>14, FindReferrerInv0, OthersColumns, OthersGrants, OthersReferrals
<1>15. ASSUME NEW r \in Requests, Insert(r) PROVE Inv'
  BY <1>15, InsertInv0, InsertColumns, UsersGrants, InsertReferrals
<1>16. ASSUME NEW r \in Requests, WriteReward(r) PROVE Inv'
  BY <1>16, WriteRewardInv0, OthersColumns, OthersGrants, OthersReferrals
<1>17. ASSUME NEW r \in Requests, RereadGrant(r) PROVE Inv'
  BY <1>1, <1>17, RereadGrantInv0, RereadGrantColumns, RereadGrantGrants, GrantReferrals
<1>18. ASSUME NEW r \in Requests, SaveGrant(r) PROVE Inv'
  BY <1>1, <1>18, SaveGrantInv0, SaveGrantColumns, SaveGrantGrants, GrantReferrals
<1>19. ASSUME NEW r \in Requests, ReadSettings(r) \/ CountReferrals(r) PROVE Inv'
  <2>1. UNCHANGED <<cast, account, task, log, grants>>
    BY <1>19 DEF ReadSettings, CountReferrals
  <2> QED  BY <1>19, <2>1, ReadSettingsInv0, CountReferralsInv0, ReferColumns, ReferGrants, AskedReferrals
<1>20. ASSUME NEW r \in Requests, SaveReferral(r) PROVE Inv'
  <2>1. UNCHANGED <<cast, account, log, grants>> /\ (UNCHANGED task \/ ProcessEnds) /\ ReferOld(r)
    BY <1>20 DEF SaveReferral, ReferralsInv
  <2> QED  BY <1>20, <2>1, SaveReferralInv0, ReferColumns, ReferGrants, SaveReferrals
<1>21. ASSUME NEW r \in Requests, FailRequest(r) PROVE Inv'
  BY <1>21, FailRequestInv0, OthersColumns, OthersGrants, OthersReferrals
<1>22. CASE Restart
  <2>1. UNCHANGED <<cast, account, users, log, referrals, rewards, grants>> /\ ProcessEnds
    BY <1>22 DEF Restart, account
  <2> QED  BY <2>1, EndInv0, ReferColumns, ReferGrants, EndReferrals
<1>23. CASE UNCHANGED avars
  <2>1. UNCHANGED <<cast, users, codes, mails, jobs, task, log, refer, referrals, rewards, grants, restarts>>
    BY <1>23 DEF avars, account, referral
  <2>2. Inv0'
    <3>1. TypeOK'
      BY <2>1 DEF Inv0, TypeOK
    <3>2. ASSUME NEW r \in Requests PROVE Placed(r)'
      BY <2>1, PlacedKept DEF Inv0, TypeOK
    <3> QED  BY <3>1, <3>2 DEF Inv0
  <2>3. ColumnsInv' /\ GrantsInv'
    BY <2>1, ReferColumns, ReferGrants DEF account
  <2>4. ReferralsInv'
    BY <2>1, ReferralsQuiet DEF Grown, Inv0, TypeOK
  <2> QED  BY <2>2, <2>3, <2>4
<1>24. ASSUME NEW r \in Requests, Arrive(r) \/ GoOn(r) \/ Refer(r) \/ FailRequest(r) PROVE Inv'
  BY <1>2, <1>3, <1>4, <1>5, <1>6, <1>7, <1>8, <1>9, <1>10, <1>11, <1>12, <1>13, <1>14, <1>15, <1>16, <1>17,
     <1>18, <1>19, <1>20, <1>21, <1>24 DEF Arrive, GoOn, Refer
<1> QED  BY <1>22, <1>23, <1>24 DEF Next

\* Every value is of its type: no code, entity, privilege or referral of the
\* service is ever anything but what its column holds.
THEOREM TypeCorrect == Spec => []TypeOK
<1>1. Inv => TypeOK
  BY DEF Inv, Inv0
<1> QED  BY <1>1, InitInv, NextInv, PTL DEF Spec

\* A column of a user is as it was last meant, unless a save of the whole row
\* straddled that write, for any number of requests on any rows.
THEOREM ColumnsStandAlways == Spec => []ColumnsStand
<1>1. Inv => ColumnsStand
  BY DEF Inv, ColumnsInv
<1> QED  BY <1>1, InitInv, NextInv, PTL DEF Spec

\* A permission is as it was last granted or taken, unless a save of the row
\* straddled that, and a second row of privileges takes two that saw none.
THEOREM PermissionsStandAlways == Spec => []PermissionsStand
<1>1. Inv => PermissionsStand
  BY DEF Inv, GrantsInv
<1> QED  BY <1>1, InitInv, NextInv, PTL DEF Spec

\* Every registration with a referrer has its referral, under way or lost with
\* the process, none is made of anybody else, and each is worth what the
\* earlier ones make it, unless one was saved after it was counted.
THEOREM ReferralsMatchAlways == Spec => []ReferralsMatchRegistrations
<1>1. Inv => ReferralsMatchRegistrations
  BY ReferralsMatch DEF Inv
<1> QED  BY <1>1, InitInv, NextInv, PTL DEF Spec
=============================================================================
