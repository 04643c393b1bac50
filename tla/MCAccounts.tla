----------------------------- MODULE MCAccounts -----------------------------
(***************************************************************************)
(* Instances of Accounts for TLC.                                          *)
(***************************************************************************)
EXTENDS Accounts, TLC

CONSTANTS r1, r2, r3

Do(op, user) ==
    [op |-> op, user |-> user, name |-> Nothing, by |-> Nothing, role |-> "PRO_TRADER", perms |-> {},
     reward |-> [count |-> 1, amount |-> 20]]
Rename(user, name) == [Do("updateProfile", user) EXCEPT !.name = name]
Register(user, name, by) == [Do("register", user) EXCEPT !.name = name, !.by = by]
Access(op, perms) == [Do(op, "ann") EXCEPT !.perms = perms]

Signed == [verified |-> TRUE, otp |-> 0, otpVerified |-> FALSE, hasPin |-> TRUE, tfa |-> FALSE,
           role |-> "FOLLOWER", username |-> Nothing, password |-> Old, pin |-> Old, secret |-> Old]
Fresh == [Signed EXCEPT !.verified = FALSE, !.otp = 1, !.hasPin = FALSE, !.pin = Nothing, !.secret = Nothing]

Table(f) == [u \in Users |-> IF u \in DOMAIN f THEN f[u] ELSE Nothing]
Only(u, row) == Table([x \in {u} |-> row])

DoAll(ops) == [i \in DOMAIN ops |-> Do(ops[i], "ann")]

\* Every choice of three of the calls, or fewer, on one of the tables; which
\* request makes which call does not matter.
Plays(calls, tables) ==
    LET seq  == Append(calls, Nothing)
        some == {n \in [1..3 -> DOMAIN seq] : n[1] <= n[2] /\ n[2] <= n[3]}
    IN  {[calls |-> (r1 :> seq[n[1]]) @@ (r2 :> seq[n[2]]) @@ (r3 :> seq[n[3]]),
         users |-> t, faults |-> {}] :
            n \in some, t \in tables}

\* A row that is not verified and one that is, under the operations on them.
OnFresh ==
    Plays(DoAll(<<"verifyEmail", "verifyOtp", "forgotPassword", "resetPassword",
                  "createPin", "resendOtp", "register">>), {Only("ann", Fresh)})
OnSigned ==
    Plays(DoAll(<<"verifyOtp", "forgotPassword", "resetPassword", "changePin",
                  "initiateTfa", "enableTfa", "toggleRole">>), {Only("ann", Signed)})
OnSecured ==
    Plays(Append(DoAll(<<"changePassword", "disableTfa", "userLogin", "adminLogin",
                         "verifyTfaLogin", "changePin">>),
                 [Do("toggleRole", "ann") EXCEPT !.role = "FOLLOWER"]),
          {Only("ann", [Signed EXCEPT !.tfa = TRUE, !.role = "PRO_TRADER"])})

\* Registrations of one address or one username, and renames.
Collisions ==
    Plays(<<Register("bob", "n1", Nothing), Register("cid", "n1", Nothing), Do("google", "bob"),
           Do("admin", "bob"), Rename("ann", "n1"), Do("forgotPassword", "ann")>>,
          {Only("ann", [Signed EXCEPT !.username = "n2"])})
\* A save brings back a username that another user has taken meanwhile.
TakenBack ==
    {[calls |-> (r1 :> Do("forgotPassword", "ann")) @@ (r2 :> Rename("ann", "n2"))
                   @@ (r3 :> Register("bob", "n1", Nothing)),
      users |-> Only("ann", [Signed EXCEPT !.username = "n1"]), faults |-> {}]}
\* Users brought by ann or by bob, and the settings of the rewards.
Referrals ==
    Plays(<<Register("cid", Nothing, "ann"), Register("dan", Nothing, "ann"), Register("cid", Nothing, "bob"),
           Do("createReward", "ann"), Do("updateReward", "ann"), Do("removeReward", "ann")>>,
          {Table([u \in {"ann", "bob"} |-> Signed])})
\* Privileges of a role.
Privileges ==
    Plays(<<Access("assign", {"p1"}), Access("assign", {"p2"}), Access("remove", {"p1"})>>, {Table(<<>>)})

\* Requests that fail and a process that ends under them.
Failing ==
    {[calls |-> (r1 :> Register("bob", "n1", "ann")) @@ (r2 :> a) @@ (r3 :> b),
      users |-> Only("ann", [Fresh EXCEPT !.verified = TRUE]), faults |-> {"request", "restart"}] :
        a \in {Register("bob", Nothing, "ann"), Rename("ann", "n1")},
        b \in {Do("createPin", "ann"), Do("forgotPassword", "ann"), Access("assign", {"p1"})}}

AllCasts == OnFresh \cup OnSigned \cup OnSecured \cup Collisions \cup TakenBack \cup Referrals
            \cup Privileges \cup Failing
=============================================================================
