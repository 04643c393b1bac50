--------------------------- MODULE MCPublishing ---------------------------
(***************************************************************************)
(* Instances of Publishing for TLC.                                        *)
(***************************************************************************)
EXTENDS Publishing, TLC

CONSTANTS r1, r2, d1

Sizes == [users |-> {"ann", "bob"}, pro |-> {"ann"}]

Blank == [op |-> "create", kind |-> "email", doc |-> r1, status |-> Nothing, date |-> Nothing,
          text |-> Nothing, to |-> Nothing, by |-> "author", file |-> FALSE]

Creates(kind, status, date) ==
    [Blank EXCEPT !.kind = kind, !.status = status, !.date = date, !.text = "a",
                  !.to = IF kind = "email" THEN "users" ELSE Nothing]
Updates(kind, doc, status, date) ==
    [Blank EXCEPT !.op = "update", !.kind = kind, !.doc = doc, !.status = status, !.date = date]
Removes(kind, doc) == [Blank EXCEPT !.op = "remove", !.kind = kind, !.doc = doc]

Draft(kind) ==
    [kind |-> kind, status |-> "Draft", date |-> Nothing, text |-> "a",
     to |-> IF kind = "email" THEN "users" ELSE Nothing,
     writer |-> d1, setter |-> d1, late |-> FALSE]

Alone(call, faults) == [docs |-> <<>>, calls |-> r1 :> call, faults |-> faults]
Pair(first, second, faults) ==
    [docs |-> <<>>, calls |-> r1 :> first @@ r2 :> second, faults |-> faults]
OnDraft(kind, first, second, faults) ==
    [docs |-> d1 :> Draft(kind), calls |-> r1 :> first @@ r2 :> second, faults |-> faults]

\* An email that is scheduled, or sent at once, and edited meanwhile.
Emails ==
    {Pair(Creates("email", "Scheduled", 2), call, {"call", "end"}) : call \in
        {[Updates("email", r1, Nothing, 3) EXCEPT !.text = "b"], Updates("email", r1, "Draft", Nothing),
         Updates("email", r1, "Sent", Nothing), Removes("email", r1)}}
    \cup {Pair(Creates("email", "Sent", 0), Updates("email", r1, "Scheduled", 2), {"end"}),
          Alone(Creates("email", "Draft", Nothing), {}), Alone(Creates("email", "Draft", 0), {}),
          Alone(Creates("email", "Scheduled", 2), {"mail", "end"})}

\* A draft that two editors schedule, naming a group or none.
EmailDrafts ==
    {OnDraft("email", [Updates("email", d1, "Scheduled", 2) EXCEPT !.text = "b"], call, {"end"}) :
        call \in {[Updates("email", d1, "Scheduled", 3) EXCEPT !.to = "pro"], Removes("email", d1)}}

\* A post that is scheduled, with a date to come, none or one past, and edited
\* meanwhile, by those who may and one who may not.
Posts ==
    {Pair([Creates("post", "Scheduled", 2) EXCEPT !.file = TRUE], call, {"call", "end"}) : call \in
        {Updates("post", r1, "Draft", Nothing), [Updates("post", r1, Nothing, 3) EXCEPT !.by = "other"],
         [Removes("post", r1) EXCEPT !.by = "admin"]}}
    \cup {Alone(Creates("post", "Scheduled", date), {"end"}) : date \in {0, Nothing}}
    \cup {Pair(Creates("post", "Published", Nothing), Updates("post", r1, "Scheduled", 2), {})}

PostDrafts ==
    {OnDraft("post", [Updates("post", d1, "Scheduled", 2) EXCEPT !.file = TRUE], call, {"call", "end"}) :
        call \in {Updates("post", d1, "Scheduled", date) : date \in {0, 3, Nothing}}
                 \cup {Updates("post", d1, "Draft", Nothing)}}

Courses ==
    {Pair(Creates("course", "Published", Nothing), [call EXCEPT !.by = by, !.file = TRUE], {"call"}) :
        by \in {"author", "admin", "other"},
        call \in {[Updates("course", r1, Nothing, Nothing) EXCEPT !.text = "b"], Removes("course", r1)}}

Documents == Emails \cup EmailDrafts \cup Posts \cup PostDrafts \cup Courses
=============================================================================
