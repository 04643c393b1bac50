------------------------------ MODULE Gamified ------------------------------
(***************************************************************************)
(* GamifiedService: onboarding, progress through phases and levels, badges *)
(* and rewards.  A reward is a call of adjustWallet that nobody waits for, *)
(* with a key made of phase, level and user; the ledger is taken at its    *)
(* word, AtomicWallets, which module Wallets implements.  One action is    *)
(* what the service does between two waits for the database.               *)
(***************************************************************************)
EXTENDS WalletRows, FiniteSetsExt, Functions

CONSTANTS
    Requests,       \* HTTP requests; the row a request inserts has its name
    Calls,          \* the arguments requests may carry
    Scores,
    BadgePhases,    \* phases with a badge: the seeder makes two
    OpeningAccounts,\* what the ledger may hold at the start
    Faults,         \* subset of {"request", "restart"}
    NoCall

Phases == {"Phase 1", "Phase 2", "Phase 3"}
Levels == {"Level 1", "Level 2", "Level 3"}

CallType ==
    [op : {"onboard", "track"}, user : Users, phase : Phases, level : Levels, score : Scores]

VARIABLES
    onboarding,     \* rows of gaming_onboarding: <<request, user>>
    progress,       \* rows of game_progress
    badges,         \* rows of game_badges
    call, pc,       \* arguments of each request, and where it stands
    rewards,        \* calls of fundUser under way
    rescores,       \* updates of a score under way
    accounts, used, \* the ledger
    dropped         \* history: the rewards that a restart has cut off

Ledger == INSTANCE AtomicWallets

ledger  == <<accounts, used>>
calls   == <<rewards, rescores>>
gvars   == <<onboarding, progress, badges, call, pc, calls, ledger, dropped>>

Completion == [by : Requests, user : Users, phase : Phases, level : Levels, score : Scores]
Reward     == [by : Requests, user : Users, phase : Phases, level : Levels, amount : Amounts]

Running  == {"start", "onboard", "save", "badge", "award"}
Answered == {"done", "failed"}

Goto(r, label) == pc' = [pc EXCEPT ![r] = label]
At(r, op, label) == pc[r] = label /\ call[r].op = op

\* What a level earns; a phase that is not in the table earns nothing.
Earning(phase, level, score) ==
    CASE phase = "Phase 1" -> IF score >= 70 THEN 10 ELSE 5
      [] phase = "Phase 2" /\ level = "Level 3" -> 100
      [] phase = "Phase 2" /\ level # "Level 3" -> IF score >= 70 THEN 50 ELSE 20
      [] OTHER -> 0

RewardKey(user, phase, level) == <<phase, level, user>>

KeyOf(row) == RewardKey(row.user, row.phase, row.level)

ASSUME GamifiedAssumption ==
    /\ Scores \subseteq Nat /\ Amounts \subseteq Nat
    /\ Calls \subseteq CallType
    /\ NoCall \notin Calls
    /\ "STP" \in Currencies
    /\ OpeningAccounts \subseteq [WalletId -> Wallet]
    /\ \A phase \in Phases, level \in Levels, score \in Scores :
          Earning(phase, level, score) \in Amounts
    /\ \A user \in Users, phase \in Phases, level \in Levels :
          RewardKey(user, phase, level) \in Keys
    /\ NoKey \notin Keys

Init ==
    /\ onboarding = {} /\ progress = {} /\ badges = {}
    /\ call = [r \in Requests |-> NoCall]
    /\ pc = [r \in Requests |-> "idle"]
    /\ rewards = {} /\ rescores = {}
    /\ accounts \in OpeningAccounts /\ used = {}
    /\ dropped = {}

\* Mutant of Begin: the arguments do not reach the service.
Begin_NoArguments(r, c) ==
    /\ pc[r] = "idle"
    /\ Goto(r, "start")
    /\ UNCHANGED <<onboarding, progress, badges, call, calls, ledger, dropped>>

Begin(r, c) ==
    /\ pc[r] = "idle"
    /\ call' = [call EXCEPT ![r] = c]
    /\ Goto(r, "start")
    /\ UNCHANGED <<onboarding, progress, badges, calls, ledger, dropped>>
-----------------------------------------------------------------------------
(* create: the answers to the onboarding questions, unless there are some *)

OnboardFind(r) ==
    /\ At(r, "onboard", "start")
    /\ Goto(r, IF \E row \in onboarding : row[2] = call[r].user THEN "done" ELSE "onboard")
    /\ UNCHANGED <<onboarding, progress, badges, call, calls, ledger, dropped>>

OnboardSave(r) ==
    /\ At(r, "onboard", "onboard")
    /\ onboarding' = onboarding \cup {<<r, call[r].user>>}
    /\ Goto(r, "done")
    /\ UNCHANGED <<progress, badges, call, calls, ledger, dropped>>
-----------------------------------------------------------------------------
(* trackUserProgress *)

Same(row, c) == row.user = c.user /\ row.phase = c.phase /\ row.level = c.level

Found(r) == {row \in progress : Same(row, call[r])}

\* The level is found: its score is replaced, by a call nobody waits for.
TrackAgain(r) ==
    /\ At(r, "track", "start")
    /\ \E row \in Found(r) :
          rescores' = rescores \cup {[row |-> row.by, score |-> call[r].score]}
    /\ Goto(r, "done")
    /\ UNCHANGED <<onboarding, progress, badges, call, rewards, ledger, dropped>>

\* It is not found: the reward is sent off before the row is saved.
TrackNew(r) ==
    LET c == call[r]
    IN  /\ At(r, "track", "start")
        /\ Found(r) = {}
        /\ rewards' = rewards \cup
              {[by |-> r, user |-> c.user, phase |-> c.phase, level |-> c.level,
                amount |-> Earning(c.phase, c.level, c.score)]}
        /\ Goto(r, "save")
        /\ UNCHANGED <<onboarding, progress, badges, call, rescores, ledger, dropped>>

\* Mutant of EarnsBadge: any level of the phase will do.
EarnsBadge_AnyLevel(c) == c.phase \in BadgePhases

EarnsBadge(c) == c.level = "Level 3" /\ c.phase \in BadgePhases

TrackSave(r) ==
    LET c == call[r]
    IN  /\ At(r, "track", "save")
        /\ progress' = progress \cup
              {[by |-> r, user |-> c.user, phase |-> c.phase, level |-> c.level,
                score |-> c.score]}
        /\ Goto(r, IF EarnsBadge(c) THEN "badge" ELSE "done")
        /\ UNCHANGED <<onboarding, badges, call, calls, ledger, dropped>>

HasBadge(user, phase) == \E row \in badges : row.user = user /\ row.phase = phase

\* earnBadges: looked for ...
BadgeFind(r) ==
    /\ At(r, "track", "badge")
    /\ Goto(r, IF HasBadge(call[r].user, call[r].phase) THEN "done" ELSE "award")
    /\ UNCHANGED <<onboarding, progress, badges, call, calls, ledger, dropped>>

\* ... and saved.
Award(r) ==
    /\ At(r, "track", "award")
    /\ badges' = badges \cup {[by |-> r, user |-> call[r].user, phase |-> call[r].phase]}
    /\ Goto(r, "done")
    /\ UNCHANGED <<onboarding, progress, call, calls, ledger, dropped>>
-----------------------------------------------------------------------------
(* the calls nobody waits for *)

Purse(user) == <<user, "STP">>

\* Mutant of Pay: a user without a wallet gets nothing.
Pay_NeedsWallet(w) ==
    /\ w \in rewards
    /\ \/ accounts[Purse(w.user)].status # "Absent"
          /\ Ledger!Deposit(Purse(w.user), w.amount, KeyOf(w))
       \/ accounts[Purse(w.user)].status = "Absent" /\ UNCHANGED ledger
    /\ rewards' = rewards \ {w}
    /\ UNCHANGED <<onboarding, progress, badges, call, pc, rescores, dropped>>

\* Mutant of Pay: the key is not looked up.
Pay_Unchecked(w) ==
    /\ w \in rewards
    /\ accounts' = [accounts EXCEPT ![Purse(w.user)] = Credited(@, w.amount)]
    /\ used' = used \cup {KeyOf(w)}
    /\ rewards' = rewards \ {w}
    /\ UNCHANGED <<onboarding, progress, badges, call, pc, rescores, dropped>>

\* adjustWallet: a deposit, or "already processed".
Pay(w) ==
    /\ w \in rewards
    /\ \/ Ledger!Deposit(Purse(w.user), w.amount, KeyOf(w))
       \/ KeyOf(w) \in used /\ UNCHANGED ledger
    /\ rewards' = rewards \ {w}
    /\ UNCHANGED <<onboarding, progress, badges, call, pc, rescores, dropped>>

Rescore(u) ==
    /\ u \in rescores
    /\ progress' = {IF row.by = u.row THEN [row EXCEPT !.score = u.score] ELSE row :
                      row \in progress}
    /\ rescores' = rescores \ {u}
    /\ UNCHANGED <<onboarding, badges, call, pc, rewards, ledger, dropped>>

Fail(r) ==
    /\ "request" \in Faults
    /\ pc[r] \in Running
    /\ Goto(r, "failed")
    /\ UNCHANGED <<onboarding, progress, badges, call, calls, ledger, dropped>>

\* The process ends and starts again.  A reward or an update that fails is
\* one reason: two rewards that create the wallet of a user at once, or carry
\* one key at once, are enough, for nobody handles the rejection.
Restart ==
    /\ "restart" \in Faults
    /\ pc' = [r \in Requests |-> IF pc[r] \in Running THEN "failed" ELSE pc[r]]
    /\ rewards' = {} /\ rescores' = {}
    /\ dropped' = dropped \cup rewards
    /\ UNCHANGED <<onboarding, progress, badges, call, ledger>>

Step(r) ==
    \/ OnboardFind(r) \/ OnboardSave(r)
    \/ TrackAgain(r) \/ TrackNew(r) \/ TrackSave(r) \/ BadgeFind(r) \/ Award(r)

Next ==
    \/ \E r \in Requests, c \in Calls : Begin(r, c)
    \/ \E r \in Requests : Step(r) \/ Fail(r)
    \/ \E w \in Reward : Pay(w)
    \/ \E u \in [row : Requests, score : Scores] : Rescore(u)
    \/ Restart

Spec == Init /\ [][Next]_gvars
-----------------------------------------------------------------------------
TypeOK ==
    /\ onboarding \subseteq Requests \X Users
    /\ progress \subseteq Completion
    /\ badges \subseteq [by : Requests, user : Users, phase : Phases]
    /\ call \in [Requests -> Calls \cup {NoCall}]
    /\ pc \in [Requests -> {"idle"} \cup Running \cup Answered]
    /\ \A r \in Requests : pc[r] # "idle" => call[r] # NoCall
    /\ rewards \subseteq Reward
    /\ rescores \subseteq [row : Requests, score : Scores]
    /\ accounts \in [WalletId -> Wallet]
    /\ used \subseteq Keys
    /\ dropped \subseteq Reward

Tracked(user, phase, level) ==
    {r \in Requests : pc[r] # "idle" /\ call[r].op = "track"
                      /\ Same(call[r], [user |-> user, phase |-> phase, level |-> level])}
PaidLevels(user) == {s \in Phases \X Levels : RewardKey(user, s[1], s[2]) \in used}

SumOf(f) == FoldFunction(LAMBDA a, b : a + b, 0, f)

\* Whatever is completed twice, at once, again after a failure or after a
\* restart: since the start a user has gained, for each level paid, what one
\* of the tries at it earned, and nothing else.
RewardsExplainBalances ==
    \E rows \in OpeningAccounts : \A user \in Users :
        \E f \in [PaidLevels(user) -> Amounts] :
            /\ \A s \in PaidLevels(user) :
                  \E r \in Tracked(user, s[1], s[2]) :
                      f[s] = Earning(s[1], s[2], call[r].score)
            /\ accounts[Purse(user)].bal = rows[Purse(user)].bal + SumOf(f)

\* A level recorded as completed is paid, or its reward is under way, or the
\* process has ended in between: the reward is asked for once, before the
\* level is saved, and a request that fails after that loses nothing.
RewardAhead ==
    \A row \in progress :
        \/ KeyOf(row) \in used
        \/ \E w \in rewards \cup dropped : KeyOf(w) = KeyOf(row)

\* A badge is never ahead of the record of the last level of its phase, and
\* no completion gets more than one.
BadgeAfterCompletion ==
    \A b \in badges :
        /\ \E row \in progress :
              /\ row.by = b.by /\ row.user = b.user /\ row.phase = b.phase
              /\ row.level = "Level 3"
        /\ \A d \in badges : d.by = b.by => d = b
=============================================================================
