--------------------------- MODULE GamifiedProofs ---------------------------
(***************************************************************************)
(* Proofs about Gamified, for any players, calls, rewards and number of    *)
(* requests: types, the reward of a recorded level, the badges, and what   *)
(* the rewards add up to.                                                  *)
(***************************************************************************)
EXTENDS Gamified, Sums, TLAPS

\* A deposit to a purse keeps the ledger well typed and spends its key.
LEMMA DepositTyped ==
    ASSUME TypeOK, NEW w \in Reward, Ledger!Deposit(Purse(w.user), w.amount, KeyOf(w))
    PROVE  /\ accounts' \in [WalletId -> Wallet]
           /\ used' \subseteq Keys
           /\ used' = used \cup {KeyOf(w)}
<1>1. KeyOf(w) \in Keys /\ KeyOf(w) # NoKey
  BY GamifiedAssumption DEF KeyOf, Reward
<1>2. used' = used \cup {KeyOf(w)}
  BY <1>1 DEF Ledger!Deposit, Ledger!Spend
<1>3. Purse(w.user) \in WalletId
  BY GamifiedAssumption DEF Purse, WalletId, Reward
<1>4. \A a \in Wallet, n \in Amounts : Ledger!Credited(a, n) \in Wallet
  BY GamifiedAssumption DEF Ledger!Credited, Wallet, Status
<1>5. accounts' \in [WalletId -> Wallet]
  BY <1>3, <1>4 DEF TypeOK, Ledger!Deposit, Reward
<1> QED  BY <1>1, <1>2, <1>5 DEF TypeOK

\* What a request asks for is a reward, and what it saves is a row.
LEMMA CallTyped ==
    ASSUME TypeOK, NEW r \in Requests, pc[r] # "idle"
    PROVE  /\ call[r] \in Calls /\ call[r] \in CallType
           /\ Earning(call[r].phase, call[r].level, call[r].score) \in Amounts
<1>1. call[r] \in Calls /\ call[r] \in CallType
  BY GamifiedAssumption DEF TypeOK
<1> QED  BY <1>1, GamifiedAssumption DEF CallType

\* Every variable keeps its type in every reachable state.
THEOREM TypeCorrect == Spec => []TypeOK
<1>1. Init => TypeOK
  BY GamifiedAssumption DEF Init, TypeOK
<1>2. TypeOK /\ [Next]_gvars => TypeOK'
  <2> SUFFICES ASSUME TypeOK, [Next]_gvars PROVE TypeOK'
    OBVIOUS
  <2>1. ASSUME NEW r \in Requests, NEW c \in Calls, Begin(r, c) PROVE TypeOK'
    BY <2>1, GamifiedAssumption DEF Begin, Goto, TypeOK, Running, calls, ledger
  <2>2. ASSUME NEW r \in Requests, OnboardFind(r) \/ OnboardSave(r) PROVE TypeOK'
    <3>1. call[r] \in CallType
      BY <2>2, CallTyped DEF OnboardFind, OnboardSave, At
    <3> QED  BY <2>2, <3>1 DEF OnboardFind, OnboardSave, At, Goto, TypeOK, Running,
                               Answered, CallType, calls, ledger
  <2>3. ASSUME NEW r \in Requests, TrackAgain(r) PROVE TypeOK'
    <3>1. call[r] \in CallType
      BY <2>3, CallTyped DEF TrackAgain, At
    <3>2. rescores' \subseteq [row : Requests, score : Scores]
      BY <2>3, <3>1 DEF TrackAgain, Found, TypeOK, Completion, CallType
    <3> QED  BY <2>3, <3>2 DEF TrackAgain, At, Goto, TypeOK, Running, Answered, ledger
  <2>4. ASSUME NEW r \in Requests, TrackNew(r) PROVE TypeOK'
    <3>1. /\ call[r] \in CallType
          /\ Earning(call[r].phase, call[r].level, call[r].score) \in Amounts
      BY <2>4, CallTyped DEF TrackNew, At
    <3>2. rewards' \subseteq Reward
      BY <2>4, <3>1 DEF TrackNew, TypeOK, Reward, CallType
    <3> QED  BY <2>4, <3>2 DEF TrackNew, At, Goto, TypeOK, Running, ledger
  <2>5. ASSUME NEW r \in Requests, TrackSave(r) PROVE TypeOK'
    <3>1. call[r] \in CallType
      BY <2>5, CallTyped DEF TrackSave, At
    <3>2. progress' \subseteq Completion
      BY <2>5, <3>1 DEF TrackSave, TypeOK, Completion, CallType
    <3> QED  BY <2>5, <3>2 DEF TrackSave, At, Goto, TypeOK, Running, Answered, calls, ledger
  <2>6. ASSUME NEW r \in Requests, BadgeFind(r) \/ Award(r) PROVE TypeOK'
    <3>1. call[r] \in CallType
      BY <2>6, CallTyped DEF BadgeFind, Award, At
    <3> QED  BY <2>6, <3>1 DEF BadgeFind, Award, At, Goto, TypeOK, Running, Answered,
                               CallType, calls, ledger
  <2>7. ASSUME NEW r \in Requests, Fail(r) PROVE TypeOK'
    BY <2>7 DEF Fail, Goto, TypeOK, Running, Answered, calls, ledger
  <2>8. ASSUME NEW w \in Reward, Pay(w) PROVE TypeOK'
    BY <2>8, DepositTyped DEF Pay, TypeOK, ledger
  <2>9. ASSUME NEW u \in [row : Requests, score : Scores], Rescore(u) PROVE TypeOK'
    <3>1. \A row \in Completion : [row EXCEPT !.score = u.score] \in Completion
      BY DEF Completion
    <3>2. progress' \subseteq Completion
      BY <2>9, <3>1 DEF Rescore, TypeOK
    <3> QED  BY <2>9, <3>2 DEF Rescore, TypeOK, ledger
  <2>10. ASSUME Restart PROVE TypeOK'
    BY <2>10 DEF Restart, TypeOK, Running, Answered, ledger
  <2>11. CASE UNCHANGED gvars
    BY <2>11 DEF gvars, calls, ledger, TypeOK
  <2> QED  BY <2>1, <2>2, <2>3, <2>4, <2>5, <2>6, <2>7, <2>8, <2>9, <2>10, <2>11
           DEF Next, Step
<1> QED  BY <1>1, <1>2, PTL DEF Spec
-----------------------------------------------------------------------------
(* the reward of a recorded level *)

\* The key is spent, or a call with it is under way or was cut off.
Asked(key) == key \in used \/ \E w \in rewards \cup dropped : KeyOf(w) = key

\* Between the call of fundUser and the save of the level the reward is
\* already asked for.
AskedBefore ==
    /\ \A row \in progress : Asked(KeyOf(row))
    /\ \A r \in Requests : At(r, "track", "save") => Asked(KeyOf(call[r]))

\* A key once asked for stays so: a payment spends it, a restart drops it.
LEMMA AskedStays ==
    ASSUME TypeOK, [Next]_gvars, NEW key, Asked(key)
    PROVE  Asked(key)'
<1>1. ASSUME NEW w \in Reward, Pay(w) PROVE Asked(key)'
  BY <1>1, DepositTyped DEF Pay, Asked, ledger, KeyOf
<1>2. ASSUME Restart PROVE Asked(key)'
  BY <1>2 DEF Restart, Asked, ledger, KeyOf
<1>3. ASSUME NEW r \in Requests, TrackNew(r) PROVE Asked(key)'
  BY <1>3 DEF TrackNew, Asked, ledger, KeyOf
<1>4. ASSUME UNCHANGED <<rewards, ledger, dropped>> PROVE Asked(key)'
  BY <1>4 DEF Asked, ledger, KeyOf
<1> QED  BY <1>1, <1>2, <1>3, <1>4
         DEF Next, Step, Begin, OnboardFind, OnboardSave, TrackAgain, TrackSave, BadgeFind,
             Award, Rescore, Fail, gvars, calls

\* AskedBefore is inductive.
LEMMA AskedBeforeStep ==
    ASSUME TypeOK, AskedBefore, [Next]_gvars
    PROVE  AskedBefore'
<1>1. ASSUME NEW r \in Requests, NEW c \in Calls, Begin(r, c) PROVE AskedBefore'
  BY <1>1, AskedStays DEF Begin, Goto, AskedBefore, At, KeyOf, TypeOK
<1>2. ASSUME NEW r \in Requests, TrackNew(r) PROVE AskedBefore'
  <2>1. Asked(KeyOf(call[r]))'
    <3> DEFINE w == [by |-> r, user |-> call[r].user, phase |-> call[r].phase,
                     level |-> call[r].level,
                     amount |-> Earning(call[r].phase, call[r].level, call[r].score)]
    <3>1. w \in rewards' /\ call' = call
      BY <1>2 DEF TrackNew
    <3>2. KeyOf(w) = KeyOf(call[r])
      BY DEF KeyOf
    <3> QED  BY <3>1, <3>2 DEF Asked, KeyOf
  <2> QED  BY <1>2, <2>1, AskedStays DEF TrackNew, Goto, AskedBefore, At, KeyOf, TypeOK
<1>3. ASSUME NEW r \in Requests, TrackSave(r) PROVE AskedBefore'
  <2>1. \A row \in progress' : row \in progress \/ KeyOf(row) = KeyOf(call[r])
    BY <1>3 DEF TrackSave, KeyOf
  <2> QED  BY <1>3, <2>1, AskedStays DEF TrackSave, Goto, AskedBefore, At, KeyOf, TypeOK
<1>4. ASSUME NEW u \in [row : Requests, score : Scores], Rescore(u) PROVE AskedBefore'
  <2>1. \A row \in progress' : \E old \in progress : KeyOf(row) = KeyOf(old)
    BY <1>4 DEF Rescore, KeyOf, TypeOK, Completion
  <2> QED  BY <1>4, <2>1, AskedStays DEF Rescore, AskedBefore, At, KeyOf
<1>5. ASSUME UNCHANGED <<progress, call>>,
             \A r \in Requests : pc'[r] = "save" => pc[r] = "save"
      PROVE  AskedBefore'
  BY <1>5, AskedStays DEF AskedBefore, At, KeyOf
<1>6. ASSUME NEW r \in Requests,
             \/ OnboardFind(r) \/ OnboardSave(r) \/ TrackAgain(r) \/ BadgeFind(r)
             \/ Award(r) \/ Fail(r)
      PROVE  AskedBefore'
  BY <1>5, <1>6 DEF OnboardFind, OnboardSave, TrackAgain, BadgeFind, Award, Fail, Goto, TypeOK
<1>7. ASSUME (\E w \in Reward : Pay(w)) \/ UNCHANGED gvars PROVE AskedBefore'
  BY <1>5, <1>7 DEF Pay, gvars
<1>8. ASSUME Restart PROVE AskedBefore'
  BY <1>5, <1>8 DEF Restart
<1> QED  BY <1>1, <1>2, <1>3, <1>4, <1>6, <1>7, <1>8 DEF Next, Step

\* A level recorded as completed is paid, or its reward is under way or was
\* cut off by a restart, however completions, failures and restarts of any
\* number of requests interleave.
THEOREM RewardsAhead == Spec => []RewardAhead
<1>1. Init => AskedBefore
  BY DEF Init, AskedBefore, At
<1>2. AskedBefore => RewardAhead
  BY DEF AskedBefore, Asked, RewardAhead
<1> QED  BY <1>1, <1>2, AskedBeforeStep, TypeCorrect, PTL DEF Spec
-----------------------------------------------------------------------------
(* badges *)

\* The record that a badge of request r stands on.
Recorded(rows, r, user, phase) ==
    \E row \in rows :
        row.by = r /\ row.user = user /\ row.phase = phase /\ row.level = "Level 3"

\* From the save to the badge the request has its record, and until the badge
\* is saved it has given none.
BadgesHold ==
    /\ \A b \in badges : Recorded(progress, b.by, b.user, b.phase)
    /\ \A b, d \in badges : b.by = d.by => b = d
    /\ \A r \in Requests :
          pc[r] \in {"badge", "award"} => Recorded(progress, r, call[r].user, call[r].phase)
    /\ \A b \in badges : pc[b.by] \in Answered

\* Progress rows are kept; only their score is replaced.
LEMMA RecordStays ==
    ASSUME TypeOK, [Next]_gvars, NEW r, NEW user, NEW phase, Recorded(progress, r, user, phase)
    PROVE  Recorded(progress', r, user, phase)
<1>1. ASSUME NEW u \in [row : Requests, score : Scores], Rescore(u)
      PROVE  Recorded(progress', r, user, phase)
  <2>1. PICK row \in progress :
            row.by = r /\ row.user = user /\ row.phase = phase /\ row.level = "Level 3"
    BY DEF Recorded
  <2> DEFINE new == IF row.by = u.row THEN [row EXCEPT !.score = u.score] ELSE row
  <2>2. new \in progress'
    BY <1>1 DEF Rescore
  <2>3. /\ new.by = row.by /\ new.user = row.user /\ new.phase = row.phase
        /\ new.level = row.level
    BY DEF TypeOK, Completion
  <2> QED  BY <2>1, <2>2, <2>3 DEF Recorded
<1>2. ASSUME progress \subseteq progress' PROVE Recorded(progress', r, user, phase)
  BY <1>2 DEF Recorded
<1> QED  BY <1>1, <1>2
         DEF Next, Step, Begin, OnboardFind, OnboardSave, TrackAgain, TrackNew, TrackSave,
             BadgeFind, Award, Fail, Pay, Restart, gvars

\* BadgesHold is inductive.
LEMMA BadgesHoldStep ==
    ASSUME TypeOK, BadgesHold, [Next]_gvars
    PROVE  BadgesHold'
<1>1. ASSUME NEW r \in Requests, Award(r) PROVE BadgesHold'
  <2> DEFINE new == [by |-> r, user |-> call[r].user, phase |-> call[r].phase]
  <2>1. /\ badges' = badges \cup {new} /\ new.by = r
        /\ new.user = call[r].user /\ new.phase = call[r].phase
        /\ pc[r] = "award" /\ pc' = [pc EXCEPT ![r] = "done"] /\ call' = call
        /\ Recorded(progress, r, call[r].user, call[r].phase)
    BY <1>1 DEF Award, At, Goto, BadgesHold
  <2>2. \A b \in badges : b.by # r
    BY <2>1 DEF BadgesHold, Answered
  <2>3. \A b \in badges' : Recorded(progress', b.by, b.user, b.phase)
    BY <2>1, RecordStays DEF BadgesHold
  <2>4. \A b, d \in badges' : b.by = d.by => b = d
    BY <2>1, <2>2 DEF BadgesHold
  <2>5. \A q \in Requests :
            pc'[q] \in {"badge", "award"} => Recorded(progress', q, call'[q].user, call'[q].phase)
    BY <2>1, RecordStays DEF BadgesHold, TypeOK
  <2>6. \A b \in badges' : pc'[b.by] \in Answered
    BY <2>1, <1>1 DEF BadgesHold, TypeOK, Answered
  <2> QED  BY <2>3, <2>4, <2>5, <2>6 DEF BadgesHold
<1>2. ASSUME NEW r \in Requests, TrackSave(r) PROVE BadgesHold'
  <2>1. /\ badges' = badges /\ call' = call /\ pc[r] = "save"
        /\ \/ pc' = [pc EXCEPT ![r] = "badge"] /\ call[r].level = "Level 3"
           \/ pc' = [pc EXCEPT ![r] = "done"]
    BY <1>2 DEF TrackSave, At, Goto, EarnsBadge
  <2>2. call[r].level = "Level 3" => Recorded(progress', r, call[r].user, call[r].phase)
    <3> DEFINE row == [by |-> r, user |-> call[r].user, phase |-> call[r].phase,
                       level |-> call[r].level, score |-> call[r].score]
    <3>1. row \in progress' /\ row.by = r /\ row.user = call[r].user
          /\ row.phase = call[r].phase /\ row.level = call[r].level
      BY <1>2 DEF TrackSave
    <3> QED  BY <3>1 DEF Recorded
  <2>3. \A q \in Requests :
            pc'[q] \in {"badge", "award"} => Recorded(progress', q, call'[q].user, call'[q].phase)
    BY <2>1, <2>2, RecordStays DEF BadgesHold, TypeOK
  <2>4. \A b \in badges : pc'[b.by] \in Answered
    BY <2>1 DEF BadgesHold, TypeOK, Answered
  <2> QED  BY <2>1, <2>3, <2>4, RecordStays DEF BadgesHold
<1>3. ASSUME badges' = badges,
             \A r \in Requests :
                /\ pc[r] \in Answered => pc'[r] \in Answered
                /\ pc'[r] \in {"badge", "award"} =>
                      pc[r] \in {"badge", "award"} /\ call'[r] = call[r]
      PROVE  BadgesHold'
  BY <1>3, RecordStays DEF BadgesHold, TypeOK
<1>4. ASSUME NEW r \in Requests, NEW c \in Calls, Begin(r, c) PROVE BadgesHold'
  BY <1>3, <1>4 DEF Begin, Goto, TypeOK, Answered
<1>5. ASSUME NEW r \in Requests,
             OnboardFind(r) \/ OnboardSave(r) \/ TrackAgain(r) \/ TrackNew(r) \/ BadgeFind(r)
      PROVE  BadgesHold'
  BY <1>3, <1>5 DEF OnboardFind, OnboardSave, TrackAgain, TrackNew, BadgeFind, Goto, At,
                    TypeOK, Answered
<1>6. ASSUME NEW r \in Requests, Fail(r) PROVE BadgesHold'
  BY <1>3, <1>6 DEF Fail, Goto, TypeOK, Answered
<1>7. ASSUME \/ \E w \in Reward : Pay(w)
             \/ \E u \in [row : Requests, score : Scores] : Rescore(u)
             \/ UNCHANGED gvars
      PROVE  BadgesHold'
  BY <1>3, <1>7 DEF Pay, Rescore, gvars
<1>8. ASSUME Restart PROVE BadgesHold'
  BY <1>3, <1>8 DEF Restart, Answered, Running
<1> QED  BY <1>1, <1>2, <1>4, <1>5, <1>6, <1>7, <1>8 DEF Next, Step

\* No badge without the record of the last level of its phase, and no second
\* badge for one completion.
THEOREM BadgesFollow == Spec => []BadgeAfterCompletion
<1>1. Init => BadgesHold
  BY DEF Init, BadgesHold
<1>2. BadgesHold => BadgeAfterCompletion
  BY DEF BadgesHold, Recorded, BadgeAfterCompletion
<1> QED  BY <1>1, <1>2, BadgesHoldStep, TypeCorrect, PTL DEF Spec
-----------------------------------------------------------------------------
(* balances and rewards *)

\* A reward under way is what some try at its level earned.
RewardsEarned ==
    \A w \in rewards : \E r \in Tracked(w.user, w.phase, w.level) :
        w.amount = Earning(w.phase, w.level, call[r].score)

\* f says which amount each level of the user was paid with.
Explains(f, base, user) ==
    /\ f \in [PaidLevels(user) -> Amounts]
    /\ \A s \in PaidLevels(user) :
          \E r \in Tracked(user, s[1], s[2]) : f[s] = Earning(s[1], s[2], call[r].score)
    /\ accounts[Purse(user)].bal = base + Total(f)

\* The sum of the property is that of the lemmas.
LEMMA SumIsTotal == \A f : SumOf(f) = Total(f)
  BY TotalFold, Zenon DEF SumOf

\* The levels paid are finitely many.
LEMMA PaidFinite == \A user : IsFiniteSet(PaidLevels(user)) /\ PaidLevels(user) \subseteq Phases \X Levels
<1>1. IsFiniteSet(Phases) /\ IsFiniteSet(Levels)
  <2>1. \A x, y, z : IsFiniteSet({x, y, z})
    <3> TAKE x, y, z
    <3>1. IsFiniteSet((({} \cup {x}) \cup {y}) \cup {z})
      BY FS_EmptySet, FS_AddElement
    <3>2. (({} \cup {x}) \cup {y}) \cup {z} = {x, y, z}
      OBVIOUS
    <3> QED  BY <3>1, <3>2
  <2> QED  BY <2>1 DEF Phases, Levels
<1>2. IsFiniteSet(Phases \X Levels)
  BY <1>1, FS_Product
<1>3. \A user : PaidLevels(user) \subseteq Phases \X Levels
  BY DEF PaidLevels
<1> QED  BY <1>2, <1>3, FS_Subset

\* What a request that has begun was called with stays.
LEMMA CallsStay ==
    ASSUME TypeOK, [Next]_gvars, NEW r \in Requests, pc[r] # "idle"
    PROVE  pc'[r] # "idle" /\ call'[r] = call[r]
<1>1. ASSUME NEW s \in Requests, NEW c \in Calls, Begin(s, c) PROVE pc'[r] # "idle" /\ call'[r] = call[r]
  BY <1>1 DEF Begin, Goto, TypeOK
<1>2. ASSUME NEW s \in Requests, Step(s) \/ Fail(s) PROVE pc'[r] # "idle" /\ call'[r] = call[r]
  BY <1>2 DEF Step, OnboardFind, OnboardSave, TrackAgain, TrackNew, TrackSave, BadgeFind, Award,
     Fail, Goto, TypeOK
<1>3. ASSUME Restart PROVE pc'[r] # "idle" /\ call'[r] = call[r]
  BY <1>3 DEF Restart
<1> QED  BY <1>1, <1>2, <1>3 DEF Next, Pay, Rescore, gvars

\* So does every try at a level.
LEMMA TriesStay ==
    ASSUME TypeOK, [Next]_gvars, NEW user, NEW phase, NEW level, NEW r \in Tracked(user, phase, level)
    PROVE  r \in Tracked(user, phase, level)' /\ call'[r] = call[r]
  BY CallsStay DEF Tracked, Same

\* RewardsEarned is inductive.
LEMMA RewardsEarnedStep ==
    ASSUME TypeOK, RewardsEarned, [Next]_gvars PROVE RewardsEarned'
<1> SUFFICES ASSUME NEW w \in rewards'
             PROVE  \E r \in Tracked(w.user, w.phase, w.level)' :
                       w.amount = Earning(w.phase, w.level, call'[r].score)
  BY DEF RewardsEarned, Earning
<1>1. CASE w \in rewards
  <2>1. PICK r \in Tracked(w.user, w.phase, w.level) :
            w.amount = Earning(w.phase, w.level, call[r].score)
    BY <1>1 DEF RewardsEarned
  <2> QED  BY <2>1, TriesStay
<1>2. CASE w \notin rewards
  <2>1. PICK r \in Requests : TrackNew(r)
    BY <1>2 DEF Next, Step, Begin, OnboardFind, OnboardSave, TrackAgain, TrackSave, BadgeFind,
       Award, Pay, Rescore, Fail, Restart, gvars, calls
  <2>2. /\ w.user = call[r].user /\ w.phase = call[r].phase /\ w.level = call[r].level
        /\ w.amount = Earning(w.phase, w.level, call[r].score)
    BY <1>2, <2>1 DEF TrackNew
  <2>3. r \in Tracked(w.user, w.phase, w.level)
    BY <2>1, <2>2 DEF Tracked, Same, TrackNew, At
  <2> QED  BY <2>2, <2>3, TriesStay
<1> QED  BY <1>1, <1>2

\* A step that pays nobody explains the balances as before.
LEMMA UnpaidExplained ==
    ASSUME TypeOK, [Next]_gvars, NEW user, NEW f, NEW base, Explains(f, base, user),
           PaidLevels(user)' = PaidLevels(user), accounts'[Purse(user)] = accounts[Purse(user)]
    PROVE  Explains(f, base, user)'
<1>1. \A s \in PaidLevels(user) :
         \E r \in Tracked(user, s[1], s[2])' : f[s] = Earning(s[1], s[2], call'[r].score)
  <2> TAKE s \in PaidLevels(user)
  <2>1. PICK r \in Tracked(user, s[1], s[2]) : f[s] = Earning(s[1], s[2], call[r].score)
    BY DEF Explains
  <2> QED  BY <2>1, TriesStay
<1>2. Purse(user)' = Purse(user)
  BY DEF Purse
<1> QED  BY <1>1, <1>2 DEF Explains, Earning

\* The amounts of a payment more sum up to its amount more.
LEMMA PaidExplained ==
    ASSUME TypeOK, RewardsEarned, [Next]_gvars, NEW w \in rewards, NEW f, NEW base \in Int,
           Explains(f, base, w.user), KeyOf(w) \notin used, used' = used \cup {KeyOf(w)},
           accounts'[Purse(w.user)].bal = accounts[Purse(w.user)].bal + w.amount
    PROVE  \E g : Explains(g, base, w.user)'
<1> DEFINE P == PaidLevels(w.user)
           t == <<w.phase, w.level>>
           g == [s \in P \cup {t} |-> IF s = t THEN w.amount ELSE f[s]]
<1>1. /\ w.user \in Users /\ w.phase \in Phases /\ w.level \in Levels /\ w.amount \in Amounts
      /\ Amounts \subseteq Int
  BY GamifiedAssumption DEF TypeOK, Reward
<1>2. t \notin P
  BY DEF PaidLevels, KeyOf
<1>3. PaidLevels(w.user)' = P \cup {t}
  <2>1. \A s \in Phases \X Levels :
           RewardKey(w.user, s[1], s[2]) = KeyOf(w) <=> s = t
    BY DEF RewardKey, KeyOf
  <2>2. t \in Phases \X Levels
    BY <1>1
  <2>3. PaidLevels(w.user)' = {s \in Phases \X Levels : RewardKey(w.user, s[1], s[2]) \in used'}
    BY DEF PaidLevels, RewardKey
  <2> HIDE DEF t
  <2> QED  BY <2>1, <2>2, <2>3 DEF PaidLevels
<1>4. f \in [P -> Amounts] /\ accounts[Purse(w.user)].bal = base + Total(f)
  BY DEF Explains
<1>5. /\ g \in [P \cup {t} -> Amounts] /\ g[t] = w.amount /\ \A s \in P : g[s] = f[s]
  <2> HIDE DEF P, t
  <2> QED  BY <1>1, <1>2, <1>4
<1> HIDE DEF g
<1>6. Total(f) \in Int /\ Total(g) = Total(f) + w.amount
  <2>1. IsFiniteSet(P) /\ f \in [P -> Int] /\ g \in [P \cup {t} -> Int]
    BY <1>1, <1>4, <1>5, PaidFinite
  <2> HIDE DEF P, t
  <2>2. Total(f) \in Int
    BY <2>1, TotalInt
  <2>3. Total(g) = Total(f) + g[t]
    <3>1. Adds(P, f, t, g)
      BY <1>2, <1>5, <2>1 DEF Adds
    <3> QED  BY <2>1, <3>1, TotalAdds
  <2> QED  BY <1>5, <2>2, <2>3
<1>7. accounts'[Purse(w.user)].bal = base + Total(g)
  <2> HIDE DEF P, t
  <2>1. PICK a, b \in Int : a = Total(f) /\ b = w.amount
    BY <1>1, <1>6
  <2>2. accounts'[Purse(w.user)].bal = (base + a) + b /\ Total(g) = a + b
    BY <1>4, <1>6, <2>1
  <2> QED  BY <2>1, <2>2
<1>8. ASSUME NEW s \in P \cup {t}
      PROVE  \E r \in Tracked(w.user, s[1], s[2])' : g[s] = Earning(s[1], s[2], call'[r].score)
  <2>1. CASE s \in P
    <3>1. PICK r \in Tracked(w.user, s[1], s[2]) : f[s] = Earning(s[1], s[2], call[r].score)
      BY <2>1 DEF Explains
    <3> QED  BY <1>5, <2>1, <3>1, TriesStay
  <2>2. CASE s = t
    <3>1. PICK r \in Tracked(w.user, w.phase, w.level) :
             w.amount = Earning(w.phase, w.level, call[r].score)
      BY DEF RewardsEarned
    <3>2. s[1] = w.phase /\ s[2] = w.level /\ g[s] = w.amount
      BY <1>5, <2>2
    <3> QED  BY <3>1, <3>2, TriesStay
  <2> QED  BY <2>1, <2>2
<1>9. PICK h : h = g
  OBVIOUS
<1>10. Purse(w.user)' = Purse(w.user)
  BY DEF Purse
<1>11. Explains(h, base, w.user)'
  <2>1. h \in [PaidLevels(w.user)' -> Amounts]
    BY <1>3, <1>5, <1>9
  <2>2. \A s \in PaidLevels(w.user)' :
          \E r \in Tracked(w.user, s[1], s[2])' : h[s] = Earning(s[1], s[2], call'[r].score)
    BY <1>3, <1>8, <1>9
  <2>3. accounts'[Purse(w.user)'] = accounts'[Purse(w.user)]
    BY <1>10
  <2> HIDE DEF P, t
  <2>4. PICK purse : purse = Purse(w.user) /\ purse = Purse(w.user)'
    BY <1>10
  <2>5. accounts'[purse].bal = base + Total(h)
    BY <1>7, <1>9, <2>4
  <2> QED  BY <2>1, <2>2, <2>4, <2>5 DEF Explains
<1> QED  BY <1>11

\* A payment is a deposit to the user's purse, or nothing at all.
LEMMA PayEffect ==
    ASSUME TypeOK, NEW w \in Reward, Pay(w)
    PROVE  \/ UNCHANGED ledger
           \/ /\ w \in rewards /\ KeyOf(w) \notin used /\ used' = used \cup {KeyOf(w)}
              /\ accounts'[Purse(w.user)].bal = accounts[Purse(w.user)].bal + w.amount
              /\ \A user : user # w.user => accounts'[Purse(user)] = accounts[Purse(user)]
<1>1. CASE Ledger!Deposit(Purse(w.user), w.amount, KeyOf(w))
  <2>1. used' = used \cup {KeyOf(w)} /\ KeyOf(w) \notin used
    BY <1>1, DepositTyped DEF Ledger!Deposit, Ledger!Spend
  <2>2. Purse(w.user) \in WalletId
    BY GamifiedAssumption DEF Purse, WalletId, Reward
  <2>3. accounts' = [accounts EXCEPT ![Purse(w.user)] = Ledger!Credited(accounts[Purse(w.user)], w.amount)]
    BY <1>1 DEF Ledger!Deposit
  <2>4. accounts'[Purse(w.user)].bal = accounts[Purse(w.user)].bal + w.amount
    BY <2>2, <2>3 DEF TypeOK, Ledger!Credited
  <2>5. \A user : user # w.user => Purse(user) # Purse(w.user)
    BY DEF Purse
  <2>6. \A user : user # w.user => accounts'[Purse(user)] = accounts[Purse(user)]
    BY <2>3, <2>5 DEF TypeOK
  <2> QED  BY <2>1, <2>4, <2>6, <1>1 DEF Pay
<1> QED  BY <1>1 DEF Pay

\* However tries, payments, failures and restarts interleave, a user's tokens
\* are those the ledger opened with and, for each level paid, what one of the
\* tries at it earned (trackUserProgress, fundUser).
THEOREM BalancesExplained == Spec => []RewardsExplainBalances
<1> DEFINE Explained == \E rows \in OpeningAccounts : \A user \in Users :
                           \E f : Explains(f, rows[Purse(user)].bal, user)
<1>1. Init => RewardsEarned /\ Explained
  <2> SUFFICES ASSUME Init PROVE RewardsEarned /\ Explained
    OBVIOUS
  <2>1. \A user : PaidLevels(user) = {}
    BY DEF Init, PaidLevels
  <2>2. ASSUME NEW user \in Users PROVE \E f : Explains(f, accounts[Purse(user)].bal, user)
    <3>1. PICK f : f \in [{} -> Amounts]
      <4>1. [s \in {} |-> 0] \in [{} -> Amounts]
        OBVIOUS
      <4> QED  BY <4>1
    <3>2. f \in [{} -> Int]
      BY <3>1
    <3>3. Total(f) = 0
      BY <3>2, TotalEmpty
    <3>4. accounts[Purse(user)].bal \in Int
      BY GamifiedAssumption DEF Init, Purse, WalletId, Wallet
    <3>5. Explains(f, accounts[Purse(user)].bal, user)
      BY <2>1, <3>1, <3>3, <3>4 DEF Explains
    <3> QED  BY <3>5
  <2> QED  BY <2>2 DEF Init, RewardsEarned
<1>2. TypeOK /\ RewardsEarned /\ Explained /\ [Next]_gvars => RewardsEarned' /\ Explained'
  <2> SUFFICES ASSUME TypeOK, RewardsEarned, Explained, [Next]_gvars
               PROVE  RewardsEarned' /\ Explained'
    OBVIOUS
  <2>1. RewardsEarned'
    BY RewardsEarnedStep
  <2>2. PICK rows \in OpeningAccounts : \A user \in Users :
                 \E f : Explains(f, rows[Purse(user)].bal, user)
    OBVIOUS
  <2>3. ASSUME NEW user \in Users
        PROVE  \E f : Explains(f, rows[Purse(user)].bal, user)'
    <3>1. PICK base : base = rows[Purse(user)].bal
      OBVIOUS
    <3>2. base \in Int
      BY <3>1, GamifiedAssumption DEF Purse, WalletId, Wallet
    <3>3. PICK f : Explains(f, base, user)
      BY <2>2, <3>1
    <3>4. rows[Purse(user)].bal' = base
      BY <3>1 DEF Purse
    <3>5. ASSUME UNCHANGED ledger PROVE Explains(f, base, user)'
      <4>1. PaidLevels(user)' = PaidLevels(user) /\ accounts'[Purse(user)] = accounts[Purse(user)]
        BY <3>5 DEF ledger, PaidLevels, RewardKey
      <4> QED  BY <3>3, <4>1, UnpaidExplained
    <3>6. ASSUME NEW w \in Reward, Pay(w), ~UNCHANGED ledger
          PROVE  \E g : Explains(g, base, user)'
      <4>1. /\ w \in rewards /\ KeyOf(w) \notin used /\ used' = used \cup {KeyOf(w)}
            /\ accounts'[Purse(w.user)].bal = accounts[Purse(w.user)].bal + w.amount
            /\ \A u : u # w.user => accounts'[Purse(u)] = accounts[Purse(u)]
        BY <3>6, PayEffect
      <4>2. CASE user = w.user
        BY <3>2, <3>3, <4>1, <4>2, PaidExplained
      <4>3. CASE user # w.user
        <5>1. PaidLevels(user)' = PaidLevels(user)
          BY <4>1, <4>3 DEF PaidLevels, RewardKey, KeyOf
        <5> QED  BY <3>3, <4>1, <4>3, <5>1, UnpaidExplained
      <4> QED  BY <4>2, <4>3
    <3>7. UNCHANGED ledger \/ \E w \in Reward : Pay(w)
      BY DEF Next, Step, Begin, OnboardFind, OnboardSave, TrackAgain, TrackNew, TrackSave,
         BadgeFind, Award, Rescore, Fail, Restart, gvars
    <3>8. \E g : Explains(g, base, user)'
      BY <3>5, <3>6, <3>7
    <3> QED  BY <3>1, <3>4, <3>8
  <2> QED  BY <2>1, <2>2, <2>3
<1>3. Explained => RewardsExplainBalances
  BY SumIsTotal DEF Explains, RewardsExplainBalances
<1> QED  BY <1>1, <1>2, <1>3, TypeCorrect, PTL DEF Spec
=============================================================================
