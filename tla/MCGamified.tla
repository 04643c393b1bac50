----------------------------- MODULE MCGamified -----------------------------
(***************************************************************************)
(* An instance of Gamified for TLC.                                        *)
(***************************************************************************)
EXTENDS Gamified, TLC

Symmetric == Permutations(Requests)

Pair == {"ann", "bob"}
OnlyStp == {"STP"}
OneTable == {[c \in OnlyStp |-> 1]}
Earnings == {0, 5, 10, 20, 50, 100}
LevelKeys == Phases \X Levels \X Pair

\* Ann has a wallet with something in it, bob has none.
AnnHasWallet ==
    {[w \in WalletId |-> IF w[1] = "ann" THEN [status |-> "Active", bal |-> 3]
                         ELSE [status |-> "Absent", bal |-> 0]]}

Track(user, phase, level, score) ==
    [op |-> "track", user |-> user, phase |-> phase, level |-> level, score |-> score]

\* The last level of a phase tried twice by one user with different scores
\* and by another, other levels, and the onboarding.
PlayCalls ==
    {Track("ann", "Phase 1", "Level 3", 60), Track("ann", "Phase 1", "Level 3", 80),
     Track("bob", "Phase 1", "Level 3", 80), Track("bob", "Phase 2", "Level 1", 60),
     [Track("ann", "Phase 1", "Level 1", 60) EXCEPT !.op = "onboard"]}
=============================================================================
