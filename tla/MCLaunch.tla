------------------------------- MODULE MCLaunch -------------------------------
(***************************************************************************)
(* Small instances of Launch for TLC.                                       *)
(***************************************************************************)
EXTENDS Launch, EscrowSale, TLC

CONSTANTS m1, r1, r2   \* a mint and runs of the executor

OneMint == {m1}
OneRun == {r1}
TwoRuns == {r1, r2}
OnePrice == {[token |-> 3, quote |-> 1]}
TwoPrices == OnePrice \cup {[token |-> 3, quote |-> 2]}

\* Runs are told apart by nothing but their order of actions.
RunSymmetry == Permutations(TwoRuns)

\* What the steps depend on.
Relevant == <<vars, pc, state, file, bundle, kind>>
=============================================================================
