----------------------------- MODULE LaunchProofs -----------------------------
(***************************************************************************)
(* Proofs about what the orchestrator concludes from the chain, and about   *)
(* the executor beside the escrow program, for any number of runs that      *)
(* overlap and crash at will.                                               *)
(***************************************************************************)
EXTENDS Launch, EscrowProofs

-----------------------------------------------------------------------------
(* The orchestrator's reading of the chain *)

\* A pool has a minimum above zero, and a mint once it is launching.
Ready ==
  /\ pool.status # "None" => pool.minRaise > 0
  /\ pool.status = "Launching" => pool.mint # NoMint

(* A step that keeps the terms and launches with a mint or not at all.      *)
LEMMA ReadyFrame ==
  ASSUME Ready, pool'.minRaise = pool.minRaise,
         pool'.status = "None" <=> pool.status = "None",
         \/ pool'.status # "Launching"
         \/ pool'.status = pool.status /\ pool'.mint = pool.mint
         \/ pool'.mint # NoMint
  PROVE  Ready'
BY DEF Ready

(* Every action keeps Ready.                                                *)
LEMMA ReadyStep == TypeOK /\ Ready /\ [Step]_vars => Ready'
<1> SUFFICES ASSUME TypeOK, Ready, [Step]_vars PROVE Ready'
  OBVIOUS
<1> USE DEF TypeOK, PoolType
<1>1. ASSUME NEW launchAt \in Times, NEW grace \in Times,
             NEW minRaise \in Limits, NEW maxPool \in Limits,
             NEW minContribution \in Limits,
             CreatePool(launchAt, grace, minRaise, maxPool, minContribution)
      PROVE  Ready'
  <2>1. minRaise > 0
    <3>1. minContribution > 0 /\ minRaise >= minContribution
      BY <1>1 DEF CreatePool, TermsValid
    <3>2. minRaise \in Int /\ minContribution \in Int
      BY InputAssumption, WordAssumption DEF U64
    <3> QED BY <3>1, <3>2
  <2>2. pool'.status = "Open" /\ pool'.minRaise = minRaise
    BY <1>1 DEF CreatePool, NewPool
  <2> QED BY <2>1, <2>2 DEF Ready
<1>2. ASSUME NEW c \in Contributors, NEW amount \in Amounts, Contribute(c, amount)
      PROVE  Ready'
  BY <1>2, ReadyFrame DEF Contribute
<1>3. ASSUME NEW mint \in Mints \cup {NoMint}, BeginLaunch(mint)
      PROVE  Ready'
  BY <1>3, ReadyFrame DEF BeginLaunch, LaunchAllowed
<1>4. ASSUME NEW got \in TokensOut, NEW left \in Unspent, NEW after \in Reserves,
             Spend(got, left, after)
      PROVE  Ready'
  BY <1>4, ReadyFrame DEF Spend, SpendAllowed
<1>5. ASSUME NEW reserves \in Readable, FinalizeAt(reserves)
      PROVE  Ready'
  BY <1>5, ReadyFrame DEF FinalizeAt, FinalizeWorks, FinalizeAllowed
<1>6. ASSUME NEW c \in Contributors, Claim(c)
      PROVE  Ready'
  BY <1>6, ReadyFrame DEF Claim, ClaimWorks, AfterClaim
<1>7. ASSUME NEW c \in Contributors, Refund(c)
      PROVE  Ready'
  BY <1>7, ReadyFrame DEF Refund, RefundWorks, RefundAllowed, StatusAfterRefund
<1>8. CASE MarkRefundable
  BY <1>8, ReadyFrame DEF MarkRefundable, MarkAllowed
<1>9. CASE ClosePool
  BY <1>9 DEF ClosePool, NoPool, NewPool, Ready
<1>10. ASSUME pool' = pool PROVE Ready'
  BY <1>10 DEF Ready
<1>11. ASSUME NEW m \in Mints, PumpCreate(m) \/ Trade(m) PROVE Ready'
  BY <1>10, <1>11 DEF PumpCreate, Trade
<1>12. CASE Tick
  BY <1>10, <1>12 DEF Tick
<1>13. CASE BuyAgain \/ UNCHANGED vars
  BY <1>10, <1>13 DEF BuyAgain, vars
<1>14. CASE GiveSome
  BY <1>10, <1>14 DEF GiveSome, Give
<1> QED
  BY <1>1, <1>2, <1>3, <1>4, <1>5, <1>6, <1>7, <1>8, <1>9, <1>11, <1>12, <1>13,
     <1>14 DEF Step, Next, Instruction, CompleteBuy, Buy, Finalize

(* A pool that is ready and whose lamports are in custody looks to the      *)
(* orchestrator the way the program's guards see it.                        *)
LEMMA ReadyAgrees == Safe /\ Ready => StageAgreesWithChain
<1> SUFFICES ASSUME Safe, Ready PROVE StageAgreesWithChain
  OBVIOUS
<1>1. /\ pool.status \in Statuses /\ now \in Int /\ pool.graceEndsAt \in Int
      /\ pool.totalContributed \in Nat /\ pool.minRaise \in Nat
      /\ pool.tokensBought \in Nat /\ escrow \in Nat
      /\ given \in Nat /\ returned \in Nat
  BY DEF Safe, TypeOK, PoolType, Times, U64
<1>2. pool.status = "Launching" =>
        /\ pool.mint # NoMint
        /\ pool.totalContributed > 0 /\ escrow >= pool.totalContributed
  BY <1>1 DEF Safe, Ready, Custody, SolFollowsStatus, RaiseWithinTerms, Sold,
     CreatorGetsNoStake, GiftsHeld
<1>3. pool.status = "Bought" => pool.tokensBought > 0
  BY DEF Safe, Custody, BuyXorRefund, Sold
<1>4. SpendAllowed <=> pool.status = "Launching" /\ ~GraceOver
  BY <1>1, <1>2 DEF SpendAllowed, Spendable, GraceOver
<1>5. FinalizeAllowed <=> pool.status = "Bought"
  BY <1>3 DEF FinalizeAllowed
<1>6. NextStageFromChain = "refund_window" <=> RefundAllowed
  BY <1>1 DEF NextStageFromChain, RefundAllowed, GraceOver, Statuses
<1>7. NextStageFromChain = "building_bundle" <=> pool.status = "Launching" /\ ~GraceOver
  BY <1>1 DEF NextStageFromChain, Statuses
<1>8. NextStageFromChain = "bought" <=> pool.status = "Bought"
  BY <1>1 DEF NextStageFromChain, Statuses
<1>9. BundleKind = "buy_only" <=> pool.status = "Launching" /\ CurveExists
  BY DEF BundleKind
<1> QED BY <1>4, <1>5, <1>6, <1>7, <1>8, <1>9 DEF StageAgreesWithChain

(* The stage and the bundle the orchestrator concludes are the ones the     *)
(* escrow program accepts, in every execution.                              *)
THEOREM StageAgreesWithChainCorrect == Spec => []StageAgreesWithChain
<1>1. Init => Safe /\ Ready
  BY SafeInit DEF Init, Ready, NoPool, NewPool
<1>2. Safe /\ Ready /\ [Next]_vars => Safe' /\ Ready'
  BY SafeStep, ReadyStep DEF Safe, Step
<1>3. Safe /\ Ready => StageAgreesWithChain
  BY ReadyAgrees
<1> QED BY <1>1, <1>2, <1>3, PTL DEF Spec

-----------------------------------------------------------------------------
(* The executor changes nothing of the escrow program but by its bundles *)

(* A run touches no account.                                                *)
LEMMA RunTouchesNothing ==
  ASSUME NEW r \in Runs, Run(r) PROVE UNCHANGED vars
BY DEF Run, Load, LoadTorn, Announce, Prepare, Sequential, Truncate, Write,
   Post, Answer, Crash

(* A bundle that lands is a step of the escrow program or of Pump, creates  *)
(* the curve and buys at once, or leaves both alone.                        *)
LEMMA LandIsStep ==
  ASSUME NEW r \in Runs, Land(r) \/ LandPartly(r) PROVE [Step]_vars
BY DEF Land, LandPartly, Contained, CreateAndBuy, Step, Next, Instruction, vars

(* So every step of the composition is one the invariant survives.          *)
LEMMA LaunchStep == [LaunchNext]_launchVars => [Step]_vars
<1> SUFFICES ASSUME [LaunchNext]_launchVars PROVE [Step]_vars
  OBVIOUS
<1>1. ASSUME NEW r \in Runs, Run(r) PROVE UNCHANGED vars
  BY <1>1, RunTouchesNothing
<1>2. ASSUME NEW r \in Runs, Land(r) \/ LandPartly(r) PROVE [Step]_vars
  BY <1>2, LandIsStep
<1>3. ASSUME NEW r \in Runs, Drop(r) PROVE UNCHANGED vars
  BY <1>3 DEF Drop
<1>4. CASE Others
  BY <1>4 DEF Others, Step, Next
<1>5. CASE UNCHANGED launchVars
  BY <1>5 DEF launchVars
<1> QED BY <1>1, <1>2, <1>3, <1>4, <1>5 DEF LaunchNext

(* Whatever the executor and the engine do, the ledger, the custody of the  *)
(* lamports and the shares hold as they do without them.                    *)
THEOREM LaunchKeepsSafe == LaunchSpec => []Safe
<1>1. LaunchInit => Safe
  BY SafeInit DEF LaunchInit
<1>2. Safe /\ [LaunchNext]_launchVars => Safe'
  BY LaunchStep, SafeStep
<1> QED BY <1>1, <1>2, PTL DEF LaunchSpec

(* A legal step does not buy while refunds are allowed.                     *)
LEMMA FinalStep ==
  ASSUME TypeOK, Custody, [Step]_vars
  PROVE  /\ RefundAllowed => pool'.status \notin Sold
         /\ pool.status \in Sold => pool'.status \in Sold
<1>1. Legal
  BY StepLegal
<1>2. pool.status \in Statuses /\ now \in Int /\ pool.graceEndsAt \in Int
  BY DEF TypeOK, PoolType, Times
<1> QED BY <1>1, <1>2 DEF Legal, Successors, Statuses, Sold, RefundAllowed

(* Neither a late bundle nor anything else spends a pool whose refunds are  *)
(* open, and a pool that was spent stays so.                                *)
THEOREM RefundWindowIsFinalCorrect == LaunchSpec => RefundWindowIsFinal
<1> DEFINE final == /\ RefundAllowed => pool'.status \notin Sold
                    /\ pool.status \in Sold => pool'.status \in Sold
<1>1. Safe /\ [LaunchNext]_launchVars => [final]_launchVars
  <2> SUFFICES ASSUME Safe, [LaunchNext]_launchVars PROVE [final]_launchVars
    OBVIOUS
  <2>1. [Step]_vars
    BY LaunchStep
  <2> QED BY <2>1, FinalStep DEF Safe
<1> QED BY <1>1, LaunchKeepsSafe, PTL DEF LaunchSpec, RefundWindowIsFinal

-----------------------------------------------------------------------------
(* The state file *)

LaunchTypeOK ==
  /\ pc \in [Runs -> Steps]
  /\ state \in [Runs -> Record]
  /\ file \in Record \cup {NoRecord, Torn}
  /\ bundle \in [Runs -> Fates]

\* A record that does not claim more than the engine, which took the bundles
\* `taken`, said.
Honest(record, taken) ==
  /\ record.stage = "confirming" => record.bundleId \in taken
  /\ record.stage = "failed" => record.error

\* A run that has yet to send its bundle.
Unsent(r) ==
  \/ pc[r] \in {"new", "loaded", "post"}
  \/ pc[r] \in {"open", "write"} /\ state[r].stage = "bundle_submitted"

\* Every record in memory and on disk is honest, the file is there before the
\* bundle goes out, and no run sends twice.
FileInv ==
  /\ LaunchTypeOK
  /\ SubmittedIsRecorded
  /\ RecordTellsAnswer
  /\ \A r \in Runs : Honest(state[r], Accepted)
  /\ \A r \in Runs : pc[r] \in {"write", "post", "await"} => file # NoRecord
  /\ \A r \in Runs : Unsent(r) => bundle[r] = "unsent"

(* What the engine took it has taken, unless a run sends a second time.     *)
LEMMA AcceptedKept ==
  ASSUME FileInv, NEW r \in Runs, NEW fate \in Fates,
         bundle' = [bundle EXCEPT ![r] = fate],
         bundle[r] \in {"unsent", "refused"} \/ fate \in Taken
  PROVE  Accepted \subseteq Accepted' /\ bundle' \in [Runs -> Fates]
BY DEF FileInv, LaunchTypeOK, Accepted, Fates, Taken

(* Every step of the executor, the engine and everyone else keeps FileInv.  *)
LEMMA FileStep == FileInv /\ [LaunchNext]_launchVars => FileInv'
<1> SUFFICES ASSUME FileInv, [LaunchNext]_launchVars PROVE FileInv'
  OBVIOUS
<1> USE DEF FileInv, LaunchTypeOK, SubmittedIsRecorded, RecordTellsAnswer,
            Honest, Unsent, Goto, Steps
<1>f. NoRecord \notin Record /\ Torn \notin Record /\ NoRecord # Torn
  BY FileAssumption
<1>1. ASSUME NEW r \in Runs, NEW mode \in Modes, Load(r, mode) PROVE FileInv'
  <2> DEFINE record == LoadedState(mode)
  <2>1. bundle' = bundle /\ file' = file /\ Accepted' = Accepted
    BY <1>1 DEF Load, Accepted
  <2>2. record \in Record /\ Honest(record, Accepted)
    BY <1>1, <1>f DEF Load, LoadedState, Idle, Record, Stages
  <2>3. state' = [state EXCEPT ![r] = record]
        /\ pc' = [pc EXCEPT ![r] = "loaded"] /\ pc[r] = "new"
    BY <1>1 DEF Load
  <2> HIDE DEF record
  <2> QED BY <2>1, <2>2, <2>3
<1>2. ASSUME NEW r \in Runs, LoadTorn(r) \/ Sequential(r) \/ Crash(r) PROVE FileInv'
  BY <1>2 DEF LoadTorn, Sequential, Crash, Accepted
<1>3. ASSUME NEW r \in Runs, Announce(r) PROVE FileInv'
  BY <1>3 DEF Announce, Accepted, Record, Stages
<1>4. ASSUME NEW r \in Runs, NEW k \in Contents, Prepare(r, k) PROVE FileInv'
  BY <1>4 DEF Prepare, Accepted, Record, Stages
<1>5. ASSUME NEW r \in Runs, Truncate(r) PROVE FileInv'
  BY <1>5, <1>f DEF Truncate, Accepted
<1>6. ASSUME NEW r \in Runs, Write(r) PROVE FileInv'
  BY <1>6, <1>f DEF Write, Accepted
<1>7. ASSUME NEW r \in Runs, Post(r) PROVE FileInv'
  <2>1. PICK fate \in {"queued", "refused"} : bundle' = [bundle EXCEPT ![r] = fate]
    BY <1>7 DEF Post
  <2>2. bundle[r] = "unsent" /\ file # NoRecord
    BY <1>7 DEF Post
  <2>3. Accepted \subseteq Accepted' /\ bundle' \in [Runs -> Fates]
    BY <2>1, <2>2, AcceptedKept DEF Fates, Taken
  <2> QED BY <1>7, <2>1, <2>2, <2>3 DEF Post
<1>8. ASSUME NEW r \in Runs, NEW ok \in BOOLEAN, Answer(r, ok) PROVE FileInv'
  <2> DEFINE record == AfterAnswer(r, ok)
  <2>1. bundle' = bundle /\ file' = file /\ Accepted' = Accepted
    BY <1>8 DEF Answer, Accepted
  <2>2. /\ record \in Record /\ Honest(record, Accepted)
        /\ record.stage \in {"confirming", "failed"}
    BY <1>8 DEF Answer, AfterAnswer, Record, Stages
  <2>3. state' = [state EXCEPT ![r] = record]
        /\ pc' = [pc EXCEPT ![r] = "open"] /\ pc[r] = "await"
    BY <1>8 DEF Answer
  <2> HIDE DEF record
  <2> QED BY <2>1, <2>2, <2>3
<1>9. ASSUME NEW r \in Runs, Land(r) \/ LandPartly(r) \/ Drop(r) PROVE FileInv'
  <2>1. PICK fate \in {"landed", "partial", "dropped"} :
          bundle' = [bundle EXCEPT ![r] = fate]
    BY <1>9 DEF Land, LandPartly, Drop
  <2>2. bundle[r] = "queued" /\ UNCHANGED <<pc, state, file>>
    BY <1>9 DEF Land, LandPartly, Drop
  <2>3. Accepted \subseteq Accepted' /\ bundle' \in [Runs -> Fates]
    BY <2>1, AcceptedKept DEF Fates, Taken
  <2> QED BY <2>1, <2>2, <2>3
<1>10. CASE Others \/ UNCHANGED launchVars
  BY <1>10 DEF Others, launchVars, executor, Accepted
<1> QED
  BY <1>1, <1>2, <1>3, <1>4, <1>5, <1>6, <1>7, <1>8, <1>9, <1>10
     DEF LaunchNext, Run

(* It holds before the first run.                                           *)
LEMMA FileInit == LaunchInit => FileInv
BY FileAssumption DEF LaunchInit, FileInv, LaunchTypeOK, SubmittedIsRecorded,
   RecordTellsAnswer, Honest, Unsent, Idle, Record, Stages, Modes, Steps, Fates,
   Taken, Accepted

(* No bundle goes out before the file says that one may have.               *)
THEOREM SubmittedIsRecordedCorrect == LaunchSpec => []SubmittedIsRecorded
<1>1. FileInv => SubmittedIsRecorded
  BY DEF FileInv
<1> QED BY <1>1, FileInit, FileStep, PTL DEF LaunchSpec

(* Whichever of the overlapping runs wrote it, the record names a bundle    *)
(* the engine took when it says so, and an error when it says so.           *)
THEOREM RecordTellsAnswerCorrect == LaunchSpec => []RecordTellsAnswer
<1>1. FileInv => RecordTellsAnswer
  BY DEF FileInv
<1> QED BY <1>1, FileInit, FileStep, PTL DEF LaunchSpec

-----------------------------------------------------------------------------
(* A bundle that landed *)

\* r's bundle brought the buy and landed whole.
Bought(r) == bundle[r] = "landed" /\ kind[r] \in BundleKinds

(* The chain tells of the buy exactly while the pool's lamports are spent.  *)
LEMMA SoldIsRead ==
  ASSUME TypeOK
  PROVE  NextStageFromChain \in {"bought", "finalized"} <=> pool.status \in Sold
BY DEF TypeOK, PoolType, Statuses, NextStageFromChain, Sold

(* A bundle counts as landed with the buy only by landing: what it contains *)
(* is settled before it is sent.                                            *)
LEMMA BoughtStep ==
  ASSUME FileInv, [LaunchNext]_launchVars, NEW r \in Runs, Bought(r)'
  PROVE  Bought(r) \/ (Land(r) /\ kind[r] \in BundleKinds)
<1> USE DEF Bought
<1>b. bundle \in [Runs -> Fates]
  BY DEF FileInv, LaunchTypeOK
<1>1. ASSUME NEW s \in Runs, NEW k \in Contents, Prepare(s, k) PROVE Bought(r)
  <2>1. bundle' = bundle /\ bundle[s] = "unsent"
    BY <1>1 DEF Prepare, FileInv, Unsent
  <2>2. kind' = [kind EXCEPT ![s] = k] /\ r # s
    BY <1>1, <2>1 DEF Prepare
  <2> QED BY <2>1, <2>2
<1>2. ASSUME NEW s \in Runs, Post(s) PROVE Bought(r)
  BY <1>b, <1>2 DEF Post
<1>3. ASSUME UNCHANGED <<bundle, kind>> PROVE Bought(r)
  BY <1>3
<1>4. ASSUME NEW s \in Runs, Run(s) PROVE Bought(r)
  BY <1>1, <1>2, <1>3, <1>4 DEF Run, Load, LoadTorn, Announce, Sequential, Truncate,
     Write, Answer, Crash
<1>5. ASSUME NEW s \in Runs, LandPartly(s) \/ Drop(s) PROVE Bought(r)
  BY <1>b, <1>5 DEF LandPartly, Drop
<1>6. ASSUME NEW s \in Runs, Land(s) PROVE Bought(r) \/ (Land(r) /\ kind[r] \in BundleKinds)
  BY <1>b, <1>6 DEF Land
<1>7. CASE Others \/ UNCHANGED launchVars
  BY <1>3, <1>7 DEF Others, launchVars, executor
<1> QED BY <1>4, <1>5, <1>6, <1>7 DEF LaunchNext

(* Landing with the buy leaves the pool bought, by this bundle or before.   *)
LEMMA LandBuys ==
  ASSUME TypeOK, NEW r \in Runs, Land(r), kind[r] \in BundleKinds
  PROVE  pool'.status \in Sold
<1>1. ASSUME NEW got \in TokensOut, NEW left \in Unspent, NEW after \in Reserves,
             Spend(got, left, after)
      PROVE  pool'.status \in Sold
  BY <1>1 DEF Spend, TypeOK, PoolType, Sold
<1>2. CASE CreateAndBuy
  BY <1>1, <1>2 DEF CreateAndBuy
<1>3. CASE CompleteBuy
  BY <1>1, <1>3 DEF CompleteBuy, BuyAgain, Buy, vars, Sold
<1> QED BY <1>2, <1>3 DEF Land, Contained, BundleKinds

(* Once a bundle with the buy landed, every run that reads the chain reads  *)
(* so, for any number of runs, retries and strangers.                       *)
THEOREM LandedBuyIsFinalCorrect == LaunchSpec => []LandedBuyIsFinal
<1> DEFINE final == \A r \in Runs : Bought(r) => pool.status \in Sold
<1>1. LaunchInit => final
  BY DEF LaunchInit, Bought
<1>2. Safe /\ FileInv /\ final /\ [LaunchNext]_launchVars => final'
  <2> SUFFICES ASSUME Safe, FileInv, final, [LaunchNext]_launchVars,
                      NEW r \in Runs, Bought(r)'
               PROVE  pool'.status \in Sold
    OBVIOUS
  <2>1. CASE Bought(r)
    BY <2>1, LaunchStep, FinalStep DEF Safe
  <2>2. CASE Land(r) /\ kind[r] \in BundleKinds
    BY <2>2, LandBuys DEF Safe
  <2> QED BY <2>1, <2>2, BoughtStep
<1>3. Safe /\ final => LandedBuyIsFinal
  BY SoldIsRead DEF Safe, LandedBuyIsFinal, Bought
<1> HIDE DEF final
<1> QED
  BY <1>1, <1>2, <1>3, LaunchKeepsSafe, FileInit, FileStep, PTL DEF LaunchSpec
=============================================================================
