---------------------------- MODULE ProgressProofs ----------------------------
(***************************************************************************)
(* What the escrow program owes eventually, whatever the executor and the   *)
(* engine do: stakes are spent or returned, and sales settle.               *)
(*                                                                         *)
(* The fairness of Launch is weak fairness, which speaks of ENABLED.  The   *)
(* proofs need no more of it than this: a transaction sent again and again  *)
(* either fails again and again or succeeds again and again.  They say so   *)
(* with the guards of the handlers, which NoDueCallFails shows to hold.     *)
(***************************************************************************)
EXTENDS SaleProofs

USE NAssumption, LamportAssumption, CountAssumption, TimeAssumption,
    InputAssumption, MintAssumption, CurveAssumption, PumpAssumption, GiftAssumption,
    WordAssumption

\* Contributor c, or anyone in c's place, keeps sending refund.
RefundInsisted(c) ==
  []<>~RefundWorks(c) \/ []<><<Refund(c)>>_launchVars

\* Likewise claim.
ClaimInsisted(c) ==
  []<>~ClaimWorks(c) \/ []<><<Claim(c)>>_launchVars

\* Likewise finalize, with whichever curve account lets it pass.
FinalizeCanWork == \E reserves \in Readable : FinalizeWorks(reserves)

FinalizeInsisted ==
  []<>~FinalizeCanWork \/ []<><<Finalize>>_launchVars

\* A handler can be called whenever its guard holds.
RefundEnabled(c) == ENABLED <<Refund(c) /\ UNCHANGED executor>>_launchVars
ClaimEnabled(c) == ENABLED <<Claim(c) /\ UNCHANGED executor>>_launchVars
FinalizeEnabled == ENABLED <<Finalize /\ UNCHANGED executor>>_launchVars

GuardsEnable ==
  /\ FinalizeCanWork => FinalizeEnabled
  /\ \A c \in Contributors : RefundWorks(c) => RefundEnabled(c)
  /\ \A c \in Contributors : ClaimWorks(c) => ClaimEnabled(c)

(* Weak fairness of refund is insistence on it.                             *)
LEMMA FairRefund ==
  ASSUME NEW d \in Contributors
  PROVE  FairLaunchSpec /\ []GuardsEnable => RefundInsisted(d)
<1>1. GuardsEnable => (RefundWorks(d) => RefundEnabled(d))
  BY DEF GuardsEnable
<1>2. (\A c \in Contributors : RefundFair(c)) => RefundFair(d)
  OBVIOUS
<1>3. FairLaunchSpec => RefundFair(d)
  BY <1>2 DEF FairLaunchSpec, LaunchFairness
<1>4. <<Refund(d) /\ UNCHANGED executor>>_launchVars => <<Refund(d)>>_launchVars
  OBVIOUS
<1>5. RefundFair(d) /\ [](RefundWorks(d) => RefundEnabled(d)) => RefundInsisted(d)
  BY <1>4, PTL DEF RefundFair, RefundEnabled, RefundInsisted
<1> QED
  BY <1>1, <1>3, <1>5, PTL

(* Likewise of claim.                                                       *)
LEMMA FairClaim ==
  ASSUME NEW d \in Contributors
  PROVE  FairLaunchSpec /\ []GuardsEnable => ClaimInsisted(d)
<1>1. GuardsEnable => (ClaimWorks(d) => ClaimEnabled(d))
  BY DEF GuardsEnable
<1>2. (\A c \in Contributors : ClaimFair(c)) => ClaimFair(d)
  OBVIOUS
<1>3. FairLaunchSpec => ClaimFair(d)
  BY <1>2 DEF FairLaunchSpec, LaunchFairness
<1>4. <<Claim(d) /\ UNCHANGED executor>>_launchVars => <<Claim(d)>>_launchVars
  OBVIOUS
<1>5. ClaimFair(d) /\ [](ClaimWorks(d) => ClaimEnabled(d)) => ClaimInsisted(d)
  BY <1>4, PTL DEF ClaimFair, ClaimEnabled, ClaimInsisted
<1> QED
  BY <1>1, <1>3, <1>5, PTL

(* Likewise of finalize.                                                    *)
LEMMA FairFinalize == FairLaunchSpec /\ []GuardsEnable => FinalizeInsisted
<1>1. GuardsEnable => (FinalizeCanWork => FinalizeEnabled)
  BY DEF GuardsEnable
<1>2. <<Finalize /\ UNCHANGED executor>>_launchVars => <<Finalize>>_launchVars
  OBVIOUS
<1> QED
  BY <1>1, <1>2, PTL
     DEF FairLaunchSpec, LaunchFairness, FinalizeFair, FinalizeEnabled, FinalizeInsisted

(* The executor and the engine disturb nothing a due call relies on.        *)
LEMMA LaunchKeepsSound == LaunchSpec => []Sound
<1>1. LaunchInit => Sound
  BY SoundInit DEF LaunchInit
<1>2. Sound /\ [LaunchNext]_launchVars => Sound'
  BY LaunchStep, SoundStep
<1> QED BY <1>1, <1>2, PTL DEF LaunchSpec

(* What the program owes its contributors it owes them beside the executor  *)
(* and the engine too, whose bundles overlap, are repeated or get lost: no  *)
(* due call fails, the vault covers every claim, the count is the number of *)
(* the stakes, everybody is paid the share, which is within the recorded    *)
(* price, and no terms open the refunds before the launch.                  *)
THEOREM LaunchKeepsPromises ==
  LaunchSpec => [](/\ NoDueCallFails /\ VaultCoversClaims
                   /\ CountMatchesStakes /\ SameShareForAll
                   /\ ShareWithinRecordedPrice /\ RefundsWaitForLaunch)
<1>1. Sound => NoDueCallFails /\ VaultCoversClaims
  BY DueCallsWork, VaultCovers DEF Sound
<1>2. Sound => CountMatchesStakes
  BY StakedCount DEF Sound, Counted, CountMatchesStakes, Counting
<1>3. Sound => SameShareForAll
  BY DEF Sound, Safe, Shares
<1>4. LaunchInit => Priced
  BY PricedInit DEF LaunchInit
<1>5. Sound /\ Priced /\ [LaunchNext]_launchVars => Priced'
  BY LaunchStep, PricedStep DEF Sound
<1>6. Sound /\ Priced => ShareWithinRecordedPrice
  BY ShareIsPriced DEF Sound
<1>7. LaunchInit => Windowed
  BY WindowedInit DEF LaunchInit
<1>8. Sound /\ Windowed /\ [LaunchNext]_launchVars => Windowed'
  BY LaunchStep, WindowedStep DEF Sound, Safe
<1>9. Sound /\ Windowed => RefundsWaitForLaunch
  BY WindowedWaits DEF Sound, Safe
<1> QED
  BY <1>1, <1>2, <1>3, <1>4, <1>5, <1>6, <1>7, <1>8, <1>9, LaunchKeepsSound, PTL
     DEF LaunchSpec

-----------------------------------------------------------------------------
(* The clock *)

\* The clock gets to every moment there is.
Reaches(t) == <>(now >= t)
ClockRuns == \A t \in Times : Reaches(t)

(* No transaction turns the clock back.                                     *)
LEMMA ClockStep == TypeOK /\ [Step]_vars => now' >= now
<1> SUFFICES ASSUME TypeOK, [Step]_vars PROVE now' >= now
  OBVIOUS
<1>1. now \in Int
  BY DEF TypeOK, Times
<1>2. now' = now \/ now' = now + 1
  BY DEF Step, Next, Instruction, CompleteBuy, Buy, Finalize, CreatePool, Contribute,
         BeginLaunch, Spend, FinalizeAt, Claim, Refund, MarkRefundable, ClosePool,
         PumpCreate, Trade, Tick, BuyAgain, GiveSome, Give, vars
<1> QED BY <1>1, <1>2

\* Again and again the pool at hand is past its grace period.
GracePasses == []<>(now >= pool.graceEndsAt)

(* A clock that gets to the last timestamp an account can hold gets past    *)
(* every grace period.                                                      *)
LEMMA ClockPassesGrace == LaunchSpec /\ ClockRuns => GracePasses
<1>1. ClockRuns => Reaches(MaxTime)
  <2>1. MaxTime \in Times
    BY DEF Times
  <2> QED BY <2>1 DEF ClockRuns
<1>2. Sound /\ now >= MaxTime /\ [LaunchNext]_launchVars => (now >= MaxTime)'
  <2> SUFFICES ASSUME Sound, now >= MaxTime, [LaunchNext]_launchVars
               PROVE  now' >= MaxTime
    OBVIOUS
  <2>1. now' >= now
    BY ClockStep, LaunchStep DEF Sound, Safe
  <2>2. TypeOK /\ TypeOK'
    BY LaunchStep, StepType DEF Sound, Safe
  <2> QED BY <2>1, <2>2 DEF TypeOK, Times
<1>3. Sound /\ now >= MaxTime => now >= pool.graceEndsAt
  BY DEF Sound, Safe, TypeOK, PoolType, Times
<1> QED
  BY <1>1, <1>2, <1>3, LaunchKeepsSound, PTL DEF LaunchSpec, GracePasses, Reaches

-----------------------------------------------------------------------------
(* Stakes are spent or returned *)

\* c has a stake in a pool that has not bought.
Waiting(c) == contribution[c].amount > 0 /\ pool.status \notin Sold

\* c's lamports were spent with the pool's, or are back.
SpentOrReturned(c) == pool.status \in Sold \/ wallet[c] = Funds

(* Whoever waits waits on, for the end of the same grace period, or is      *)
(* through: nothing but the buy and the contributor's own refund ends it.   *)
LEMMA WaitingStep ==
  ASSUME Sound, NEW c \in Contributors, Waiting(c), [Step]_vars
  PROVE  \/ /\ Waiting(c)'
            /\ pool'.graceEndsAt = pool.graceEndsAt /\ now' >= now
         \/ SpentOrReturned(c)'
<1>t. /\ TypeOK /\ Safe
      /\ contribution[c].amount \in Nat
      /\ contribution[c].amount <= pool.totalContributed
      /\ now \in Int
  BY StakeWithinTotal DEF Sound, Safe, TypeOK, Times
<1> USE DEF TypeOK, PoolType, Waiting, SpentOrReturned, Sold
<1>0. pool.status # "None" /\ pool.totalContributed > 0
  <2>1. c \in Staked
    BY DEF Staked
  <2>2. pool.totalContributed \in Nat
    BY <1>t DEF U64
  <2> QED BY <1>t, <2>1, <2>2 DEF Safe, LedgerMatchesStakes
<1>1. ASSUME NEW launchAt \in Times, NEW grace \in Times,
             NEW minRaise \in Limits, NEW maxPool \in Limits,
             NEW minContribution \in Limits,
             CreatePool(launchAt, grace, minRaise, maxPool, minContribution)
      PROVE  FALSE
  BY <1>0, <1>1 DEF CreatePool
<1>2. ASSUME NEW k \in Contributors, NEW amount \in Amounts, Contribute(k, amount)
      PROVE  Waiting(c)' /\ pool'.graceEndsAt = pool.graceEndsAt /\ now' = now
  <2>1. /\ pool'.status = pool.status /\ pool'.graceEndsAt = pool.graceEndsAt
        /\ now' = now
    BY <1>t, <1>2 DEF Contribute
  <2>2. contribution'[c].amount >= contribution[c].amount
    BY <1>t, <1>2 DEF Contribute, Increased, ContributionType, U64
  <2>3. contribution'[c].amount \in Int
    BY <1>t, <1>2 DEF Contribute, Increased, ContributionType, U64
  <2> QED BY <1>t, <2>1, <2>2, <2>3
<1>3. ASSUME NEW mint \in Mints \cup {NoMint}, BeginLaunch(mint)
      PROVE  Waiting(c)' /\ pool'.graceEndsAt = pool.graceEndsAt /\ now' = now
  BY <1>t, <1>3 DEF BeginLaunch
<1>4. ASSUME NEW got \in TokensOut, NEW left \in Unspent, NEW after \in Reserves,
             Spend(got, left, after)
      PROVE  SpentOrReturned(c)'
  BY <1>t, <1>4 DEF Spend
<1>5. ASSUME NEW reserves \in Readable, FinalizeAt(reserves)
      PROVE  FALSE
  BY <1>5 DEF FinalizeAt, FinalizeWorks, FinalizeAllowed
<1>6. ASSUME NEW k \in Contributors, Claim(k)
      PROVE  FALSE
  BY <1>6 DEF Claim, ClaimWorks
<1>7. ASSUME NEW k \in Contributors, Refund(k)
      PROVE  \/ /\ Waiting(c)'
                /\ pool'.graceEndsAt = pool.graceEndsAt /\ now' = now
             \/ SpentOrReturned(c)'
  <2>1. /\ pool'.status = "Refundable" /\ pool'.graceEndsAt = pool.graceEndsAt
        /\ now' = now
    BY <1>t, <1>7 DEF Refund, RefundWorks, RefundAllowed, StatusAfterRefund
  <2>2. CASE k = c
    <3>1. wallet'[c] = wallet[c] + contribution[c].amount
      BY <1>t, <1>7, <2>2 DEF Refund
    <3>2. wallet[c] + contribution[c].amount = Funds
      BY <1>t DEF Safe, Custody, WholeUntilBuy
    <3> QED BY <3>1, <3>2
  <2>3. CASE k # c
    <3>1. contribution'[c] = contribution[c]
      BY <1>t, <1>7, <2>3 DEF Refund
    <3> QED BY <2>1, <3>1
  <2> QED BY <2>2, <2>3
<1>8. CASE MarkRefundable
  BY <1>t, <1>8 DEF MarkRefundable
<1>9. CASE ClosePool
  BY <1>0, <1>9 DEF ClosePool, CloseAllowed
<1>10. ASSUME UNCHANGED <<pool, contribution, wallet>>, now' \in {now, now + 1}
       PROVE  Waiting(c)' /\ pool'.graceEndsAt = pool.graceEndsAt /\ now' >= now
  BY <1>t, <1>10
<1>11. ASSUME NEW m \in Mints, PumpCreate(m) \/ Trade(m)
       PROVE  Waiting(c)' /\ pool'.graceEndsAt = pool.graceEndsAt /\ now' >= now
  BY <1>10, <1>11 DEF PumpCreate, Trade
<1>12. CASE Tick
  BY <1>10, <1>12 DEF Tick
<1>13. CASE BuyAgain \/ UNCHANGED vars
  BY <1>10, <1>13 DEF BuyAgain, vars
<1>14. CASE GiveSome
  BY <1>10, <1>14 DEF GiveSome, Give
<1> QED
  BY <1>t, <1>1, <1>2, <1>3, <1>4, <1>5, <1>6, <1>7, <1>8, <1>9, <1>11, <1>12,
     <1>13, <1>14 DEF Step, Next, Instruction, CompleteBuy, Buy, Finalize

(* However the launch goes, and whether it is ever tried, every stake is    *)
(* spent by the buy or back with its contributor, if the clock goes on and  *)
(* the contributor insists.  Nobody else's call is needed.                  *)
THEOREM StakeIsSpentOrReturnedCorrect ==
  LaunchSpec /\ ClockRuns /\ (\A c \in Contributors : RefundInsisted(c))
    => StakeIsSpentOrReturned
<1> SUFFICES
      ASSUME NEW c \in Contributors
      PROVE  LaunchSpec /\ ClockRuns /\ (\A k \in Contributors : RefundInsisted(k))
               => (contribution[c].amount > 0 ~>
                     (pool.status \in Sold \/ wallet[c] = Funds))
  BY DEF StakeIsSpentOrReturned
<1> DEFINE over == now >= pool.graceEndsAt
<1>1. (\A k \in Contributors : RefundInsisted(k)) => RefundInsisted(c)
  OBVIOUS
<1>2. contribution[c].amount > 0 => Waiting(c) \/ SpentOrReturned(c)
  BY DEF Waiting, SpentOrReturned
<1>3. Sound /\ Waiting(c) /\ [LaunchNext]_launchVars
        => Waiting(c)' \/ SpentOrReturned(c)'
  BY WaitingStep, LaunchStep
<1>4. Sound /\ Waiting(c) /\ over /\ [LaunchNext]_launchVars
        => over' \/ SpentOrReturned(c)'
  <2> SUFFICES ASSUME Sound, Waiting(c), over, [LaunchNext]_launchVars,
                      ~SpentOrReturned(c)'
               PROVE  over'
    OBVIOUS
  <2>1. pool'.graceEndsAt = pool.graceEndsAt /\ now' >= now
    BY WaitingStep, LaunchStep
  <2>2. TypeOK /\ TypeOK'
    BY LaunchStep, StepType DEF Sound, Safe
  <2>3. now \in Int /\ now' \in Int /\ pool.graceEndsAt \in Int
    BY <2>2 DEF TypeOK, PoolType, Times
  <2> QED BY <2>1, <2>3
<1>5. Sound /\ Waiting(c) /\ over => RefundWorks(c)
  <2> SUFFICES ASSUME Sound, Waiting(c), over PROVE RefundWorks(c)
    OBVIOUS
  <2>1. c \in Staked /\ pool.status \in Statuses /\ pool.status # "Closed"
    BY DEF Waiting, Staked, Sound, Safe, TypeOK, PoolType, Accounted
  <2>2. pool.status # "None"
    BY <2>1 DEF Sound, Safe, LedgerMatchesStakes
  <2>3. RefundAllowed
    BY <2>1, <2>2 DEF RefundAllowed, Statuses, Waiting, Sold
  <2> QED BY <2>1, <2>3, RefundIsDue
<1>6. Sound /\ Waiting(c) /\ <<Refund(c)>>_launchVars => SpentOrReturned(c)'
  <2> SUFFICES ASSUME Sound, Waiting(c), Refund(c) PROVE SpentOrReturned(c)'
    OBVIOUS
  <2>1. wallet'[c] = wallet[c] + contribution[c].amount
    BY DEF Refund, Sound, Safe, TypeOK
  <2>2. wallet[c] + contribution[c].amount = Funds
    BY DEF Waiting, Sound, Safe, Custody, WholeUntilBuy
  <2> QED BY <2>1, <2>2 DEF SpentOrReturned
<1> QED
  BY <1>1, <1>2, <1>3, <1>4, <1>5, <1>6, LaunchKeepsSound, ClockPassesGrace, PTL
     DEF LaunchSpec, GracePasses, RefundInsisted, SpentOrReturned

-----------------------------------------------------------------------------
(* Sales settle *)

\* c has a stake in a pool that bought, and in one that is finalized.
Sharing(c) == contribution[c].amount > 0 /\ pool.status = "Bought"
Claiming(c) == contribution[c].amount > 0 /\ pool.status = "Finalized"

\* c has the tokens the stake is worth.
Settled(c) == pool.status = "Finalized" /\ tokens[c] = Share(c)

(* The stake of a pool that bought stays as it is, and the pool moves on to *)
(* nothing but finalized.                                                   *)
LEMMA SharingStep ==
  ASSUME Sound, NEW c \in Contributors, [Step]_vars
  PROVE  /\ Sharing(c) => Sharing(c)' \/ Claiming(c)'
         /\ Claiming(c) => Claiming(c)'
<1>1. TypeOK /\ Legal
  BY StepLegal DEF Sound, Safe
<1>2. pool.status \in Sold => contribution'[c].amount = contribution[c].amount
  <2>1. pool.status \in Sold => Amount'[c] = Amount[c]
    BY <1>1 DEF Legal, StakesKept
  <2> QED BY <2>1 DEF Amount
<1>3. pool.status = "Bought" => pool'.status \in {"Bought", "Finalized"}
  BY <1>1 DEF Legal, Successors
<1>4. pool.status = "Finalized" => pool'.status = "Finalized"
  BY <1>1 DEF Legal, Successors
<1> QED BY <1>2, <1>3, <1>4 DEF Sharing, Claiming, Sold

(* The snapshot the buy left is always there to finalize with.              *)
LEMMA SnapshotFinalizes ==
  ASSUME \A r \in Reserves : r.token > 0 /\ r.quote > 0,
         Sound, pool.status = "Bought"
  PROVE  FinalizeCanWork
<1>1. pool.postReserves \in Readable
  BY DEF Readable
<1>2. pool.postReserves \in Reserves
  BY DEF Sound, Accounted
<1>3. FinalizeWorks(pool.postReserves)
  BY <1>1, <1>2, FinalizeIsDue
<1> QED BY <1>1, <1>3 DEF FinalizeCanWork

(* Whoever has a claim can claim, unless nothing is left to get.            *)
LEMMA UnsettledCanClaim ==
  ASSUME Sound, NEW c \in Contributors, Claiming(c), ~Settled(c)
  PROVE  ClaimWorks(c)
<1>1. TypeOK /\ c \in Staked /\ pool.status = "Finalized"
  BY DEF Sound, Safe, Claiming, Staked
<1>2. tokens[c] = IF contribution[c].claimed THEN Share(c) ELSE 0
  BY DEF Sound, Safe, Shares, SameShareForAll
<1>3. ~contribution[c].claimed /\ Share(c) # 0
  BY <1>1, <1>2 DEF Settled
<1>4. Share(c) \in Nat
  <2>1. /\ pool.distributable \in U64 /\ contribution[c].amount \in U64
        /\ pool.totalContributed \in U64
    BY <1>1 DEF TypeOK, PoolType, ContributionType
  <2>2. pool.totalContributed > 0
    BY <1>1 DEF Sound, Safe, Custody, SpentIsRaised, Sold
  <2>3. Share(c) \in U64
    BY <2>1, <2>2, AllocationType DEF Share
  <2> QED BY <2>3 DEF U64
<1> QED BY <1>1, <1>3, <1>4, ClaimIsDue

(* After the buy everyone with a stake gets what it is worth, provided that *)
(* curves have reserves and that someone insists on finalize and the        *)
(* contributor on claim.  The creator and the orchestrator owe no call.     *)
THEOREM SaleSettlesCorrect ==
  ASSUME \A r \in Reserves : r.token > 0 /\ r.quote > 0
  PROVE  LaunchSpec /\ FinalizeInsisted /\ (\A c \in Contributors : ClaimInsisted(c))
           => SaleSettles
<1> SUFFICES
      ASSUME NEW c \in Contributors
      PROVE  /\ LaunchSpec /\ FinalizeInsisted
             /\ \A k \in Contributors : ClaimInsisted(k)
             => ((pool.status = "Bought" /\ contribution[c].amount > 0) ~>
                   (pool.status = "Finalized" /\ tokens[c] = Share(c)))
  BY DEF SaleSettles
<1>1. (\A k \in Contributors : ClaimInsisted(k)) => ClaimInsisted(c)
  OBVIOUS
<1>2. pool.status = "Bought" /\ contribution[c].amount > 0 => Sharing(c)
  BY DEF Sharing
<1>3. Sound /\ Sharing(c) /\ [LaunchNext]_launchVars => Sharing(c)' \/ Claiming(c)'
  BY SharingStep, LaunchStep
<1>4. Sound /\ Claiming(c) /\ [LaunchNext]_launchVars => Claiming(c)'
  BY SharingStep, LaunchStep
<1>5. Sound /\ Sharing(c) => FinalizeCanWork
  BY SnapshotFinalizes DEF Sharing
<1>6. Sound /\ Sharing(c) /\ <<Finalize>>_launchVars => Claiming(c)'
  BY DEF Sharing, Claiming, Finalize, FinalizeAt, Sound, Safe, TypeOK, PoolType
<1>7. Sound /\ Claiming(c) => ClaimWorks(c) \/ Settled(c)
  BY UnsettledCanClaim
<1>8. Sound' /\ Sound /\ <<Claim(c)>>_launchVars => Settled(c)'
  <2> SUFFICES ASSUME Sound, Sound', Claim(c) PROVE Settled(c)'
    OBVIOUS
  <2>1. contribution'[c].claimed /\ pool'.status = "Finalized"
    BY DEF Claim, ClaimWorks, AfterClaim, Sound, Safe, TypeOK, PoolType, ContributionType
  <2>2. tokens'[c] = IF contribution'[c].claimed THEN Share(c)' ELSE 0
    BY DEF Sound, Safe, Shares, SameShareForAll
  <2> QED BY <2>1, <2>2 DEF Settled
<1> QED
  BY <1>1, <1>2, <1>3, <1>4, <1>5, <1>6, <1>7, <1>8, LaunchKeepsSound, PTL
     DEF LaunchSpec, FinalizeInsisted, ClaimInsisted, Settled

-----------------------------------------------------------------------------
(* The sale the escrow program implements *)

(* What settles an account of the program settles a person of the sale.     *)
LEMMA SaleReads ==
  ASSUME Sound, NEW c \in Contributors
  PROVE  /\ Amount[c] = contribution[c].amount
         /\ Phase = "sold" <=> pool.status = "Bought"
         /\ SpentOrReturned(c) => Phase \in {"sold", "paying"} \/ wallet[c] = Funds
         /\ Settled(c) =>
              /\ Phase = "paying"
              /\ tokens[c] = (pool.distributable * Amount[c]) \div Sale!Total
<1>1. Amount[c] = contribution[c].amount
  BY DEF Amount
<1>2. /\ Phase = "sold" <=> pool.status = "Bought"
      /\ pool.status = "Finalized" => Phase = "paying"
  BY DEF Phase
<1>3. ASSUME Settled(c)
      PROVE  tokens[c] = (pool.distributable * Amount[c]) \div Sale!Total
  <2>1. /\ pool.distributable \in U64 /\ pool.totalContributed \in U64
        /\ pool.totalContributed > 0
    BY <1>3 DEF Settled, Sound, Safe, TypeOK, PoolType, Custody, SpentIsRaised, Sold
  <2>2. Amount[c] \in Nat /\ Amount[c] <= pool.totalContributed
    BY <1>1, StakeWithinTotal DEF Sound
  <2>3. Share(c) = Allocation(pool.distributable, Amount[c], pool.totalContributed)
    BY <1>1 DEF Share
  <2>4. Share(c) = (pool.distributable * Amount[c]) \div pool.totalContributed
    BY <2>1, <2>2, <2>3, ShareIsQuotient
  <2> QED BY <1>3, <2>4, SaleTotal DEF Settled, Sound
<1> QED BY <1>1, <1>2, <1>3 DEF SpentOrReturned, Settled, Sold

(* Beside the steps of a sale (LaunchImplementsSale) the program has its    *)
(* progress: with the same insistence the sale leaves nobody stuck.         *)
THEOREM NothingStuckCorrect ==
  ASSUME \A r \in Reserves : r.token > 0 /\ r.quote > 0
  PROVE  /\ LaunchSpec /\ ClockRuns /\ FinalizeInsisted
         /\ \A c \in Contributors : RefundInsisted(c)
         /\ \A c \in Contributors : ClaimInsisted(c)
         => NothingStuckInSale
<1> DEFINE premise == /\ LaunchSpec /\ ClockRuns /\ FinalizeInsisted
                      /\ \A c \in Contributors : RefundInsisted(c)
                      /\ \A c \in Contributors : ClaimInsisted(c)
<1>1. premise => LaunchSpec /\ StakeIsSpentOrReturned /\ SaleSettles
  BY StakeIsSpentOrReturnedCorrect, SaleSettlesCorrect
<1> HIDE DEF premise
<1>2. ASSUME NEW c \in Contributors
      PROVE  premise => Sale!SpentOrBack(c)
  <2>1. StakeIsSpentOrReturned => (contribution[c].amount > 0 ~>
                                     (pool.status \in Sold \/ wallet[c] = Funds))
    BY DEF StakeIsSpentOrReturned
  <2>2. Sound => (Amount[c] > 0 => contribution[c].amount > 0)
    BY SaleReads
  <2>3. Sound => (pool.status \in Sold \/ wallet[c] = Funds
                    => Phase \in {"sold", "paying"} \/ wallet[c] = Funds)
    BY SaleReads DEF SpentOrReturned
  <2> QED
    BY <1>1, <2>1, <2>2, <2>3, LaunchKeepsSound, PTL DEF Sale!SpentOrBack
<1>3. ASSUME NEW c \in Contributors
      PROVE  premise => Sale!WorthServed(c)
  <2>1. SaleSettles => ((pool.status = "Bought" /\ contribution[c].amount > 0) ~>
                          (pool.status = "Finalized" /\ tokens[c] = Share(c)))
    BY DEF SaleSettles
  <2>2. Sound => (Phase = "sold" /\ Amount[c] > 0
                    => pool.status = "Bought" /\ contribution[c].amount > 0)
    BY SaleReads
  <2>3. Sound => (pool.status = "Finalized" /\ tokens[c] = Share(c)
                    => /\ Phase = "paying"
                       /\ tokens[c] = (pool.distributable * Amount[c]) \div Sale!Total)
    BY SaleReads DEF Settled
  <2> QED
    BY <1>1, <2>1, <2>2, <2>3, LaunchKeepsSound, PTL DEF Sale!WorthServed
<1>4. premise => \A c \in Contributors : Sale!SpentOrBack(c) /\ Sale!WorthServed(c)
  BY <1>2, <1>3
<1> QED
  BY <1>4 DEF premise, NothingStuckInSale, Sale!NothingStuck, Sale!People, Contributors

-----------------------------------------------------------------------------
(* The fair specification *)

(* Whoever insists gets through, in the terms of weak fairness: under the   *)
(* fairness Launch states nobody's stake is stuck and every sale settles,   *)
(* given that the clock runs and that a guard enables its action.           *)
THEOREM FairLaunchIsLive ==
  ASSUME \A r \in Reserves : r.token > 0 /\ r.quote > 0
  PROVE  FairLaunchSpec /\ []GuardsEnable /\ ClockRuns
           => StakeIsSpentOrReturned /\ SaleSettles /\ NothingStuckInSale
<1>1. FairLaunchSpec /\ []GuardsEnable => \A c \in Contributors : RefundInsisted(c)
  BY FairRefund
<1>2. FairLaunchSpec /\ []GuardsEnable => \A c \in Contributors : ClaimInsisted(c)
  BY FairClaim
<1>3. LaunchSpec /\ FinalizeInsisted /\ (\A c \in Contributors : ClaimInsisted(c))
        => SaleSettles
  BY SaleSettlesCorrect
<1>4. /\ LaunchSpec /\ ClockRuns /\ FinalizeInsisted
      /\ \A c \in Contributors : RefundInsisted(c)
      /\ \A c \in Contributors : ClaimInsisted(c)
      => NothingStuckInSale
  BY NothingStuckCorrect
<1> QED
  BY <1>1, <1>2, <1>3, <1>4, FairFinalize, StakeIsSpentOrReturnedCorrect,
     PTL
     DEF FairLaunchSpec
=============================================================================
