---------------------------- MODULE EscrowProofs ----------------------------
(***************************************************************************)
(* Proofs about the escrow program for any number of contributors, any      *)
(* amounts, any mints and any answers of Pump.                              *)
(***************************************************************************)
EXTENDS EscrowProperties, SumsProofs

-----------------------------------------------------------------------------
(* The arithmetic of BurnMath *)

(* A conversion to u64 yields a u64.                                        *)
LEMMA AsU64Type ==
  ASSUME NEW n \in Nat PROVE AsU64(n) \in U64
BY WordAssumption DEF AsU64, U64

(* A quotient of naturals is a natural, and times the divisor it does not   *)
(* exceed the dividend.                                                     *)
LEMMA Quotient ==
  ASSUME NEW a \in Nat, NEW b \in Nat \ {0}
  PROVE  /\ a \div b \in Nat
         /\ (a \div b) * b <= a
         /\ a < (a \div b) * b + b
OBVIOUS

(* u128 products of the split are naturals.                                 *)
LEMMA ProductNatural ==
  ASSUME NEW a \in Nat, NEW b \in Nat PROVE a * b \in Nat
OBVIOUS

(* What finalize stores: a share no larger than the tokens bought, and the  *)
(* rest of them to burn.                                                    *)
LEMMA DistributableType ==
  ASSUME NEW total \in U64, NEW bought \in U64, NEW vtok \in U64,
         NEW vquote \in U64, vquote > 0
  PROVE  /\ Distributable(total, bought, vtok, vquote) \in U64
         /\ Distributable(total, bought, vtok, vquote) <= bought
         /\ Burned(total, bought, vtok, vquote) \in U64
         /\ Burned(total, bought, vtok, vquote)
              = bought - Distributable(total, bought, vtok, vquote)
<1> DEFINE worth == AsU64(MarketWorth(total, vtok, vquote))
<1>1. total * vtok \in Nat
  BY ProductNatural, WordAssumption DEF U64
<1>2. MarketWorth(total, vtok, vquote) \in Nat
  BY <1>1, Quotient, WordAssumption DEF MarketWorth, U64
<1>3. worth \in U64
  BY <1>2, AsU64Type
<1>4. Distributable(total, bought, vtok, vquote)
        = IF worth > bought THEN bought ELSE worth
  BY DEF Distributable
<1> HIDE DEF worth
<1> QED BY <1>3, <1>4, WordAssumption DEF U64, Burned

(* A share is a u64.                                                        *)
LEMMA AllocationType ==
  ASSUME NEW d \in U64, NEW x \in U64, NEW total \in U64, total > 0
  PROVE  Allocation(d, x, total) \in U64
<1>1. d * x \in Nat
  BY ProductNatural, WordAssumption DEF U64
<1>2. (d * x) \div total \in Nat
  BY <1>1, Quotient, WordAssumption DEF U64
<1> QED BY <1>2, AsU64Type, WordAssumption DEF Allocation, U64

-----------------------------------------------------------------------------
(* Types *)

USE NAssumption, LamportAssumption, CountAssumption, TimeAssumption,
    InputAssumption, MintAssumption, CurveAssumption, PumpAssumption, GiftAssumption,
    WordAssumption

(* A pool account is well typed as create_pool writes it.                   *)
LEMMA NewPoolType ==
  ASSUME NEW launchAt \in Times, NEW grace \in Times, GraceEnd(launchAt, grace) \in Times,
         NEW minRaise \in U64, NEW maxPool \in U64, NEW minContribution \in U64
  PROVE  NewPool(launchAt, grace, minRaise, maxPool, minContribution) \in PoolType
BY DEF NewPool, PoolType, Statuses, ReservePairs, U64, Times

(* So is the account that is not there.                                     *)
LEMMA NoPoolType == NoPool \in PoolType
<1>1. NewPool(0, 0, 0, 0, 0) \in PoolType
  BY NewPoolType DEF GraceEnd, Times, U64
<1> QED BY <1>1 DEF NoPool, PoolType, Statuses

(* Before anything happened, every balance and field has its type.          *)
LEMMA InitType == Init => TypeOK
<1> SUFFICES ASSUME Init PROVE TypeOK
  OBVIOUS
<1>1. pool \in PoolType
  BY NoPoolType DEF Init
<1>2. contribution \in [Contributors -> ContributionType]
  BY DEF Init, NoContribution, ContributionType, U64
<1>3. now \in Times /\ curve \in [Mints -> ReservePairs \cup {NoCurve}]
  BY DEF Init, Times
<1>4. /\ wallet \in [Contributors -> Nat] /\ tokens \in [Contributors -> Nat]
      /\ escrow \in Nat /\ buyer \in Nat /\ paid \in Nat /\ returned \in Nat
      /\ vault \in Nat /\ given \in 0 .. GiftMax
  BY DEF Init, U64
<1> QED BY <1>1, <1>2, <1>3, <1>4 DEF TypeOK

\* A step of the specification, or the buy of a bundle that created the curve
\* the moment before: a Buy without the curve there.
Step ==
  \/ Next
  \/ \E got \in TokensOut, left \in Unspent, after \in Reserves :
       Spend(got, left, after)

(* Every action keeps the types.                                            *)
LEMMA StepType == TypeOK /\ [Step]_vars => TypeOK'
<1> SUFFICES ASSUME TypeOK, [Step]_vars PROVE TypeOK'
  OBVIOUS
<1> USE DEF TypeOK
<1>1. ASSUME NEW launchAt \in Times, NEW grace \in Times,
             NEW minRaise \in Limits, NEW maxPool \in Limits,
             NEW minContribution \in Limits,
             CreatePool(launchAt, grace, minRaise, maxPool, minContribution)
      PROVE  TypeOK'
  <2>1. GraceEnd(launchAt, grace) \in Times
    BY <1>1 DEF CreatePool, TermsValid, GraceEnd, Times
  <2>2. pool' \in PoolType
    BY <1>1, <2>1, NewPoolType DEF CreatePool
  <2> QED BY <1>1, <2>2 DEF CreatePool
<1>2. ASSUME NEW c \in Contributors, NEW amount \in Amounts, Contribute(c, amount)
      PROVE  TypeOK'
  <2>1. pool' \in PoolType
    <3> DEFINE total == pool.totalContributed + amount
               count == IF IsNew(c) THEN pool.contributorCount + 1
                                    ELSE pool.contributorCount
    <3>1. total \in U64
      BY <1>2 DEF Contribute
    <3>2. count \in 0 .. CountMax
      BY <1>2 DEF Contribute, MayContribute, PoolType
    <3>3. pool' = [pool EXCEPT !.totalContributed = total, !.contributorCount = count]
      BY <1>2 DEF Contribute
    <3> HIDE DEF total, count
    <3> QED BY <3>1, <3>2, <3>3 DEF PoolType
  <2>2. contribution' \in [Contributors -> ContributionType]
    BY <1>2 DEF Contribute, Increased, ContributionType
  <2>3. wallet' \in [Contributors -> Nat] /\ escrow' \in Nat
    BY <1>2 DEF Contribute, U64
  <2> QED BY <1>2, <2>1, <2>2, <2>3 DEF Contribute
<1>3. ASSUME NEW mint \in Mints \cup {NoMint}, BeginLaunch(mint)
      PROVE  TypeOK'
  <2>1. pool' \in PoolType
    BY <1>3 DEF BeginLaunch, PoolType, Statuses
  <2> QED BY <1>3, <2>1 DEF BeginLaunch
<1>4. ASSUME NEW got \in TokensOut, NEW left \in Unspent, NEW after \in Reserves,
             Spend(got, left, after)
      PROVE  TypeOK'
  <2>1. pool' \in PoolType
    BY <1>4 DEF Spend, SpendAllowed, PoolType, Statuses
  <2>2. escrow' \in Nat /\ buyer' \in Nat /\ paid' \in Nat /\ vault' \in Nat
    BY <1>4 DEF Spend, PumpBuy, SpendAllowed, Spendable, PoolType, U64
  <2>3. curve' \in [Mints -> ReservePairs \cup {NoCurve}]
    BY <1>4 DEF Spend, PumpBuy
  <2> QED BY <1>4, <2>1, <2>2, <2>3 DEF Spend, PumpBuy
<1>5. ASSUME NEW reserves \in Readable, FinalizeAt(reserves)
      PROVE  TypeOK'
  <2>1. reserves \in ReservePairs /\ reserves.token \in U64 /\ reserves.quote \in U64
    BY DEF Readable, PoolType, ReservePairs
  <2> DEFINE total == pool.totalContributed
             bought == pool.tokensBought
             shared == Distributable(total, bought, reserves.token, reserves.quote)
             burned == Burned(total, bought, reserves.token, reserves.quote)
  <2>2. total \in U64 /\ bought \in U64 /\ reserves.quote > 0
    BY <1>5 DEF PoolType, FinalizeAt, FinalizeWorks
  <2>3. shared \in U64 /\ burned \in U64
    BY <2>1, <2>2, DistributableType
  <2>4. /\ pool' = [pool EXCEPT
              !.distributable = shared, !.burned = burned,
              !.postReserves = reserves, !.status = "Finalized"]
        /\ vault >= burned /\ vault' = vault - burned
    BY <1>5 DEF FinalizeAt, FinalizeWorks
  <2> HIDE DEF shared, burned
  <2>5. pool' \in PoolType
    BY <2>1, <2>3, <2>4 DEF PoolType, Statuses
  <2>6. vault' \in Nat
    BY <2>3, <2>4 DEF U64
  <2> QED BY <1>5, <2>5, <2>6 DEF FinalizeAt, FinalizeWorks
<1>6. ASSUME NEW c \in Contributors, Claim(c)
      PROVE  TypeOK'
  <2>1. Share(c) \in U64
    <3>1. /\ pool.distributable \in U64 /\ contribution[c].amount \in U64
          /\ pool.totalContributed \in U64 /\ pool.totalContributed > 0
      BY <1>6 DEF Claim, ClaimWorks, PoolType, ContributionType
    <3> QED BY <3>1, AllocationType DEF Share
  <2>2. pool' \in PoolType
    BY <1>6, <2>1 DEF Claim, ClaimWorks, AfterClaim, PoolType
  <2>3. contribution' \in [Contributors -> ContributionType]
    BY <1>6 DEF Claim, ClaimWorks, ContributionType
  <2>4. vault' \in Nat /\ tokens' \in [Contributors -> Nat]
    BY <1>6, <2>1 DEF Claim, ClaimWorks, U64
  <2> QED BY <1>6, <2>2, <2>3, <2>4 DEF Claim, ClaimWorks
<1>7. ASSUME NEW c \in Contributors, Refund(c)
      PROVE  TypeOK'
  <2>1. contribution[c].amount \in U64
    BY DEF ContributionType
  <2>2. StatusAfterRefund \in Statuses
    BY DEF StatusAfterRefund, PoolType, Statuses
  <2>3. pool' \in PoolType
    <3> DEFINE rest == pool.totalContributed - contribution[c].amount
               refunded == pool.totalRefunded + contribution[c].amount
    <3>1. rest \in U64
      BY <1>7, <2>1 DEF Refund, RefundWorks, PoolType, U64
    <3>2. refunded \in U64
      BY <1>7 DEF Refund, RefundWorks
    <3>3. pool' = [pool EXCEPT !.status = StatusAfterRefund,
                     !.totalContributed = rest, !.totalRefunded = refunded]
      BY <1>7 DEF Refund, RefundWorks
    <3> HIDE DEF rest, refunded
    <3> QED BY <2>2, <3>1, <3>2, <3>3 DEF PoolType
  <2>4. contribution' \in [Contributors -> ContributionType]
    <3>1. Emptied(contribution[c]) \in ContributionType
      <4>1. 0 \in U64
        BY DEF U64
      <4> QED BY <4>1 DEF Emptied, ContributionType
    <3>2. contribution' = [contribution EXCEPT ![c] = Emptied(contribution[c])]
      BY <1>7 DEF Refund, RefundWorks
    <3> QED BY <3>1, <3>2
  <2>5. wallet' \in [Contributors -> Nat] /\ escrow' \in Nat
    BY <1>7, <2>1 DEF Refund, RefundWorks, U64
  <2> QED BY <1>7, <2>3, <2>4, <2>5 DEF Refund, RefundWorks
<1>8. CASE MarkRefundable
  <2>1. pool' \in PoolType
    BY <1>8 DEF MarkRefundable, PoolType, Statuses
  <2> QED BY <1>8, <2>1 DEF MarkRefundable
<1>9. CASE ClosePool
  BY <1>9, NoPoolType DEF ClosePool
<1>10. ASSUME NEW m \in Mints, PumpCreate(m) \/ Trade(m) PROVE TypeOK'
  <2>1. curve' \in [Mints -> ReservePairs \cup {NoCurve}]
    BY <1>10 DEF PumpCreate, Trade
  <2> QED BY <1>10, <2>1 DEF PumpCreate, Trade
<1>11. CASE Tick
  BY <1>11 DEF Tick, Times
<1>12. CASE UNCHANGED vars
  BY <1>12 DEF vars
<1>13. CASE BuyAgain
  BY <1>12, <1>13 DEF BuyAgain, vars
<1>14. CASE GiveSome
  BY <1>14 DEF GiveSome, Give
<1> QED
  BY <1>1, <1>2, <1>3, <1>4, <1>5, <1>6, <1>7, <1>8, <1>9, <1>10, <1>11, <1>12,
     <1>13, <1>14 DEF Step, Next, Instruction, CompleteBuy, Buy,
     Finalize

(* TypeOK holds of every execution: no field of an account leaves the type  *)
(* state.rs gives it and no balance goes below zero.                        *)
THEOREM TypeCorrect == Spec => []TypeOK
<1>1. TypeOK /\ [Next]_vars => TypeOK'
  BY StepType DEF Step
<1> QED BY InitType, <1>1, PTL DEF Spec

-----------------------------------------------------------------------------
(* The ledger *)

(* Stakes are naturals, so that they can be summed.                         *)
LEMMA AmountType == TypeOK => Amount \in [1..N -> Nat]
BY DEF TypeOK, Amount, ContributionType, Contributors, U64

(* No stake above zero is every stake zero.                                 *)
LEMMA NothingStaked ==
  ASSUME NEW record, record \in [Contributors -> ContributionType]
  PROVE  {c \in Contributors : record[c].amount > 0} = {}
           <=> \A c \in 1..N : record[c].amount = 0
<1>1. \A c \in 1..N : record[c].amount \in Nat
  BY DEF ContributionType, Contributors, U64
<1> QED BY <1>1 DEF Contributors

(* Before the first pool nothing is staked and nothing is owed.             *)
LEMMA LedgerInit == Init => LedgerMatchesStakes
<1> SUFFICES ASSUME Init PROVE LedgerMatchesStakes
  OBVIOUS
<1>1. Amount \in [1..N -> Nat] /\ \A c \in 1..N : Amount[c] = 0
  BY DEF Init, Amount, NoContribution, Contributors
<1>2. SumTo(Amount, N) = 0
  BY <1>1, SumOfZeros
<1>3. Staked = {} /\ pool.totalContributed = 0
  BY DEF Init, Staked, NoContribution, NoPool, NewPool
<1> QED BY <1>2, <1>3 DEF LedgerMatchesStakes

(* A step that moves neither a stake nor the total keeps them in agreement. *)
LEMMA LedgerFrame ==
  ASSUME LedgerMatchesStakes, Amount' = Amount, Staked' = Staked,
         pool'.totalContributed = pool.totalContributed,
         pool'.status = "None" => pool.status = "None"
  PROVE  LedgerMatchesStakes'
BY DEF LedgerMatchesStakes

(* Every action keeps the ledger: contribute and refund move a stake and    *)
(* the total alike, close needs the total at zero, and nothing else moves   *)
(* either.                                                                  *)
LEMMA LedgerStep ==
  TypeOK /\ LedgerMatchesStakes /\ [Step]_vars => LedgerMatchesStakes'
<1> SUFFICES ASSUME TypeOK, LedgerMatchesStakes, [Step]_vars
             PROVE  LedgerMatchesStakes'
  OBVIOUS
<1>t. TypeOK'
  BY StepType
<1>a. Amount \in [1..N -> Nat]
  BY AmountType
<1>1. ASSUME NEW launchAt \in Times, NEW grace \in Times,
             NEW minRaise \in Limits, NEW maxPool \in Limits,
             NEW minContribution \in Limits,
             CreatePool(launchAt, grace, minRaise, maxPool, minContribution)
      PROVE  LedgerMatchesStakes'
  <2>1. contribution' = contribution /\ pool.status = "None"
    BY <1>1 DEF CreatePool
  <2>2. \A c \in 1..N : Amount[c] = 0
    BY <2>1, NothingStaked DEF LedgerMatchesStakes, Staked, Amount, TypeOK, Contributors
  <2>3. SumTo(Amount, N) = 0 /\ Amount' = Amount
    BY <1>a, <2>1, <2>2, SumOfZeros DEF Amount
  <2>4. pool'.totalContributed = 0 /\ pool'.status = "Open"
    BY <1>1 DEF CreatePool, NewPool
  <2> QED BY <2>3, <2>4 DEF LedgerMatchesStakes
<1>2. ASSUME NEW c \in Contributors, NEW amount \in Amounts, Contribute(c, amount)
      PROVE  LedgerMatchesStakes'
  <2> DEFINE x == Amount[c] + amount
  <2>1. c \in 1..N /\ amount \in Nat /\ x \in Nat /\ Amount[c] \in Nat
    BY <1>a DEF Contributors, U64
  <2>2. Amount' = [Amount EXCEPT ![c] = x]
    BY <1>2 DEF Amount, Contribute, Increased, TypeOK
  <2>3. SumTo(Amount', N) = SumTo(Amount, N) - Amount[c] + x
    <3> HIDE DEF x
    <3>1. SumTo([Amount EXCEPT ![c] = x], N) = SumTo(Amount, N) - Amount[c] + x
      BY <1>a, <2>1, SumUpdate
    <3> QED BY <2>2, <3>1
  <2>4. pool'.totalContributed = pool.totalContributed + amount /\ pool'.status = "Open"
    BY <1>2 DEF Contribute, TypeOK, PoolType
  <2>5. SumTo(Amount, N) \in Nat
    BY <1>a, SumNatural
  <2> QED BY <2>1, <2>3, <2>4, <2>5 DEF LedgerMatchesStakes
<1>3. ASSUME NEW c \in Contributors, Refund(c)
      PROVE  LedgerMatchesStakes'
  <2>1. c \in 1..N /\ Amount[c] \in Nat /\ Amount[c] = contribution[c].amount
    BY <1>a DEF Contributors, Amount
  <2>2. Amount' = [Amount EXCEPT ![c] = 0]
    <3>1. contribution' = [contribution EXCEPT ![c] = Emptied(contribution[c])]
      BY <1>3 DEF Refund, RefundWorks
    <3>2. Emptied(contribution[c]).amount = 0
      BY DEF Emptied, TypeOK, ContributionType
    <3> QED BY <3>1, <3>2 DEF Amount, TypeOK
  <2>3. SumTo(Amount', N) = SumTo(Amount, N) - Amount[c] + 0
    <3>1. \A x \in Nat : SumTo([Amount EXCEPT ![c] = x], N)
                            = SumTo(Amount, N) - Amount[c] + x
      BY <1>a, <2>1, SumUpdate
    <3> QED BY <2>2, <3>1
  <2>4. /\ pool'.totalContributed = pool.totalContributed - Amount[c]
        /\ pool'.status # "None"
    BY <1>3, <2>1 DEF Refund, RefundWorks, RefundAllowed, StatusAfterRefund, TypeOK, PoolType
  <2>5. SumTo(Amount, N) \in Nat
    BY <1>a, SumNatural
  <2> QED BY <2>1, <2>3, <2>4, <2>5 DEF LedgerMatchesStakes
<1>4. CASE ClosePool
  <2>1. pool.totalContributed = 0 /\ contribution' = contribution /\ pool' = NoPool
    BY <1>4 DEF ClosePool, CloseAllowed
  <2>2. SumTo(Amount, N) = 0 /\ Amount' = Amount
    BY <2>1 DEF LedgerMatchesStakes, Amount
  <2>3. \A c \in 1..N : Amount[c] = 0
    <3> TAKE c \in 1..N
    <3>1. Amount[c] <= SumTo(Amount, N) /\ Amount[c] \in Nat
      BY <1>a, TermAtMostSum
    <3> QED BY <2>2, <3>1
  <2>4. Staked' = {}
    <3>1. \A c \in 1..N : contribution[c].amount = 0
      BY <2>3 DEF Amount, Contributors
    <3>2. {c \in Contributors : contribution[c].amount > 0} = {}
      BY <3>1, NothingStaked DEF TypeOK
    <3> QED BY <2>1, <3>2 DEF Staked
  <2> QED BY <2>1, <2>2, <2>4 DEF LedgerMatchesStakes, NoPool, NewPool
<1>5. ASSUME NEW c \in Contributors, Claim(c) PROVE LedgerMatchesStakes'
  <2>1. Amount' = Amount /\ Staked' = Staked
    BY <1>5 DEF Amount, Staked, Claim, ClaimWorks, TypeOK, ContributionType
  <2>2. /\ pool'.totalContributed = pool.totalContributed
        /\ pool'.status = pool.status
    BY <1>5 DEF Claim, ClaimWorks, AfterClaim, TypeOK, PoolType
  <2> QED BY <2>1, <2>2, LedgerFrame
<1>6. ASSUME contribution' = contribution,
             pool'.totalContributed = pool.totalContributed,
             pool'.status = "None" => pool.status = "None"
      PROVE  LedgerMatchesStakes'
  BY <1>6, LedgerFrame DEF Amount, Staked
<1> USE DEF TypeOK, PoolType
<1>7. ASSUME NEW mint \in Mints \cup {NoMint}, BeginLaunch(mint)
      PROVE  LedgerMatchesStakes'
  BY <1>6, <1>7 DEF BeginLaunch
<1>8. ASSUME NEW got \in TokensOut, NEW left \in Unspent, NEW after \in Reserves,
             Spend(got, left, after)
      PROVE  LedgerMatchesStakes'
  BY <1>6, <1>8 DEF Spend
<1>9. ASSUME NEW reserves \in Readable, FinalizeAt(reserves)
      PROVE  LedgerMatchesStakes'
  BY <1>6, <1>9 DEF FinalizeAt, FinalizeWorks
<1>10. CASE MarkRefundable
  BY <1>6, <1>10 DEF MarkRefundable
<1>11. ASSUME NEW m \in Mints, PumpCreate(m) \/ Trade(m)
       PROVE  LedgerMatchesStakes'
  BY <1>6, <1>11 DEF PumpCreate, Trade
<1>12. CASE Tick
  BY <1>6, <1>12 DEF Tick
<1>13. CASE UNCHANGED vars
  BY <1>6, <1>13 DEF vars
<1>14. CASE BuyAgain
  BY <1>13, <1>14 DEF BuyAgain
<1>15. CASE GiveSome
  BY <1>6, <1>15 DEF GiveSome, Give
<1> QED
  BY <1>1, <1>2, <1>3, <1>4, <1>5, <1>7, <1>8, <1>9, <1>10, <1>11, <1>12, <1>13,
     <1>14, <1>15 DEF Step, Next, Instruction, CompleteBuy, Buy,
     Finalize

(* total_contributed is the sum of the contribution accounts in every       *)
(* execution, and closing leaves no stake behind.                           *)
THEOREM LedgerCorrect == Spec => []LedgerMatchesStakes
<1>1. Init => TypeOK /\ LedgerMatchesStakes
  BY InitType, LedgerInit
<1>2. TypeOK /\ LedgerMatchesStakes /\ [Next]_vars
        => TypeOK' /\ LedgerMatchesStakes'
  BY StepType, LedgerStep DEF Step
<1> QED BY <1>1, <1>2, PTL DEF Spec

-----------------------------------------------------------------------------
(* Custody of the lamports *)

\* What the custody properties rest on besides each other: money was raised
\* before it was spent, nothing was refunded before the refunds began, and an
\* account that does not exist owes nothing.
SpentIsRaised == pool.status \in Sold => pool.totalContributed > 0

NoEarlyRefund ==
  pool.status \in {"None", "Open", "Launching"} => pool.totalRefunded = 0

GoneIsEmpty == pool.status = "None" => pool.totalContributed = 0

Custody ==
  /\ SolFollowsStatus
  /\ WholeUntilBuy
  /\ BuyXorRefund
  /\ CreatorGetsNoStake
  /\ RaiseWithinTerms
  /\ SpentIsRaised
  /\ NoEarlyRefund
  /\ GoneIsEmpty

(* Before the first pool nobody has parted with anything.                   *)
LEMMA CustodyInit == Init => Custody
<1> SUFFICES ASSUME Init PROVE Custody
  OBVIOUS
<1>1. /\ pool.status = "None" /\ pool.totalContributed = 0
      /\ pool.maxPool = 0 /\ pool.tokensBought = 0 /\ pool.totalRefunded = 0
  BY DEF Init, NoPool, NewPool
<1>2. \A c \in Contributors : wallet[c] + contribution[c].amount = Funds
  BY DEF Init, NoContribution, U64
<1>3. escrow = 0 /\ buyer = 0 /\ paid = 0 /\ returned = 0 /\ given = 0
  BY DEF Init
<1> QED
  BY <1>1, <1>2, <1>3 DEF Custody, SolFollowsStatus, WholeUntilBuy, BuyXorRefund,
     CreatorGetsNoStake, RaiseWithinTerms, SpentIsRaised, NoEarlyRefund,
     GoneIsEmpty, Sold, GiftsHeld

(* A step that leaves the lamports, the stakes and the fields Custody reads *)
(* as they are.                                                             *)
LEMMA CustodyFrame ==
  ASSUME Custody,
         UNCHANGED <<contribution, wallet, escrow, buyer, paid, returned, given>>,
         pool'.totalContributed = pool.totalContributed,
         pool'.maxPool = pool.maxPool, pool'.minRaise = pool.minRaise,
         pool'.tokensBought = pool.tokensBought,
         pool'.totalRefunded = pool.totalRefunded,
         \/ pool'.status = pool.status
         \/ pool.status \in {"Open", "Launching"} /\ pool'.status = "Refundable"
         \/ pool.status = "Bought" /\ pool'.status = "Finalized"
         \/ /\ pool.status = "Open" /\ pool'.status = "Launching"
            /\ pool.totalContributed >= pool.minRaise
  PROVE  Custody'
BY DEF Custody, SolFollowsStatus, WholeUntilBuy, BuyXorRefund,
   CreatorGetsNoStake, RaiseWithinTerms, SpentIsRaised, NoEarlyRefund,
     GoneIsEmpty, Sold, GiftsHeld

(* Every action keeps custody.                                              *)
LEMMA CustodyStep == TypeOK /\ Custody /\ [Step]_vars => Custody'
<1> SUFFICES ASSUME TypeOK, Custody, [Step]_vars PROVE Custody'
  OBVIOUS
<1> USE DEF TypeOK, PoolType
<1>1. ASSUME NEW launchAt \in Times, NEW grace \in Times,
             NEW minRaise \in Limits, NEW maxPool \in Limits,
             NEW minContribution \in Limits,
             CreatePool(launchAt, grace, minRaise, maxPool, minContribution)
      PROVE  Custody'
  <2>1. /\ pool.status = "None"
        /\ UNCHANGED <<contribution, wallet, escrow, buyer, paid, returned, given>>
    BY <1>1 DEF CreatePool
  <2>2. /\ pool'.status = "Open" /\ pool'.totalContributed = 0
        /\ pool'.maxPool = maxPool /\ pool'.tokensBought = 0
        /\ pool'.totalRefunded = 0
    BY <1>1 DEF CreatePool, NewPool
  <2>3. pool.totalContributed = 0
    BY <2>1 DEF Custody, GoneIsEmpty
  <2> QED
    BY <2>1, <2>2, <2>3 DEF Custody, SolFollowsStatus, WholeUntilBuy,
       BuyXorRefund, CreatorGetsNoStake, RaiseWithinTerms, SpentIsRaised,
       NoEarlyRefund, GoneIsEmpty, Sold, GiftsHeld, U64
<1>2. ASSUME NEW c \in Contributors, NEW amount \in Amounts, Contribute(c, amount)
      PROVE  Custody'
  <2>1. /\ pool'.status = "Open" /\ pool.status = "Open"
        /\ pool'.totalContributed = pool.totalContributed + amount
        /\ pool'.totalContributed <= pool'.maxPool
        /\ pool'.tokensBought = pool.tokensBought
        /\ pool'.totalRefunded = pool.totalRefunded
    BY <1>2 DEF Contribute
  <2>2. escrow' = escrow + amount /\ UNCHANGED <<buyer, paid, returned, given>>
    BY <1>2 DEF Contribute
  <2>3. \A k \in Contributors : wallet'[k] + contribution'[k].amount
                                  = wallet[k] + contribution[k].amount
    BY <1>2 DEF Contribute, Increased, ContributionType, U64
  <2> QED
    BY <2>1, <2>2, <2>3 DEF Custody, SolFollowsStatus, WholeUntilBuy,
       BuyXorRefund, CreatorGetsNoStake, RaiseWithinTerms, SpentIsRaised,
       NoEarlyRefund, GoneIsEmpty, Sold, GiftsHeld, U64
<1>3. ASSUME NEW mint \in Mints \cup {NoMint}, BeginLaunch(mint)
      PROVE  Custody'
  BY <1>3, CustodyFrame DEF BeginLaunch, LaunchAllowed
<1>4. ASSUME NEW got \in TokensOut, NEW left \in Unspent, NEW after \in Reserves,
             Spend(got, left, after)
      PROVE  Custody'
  <2>1. /\ pool.status = "Launching" /\ pool'.status = "Bought"
        /\ pool'.totalContributed = pool.totalContributed
        /\ pool'.maxPool = pool.maxPool /\ pool'.minRaise = pool.minRaise
        /\ pool'.tokensBought = got /\ got > 0
        /\ pool'.totalRefunded = pool.totalRefunded
        /\ pool.totalContributed > 0
    BY <1>4 DEF Spend, SpendAllowed, Spendable
  <2>2. /\ escrow' = escrow - pool.totalContributed
        /\ buyer' = buyer + left
        /\ paid' = paid + (pool.totalContributed - left)
        /\ UNCHANGED <<returned, given>>
    BY <1>4 DEF Spend, PumpBuy, SpendAllowed, Spendable
  <2>3. pool.totalContributed \in Int /\ left \in Int
    BY DEF U64
  <2> QED
    BY <2>1, <2>2, <2>3 DEF Custody, SolFollowsStatus, WholeUntilBuy,
       BuyXorRefund, CreatorGetsNoStake, RaiseWithinTerms, SpentIsRaised,
       NoEarlyRefund, GoneIsEmpty, Sold, GiftsHeld
<1>5. ASSUME NEW reserves \in Readable, FinalizeAt(reserves)
      PROVE  Custody'
  BY <1>5, CustodyFrame DEF FinalizeAt, FinalizeWorks, FinalizeAllowed
<1>6. ASSUME NEW c \in Contributors, Claim(c)
      PROVE  Custody'
  <2>1. /\ pool'.status = "Finalized" /\ pool.status = "Finalized"
        /\ pool'.totalContributed = pool.totalContributed
        /\ pool'.maxPool = pool.maxPool /\ pool'.minRaise = pool.minRaise
        /\ pool'.tokensBought = pool.tokensBought
        /\ pool'.totalRefunded = pool.totalRefunded
        /\ UNCHANGED <<wallet, escrow, buyer, paid, returned, given>>
    BY <1>6 DEF Claim, ClaimWorks, AfterClaim
  <2> QED
    BY <2>1 DEF Custody, SolFollowsStatus, WholeUntilBuy, BuyXorRefund,
       CreatorGetsNoStake, RaiseWithinTerms, SpentIsRaised, NoEarlyRefund,
     GoneIsEmpty, Sold, GiftsHeld
<1>7. ASSUME NEW c \in Contributors, Refund(c)
      PROVE  Custody'
  <2> DEFINE amount == contribution[c].amount
  <2>1. pool.status \in {"Refundable", "Launching", "Open"}
    BY <1>7 DEF Refund, RefundWorks, RefundAllowed
  <2>2. /\ pool'.status = "Refundable"
        /\ pool'.totalContributed = pool.totalContributed - amount
        /\ pool'.maxPool = pool.maxPool
        /\ pool'.tokensBought = pool.tokensBought
    BY <1>7 DEF Refund, RefundWorks, RefundAllowed, StatusAfterRefund
  <2>3. escrow' = escrow - amount /\ UNCHANGED <<buyer, paid, returned, given>>
    BY <1>7 DEF Refund, RefundWorks
  <2>4. \A k \in Contributors : wallet'[k] + contribution'[k].amount
                                  = wallet[k] + contribution[k].amount
    BY <1>7 DEF Refund, RefundWorks, Emptied, ContributionType, U64
  <2>5. pool.tokensBought = 0 /\ pool.totalContributed <= pool.maxPool
    BY <2>1 DEF Custody, BuyXorRefund, RaiseWithinTerms, Sold, U64
  <2>6. /\ amount \in Nat /\ pool.totalContributed \in Nat /\ pool.maxPool \in Nat
        /\ pool.totalContributed >= amount
    BY <1>7 DEF Refund, RefundWorks, ContributionType, U64
  <2> HIDE DEF amount
  <2> QED
    BY <2>1, <2>2, <2>3, <2>4, <2>5, <2>6 DEF Custody, SolFollowsStatus,
       WholeUntilBuy, BuyXorRefund, CreatorGetsNoStake, RaiseWithinTerms,
       SpentIsRaised, NoEarlyRefund,
     GoneIsEmpty, Sold, GiftsHeld
<1>8. CASE MarkRefundable
  BY <1>8, CustodyFrame DEF MarkRefundable, MarkAllowed
<1>9. CASE ClosePool
  <2>1. /\ pool.totalContributed = 0 /\ pool.status \notin Sold
        /\ UNCHANGED <<contribution, wallet, buyer, paid, given>>
        /\ escrow' = 0 /\ returned' = returned + escrow
    BY <1>9 DEF ClosePool, CloseAllowed, Custody, SpentIsRaised
  <2>2. /\ pool'.status = "None" /\ pool'.totalContributed = 0
        /\ pool'.maxPool = 0 /\ pool'.tokensBought = 0
        /\ pool'.totalRefunded = 0
    BY <1>9 DEF ClosePool, NoPool, NewPool
  <2>3. escrow = given - returned
    BY <2>1 DEF Custody, SolFollowsStatus, GiftsHeld
  <2> QED
    BY <2>1, <2>2, <2>3 DEF Custody, SolFollowsStatus, WholeUntilBuy,
       BuyXorRefund, CreatorGetsNoStake, RaiseWithinTerms, SpentIsRaised,
       NoEarlyRefund, GoneIsEmpty, Sold, GiftsHeld
<1>10. ASSUME NEW m \in Mints, PumpCreate(m) \/ Trade(m) PROVE Custody'
  BY <1>10, CustodyFrame DEF PumpCreate, Trade
<1>11. CASE Tick
  BY <1>11, CustodyFrame DEF Tick
<1>12. CASE UNCHANGED vars
  BY <1>12, CustodyFrame DEF vars
<1>13. CASE BuyAgain
  BY <1>12, <1>13 DEF BuyAgain
<1>14. CASE GiveSome
  <2>1. PICK lamports \in 1 .. (GiftMax - given) : Give(lamports)
    BY <1>14 DEF GiveSome
  <2>2. /\ escrow' = escrow + lamports /\ given' = given + lamports
        /\ UNCHANGED <<pool, contribution, wallet, buyer, paid, returned>>
        /\ pool.status # "None" /\ lamports \in Nat
    BY <2>1 DEF Give
  <2>3. pool.totalContributed \in Nat
    BY DEF U64
  <2> QED
    BY <2>2, <2>3 DEF Custody, SolFollowsStatus, WholeUntilBuy, BuyXorRefund,
       CreatorGetsNoStake, RaiseWithinTerms, SpentIsRaised, NoEarlyRefund,
       GoneIsEmpty, Sold, GiftsHeld
<1> QED
  BY <1>1, <1>2, <1>3, <1>4, <1>5, <1>6, <1>7, <1>8, <1>9, <1>10, <1>11, <1>12,
     <1>13, <1>14 DEF Step, Next, Instruction, CompleteBuy, Buy,
     Finalize

(* So custody holds throughout.                                             *)
LEMMA CustodyCorrect == Spec => []Custody
<1>1. Init => TypeOK /\ Custody
  BY InitType, CustodyInit
<1>2. TypeOK /\ Custody /\ [Next]_vars => TypeOK' /\ Custody'
  BY StepType, CustodyStep DEF Step
<1> QED BY <1>1, <1>2, PTL DEF Spec

(* The pool account holds the sum it owes until the buy; the buy takes all  *)
(* of it.                                                                   *)
THEOREM SolFollowsStatusCorrect == Spec => []SolFollowsStatus
<1>1. Custody => SolFollowsStatus
  BY DEF Custody
<1> QED BY <1>1, CustodyCorrect, PTL

(* A contributor has lost nothing as long as the pool has not bought.       *)
THEOREM WholeUntilBuyCorrect == Spec => []WholeUntilBuy
<1>1. Custody => WholeUntilBuy
  BY DEF Custody
<1> QED BY <1>1, CustodyCorrect, PTL

(* No pool both buys and refunds.                                           *)
THEOREM BuyXorRefundCorrect == Spec => []BuyXorRefund
<1>1. Custody => BuyXorRefund
  BY DEF Custody
<1> QED BY <1>1, CustodyCorrect, PTL

(* Closing never hands the creator a lamport a contributor put in.          *)
THEOREM CreatorGetsNoStakeCorrect == Spec => []CreatorGetsNoStake
<1>1. Custody => CreatorGetsNoStake
  BY DEF Custody
<1> QED BY <1>1, CustodyCorrect, PTL

(* What is launched and spent lies between the minimum and the maximum the  *)
(* pool was created with.                                                   *)
THEOREM RaiseWithinTermsCorrect == Spec => []RaiseWithinTerms
<1>1. Custody => RaiseWithinTerms
  BY DEF Custody
<1> QED BY <1>1, CustodyCorrect, PTL

-----------------------------------------------------------------------------
(* Shares *)

\* Claims are made of a finalized pool only, and such a pool never goes.
ClaimsAreFinal ==
  \A c \in Contributors : contribution[c].claimed => pool.status = "Finalized"

Shares == ClaimsAreFinal /\ SameShareForAll

(* Nobody has claimed before the first pool.                                *)
LEMMA SharesInit == Init => Shares
BY DEF Init, Shares, ClaimsAreFinal, SameShareForAll, NoContribution

(* A step of a pool that is not finalized, before and after, which claims   *)
(* nothing and moves no token of a contributor.                             *)
LEMMA SharesFrame ==
  ASSUME Shares, pool.status # "Finalized", tokens' = tokens,
         \A c \in Contributors : ~contribution[c].claimed => ~contribution'[c].claimed
  PROVE  Shares'
<1>1. \A c \in Contributors : ~contribution[c].claimed
  BY DEF Shares, ClaimsAreFinal
<1> QED BY <1>1 DEF Shares, ClaimsAreFinal, SameShareForAll

(* Every action keeps the shares: a claim pays one that was not paid, and   *)
(* nothing changes what a share is computed from once claims are open.      *)
LEMMA SharesStep == TypeOK /\ Custody /\ Shares /\ [Step]_vars => Shares'
<1> SUFFICES ASSUME TypeOK, Custody, Shares, [Step]_vars PROVE Shares'
  OBVIOUS
<1> USE DEF TypeOK, PoolType
<1>1. ASSUME NEW launchAt \in Times, NEW grace \in Times,
             NEW minRaise \in Limits, NEW maxPool \in Limits,
             NEW minContribution \in Limits,
             CreatePool(launchAt, grace, minRaise, maxPool, minContribution)
      PROVE  Shares'
  BY <1>1, SharesFrame DEF CreatePool
<1>2. ASSUME NEW c \in Contributors, NEW amount \in Amounts, Contribute(c, amount)
      PROVE  Shares'
  <2>1. contribution' = [contribution EXCEPT ![c] = Increased(contribution[c], amount)]
    BY <1>2 DEF Contribute
  <2>2. \A k \in Contributors : ~contribution[k].claimed => ~contribution'[k].claimed
    BY <2>1 DEF Increased
  <2> QED BY <1>2, <2>2, SharesFrame DEF Contribute
<1>3. ASSUME NEW mint \in Mints \cup {NoMint}, BeginLaunch(mint)
      PROVE  Shares'
  BY <1>3, SharesFrame DEF BeginLaunch, LaunchAllowed
<1>4. ASSUME NEW got \in TokensOut, NEW left \in Unspent, NEW after \in Reserves,
             Spend(got, left, after)
      PROVE  Shares'
  BY <1>4, SharesFrame DEF Spend, SpendAllowed
<1>5. ASSUME NEW reserves \in Readable, FinalizeAt(reserves)
      PROVE  Shares'
  BY <1>5, SharesFrame DEF FinalizeAt, FinalizeWorks, FinalizeAllowed
<1>6. ASSUME NEW c \in Contributors, Claim(c)
      PROVE  Shares'
  <2>1. /\ pool.status = "Finalized" /\ pool'.status = "Finalized"
        /\ pool'.distributable = pool.distributable
        /\ pool'.totalContributed = pool.totalContributed
    BY <1>6 DEF Claim, ClaimWorks, AfterClaim
  <2>2. /\ contribution' = [contribution EXCEPT ![c].claimed = TRUE]
        /\ ~contribution[c].claimed
        /\ tokens' = [tokens EXCEPT ![c] = @ + Share(c)]
    BY <1>6 DEF Claim, ClaimWorks
  <2>3. ASSUME NEW k \in Contributors
        PROVE  contribution'[k].amount = contribution[k].amount
    BY <2>2 DEF ContributionType
  <2>4. ASSUME NEW k \in Contributors PROVE Share(k)' = Share(k)
    BY <2>1, <2>3 DEF Share
  <2>5. tokens[c] = 0 /\ Share(c) \in Nat
    <3>1. tokens[c] = 0
      BY <2>2 DEF Shares, SameShareForAll
    <3>2. /\ pool.distributable \in U64 /\ contribution[c].amount \in U64
          /\ pool.totalContributed \in U64 /\ pool.totalContributed > 0
      BY <1>6 DEF Claim, ClaimWorks, ContributionType
    <3>3. Share(c) \in U64
      BY <3>2, AllocationType DEF Share
    <3> QED BY <3>1, <3>3 DEF U64
  <2>6. ASSUME NEW k \in Contributors
        PROVE  tokens'[k] = IF contribution'[k].claimed THEN Share(k) ELSE 0
    <3>1. CASE k = c
      BY <2>2, <2>5, <3>1 DEF ContributionType
    <3>2. CASE k # c
      BY <2>2, <3>2 DEF Shares, SameShareForAll, ContributionType
    <3> QED BY <3>1, <3>2
  <2> QED BY <2>1, <2>4, <2>6 DEF Shares, ClaimsAreFinal, SameShareForAll
<1>7. ASSUME NEW c \in Contributors, Refund(c)
      PROVE  Shares'
  <2>1. contribution' = [contribution EXCEPT ![c] = Emptied(contribution[c])]
    BY <1>7 DEF Refund, RefundWorks
  <2>2. \A k \in Contributors : ~contribution[k].claimed => ~contribution'[k].claimed
    BY <2>1 DEF Emptied, ContributionType
  <2> QED BY <1>7, <2>2, SharesFrame DEF Refund, RefundWorks, RefundAllowed
<1>8. CASE MarkRefundable
  BY <1>8, SharesFrame DEF MarkRefundable, MarkAllowed
<1>9. CASE ClosePool
  <2>1. pool.status # "Finalized"
    BY <1>9 DEF ClosePool, CloseAllowed, Custody, SpentIsRaised, Sold
  <2> QED BY <1>9, <2>1, SharesFrame DEF ClosePool
<1>10. ASSUME UNCHANGED <<pool, contribution, tokens>> PROVE Shares'
  BY <1>10 DEF Shares, ClaimsAreFinal, SameShareForAll, Share
<1>11. ASSUME NEW m \in Mints, PumpCreate(m) \/ Trade(m) PROVE Shares'
  BY <1>10, <1>11 DEF PumpCreate, Trade
<1>12. CASE Tick
  BY <1>10, <1>12 DEF Tick
<1>13. CASE UNCHANGED vars
  BY <1>10, <1>13 DEF vars
<1>14. CASE BuyAgain
  BY <1>13, <1>14 DEF BuyAgain
<1>15. CASE GiveSome
  BY <1>10, <1>15 DEF GiveSome, Give
<1> QED
  BY <1>1, <1>2, <1>3, <1>4, <1>5, <1>6, <1>7, <1>8, <1>9, <1>11, <1>12, <1>13,
     <1>14, <1>15 DEF Step, Next, Instruction, CompleteBuy, Buy,
     Finalize

(* Each contributor gets the share of the stake, whatever the order of the  *)
(* claims, once.                                                            *)
THEOREM SameShareForAllCorrect == Spec => []SameShareForAll
<1>1. Init => TypeOK /\ Custody /\ Shares
  BY InitType, CustodyInit, SharesInit
<1>2. TypeOK /\ Custody /\ Shares /\ [Next]_vars => TypeOK' /\ Custody' /\ Shares'
  BY StepType, CustodyStep, SharesStep DEF Step
<1>3. Shares => SameShareForAll
  BY DEF Shares
<1> QED BY <1>1, <1>2, <1>3, PTL DEF Spec

-----------------------------------------------------------------------------
(* The inductive invariant *)

Safe == TypeOK /\ LedgerMatchesStakes /\ Custody /\ Shares

(* It holds at the start.                                                   *)
LEMMA SafeInit == Init => Safe
BY InitType, LedgerInit, CustodyInit, SharesInit DEF Safe

(* Every step keeps it, the buy of a bundle included.                       *)
LEMMA SafeStep == Safe /\ [Step]_vars => Safe'
BY StepType, LedgerStep, CustodyStep, SharesStep DEF Safe

-----------------------------------------------------------------------------
(* What a step may never do *)

\* The stakes, and what the shares are computed from, as they are.
StakesKept ==
  /\ Amount' = Amount
  /\ pool'.totalContributed = pool.totalContributed
  /\ pool'.tokensBought = pool.tokensBought

Legal ==
  /\ pool'.status # pool.status => pool'.status \in Successors[pool.status]
  /\ pool'.status = "Bought" => pool.status = "Bought" \/ now < pool.graceEndsAt
  /\ pool.status \in Sold => StakesKept

(* Every action of a safe pool is legal.                                    *)
LEMMA StepLegal == TypeOK /\ Custody /\ [Step]_vars => Legal
<1> SUFFICES ASSUME TypeOK, Custody, [Step]_vars PROVE Legal
  OBVIOUS
<1> USE DEF TypeOK, PoolType, Legal, Successors, Sold
<1>1. ASSUME NEW launchAt \in Times, NEW grace \in Times,
             NEW minRaise \in Limits, NEW maxPool \in Limits,
             NEW minContribution \in Limits,
             CreatePool(launchAt, grace, minRaise, maxPool, minContribution)
      PROVE  Legal
  BY <1>1 DEF CreatePool, NewPool
<1>2. ASSUME NEW c \in Contributors, NEW amount \in Amounts, Contribute(c, amount)
      PROVE  Legal
  BY <1>2 DEF Contribute
<1>3. ASSUME NEW mint \in Mints \cup {NoMint}, BeginLaunch(mint)
      PROVE  Legal
  BY <1>3 DEF BeginLaunch, LaunchAllowed
<1>4. ASSUME NEW got \in TokensOut, NEW left \in Unspent, NEW after \in Reserves,
             Spend(got, left, after)
      PROVE  Legal
  BY <1>4 DEF Spend, SpendAllowed
<1>5. ASSUME NEW reserves \in Readable, FinalizeAt(reserves)
      PROVE  Legal
  BY <1>5 DEF FinalizeAt, FinalizeWorks, FinalizeAllowed, StakesKept, Amount
<1>6. ASSUME NEW c \in Contributors, Claim(c)
      PROVE  Legal
  <2>1. Amount' = Amount
    BY <1>6 DEF Claim, ClaimWorks, Amount, ContributionType
  <2> QED BY <1>6, <2>1 DEF Claim, ClaimWorks, AfterClaim, StakesKept
<1>7. ASSUME NEW c \in Contributors, Refund(c)
      PROVE  Legal
  BY <1>7 DEF Refund, RefundWorks, RefundAllowed, StatusAfterRefund
<1>8. CASE MarkRefundable
  BY <1>8 DEF MarkRefundable, MarkAllowed
<1>9. CASE ClosePool
  <2>1. pool.status \in {"Refundable", "Closed"}
    BY <1>9 DEF ClosePool, CloseAllowed, Custody, SpentIsRaised
  <2> QED BY <1>9, <2>1 DEF ClosePool, NoPool, NewPool
<1>10. ASSUME UNCHANGED <<pool, contribution>> PROVE Legal
  BY <1>10 DEF StakesKept, Amount
<1>11. ASSUME NEW m \in Mints, PumpCreate(m) \/ Trade(m) PROVE Legal
  BY <1>10, <1>11 DEF PumpCreate, Trade
<1>12. CASE Tick
  BY <1>10, <1>12 DEF Tick
<1>13. CASE BuyAgain \/ UNCHANGED vars
  BY <1>10, <1>13 DEF BuyAgain, vars
<1>14. CASE GiveSome
  BY <1>10, <1>14 DEF GiveSome, Give
<1> QED
  BY <1>1, <1>2, <1>3, <1>4, <1>5, <1>6, <1>7, <1>8, <1>9, <1>11, <1>12, <1>13,
     <1>14 DEF Step, Next, Instruction, CompleteBuy, Buy, Finalize

(* Statuses only move forward: no transaction reopens contributions or      *)
(* refunds after the buy, and no pool goes that bought.                     *)
THEOREM LifecycleCorrect == Spec => Lifecycle
<1>1. TypeOK /\ Custody /\ [Next]_vars =>
        [pool'.status # pool.status => pool'.status \in Successors[pool.status]]_vars
  BY StepLegal DEF Step, Legal
<1> QED BY <1>1, TypeCorrect, CustodyCorrect, PTL DEF Spec, Lifecycle

(* Stakes, and with them the shares, are frozen once the buy happened.      *)
THEOREM StakesFrozenAfterBuyCorrect == Spec => StakesFrozenAfterBuy
<1>1. TypeOK /\ Custody /\ [Next]_vars =>
        [pool.status \in Sold => /\ Amount' = Amount
                                 /\ pool'.totalContributed = pool.totalContributed
                                 /\ pool'.tokensBought = pool.tokensBought]_vars
  BY StepLegal DEF Step, Legal, StakesKept
<1> QED BY <1>1, TypeCorrect, CustodyCorrect, PTL DEF Spec, StakesFrozenAfterBuy

-----------------------------------------------------------------------------
(* The launch window *)

\* Every pool has a window before its refunds, and none is refundable before
\* the window is over.
Windowed ==
  pool.status # "None" =>
    /\ pool.launchAt < pool.graceEndsAt
    /\ pool.status = "Refundable" => now >= pool.graceEndsAt

(* A step that keeps the terms, and makes refundable only what is due.      *)
LEMMA WindowedFrame ==
  ASSUME TypeOK, Windowed, now' = now,
         pool'.launchAt = pool.launchAt, pool'.graceEndsAt = pool.graceEndsAt,
         pool.status # "None",
         pool'.status = "Refundable" =>
           pool.status = "Refundable" \/ now >= pool.graceEndsAt
  PROVE  Windowed'
BY DEF Windowed

(* Every action keeps Windowed: create_pool by grace_secs > 0 and an end    *)
(* that did not wrap, everyone else by the guards on the clock.             *)
LEMMA WindowedStep == TypeOK /\ Windowed /\ [Step]_vars => Windowed'
<1> SUFFICES ASSUME TypeOK, Windowed, [Step]_vars PROVE Windowed'
  OBVIOUS
<1>t. pool \in PoolType /\ now \in Times
  BY DEF TypeOK
<1> USE DEF PoolType
<1>1. ASSUME NEW launchAt \in Times, NEW grace \in Times,
             NEW minRaise \in Limits, NEW maxPool \in Limits,
             NEW minContribution \in Limits,
             CreatePool(launchAt, grace, minRaise, maxPool, minContribution)
      PROVE  Windowed'
  BY <1>1 DEF CreatePool, TermsValid, NewPool, GraceEnd, Windowed, Times
<1>2. ASSUME NEW c \in Contributors, NEW amount \in Amounts, Contribute(c, amount)
      PROVE  Windowed'
  BY <1>t, <1>2, WindowedFrame DEF Contribute
<1>3. ASSUME NEW mint \in Mints \cup {NoMint}, BeginLaunch(mint)
      PROVE  Windowed'
  BY <1>t, <1>3, WindowedFrame DEF BeginLaunch, LaunchAllowed
<1>4. ASSUME NEW got \in TokensOut, NEW left \in Unspent, NEW after \in Reserves,
             Spend(got, left, after)
      PROVE  Windowed'
  BY <1>t, <1>4, WindowedFrame DEF Spend, SpendAllowed
<1>5. ASSUME NEW reserves \in Readable, FinalizeAt(reserves)
      PROVE  Windowed'
  BY <1>t, <1>5, WindowedFrame DEF FinalizeAt, FinalizeWorks, FinalizeAllowed
<1>6. ASSUME NEW c \in Contributors, Claim(c)
      PROVE  Windowed'
  BY <1>t, <1>6, WindowedFrame DEF Claim, ClaimWorks, AfterClaim
<1>7. ASSUME NEW c \in Contributors, Refund(c)
      PROVE  Windowed'
  BY <1>t, <1>7, WindowedFrame DEF Refund, RefundWorks, RefundAllowed, StatusAfterRefund
<1>8. CASE MarkRefundable
  BY <1>t, <1>8, WindowedFrame DEF MarkRefundable, MarkAllowed
<1>9. CASE ClosePool
  BY <1>9 DEF ClosePool, NoPool, NewPool, Windowed
<1>10. ASSUME UNCHANGED <<pool, now>> PROVE Windowed'
  BY <1>10 DEF Windowed
<1>11. ASSUME NEW m \in Mints, PumpCreate(m) \/ Trade(m) PROVE Windowed'
  BY <1>10, <1>11 DEF PumpCreate, Trade
<1>12. CASE Tick
  BY <1>t, <1>12 DEF Tick, Windowed, Times
<1>13. CASE BuyAgain \/ UNCHANGED vars
  BY <1>10, <1>13 DEF BuyAgain, vars
<1>14. CASE GiveSome
  BY <1>10, <1>14 DEF GiveSome, Give
<1> QED
  BY <1>1, <1>2, <1>3, <1>4, <1>5, <1>6, <1>7, <1>8, <1>9, <1>11, <1>12, <1>13,
     <1>14 DEF Step, Next, Instruction, CompleteBuy, Buy, Finalize

(* No pool exists at the start.                                             *)
LEMMA WindowedInit == Init => Windowed
BY DEF Init, NoPool, NewPool, Windowed

(* Refunds that are open are open after launch_at.                          *)
LEMMA WindowedWaits == TypeOK /\ Windowed => RefundsWaitForLaunch
BY DEF TypeOK, PoolType, Times, Windowed, RefundsWaitForLaunch, RefundAllowed

(* No terms open the refunds before the launch window, for any length of    *)
(* the clock.                                                               *)
THEOREM RefundsWaitForLaunchCorrect == Spec => []RefundsWaitForLaunch
<1>1. Init => TypeOK /\ Windowed
  BY InitType, WindowedInit
<1>2. TypeOK /\ Windowed /\ [Next]_vars => TypeOK' /\ Windowed'
  BY StepType, WindowedStep DEF Step
<1> QED BY <1>1, <1>2, WindowedWaits, PTL DEF Spec
=============================================================================
