------------------------------ MODULE SaleProofs ------------------------------
(***************************************************************************)
(* The escrow program implements PooledSale, alone and beside the executor, *)
(* for any number of contributors, any amounts, any mints, any answers of   *)
(* Pump and any number of runs.                                             *)
(***************************************************************************)
EXTENDS EscrowSale, VaultProofs, LaunchProofs

USE NAssumption, LamportAssumption, CountAssumption, TimeAssumption,
    InputAssumption, MintAssumption, CurveAssumption, PumpAssumption,
    GiftAssumption, WordAssumption

\* Nothing is shared before finalize says how much.
Unpriced == pool.status # "Finalized" => pool.distributable = 0

(* Every action keeps Unpriced.                                             *)
LEMMA UnpricedStep == Safe /\ Unpriced /\ [Step]_vars => Unpriced'
<1> SUFFICES ASSUME Safe, Unpriced, [Step]_vars PROVE Unpriced'
  OBVIOUS
<1> USE DEF Unpriced, PoolType
<1>t. pool \in PoolType
  BY DEF Safe, TypeOK
<1>1. ASSUME NEW launchAt \in Times, NEW grace \in Times,
             NEW minRaise \in Limits, NEW maxPool \in Limits,
             NEW minContribution \in Limits,
             CreatePool(launchAt, grace, minRaise, maxPool, minContribution)
      PROVE  Unpriced'
  BY <1>1 DEF CreatePool, NewPool
<1>2. ASSUME NEW c \in Contributors, NEW amount \in Amounts, Contribute(c, amount)
      PROVE  Unpriced'
  BY <1>t, <1>2 DEF Contribute
<1>3. ASSUME NEW mint \in Mints \cup {NoMint}, BeginLaunch(mint)
      PROVE  Unpriced'
  BY <1>t, <1>3 DEF BeginLaunch, LaunchAllowed
<1>4. ASSUME NEW got \in TokensOut, NEW left \in Unspent, NEW after \in Reserves,
             Spend(got, left, after)
      PROVE  Unpriced'
  BY <1>t, <1>4 DEF Spend, SpendAllowed
<1>5. ASSUME NEW reserves \in Readable, FinalizeAt(reserves)
      PROVE  Unpriced'
  BY <1>t, <1>5 DEF FinalizeAt, FinalizeWorks
<1>6. ASSUME NEW c \in Contributors, Claim(c)
      PROVE  Unpriced'
  BY <1>t, <1>6 DEF Claim, ClaimWorks, AfterClaim
<1>7. ASSUME NEW c \in Contributors, Refund(c)
      PROVE  Unpriced'
  BY <1>t, <1>7 DEF Refund, RefundWorks, RefundAllowed
<1>8. CASE MarkRefundable
  BY <1>t, <1>8 DEF MarkRefundable, MarkAllowed
<1>9. CASE ClosePool
  BY <1>9 DEF ClosePool, NoPool, NewPool
<1>10. ASSUME pool' = pool PROVE Unpriced'
  BY <1>10
<1>11. ASSUME NEW m \in Mints, PumpCreate(m) \/ Trade(m) PROVE Unpriced'
  BY <1>10, <1>11 DEF PumpCreate, Trade
<1>12. CASE Tick \/ GiveSome
  BY <1>10, <1>12 DEF Tick, GiveSome, Give
<1>13. CASE BuyAgain \/ UNCHANGED vars
  BY <1>10, <1>13 DEF BuyAgain, vars
<1> QED
  BY <1>1, <1>2, <1>3, <1>4, <1>5, <1>6, <1>7, <1>8, <1>9, <1>11, <1>12, <1>13
     DEF Step, Next, Instruction, CompleteBuy, Buy, Finalize

-----------------------------------------------------------------------------
(* Initial states *)

(* Before the first pool there is no sale and nobody has put anything in.   *)
LEMMA SaleStarts == Init => Sale!SaleInit
<1> SUFFICES ASSUME Init PROVE Sale!SaleInit
  OBVIOUS
<1>1. /\ pool.status = "None" /\ pool.tokensBought = 0 /\ pool.distributable = 0
      /\ wallet = [c \in Contributors |-> Funds]
      /\ tokens = [c \in Contributors |-> 0]
      /\ escrow - GiftsHeld = 0
  BY DEF Init, NoPool, NewPool, GiftsHeld
<1>2. Amount = [c \in Contributors |-> 0] /\ Claimants = {}
  BY DEF Init, Amount, Claimants, NoContribution
<1> QED BY <1>1, <1>2 DEF Sale!SaleInit, Sale!People, Phase, Contributors

-----------------------------------------------------------------------------
(* Steps *)

\* What the sale is made of, apart from its phase.
Holdings == <<wallet, Amount, escrow - GiftsHeld, pool.tokensBought,
              pool.distributable, Claimants, tokens>>

(* A step that moves none of it is invisible to the sale.                   *)
LEMMA SaleStutters ==
  ASSUME UNCHANGED Phase, UNCHANGED Holdings
  PROVE  UNCHANGED Sale!saleVars
BY DEF Holdings, Sale!saleVars

(* The sum of the stakes is the ledger's total, and what the pool has of    *)
(* it.                                                                      *)
LEMMA SaleTotal ==
  ASSUME Safe
  PROVE  /\ Sale!Total = pool.totalContributed
         /\ pool.status \notin Sold => escrow - GiftsHeld = pool.totalContributed
<1>1. Sale!Total = SumTo(Amount, N)
  BY DEF Sale!Total, Sale!SumTo, Sale!PartialSums, SumTo, PartialSums
<1>2. /\ escrow \in Int /\ GiftsHeld \in Int /\ pool.totalContributed \in Int
  BY DEF Safe, TypeOK, PoolType, GiftsHeld, U64
<1>3. ASSUME pool.status \notin Sold
      PROVE  escrow - GiftsHeld = pool.totalContributed
  <2>1. escrow = pool.totalContributed + GiftsHeld
    BY <1>3 DEF Safe, Custody, SolFollowsStatus
  <2> QED BY <1>2, <2>1
<1>4. pool.totalContributed = SumTo(Amount, N)
  BY DEF Safe, LedgerMatchesStakes
<1> QED BY <1>1, <1>3, <1>4

\* A step of the program, read as a step of the sale.
Mapped == [Sale!SaleNext]_(Sale!saleVars)

(* contribute is a deposit.                                                 *)
LEMMA ContributeDeposits ==
  ASSUME Safe, NEW c \in Contributors, NEW amount \in Amounts,
         Contribute(c, amount)
  PROVE  Mapped
<1>t. /\ pool \in PoolType /\ contribution \in [Contributors -> ContributionType]
      /\ wallet \in [Contributors -> Nat]
  BY DEF Safe, TypeOK
<1>1. amount \in 1 .. wallet[c]
  BY <1>t DEF Contribute, U64
<1>2. /\ pool.status = "Open" /\ pool'.status = "Open"
      /\ pool'.tokensBought = pool.tokensBought
      /\ pool'.distributable = pool.distributable
  BY <1>t DEF Contribute, PoolType
<1>3. wallet' = [wallet EXCEPT ![c] = @ - amount] /\ tokens' = tokens
  BY DEF Contribute
<1>4. contribution' = [contribution EXCEPT ![c] = Increased(contribution[c], amount)]
  BY DEF Contribute
<1>c. ~contribution[c].claimed
  BY <1>2 DEF Safe, Shares, ClaimsAreFinal
<1>5. Amount' = [Amount EXCEPT ![c] = @ + amount]
  BY <1>t, <1>4 DEF Amount, Increased, ContributionType
<1>6. Claimants' = Claimants
  BY <1>t, <1>4, <1>c DEF Claimants, Increased, ContributionType
<1>7. escrow' - GiftsHeld' = escrow - GiftsHeld + amount
  <2>1. escrow' = escrow + amount /\ GiftsHeld' = GiftsHeld
    BY DEF Contribute, GiftsHeld
  <2>2. escrow \in Int /\ GiftsHeld \in Int /\ amount \in Int
    BY <1>1 DEF Safe, TypeOK, GiftsHeld
  <2> QED BY <2>1, <2>2
<1>8. Sale!Deposited(c, amount)
  BY <1>2, <1>3, <1>5, <1>6, <1>7 DEF Sale!Deposited, Phase
<1> QED BY <1>1, <1>8 DEF Mapped, Sale!SaleNext, Sale!People, Contributors

(* refund is a withdrawal, of the whole stake.                              *)
LEMMA RefundWithdraws ==
  ASSUME Safe, NEW c \in Contributors, Refund(c)
  PROVE  Mapped
<1>t. /\ pool \in PoolType /\ contribution \in [Contributors -> ContributionType]
      /\ wallet \in [Contributors -> Nat]
  BY DEF Safe, TypeOK
<1>1. Amount[c] = contribution[c].amount /\ Amount[c] \in Nat /\ Amount[c] > 0
  BY <1>t DEF Refund, RefundWorks, Amount, ContributionType, U64
<1>2. /\ pool.status \in {"Refundable", "Launching", "Open"}
      /\ pool'.status = "Refundable"
      /\ pool'.tokensBought = pool.tokensBought
      /\ pool'.distributable = pool.distributable
  BY <1>t DEF Refund, RefundWorks, RefundAllowed, StatusAfterRefund, PoolType
<1>3. wallet' = [wallet EXCEPT ![c] = @ + Amount[c]] /\ tokens' = tokens
  BY <1>1 DEF Refund, RefundWorks
<1>4. contribution' = [contribution EXCEPT ![c] = Emptied(contribution[c])]
  BY DEF Refund, RefundWorks
<1>5. Amount' = [Amount EXCEPT ![c] = 0]
  BY <1>t, <1>4 DEF Amount, Emptied, ContributionType
<1>6. Claimants' = Claimants
  BY <1>t, <1>4 DEF Claimants, Emptied, ContributionType
<1>7. escrow' - GiftsHeld' = escrow - GiftsHeld - Amount[c]
  <2>1. escrow' = escrow - Amount[c] /\ GiftsHeld' = GiftsHeld
    BY <1>1 DEF Refund, RefundWorks, GiftsHeld
  <2>2. escrow \in Int /\ GiftsHeld \in Int /\ Amount[c] \in Int
    BY <1>1 DEF Safe, TypeOK, GiftsHeld
  <2> QED BY <2>1, <2>2
<1>8. Sale!Withdrawn(c)
  BY <1>1, <1>2, <1>3, <1>5, <1>6, <1>7 DEF Sale!Withdrawn, Phase
<1> QED BY <1>8 DEF Mapped, Sale!SaleNext, Sale!People, Contributors

(* complete_buy is the sale: it spends all the pool has of its people.      *)
LEMMA SpendSells ==
  ASSUME Safe, NEW got \in TokensOut, NEW left \in Unspent, NEW after \in Reserves,
         Spend(got, left, after)
  PROVE  Mapped
<1>t. pool \in PoolType
  BY DEF Safe, TypeOK
<1>1. /\ pool.status = "Launching" /\ pool'.status = "Bought"
      /\ pool'.tokensBought = got /\ got \in Nat \ {0}
      /\ pool'.distributable = pool.distributable
      /\ pool.totalContributed > 0
  BY <1>t, PumpAssumption DEF Spend, SpendAllowed, Spendable, PoolType, U64
<1>2. UNCHANGED <<wallet, Amount, Claimants, tokens>>
  BY DEF Spend, Amount, Claimants
<1>3. escrow - GiftsHeld = pool.totalContributed
  BY <1>1, SaleTotal DEF Sold
<1>4. escrow' - GiftsHeld' = 0
  <2>1. escrow' = escrow - pool.totalContributed /\ GiftsHeld' = GiftsHeld
    BY DEF Spend, Spendable, GiftsHeld
  <2>2. escrow \in Int /\ GiftsHeld \in Int /\ pool.totalContributed \in Int
    BY <1>t DEF Safe, TypeOK, GiftsHeld, PoolType, U64
  <2> QED BY <1>3, <2>1, <2>2
<1>5. Sale!Sold
  BY <1>1, <1>2, <1>3, <1>4 DEF Sale!Sold, Phase
<1> QED BY <1>5 DEF Mapped, Sale!SaleNext

(* finalize sets what is shared, within what was bought.                    *)
LEMMA FinalizePrices ==
  ASSUME Safe, NEW reserves \in Readable, FinalizeAt(reserves)
  PROVE  Mapped
<1> DEFINE shared == Distributable(pool.totalContributed, pool.tokensBought,
                                   reserves.token, reserves.quote)
<1>t. pool \in PoolType
  BY DEF Safe, TypeOK
<1>1. /\ pool.status = "Bought" /\ pool'.status = "Finalized"
      /\ pool'.tokensBought = pool.tokensBought
      /\ pool'.distributable = shared
  BY <1>t DEF FinalizeAt, FinalizeWorks, FinalizeAllowed, PoolType
<1>2. shared \in 0 .. pool.tokensBought
  <2>1. /\ pool.totalContributed \in U64 /\ pool.tokensBought \in U64
        /\ reserves.token \in U64 /\ reserves.quote \in U64 /\ reserves.quote > 0
    BY <1>t DEF Safe, TypeOK, Readable, ReservePairs, PoolType, FinalizeAt, FinalizeWorks
  <2>2. shared \in U64 /\ shared <= pool.tokensBought
    BY <2>1, DistributableType
  <2> HIDE DEF shared
  <2> QED BY <2>1, <2>2 DEF U64
<1>3. UNCHANGED <<wallet, Amount, Claimants, tokens, escrow, GiftsHeld>>
  BY DEF FinalizeAt, FinalizeWorks, Amount, Claimants, GiftsHeld
<1> HIDE DEF shared
<1>4. Sale!Priced
  BY <1>1, <1>2, <1>3 DEF Sale!Priced, Phase
<1> QED BY <1>4 DEF Mapped, Sale!SaleNext

(* claim hands over the part the stake is worth, and only once.             *)
LEMMA ClaimServes ==
  ASSUME Safe, NEW c \in Contributors, Claim(c)
  PROVE  Mapped
<1>t. /\ pool \in PoolType /\ contribution \in [Contributors -> ContributionType]
      /\ tokens \in [Contributors -> Nat]
  BY DEF Safe, TypeOK
<1>1. /\ pool.status = "Finalized" /\ pool'.status = "Finalized"
      /\ pool'.tokensBought = pool.tokensBought
      /\ pool'.distributable = pool.distributable
      /\ ~contribution[c].claimed
  BY <1>t DEF Claim, ClaimWorks, AfterClaim, PoolType
<1>2. Amount[c] \in Nat /\ Amount[c] <= pool.totalContributed /\ c \in 1..N
  <2>1. Amount \in [1..N -> Nat]
    BY AmountType DEF Safe
  <2> QED BY <2>1, TermAtMostSum DEF Safe, LedgerMatchesStakes, Contributors
<1>3. Share(c) = (pool.distributable * Amount[c]) \div Sale!Total
  <2>1. /\ pool.distributable \in U64 /\ pool.totalContributed \in U64
        /\ pool.totalContributed > 0
    BY <1>t DEF Claim, ClaimWorks, PoolType
  <2>2. Share(c) = Allocation(pool.distributable, Amount[c], pool.totalContributed)
    BY DEF Share, Amount
  <2> QED BY <1>2, <2>1, <2>2, ShareIsQuotient, SaleTotal
<1>4. tokens' = [tokens EXCEPT ![c] = @ + Share(c)]
  BY DEF Claim, ClaimWorks
<1>5. contribution' = [contribution EXCEPT ![c].claimed = TRUE]
  BY DEF Claim, ClaimWorks
<1>6. Amount' = Amount /\ c \notin Claimants /\ Claimants' = Claimants \cup {c}
  BY <1>t, <1>1, <1>5 DEF Amount, Claimants, ContributionType
<1>7. UNCHANGED <<wallet, escrow, GiftsHeld>>
  BY DEF Claim, ClaimWorks, GiftsHeld
<1>8. Sale!Served(c)
  BY <1>1, <1>3, <1>4, <1>6, <1>7 DEF Sale!Served, Phase
<1> QED BY <1>8 DEF Mapped, Sale!SaleNext, Sale!People, Contributors

(* close_pool retires a sale that returned everything.                      *)
LEMMA CloseRetires ==
  ASSUME Safe, Unpriced, ClosePool
  PROVE  Mapped
<1>t. pool \in PoolType
  BY DEF Safe, TypeOK
<1>1. /\ pool.status \in {"Refundable", "Closed"} /\ pool.totalContributed = 0
      /\ pool'.status = "None" /\ pool'.tokensBought = 0 /\ pool'.distributable = 0
  BY DEF ClosePool, CloseAllowed, NoPool, NewPool, Safe, Custody, SpentIsRaised, Sold
<1>2. pool.tokensBought = 0 /\ pool.distributable = 0
  BY <1>t, <1>1 DEF Unpriced, Safe, Custody, BuyXorRefund, Sold, PoolType, U64
<1>3. UNCHANGED <<wallet, Amount, Claimants, tokens>>
  BY DEF ClosePool, Amount, Claimants
<1>4. escrow - GiftsHeld = 0
  BY <1>1, SaleTotal DEF Sold
<1>5. escrow' - GiftsHeld' = 0
  <2>1. escrow' = 0 /\ given' = given /\ returned' = returned + escrow
    BY DEF ClosePool
  <2>2. escrow \in Int /\ given \in Int /\ returned \in Int
    BY DEF Safe, TypeOK
  <2> QED BY <1>4, <2>1, <2>2 DEF GiftsHeld
<1>6. \A p \in Sale!People : Amount[p] = 0
  <2>1. Amount \in [1..N -> Nat] /\ SumTo(Amount, N) = 0
    BY <1>1, AmountType DEF Safe, LedgerMatchesStakes
  <2>2. ASSUME NEW p \in 1..N PROVE Amount[p] = 0
    <3>1. Amount[p] <= SumTo(Amount, N) /\ Amount[p] \in Nat
      BY <2>1, TermAtMostSum
    <3> QED BY <2>1, <3>1
  <2> QED BY <2>2 DEF Sale!People
<1>7. Sale!Retired
  BY <1>1, <1>2, <1>3, <1>4, <1>5, <1>6 DEF Sale!Retired, Phase
<1> QED BY <1>7 DEF Mapped, Sale!SaleNext

(* Every step of the program is a step of the sale or invisible to it.      *)
LEMMA StepMaps == Safe /\ Unpriced /\ [Step]_vars => Mapped
<1> SUFFICES ASSUME Safe, Unpriced, [Step]_vars PROVE Mapped
  OBVIOUS
<1>t. pool \in PoolType
  BY DEF Safe, TypeOK
<1>1. ASSUME NEW launchAt \in Times, NEW grace \in Times,
             NEW minRaise \in Limits, NEW maxPool \in Limits,
             NEW minContribution \in Limits,
             CreatePool(launchAt, grace, minRaise, maxPool, minContribution)
      PROVE  Mapped
  <2>1. /\ pool.status = "None" /\ pool'.status = "Open"
        /\ pool'.tokensBought = 0 /\ pool'.distributable = 0
    BY <1>1 DEF CreatePool, NewPool
  <2>2. pool.tokensBought = 0 /\ pool.distributable = 0
    BY <1>t, <2>1 DEF Unpriced, Safe, Custody, BuyXorRefund, Sold, PoolType, U64
  <2>3. UNCHANGED <<wallet, Amount, Claimants, tokens, escrow, GiftsHeld>>
    BY <1>1 DEF CreatePool, Amount, Claimants, GiftsHeld
  <2>4. Sale!Announced
    BY <2>1, <2>2, <2>3 DEF Sale!Announced, Phase
  <2> QED BY <2>4 DEF Mapped, Sale!SaleNext
<1>2. ASSUME NEW c \in Contributors, NEW amount \in Amounts, Contribute(c, amount)
      PROVE  Mapped
  BY <1>2, ContributeDeposits
<1>3. ASSUME NEW mint \in Mints \cup {NoMint}, BeginLaunch(mint)
      PROVE  Mapped
  <2>1. Phase' = Phase /\ Holdings' = Holdings
    BY <1>t, <1>3 DEF BeginLaunch, LaunchAllowed, Phase, Holdings, Amount,
       Claimants, GiftsHeld, PoolType
  <2> QED BY <2>1, SaleStutters DEF Mapped
<1>4. ASSUME NEW got \in TokensOut, NEW left \in Unspent, NEW after \in Reserves,
             Spend(got, left, after)
      PROVE  Mapped
  BY <1>4, SpendSells
<1>5. ASSUME NEW reserves \in Readable, FinalizeAt(reserves)
      PROVE  Mapped
  BY <1>5, FinalizePrices
<1>6. ASSUME NEW c \in Contributors, Claim(c)
      PROVE  Mapped
  BY <1>6, ClaimServes
<1>7. ASSUME NEW c \in Contributors, Refund(c)
      PROVE  Mapped
  BY <1>7, RefundWithdraws
<1>8. CASE MarkRefundable
  <2>1. /\ pool.status \in {"Launching", "Open"} /\ pool'.status = "Refundable"
        /\ pool'.tokensBought = pool.tokensBought
        /\ pool'.distributable = pool.distributable
    BY <1>t, <1>8 DEF MarkRefundable, MarkAllowed, PoolType
  <2>2. UNCHANGED <<wallet, Amount, Claimants, tokens, escrow, GiftsHeld>>
    BY <1>8 DEF MarkRefundable, Amount, Claimants, GiftsHeld
  <2>3. Sale!Abandoned
    BY <2>1, <2>2 DEF Sale!Abandoned, Phase
  <2> QED BY <2>3 DEF Mapped, Sale!SaleNext
<1>9. CASE ClosePool
  BY <1>9, CloseRetires
<1>10. ASSUME UNCHANGED <<pool, contribution, wallet, tokens, escrow, given, returned>>
       PROVE  Mapped
  <2>1. Phase' = Phase /\ Holdings' = Holdings
    BY <1>10 DEF Phase, Holdings, Amount, Claimants, GiftsHeld
  <2> QED BY <2>1, SaleStutters DEF Mapped
<1>11. ASSUME NEW m \in Mints, PumpCreate(m) \/ Trade(m) PROVE Mapped
  BY <1>10, <1>11 DEF PumpCreate, Trade
<1>12. CASE Tick
  BY <1>10, <1>12 DEF Tick
<1>13. CASE BuyAgain \/ UNCHANGED vars
  BY <1>10, <1>13 DEF BuyAgain, vars
<1>14. CASE GiveSome
  <2>1. PICK lamports \in 1 .. (GiftMax - given) : Give(lamports)
    BY <1>14 DEF GiveSome
  <2>2. escrow \in Int /\ given \in Int /\ returned \in Int /\ lamports \in Int
    BY DEF Safe, TypeOK
  <2>3. escrow' - GiftsHeld' = escrow - GiftsHeld
    BY <2>1, <2>2 DEF Give, GiftsHeld
  <2>4. Phase' = Phase /\ Holdings' = Holdings
    BY <2>1, <2>3 DEF Give, Phase, Holdings, Amount, Claimants
  <2> QED BY <2>4, SaleStutters DEF Mapped
<1> QED
  BY <1>1, <1>2, <1>3, <1>4, <1>5, <1>6, <1>7, <1>8, <1>9, <1>11, <1>12, <1>13,
     <1>14 DEF Step, Next, Instruction, CompleteBuy, Buy, Finalize

-----------------------------------------------------------------------------
(* What the steps rest on holds at the start.                               *)
LEMMA MappedInit == Init => Safe /\ Unpriced
BY SafeInit DEF Init, Unpriced, NoPool, NewPool

(* The escrow program, called by anyone in any order, keeps the promise of  *)
(* a pooled sale.                                                           *)
THEOREM EscrowImplementsSale == Spec => ImplementsSale
<1>1. Safe /\ Unpriced /\ [Next]_vars => Safe' /\ Unpriced' /\ Mapped
  BY SafeStep, UnpricedStep, StepMaps DEF Step
<1> QED BY MappedInit, SaleStarts, <1>1, PTL
        DEF Spec, ImplementsSale, Sale!SaleSpec, Mapped

(* So it does with any number of executors that overlap, crash and retry,   *)
(* and an engine that lands their bundles late, in part or never.           *)
THEOREM LaunchImplementsSale == LaunchSpec => ImplementsSale
<1>1. LaunchInit => Safe /\ Unpriced /\ Sale!SaleInit
  BY MappedInit, SaleStarts DEF LaunchInit
<1>2. Safe /\ Unpriced /\ [LaunchNext]_launchVars => Safe' /\ Unpriced' /\ Mapped
  BY LaunchStep, SafeStep, UnpricedStep, StepMaps
<1> QED BY <1>1, <1>2, PTL DEF LaunchSpec, ImplementsSale, Sale!SaleSpec, Mapped
=============================================================================
