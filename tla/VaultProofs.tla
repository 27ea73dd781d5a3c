----------------------------- MODULE VaultProofs -----------------------------
(***************************************************************************)
(* The count of the contributors and the tokens of the sale, for any number *)
(* of contributors and any amounts.                                         *)
(***************************************************************************)
EXTENDS EscrowProofs

USE NAssumption, LamportAssumption, CountAssumption, TimeAssumption,
    InputAssumption, MintAssumption, CurveAssumption, PumpAssumption, GiftAssumption,
    WordAssumption

-----------------------------------------------------------------------------
(* contributor_count *)

\* The statuses in which no stake is being refunded.
Counting == {"Open", "Launching", "Bought", "Finalized"}

\* One for each contributor with a stake.
One == [c \in Contributors |-> IF contribution[c].amount > 0 THEN 1 ELSE 0]

\* An account holds a stake from its creation until it is refunded.
StakeUntilRefund ==
  \A c \in Contributors :
    contribution[c].amount > 0
      <=> contribution[c].exists /\ ~contribution[c].refunded

Counted ==
  /\ StakeUntilRefund
  /\ pool.status \in Counting => pool.contributorCount = SumTo(One, N)

(* The indicator of the stakes can be summed.                               *)
LEMMA OneType == One \in [1..N -> Nat]
BY DEF One, Contributors

(* Where nobody has a stake the indicator sums to zero.                     *)
LEMMA NobodyCounted ==
  ASSUME TypeOK, Staked = {} PROVE SumTo(One, N) = 0
<1>1. \A c \in 1..N : One[c] = 0
  BY DEF One, Staked, Contributors
<1> QED BY <1>1, OneType, SumOfZeros

(* Before the first pool nobody is counted.                                 *)
LEMMA CountedInit == Init => Counted
BY DEF Init, Counted, Counting, StakeUntilRefund, NoContribution, NoPool, NewPool

(* A step that changes no account, nor the count while it counts.           *)
LEMMA CountedFrame ==
  ASSUME Counted, contribution' = contribution,
         pool'.contributorCount = pool.contributorCount,
         pool'.status \in Counting => pool.status \in Counting
  PROVE  Counted'
<1>1. One' = One
  BY DEF One
<1> QED BY <1>1 DEF Counted, StakeUntilRefund

(* Every action keeps the count: contribute counts a contributor with the   *)
(* first stake only, and a refund ends the counting.                        *)
LEMMA CountedStep ==
  TypeOK /\ LedgerMatchesStakes /\ Counted /\ [Step]_vars => Counted'
<1> SUFFICES ASSUME TypeOK, LedgerMatchesStakes, Counted, [Step]_vars
             PROVE  Counted'
  OBVIOUS
<1> USE DEF TypeOK, PoolType
<1>1. ASSUME NEW launchAt \in Times, NEW grace \in Times,
             NEW minRaise \in Limits, NEW maxPool \in Limits,
             NEW minContribution \in Limits,
             CreatePool(launchAt, grace, minRaise, maxPool, minContribution)
      PROVE  Counted'
  <2>1. /\ contribution' = contribution /\ pool.status = "None"
        /\ pool'.contributorCount = 0
    BY <1>1 DEF CreatePool, NewPool
  <2>2. SumTo(One, N) = 0 /\ One' = One
    BY <2>1, NobodyCounted DEF LedgerMatchesStakes, One
  <2> QED BY <2>1, <2>2 DEF Counted, StakeUntilRefund
<1>2. ASSUME NEW c \in Contributors, NEW amount \in Amounts, Contribute(c, amount)
      PROVE  Counted'
  <2>1. /\ contribution' = [contribution EXCEPT ![c] = Increased(contribution[c], amount)]
        /\ pool.status = "Open" /\ amount > 0 /\ amount \in Nat
        /\ MayContribute(c)
    BY <1>2 DEF Contribute, U64
  <2>2. contribution[c].amount \in Nat
    BY DEF ContributionType, U64
  <2>3. StakeUntilRefund'
    BY <2>1, <2>2 DEF Counted, StakeUntilRefund, Increased
  <2>4. contribution'[c].amount > 0
    BY <2>1, <2>2 DEF Increased
  <2>5. One' = [One EXCEPT ![c] = 1]
    BY <2>1, <2>4 DEF One
  <2>6. SumTo(One', N) = SumTo(One, N) - One[c] + 1
    <3>1. \A j \in 1..N, x \in Nat :
            SumTo([One EXCEPT ![j] = x], N) = SumTo(One, N) - One[j] + x
      BY OneType, SumUpdate
    <3> QED BY <2>5, <3>1 DEF Contributors
  <2>7. One[c] = IF IsNew(c) THEN 0 ELSE 1
    BY <2>1, <2>2 DEF One, IsNew, MayContribute, Counted, StakeUntilRefund
  <2>8. pool'.contributorCount
          = IF IsNew(c) THEN pool.contributorCount + 1 ELSE pool.contributorCount
    BY <1>2 DEF Contribute
  <2>9. pool.contributorCount = SumTo(One, N) /\ SumTo(One, N) \in Nat
    BY <2>1, OneType, SumNatural DEF Counted, Counting
  <2> QED BY <2>3, <2>6, <2>7, <2>8, <2>9 DEF Counted
<1>3. ASSUME NEW mint \in Mints \cup {NoMint}, BeginLaunch(mint)
      PROVE  Counted'
  BY <1>3, CountedFrame DEF BeginLaunch, LaunchAllowed, Counting
<1>4. ASSUME NEW got \in TokensOut, NEW left \in Unspent, NEW after \in Reserves,
             Spend(got, left, after)
      PROVE  Counted'
  BY <1>4, CountedFrame DEF Spend, SpendAllowed, Counting
<1>5. ASSUME NEW reserves \in Readable, FinalizeAt(reserves)
      PROVE  Counted'
  BY <1>5, CountedFrame DEF FinalizeAt, FinalizeWorks, FinalizeAllowed, Counting
<1>6. ASSUME NEW c \in Contributors, Claim(c)
      PROVE  Counted'
  <2>1. /\ pool'.status = pool.status
        /\ pool'.contributorCount = pool.contributorCount
        /\ contribution' = [contribution EXCEPT ![c].claimed = TRUE]
    BY <1>6 DEF Claim, ClaimWorks, AfterClaim
  <2>2. \A k \in Contributors :
          /\ contribution'[k].exists = contribution[k].exists
          /\ contribution'[k].refunded = contribution[k].refunded
          /\ contribution'[k].amount = contribution[k].amount
    BY <2>1 DEF ContributionType
  <2>3. One' = One
    BY <2>2 DEF One
  <2> QED BY <2>1, <2>2, <2>3 DEF Counted, StakeUntilRefund
<1>7. ASSUME NEW c \in Contributors, Refund(c)
      PROVE  Counted'
  <2>1. pool'.status = "Refundable"
    BY <1>7 DEF Refund, RefundWorks, RefundAllowed, StatusAfterRefund
  <2>2. /\ contribution[c].exists
        /\ contribution' = [contribution EXCEPT ![c] = Emptied(contribution[c])]
    BY <1>7 DEF Refund, RefundWorks
  <2>3. StakeUntilRefund'
    BY <2>2 DEF Counted, StakeUntilRefund, Emptied, ContributionType
  <2> QED BY <2>1, <2>3 DEF Counted, Counting
<1>8. CASE MarkRefundable
  BY <1>8, CountedFrame DEF MarkRefundable, Counting
<1>9. CASE ClosePool
  <2>1. pool'.status = "None" /\ contribution' = contribution
    BY <1>9 DEF ClosePool, NoPool, NewPool
  <2> QED BY <2>1 DEF Counted, Counting, StakeUntilRefund
<1>10. ASSUME UNCHANGED <<pool, contribution>> PROVE Counted'
  BY <1>10, CountedFrame
<1>11. ASSUME NEW m \in Mints, PumpCreate(m) \/ Trade(m) PROVE Counted'
  BY <1>10, <1>11 DEF PumpCreate, Trade
<1>12. CASE Tick
  BY <1>10, <1>12 DEF Tick
<1>13. CASE BuyAgain \/ UNCHANGED vars
  BY <1>10, <1>13 DEF BuyAgain, vars
<1>14. CASE GiveSome
  BY <1>10, <1>14 DEF GiveSome, Give
<1> QED
  BY <1>1, <1>2, <1>3, <1>4, <1>5, <1>6, <1>7, <1>8, <1>9, <1>11, <1>12, <1>13,
     <1>14 DEF Step, Next, Instruction, CompleteBuy, Buy, Finalize

(* Where the count counts, it is the number of the stakes.                  *)
LEMMA StakedCount == Cardinality(Staked) = SumTo(One, N)
<1>1. Staked \in SUBSET (1..N)
  BY DEF Staked, Contributors
<1>2. \A c \in 1..N : One[c] = IF c \in Staked THEN 1 ELSE 0
  BY DEF One, Staked, Contributors
<1> QED BY <1>1, <1>2, OneType, SumCounts

(* contributor_count never drifts from the stakes: topping up an account    *)
(* counts nobody twice, and nobody leaves before refunds begin.             *)
THEOREM CountMatchesStakesCorrect == Spec => []CountMatchesStakes
<1>1. Init => Safe /\ Counted
  BY SafeInit, CountedInit
<1>2. Safe /\ Counted /\ [Next]_vars => Safe' /\ Counted'
  BY SafeStep, CountedStep DEF Step, Safe
<1>3. Counted => CountMatchesStakes
  BY StakedCount DEF Counted, CountMatchesStakes, Counting
<1> QED BY <1>1, <1>2, <1>3, PTL DEF Spec

-----------------------------------------------------------------------------
(* The tokens of the sale *)

\* Where the tokens are: nowhere before the buy, in the vault after it, and
\* shared out of the distributable part once the rest is burned.
TokensFollowStatus ==
  /\ pool.status \notin Sold => vault = 0
  /\ pool.status = "Bought" => vault = pool.tokensBought
  /\ pool.status = "Finalized" => vault + SumTo(tokens, N) = pool.distributable

(* What the contributors got can be summed.                                 *)
LEMMA TokensType == TypeOK => tokens \in [1..N -> Nat]
BY DEF TypeOK, Contributors

(* No token was bought before the first pool.                               *)
LEMMA TokensInit == Init => TokensFollowStatus
BY DEF Init, TokensFollowStatus, NoPool, NewPool, Sold

(* A step of the pool before its buy that moves no token.                   *)
LEMMA TokensUnsold ==
  ASSUME TokensFollowStatus, vault' = vault,
         pool.status \notin Sold, pool'.status \notin Sold
  PROVE  TokensFollowStatus'
BY DEF TokensFollowStatus, Sold

(* Every action keeps the tokens where the status says: the buy fills the   *)
(* vault, finalize burns all but the distributable part, a claim moves one  *)
(* share from the vault to its contributor.                                 *)
LEMMA TokensStep == Safe /\ TokensFollowStatus /\ [Step]_vars => TokensFollowStatus'
<1> SUFFICES ASSUME Safe, TokensFollowStatus, [Step]_vars
             PROVE  TokensFollowStatus'
  OBVIOUS
<1>t. TypeOK
  BY DEF Safe
<1> USE DEF TypeOK, PoolType, Sold
<1>1. ASSUME NEW launchAt \in Times, NEW grace \in Times,
             NEW minRaise \in Limits, NEW maxPool \in Limits,
             NEW minContribution \in Limits,
             CreatePool(launchAt, grace, minRaise, maxPool, minContribution)
      PROVE  TokensFollowStatus'
  BY <1>1, TokensUnsold DEF CreatePool, NewPool
<1>2. ASSUME NEW c \in Contributors, NEW amount \in Amounts, Contribute(c, amount)
      PROVE  TokensFollowStatus'
  <2>1. pool'.status = pool.status
    BY <1>t, <1>2 DEF Contribute
  <2> QED BY <1>2, <2>1, TokensUnsold DEF Contribute
<1>3. ASSUME NEW mint \in Mints \cup {NoMint}, BeginLaunch(mint)
      PROVE  TokensFollowStatus'
  BY <1>t, <1>3, TokensUnsold DEF BeginLaunch, LaunchAllowed
<1>4. ASSUME NEW got \in TokensOut, NEW left \in Unspent, NEW after \in Reserves,
             Spend(got, left, after)
      PROVE  TokensFollowStatus'
  <2>1. /\ pool.status = "Launching" /\ pool'.status = "Bought"
        /\ vault' = vault + got /\ pool'.tokensBought = got
    BY <1>t, <1>4 DEF Spend, SpendAllowed, PumpBuy
  <2> QED BY <2>1 DEF TokensFollowStatus, U64
<1>5. ASSUME NEW reserves \in Readable, FinalizeAt(reserves)
      PROVE  TokensFollowStatus'
  <2> DEFINE total == pool.totalContributed
             bought == pool.tokensBought
             shared == Distributable(total, bought, reserves.token, reserves.quote)
             burned == Burned(total, bought, reserves.token, reserves.quote)
  <2>1. pool.status = "Bought" /\ pool'.status = "Finalized"
    BY <1>t, <1>5 DEF FinalizeAt, FinalizeWorks, FinalizeAllowed
  <2>2. /\ vault' = vault - burned /\ tokens' = tokens
        /\ pool'.distributable = shared
    BY <1>t, <1>5 DEF FinalizeAt, FinalizeWorks
  <2>3. vault = bought
    BY <2>1 DEF TokensFollowStatus
  <2>4. shared \in Nat /\ burned = bought - shared
    <3>1. /\ reserves.token \in U64 /\ reserves.quote \in U64
          /\ total \in U64 /\ bought \in U64 /\ reserves.quote > 0
      BY <1>t, <1>5 DEF Readable, ReservePairs, FinalizeAt, FinalizeWorks
    <3>2. shared \in U64 /\ burned = bought - shared
      BY <3>1, DistributableType
    <3> HIDE DEF shared, burned
    <3> QED BY <3>2 DEF U64
  <2>5. SumTo(tokens, N) = 0
    <3>1. \A c \in 1..N : tokens[c] = 0
      BY <2>1 DEF Safe, Shares, ClaimsAreFinal, SameShareForAll, Contributors
    <3> QED BY <1>t, <3>1, TokensType, SumOfZeros
  <2>6. bought \in Nat
    BY <1>t DEF U64
  <2> HIDE DEF shared, burned, bought
  <2>7. vault' + SumTo(tokens', N) = shared
    BY <2>2, <2>3, <2>4, <2>5, <2>6
  <2> QED BY <2>1, <2>2, <2>7 DEF TokensFollowStatus
<1>6. ASSUME NEW c \in Contributors, Claim(c)
      PROVE  TokensFollowStatus'
  <2>1. /\ pool.status = "Finalized" /\ pool'.status = "Finalized"
        /\ pool'.distributable = pool.distributable
        /\ vault' = vault - Share(c)
    BY <1>t, <1>6 DEF Claim, ClaimWorks, AfterClaim
  <2>2. Share(c) \in Nat
    <3>1. /\ pool.distributable \in U64 /\ contribution[c].amount \in U64
          /\ pool.totalContributed \in U64 /\ pool.totalContributed > 0
      BY <1>t, <1>6 DEF Claim, ClaimWorks, ContributionType
    <3>2. Share(c) \in U64
      BY <3>1, AllocationType DEF Share
    <3> QED BY <3>2 DEF U64
  <2> DEFINE x == tokens[c] + Share(c)
  <2>3. tokens[c] \in Nat /\ x \in Nat
    BY <1>t, <2>2
  <2>4. tokens' = [tokens EXCEPT ![c] = x]
    BY <1>6 DEF Claim, ClaimWorks
  <2>5. SumTo(tokens', N) = SumTo(tokens, N) - tokens[c] + x
    <3> HIDE DEF x
    <3>1. \A j \in 1..N, y \in Nat :
            SumTo([tokens EXCEPT ![j] = y], N) = SumTo(tokens, N) - tokens[j] + y
      BY <1>t, TokensType, SumUpdate
    <3> QED BY <2>3, <2>4, <3>1 DEF Contributors
  <2>6. vault + SumTo(tokens, N) = pool.distributable
    BY <2>1 DEF TokensFollowStatus
  <2>7. vault \in Nat /\ SumTo(tokens, N) \in Nat
    BY <1>t, TokensType, SumNatural
  <2>8. vault' + SumTo(tokens', N) = pool'.distributable
    BY <2>1, <2>2, <2>3, <2>5, <2>6, <2>7
  <2> QED BY <2>1, <2>8 DEF TokensFollowStatus
<1>7. ASSUME NEW c \in Contributors, Refund(c)
      PROVE  TokensFollowStatus'
  BY <1>t, <1>7, TokensUnsold DEF Refund, RefundWorks, RefundAllowed, StatusAfterRefund
<1>8. CASE MarkRefundable
  BY <1>t, <1>8, TokensUnsold DEF MarkRefundable, MarkAllowed
<1>9. CASE ClosePool
  <2>1. pool.status \notin Sold
    BY <1>9 DEF ClosePool, CloseAllowed, Safe, Custody, SpentIsRaised
  <2> QED BY <1>9, <2>1, TokensUnsold DEF ClosePool, NoPool, NewPool
<1>10. ASSUME UNCHANGED <<pool, vault, tokens>> PROVE TokensFollowStatus'
  BY <1>10 DEF TokensFollowStatus
<1>11. ASSUME NEW m \in Mints, PumpCreate(m) \/ Trade(m) PROVE TokensFollowStatus'
  BY <1>10, <1>11 DEF PumpCreate, Trade
<1>12. CASE Tick
  BY <1>10, <1>12 DEF Tick
<1>13. CASE BuyAgain \/ UNCHANGED vars
  BY <1>10, <1>13 DEF BuyAgain, vars
<1>14. CASE GiveSome
  BY <1>10, <1>14 DEF GiveSome, Give
<1> QED
  BY <1>1, <1>2, <1>3, <1>4, <1>5, <1>6, <1>7, <1>8, <1>9, <1>11, <1>12, <1>13,
     <1>14 DEF Step, Next, Instruction, CompleteBuy, Buy, Finalize

-----------------------------------------------------------------------------
(* The shares and their sum *)

(* A share fits a u64 as long as the stake is part of the total, so the     *)
(* conversion in allocation cuts nothing off: the share is the quotient.    *)
LEMMA ShareIsQuotient ==
  ASSUME NEW d \in U64, NEW t \in U64, t > 0, NEW x \in Nat, x <= t
  PROVE  Allocation(d, x, t) = (d * x) \div t
<1> DEFINE q == (d * x) \div t
<1>1. d \in Nat /\ t \in Nat \ {0} /\ d < Word
  BY DEF U64
<1>2. d * x \in Nat
  BY <1>1, ProductNatural
<1>3. q \in Nat /\ q * t <= d * x /\ d * x < q * t + t
  BY <1>1, <1>2, Quotient
<1> SUFFICES Allocation(d, x, t) = q
  OBVIOUS
<1> HIDE DEF q
<1>4. CASE x = 0 \/ d = 0
  <2>1. d * x = 0
    BY <1>1, <1>4
  <2>2. q * t <= 0
    BY <1>3, <2>1
  <2>3. q = 0
    BY <1>1, <1>3, <2>2
  <2> QED BY <1>4, <2>3 DEF Allocation
<1>5. CASE x # 0 /\ d # 0
  <2>1. d * x <= d * t
    BY <1>1
  <2>2. q * t <= d * t
    BY <1>1, <1>2, <1>3, <2>1
  <2>3. q <= d
    BY <1>1, <1>3, <2>2
  <2>4. q < Word
    BY <1>1, <1>3, <2>3
  <2> QED BY <1>3, <1>5, <2>4 DEF Allocation, AsU64, q
<1> QED BY <1>4, <1>5

(* So it differs from the exact part by less than one unit, and is exact    *)
(* where there is no stake.                                                 *)
LEMMA ShareBounds ==
  ASSUME NEW d \in U64, NEW t \in U64, t > 0, NEW x \in Nat, x <= t
  PROVE  /\ Allocation(d, x, t) \in Nat
         /\ t * Allocation(d, x, t) <= d * x
         /\ d * x <= t * Allocation(d, x, t) + (t - 1) * (IF x > 0 THEN 1 ELSE 0)
<1> DEFINE q == (d * x) \div t
<1>1. d \in Nat /\ t \in Nat \ {0} /\ t - 1 \in Nat
  BY DEF U64
<1>2. d * x \in Nat /\ (x = 0 => d * x = 0)
  BY <1>1, ProductNatural
<1>3. q \in Nat /\ q * t <= d * x /\ d * x < q * t + t
  BY <1>1, <1>2, Quotient
<1>4. Allocation(d, x, t) = q
  BY ShareIsQuotient
<1> HIDE DEF q
<1>5. t * q = q * t /\ q * t \in Nat
  BY <1>1, <1>3
<1> QED BY <1>1, <1>2, <1>3, <1>4, <1>5

(* Dividing both sides of the bounds on the sum of the shares by the total. *)
LEMMA SharesWithin ==
  ASSUME NEW d \in Nat, NEW t \in Nat \ {0}, NEW s \in Nat, NEW k \in Nat \ {0},
         t * s <= d * t, d * t <= t * s + (t - 1) * k
  PROVE  s <= d /\ d < s + k
<1>1. s <= d
  <2> SUFFICES ASSUME s >= d + 1 PROVE FALSE
    OBVIOUS
  <2>1. t * s >= t * (d + 1)
    OBVIOUS
  <2>2. t * (d + 1) = d * t + t
    OBVIOUS
  <2> QED BY <2>1, <2>2
<1>2. d < s + k
  <2> SUFFICES ASSUME d >= s + k PROVE FALSE
    OBVIOUS
  <2>1. t * d >= t * (s + k)
    OBVIOUS
  <2>2. /\ t * (s + k) = t * s + t * k /\ (t - 1) * k = t * k - k
        /\ t * d = d * t
    OBVIOUS
  <2> QED BY <2>1, <2>2
<1> QED BY <1>1, <1>2

(* What is left in the vault of a finalized pool is what is still owed, and *)
(* less than one unit for each contributor.                                 *)
LEMMA VaultCovers ==
  ASSUME Safe, Counted, TokensFollowStatus PROVE VaultCoversClaims
<1> SUFFICES ASSUME pool.status = "Finalized"
             PROVE  /\ SumTo(Owed, N) <= vault
                    /\ vault < SumTo(Owed, N) + pool.contributorCount
  BY DEF VaultCoversClaims
<1> DEFINE d == pool.distributable
           t == pool.totalContributed
           shares == [c \in 1..N |-> Share(c)]
           k == SumTo(One, N)
<1>1. d \in U64 /\ t \in U64 /\ t > 0 /\ t \in Nat \ {0} /\ d \in Nat
  <2>1. d \in U64 /\ t \in U64
    BY DEF Safe, TypeOK, PoolType
  <2>2. t > 0
    BY DEF Safe, Custody, SpentIsRaised, Sold
  <2> QED BY <2>1, <2>2 DEF U64
<1>2. Amount \in [1..N -> Nat] /\ tokens \in [1..N -> Nat] /\ vault \in Nat
  BY AmountType, TokensType DEF Safe, TypeOK
<1>3. t = SumTo(Amount, N)
  BY DEF Safe, LedgerMatchesStakes
<1>4. pool.contributorCount = k
  BY DEF Counted, Counting
<1>5. vault + SumTo(tokens, N) = d
  BY DEF TokensFollowStatus
<1>6. \A c \in 1..N : Share(c) = Allocation(d, Amount[c], t)
  BY DEF Share, Amount, Contributors
<1>7. \A c \in 1..N : Owed[c] = IF contribution[c].claimed THEN 0 ELSE Share(c)
  BY <1>1 DEF Owed, Contributors
<1>8. \A c \in 1..N : tokens[c] = IF contribution[c].claimed THEN Share(c) ELSE 0
  BY DEF Safe, Shares, SameShareForAll, Contributors
<1> HIDE DEF d, t, k
<1>9. \A c \in 1..N : Amount[c] \in Nat /\ Amount[c] <= t
  BY <1>2, <1>3, TermAtMostSum
<1>10. ASSUME NEW c \in 1..N
       PROVE  /\ Share(c) \in Nat
              /\ t * Share(c) <= d * Amount[c]
              /\ d * Amount[c] <= t * Share(c) + (t - 1) * One[c]
  <2> DEFINE x == Amount[c]
  <2>1. One[c] = IF x > 0 THEN 1 ELSE 0
    BY DEF One, Amount, Contributors
  <2>2. x \in Nat /\ x <= t /\ Share(c) = Allocation(d, x, t)
    BY <1>6, <1>9
  <2> HIDE DEF x
  <2>3. /\ Share(c) \in Nat
        /\ t * Share(c) <= d * x
        /\ d * x <= t * Share(c) + (t - 1) * One[c]
    BY <1>1, <2>1, <2>2, ShareBounds
  <2> QED BY <2>3 DEF x
<1>11. shares \in [1..N -> Nat] /\ One \in [1..N -> Nat] /\ Owed \in [1..N -> Nat]
  <2>1. Owed = [c \in 1..N |-> Owed[c]]
    BY DEF Owed, Contributors
  <2>2. \A c \in 1..N : Owed[c] \in Nat
    BY <1>7, <1>10
  <2> QED BY <1>10, <2>1, <2>2, OneType
<1>12. \A c \in 1..N : /\ t * shares[c] <= d * Amount[c]
                        /\ d * Amount[c] <= t * shares[c] + (t - 1) * One[c]
                        /\ shares[c] = tokens[c] + Owed[c]
  BY <1>7, <1>8, <1>10
<1> HIDE DEF shares
<1>13. t * SumTo(shares, N) <= d * t
  BY <1>1, <1>2, <1>3, <1>11, <1>12, SumScaled
<1>14. d * t <= t * SumTo(shares, N) + (t - 1) * k
  <2>1. t - 1 \in Nat
    BY <1>1
  <2> QED BY <1>1, <1>2, <1>3, <1>11, <1>12, <2>1, SumDominated DEF k
<1>15. SumTo(shares, N) = SumTo(tokens, N) + SumTo(Owed, N)
  <2>1. /\ tokens \in [1..N -> Nat] /\ Owed \in [1..N -> Nat]
        /\ shares \in [1..N -> Nat] /\ N \in Nat
        /\ \A c \in 1..N : shares[c] = tokens[c] + Owed[c]
    BY <1>2, <1>11, <1>12
  <2>2. \A f, g, h \in [1..N -> Nat] :
          (\A c \in 1..N : h[c] = f[c] + g[c]) => SumTo(h, N) = SumTo(f, N) + SumTo(g, N)
    BY <2>1, SumAdd
  <2> QED BY <2>1, <2>2, Zenon
<1>16. /\ SumTo(shares, N) \in Nat /\ SumTo(tokens, N) \in Nat
       /\ SumTo(Owed, N) \in Nat /\ k \in Nat
  BY <1>2, <1>11, SumNatural DEF k
<1>17. k # 0
  <2> SUFFICES ASSUME k = 0 PROVE FALSE
    OBVIOUS
  <2>1. \A c \in 1..N : One[c] <= 0
    BY <1>11, TermAtMostSum DEF k
  <2>2. \A c \in 1..N : Amount[c] = 0
    BY <1>9, <2>1 DEF One, Amount, Contributors
  <2>3. SumTo(Amount, N) = 0
    BY <1>2, <2>2, SumOfZeros
  <2> QED BY <1>1, <1>3, <2>3
<1>18. SumTo(shares, N) <= d /\ d < SumTo(shares, N) + k
  BY <1>1, <1>13, <1>14, <1>16, <1>17, SharesWithin
<1> QED BY <1>2, <1>4, <1>5, <1>15, <1>16, <1>18

(* The last to claim is paid as the first, and the dust nobody can claim is *)
(* below one unit for each contributor.                                     *)
THEOREM VaultCoversClaimsCorrect == Spec => []VaultCoversClaims
<1>1. Init => Safe /\ Counted /\ TokensFollowStatus
  BY SafeInit, CountedInit, TokensInit
<1>2. Safe /\ Counted /\ TokensFollowStatus /\ [Next]_vars
        => Safe' /\ Counted' /\ TokensFollowStatus'
  BY SafeStep, CountedStep, TokensStep DEF Step, Safe
<1>3. Safe /\ Counted /\ TokensFollowStatus => VaultCoversClaims
  BY VaultCovers
<1> QED BY <1>1, <1>2, <1>3, PTL DEF Spec

-----------------------------------------------------------------------------
(* What is due *)

\* What the counters and the terms of the pool say besides Safe: nothing is
\* launched twice, what went back and what is left was once within the
\* maximum, and what was claimed came out of the distributable tokens.
Accounted ==
  /\ pool.status # "Closed"
  /\ pool.status = "Open" => pool.mint = NoMint
  /\ pool.totalRefunded + pool.totalContributed <= pool.maxPool
  /\ IF pool.status = "Finalized"
     THEN vault + pool.totalClaimed = pool.distributable
     ELSE pool.totalClaimed = 0
  /\ pool.status = "Bought" => pool.postReserves \in Reserves

(* It holds before the first pool.                                          *)
LEMMA AccountedInit == Init => Accounted
BY DEF Init, Accounted, NoPool, NewPool

(* A step that moves no lamport and no token of a pool not yet finalized.   *)
LEMMA AccountedFrame ==
  ASSUME Accounted, pool.status # "Finalized",
         pool'.status \notin {"Open", "Bought", "Finalized", "Closed"},
         pool'.totalRefunded = pool.totalRefunded,
         pool'.totalContributed = pool.totalContributed,
         pool'.maxPool = pool.maxPool, pool'.totalClaimed = pool.totalClaimed
  PROVE  Accounted'
BY DEF Accounted

(* Every action keeps the accounts: a refund moves a stake from one counter *)
(* to the other, a claim a share from the vault to the claimed ones.        *)
LEMMA AccountedStep ==
  Safe /\ TokensFollowStatus /\ Accounted /\ [Step]_vars => Accounted'
<1> SUFFICES ASSUME Safe, TokensFollowStatus, Accounted, [Step]_vars
             PROVE  Accounted'
  OBVIOUS
<1>t. TypeOK
  BY DEF Safe
<1> USE DEF TypeOK, PoolType
<1>1. ASSUME NEW launchAt \in Times, NEW grace \in Times,
             NEW minRaise \in Limits, NEW maxPool \in Limits,
             NEW minContribution \in Limits,
             CreatePool(launchAt, grace, minRaise, maxPool, minContribution)
      PROVE  Accounted'
  BY <1>1 DEF CreatePool, NewPool, Accounted, U64
<1>2. ASSUME NEW c \in Contributors, NEW amount \in Amounts, Contribute(c, amount)
      PROVE  Accounted'
  <2>1. /\ pool.status = "Open" /\ pool'.status = "Open" /\ pool'.mint = pool.mint
        /\ pool'.totalContributed <= pool'.maxPool
        /\ pool'.totalRefunded = pool.totalRefunded
        /\ pool'.totalClaimed = pool.totalClaimed
    BY <1>t, <1>2 DEF Contribute
  <2>2. pool'.totalContributed \in Nat /\ pool.totalRefunded = 0
    BY <1>2, <1>t, <2>1 DEF Safe, Custody, NoEarlyRefund, Contribute, U64
  <2> QED BY <2>1, <2>2 DEF Accounted
<1>3. ASSUME NEW mint \in Mints \cup {NoMint}, BeginLaunch(mint)
      PROVE  Accounted'
  BY <1>t, <1>3, AccountedFrame DEF BeginLaunch, LaunchAllowed
<1>4. ASSUME NEW got \in TokensOut, NEW left \in Unspent, NEW after \in Reserves,
             Spend(got, left, after)
      PROVE  Accounted'
  BY <1>t, <1>4 DEF Spend, SpendAllowed, Accounted
<1>5. ASSUME NEW reserves \in Readable, FinalizeAt(reserves)
      PROVE  Accounted'
  <2>1. TokensFollowStatus'
    BY <1>5, TokensStep DEF Step, Next, Instruction, Finalize
  <2>2. /\ pool.status = "Bought" /\ pool'.status = "Finalized"
        /\ pool'.totalRefunded = pool.totalRefunded
        /\ pool'.totalContributed = pool.totalContributed
        /\ pool'.maxPool = pool.maxPool /\ pool'.totalClaimed = pool.totalClaimed
        /\ tokens' = tokens
    BY <1>t, <1>5 DEF FinalizeAt, FinalizeWorks, FinalizeAllowed
  <2>3. SumTo(tokens, N) = 0
    <3>1. \A c \in 1..N : tokens[c] = 0
      BY <2>2 DEF Safe, Shares, ClaimsAreFinal, SameShareForAll, Contributors
    <3> QED BY <1>t, <3>1, TokensType, SumOfZeros
  <2>4. vault' \in Nat
    BY <1>t, <1>5, StepType DEF Step, Next, Instruction, Finalize
  <2>5. vault' + 0 = pool'.distributable
    BY <2>1, <2>2, <2>3 DEF TokensFollowStatus
  <2> QED BY <2>2, <2>4, <2>5 DEF Accounted
<1>6. ASSUME NEW c \in Contributors, Claim(c)
      PROVE  Accounted'
  <2>1. /\ pool.status = "Finalized"
        /\ pool' = [pool EXCEPT !.totalClaimed = @ + Share(c)]
        /\ vault' = vault - Share(c)
    BY <1>6 DEF Claim, ClaimWorks, AfterClaim
  <2>2. /\ pool.distributable \in U64 /\ contribution[c].amount \in U64
        /\ pool.totalContributed \in U64 /\ pool.totalContributed > 0
    BY <1>t, <1>6 DEF Claim, ClaimWorks, ContributionType
  <2>3. Share(c) \in U64
    BY <2>2, AllocationType DEF Share
  <2>4. Share(c) \in Nat /\ vault \in Nat /\ pool.totalClaimed \in Nat
    BY <1>t, <2>3 DEF U64
  <2> QED BY <1>t, <2>1, <2>4 DEF Accounted
<1>7. ASSUME NEW c \in Contributors, Refund(c)
      PROVE  Accounted'
  <2> DEFINE amount == contribution[c].amount
  <2>1. /\ pool.status \in {"Refundable", "Launching", "Open"}
        /\ pool'.status = "Refundable"
        /\ pool'.totalContributed = pool.totalContributed - amount
        /\ pool'.totalRefunded = pool.totalRefunded + amount
        /\ pool'.maxPool = pool.maxPool /\ pool'.totalClaimed = pool.totalClaimed
    BY <1>t, <1>7 DEF Refund, RefundWorks, RefundAllowed, StatusAfterRefund
  <2>2. /\ amount \in Nat /\ pool.totalContributed \in Nat
        /\ pool.totalRefunded \in Nat
    BY <1>t DEF ContributionType, U64
  <2> QED BY <2>1, <2>2 DEF Accounted
<1>8. CASE MarkRefundable
  BY <1>t, <1>8, AccountedFrame DEF MarkRefundable, MarkAllowed
<1>9. CASE ClosePool
  BY <1>9 DEF ClosePool, NoPool, NewPool, Accounted
<1>10. ASSUME UNCHANGED <<pool, vault>> PROVE Accounted'
  BY <1>10 DEF Accounted
<1>11. ASSUME NEW m \in Mints, PumpCreate(m) \/ Trade(m) PROVE Accounted'
  BY <1>10, <1>11 DEF PumpCreate, Trade
<1>12. CASE Tick
  BY <1>10, <1>12 DEF Tick
<1>13. CASE BuyAgain \/ UNCHANGED vars
  BY <1>10, <1>13 DEF BuyAgain, vars
<1>14. CASE GiveSome
  BY <1>10, <1>14 DEF GiveSome, Give
<1> QED
  BY <1>1, <1>2, <1>3, <1>4, <1>5, <1>6, <1>7, <1>8, <1>9, <1>11, <1>12, <1>13,
     <1>14 DEF Step, Next, Instruction, CompleteBuy, Buy, Finalize

\* Everything a due call relies on.
Sound == Safe /\ Counted /\ TokensFollowStatus /\ Accounted

(* It holds at the start.                                                   *)
LEMMA SoundInit == Init => Sound
BY SafeInit, CountedInit, TokensInit, AccountedInit DEF Sound

(* Every step keeps it.                                                     *)
LEMMA SoundStep == Sound /\ [Step]_vars => Sound'
BY SafeStep, CountedStep, TokensStep, AccountedStep DEF Sound, Safe

(* A stake is part of the total.                                            *)
LEMMA StakeWithinTotal ==
  ASSUME Safe, NEW c \in Contributors
  PROVE  /\ contribution[c].amount \in Nat
         /\ contribution[c].amount <= pool.totalContributed
<1>1. Amount \in [1..N -> Nat] /\ pool.totalContributed = SumTo(Amount, N)
  BY AmountType DEF Safe, LedgerMatchesStakes
<1>2. Amount[c] = contribution[c].amount /\ c \in 1..N
  BY DEF Amount, Contributors
<1> QED BY <1>1, <1>2, TermAtMostSum

(* Once refunds are open, a stake can be fetched: the ledger covers it, the *)
(* pool account holds it, and the counter of the refunds has room for it.   *)
LEMMA RefundIsDue ==
  ASSUME Sound, RefundAllowed, NEW c \in Staked PROVE RefundWorks(c)
<1>1. c \in Contributors /\ contribution[c].amount > 0
  BY DEF Staked
<1>2. TypeOK /\ Safe
  BY DEF Sound, Safe
<1>3. /\ contribution[c].amount \in Nat
      /\ pool.totalContributed >= contribution[c].amount
  BY <1>1, <1>2, StakeWithinTotal
<1>4. pool.status \in {"Refundable", "Launching", "Open"}
  BY DEF RefundAllowed
<1>5. contribution[c].exists /\ contribution[c] \in ContributionType
  BY <1>1, <1>2 DEF Sound, Counted, StakeUntilRefund, TypeOK
<1>6. ~contribution[c].claimed
  BY <1>1, <1>4 DEF Sound, Safe, Shares, ClaimsAreFinal
<1>7. /\ pool.totalContributed \in Nat /\ pool.totalRefunded \in Nat
      /\ pool.maxPool \in U64 /\ escrow \in Nat
      /\ given \in Nat /\ returned \in Nat
  BY <1>2 DEF TypeOK, PoolType, U64
<1>8. escrow >= contribution[c].amount
  BY <1>3, <1>4, <1>7 DEF Sound, Safe, Custody, SolFollowsStatus,
     CreatorGetsNoStake, Sold, GiftsHeld
<1>9. pool.totalRefunded + contribution[c].amount \in U64
  BY <1>3, <1>7 DEF Sound, Accounted, U64
<1>10. ~contribution[c].refunded
  BY <1>1, <1>5 DEF Sound, Counted, StakeUntilRefund, ContributionType
<1> QED BY <1>1, <1>3, <1>5, <1>6, <1>8, <1>9, <1>10 DEF RefundWorks

(* A share of a finalized pool can be claimed: the vault covers it, and the *)
(* counter of the claims, which the distributable tokens bound, has room.   *)
LEMMA ClaimIsDue ==
  ASSUME Sound, pool.status = "Finalized", NEW c \in Staked,
         ~contribution[c].claimed, Share(c) > 0 \/ pool.distributable = 0
  PROVE  ClaimWorks(c)
<1>1. c \in Contributors /\ c \in 1..N /\ contribution[c].amount > 0
  BY DEF Staked, Contributors
<1>2. TypeOK /\ Safe
  BY DEF Sound, Safe
<1>3. pool.totalContributed > 0
  BY DEF Sound, Safe, Custody, SpentIsRaised, Sold
<1>4. contribution[c].exists /\ ~contribution[c].refunded
  BY <1>1 DEF Sound, Counted, StakeUntilRefund
<1>5. ASSUME NEW k \in 1..N PROVE Share(k) \in Nat
  <2>1. /\ pool.distributable \in U64 /\ contribution[k].amount \in U64
        /\ pool.totalContributed \in U64
    BY <1>2 DEF TypeOK, PoolType, ContributionType, Contributors
  <2>2. Share(k) \in U64
    BY <1>3, <2>1, AllocationType DEF Share
  <2> QED BY <2>2 DEF U64
<1>6. Owed \in [1..N -> Nat] /\ Owed[c] = Share(c)
  <2>1. \A k \in 1..N :
          Owed[k] = IF contribution[k].claimed \/ pool.totalContributed = 0
                    THEN 0 ELSE Share(k)
    BY DEF Owed, Contributors
  <2>2. \A k \in 1..N : Owed[k] \in Nat
    BY <1>5, <2>1
  <2>3. Owed = [k \in 1..N |-> Owed[k]]
    BY DEF Owed, Contributors
  <2>4. Owed[c] = Share(c)
    BY <1>1, <1>3, <2>1
  <2> QED BY <2>2, <2>3, <2>4
<1>7. SumTo(Owed, N) <= vault /\ SumTo(Owed, N) \in Nat
  BY <1>6, SumNatural, VaultCovers DEF Sound, VaultCoversClaims
<1>8. Owed[c] <= SumTo(Owed, N)
  BY <1>1, <1>6, TermAtMostSum
<1>9. /\ vault \in Nat /\ pool.totalClaimed \in Nat /\ pool.distributable \in U64
      /\ Share(c) \in Nat
  BY <1>1, <1>2, <1>5 DEF TypeOK, PoolType, U64
<1>10. vault >= Share(c)
  BY <1>6, <1>7, <1>8, <1>9
<1>11. pool.totalClaimed + Share(c) \in U64
  <2>1. vault + pool.totalClaimed = pool.distributable
    BY DEF Sound, Accounted
  <2> QED BY <1>9, <1>10, <2>1 DEF U64
<1> QED BY <1>1, <1>3, <1>4, <1>10, <1>11 DEF ClaimWorks

(* A pool that bought can be finalized at any curve with reserves: the      *)
(* vault still holds all it bought, and no more than that is burned.        *)
LEMMA FinalizeIsDue ==
  ASSUME Sound, pool.status = "Bought", NEW reserves \in Readable,
         reserves.token > 0, reserves.quote > 0
  PROVE  FinalizeWorks(reserves)
<1> DEFINE total == pool.totalContributed
           bought == pool.tokensBought
           burned == Burned(total, bought, reserves.token, reserves.quote)
           shared == Distributable(total, bought, reserves.token, reserves.quote)
<1>1. TypeOK
  BY DEF Sound, Safe
<1>2. /\ reserves.token \in U64 /\ reserves.quote \in U64
      /\ total \in U64 /\ bought \in U64
  BY <1>1 DEF TypeOK, Readable, PoolType, ReservePairs
<1>3. total > 0 /\ bought > 0
  BY DEF Sound, Safe, Custody, SpentIsRaised, BuyXorRefund, Sold
<1>4. vault = bought
  BY DEF Sound, TokensFollowStatus
<1>5. /\ shared \in U64 /\ shared <= bought
      /\ burned = bought - shared
  <2>1. reserves.quote > 0
    OBVIOUS
  <2> HIDE DEF total, bought
  <2> QED BY <1>2, <2>1, DistributableType
<1> HIDE DEF shared, burned
<1>6. vault >= burned
  BY <1>2, <1>4, <1>5 DEF U64
<1> QED BY <1>3, <1>6 DEF FinalizeWorks, FinalizeAllowed, DistributableDefined, burned

(* A refunded pool owes nothing, so it can be closed.                       *)
LEMMA CloseIsDue ==
  ASSUME Sound, pool.status = "Refundable", Staked = {} PROVE CloseAllowed
<1>1. \A c \in 1..N : contribution[c].amount = 0
  BY NothingStaked DEF Sound, Safe, TypeOK, Staked
<1>2. Amount \in [1..N -> Nat] /\ \A c \in 1..N : Amount[c] = 0
  BY <1>1, AmountType DEF Sound, Safe, Amount, Contributors
<1>3. SumTo(Amount, N) = 0
  BY <1>2, SumOfZeros
<1> QED BY <1>3 DEF Sound, Safe, LedgerMatchesStakes, CloseAllowed

(* No call that is due fails.                                               *)
LEMMA DueCallsWork == Sound => NoDueCallFails
<1> SUFFICES ASSUME Sound PROVE NoDueCallFails
  OBVIOUS
<1>1. RefundAllowed => \A c \in Staked : RefundWorks(c)
  BY RefundIsDue
<1>2. pool.status = "Finalized" =>
        \A c \in Staked :
          ~contribution[c].claimed /\ (Share(c) > 0 \/ pool.distributable = 0)
            => ClaimWorks(c)
  BY ClaimIsDue
<1>3. pool.status = "Bought" =>
        \A reserves \in Readable :
          reserves.token > 0 /\ reserves.quote > 0 => FinalizeWorks(reserves)
  BY FinalizeIsDue
<1>4. pool.status = "Open" => pool.mint = NoMint
  BY DEF Sound, Accounted
<1>5. pool.status = "Refundable" /\ Staked = {} => CloseAllowed
  BY CloseIsDue
<1> QED BY <1>1, <1>2, <1>3, <1>4, <1>5 DEF NoDueCallFails, LaunchAllowed

(* Whatever happened to this pool and to those before it at its address, a  *)
(* refund, claim, finalize, launch or close that is due goes through.       *)
THEOREM NoDueCallFailsCorrect == Spec => []NoDueCallFails
<1>1. Sound /\ [Next]_vars => Sound'
  BY SoundStep DEF Step
<1> QED BY <1>1, SoundInit, DueCallsWork, PTL DEF Spec

-----------------------------------------------------------------------------
(* The recorded price *)

\* The split of a finalized pool is the one its recorded price gives.
Priced ==
  pool.status = "Finalized" =>
    LET total == pool.totalContributed
        bought == pool.tokensBought
        price == pool.postReserves IN
    /\ total > 0 /\ price.quote > 0
    /\ pool.distributable = Distributable(total, bought, price.token, price.quote)
    /\ pool.burned = Burned(total, bought, price.token, price.quote)

(* No pool is finalized at the start.                                       *)
LEMMA PricedInit == Init => Priced
BY DEF Init, Priced, NoPool, NewPool

\* What the price and the split are read off.
Terms == <<pool.totalContributed, pool.tokensBought, pool.postReserves,
           pool.distributable, pool.burned>>

(* A step that does not finalize, and leaves a finalized pool its split.    *)
LEMMA PricedFrame ==
  ASSUME Priced, pool'.status = "Finalized" => pool.status = "Finalized",
         pool.status = "Finalized" => UNCHANGED Terms
  PROVE  Priced'
BY DEF Priced, Terms

(* finalize records the price it split by; a claim, all that a finalized    *)
(* pool lets happen, leaves both alone.                                     *)
LEMMA PricedStep == Safe /\ Priced /\ [Step]_vars => Priced'
<1> SUFFICES ASSUME Safe, Priced, [Step]_vars PROVE Priced'
  OBVIOUS
<1>t. TypeOK
  BY DEF Safe
<1> USE DEF TypeOK, PoolType
<1>1. ASSUME NEW launchAt \in Times, NEW grace \in Times,
             NEW minRaise \in Limits, NEW maxPool \in Limits,
             NEW minContribution \in Limits,
             CreatePool(launchAt, grace, minRaise, maxPool, minContribution)
      PROVE  Priced'
  BY <1>1 DEF CreatePool, NewPool, Priced
<1>2. ASSUME NEW c \in Contributors, NEW amount \in Amounts, Contribute(c, amount)
      PROVE  Priced'
  <2>1. pool.status = "Open" /\ pool'.status = "Open"
    BY <1>t, <1>2 DEF Contribute
  <2> QED BY <2>1 DEF Priced
<1>3. ASSUME NEW mint \in Mints \cup {NoMint}, BeginLaunch(mint)
      PROVE  Priced'
  BY <1>t, <1>3 DEF BeginLaunch, Priced
<1>4. ASSUME NEW got \in TokensOut, NEW left \in Unspent, NEW after \in Reserves,
             Spend(got, left, after)
      PROVE  Priced'
  BY <1>t, <1>4 DEF Spend, Priced
<1>5. ASSUME NEW reserves \in Readable, FinalizeAt(reserves)
      PROVE  Priced'
  <2> DEFINE total == pool.totalContributed
             bought == pool.tokensBought
             shared == Distributable(total, bought, reserves.token, reserves.quote)
             burned == Burned(total, bought, reserves.token, reserves.quote)
  <2>1. total > 0 /\ reserves.quote > 0
    BY <1>5 DEF FinalizeAt, FinalizeWorks, DistributableDefined
  <2>2. pool' = [pool EXCEPT
          !.distributable = shared, !.burned = burned,
          !.postReserves = reserves, !.status = "Finalized"]
    BY <1>5 DEF FinalizeAt
  <2> HIDE DEF shared, burned
  <2>3. /\ pool'.totalContributed = total /\ pool'.tokensBought = bought
        /\ pool'.postReserves = reserves
        /\ pool'.distributable = shared /\ pool'.burned = burned
    BY <1>t, <2>2
  <2> QED BY <2>1, <2>3 DEF Priced, shared, burned
<1>6. ASSUME NEW c \in Contributors, Claim(c)
      PROVE  Priced'
  BY <1>t, <1>6, PricedFrame DEF Claim, AfterClaim, Terms
<1>7. ASSUME NEW c \in Contributors, Refund(c)
      PROVE  Priced'
  BY <1>t, <1>7 DEF Refund, RefundWorks, RefundAllowed, StatusAfterRefund, Priced
<1>8. CASE MarkRefundable
  BY <1>t, <1>8 DEF MarkRefundable, Priced
<1>9. CASE ClosePool
  BY <1>9 DEF ClosePool, NoPool, NewPool, Priced
<1>10. ASSUME UNCHANGED pool PROVE Priced'
  BY <1>10 DEF Priced
<1>11. ASSUME NEW m \in Mints, PumpCreate(m) \/ Trade(m) PROVE Priced'
  BY <1>10, <1>11 DEF PumpCreate, Trade
<1>12. CASE Tick
  BY <1>10, <1>12 DEF Tick
<1>13. CASE BuyAgain \/ UNCHANGED vars
  BY <1>10, <1>13 DEF BuyAgain, vars
<1>14. CASE GiveSome
  BY <1>10, <1>14 DEF GiveSome, Give
<1> QED
  BY <1>1, <1>2, <1>3, <1>4, <1>5, <1>6, <1>7, <1>8, <1>9, <1>11, <1>12, <1>13,
     <1>14 DEF Step, Next, Instruction, CompleteBuy, Buy, Finalize

(* Multiplying keeps an order.                                              *)
LEMMA ScaleUp ==
  ASSUME NEW a \in Nat, NEW b \in Nat, NEW k \in Nat
  PROVE  /\ a <= b => a * k <= b * k
         /\ a < b /\ k > 0 => a * k < b * k
OBVIOUS

(* So does dividing by what both sides were multiplied with.                *)
LEMMA ScaleDown ==
  ASSUME NEW a \in Nat, NEW b \in Nat, NEW k \in Nat \ {0}
  PROVE  /\ a * k <= b * k => a <= b
         /\ a * k < b * k => a < b
OBVIOUS

(* A stake x of a raise t that is worth d at the price vtok per vquote: two *)
(* floors, of the worth and of the share of it, cost less than two units.   *)
LEMMA TwoFloors ==
  ASSUME NEW t \in Nat \ {0}, NEW x \in Nat, NEW d \in Nat, NEW q \in Nat,
         NEW vtok \in Nat, NEW vquote \in Nat \ {0}, x <= t,
         q * t <= d * x, d * x < q * t + t
  PROVE  /\ d * vquote <= t * vtok => q * vquote <= x * vtok
         /\ t * vtok < d * vquote + vquote => x * vtok < (q + 2) * vquote
<1>0. /\ q * t \in Nat /\ d * x \in Nat /\ t * vtok \in Nat /\ d * vquote \in Nat
      /\ q * vquote \in Nat /\ x * vtok \in Nat /\ (q + 2) * vquote \in Nat
      /\ (q + 2) * t \in Nat /\ (d + 1) * x \in Nat /\ (d + 1) * vquote \in Nat
  OBVIOUS
<1>1. ASSUME d * vquote <= t * vtok PROVE q * vquote <= x * vtok
  <2>1. (q * t) * vquote <= (d * x) * vquote
    BY <1>0, ScaleUp
  <2>2. (d * vquote) * x <= (t * vtok) * x
    BY <1>0, <1>1, ScaleUp
  <2>3. /\ (q * t) * vquote = (q * vquote) * t
        /\ (d * x) * vquote = (d * vquote) * x
        /\ (t * vtok) * x = (x * vtok) * t
    OBVIOUS
  <2>4. (q * vquote) * t <= (x * vtok) * t
    <3>1. (d * vquote) * x \in Int /\ (q * vquote) * t \in Int /\ (x * vtok) * t \in Int
      BY <1>0
    <3> QED BY <2>1, <2>2, <2>3, <3>1
  <2> QED BY <1>0, <2>4, ScaleDown
<1>2. ASSUME t * vtok < d * vquote + vquote PROVE x * vtok < (q + 2) * vquote
  <2>1. (d + 1) * x < (q + 2) * t
    <3>1. (d + 1) * x = d * x + x /\ (q + 2) * t = q * t + t + t
      OBVIOUS
    <3> QED BY <1>0, <3>1
  <2>2. ((d + 1) * x) * vquote < ((q + 2) * t) * vquote
    BY <1>0, <2>1, ScaleUp
  <2>3. t * vtok <= (d + 1) * vquote
    <3>1. (d + 1) * vquote = d * vquote + vquote
      OBVIOUS
    <3> QED BY <1>0, <1>2, <3>1
  <2>4. (t * vtok) * x <= ((d + 1) * vquote) * x
    BY <1>0, <2>3, ScaleUp
  <2>5. /\ ((d + 1) * x) * vquote = ((d + 1) * vquote) * x
        /\ ((q + 2) * t) * vquote = ((q + 2) * vquote) * t
        /\ (t * vtok) * x = (x * vtok) * t
    OBVIOUS
  <2>6. (x * vtok) * t < ((q + 2) * vquote) * t
    <3>1. /\ ((d + 1) * vquote) * x \in Int /\ ((q + 2) * vquote) * t \in Int
          /\ (x * vtok) * t \in Int
      BY <1>0
    <3> QED BY <2>2, <2>4, <2>5, <3>1
  <2> QED BY <1>0, <2>6, ScaleDown
<1> QED BY <1>1, <1>2

(* The split gives a raise no more than its worth at the price, whatever    *)
(* the conversion cut off; where it cut off nothing and something is        *)
(* burned, all of it but a fraction of a unit.                              *)
LEMMA SplitBounds ==
  ASSUME NEW total \in U64, NEW bought \in U64, NEW vtok \in U64, NEW vquote \in U64,
         vquote > 0
  PROVE  LET d == Distributable(total, bought, vtok, vquote) IN
         /\ d \in U64
         /\ d * vquote <= total * vtok
         /\ /\ MarketWorth(total, vtok, vquote) \in U64
            /\ Burned(total, bought, vtok, vquote) > 0
            => total * vtok < d * vquote + vquote
<1> DEFINE d == Distributable(total, bought, vtok, vquote)
           worth == MarketWorth(total, vtok, vquote)
           kept == worth % Word
<1>1. /\ total \in Nat /\ vtok \in Nat /\ bought \in Nat /\ vquote \in Nat \ {0}
  BY DEF U64
<1>2. total * vtok \in Nat
  BY <1>1, ProductNatural
<1>3. worth \in Nat /\ worth * vquote <= total * vtok /\ total * vtok < worth * vquote + vquote
  BY <1>1, <1>2, Quotient DEF MarketWorth
<1>4. d = IF kept > bought THEN bought ELSE kept
  BY DEF Distributable, AsU64
<1>5. d \in U64 /\ Burned(total, bought, vtok, vquote) = bought - d
  BY DistributableType
<1>6. kept \in Nat /\ kept <= worth /\ (worth \in U64 => kept = worth)
  <2> HIDE DEF worth
  <2> QED BY <1>3, WordAssumption DEF U64
<1> HIDE DEF d, worth, kept
<1>7. d \in Nat /\ d <= worth
  BY <1>1, <1>3, <1>4, <1>6
<1>8. d * vquote <= worth * vquote
  BY <1>1, <1>3, <1>7, ScaleUp
<1>9. d * vquote <= total * vtok
  <2>1. d * vquote \in Int /\ worth * vquote \in Int
    BY <1>1, <1>3, <1>7
  <2> QED BY <1>2, <1>3, <1>8, <2>1
<1>10. worth \in U64 /\ Burned(total, bought, vtok, vquote) > 0 => d = worth
  BY <1>1, <1>3, <1>4, <1>5, <1>6
<1> QED BY <1>3, <1>5, <1>9, <1>10 DEF d, worth

(* Nobody is given more than the lamports are worth at the recorded price,  *)
(* nor, unless the worth was truncated or the whole of the purchase is      *)
(* shared, two units less.                                                  *)
LEMMA ShareIsPriced ==
  ASSUME Safe, Priced PROVE ShareWithinRecordedPrice
<1> DEFINE total == pool.totalContributed
           bought == pool.tokensBought
           vtok == pool.postReserves.token
           vquote == pool.postReserves.quote
           d == pool.distributable
           fits == MarketWorth(total, vtok, vquote) \in U64
<1> SUFFICES ASSUME pool.status = "Finalized", NEW c \in Staked
             PROVE  /\ Share(c) * vquote <= contribution[c].amount * vtok
                    /\ fits /\ pool.burned > 0 =>
                         contribution[c].amount * vtok < (Share(c) + 2) * vquote
  BY DEF ShareWithinRecordedPrice
<1> DEFINE x == contribution[c].amount
<1>1. /\ total \in U64 /\ bought \in U64 /\ vtok \in U64 /\ vquote \in U64
      /\ total > 0 /\ vquote > 0
  BY DEF Safe, TypeOK, PoolType, ReservePairs, Priced
<1>2. /\ d = Distributable(total, bought, vtok, vquote)
      /\ pool.burned = Burned(total, bought, vtok, vquote)
  BY DEF Priced
<1>3. x \in Nat /\ x <= total
  BY StakeWithinTotal DEF Staked
<1>4. /\ d \in U64 /\ d * vquote <= total * vtok
      /\ fits /\ pool.burned > 0 => total * vtok < d * vquote + vquote
  <2> DEFINE split == Distributable(total, bought, vtok, vquote)
  <2>1. /\ split \in U64 /\ split * vquote <= total * vtok
        /\ fits /\ Burned(total, bought, vtok, vquote) > 0
             => total * vtok < split * vquote + vquote
    <3> HIDE DEF total, bought, vtok, vquote, d
    <3> QED BY <1>1, SplitBounds
  <2> HIDE DEF total, bought, vtok, vquote, split, fits
  <2> QED BY <1>2, <2>1 DEF split
<1>5. Share(c) = (d * x) \div total
  BY <1>1, <1>3, <1>4, ShareIsQuotient DEF Share
<1> HIDE DEF total, bought, vtok, vquote, d, x, fits
<1>6. /\ total \in Nat \ {0} /\ d \in Nat /\ vtok \in Nat /\ vquote \in Nat \ {0}
  BY <1>1, <1>4 DEF U64
<1>7. d * x \in Nat
  BY <1>3, <1>6, ProductNatural
<1>8. /\ Share(c) \in Nat /\ Share(c) * total <= d * x
      /\ d * x < Share(c) * total + total
  BY <1>5, <1>6, <1>7, Quotient
<1>9. /\ d * vquote <= total * vtok => Share(c) * vquote <= x * vtok
      /\ total * vtok < d * vquote + vquote => x * vtok < (Share(c) + 2) * vquote
  BY <1>3, <1>6, <1>8, TwoFloors
<1> QED BY <1>4, <1>9 DEF x, vtok, vquote

(* Whatever price finalize was given, a contributor's tokens are worth the  *)
(* stake at it or less, by no more than two units where nothing was         *)
(* truncated; whoever claims when.                                          *)
THEOREM ShareWithinRecordedPriceCorrect == Spec => []ShareWithinRecordedPrice
<1>1. Init => Safe /\ Priced
  BY SafeInit, PricedInit
<1>2. Safe /\ Priced /\ [Next]_vars => Safe' /\ Priced'
  BY SafeStep, PricedStep DEF Step, Safe
<1>3. Safe /\ Priced => ShareWithinRecordedPrice
  BY ShareIsPriced
<1> QED BY <1>1, <1>2, <1>3, PTL DEF Spec
=============================================================================
