--------------------------- MODULE EscrowProperties -------------------------
(***************************************************************************)
(* What the escrow program owes its contributors, stated over Escrow.       *)
(***************************************************************************)
EXTENDS Escrow, FiniteSets

Amount == [c \in Contributors |-> contribution[c].amount]

\* What each contributor of a finalized pool can still claim.
Owed == [c \in Contributors |->
           IF contribution[c].claimed \/ pool.totalContributed = 0
           THEN 0 ELSE Share(c)]

Staked == {c \in Contributors : contribution[c].amount > 0}

-----------------------------------------------------------------------------
PoolType ==
  [ status : Statuses, mint : Mints \cup {NoMint},
    launchAt : Times, graceEndsAt : Times,
    minRaise : U64, maxPool : U64, minContribution : U64,
    totalContributed : U64, contributorCount : 0 .. CountMax,
    tokensBought : U64, distributable : U64, burned : U64,
    postReserves : ReservePairs, totalClaimed : U64, totalRefunded : U64 ]

ContributionType ==
  [exists : BOOLEAN, amount : U64, claimed : BOOLEAN, refunded : BOOLEAN]

(* Every account field keeps the type state.rs declares for it, and no      *)
(* balance goes below zero.                                                 *)
TypeOK ==
  /\ now \in Times
  /\ pool \in PoolType
  /\ contribution \in [Contributors -> ContributionType]
  /\ wallet \in [Contributors -> Nat]
  /\ escrow \in Nat /\ buyer \in Nat /\ paid \in Nat /\ returned \in Nat
  /\ given \in 0 .. GiftMax
  /\ vault \in Nat
  /\ tokens \in [Contributors -> Nat]
  /\ curve \in [Mints -> ReservePairs \cup {NoCurve}]

(* total_contributed is the sum of the contribution accounts, for whatever  *)
(* sequence of contributions, refunds, closes and re-creations; without a   *)
(* pool no account holds a stake.                                           *)
LedgerMatchesStakes ==
  /\ pool.totalContributed = SumTo(Amount, N)
  /\ pool.status = "None" => Staked = {}

\* Of what strangers sent, what no close has given to the creator yet.
GiftsHeld == given - returned

(* The lamports of the pool account are exactly what its ledger promises,   *)
(* and what strangers sent, until the one buy; the buy takes what the       *)
(* ledger promises and leaves the gifts.                                    *)
SolFollowsStatus ==
  IF pool.status \in Sold
  THEN escrow = GiftsHeld /\ buyer + paid = pool.totalContributed
  ELSE escrow = pool.totalContributed + GiftsHeld /\ buyer = 0 /\ paid = 0

(* While the buy has not happened, what a contributor holds in the wallet   *)
(* and in the contribution account is what the contributor came with.       *)
WholeUntilBuy ==
  pool.status \notin Sold =>
    \A c \in Contributors : wallet[c] + contribution[c].amount = Funds

(* The pool either bought or refunded, never both: a refunded pool cannot   *)
(* buy afterwards and a bought pool gives no lamport back.                  *)
BuyXorRefund ==
  /\ pool.tokensBought > 0 => pool.totalRefunded = 0
  /\ pool.tokensBought > 0 <=> pool.status \in Sold

(* close_pool empties the account whatever is in it, but nothing that a     *)
(* contributor put there: besides the rent the creator gets gifts at most.  *)
CreatorGetsNoStake == returned <= given

(* contributor_count is the number of contributors with a stake, whenever   *)
(* stakes are not being refunded.                                           *)
CountMatchesStakes ==
  pool.status \in {"Open", "Launching", "Bought", "Finalized"} =>
    pool.contributorCount = Cardinality(Staked)

(* A launch spends a raise within the bounds the pool was created with.     *)
RaiseWithinTerms ==
  /\ pool.totalContributed <= pool.maxPool
  /\ pool.status \in {"Launching"} \cup Sold =>
       pool.totalContributed >= pool.minRaise

(* Whoever claims last is paid too: the vault covers every share not yet    *)
(* claimed, and what no one can claim is dust below one unit per            *)
(* contributor.                                                             *)
VaultCoversClaims ==
  pool.status = "Finalized" =>
    LET owed == SumTo(Owed, N)
    IN  /\ owed <= vault
        /\ vault < owed + pool.contributorCount

(* The tokens a contributor got are the same whenever in the order of       *)
(* claims the claim came, and nobody without a claim has any.               *)
SameShareForAll ==
  \A c \in Contributors :
    tokens[c] = IF contribution[c].claimed THEN Share(c) ELSE 0

(* What finalize's two floors, its cap and its conversion to u64 do to a    *)
(* contributor: at the price finalize recorded, which is whatever the       *)
(* account its caller passed says, a share is never worth more than the     *)
(* stake it was bought with, truncated worth or not; and where the worth    *)
(* fits a u64 and something was burned it falls short by less than two      *)
(* units.                                                                   *)
ShareWithinRecordedPrice ==
  LET price == pool.postReserves
      worth == MarketWorth(pool.totalContributed, price.token, price.quote)
  IN  pool.status = "Finalized" =>
        \A c \in Staked :
          /\ Share(c) * price.quote <= contribution[c].amount * price.token
          /\ worth \in U64 /\ pool.burned > 0 =>
               contribution[c].amount * price.token < (Share(c) + 2) * price.quote

(* Refunds wait for the launch window: no terms create_pool takes, however  *)
(* late they lie, open them at launch_at or before, while contributions are *)
(* still taken and before a launch can begin.                               *)
RefundsWaitForLaunch == RefundAllowed => now > pool.launchAt

(* No transaction that is due fails: no checked sum overflows, no balance   *)
(* falls short, no flag is left over from an earlier pool.  Once refunds    *)
(* are open every stake can be fetched; every share of a finalized pool can *)
(* be claimed, whatever was claimed before; a pool that bought can be       *)
(* finalized at any curve with reserves; a raise that met its minimum can   *)
(* be launched within its window; a refunded pool can be closed.            *)
NoDueCallFails ==
  /\ RefundAllowed => \A c \in Staked : RefundWorks(c)
  /\ pool.status = "Finalized" =>
       \A c \in Staked :
         ~contribution[c].claimed /\ (Share(c) > 0 \/ pool.distributable = 0)
           => ClaimWorks(c)
  /\ pool.status = "Bought" =>
       \A reserves \in Readable :
         reserves.token > 0 /\ reserves.quote > 0 => FinalizeWorks(reserves)
  /\ (/\ pool.status = "Open" /\ now >= pool.launchAt /\ now < pool.graceEndsAt
      /\ pool.totalContributed >= pool.minRaise) => LaunchAllowed
  /\ pool.status = "Refundable" /\ Staked = {} => CloseAllowed

-----------------------------------------------------------------------------
(* Once the buy happened nobody's stake, and so nobody's share, changes.    *)
StakesFrozenAfterBuy ==
  [][pool.status \in Sold => /\ Amount' = Amount
                             /\ pool'.totalContributed = pool.totalContributed
                             /\ pool'.tokensBought = pool.tokensBought]_vars

\* The statuses one transaction can lead to.
Successors ==
  [ None |-> {"Open"}, Open |-> {"Launching", "Refundable"},
    Launching |-> {"Bought", "Refundable"}, Bought |-> {"Finalized"},
    Finalized |-> {}, Refundable |-> {"None"}, Closed |-> {"None"} ]

(* The lifecycle of state.rs: statuses only move forward, and the account   *)
(* goes only after all was refunded.                                        *)
Lifecycle ==
  [][pool'.status # pool.status =>
       pool'.status \in Successors[pool.status]]_vars

-----------------------------------------------------------------------------
(* Whoever staked and keeps asking gets the lamports back or sees the pool  *)
(* bought: no contributor, creator or orchestrator can keep the escrow shut *)
(* beyond the grace period.                                                 *)
StakeIsSpentOrReturned ==
  \A c \in Contributors :
    contribution[c].amount > 0 ~>
      (pool.status \in Sold \/ wallet[c] = Funds)

(* After the buy every contributor with a share of at least one unit gets   *)
(* it.                                                                      *)
SaleSettles ==
  \A c \in Contributors :
    (pool.status = "Bought" /\ contribution[c].amount > 0) ~>
      (pool.status = "Finalized" /\ tokens[c] = Share(c))

-----------------------------------------------------------------------------
(* Statements of the repository that the code does not keep *)

(* docs/plans/phase-1-escrow.md: a finalized pool is closed when empty, its *)
(* rent reclaimed.                                                          *)
SettledPoolCanClose ==
  (pool.status = "Finalized" /\ \A c \in Staked : contribution[c].claimed)
    => CloseAllowed

(* README.md and finalize.rs: the surplus is burned so that the cost basis  *)
(* equals the post-buy market price, from the reserves stored at the buy.   *)
PriceIsStoredAtBuy ==
  [][(pool.status = "Bought" /\ pool'.status = "Finalized")
       => pool'.postReserves = pool.postReserves]_vars

(* docs/plans/phase-1-escrow.md: anyone can contribute while the pool takes *)
(* contributions.                                                           *)
AnyoneMayContribute ==
  (pool.status = "Open" /\ now < pool.launchAt
     /\ pool.contributorCount < CountMax)
    => \A c \in Contributors : MayContribute(c)
=============================================================================
