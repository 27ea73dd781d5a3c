------------------------------- MODULE Escrow -------------------------------
(***************************************************************************)
(* The escrow program (programs/batchit): one pool address, the             *)
(* contribution accounts beside it, and the lamports and tokens they hold.  *)
(*                                                                         *)
(* An instruction is one atomic transaction: a failing require!, a failing  *)
(* checked operation or a failing call into another program reverts all of  *)
(* it.  So each handler is one action, its error returns are the conjuncts  *)
(* of the guard, and instructions of different callers interleave freely.   *)
(*                                                                         *)
(* The pool's address depends on its creator and seed alone, so it can be   *)
(* created again once it was closed; contribution accounts are never        *)
(* closed and are met again by the new pool.  Lamports are counted above    *)
(* the rent of each account.                                                *)
(***************************************************************************)
EXTENDS BurnMath, Sums

CONSTANTS
  N,              \* contributors are 1..N
  Funds,          \* lamports each contributor starts with
  CountMax,       \* largest value of contributor_count: u32::MAX in the program
  MaxTime,        \* last second of the clock and largest timestamp: i64::MAX
  Limits,         \* lamport parameters create_pool is called with
  Amounts,        \* amounts contribute is called with
  Mints,          \* mints begin_launch is called with
  NoMint,         \* Pubkey::default()
  Reserves,       \* virtual reserves a bonding curve may hold
  NoCurve,        \* a bonding curve account that was not created
  OtherReserves,  \* what the bytes of any other account decode to as reserves
  TokensOut,      \* token amounts a Pump buy may return
  Unspent,        \* lamports a Pump buy may leave with the buyer
  GiftMax         \* lamports strangers may send to the pool account, in all

ReservePairs == [token : U64, quote : U64]

ASSUME NAssumption == N \in Nat
ASSUME LamportAssumption == Funds \in U64
ASSUME CountAssumption == CountMax \in Nat
ASSUME TimeAssumption == MaxTime \in Nat
ASSUME InputAssumption == Limits \subseteq U64 /\ Amounts \subseteq U64
ASSUME MintAssumption == NoMint \notin Mints
ASSUME CurveAssumption ==
  /\ Reserves \subseteq ReservePairs
  /\ OtherReserves \subseteq ReservePairs
  /\ NoCurve \notin ReservePairs
ASSUME GiftAssumption == GiftMax \in Nat
ASSUME PumpAssumption == TokensOut \subseteq U64 /\ Unspent \subseteq U64

Contributors == 1 .. N
Times == 0 .. MaxTime

VARIABLES
  now,           \* Clock::get()?.unix_timestamp
  pool,          \* the pool account; status "None" when it does not exist
  contribution,  \* contribution[c]: the contribution account of c
  wallet,        \* wallet[c]: lamports of c
  escrow,        \* lamports of the pool account
  buyer,         \* lamports of the buyer PDA
  paid,          \* lamports handed to Pump
  returned,      \* lamports above the rent that close_pool gave the creator
  given,         \* lamports strangers sent to the pool account
  vault,         \* tokens in the buyer PDA's token account
  tokens,        \* tokens[c]: tokens in the contributor's token account
  curve          \* curve[m]: reserves in the bonding curve account of m

vars == <<now, pool, contribution, wallet, escrow, buyer, paid, returned,
          given, vault, tokens, curve>>

Statuses == {"None", "Open", "Launching", "Bought", "Finalized", "Refundable",
             "Closed"}

\* The statuses of a pool whose lamports were spent.
Sold == {"Bought", "Finalized"}

-----------------------------------------------------------------------------
(* Slips a handler could have had: the mutants the properties are checked   *)
(* against.  No action uses them.                                           *)

\* Two's complement instead of checked_add: MaxTime + 1 is -(MaxTime + 1).
WrappedEnd(launchAt, grace) ==
  IF launchAt + grace <= MaxTime
  THEN launchAt + grace ELSE launchAt + grace - 2 * (MaxTime + 1)

Replaced(account, amount) ==
  [exists |-> TRUE, amount |-> amount, claimed |-> FALSE, refunded |-> FALSE]

EveryTimeNew(c) == TRUE

RefundWhileLaunching ==
  \/ pool.status \in {"Refundable", "Launching"}
  \/ pool.status = "Open" /\ now >= pool.graceEndsAt

RefundOnlyLaunched ==
  \/ pool.status = "Refundable"
  \/ pool.status = "Launching" /\ now >= pool.graceEndsAt

MarkedOnly(account) == [account EXCEPT !.refunded = TRUE]

ShareOfVault(c) ==
  Allocation(vault, contribution[c].amount, pool.totalContributed)

ClaimTakesStake(c) ==
  LET amount == contribution[c].amount
      share == Allocation(pool.distributable, amount, pool.totalContributed)
  IN  [pool EXCEPT !.totalClaimed = @ + share, !.totalContributed = @ - amount]

LaunchBelowMinimum ==
  /\ pool.status = "Open"
  /\ now >= pool.launchAt
  /\ now < pool.graceEndsAt
  /\ pool.mint = NoMint

WholeBalance == escrow

SpendAnytime ==
  /\ pool.status = "Launching"
  /\ pool.mint # NoMint
  /\ pool.totalContributed > 0
  /\ escrow >= pool.totalContributed

FinalizeWithinGrace ==
  pool.status = "Bought" /\ pool.tokensBought > 0 /\ now < pool.graceEndsAt

MarkAnyStatus == pool.status # "None" /\ now >= pool.graceEndsAt

CloseWithStakes == pool.status \in {"Refundable", "Finalized", "Closed"}

-----------------------------------------------------------------------------
(* Accounts as they are first written *)

GraceEnd(launchAt, grace) == launchAt + grace

NewPool(launchAt, grace, minRaise, maxPool, minContribution) ==
  [ status |-> "Open", mint |-> NoMint,
    launchAt |-> launchAt, graceEndsAt |-> GraceEnd(launchAt, grace),
    minRaise |-> minRaise, maxPool |-> maxPool,
    minContribution |-> minContribution,
    totalContributed |-> 0, contributorCount |-> 0,
    tokensBought |-> 0, distributable |-> 0, burned |-> 0,
    postReserves |-> [token |-> 0, quote |-> 0],
    totalClaimed |-> 0, totalRefunded |-> 0 ]

NoPool == [NewPool(0, 0, 0, 0, 0) EXCEPT !.status = "None"]

NoContribution ==
  [exists |-> FALSE, amount |-> 0, claimed |-> FALSE, refunded |-> FALSE]

Init ==
  /\ now = 0
  /\ pool = NoPool
  /\ contribution = [c \in Contributors |-> NoContribution]
  /\ wallet = [c \in Contributors |-> Funds]
  /\ escrow = 0 /\ buyer = 0 /\ paid = 0 /\ returned = 0 /\ given = 0
  /\ vault = 0
  /\ tokens = [c \in Contributors |-> 0]
  /\ curve = [m \in Mints |-> NoCurve]

-----------------------------------------------------------------------------
(* The creator *)

TermsValid(launchAt, grace, minRaise, maxPool, minContribution) ==
  /\ grace > 0
  /\ minContribution > 0
  /\ minRaise >= minContribution
  /\ maxPool >= minRaise
  /\ launchAt > now
  /\ GraceEnd(launchAt, grace) <= MaxTime     \* checked_add

CreatePool(launchAt, grace, minRaise, maxPool, minContribution) ==
  /\ pool.status = "None"                 \* `init`: the account must not exist
  /\ TermsValid(launchAt, grace, minRaise, maxPool, minContribution)
  /\ pool' = NewPool(launchAt, grace, minRaise, maxPool, minContribution)
  /\ UNCHANGED <<now, contribution, wallet, escrow, buyer, paid, returned,
                 given, vault, tokens, curve>>

\* No handler writes Closed: the account goes with its lamports.
CloseAllowed ==
  /\ pool.status \in {"Refundable", "Finalized", "Closed"}
  /\ pool.totalContributed = 0

ClosePool ==
  /\ CloseAllowed
  /\ returned' = returned + escrow
  /\ escrow' = 0
  /\ pool' = NoPool
  /\ UNCHANGED <<now, contribution, wallet, buyer, paid, given, vault, tokens, curve>>

-----------------------------------------------------------------------------
(* A contributor *)

\* The account of c as contribute finds it after init_if_needed: the
\* contributor field of a fresh account is Pubkey::default().
IsNew(c) == ~contribution[c].exists

MayContribute(c) ==
  \/ IsNew(c) /\ pool.contributorCount + 1 <= CountMax
  \/ ~IsNew(c) /\ ~contribution[c].refunded /\ ~contribution[c].claimed

\* The contribution account after contribute.
Increased(account, amount) ==
  [exists |-> TRUE, amount |-> account.amount + amount,
   claimed |-> FALSE, refunded |-> FALSE]

Contribute(c, amount) ==
  LET newTotal == pool.totalContributed + amount IN
  /\ amount > 0
  /\ pool.status = "Open"
  /\ now < pool.launchAt
  /\ amount >= pool.minContribution
  /\ newTotal \in U64
  /\ newTotal <= pool.maxPool
  /\ wallet[c] >= amount
  /\ MayContribute(c)
  /\ contribution[c].amount + amount \in U64
  /\ wallet' = [wallet EXCEPT ![c] = @ - amount]
  /\ escrow' = escrow + amount
  /\ contribution' = [contribution EXCEPT ![c] = Increased(@, amount)]
  /\ pool' = [pool EXCEPT
       !.totalContributed = newTotal,
       !.contributorCount = IF IsNew(c) THEN @ + 1 ELSE @]
  /\ UNCHANGED <<now, buyer, paid, returned, given, vault, tokens, curve>>

RefundAllowed ==
  \/ pool.status = "Refundable"
  \/ pool.status \in {"Launching", "Open"} /\ now >= pool.graceEndsAt

\* The auto-transition, which tests the clock again.
StatusAfterRefund ==
  IF pool.status \in {"Launching", "Open"} /\ now >= pool.graceEndsAt
  THEN "Refundable" ELSE pool.status

Emptied(account) == [account EXCEPT !.refunded = TRUE, !.amount = 0]

\* No require!, checked operation or transfer of refund fails.
RefundWorks(c) ==
  LET amount == contribution[c].amount IN
  /\ RefundAllowed
  /\ contribution[c].exists
  /\ ~contribution[c].refunded
  /\ ~contribution[c].claimed
  /\ amount > 0
  /\ pool.totalContributed >= amount
  /\ pool.totalRefunded + amount \in U64
  /\ escrow >= amount

Refund(c) ==
  LET amount == contribution[c].amount IN
  /\ RefundWorks(c)
  /\ contribution' = [contribution EXCEPT ![c] = Emptied(@)]
  /\ pool' = [pool EXCEPT
       !.status = StatusAfterRefund,
       !.totalContributed = @ - amount,
       !.totalRefunded = @ + amount]
  /\ escrow' = escrow - amount
  /\ wallet' = [wallet EXCEPT ![c] = @ + amount]
  /\ UNCHANGED <<now, buyer, paid, returned, given, vault, tokens, curve>>

Share(c) ==
  Allocation(pool.distributable, contribution[c].amount, pool.totalContributed)

AfterClaim(c) == [pool EXCEPT !.totalClaimed = @ + Share(c)]

ClaimWorks(c) ==
  /\ pool.status = "Finalized"
  /\ contribution[c].exists
  /\ ~contribution[c].claimed
  /\ ~contribution[c].refunded
  /\ contribution[c].amount > 0
  /\ pool.totalContributed > 0
  /\ Share(c) > 0 \/ pool.distributable = 0
  /\ vault >= Share(c)
  /\ pool.totalClaimed + Share(c) \in U64

Claim(c) ==
  /\ ClaimWorks(c)
  /\ vault' = vault - Share(c)
  /\ tokens' = [tokens EXCEPT ![c] = @ + Share(c)]
  /\ contribution' = [contribution EXCEPT ![c].claimed = TRUE]
  /\ pool' = AfterClaim(c)
  /\ UNCHANGED <<now, wallet, escrow, buyer, paid, returned, given, curve>>

-----------------------------------------------------------------------------
(* Anyone *)

LaunchAllowed ==
  /\ pool.status = "Open"
  /\ now >= pool.launchAt
  /\ now < pool.graceEndsAt
  /\ pool.totalContributed >= pool.minRaise
  /\ pool.mint = NoMint

BeginLaunch(mint) ==
  /\ LaunchAllowed
  /\ mint # NoMint
  /\ pool' = [pool EXCEPT !.mint = mint, !.status = "Launching"]
  /\ UNCHANGED <<now, contribution, wallet, escrow, buyer, paid, returned,
                 given, vault, tokens, curve>>

Spendable == pool.totalContributed

SpendAllowed ==
  /\ pool.status = "Launching"
  /\ now < pool.graceEndsAt
  /\ pool.mint # NoMint
  /\ Spendable > 0
  /\ escrow >= Spendable

CurveExists == pool.mint # NoMint /\ curve[pool.mint] # NoCurve

\* The call of buy_exact_sol_in with everything the escrow holds: Pump answers
\* with `got` tokens, leaves `left` lamports with the buyer PDA and the curve
\* at `after`.  min_tokens_out only narrows these answers.
PumpBuy(got, left, after) ==
  /\ left <= Spendable
  /\ buyer' = buyer + left
  /\ paid' = paid + (Spendable - left)
  /\ vault' = vault + got
  /\ curve' = [curve EXCEPT ![pool.mint] = after]

Spend(got, left, after) ==
  /\ SpendAllowed
  /\ PumpBuy(got, left, after)
  /\ got > 0
  /\ escrow' = escrow - Spendable
  /\ pool' = [pool EXCEPT
       !.tokensBought = got, !.postReserves = after, !.status = "Bought"]
  /\ UNCHANGED <<now, contribution, wallet, returned, given, tokens>>

Buy(got, left, after) == CurveExists /\ Spend(got, left, after)

BuyAgain ==
  /\ pool.status = "Bought"
  /\ UNCHANGED vars

CompleteBuy ==
  \/ BuyAgain
  \/ \E got \in TokensOut, left \in Unspent, after \in Reserves :
       Buy(got, left, after)

\* The reserves finalize may find: the curve account is whichever account the
\* caller passes, and one with fewer than 40 bytes selects the snapshot.
Readable ==
  {curve[m] : m \in {x \in Mints : curve[x] # NoCurve}}
    \cup OtherReserves \cup {pool.postReserves}

FinalizeAllowed == pool.status = "Bought" /\ pool.tokensBought > 0

FinalizeWorks(reserves) ==
  LET total == pool.totalContributed
      bought == pool.tokensBought IN
  /\ FinalizeAllowed
  /\ reserves.quote > 0 /\ reserves.token > 0
  /\ DistributableDefined(total, bought, reserves.quote)
  /\ vault >= Burned(total, bought, reserves.token, reserves.quote)

FinalizeAt(reserves) ==
  LET total == pool.totalContributed
      bought == pool.tokensBought
      shared == Distributable(total, bought, reserves.token, reserves.quote)
      burned == Burned(total, bought, reserves.token, reserves.quote) IN
  /\ FinalizeWorks(reserves)
  /\ vault' = vault - burned
  /\ pool' = [pool EXCEPT
       !.distributable = shared, !.burned = burned,
       !.postReserves = reserves, !.status = "Finalized"]
  /\ UNCHANGED <<now, contribution, wallet, escrow, buyer, paid, returned,
                 given, tokens, curve>>

Finalize == \E reserves \in Readable : FinalizeAt(reserves)

MarkAllowed ==
  /\ now >= pool.graceEndsAt
  /\ pool.status \in {"Launching", "Open"}

MarkRefundable ==
  /\ MarkAllowed
  /\ pool' = [pool EXCEPT !.status = "Refundable"]
  /\ UNCHANGED <<now, contribution, wallet, escrow, buyer, paid, returned,
                 given, vault, tokens, curve>>

-----------------------------------------------------------------------------
(* Outside the program: Pump's own instructions and the clock *)

PumpCreate(m) ==
  /\ curve[m] = NoCurve
  /\ \E start \in Reserves : curve' = [curve EXCEPT ![m] = start]
  /\ UNCHANGED <<now, pool, contribution, wallet, escrow, buyer, paid,
                 returned, given, vault, tokens>>

Trade(m) ==
  /\ curve[m] # NoCurve
  /\ \E after \in Reserves : curve' = [curve EXCEPT ![m] = after]
  /\ UNCHANGED <<now, pool, contribution, wallet, escrow, buyer, paid,
                 returned, given, vault, tokens>>

\* Anyone may send lamports to an account that exists, without an instruction
\* of the program.
Give(lamports) ==
  /\ pool.status # "None"
  /\ escrow' = escrow + lamports
  /\ given' = given + lamports
  /\ UNCHANGED <<now, pool, contribution, wallet, buyer, paid, returned, vault,
                 tokens, curve>>

GiveSome == \E lamports \in 1 .. (GiftMax - given) : Give(lamports)

Tick ==
  /\ now < MaxTime
  /\ now' = now + 1
  /\ UNCHANGED <<pool, contribution, wallet, escrow, buyer, paid, returned,
                 given, vault, tokens, curve>>

-----------------------------------------------------------------------------
Instruction ==
  \/ \E launchAt, grace \in Times, minRaise, maxPool, minContribution \in Limits :
       CreatePool(launchAt, grace, minRaise, maxPool, minContribution)
  \/ \E c \in Contributors, amount \in Amounts : Contribute(c, amount)
  \/ \E mint \in Mints \cup {NoMint} : BeginLaunch(mint)
  \/ CompleteBuy
  \/ Finalize
  \/ \E c \in Contributors : Claim(c)
  \/ \E c \in Contributors : Refund(c)
  \/ MarkRefundable
  \/ ClosePool

Next ==
  \/ Instruction
  \/ \E m \in Mints : PumpCreate(m)
  \/ \E m \in Mints : Trade(m)
  \/ GiveSome
  \/ Tick

Spec == Init /\ [][Next]_vars
=============================================================================
