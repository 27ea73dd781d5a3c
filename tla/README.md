# Batch It: models and proofs

A TLA+ description of the Batch It escrow program (`programs/batchit`), of the
burn arithmetic it shares with `packages/core`, of the launch orchestrator
(`apps/orchestrator`) and of the PDA buyer experiment (`spikes/pda-buyer`),
model-checked with TLC and, for the properties that
matter most, proved with TLAPS for every value of the constants. Paths below are
relative to the repository.

## 1. The system

Contributors put SOL into a pool until `launch_at`. In the window
`[launch_at, grace_ends_at)` anyone may commit a mint (`begin_launch`) and make
the one buy on Pump.fun with everything the pool holds (`complete_buy`). After
the buy, `finalize` computes which part of the tokens is worth, at the price
after the buy, what the contributors paid, burns the rest, and each contributor
claims a pro-rata share. If there was no buy before `grace_ends_at`, every
contributor gets the SOL back. An orchestrator process creates the mint and
sends the creation and the buy to Jito as one bundle; it has no rights the
others lack.

| Component | State it keeps | Operations | Talks to |
|---|---|---|---|
| Escrow program, `programs/batchit/src/instructions` | `Pool` account (status, terms, totals, reserves snapshot), one `Contribution` account per contributor, lamports of the pool account and of the buyer PDA, the buyer PDA's token account | `create_pool`, `contribute`, `begin_launch`, `complete_buy`, `finalize`, `claim`, `refund`, `mark_refundable`, `close_pool` | Pump and the token program by CPI, the clock sysvar |
| Burn and split arithmetic, `math.rs` and `packages/core/src/burn.ts` | none | `compute_distributable`, `allocation` and their TypeScript twins | called by `finalize` and `claim`, and by clients |
| Pump call and curve decoding, `pump.rs` | none | `cpi_buy_exact_sol_in`, `decode_bonding_curve_reserves` | Pump |
| Pump.fun (external) | a bonding curve per mint | create, buy, sell | everyone |
| Orchestrator, `apps/orchestrator/src` | a JSON state file per pool, the `LaunchState` in memory, bundles at the engine | a run: load, (announce or send a bundle), save | the state file, an RPC node, the Jito block engine |
| Orchestrator's view of the chain, `state-machine.ts` | none | `nextStageFromChain`, `bundleKind` | reads pool, curve, clock |
| Spike programs and scripts, `programs/spike_*`, `spikes/pda-buyer` | one buyer PDA per program, shared by all runs; one funder; two report files | fund, buy; a run creates a token, buys it through the PDA, in one transaction or step by step, and reports; the fee probe buys with a keypair instead | Pump, RPC, Jito |
| Test harnesses, `tests/` | | | |

What makes it hard:

- **Permissionless interleaving.** Nine instructions, any caller, any order; the
  status and the clock are the only locks. Refunds and the buy must exclude each
  other exactly at `grace_ends_at`.
- **Redundant state.** `total_contributed`, `contributor_count`,
  `total_refunded` and the lamports of the pool account are all kept beside the
  contribution accounts and must agree with them through refunds, closing, and
  re-creation of a pool at the same address, whose contribution accounts are
  still there.
- **Rounding.** Shares are floors; the last claim must still find its tokens.
- **Gifts.** Anyone can send lamports to the pool account without asking the
  program; neither the buy nor the refunds nor the close may depend on them.
- **Liveness without the orchestrator.** Refunds, finalize and claims may not
  depend on anyone but the person who wants them.
- **Crashes and lost answers.** The orchestrator may die between any two steps,
  bundles may land late or never, their answers may be lost, and runs overlap.
  The spike scripts fall back to a second path without knowing what became of
  the first, over a buyer PDA and report files all runs share.

What each component owes:

- the escrow program: the ledger equals the stakes, the lamports equal the
  ledger until the one buy, refund or buy but never both, nothing for the
  creator but rent, stakes frozen after the buy, fair shares that the vault
  covers and that are worth no more than their stakes at the recorded price, no
  refund before the launch and no due call that fails, and stakes that come back or
  are spent;
- the arithmetic: dust goes to the burn, splitting a stake over accounts never
  gains, the whole stake is the whole share, the two languages agree;
- the orchestrator: conclusions that agree with the program's guards, a landed buy
  that every later run can read off the chain, nothing sent without a file, a
  readable file, a resume that follows the chain;
- the spike scripts: a report that says proven only where the tokens arrived,
  one buy per run, no buy by a run that reported a rejection.

## 2. Modules

| Module | Models | Builds on |
|---|---|---|
| `BurnMath` | `math.rs` and `burn.ts`: `Distributable`, `Burned`, `Allocation`, `AsU64` (the `as u64` conversion), `TsDistributable`, `TsAllocation`; `Word` is the number of values of a u64 | |
| `Sums` | sums of a function over `1..n`, as a recursive function | |
| `Escrow` | the escrow program, the clock, Pump's curve | `BurnMath`, `Sums` |
| `EscrowProperties` | the escrow program's properties | `Escrow` |
| `PooledSale` | what a pool promises, step by step and in the end, with no clock, terms, accounts or Pump | `Sums` |
| `EscrowSale` | the escrow program read as a `PooledSale`: the refinement mapping | `EscrowProperties`, `PooledSale` |
| `Resume` | `state-machine.ts` over the chain's state, and its agreement with the guards of `Escrow` | `EscrowProperties` |
| `Launch` | runs of the executor (`launch.ts`, `jito.ts`), the state file, the block engine, composed with `Escrow` | `Resume` |
| `Spike` | the two spike programs, `run.ts`, `run-lite-a.ts` and `run-fee-probe.ts` as runs that overlap and crash, the report files | |
| `MCBurnMath`, `MCEscrow`, `MCLaunch`, `MCSpike` | small instances for TLC | |
| `SumsProofs`, `EscrowProofs`, `VaultProofs`, `LaunchProofs`, `SaleProofs`, `ProgressProofs`, `SpikeProofs`, `BurnMathProofs` | theorems | the modules above |

### Escrow

One transaction is one action. A Solana transaction is atomic, and a failed
`require!`, a failed checked operation or a failed CPI reverts all of it, so
each handler's early returns are the conjuncts of its action's guard and its
assignments are the primed variables. `RefundWorks`, `ClaimWorks` and
`FinalizeWorks` are the guards of the three handlers that pay out, every checked
operation and balance included, and have names because `NoDueCallFails` is about
them: a guard that is false for somebody who is owed the call is money locked in.

| Variable | In the code |
|---|---|
| `now` | `Clock::get()?.unix_timestamp` |
| `pool` | the `Pool` account; status `None` when there is none at the address |
| `contribution[c]` | the `Contribution` account of `c` |
| `wallet[c]`, `escrow`, `buyer` | lamports of the contributor, the pool account, the buyer PDA, above rent |
| `paid`, `returned` | lamports that went to Pump, and to the creator by `close_pool` |
| `given` | lamports strangers sent to the pool account, which no instruction reads |
| `vault`, `tokens[c]` | the buyer PDA's token account, and that of `c` |
| `curve[m]` | the reserves in the bonding curve account of mint `m` |

`CreatePool`, `Contribute`, `BeginLaunch`, `CompleteBuy` (`Buy` or the no-op
`BuyAgain`), `Finalize`, `Claim`, `Refund`, `MarkRefundable` and `ClosePool` are
the handlers of `lib.rs`. `PumpCreate`, `Trade`,
`GiveSome` and `Tick` are the world outside.

Choices made in the abstraction:

- One pool address. A pool address depends on creator and seed only, pools share
  no account, and the address can be used again after `close_pool`; what can
  meet is the old contribution accounts and the new pool, and that is modelled.
- The derivation of addresses (`seeds`, `has_one`, `address`, mint checks) is the
  identity of a variable: an instruction with a wrong account fails.
- Lamports are counted above rent; the rent paid by `init` is left out.
- Strangers may send up to `GiftMax` lamports to a pool account that exists. The
  buy spends `total_contributed` and a refund pays the stake, so a gift stays
  where it is until `close_pool` hands it to the creator with the rent; in a
  finalized pool, which cannot be closed, it stays. Tokens sent to the vault are
  left out: they only add to what covers the claims, and nothing hands them on.
- Pump's price formula and fees are left open: a buy returns any amount of
  tokens, leaves any part of the lamports with the buyer PDA, and leaves any
  reserves. What holds does not depend on Pump's formula. `min_tokens_out`
  removes some of these answers and adds none.
- `finalize` takes the bonding curve account from the caller with no constraint
  on its address. So the reserves are those of any curve, or those any other
  account's bytes decode to (`OtherReserves`), or the stored snapshot when the
  account is too short (`Readable`).
- The products and quotients of `math.rs` have no guard of their own: two u64s
  multiplied fit a u128 (`ProductsFitU128`), so its `checked_mul` and
  `checked_div` cannot fail once the `require!`s have passed.
- Error codes, events and log messages change no state and are left out.

### PooledSale and the refinement

`PooledSale` says in eight actions what a contributor may rely on: a sale is
announced, people deposit, and then either the one sale turns all the money into
goods, which are priced and handed out once each by the stakes alone, or the sale
is abandoned, or the first withdrawal abandons it, and every stake goes back
whole. `EscrowSale` gives the mapping:

| `PooledSale` | `Escrow` |
|---|---|
| `phase` | the status: `Open` and `Launching` are "raising"; `Refundable` is "returning"; `Bought`, `Finalized` are "sold", "paying"; no pool is "absent" |
| `purse`, `stake` | `wallet`, the amounts in the contribution accounts |
| `held` | the lamports of the pool account less the gifts still in it |
| `bought`, `shared` | `pool.tokensBought`, `pool.distributable` |
| `served`, `goods` | who has `claimed`, `tokens` |

`begin_launch`, a repeated `complete_buy`, a trade, a gift, the clock and all of
the executor are stutters. The first refund after the grace period is the step
that ends the raising, since the handler sets the status itself.
`ImplementsSale` is a property of the runs `escrow` and `launch` and is proved for
`Escrow` and `Launch`. `NothingStuck` is the other half of the promise: a stake
is spent with all the others or comes back whole, and one that was spent brings,
some time after, the part of the goods it is worth. It is proved for `Launch`
(section 4). What the abstraction leaves unsaid is when the sale may happen and
for how many goods.

### Resume and Launch

`NextStageFromChain` and `BundleKind` are the two functions of
`state-machine.ts` over the variables of `Escrow`.

`Launch` makes every run of the executor a process with a program counter:
`new`, `loaded` (after `launch.ts:56`), `open` and `write` (inside `save`),
`post` (before `sendJitoBundle`), `await` (inside its `fetch`), `ended`.
`state[r]` is the `state` object, `file` the state file (never written, torn, or
a record), `bundle[r]` the fate of the run's bundle at the engine. Runs may
overlap, since nothing in the code prevents it, and each may end anywhere, by a
crash or by an error that reaches `main().catch`. `writeFileSync` is two steps,
the truncation and the write; a write over another run's record may leave the
tail of the longer one. The engine takes or refuses a bundle and may lose its
answer; a bundle it took lands at most once, at any later moment, or never.

What a bundle contains is what the operator's file holds, which `launch.ts:98-101`
sends unread (`Contents`): a creation with the buy, the buy alone, a creation
alone, or transactions that are neither, instructions of the program among them.
A bundle that creates and buys may also land in part, the creation without the
buy (`LandPartly`), the partial landing of `docs/plans/phase-1-escrow.md` section
4.2. Everyone else keeps calling the escrow program, and curves come into being
with no bundle at all (`Others` is all of `Next`): `begin_launch` takes any mint
from anyone.

`late` is a history variable: the runs that started when `nextStageFromChain` said
that nothing is to be sent. No action reads it, and of the properties only
`ResumeReadsChainFirst` does; `MCLaunch.cfg`, which does not check that one, leaves
it out of the states it tells apart (`VIEW Relevant`).

### Spike

`chain` is one record: whether Pump takes a PDA for a user (nobody knows, so
both values are initial), the lamports of the one funder, what each buyer holds,
the mints created, the token accounts opened, the tokens in them and the number of
buys of each run that landed. An instruction maps such a record to the set of
records it may leave, the empty set being failure, and a transaction chains
instructions, so it is atomic. There are three kinds of runs: `FullRuns` of `run.ts` and `LiteRuns`
of `run-lite-a.ts`, whose buyers are the PDAs of the two programs, one for all
runs of a script; and `ProbeRuns` of `run-fee-probe.ts`, each with a keypair of
its own for a buyer.

`fate[r][t]` is what became of transaction `t` of run `r`: unsent, sent, done,
failed. The cluster executes a sent transaction at any later moment or never; the
script learns of the result (`Confirmed`, `Answered`), or an error takes it
elsewhere (`CombinedThrows`, `SplitThrows`) and tells nothing.
`sendAndConfirmTransaction` throws for a transaction that failed on chain;
`confirmTransaction`, used for the atomic attempt, does not. A step sends a
transaction only if its simulation could succeed on the chain of that moment. A
simulation may fail on any chain, and so may a transaction when it is executed: a
fee payer without lamports, a blockhash the node does not know, a price that moved
are reasons the model has no variables for. `Refused` is the answer of the scripts
to all of them alike, the verdict "rejected", as `run.ts:420` and
`run-lite-a.ts:232` look at nothing but whether there was an error.

`Stranger` is everybody else. Both programs take lamports for their PDA from any
payer (`StrangerFunds`) and sign a buy with it for anyone, of any mint
(`StrangerBuys`, only while Pump takes PDAs); and tokens of a run's mint can be
sent to its account once both are there (`StrangerSends`), among them those such a
buy brought. `LamportLimit` and `TokenLimit` bound what strangers bring, for TLC.

`pc[r]` is the step of the script, `topUp[r]` the value computed from the one
balance read, `verdict[r]` the `result` object, or the last line a probe prints;
`json` and `md` are the two files, written one after the other. `ReportThrows`
is a write that fails inside the `try` of the attempt it reports, which sends
`run.ts` on with the split path, or makes it report once more. `ProbeEngine` is
the bundle with nothing but a tip that `run.ts` posts after a proof.

No step is fair. So a transaction that is lost is one that stays "sent", a crash
or an error that reaches `main().catch` is a run that takes no more steps, and
neither needs an action: every prefix of a behaviour is one, and a run may stop
while the others go on.

Abstracted: rents and fees of the funder's own accounts, account lists and
instruction bytes. Where two steps of a script have only output between them they
are one step. Pump's rent demands and the tokens it gives are open choices within
`Rents` and `TokensOut`. Lamports sent to the funder or to a probe's keypair are
left out: they would only make fewer transactions fail.

## 3. What TLC checks

All runs together take a few minutes on two cores. Bounds are constants in the
`.cfg`; none is hidden in a guard (`MaxTime` stands for `i64::MAX`, `CountMax`
for `u32::MAX`, `Word` for 2^64).

| Run | Instance | Shows |
|---|---|---|
| `escrow` | two contributors with 3 lamports, two mints, clock 0..5, one gift, arbitrary curve accounts at finalize, 973,038 states | fifteen properties of the escrow program, among them that no due call fails, that no share is worth more than its stake at the price finalize recorded and that no refund precedes the launch, `StageAgreesWithChain`, and `ImplementsSale` |
| `burn_math` | all arguments up to 9, u64 of four bits | `DustFavorsBurn`, `SplittingNeverGains`, `WholeStakeIsWholeShare`, `MirrorErrsOneWay` |
| `launch` | one contributor, two overlapping runs, any contents, whole and partial landings, curves created by anyone, 928,374 states | `LandedBuyIsFinal`, `SubmittedIsRecorded`, `RecordTellsAnswer`, `RefundWindowIsFinal`, `ImplementsSale` |
| `launch_live` | two contributors with 2 lamports, one run, two prices, fairness, 297,938 states | `StakeIsSpentOrReturned`, `SaleSettles` beside the executor |
| `spike` | a run of each script, and strangers, 3,746,244 states | `SpikeTypeOK`, `ReportIsEarned`, `OneBuyPerRun`, `RejectionIsFinal` |
| `finalized_close`, `finalize_price`, `rejoin`, `burn_mirror`, `state_file`, `resume`, `spike_lost` | | the divergences of section 5 |

Why the bounds are enough. Two contributors and five seconds let a pool be
created, funded in parts, refunded, closed and created again with the old
contribution accounts, launched and sold; the lamport inputs include zero, a
value under the minimum, the exact minimum, the exact maximum and a value above
it, and parameters that overflow the clock. Two stakes of 1 and 2 already divide
unevenly, so the order of claims and the dust matter; the shares and the vault
are proved for any number of contributors besides. One lamport of gift is enough
to make the pool account hold more than its ledger in every status; any number
behaves like one, since nothing reads the balance but the close. Two runs are enough for one
to overwrite, tear or repeat what the other did. In `Spike` a second run of the
same script would do nothing to the first that strangers, who fund and empty the
PDA of both scripts, and the run of the other script, which spends from the same
funder and writes the same files, do not do; the funder's 4 lamports (a buy needs
2, a tip 1) make runs fail for want of money, strangers can fill a PDA to what a
buy needs, so that nothing is topped up, or leave it anything less, and one token
of theirs is enough to make an account look bought. Any number of runs of each
script is proved besides. Deadlock is not checked: a
pool that is settled and whose clock has stopped, and a run of a script that
ended, do nothing more.

Fairness. `WF(Tick)`: time passes. `WF(Refund(c))` and `WF(Claim(c))`: a
contributor who wants the money keeps sending the transaction, which needs
nobody else's signature. `WF(Finalize)`: anybody may, and someone with a share
will. Nothing is assumed of `begin_launch`, `complete_buy`, `mark_refundable`,
Pump, the executor, the operator or the block engine. `SaleSettles` needs a
curve from which finalize can compute, that is virtual reserves above zero on
both sides. The virtual reserves of a constant-product curve never reach zero;
those of the instances are positive, and the theorem assumes it.

Every property is paired with a mutant: a change to one modelled definition of
the kind a slip in the code would be (a dropped clock test, a stale total, a
rounding in the other direction), kept in the module and marked as a slip where
no action uses it, under which TLC finds that property violated.

## 4. What is proved

For any number of contributors, any amounts, terms and times, any mints, any
answers of Pump, any gifts, any number of runs. The assumptions are the named
`ASSUME`s of `BurnMath`, `Escrow`, `Launch` and `Spike`: sizes are naturals,
inputs are u64s, the markers for "no curve", "no record" and the like are not
values of the type they mark. TLC evaluates them on the small instances.

| Theorem | Property |
|---|---|
| `TypeCorrect` | `TypeOK`: no field leaves its type, no balance goes below zero |
| `LedgerCorrect` | `LedgerMatchesStakes` |
| `SolFollowsStatusCorrect`, `WholeUntilBuyCorrect`, `BuyXorRefundCorrect`, `CreatorGetsNoStakeCorrect`, `RaiseWithinTermsCorrect` | the custody properties |
| `SameShareForAllCorrect` | `SameShareForAll` |
| `NoDueCallFailsCorrect` | `NoDueCallFails`: no transaction somebody is owed fails for want of room or balance |
| `CountMatchesStakesCorrect`, `VaultCoversClaimsCorrect` | the contributor count; the vault covers every unclaimed share, dust below one unit each |
| `LifecycleCorrect`, `StakesFrozenAfterBuyCorrect` | the action properties |
| `StageAgreesWithChainCorrect` | `StageAgreesWithChain` |
| `LaunchKeepsSafe`, `LaunchKeepsPromises` | the whole invariant `Safe`, and what contributors are owed, beside the executor |
| `LandedBuyIsFinalCorrect`, `SubmittedIsRecordedCorrect`, `RecordTellsAnswerCorrect`, `RefundWindowIsFinalCorrect` | the properties of `Launch` |
| `EscrowImplementsSale`, `LaunchImplementsSale` | `ImplementsSale`, for the program alone and beside the executor |
| `ShareWithinRecordedPriceCorrect` | `ShareWithinRecordedPrice`: at the price `finalize` recorded a share is worth at most its stake, and less than that by two floors at most unless a quotient was truncated |
| `RefundsWaitForLaunchCorrect` | `RefundsWaitForLaunch`: refunds and contributions are never open together |
| `StakeIsSpentOrReturnedCorrect`, `SaleSettlesCorrect` | the two liveness properties, from insistence on the calls and, for the refund, a clock that gets to every moment |
| `NothingStuckCorrect` | `NothingStuck` of the sale the program implements |
| `FairLaunchIsLive` | all three from the fairness of `Launch` |
| `DustFavorsBurnCorrect`, `SplittingNeverGainsCorrect`, `WholeStakeIsWholeShareCorrect`, `MirrorErrsOneWayCorrect`, `ProductsFitU128` | the arithmetic, for every width of u64 |
| `SpikeTypeCorrect`, `ReportIsEarnedCorrect`, `OneBuyPerRunCorrect`, `RejectionIsFinalCorrect` | the properties of `Spike` |

The argument. The custody properties are not inductive one by one: that a close
returns nothing needs that a pool with a zero total is not sold, which needs
that money was raised before it was spent; that buy and refund exclude each
other needs that nothing was refunded before the refund window. `Custody`
conjoins them with the three facts they rest on (`SpentIsRaised`,
`NoEarlyRefund`, `GoneIsEmpty`) and is inductive relative to `TypeOK`. The
ledger rests on `SumUpdate` of `SumsProofs`: changing one term of a sum changes
it by the difference. Its proof, like the others there, is an induction over an
interval by a least counterexample (`LeastNatural`, `IntervalInduction`).
`SameShareForAll` needs `ClaimsAreFinal`: shares are claimed only of a finalized
pool and such a pool never changes or goes.

`Safe` is proved for `Step`, the actions of `Escrow` plus a buy whose curve was
created in the same instant. Every step of `Launch` is such a step or touches no
account (`LaunchStep`), so `Safe` carries over without a second proof. The state
file's properties follow from `FileInv`: every record in memory and on disk is
honest, and a run that has not sent its bundle has an unsent bundle.
`LandedBuyIsFinal` needs that the buy leaves the pool sold (`LandBuys`, a repeated
`complete_buy` included) and that a sold pool stays one (`BoughtStep`): no handler
closes it, since its total is above zero for good.

`RefundsWaitForLaunch` joins the status and the clock: what is open for refunds is
past its grace end or marked, and what is marked was once past it (`Windowed`), and
no grace ends before the launch, since `create_pool` adds two values of which
neither is negative and refuses a sum beyond the clock's range.

`CountMatchesStakes` is read through an indicator (`One`) whose sum is the
cardinality of the stakers (`SumCounts`); `Counted` makes it inductive with
`StakeUntilRefund`, without which topping up could count somebody twice.
`VaultCoversClaims` rests on `TokensFollowStatus` (vault and claimed tokens add
up to the distributable) and on two bounds of a share: `t * share <= d * x` and
`d * x <= t * share + (t - 1)` where there is a stake (`ShareBounds`, which also
shows that `allocation`'s conversion to u64 cuts nothing off a stake that is
part of the total). Summed (`SumScaled`, `SumDominated`) and divided by `t`
(`SharesWithin`) they put the sum of the shares between the distributable less
one unit per contributor and the distributable.

`NoDueCallFails` asks of every checked operation that it cannot fail where the
call is due, which nothing proved so far says: that the counter of the refunds
has room, that `total_claimed` does, that no flag of an earlier pool is left, that
the mint of an open pool is unset. `Accounted` adds what is missing: what went
back and what is still there was within `max_pool` at one time, what was claimed
is what the vault lacks of the distributable, and the snapshot a pool bought with
is of a curve. `Sound` conjoins it with `Safe`, `Counted` and
`TokensFollowStatus` and is inductive; `StakeUntilRefund` had to become an
equivalence for it, since a refund must not find a flag set with a stake still
there. One lemma per handler (`RefundIsDue`, `ClaimIsDue`, `FinalizeIsDue`,
`CloseIsDue`) reads the guard off `Sound`. That the last claim is paid follows
from `VaultCovers`, since the claimer's share is one term of the sum that the
vault covers (`TermAtMostSum`).

`ShareWithinRecordedPrice` is the part the program can answer for of the claim of
the repository's `README.md` that the surplus is burned so that the cost basis
equals the market price after the buy. The price is the one in the account the
caller of `finalize` chose, which need not be the market's (section 5,
`finalize_price`); with respect to it no share is worth more than its stake, also
where the conversion of `math.rs:34` truncates the quotient and the contributors
are given less than the price says. The lower bound, short of the stake by less
than two units of the token, holds where the quotient fits a u64 and the cap of
`compute_distributable` does not bind. `Priced` says that the split of a finalized
pool is still the one its recorded price gives, through any number of claims. Two
floors lie between a stake and its share, that of the worth of the raise
(`SplitBounds`) and that of the share of it (`ShareIsQuotient`); `TwoFloors` shows
that together they cost less than two units of the token, never to the burn's
disadvantage.

Liveness, without `ENABLED`. `ProgressProofs` says of a contributor who insists:
infinitely often the guard of the call is false, or infinitely often the call
succeeds (`RefundInsisted`, `ClaimInsisted`, `FinalizeInsisted`). That is what
weak fairness gives for a call that is enabled when its guard holds
(`FairRefund`, `FairClaim`, `FairFinalize`), and no more. Somebody who waits
(`Waiting`: a stake, no buy) waits on for the end of the same grace period, or is
through, whatever step anybody takes (`WaitingStep`); once the period is over it
stays over for this pool and `RefundIsDue` says that the guard holds, so the call
must succeed, and by `WholeUntilBuy` it brings everything back. After the buy
`SharingStep` says the stake stays and the pool moves to finalized only,
`SnapshotFinalizes` that the stored reserves are always there to finalize with,
`UnsettledCanClaim` that a claim is due until the share is there. So neither
property owes anything to the creator, the orchestrator, Pump or the engine, and
the refund owes nothing to any other contributor. `NothingStuckCorrect` reads
both through the refinement mapping (`SaleReads`).

The hypotheses of these theorems are what people and the clock do, and two facts:
that the clock gets to every moment (`ClockRuns`), which makes grace periods end
(`ClockPassesGrace`), and in `FairLaunchIsLive`
that the guards enable their actions (`GuardsEnable`), which is plain from the
actions, each a guard and one assignment to every variable.

`ImplementsSale` has one lemma per handler that the sale can see
(`ContributeDeposits`, `RefundWithdraws`, `SpendSells`, `FinalizePrices`,
`ClaimServes`, `CloseRetires`), joined in `StepMaps`. They rest on `Safe`, which
says that the total is the sum of the stakes and that the account holds it, and on
`Unpriced`: nothing is shared before finalize says how much. Since every step of
`Launch` is a `Step`, `StepMaps` serves both theorems.

The arithmetic needs no invariant beyond the range of the arguments (`Input`):
`AllocationIsQuotient` shows that the two early returns and the conversion to u64
leave the quotient, which `Quotient` bounds from both sides; a product with the
total on each side then gives what a sum of floors may do.

The spike's argument is about one run and its mint. `RunInv` says that the
transactions of a run become known in the order of the script, that the mint
exists exactly if the combined transaction or the one that only creates it was
done, that not both were, that the buys of the run are those of the transactions
done, and that tokens of whatever origin are only where the mint is. Since a mint
can be created once, whichever of the two fails takes the buy that hangs on it
along: this is why a late combined transaction and the split path never buy twice,
why tokens seen after the combined attempt prove it, strangers or not, and why a
run that created its mint alone, was refused and gave up (`GaveUp`) never buys
(`RejectionIsFinal`). `OutcomesKnown` says what each transaction does to the
ledger, whatever Pump answers, and is proved instruction by instruction;
`StrangerKeeps` says what others cannot do.

Only model-checked. That the clock which ticks as long as it can gets to every
moment is an induction over time, and that a guard enables its action is about
`ENABLED`; both are out of the prover's reach and are hypotheses above. TLC takes
neither on trust: the run `launch_live` checks `StakeIsSpentOrReturned` and
`SaleSettles` under weak fairness itself, with `ENABLED` as TLC evaluates it. `NothingStuck` is proved only; the run would check
the same two properties once more through the mapping. The statements of section
5 are false and have counterexamples only.

## 5. Where the code and its documents differ

| Run | The code | The text |
|---|---|---|
| `finalized_close` | a finalized pool can never be closed: `close_pool.rs:14` asks for a zero total that no handler produces after the buy | plan, lines 119-123; `state.rs:57` |
| `finalize_price` | the price is that of any account the caller of `finalize` passes, and the snapshot of the buy is overwritten with it; the counterexample is a stranger's price | `README.md:3`, `finalize.rs:8`, `state.rs:54` |
| `rejoin` | a contributor refunded by a closed pool is refused by the next pool at its address | plan, line 199 |
| `burn_mirror` | `math.rs:34` truncates the quotient before capping it, `burn.ts` does not | `burn.ts:2`, `math.rs:17` |
| `state_file` | a crash inside `save` leaves a file no later run can parse | `launch.ts:2`, `state-machine.ts:2` |
| `resume` | the executor never reads the chain; it sends whatever it was given | `launch.ts:62`, `state-machine.ts:2`, plan line 316 |
| `spike_lost` | a lost confirmation leads to the split path, whose creation of the same mint fails, so a buy that landed is reported as UNPROVEN | `run.ts:11` |

`finalize_price` has two causes. `finalize.rs:101` ties the account to nothing, so
whoever calls first sets the price of the split; the instance leaves one curve
price, and its counterexample is this one. With the right account the price still
is that of the curve when `finalize` runs (`finalize.rs:17`) and not when the pool
bought: with a second price in `Reserves` a trade in between breaks the same
property. Either way the burn makes a share worth its stake at the recorded price,
and at the price after the buy only if nobody interfered.

Four more things have no run. Three of them because no text of the repository says
otherwise: a run of the executor without a bundle overwrites the stage while a
bundle is in flight; a `buy_only` bundle that lands after the buy succeeds as a
no-op and pays its tip; a run that dies between the two report files, or another in
between, leaves a JSON and a Markdown file of different runs. The fourth is the
verdict of the spike. `run.ts:420` records any error of the simulated buy as
`PDA_BUY_REJECTED` and "OPTION A FAILED", and `run-lite-a.ts:232` reports the same
failure without telling causes apart: a funder that another run drained, a
blockhash the node does not know, a price that moved, or a PDA that another run or
a stranger emptied after its balance was read at `run.ts:263` (the programs sign
for anyone) make a run that is alone blame Pump wrongly. So a report of a rejection
says nothing of Pump; what it does say is that the run bought nothing
(`RejectionIsFinal`).

## 6. What is not modelled

- `status.ts`, `inspect-idl.ts` and `probe-bc-v2.ts` of the spike read accounts
  and print what they saw; they change nothing.
- The decoding of Pump's `Global` account, the derivation of addresses and the
  layout of instructions (`pump.ts`, `pump.rs`, `spike-program.ts`) are fixed
  byte strings with no state; a wrong one makes the instruction fail.
- Configuration files and environment variables are read once at the start of a
  process and are constants here.
- Lamports sent to the buyer PDA of a pool by others than `complete_buy`: Pump
  leaves some there (`Unspent`), nothing hands them on, and no guard reads them.
- The tip transfer of the orchestrator's bundle is the operator's own
  transaction and touches no account of the pool.
- `projectedBurnRatio` is a floating-point number for display.
- Events, error codes and log messages change no state.
- The localnet and devnet harnesses are tests; the vendored Pump SDK excerpts are
  third-party code.

## 7. Plan

Done, in this order: the arithmetic; the escrow program with its safety
properties; the type invariant, ledger, custody and shares proved; liveness; the
orchestrator's reading of the chain; the executor, the state file and the engine;
their proofs; the count and the vault proved; the spike; gifts to the pool
account; `PooledSale` and the refinement, checked and proved; the fee probe and
the tip-only bundle; the arithmetic and the spike proved; that no due call fails;
the price of a share; the liveness half of `PooledSale`, and liveness proved from
insistence; strangers in `Spike`, arbitrary bundles and curves in `Launch`.

Next: `Curve`, a constant-product curve with fees in place of Pump's open choice:
for which raises the cap of `compute_distributable` binds, so that the cost basis
stays above the price, and how far a trade before `finalize` moves the split.
