-------------------------------- MODULE Spike --------------------------------
(***************************************************************************)
(* The experiment of spikes/pda-buyer: does Pump accept a PDA as the buyer? *)
(* Two scripts ask it, each with a program of its own that funds a buyer    *)
(* PDA and signs for it: run.ts with spike_pda_buyer, run-lite-a.ts with    *)
(* spike_pda_buyer_lite.  All runs of a script share that one PDA, and all  *)
(* runs of both write their verdict to the same two files.  A third script, *)
(* run-fee-probe.ts, asks whether a buy works at all, with a keypair of its *)
(* own for a buyer, and only prints what it finds.  All of them spend the   *)
(* lamports of one funder.  Nor are the scripts alone: both programs fund   *)
(* the PDA for anyone and buy with it for anyone, and anyone may send       *)
(* tokens to an account that exists.                                        *)
(*                                                                         *)
(* A simulation fails, and so does a transaction on chain, for the reasons  *)
(* modelled here or for any other: a fee payer without lamports, a          *)
(* blockhash the node does not know, a price that moved.  A transaction     *)
(* that was sent lands, fails or is never heard of again; the script learns *)
(* of it or gets an error instead, which tells nothing about it.  No step   *)
(* is fair: a run that crashes, or ends in main().catch without a report,   *)
(* is one that takes no more steps.                                         *)
(***************************************************************************)
EXTENDS Integers

CONSTANTS
  FullRuns,     \* runs of run.ts
  LiteRuns,     \* runs of run-lite-a.ts
  ProbeRuns,    \* runs of run-fee-probe.ts
  Funding,      \* lamports of the funder
  FullFloor,    \* the balance run.ts asks for
  LiteFloor,    \* the balance run-lite-a.ts asks for
  BuySol,       \* spike.buySolLamports
  Reserve,      \* what the two scripts add to it for rent
  ProbeReserve, \* what the probe adds to it
  Tip,          \* jito.tipLamports
  MinOut,       \* spike.minTokensOut
  Rents,        \* rent the buyer may have to pay during a buy
  TokensOut,    \* tokens Pump may give for BuySol
  LamportLimit, \* bound: others bring the lamports of a PDA up to this
  TokenLimit    \* bound: others bring the tokens of an account up to this

Runs == FullRuns \cup LiteRuns \cup ProbeRuns

ASSUME RunsDisjoint ==
  /\ FullRuns \cap LiteRuns = {}
  /\ (FullRuns \cup LiteRuns) \cap ProbeRuns = {}
ASSUME FloorAssumption == Funding \in Nat /\ FullFloor \in Nat /\ LiteFloor \in Nat
ASSUME BuyAssumption ==
  BuySol \in Nat \ {0} /\ Reserve \in Nat \ {0} /\ ProbeReserve \in Nat \ {0}
ASSUME MinOutAssumption == MinOut \in Nat \ {0}
ASSUME TipAssumption == Tip \in Nat \ {0}
ASSUME PumpRange == Rents \subseteq 0 .. Reserve /\ TokensOut \subseteq Nat
ASSUME LimitAssumption == LamportLimit \in Nat /\ TokenLimit \in Nat

\* A run names the mint it generates, too, and the keypair of a probe.
Buyer(r) ==
  CASE r \in FullRuns -> "full" [] r \in LiteRuns -> "lite" [] OTHER -> r

Buyers == {Buyer(r) : r \in Runs}

Need == BuySol + Reserve

ProbeFund == BuySol + ProbeReserve

NoReport == [run |-> "nobody", verdict |-> "none"]

VARIABLES
  chain,     \* the accounts the experiment touches, see Ledger
  fate,      \* fate[r][t]: what became of transaction t of run r
  pc,        \* pc[r]: the step run r is at
  topUp,     \* topUp[r]: lamports run r adds to the PDA
  verdict,   \* verdict[r]: `result` of run r
  json,      \* results/spike-result.json
  md         \* results/SPIKE_RESULT.md

spikeVars == <<chain, fate, pc, topUp, verdict, json, md>>

\* accepts: whether Pump takes a PDA for a user, which nobody knows yet;
\* bought counts the buys of a run that landed, and nothing reads it.
Ledger ==
  [ accepts : BOOLEAN, funder : Nat, held : [Buyers -> Nat],
    minted : SUBSET Runs, opened : SUBSET Runs,
    tokens : [Runs -> Nat], bought : [Runs -> Nat] ]

Transactions == {"combined", "create", "fund", "buy", "tip"}
Fates == {"unsent", "sent", "done", "failed"}
Verdicts ==
  {"none", "proven", "unproven", "rejected", "empty", "unfunded", "plumbed"}

SpikeInit ==
  /\ \E accepts \in BOOLEAN :
       chain = [ accepts |-> accepts, funder |-> Funding,
                 held |-> [b \in Buyers |-> 0], minted |-> {}, opened |-> {},
                 tokens |-> [r \in Runs |-> 0], bought |-> [r \in Runs |-> 0] ]
  /\ fate = [r \in Runs |-> [t \in Transactions |-> "unsent"]]
  /\ pc = [r \in Runs |-> "new"]
  /\ topUp = [r \in Runs |-> 0]
  /\ verdict = [r \in Runs |-> "none"]
  /\ json = NoReport /\ md = NoReport

Goto(r, step) == pc' = [pc EXCEPT ![r] = step]

-----------------------------------------------------------------------------
(* Instructions: the ledgers one may leave, none when it fails *)

\* The next instruction of the same transaction.
Then(ledgers, Instruction(_)) == UNION {Instruction(l) : l \in ledgers}

PumpCreate(l, m) ==
  IF m \in l.minted THEN {} ELSE {[l EXCEPT !.minted = @ \cup {m}]}

\* createAssociatedTokenAccountIdempotent, for the PDA.
OpenAccount(l, m) ==
  IF m \notin l.minted THEN {} ELSE {[l EXCEPT !.opened = @ \cup {m}]}

\* A slip of SpikeTypeOK: lamports moved without looking what is there.
MoveUnchecked(l, b, lamports) ==
  {[l EXCEPT !.funder = @ - lamports, !.held[b] = @ + lamports]}

FundBuyer(l, b, lamports) ==
  IF lamports > 0 /\ l.funder >= lamports
  THEN {[l EXCEPT !.funder = @ - lamports, !.held[b] = @ + lamports]}
  ELSE {}

\* Pump's side of the buy: the buyer pays, with what rent there is to pay,
\* and is given at least min_tokens_out.
Charge(l, b) ==
  {[l EXCEPT !.held[b] = @ - (BuySol + rent)] :
     rent \in {x \in Rents : l.held[b] >= BuySol + x}}

Deliver(l, m) ==
  {[l EXCEPT !.tokens[m] = @ + got, !.bought[m] = @ + 1] :
     got \in {x \in TokensOut : x >= MinOut}}

PumpBuy(l, b, m) ==
  IF m \in l.minted /\ m \in l.opened
  THEN Then(Charge(l, b), LAMBDA x : Deliver(x, m))
  ELSE {}

\* The two programs sign for their own PDA and pass everything on.
BuyWithPda(l, m) == IF l.accepts THEN PumpBuy(l, "full", m) ELSE {}

LiteFund(l, lamports) == FundBuyer(l, "lite", lamports)

LiteBuy(l, m) == IF l.accepts THEN PumpBuy(l, "lite", m) ELSE {}

\* A keypair signs for itself, and is no PDA to refuse.
ProbeBuy(l, r) == PumpBuy(l, r, r)

-----------------------------------------------------------------------------
(* Transactions *)

\* fund_buyer is left out of the transaction when nothing is missing.
TopUp(l, r) == IF topUp[r] = 0 THEN {l} ELSE FundBuyer(l, "full", topUp[r])

Prepared(l, r) == Then(TopUp(l, r), LAMBDA x : OpenAccount(x, r))

Combined(l, r) ==
  Then(Then(PumpCreate(l, r), LAMBDA x : Prepared(x, r)),
       LAMBDA x : BuyWithPda(x, r))

LiteCreate(l, r) ==
  Then(Then(PumpCreate(l, r), LAMBDA x : LiteFund(x, topUp[r])),
       LAMBDA x : OpenAccount(x, r))

ProbeCreate(l, r) ==
  Then(Then(FundBuyer(l, r, ProbeFund), LAMBDA x : PumpCreate(x, r)),
       LAMBDA x : OpenAccount(x, r))

TipPaid(l) == IF l.funder >= Tip THEN {[l EXCEPT !.funder = @ - Tip]} ELSE {}

\* What transaction t of run r does to the chain as it is.
Outcomes(r, t) ==
  CASE t = "combined" -> Combined(chain, r)
    [] t = "create" /\ r \in FullRuns -> PumpCreate(chain, r)
    [] t = "create" /\ r \in LiteRuns -> LiteCreate(chain, r)
    [] t = "create" /\ r \in ProbeRuns -> ProbeCreate(chain, r)
    [] t = "fund" -> Prepared(chain, r)
    [] t = "buy" /\ r \in FullRuns -> BuyWithPda(chain, r)
    [] t = "buy" /\ r \in LiteRuns -> LiteBuy(chain, r)
    [] t = "buy" /\ r \in ProbeRuns -> ProbeBuy(chain, r)
    [] t = "tip" -> TipPaid(chain)

\* The cluster executes a transaction it got, however late, and keeps its
\* failure if it fails, whatever the reason; one it loses stays "sent".
Land(r, t) ==
  /\ fate[r][t] = "sent"
  /\ \/ /\ fate' = [fate EXCEPT ![r][t] = "failed"]
        /\ UNCHANGED chain
     \/ /\ fate' = [fate EXCEPT ![r][t] = "done"]
        /\ chain' \in Outcomes(r, t)
  /\ UNCHANGED <<pc, topUp, verdict, json, md>>

-----------------------------------------------------------------------------
(* Anyone else *)

Shared == Buyers \cap {"full", "lite"}

\* fund_buyer takes lamports from any payer.
StrangerFunds(b) ==
  /\ chain.held[b] < LamportLimit
  /\ chain' = [chain EXCEPT !.held[b] = @ + 1]

\* The program signs for its PDA whoever asks, for any amount and any mint.
StrangerBuys(b) ==
  /\ chain.accepts
  /\ \E spent \in 1 .. chain.held[b] :
       chain' = [chain EXCEPT !.held[b] = @ - spent]

\* Tokens bought elsewhere, or just now with the PDA, come to its account.
StrangerSends(m) ==
  /\ m \in chain.minted /\ m \in chain.opened
  /\ chain.tokens[m] < TokenLimit
  /\ chain' = [chain EXCEPT !.tokens[m] = @ + 1]

Stranger ==
  /\ \/ \E b \in Shared : StrangerFunds(b) \/ StrangerBuys(b)
     \/ \E m \in Runs : StrangerSends(m)
  /\ UNCHANGED <<fate, pc, topUp, verdict, json, md>>

-----------------------------------------------------------------------------
(* Steps the scripts are made of *)

\* Simulated first, and sent only if the simulation succeeds.
Send(r, t, from, to) ==
  /\ pc[r] = from
  /\ Outcomes(r, t) # {}
  /\ fate' = [fate EXCEPT ![r][t] = "sent"]
  /\ Goto(r, to)
  /\ UNCHANGED <<chain, topUp, verdict, json, md>>

Proceed(r, from, to) ==
  /\ pc[r] = from
  /\ Goto(r, to)
  /\ UNCHANGED <<chain, fate, topUp, verdict, json, md>>

Conclude(r, from, conclusion) ==
  /\ pc[r] = from
  /\ verdict' = [verdict EXCEPT ![r] = conclusion]
  /\ Goto(r, "json")
  /\ UNCHANGED <<chain, fate, topUp, json, md>>

\* confirmTransaction returns for a transaction that failed as well.
Answered(r, t) == fate[r][t] \in {"done", "failed"}

\* sendAndConfirmTransaction throws for a transaction that failed.
Confirmed(r, t) == fate[r][t] = "done"

\* A slip of RejectionIsFinal: a buy that throws is taken for refused, too.
ThrownIsRefused(r, from) ==
  \E step \in {from, "buying"} : Conclude(r, step, "rejected")

\* The simulation of the buy fails, and Pump gets the blame for it, whatever
\* the reason.
Refused(r, from) == Conclude(r, from, "rejected")

-----------------------------------------------------------------------------
(* run.ts *)

FullBalance(r) ==
  IF chain.funder < FullFloor
  THEN Conclude(r, "new", "unfunded")
  ELSE Proceed(r, "new", "ready")

DeployFails(r) == Conclude(r, "ready", "unproven")

\* The balance the top-up is computed from is read here, once.
ReadBuyer(r) ==
  /\ pc[r] = "ready"
  /\ topUp' = [topUp EXCEPT ![r] =
       IF chain.held["full"] >= Need THEN 0 ELSE Need - chain.held["full"]]
  /\ Goto(r, "combined")
  /\ UNCHANGED <<chain, fate, verdict, json, md>>

\* Everything in one transaction; the outcome confirmTransaction returns is
\* not looked at, but an account without tokens is.
TryCombined(r) ==
  \/ Send(r, "combined", "combined", "sent")
  \/ /\ pc[r] = "sent" /\ Answered(r, "combined") /\ chain.tokens[r] > 0
     /\ verdict' = [verdict EXCEPT ![r] = "proven"]
     /\ Goto(r, "tip")
     /\ UNCHANGED <<chain, fate, topUp, json, md>>

\* A bundle with a tip and nothing else is posted to see whether the engine
\* answers; whatever it answers, and whatever is thrown, changes nothing.
ProbeEngine(r) ==
  /\ pc[r] = "tip"
  /\ \/ fate' = [fate EXCEPT ![r]["tip"] = "sent"]
     \/ UNCHANGED fate
  /\ Goto(r, "json")
  /\ UNCHANGED <<chain, topUp, verdict, json, md>>

\* Whatever is thrown on the way leads to the split path, the loss of an
\* answer included.
CombinedThrows(r) ==
  \E from \in {"combined", "sent"} : Proceed(r, from, "split")

\* A slip of OneBuyPerRun: go on with the mint if it turns out to exist.
CreateUnlessThere(r) ==
  IF r \in chain.minted
  THEN Send(r, "fund", "split", "preparing")
  ELSE Send(r, "create", "split", "creating")

SplitCreate(r) == Send(r, "create", "split", "creating")

\* The top-up is still the one computed before.
Split(r) ==
  \/ SplitCreate(r)
  \/ Confirmed(r, "create") /\ Send(r, "fund", "creating", "preparing")
  \/ Confirmed(r, "fund") /\ Send(r, "buy", "preparing", "buying")
  \/ Confirmed(r, "fund") /\ Refused(r, "preparing")
  \/ Confirmed(r, "buy") /\ Conclude(r, "buying", "proven")

SplitThrows(r) ==
  \E from \in {"split", "creating", "preparing", "buying"} :
    Conclude(r, from, "unproven")

\* Both paths write their report where what it throws is caught: the atomic
\* one goes on with the split path, the split one reports once more.
ReportThrows(r) ==
  \E from \in {"json", "md"} :
    \/ /\ verdict[r] = "proven" /\ fate[r]["create"] = "unsent"
       /\ Proceed(r, from, "split")
    \/ /\ verdict[r] \in {"proven", "rejected"} /\ fate[r]["create"] # "unsent"
       /\ Conclude(r, from, "unproven")

Full(r) ==
  FullBalance(r) \/ DeployFails(r) \/ ReadBuyer(r) \/ TryCombined(r)
    \/ ProbeEngine(r) \/ CombinedThrows(r) \/ Split(r) \/ SplitThrows(r) \/ ReportThrows(r)

-----------------------------------------------------------------------------
(* run-lite-a.ts *)

LiteStart(r) ==
  /\ pc[r] = "new"
  /\ chain.funder >= LiteFloor
  /\ topUp' = [topUp EXCEPT ![r] = Need]
  /\ Goto(r, "create")
  /\ UNCHANGED <<chain, fate, verdict, json, md>>

Lite(r) ==
  \/ LiteStart(r)
  \/ Send(r, "create", "create", "creating")
  \/ Confirmed(r, "create") /\ Send(r, "buy", "creating", "buying")
  \/ Confirmed(r, "create") /\ Refused(r, "creating")
  \/ /\ Confirmed(r, "buy")
     /\ Conclude(r, "buying", IF chain.tokens[r] = 0 THEN "empty" ELSE "proven")

-----------------------------------------------------------------------------
(* run-fee-probe.ts *)

Plumbed(r) ==
  /\ pc[r] = "buying" /\ Confirmed(r, "buy")
  /\ verdict' = [verdict EXCEPT ![r] = "plumbed"]
  /\ Goto(r, "ended")
  /\ UNCHANGED <<chain, fate, topUp, json, md>>

\* It asks for no balance, and ends when something throws or the simulation
\* of the buy fails.
Probe(r) ==
  \/ Send(r, "create", "new", "creating")
  \/ Confirmed(r, "create") /\ Send(r, "buy", "creating", "buying")
  \/ Plumbed(r)

-----------------------------------------------------------------------------
(* The report *)

ReportOf(r) == [run |-> r, verdict |-> verdict[r]]

WriteJson(r) ==
  /\ pc[r] = "json"
  /\ json' = ReportOf(r)
  /\ Goto(r, "md")
  /\ UNCHANGED <<chain, fate, topUp, verdict, md>>

WriteMd(r) ==
  /\ pc[r] = "md"
  /\ md' = ReportOf(r)
  /\ Goto(r, "ended")
  /\ UNCHANGED <<chain, fate, topUp, verdict, json>>

-----------------------------------------------------------------------------
SpikeNext ==
  \/ \E r \in FullRuns : Full(r)
  \/ \E r \in LiteRuns : Lite(r)
  \/ \E r \in ProbeRuns : Probe(r)
  \/ \E r \in Runs : WriteJson(r) \/ WriteMd(r)
  \/ \E r \in Runs, t \in Transactions : Land(r, t)
  \/ Stranger

SpikeSpec == SpikeInit /\ [][SpikeNext]_spikeVars

-----------------------------------------------------------------------------
Steps == {"new", "ready", "combined", "sent", "split", "create", "creating",
          "preparing", "buying", "tip", "json", "md", "ended"}

Report == [run : Runs, verdict : Verdicts] \cup {NoReport}

(* Every variable keeps its type; no balance goes below zero.               *)
SpikeTypeOK ==
  /\ chain \in Ledger
  /\ fate \in [Runs -> [Transactions -> Fates]]
  /\ pc \in [Runs -> Steps]
  /\ topUp \in [Runs -> 0 .. Need]
  /\ verdict \in [Runs -> Verdicts]
  /\ json \in Report /\ md \in Report

(* The files never claim more than the chain shows: a file that says proven *)
(* names a run whose PDA was let buy and holds tokens, whatever was lost,   *)
(* repeated, overwritten or given by others on the way.  Nor does the probe *)
(* call the plumbing sound unless its keypair holds tokens.                 *)
ReportIsEarned ==
  /\ \A file \in {json, md} :
       file.verdict = "proven" => chain.accepts /\ chain.tokens[file.run] > 0
  /\ \A r \in ProbeRuns : verdict[r] = "plumbed" => chain.tokens[r] > 0

(* A run buys at most once, also when the answer to the first attempt is    *)
(* lost and the split path goes over the same ground with a transaction of  *)
(* the first still under way.                                               *)
OneBuyPerRun == \A r \in Runs : chain.bought[r] <= 1

(* "OPTION A FAILED" is never said of a run that buys, then or later: not   *)
(* by the combined transaction, which the run gave up and which may be under *)
(* way still, nor by the one the simulation kept from being sent.  This      *)
(* holds of the files too, which outlive the verdict when a report throws.   *)
RejectionIsFinal ==
  /\ \A r \in Runs : verdict[r] = "rejected" => chain.bought[r] = 0
  /\ \A file \in {json, md} :
       file.verdict = "rejected" => chain.bought[file.run] = 0

-----------------------------------------------------------------------------
(* A statement of the repository that the code does not keep *)

(* run.ts: a PDA buy that lands proves option A.                            *)
LandedIsProven ==
  \A r \in Runs :
    verdict[r] # "none" /\ chain.bought[r] > 0 => verdict[r] = "proven"
=============================================================================
