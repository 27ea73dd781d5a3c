----------------------------- MODULE SpikeProofs ------------------------------
(***************************************************************************)
(* Proofs about Spike, for any number of runs of each script and any        *)
(* lamports, rents and prices.                                              *)
(*                                                                         *)
(* The argument is about one run and its mint (RunInv).  A step of a script *)
(* is never taken twice, so the transactions of a run become known in the   *)
(* order of the script; the mint comes into being once, in the combined     *)
(* transaction or in the one that only creates it, and whichever fails      *)
(* takes the buy that hangs on it along.  Others may bring it tokens, but   *)
(* only once it is there.                                                   *)
(***************************************************************************)
EXTENDS Spike, TLAPS

Done(r, t) == fate[r][t] = "done"

\* The split path has created the mint, and will never send the buy.
GaveUp(r) ==
  Done(r, "create") /\ fate[r]["buy"] = "unsent" /\ pc[r] \in {"json", "md", "ended"}

RunInv(r) ==
  /\ fate[r]["combined"] # "unsent"
       => r \in FullRuns /\ pc[r] \notin {"new", "ready", "combined"}
  /\ fate[r]["create"] # "unsent"
       => pc[r] \in {"creating", "preparing", "buying", "json", "md", "ended"}
  /\ fate[r]["fund"] # "unsent"
       => /\ r \in FullRuns /\ Done(r, "create")
          /\ pc[r] \in {"preparing", "buying", "json", "md", "ended"}
  /\ fate[r]["tip"] # "unsent"
       => r \in FullRuns /\ pc[r] \notin {"new", "ready", "combined", "sent", "tip"}
  /\ pc[r] = "tip" => Done(r, "combined") /\ r \in FullRuns
  /\ fate[r]["buy"] # "unsent"
       => Done(r, "create") /\ pc[r] \in {"buying", "json", "md", "ended"}
  /\ pc[r] \in {"preparing", "buying"} => Done(r, "create")
  /\ r \in chain.minted <=> Done(r, "combined") \/ Done(r, "create")
  /\ ~(Done(r, "combined") /\ Done(r, "create"))
  /\ chain.bought[r] = (IF Done(r, "combined") THEN 1 ELSE 0)
                        + (IF Done(r, "buy") THEN 1 ELSE 0)
  /\ chain.tokens[r] > 0 => r \in chain.minted
  /\ Done(r, "combined") \/ Done(r, "buy")
       => chain.tokens[r] > 0 /\ (r \in ProbeRuns \/ chain.accepts)
  /\ verdict[r] = "proven" => chain.accepts /\ chain.tokens[r] > 0
  /\ verdict[r] = "plumbed" => chain.tokens[r] > 0
  /\ verdict[r] = "rejected" => GaveUp(r)

FilesEarned ==
  \A file \in {json, md} :
    /\ file.verdict = "proven"
         => file.run \in Runs /\ chain.accepts /\ chain.tokens[file.run] > 0
    /\ file.verdict = "rejected" => file.run \in Runs /\ GaveUp(file.run)

SpikeInv ==
  /\ SpikeTypeOK
  /\ \A r \in Runs : RunInv(r)
  /\ FilesEarned

-----------------------------------------------------------------------------
(* What the instructions do to the ledger *)

Untouched(l, x) ==
  /\ x \in Ledger
  /\ x.accepts = l.accepts /\ x.minted = l.minted
  /\ x.tokens = l.tokens /\ x.bought = l.bought

Mints(l, x, r) ==
  /\ x \in Ledger
  /\ x.accepts = l.accepts
  /\ r \notin l.minted /\ x.minted = l.minted \cup {r}
  /\ x.tokens = l.tokens /\ x.bought = l.bought

Buys(l, x, r) ==
  /\ x \in Ledger
  /\ x.accepts = l.accepts /\ x.minted = l.minted
  /\ x.bought = [l.bought EXCEPT ![r] = @ + 1]
  /\ \E got \in Nat \ {0} : x.tokens = [l.tokens EXCEPT ![r] = @ + got]

(* The mint a run generates is created once. *)
LEMMA CreateMints ==
  ASSUME NEW l \in Ledger, NEW r \in Runs, NEW x \in PumpCreate(l, r)
  PROVE  Mints(l, x, r)
BY DEF PumpCreate, Mints, Ledger

(* Opening a token account moves neither lamports nor tokens. *)
LEMMA OpenTouchesNothing ==
  ASSUME NEW l \in Ledger, NEW r \in Runs, NEW x \in OpenAccount(l, r)
  PROVE  Untouched(l, x)
BY DEF OpenAccount, Untouched, Ledger

(* Funding moves lamports only, and only those the funder has. *)
LEMMA FundTouchesNothing ==
  ASSUME NEW l \in Ledger, NEW b \in Buyers, NEW lamports \in Nat,
         NEW x \in FundBuyer(l, b, lamports)
  PROVE  Untouched(l, x)
<1>1. l.funder \in Nat /\ l.held \in [Buyers -> Nat] /\ l.funder >= lamports
  BY DEF FundBuyer, Ledger
<1>2. x = [l EXCEPT !.funder = l.funder - lamports,
                    !.held = [l.held EXCEPT ![b] = l.held[b] + lamports]]
  BY DEF FundBuyer, Ledger
<1>3. l.funder - lamports \in Nat
  BY <1>1
<1>4. [l.held EXCEPT ![b] = l.held[b] + lamports] \in [Buyers -> Nat]
  BY <1>1
<1> QED
  BY <1>2, <1>3, <1>4 DEF Untouched, Ledger

(* A tip moves lamports of the funder only, and only those there are.       *)
LEMMA TipTouchesNothing ==
  ASSUME NEW l \in Ledger, NEW x \in TipPaid(l)
  PROVE  Untouched(l, x) /\ x.held = l.held /\ x.opened = l.opened
<1>1. x = [l EXCEPT !.funder = l.funder - Tip] /\ l.funder - Tip \in Nat
  BY TipAssumption DEF TipPaid, Ledger
<1> QED
  BY <1>1 DEF Untouched, Ledger

(* The buyer pays what it has at most. *)
LEMMA ChargeTouchesNothing ==
  ASSUME NEW l \in Ledger, NEW b \in Buyers, NEW x \in Charge(l, b)
  PROVE  Untouched(l, x)
<1>1. PICK rent \in Rents :
        /\ l.held[b] >= BuySol + rent
        /\ x = [l EXCEPT !.held[b] = @ - (BuySol + rent)]
  BY DEF Charge
<1>2. l.held \in [Buyers -> Nat]
  BY DEF Ledger
<1>3. rent \in Nat
  BY PumpRange, BuyAssumption
<1>4. [l.held EXCEPT ![b] = l.held[b] - (BuySol + rent)] \in [Buyers -> Nat]
  BY <1>1, <1>2, <1>3, BuyAssumption
<1> QED
  BY <1>1, <1>4 DEF Untouched, Ledger

(* A buy brings tokens, and is counted. *)
LEMMA DeliverBuys ==
  ASSUME NEW l \in Ledger, NEW r \in Runs, NEW x \in Deliver(l, r)
  PROVE  Buys(l, x, r)
<1>1. PICK got \in TokensOut :
        /\ got >= MinOut
        /\ x = [l EXCEPT !.tokens[r] = @ + got, !.bought[r] = @ + 1]
  BY DEF Deliver
<1> DEFINE tokens == [l.tokens EXCEPT ![r] = l.tokens[r] + got]
           bought == [l.bought EXCEPT ![r] = l.bought[r] + 1]
<1>2. l.tokens \in [Runs -> Nat] /\ l.bought \in [Runs -> Nat]
  BY DEF Ledger
<1>3. got \in Nat \ {0}
  BY <1>1, PumpRange, MinOutAssumption
<1>4. tokens \in [Runs -> Nat] /\ bought \in [Runs -> Nat]
  BY <1>2, <1>3
<1>5. x = [l EXCEPT !.tokens = tokens, !.bought = bought]
  BY <1>1 DEF Ledger
<1>6. x \in Ledger /\ x.tokens = tokens /\ x.bought = bought
      /\ x.accepts = l.accepts /\ x.minted = l.minted
  BY <1>4, <1>5 DEF Ledger
<1> QED
  BY <1>3, <1>6 DEF Buys

LEMMA PumpBuyBuys ==
  ASSUME NEW l \in Ledger, NEW b \in Buyers, NEW r \in Runs,
         NEW x \in PumpBuy(l, b, r)
  PROVE  Buys(l, x, r) /\ r \in l.minted
<1>1. r \in l.minted /\ \E y \in Charge(l, b) : x \in Deliver(y, r)
  BY DEF PumpBuy, Then
<1>2. PICK y \in Charge(l, b) : x \in Deliver(y, r)
  BY <1>1
<1>3. Untouched(l, y)
  BY ChargeTouchesNothing
<1>4. Buys(y, x, r)
  BY <1>2, <1>3, DeliverBuys DEF Untouched
<1> QED
  BY <1>1, <1>3, <1>4 DEF Untouched, Buys

-----------------------------------------------------------------------------
(* What the transactions do *)

LEMMA BuyerInBuyers ==
  ASSUME NEW r \in Runs
  PROVE  /\ r \in FullRuns => "full" \in Buyers
         /\ r \in LiteRuns => "lite" \in Buyers
         /\ r \in ProbeRuns => r \in Buyers
BY RunsDisjoint DEF Buyers, Buyer, Runs

LEMMA PreparedTouchesNothing ==
  ASSUME SpikeTypeOK, NEW l \in Ledger, NEW r \in FullRuns, NEW x \in Prepared(l, r)
  PROVE  Untouched(l, x)
<1>1. r \in Runs
  BY DEF Runs
<1>2. PICK y \in TopUp(l, r) : x \in OpenAccount(y, r)
  BY DEF Prepared, Then
<1>3. Untouched(l, y)
  <2>1. topUp[r] \in Nat
    BY <1>1, BuyAssumption DEF SpikeTypeOK, Need
  <2>2. CASE topUp[r] = 0
    BY <2>2, <1>2 DEF TopUp, Untouched
  <2>3. CASE topUp[r] # 0
    BY <2>1, <2>3, <1>1, <1>2, FundTouchesNothing, BuyerInBuyers DEF TopUp
  <2> QED
    BY <2>2, <2>3
<1>4. Untouched(y, x)
  BY <1>1, <1>2, <1>3, OpenTouchesNothing DEF Untouched
<1> QED
  BY <1>3, <1>4 DEF Untouched

LEMMA CombinedMintsAndBuys ==
  ASSUME SpikeTypeOK, NEW r \in FullRuns, NEW x \in Combined(chain, r)
  PROVE  /\ \E y \in Ledger : Mints(chain, y, r) /\ Buys(y, x, r)
         /\ chain.accepts
<1>1. r \in Runs /\ chain \in Ledger
  BY DEF Runs, SpikeTypeOK
<1>2. PICK z \in UNION {Prepared(y, r) : y \in PumpCreate(chain, r)} :
        x \in BuyWithPda(z, r)
  BY DEF Combined, Then
<1>3. PICK y \in PumpCreate(chain, r) : z \in Prepared(y, r)
  BY <1>2
<1>4. Mints(chain, y, r)
  BY <1>1, CreateMints
<1>5. Untouched(y, z)
  BY <1>3, <1>4, PreparedTouchesNothing DEF Mints
<1>6. z.accepts /\ x \in PumpBuy(z, "full", r)
  BY <1>2 DEF BuyWithPda
<1>7. Buys(z, x, r)
  BY <1>1, <1>5, <1>6, PumpBuyBuys, BuyerInBuyers DEF Untouched
<1> QED
  BY <1>4, <1>5, <1>6, <1>7 DEF Mints, Untouched, Buys

LEMMA LiteCreateMints ==
  ASSUME SpikeTypeOK, NEW r \in LiteRuns, NEW x \in LiteCreate(chain, r)
  PROVE  Mints(chain, x, r)
<1>1. r \in Runs /\ chain \in Ledger /\ topUp[r] \in Nat
  BY BuyAssumption DEF Runs, SpikeTypeOK, Need
<1>2. PICK z \in UNION {LiteFund(y, topUp[r]) : y \in PumpCreate(chain, r)} :
        x \in OpenAccount(z, r)
  BY DEF LiteCreate, Then
<1>3. PICK y \in PumpCreate(chain, r) : z \in LiteFund(y, topUp[r])
  BY <1>2
<1>4. Mints(chain, y, r)
  BY <1>1, CreateMints
<1>5. Untouched(y, z)
  BY <1>1, <1>3, <1>4, FundTouchesNothing, BuyerInBuyers DEF Mints, LiteFund
<1>6. Untouched(z, x)
  BY <1>1, <1>2, <1>5, OpenTouchesNothing DEF Untouched
<1> QED
  BY <1>4, <1>5, <1>6 DEF Mints, Untouched

LEMMA ProbeCreateMints ==
  ASSUME SpikeTypeOK, NEW r \in ProbeRuns, NEW x \in ProbeCreate(chain, r)
  PROVE  Mints(chain, x, r)
<1>1. r \in Runs /\ chain \in Ledger /\ ProbeFund \in Nat
  BY BuyAssumption DEF Runs, SpikeTypeOK, ProbeFund
<1>2. PICK z \in UNION {PumpCreate(y, r) : y \in FundBuyer(chain, r, ProbeFund)} :
        x \in OpenAccount(z, r)
  BY DEF ProbeCreate, Then
<1>3. PICK y \in FundBuyer(chain, r, ProbeFund) : z \in PumpCreate(y, r)
  BY <1>2
<1>4. Untouched(chain, y)
  BY <1>1, FundTouchesNothing, BuyerInBuyers
<1>5. Mints(y, z, r)
  BY <1>1, <1>3, <1>4, CreateMints DEF Untouched
<1>6. Untouched(z, x)
  BY <1>1, <1>2, <1>5, OpenTouchesNothing DEF Mints
<1> QED
  BY <1>4, <1>5, <1>6 DEF Mints, Untouched

LEMMA OutcomesKnown ==
  ASSUME SpikeTypeOK, NEW r \in Runs, NEW t \in Transactions,
         t \in {"combined", "fund"} => r \in FullRuns,
         NEW x \in Outcomes(r, t)
  PROVE  /\ t = "combined" => /\ \E y \in Ledger : Mints(chain, y, r) /\ Buys(y, x, r)
                              /\ chain.accepts
         /\ t = "create" => Mints(chain, x, r)
         /\ t \in {"fund", "tip"} => Untouched(chain, x)
         /\ t = "buy" => Buys(chain, x, r) /\ (r \in ProbeRuns \/ chain.accepts)
<1>1. chain \in Ledger
  BY DEF SpikeTypeOK
<1>2. CASE t = "combined"
  BY <1>2, CombinedMintsAndBuys DEF Outcomes
<1>3. CASE t = "create"
  <2>1. CASE r \in FullRuns
    BY <1>1, <1>3, <2>1, RunsDisjoint, CreateMints DEF Outcomes
  <2>2. CASE r \in LiteRuns
    BY <1>3, <2>2, RunsDisjoint, LiteCreateMints DEF Outcomes
  <2>3. CASE r \in ProbeRuns
    BY <1>3, <2>3, RunsDisjoint, ProbeCreateMints DEF Outcomes
  <2> QED
    BY <1>3, <2>1, <2>2, <2>3 DEF Runs
<1>4. CASE t = "fund"
  BY <1>1, <1>4, PreparedTouchesNothing DEF Outcomes
<1>5. CASE t = "buy"
  <2>1. CASE r \in FullRuns
    <3>1. chain.accepts /\ x \in PumpBuy(chain, "full", r)
      BY <1>5, <2>1, RunsDisjoint DEF Outcomes, BuyWithPda
    <3> QED
      BY <1>1, <1>5, <2>1, <3>1, PumpBuyBuys, BuyerInBuyers
  <2>2. CASE r \in LiteRuns
    <3>1. chain.accepts /\ x \in PumpBuy(chain, "lite", r)
      BY <1>5, <2>2, RunsDisjoint DEF Outcomes, LiteBuy
    <3> QED
      BY <1>1, <1>5, <2>2, <3>1, PumpBuyBuys, BuyerInBuyers
  <2>3. CASE r \in ProbeRuns
    <3>1. x \in PumpBuy(chain, r, r)
      BY <1>5, <2>3, RunsDisjoint DEF Outcomes, ProbeBuy
    <3> QED
      BY <1>1, <1>5, <2>3, <3>1, PumpBuyBuys, BuyerInBuyers
  <2> QED
    BY <1>5, <2>1, <2>2, <2>3 DEF Runs
<1>6. CASE t = "tip"
  BY <1>1, <1>6, TipTouchesNothing DEF Outcomes
<1> QED
  BY <1>2, <1>3, <1>4, <1>5, <1>6 DEF Transactions

-----------------------------------------------------------------------------
(* What one run does leaves the others as they are *)

Quiet(r) ==
  /\ chain' = chain /\ json' = json /\ md' = md
  /\ \A s \in Runs \ {r} :
       fate'[s] = fate[s] /\ pc'[s] = pc[s] /\ verdict'[s] = verdict[s]

LEMMA QuietKeeps ==
  ASSUME SpikeInv, NEW r \in Runs, Quiet(r), SpikeTypeOK', RunInv(r)',
         GaveUp(r) => GaveUp(r)'
  PROVE  SpikeInv'
<1>1. ASSUME NEW s \in Runs \ {r}
      PROVE  RunInv(s)' /\ (GaveUp(s) => GaveUp(s)')
  BY <1>1 DEF SpikeInv, Quiet, RunInv, GaveUp, Done
<1>2. FilesEarned'
  BY <1>1 DEF SpikeInv, Quiet, FilesEarned
<1> QED
  BY <1>1, <1>2 DEF SpikeInv

LEMMA SendKeeps ==
  ASSUME SpikeInv, NEW r \in Runs, NEW t \in Transactions, NEW from, NEW to,
         Send(r, t, from, to),
         \/ t = "combined" /\ from = "combined" /\ to = "sent" /\ r \in FullRuns
         \/ t = "create" /\ from \in {"new", "create", "split"} /\ to = "creating"
         \/ /\ t = "fund" /\ from = "creating" /\ to = "preparing"
            /\ r \in FullRuns /\ Done(r, "create")
         \/ /\ t = "buy" /\ from \in {"creating", "preparing"} /\ to = "buying"
            /\ Done(r, "create")
  PROVE  SpikeInv'
<1> USE DEF SpikeInv
<1>1. /\ fate \in [Runs -> [Transactions -> Fates]]
      /\ pc \in [Runs -> Steps] /\ verdict \in [Runs -> Verdicts]
  BY DEF SpikeTypeOK
<1>2. /\ fate' = [fate EXCEPT ![r][t] = "sent"]
      /\ pc' = [pc EXCEPT ![r] = to] /\ pc[r] = from
      /\ UNCHANGED <<chain, topUp, verdict, json, md>>
  BY DEF Send, Goto
<1>3. to \in Steps /\ "sent" \in Fates
  BY DEF Steps, Fates
<1>4. SpikeTypeOK'
  <2>1. fate' \in [Runs -> [Transactions -> Fates]]
    BY <1>1, <1>2, <1>3
  <2>2. pc' \in [Runs -> Steps]
    BY <1>1, <1>2, <1>3
  <2> QED
    BY <1>2, <2>1, <2>2 DEF SpikeTypeOK
<1>5. Quiet(r)
  BY <1>1, <1>2 DEF Quiet
<1>6. /\ fate'[r][t] = "sent"
      /\ \A u \in Transactions \ {t} : fate'[r][u] = fate[r][u]
      /\ pc'[r] = to
  BY <1>1, <1>2
<1>7. fate[r][t] = "unsent"
  BY <1>2 DEF RunInv, Transactions
<1>8. ~GaveUp(r)
  BY <1>2 DEF GaveUp
<1>9. RunInv(r)'
  BY <1>2, <1>6, <1>7, <1>8 DEF RunInv, Done, Transactions
<1> QED
  BY <1>4, <1>5, <1>8, <1>9, QuietKeeps

LEMMA ProceedKeeps ==
  ASSUME SpikeInv, NEW r \in Runs, NEW from, NEW to, Proceed(r, from, to),
         \/ from = "new" /\ to = "ready"
         \/ from \in {"combined", "sent"} /\ to = "split"
         \/ from \in {"json", "md"} /\ to = "split" /\ fate[r]["create"] = "unsent"
  PROVE  SpikeInv'
<1> USE DEF SpikeInv
<1>1. pc \in [Runs -> Steps]
  BY DEF SpikeTypeOK
<1>2. /\ pc' = [pc EXCEPT ![r] = to] /\ pc[r] = from
      /\ UNCHANGED <<chain, fate, topUp, verdict, json, md>>
  BY DEF Proceed, Goto
<1>3. SpikeTypeOK'
  BY <1>1, <1>2 DEF SpikeTypeOK, Steps
<1>4. Quiet(r)
  BY <1>1, <1>2 DEF Quiet
<1>5. ~GaveUp(r)
  BY <1>2 DEF GaveUp, Done
<1>6. RunInv(r)'
  BY <1>1, <1>2, <1>5 DEF RunInv, Done
<1> QED
  BY <1>3, <1>4, <1>5, <1>6, QuietKeeps

LEMMA ProbeEngineKeeps ==
  ASSUME SpikeInv, NEW r \in Runs, ProbeEngine(r)
  PROVE  SpikeInv'
<1> USE DEF SpikeInv
<1>1. /\ fate \in [Runs -> [Transactions -> Fates]] /\ pc \in [Runs -> Steps]
      /\ pc' = [pc EXCEPT ![r] = "json"] /\ pc[r] = "tip"
      /\ UNCHANGED <<chain, topUp, verdict, json, md>>
      /\ fate' = [fate EXCEPT ![r]["tip"] = "sent"] \/ fate' = fate
  BY DEF SpikeTypeOK, ProbeEngine, Goto
<1>2. /\ fate' \in [Runs -> [Transactions -> Fates]]
      /\ \A u \in Transactions \ {"tip"} : fate'[r][u] = fate[r][u]
      /\ \A s \in Runs \ {r} : fate'[s] = fate[s]
  BY <1>1 DEF Transactions, Fates
<1>3. pc'[r] = "json" /\ \A s \in Runs \ {r} : pc'[s] = pc[s]
  BY <1>1
<1>4. SpikeTypeOK'
  BY <1>1, <1>2 DEF SpikeTypeOK, Steps
<1>5. Quiet(r)
  BY <1>1, <1>2, <1>3 DEF Quiet
<1>6. ~GaveUp(r)
  BY <1>1 DEF GaveUp
<1>7. RunInv(r)'
  BY <1>1, <1>2, <1>3, <1>6 DEF RunInv, Done, Transactions
<1> QED
  BY <1>4, <1>5, <1>6, <1>7, QuietKeeps

LEMMA TryCombinedKeeps ==
  ASSUME SpikeInv, NEW r \in FullRuns, TryCombined(r)
  PROVE  SpikeInv'
<1>1. r \in Runs /\ r \notin ProbeRuns /\ RunInv(r)
  BY RunsDisjoint DEF Runs, SpikeInv
<1>2. CASE Send(r, "combined", "combined", "sent")
  BY <1>1, <1>2, SendKeeps DEF Transactions
<1>3. CASE /\ pc[r] = "sent" /\ chain.tokens[r] > 0
           /\ verdict' = [verdict EXCEPT ![r] = "proven"] /\ Goto(r, "tip")
           /\ UNCHANGED <<chain, fate, topUp, json, md>>
  <2>1. pc \in [Runs -> Steps] /\ verdict \in [Runs -> Verdicts]
    BY DEF SpikeInv, SpikeTypeOK
  <2>2. /\ pc'[r] = "tip" /\ verdict'[r] = "proven"
        /\ \A s \in Runs \ {r} : pc'[s] = pc[s] /\ verdict'[s] = verdict[s]
    BY <1>1, <1>3, <2>1 DEF Goto
  <2>3. SpikeTypeOK'
    BY <1>3, <2>1 DEF SpikeInv, SpikeTypeOK, Steps, Verdicts, Goto
  <2>4. Quiet(r)
    BY <1>3, <2>2 DEF Quiet
  <2>5. ~GaveUp(r)
    BY <1>3 DEF GaveUp
  <2>6. chain.accepts
    BY <1>1, <1>3 DEF RunInv, Done
  <2>7. RunInv(r)'
    BY <1>1, <1>3, <2>2, <2>6 DEF RunInv, Done
  <2> QED
    BY <1>1, <2>3, <2>4, <2>5, <2>7, QuietKeeps
<1> QED
  BY <1>2, <1>3 DEF TryCombined

LEMMA ConcludeKeeps ==
  ASSUME SpikeInv, NEW r \in Runs, NEW from, NEW conclusion \in Verdicts \ {"plumbed"},
         Conclude(r, from, conclusion),
         conclusion = "proven" => chain.accepts /\ chain.tokens[r] > 0,
         conclusion = "rejected" => Done(r, "create") /\ fate[r]["buy"] = "unsent"
  PROVE  SpikeInv'
<1> USE DEF SpikeInv
<1>1. pc \in [Runs -> Steps] /\ verdict \in [Runs -> Verdicts]
  BY DEF SpikeTypeOK
<1>2. /\ pc' = [pc EXCEPT ![r] = "json"] /\ verdict' = [verdict EXCEPT ![r] = conclusion]
      /\ UNCHANGED <<chain, fate, topUp, json, md>>
  BY DEF Conclude, Goto
<1>3. SpikeTypeOK'
  BY <1>1, <1>2 DEF SpikeTypeOK, Steps
<1>4. Quiet(r)
  BY <1>1, <1>2 DEF Quiet
<1>5. pc'[r] = "json" /\ verdict'[r] = conclusion
  BY <1>1, <1>2
<1>6. /\ GaveUp(r) => GaveUp(r)'
      /\ conclusion = "rejected" => GaveUp(r)'
  BY <1>2, <1>5 DEF GaveUp, Done
<1>7. RunInv(r)'
  BY <1>2, <1>5, <1>6 DEF RunInv, Done
<1> QED
  BY <1>3, <1>4, <1>6, <1>7, QuietKeeps

LEMMA BuysMeans ==
  ASSUME NEW l \in Ledger, NEW r \in Runs, NEW x, Buys(l, x, r)
  PROVE  /\ x.tokens[r] > 0 /\ x.tokens[r] >= l.tokens[r]
         /\ x.bought[r] = l.bought[r] + 1
         /\ \A s \in Runs \ {r} : x.tokens[s] = l.tokens[s] /\ x.bought[s] = l.bought[s]
<1>1. l.tokens \in [Runs -> Nat] /\ l.bought \in [Runs -> Nat]
  BY DEF Ledger
<1>2. PICK got \in Nat \ {0} : x.tokens = [l.tokens EXCEPT ![r] = @ + got]
  BY DEF Buys
<1>3. x.bought = [l.bought EXCEPT ![r] = @ + 1]
  BY DEF Buys
<1> QED
  BY <1>1, <1>2, <1>3

(* A transaction reaches the cluster at any time after it was sent, while   *)
(* the run that sent it is anywhere. *)
LEMMA LandKeeps ==
  ASSUME SpikeInv, NEW r \in Runs, NEW t \in Transactions, Land(r, t)
  PROVE  SpikeInv'
<1> USE DEF SpikeInv
<1>1. /\ fate \in [Runs -> [Transactions -> Fates]] /\ chain \in Ledger
      /\ fate[r][t] = "sent"
      /\ UNCHANGED <<pc, topUp, verdict, json, md>>
  BY DEF SpikeTypeOK, Land
<1>2. ASSUME NEW new \in {"failed", "done"}, fate' = [fate EXCEPT ![r][t] = new]
      PROVE  /\ fate' \in [Runs -> [Transactions -> Fates]]
             /\ fate'[r][t] = new
             /\ \A u \in Transactions \ {t} : fate'[r][u] = fate[r][u]
             /\ \A s \in Runs \ {r} : fate'[s] = fate[s]
  BY <1>1, <1>2 DEF Fates
<1>3. CASE fate' = [fate EXCEPT ![r][t] = "failed"] /\ chain' = chain
  <2>1. fate' = [fate EXCEPT ![r][t] = "failed"] /\ chain' = chain
    BY <1>3
  <2>2. SpikeTypeOK'
    BY <1>1, <1>2, <2>1 DEF SpikeTypeOK
  <2>3. Quiet(r)
    BY <1>1, <1>2, <2>1 DEF Quiet
  <2>4. GaveUp(r) => GaveUp(r)'
    BY <1>1, <1>2, <2>1 DEF GaveUp, Done, Transactions
  <2>5. RunInv(r)'
    BY <1>1, <1>2, <2>1, <2>4 DEF RunInv, Done, Transactions
  <2> QED
    BY <2>2, <2>3, <2>4, <2>5, QuietKeeps
<1>4. CASE fate' = [fate EXCEPT ![r][t] = "done"] /\ chain' \in Outcomes(r, t)
  <2>1. fate' = [fate EXCEPT ![r][t] = "done"] /\ chain' \in Outcomes(r, t)
    BY <1>4
  <2>2. t \in {"combined", "fund"} => r \in FullRuns
    BY <1>1 DEF RunInv
  <2>3. /\ t = "combined" => /\ \E y \in Ledger : Mints(chain, y, r) /\ Buys(y, chain', r)
                             /\ chain.accepts
        /\ t = "create" => Mints(chain, chain', r)
        /\ t \in {"fund", "tip"} => Untouched(chain, chain')
        /\ t = "buy" => Buys(chain, chain', r) /\ (r \in ProbeRuns \/ chain.accepts)
    BY <2>1, <2>2, OutcomesKnown
  <2>4. /\ chain' \in Ledger /\ chain'.accepts = chain.accepts
        /\ \A s \in Runs \ {r} :
             /\ s \in chain'.minted <=> s \in chain.minted
             /\ chain'.tokens[s] = chain.tokens[s]
             /\ chain'.bought[s] = chain.bought[s]
        /\ chain'.tokens[r] >= chain.tokens[r]
    <3>1. /\ chain.tokens \in [Runs -> Nat] /\ chain.bought \in [Runs -> Nat]
      BY <1>1 DEF Ledger
    <3>2. CASE t = "combined"
      <4>1. PICK y \in Ledger : Mints(chain, y, r) /\ Buys(y, chain', r)
        BY <2>3, <3>2
      <4> QED
        BY <3>1, <4>1, BuysMeans DEF Mints, Buys
    <3>3. CASE t = "create"
      BY <2>3, <3>1, <3>3 DEF Mints
    <3>4. CASE t \in {"fund", "tip"}
      BY <2>3, <3>1, <3>4 DEF Untouched
    <3>5. CASE t = "buy"
      <4>1. Buys(chain, chain', r)
        BY <2>3, <3>5
      <4>2. chain'.minted = chain.minted /\ chain'.accepts = chain.accepts /\ chain' \in Ledger
        BY <4>1 DEF Buys
      <4> QED
        BY <1>1, <4>1, <4>2, BuysMeans
    <3> QED
      BY <3>2, <3>3, <3>4, <3>5 DEF Transactions
  <2>5. SpikeTypeOK'
    BY <1>1, <1>2, <2>1, <2>4 DEF SpikeTypeOK
  <2>6. ASSUME NEW s \in Runs \ {r}
        PROVE  RunInv(s)' /\ (GaveUp(s) => GaveUp(s)')
    <3>1. /\ RunInv(s) /\ fate'[s] = fate[s]
          /\ pc'[s] = pc[s] /\ verdict'[s] = verdict[s]
      BY <1>1, <1>2, <2>1, <2>6
    <3>2. /\ s \in chain'.minted <=> s \in chain.minted
          /\ chain'.tokens[s] = chain.tokens[s] /\ chain'.bought[s] = chain.bought[s]
          /\ chain'.accepts = chain.accepts
      BY <2>4, <2>6
    <3> QED
      BY <3>1, <3>2 DEF RunInv, GaveUp, Done
  <2>7. /\ t = "combined" => /\ r \notin chain.minted /\ r \in chain'.minted
                             /\ chain'.tokens[r] > 0 /\ chain'.bought[r] = chain.bought[r] + 1
        /\ t = "create" => /\ r \notin chain.minted /\ r \in chain'.minted
                           /\ chain'.tokens = chain.tokens /\ chain'.bought = chain.bought
        /\ t \in {"fund", "tip"} =>
             /\ chain'.minted = chain.minted
             /\ chain'.tokens = chain.tokens /\ chain'.bought = chain.bought
        /\ t = "buy" => /\ chain'.minted = chain.minted
                        /\ chain'.tokens[r] > 0 /\ chain'.bought[r] = chain.bought[r] + 1
    <3>1. /\ chain.tokens \in [Runs -> Nat] /\ chain.bought \in [Runs -> Nat]
      BY <1>1 DEF Ledger
    <3>2. ASSUME t = "combined"
          PROVE  /\ r \notin chain.minted /\ r \in chain'.minted
                 /\ chain'.tokens[r] > 0 /\ chain'.bought[r] = chain.bought[r] + 1
      <4>1. PICK y \in Ledger : Mints(chain, y, r) /\ Buys(y, chain', r)
        BY <2>3, <3>2
      <4> QED
        BY <3>1, <4>1, BuysMeans DEF Mints, Buys
    <3>3. t = "buy" => /\ chain'.minted = chain.minted
                      /\ chain'.tokens[r] > 0 /\ chain'.bought[r] = chain.bought[r] + 1
      BY <1>1, <2>3, BuysMeans DEF Buys
    <3> QED
      BY <2>3, <3>2, <3>3 DEF Mints, Untouched
  <2>8. GaveUp(r) => GaveUp(r)'
    BY <1>1, <1>2, <2>1 DEF GaveUp, Done, Transactions
  <2>9. RunInv(r)'
    <3>1. /\ chain.tokens[r] \in Nat /\ chain.bought[r] \in Nat
          /\ chain'.tokens[r] \in Nat
      BY <1>1, <2>4 DEF Ledger
    <3>2. RunInv(r)
      OBVIOUS
    <3>3. CASE t = "combined"
      BY <1>1, <1>2, <2>1, <2>2, <2>3, <2>4, <2>7, <2>8, <3>1, <3>2, <3>3, RunsDisjoint
      DEF RunInv, Done, Transactions
    <3>4. CASE t = "create"
      BY <1>1, <1>2, <2>1, <2>3, <2>4, <2>7, <2>8, <3>1, <3>2, <3>4 DEF RunInv, Done, Transactions
    <3>5. CASE t \in {"fund", "tip"}
      BY <1>1, <1>2, <2>1, <2>3, <2>4, <2>7, <2>8, <3>1, <3>2, <3>5 DEF RunInv, Done, Transactions
    <3>6. CASE t = "buy"
      BY <1>1, <1>2, <2>1, <2>3, <2>4, <2>7, <2>8, <3>1, <3>2, <3>6 DEF RunInv, Done, Transactions
    <3> QED
      BY <3>3, <3>4, <3>5, <3>6 DEF Transactions
  <2>10. FilesEarned'
    <3>1. \A s \in Runs : chain.tokens[s] > 0 => chain'.tokens[s] > 0
      <4>1. chain.tokens \in [Runs -> Nat] /\ chain'.tokens \in [Runs -> Nat]
        BY <1>1, <2>4 DEF Ledger
      <4>2. chain.tokens[r] > 0 => chain'.tokens[r] > 0
        BY <2>4, <4>1
      <4>3. \A s \in Runs \ {r} : chain.tokens[s] > 0 => chain'.tokens[s] > 0
        BY <2>4
      <4> QED
        BY <4>2, <4>3
    <3>2. \A s \in Runs : GaveUp(s) => GaveUp(s)'
      BY <2>6, <2>8
    <3> QED
      BY <1>1, <2>4, <3>1, <3>2 DEF FilesEarned
  <2> QED
    BY <2>5, <2>6, <2>9, <2>10
<1> QED
  BY <1>3, <1>4 DEF Land

Gives(l, x) ==
  /\ x \in Ledger /\ x.accepts = l.accepts
  /\ x.minted = l.minted /\ x.bought = l.bought
  /\ \A r \in Runs : l.tokens[r] > 0 => x.tokens[r] > 0
  /\ \A r \in Runs : x.tokens[r] > 0 => l.tokens[r] > 0 \/ r \in l.minted

(* Others bring lamports and tokens, and spend what the PDA holds; they     *)
(* create no mint of a run, and no buy of theirs is the run's.              *)
LEMMA StrangerKeeps ==
  ASSUME SpikeInv, Stranger
  PROVE  SpikeInv'
<1> USE DEF SpikeInv
<1>1. /\ chain \in Ledger /\ chain.held \in [Buyers -> Nat]
      /\ chain.tokens \in [Runs -> Nat]
      /\ UNCHANGED <<fate, pc, topUp, verdict, json, md>>
  BY DEF SpikeTypeOK, Stranger, Ledger
<1>2. Gives(chain, chain')
  <2>1. ASSUME NEW b \in Shared, NEW held \in Nat,
               chain' = [chain EXCEPT !.held = [chain.held EXCEPT ![b] = held]]
        PROVE  Gives(chain, chain')
    BY <1>1, <2>1 DEF Gives, Ledger
  <2>2. ASSUME NEW b \in Shared, StrangerFunds(b)
        PROVE  Gives(chain, chain')
    <3>1. chain.held[b] + 1 \in Nat
      BY <1>1 DEF Shared
    <3>2. chain' = [chain EXCEPT !.held = [chain.held EXCEPT ![b] = chain.held[b] + 1]]
      BY <1>1, <2>2 DEF StrangerFunds, Ledger
    <3> QED
      BY <2>1, <3>1, <3>2
  <2>3. ASSUME NEW b \in Shared, StrangerBuys(b)
        PROVE  Gives(chain, chain')
    <3>1. PICK spent \in 1 .. chain.held[b] : chain' = [chain EXCEPT !.held[b] = @ - spent]
      BY <2>3 DEF StrangerBuys
    <3>2. chain.held[b] - spent \in Nat
      BY <1>1 DEF Shared
    <3>3. chain' = [chain EXCEPT !.held = [chain.held EXCEPT ![b] = chain.held[b] - spent]]
      BY <1>1, <3>1 DEF Ledger
    <3> QED
      BY <2>1, <3>2, <3>3
  <2>4. ASSUME NEW m \in Runs, StrangerSends(m)
        PROVE  Gives(chain, chain')
    <3> DEFINE tokens == [chain.tokens EXCEPT ![m] = chain.tokens[m] + 1]
    <3>1. /\ tokens \in [Runs -> Nat] /\ m \in chain.minted
          /\ \A s \in Runs \ {m} : tokens[s] = chain.tokens[s]
          /\ tokens[m] > 0
      BY <1>1, <2>4 DEF StrangerSends
    <3>2. chain' = [chain EXCEPT !.tokens = tokens]
      BY <1>1, <2>4 DEF StrangerSends, Ledger
    <3>3. /\ chain' \in Ledger /\ chain'.tokens = tokens
          /\ UNCHANGED <<chain.accepts, chain.minted, chain.bought>>
      BY <1>1, <3>1, <3>2 DEF Ledger
    <3> QED
      BY <1>1, <3>1, <3>3 DEF Gives
  <2> QED
    BY <2>2, <2>3, <2>4 DEF Stranger
<1>3. SpikeTypeOK'
  BY <1>1, <1>2 DEF Gives, SpikeTypeOK
<1>4. ASSUME NEW s \in Runs
      PROVE  RunInv(s)' /\ (GaveUp(s) => GaveUp(s)')
  <2>1. RunInv(s)
    OBVIOUS
  <2> QED
    BY <1>1, <1>2, <2>1 DEF Gives, RunInv, GaveUp, Done
<1>5. FilesEarned'
  BY <1>1, <1>2, <1>4 DEF Gives, FilesEarned
<1> QED
  BY <1>3, <1>4, <1>5

-----------------------------------------------------------------------------
(* Every step keeps the invariant *)

LEMMA StartKeeps ==
  ASSUME SpikeInv, NEW r \in Runs,
         \/ r \in FullRuns /\ ReadBuyer(r)
         \/ LiteStart(r)
  PROVE  SpikeInv'
<1> USE DEF SpikeInv
<1>1. /\ pc \in [Runs -> Steps] /\ topUp \in [Runs -> 0 .. Need]
      /\ Need \in Nat /\ chain.held \in [Buyers -> Nat]
  BY BuyAssumption DEF SpikeTypeOK, Ledger, Need
<1>2. /\ UNCHANGED <<chain, fate, verdict, json, md>>
      /\ pc[r] \in {"ready", "new"}
      /\ \E to \in {"combined", "create"} : pc' = [pc EXCEPT ![r] = to]
      /\ \E lamports \in 0 .. Need : topUp' = [topUp EXCEPT ![r] = lamports]
  <2>1. CASE r \in FullRuns /\ ReadBuyer(r)
    <3>1. chain.held["full"] \in Nat
      BY <1>1, <2>1, BuyerInBuyers
    <3>2. (IF chain.held["full"] >= Need THEN 0 ELSE Need - chain.held["full"]) \in 0 .. Need
      BY <1>1, <3>1
    <3> QED
      BY <2>1, <3>2 DEF ReadBuyer, Goto
  <2>2. CASE LiteStart(r)
    <3>1. Need \in 0 .. Need
      BY <1>1
    <3> QED
      BY <2>2, <3>1 DEF LiteStart, Goto
  <2> QED
    BY <2>1, <2>2
<1>3. pc'[r] \in {"combined", "create"} /\ \A s \in Runs \ {r} : pc'[s] = pc[s]
  BY <1>1, <1>2
<1>4. SpikeTypeOK'
  BY <1>1, <1>2 DEF SpikeTypeOK, Steps
<1>5. Quiet(r)
  BY <1>2, <1>3 DEF Quiet
<1>6. ~GaveUp(r)
  BY <1>2 DEF GaveUp
<1>7. RunInv(r)'
  BY <1>2, <1>3, <1>6 DEF RunInv, Done
<1> QED
  BY <1>4, <1>5, <1>6, <1>7, QuietKeeps

LEMMA PlumbedKeeps ==
  ASSUME SpikeInv, NEW r \in ProbeRuns, Plumbed(r)
  PROVE  SpikeInv'
<1> USE DEF SpikeInv
<1>1. /\ pc \in [Runs -> Steps] /\ verdict \in [Runs -> Verdicts] /\ r \in Runs
  BY DEF SpikeTypeOK, Runs
<1>2. /\ pc' = [pc EXCEPT ![r] = "ended"]
      /\ verdict' = [verdict EXCEPT ![r] = "plumbed"]
      /\ pc[r] = "buying" /\ Done(r, "buy")
      /\ UNCHANGED <<chain, fate, topUp, json, md>>
  BY DEF Plumbed, Goto, Confirmed, Done
<1>3. SpikeTypeOK'
  BY <1>1, <1>2 DEF SpikeTypeOK, Steps, Verdicts
<1>4. Quiet(r)
  BY <1>1, <1>2 DEF Quiet
<1>5. RunInv(r)'
  <2>1. pc'[r] = "ended" /\ verdict'[r] = "plumbed" /\ chain.tokens[r] > 0
    BY <1>1, <1>2 DEF RunInv
  <2> QED
    BY <1>1, <1>2, <2>1 DEF RunInv, Done
<1>6. ~GaveUp(r)
  BY <1>2 DEF GaveUp
<1> QED
  BY <1>1, <1>3, <1>4, <1>5, <1>6, QuietKeeps

(* A file names the run that wrote it, with the verdict of that moment. *)
LEMMA WriteKeeps ==
  ASSUME SpikeInv, NEW r \in Runs, WriteJson(r) \/ WriteMd(r)
  PROVE  SpikeInv'
<1> USE DEF SpikeInv
<1> DEFINE written == ReportOf(r)
<1>1. pc \in [Runs -> Steps] /\ written \in Report
  BY DEF SpikeTypeOK, Report, ReportOf
<1>2. /\ UNCHANGED <<chain, fate, topUp, verdict>>
      /\ \E to \in {"md", "ended"} : pc' = [pc EXCEPT ![r] = to]
      /\ pc[r] \in {"json", "md"}
      /\ json' \in {json, written} /\ md' \in {md, written}
  BY DEF WriteJson, WriteMd, Goto
<1>3. SpikeTypeOK'
  BY <1>1, <1>2 DEF SpikeTypeOK, Steps
<1>4. ASSUME NEW s \in Runs
      PROVE  RunInv(s)' /\ (GaveUp(s) => GaveUp(s)')
  <2>1. pc'[s] = pc[s] \/ (pc[s] \in {"json", "md"} /\ pc'[s] \in {"md", "ended"})
    BY <1>1, <1>2
  <2>2. RunInv(s)
    OBVIOUS
  <2> QED
    BY <1>2, <2>1, <2>2 DEF RunInv, GaveUp, Done
<1>5. /\ written.verdict = "proven" => chain.accepts /\ chain.tokens[r] > 0
      /\ written.verdict = "rejected" => GaveUp(r)
      /\ written.run = r
  BY DEF RunInv, ReportOf
<1>6. FilesEarned'
  BY <1>2, <1>4, <1>5 DEF FilesEarned
<1> QED
  BY <1>3, <1>4, <1>6

LEMMA InitHolds == SpikeInit => SpikeInv
<1> SUFFICES ASSUME SpikeInit PROVE SpikeInv
  OBVIOUS
<1>1. PICK accepts \in BOOLEAN :
        chain = [ accepts |-> accepts, funder |-> Funding,
                  held |-> [b \in Buyers |-> 0], minted |-> {}, opened |-> {},
                  tokens |-> [r \in Runs |-> 0], bought |-> [r \in Runs |-> 0] ]
  BY DEF SpikeInit
<1>2. /\ fate = [r \in Runs |-> [t \in Transactions |-> "unsent"]]
      /\ pc = [r \in Runs |-> "new"] /\ topUp = [r \in Runs |-> 0]
      /\ verdict = [r \in Runs |-> "none"] /\ json = NoReport /\ md = NoReport
  BY DEF SpikeInit
<1>3. SpikeTypeOK
  <2>1. chain \in Ledger
    BY <1>1, FloorAssumption DEF Ledger
  <2>2. /\ fate \in [Runs -> [Transactions -> Fates]] /\ pc \in [Runs -> Steps]
        /\ verdict \in [Runs -> Verdicts] /\ json \in Report /\ md \in Report
    BY <1>2 DEF Fates, Steps, Verdicts, Report
  <2>3. topUp \in [Runs -> 0 .. Need]
    BY <1>2, BuyAssumption DEF Need
  <2> QED
    BY <2>1, <2>2, <2>3 DEF SpikeTypeOK
<1>4. ASSUME NEW r \in Runs
      PROVE  RunInv(r)
  <2>1. /\ pc[r] = "new" /\ verdict[r] = "none"
        /\ \A t \in Transactions : fate[r][t] = "unsent"
        /\ r \notin chain.minted /\ chain.tokens[r] = 0 /\ chain.bought[r] = 0
    BY <1>1, <1>2
  <2> QED
    BY <2>1 DEF RunInv, Done, Transactions
<1>5. FilesEarned
  BY <1>2 DEF FilesEarned, NoReport
<1> QED
  BY <1>3, <1>4, <1>5 DEF SpikeInv

LEMMA FullKeeps ==
  ASSUME SpikeInv, NEW r \in FullRuns, Full(r)
  PROVE  SpikeInv'
<1>1. r \in Runs /\ r \notin ProbeRuns /\ RunInv(r)
  BY RunsDisjoint DEF Runs, SpikeInv
<1>2. CASE FullBalance(r)
  BY <1>1, <1>2, ConcludeKeeps, ProceedKeeps DEF FullBalance, Verdicts
<1>3. CASE DeployFails(r)
  BY <1>1, <1>3, ConcludeKeeps DEF DeployFails, Verdicts
<1>4. CASE ReadBuyer(r)
  BY <1>1, <1>4, StartKeeps
<1>5. CASE TryCombined(r) \/ ProbeEngine(r)
  BY <1>1, <1>5, TryCombinedKeeps, ProbeEngineKeeps
<1>6. CASE CombinedThrows(r)
  BY <1>1, <1>6, ProceedKeeps DEF CombinedThrows
<1>7. CASE Split(r)
  <2>1. CASE SplitCreate(r)
    BY <1>1, <2>1, SendKeeps DEF SplitCreate, Transactions
  <2>2. CASE Confirmed(r, "create") /\ Send(r, "fund", "creating", "preparing")
    BY <1>1, <2>2, SendKeeps DEF Confirmed, Done, Transactions
  <2>3. CASE Send(r, "buy", "preparing", "buying")
    <3>1. Done(r, "create")
      BY <1>1, <2>3 DEF Send, RunInv
    <3> QED
      BY <1>1, <2>3, <3>1, SendKeeps DEF Transactions
  <2>4. CASE Refused(r, "preparing")
    <3>1. Done(r, "create") /\ fate[r]["buy"] = "unsent"
      BY <1>1, <2>4 DEF Refused, Conclude, RunInv
    <3> QED
      BY <1>1, <2>4, <3>1, ConcludeKeeps DEF Refused, Verdicts
  <2>5. CASE Confirmed(r, "buy") /\ Conclude(r, "buying", "proven")
    <3>1. chain.accepts /\ chain.tokens[r] > 0
      BY <1>1, <2>5 DEF Confirmed, RunInv, Done
    <3> QED
      BY <1>1, <2>5, <3>1, ConcludeKeeps DEF Verdicts
  <2> QED
    BY <1>7, <2>1, <2>2, <2>3, <2>4, <2>5 DEF Split
<1>8. CASE SplitThrows(r)
  BY <1>1, <1>8, ConcludeKeeps DEF SplitThrows, Verdicts
<1>9. CASE ReportThrows(r)
  BY <1>1, <1>9, ConcludeKeeps, ProceedKeeps DEF ReportThrows, Verdicts
<1> QED
  BY <1>2, <1>3, <1>4, <1>5, <1>6, <1>7, <1>8, <1>9 DEF Full

LEMMA LiteKeeps ==
  ASSUME SpikeInv, NEW r \in LiteRuns, Lite(r)
  PROVE  SpikeInv'
<1>1. r \in Runs /\ r \notin ProbeRuns /\ RunInv(r)
  BY RunsDisjoint DEF Runs, SpikeInv
<1>2. CASE LiteStart(r)
  BY <1>1, <1>2, StartKeeps
<1>3. CASE Send(r, "create", "create", "creating")
  BY <1>1, <1>3, SendKeeps DEF Transactions
<1>4. CASE Confirmed(r, "create") /\ Send(r, "buy", "creating", "buying")
  BY <1>1, <1>4, SendKeeps DEF Confirmed, Done, Transactions
<1>5. CASE Confirmed(r, "create") /\ Refused(r, "creating")
  <2>1. Done(r, "create") /\ fate[r]["buy"] = "unsent"
    BY <1>1, <1>5 DEF Confirmed, Refused, Conclude, RunInv, Done
  <2> QED
    BY <1>1, <1>5, <2>1, ConcludeKeeps DEF Refused, Verdicts
<1>6. CASE /\ Confirmed(r, "buy")
           /\ Conclude(r, "buying", IF chain.tokens[r] = 0 THEN "empty" ELSE "proven")
  <2>1. chain.accepts /\ chain.tokens[r] > 0
    BY <1>1, <1>6 DEF Confirmed, RunInv, Done
  <2>2. Conclude(r, "buying", "empty") \/ Conclude(r, "buying", "proven")
    BY <1>6
  <2> QED
    BY <1>1, <2>1, <2>2, ConcludeKeeps DEF Verdicts
<1> QED
  BY <1>2, <1>3, <1>4, <1>5, <1>6 DEF Lite

LEMMA ProbeKeeps ==
  ASSUME SpikeInv, NEW r \in ProbeRuns, Probe(r)
  PROVE  SpikeInv'
<1>1. r \in Runs
  BY DEF Runs
<1>2. CASE Send(r, "create", "new", "creating")
  BY <1>1, <1>2, SendKeeps DEF Transactions
<1>3. CASE Confirmed(r, "create") /\ Send(r, "buy", "creating", "buying")
  BY <1>1, <1>3, SendKeeps DEF Confirmed, Done, Transactions
<1>4. CASE Plumbed(r)
  BY <1>4, PlumbedKeeps
<1> QED
  BY <1>2, <1>3, <1>4 DEF Probe

LEMMA StutterKeeps == SpikeInv /\ UNCHANGED spikeVars => SpikeInv'
BY DEF spikeVars, SpikeInv, SpikeTypeOK, RunInv, GaveUp, Done, FilesEarned

LEMMA InvHolds == SpikeSpec => []SpikeInv
<1>1. SpikeInv /\ [SpikeNext]_spikeVars => SpikeInv'
  <2> SUFFICES ASSUME SpikeInv, [SpikeNext]_spikeVars PROVE SpikeInv'
    OBVIOUS
  <2>1. CASE \E r \in FullRuns : Full(r)
    BY <2>1, FullKeeps
  <2>2. CASE \E r \in LiteRuns : Lite(r)
    BY <2>2, LiteKeeps
  <2>3. CASE \E r \in ProbeRuns : Probe(r)
    BY <2>3, ProbeKeeps
  <2>4. CASE \E r \in Runs : WriteJson(r) \/ WriteMd(r)
    BY <2>4, WriteKeeps
  <2>5. CASE \E r \in Runs, t \in Transactions : Land(r, t)
    BY <2>5, LandKeeps
  <2>6. CASE Stranger
    BY <2>6, StrangerKeeps
  <2>7. CASE UNCHANGED spikeVars
    BY <2>7, StutterKeeps
  <2> QED
    BY <2>1, <2>2, <2>3, <2>4, <2>5, <2>6, <2>7 DEF SpikeNext
<1> QED
  BY InitHolds, <1>1, PTL DEF SpikeSpec

-----------------------------------------------------------------------------
(* The theorems *)

(* No run of any script, overlapping with any others, moves lamports the    *)
(* funder or the buyer does not have.                                       *)
THEOREM SpikeTypeCorrect == SpikeSpec => []SpikeTypeOK
<1>1. SpikeInv => SpikeTypeOK
  BY DEF SpikeInv
<1> QED
  BY InvHolds, <1>1, PTL

(* The files never say proven of a run whose PDA did not buy, nor does a    *)
(* probe call the plumbing sound without tokens.                            *)
THEOREM ReportIsEarnedCorrect == SpikeSpec => []ReportIsEarned
<1>1. SpikeInv => ReportIsEarned
  BY DEF SpikeInv, FilesEarned, RunInv, ReportIsEarned, Runs
<1> QED
  BY InvHolds, <1>1, PTL

(* The split path of run.ts never buys what the first attempt bought.       *)
THEOREM OneBuyPerRunCorrect == SpikeSpec => []OneBuyPerRun
<1>1. SpikeInv => OneBuyPerRun
  <2> SUFFICES ASSUME SpikeInv, NEW r \in Runs PROVE chain.bought[r] <= 1
    BY DEF OneBuyPerRun
  <2>1. RunInv(r)
    BY DEF SpikeInv
  <2>2. ~(Done(r, "combined") /\ Done(r, "buy"))
    BY <2>1 DEF RunInv, Done
  <2> QED
    BY <2>1, <2>2 DEF RunInv
<1> QED
  BY InvHolds, <1>1, PTL

(* The split path reports a refusal after it made the mint and before it    *)
(* sent the buy: the combined transaction, if it lands after all, fails at  *)
(* the mint that exists, so that no buy ever contradicts the report.        *)
THEOREM RejectionIsFinalCorrect == SpikeSpec => []RejectionIsFinal
<1>1. SpikeInv => RejectionIsFinal
  <2> SUFFICES ASSUME SpikeInv PROVE RejectionIsFinal
    OBVIOUS
  <2>1. ASSUME NEW r \in Runs, GaveUp(r) PROVE chain.bought[r] = 0
    <3>1. RunInv(r)
      BY DEF SpikeInv
    <3>2. ~Done(r, "combined") /\ ~Done(r, "buy")
      BY <2>1, <3>1 DEF GaveUp, RunInv, Done
    <3> QED
      BY <3>1, <3>2 DEF RunInv
  <2> QED
    BY <2>1 DEF SpikeInv, FilesEarned, RunInv, RejectionIsFinal
<1> QED
  BY InvHolds, <1>1, PTL
=============================================================================
