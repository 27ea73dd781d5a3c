-------------------------------- MODULE Launch --------------------------------
(***************************************************************************)
(* The launch executor (apps/orchestrator/src/launch.ts) beside the escrow  *)
(* program it serves.  Every run of it is a process: it reads the state     *)
(* file of the pool, may hand one bundle to the Jito block engine, writes   *)
(* the file, and may end at any point, by a crash or by an error that       *)
(* nothing catches.  Nothing stops an operator from starting a run while    *)
(* another one is still waiting for its answer.                             *)
(*                                                                         *)
(* Everyone else goes on using the escrow program and Pump: begin_launch    *)
(* binds any mint, so the pool's curve may be created by whoever holds the  *)
(* mint's key, in a bundle or without one.                                  *)
(***************************************************************************)
EXTENDS Resume

CONSTANTS
  Runs,        \* the times the operator starts the executor
  NoBundle,    \* lastBundleId not set
  NoRecord,    \* no state file was ever written
  Torn         \* a state file JSON.parse rejects

ASSUME RunsAssumption == NoBundle \notin Runs

Modes == {"jito", "sequential_debug"}

\* The LaunchState the executor keeps; a bundle is named after its run.
Record == [stage : Stages, mode : Modes, bundleId : Runs \cup {NoBundle},
           error : BOOLEAN]

ASSUME FileAssumption == {NoRecord, Torn} \cap Record = {} /\ NoRecord # Torn

VARIABLES
  pc,       \* pc[r]: the step run r is at
  state,    \* state[r]: `state` of run r
  file,     \* the state file of the pool
  bundle,   \* bundle[r]: what became of the bundle of run r
  kind,     \* kind[r]: what the bundle of run r contains
  late      \* runs that started when the chain implied that nothing is to be
            \* sent; no step reads it, ResumeReadsChainFirst does

executor == <<pc, state, file, bundle, kind, late>>
launchVars == <<vars, executor>>

Steps == {"new", "loaded", "open", "write", "post", "await", "ended"}
Taken == {"queued", "dropped", "partial", "landed"}
Fates == Taken \cup {"unsent", "refused"}

\* Bundles the engine took.
Accepted == {r \in Runs : bundle[r] \in Taken}

\* What the operator's file may hold, which nothing checks: the two bundles
\* worth sending for a launching pool, a creation without the buy, or
\* transactions that are none of these.
Contents == BundleKinds \cup {"create_only", "other"}

Idle(mode) ==
  [stage |-> "idle", mode |-> mode, bundleId |-> NoBundle, error |-> FALSE]

LaunchInit ==
  /\ Init
  /\ pc = [r \in Runs |-> "new"]
  /\ state = [r \in Runs |-> Idle("jito")]
  /\ file = NoRecord
  /\ bundle = [r \in Runs |-> "unsent"]
  /\ kind = [r \in Runs |-> "other"]
  /\ late = {}

Goto(r, step) == pc' = [pc EXCEPT ![r] = step]

-----------------------------------------------------------------------------
(* Slips: the mutants the properties are checked against *)

PostFirst(r, k) ==
  /\ pc[r] = "loaded"
  /\ state[r].mode = "jito"
  /\ kind' = [kind EXCEPT ![r] = k]
  /\ Goto(r, "post")
  /\ UNCHANGED <<vars, state, file, bundle, late>>

ConfirmedAnyway(r, ok) ==
  [state[r] EXCEPT !.stage = "confirming", !.bundleId = r, !.error = ~ok]

-----------------------------------------------------------------------------
(* A run *)

\* The stages of a pool that has bought or whose grace period is over.
NothingToSend == {"bought", "finalized", "refund_window"}

LoadedState(mode) ==
  IF file = NoRecord THEN Idle(mode) ELSE [file EXCEPT !.mode = mode]

Load(r, mode) ==
  /\ pc[r] = "new"
  /\ file # Torn
  /\ state' = [state EXCEPT ![r] = LoadedState(mode)]
  /\ late' = IF NextStageFromChain \in NothingToSend THEN late \cup {r} ELSE late
  /\ Goto(r, "loaded")
  /\ UNCHANGED <<vars, file, bundle, kind>>

\* JSON.parse throws.
LoadTorn(r) ==
  /\ pc[r] = "new"
  /\ file = Torn
  /\ Goto(r, "ended")
  /\ UNCHANGED <<vars, state, file, bundle, kind, late>>

\* BATCHIT_BUNDLE_TXS is not set: say what to do, save and return.
Announce(r) ==
  /\ pc[r] = "loaded"
  /\ state' = [state EXCEPT ![r].stage = "building_bundle"]
  /\ Goto(r, "open")
  /\ UNCHANGED <<vars, file, bundle, kind, late>>

\* The operator's transactions are read and the tip is signed.
Prepare(r, k) ==
  /\ pc[r] = "loaded"
  /\ state[r].mode = "jito"
  /\ kind' = [kind EXCEPT ![r] = k]
  /\ state' = [state EXCEPT ![r].stage = "bundle_submitted"]
  /\ Goto(r, "open")
  /\ UNCHANGED <<vars, file, bundle, late>>

\* The sequential path was never written.
Sequential(r) ==
  /\ pc[r] = "loaded"
  /\ state[r].mode = "sequential_debug"
  /\ Goto(r, "ended")
  /\ UNCHANGED <<vars, state, file, bundle, kind, late>>

\* writeFileSync opens the file with O_TRUNC and writes afterwards; a record
\* written over one that came in between may leave the longer one's tail.
Truncate(r) ==
  /\ pc[r] = "open"
  /\ file' = Torn
  /\ Goto(r, "write")
  /\ UNCHANGED <<vars, state, bundle, kind, late>>

Write(r) ==
  /\ pc[r] = "write"
  /\ \/ file' = state[r]
     \/ file # Torn /\ file' = Torn
  /\ Goto(r, IF state[r].stage = "bundle_submitted" THEN "post" ELSE "ended")
  /\ UNCHANGED <<vars, state, bundle, kind, late>>

\* The request leaves; the engine takes the bundle, or does not, or is never
\* reached.
Post(r) ==
  /\ pc[r] = "post"
  /\ \E fate \in {"queued", "refused"} : bundle' = [bundle EXCEPT ![r] = fate]
  /\ Goto(r, "await")
  /\ UNCHANGED <<vars, state, file, kind, late>>

\* What the run keeps of the answer.
AfterAnswer(r, ok) ==
  IF ok THEN [state[r] EXCEPT !.stage = "confirming", !.bundleId = r]
        ELSE [state[r] EXCEPT !.stage = "failed", !.error = TRUE]

\* A bundle id comes back only for a bundle that was taken; an answer that is
\* lost on its way is an error like a refusal.
Answer(r, ok) ==
  /\ pc[r] = "await"
  /\ ok => r \in Accepted
  /\ state' = [state EXCEPT ![r] = AfterAnswer(r, ok)]
  /\ Goto(r, "open")
  /\ UNCHANGED <<vars, file, bundle, kind, late>>

\* A crash, or an error main().catch turns into an exit.
Crash(r) ==
  /\ pc[r] \notin {"new", "ended"}
  /\ Goto(r, "ended")
  /\ UNCHANGED <<vars, state, file, bundle, kind, late>>

Run(r) ==
  \/ \E mode \in Modes : Load(r, mode)
  \/ LoadTorn(r)
  \/ Announce(r)
  \/ \E k \in Contents : Prepare(r, k)
  \/ Sequential(r)
  \/ Truncate(r)
  \/ Write(r)
  \/ Post(r)
  \/ \E ok \in BOOLEAN : Answer(r, ok)
  \/ Crash(r)

-----------------------------------------------------------------------------
(* The block engine and everyone else *)

CreateAndBuy ==
  /\ ~CurveExists
  /\ \E got \in TokensOut, left \in Unspent, after \in Reserves :
       Spend(got, left, after)

\* The transactions of a bundle run together, in order.  Those that create no
\* curve and buy nothing may be instructions of the program all the same.
Contained(content) ==
  \/ content = "create_and_buy" /\ CreateAndBuy
  \/ content = "buy_only" /\ CompleteBuy
  \/ content = "create_only" /\ \E m \in Mints : PumpCreate(m)
  \/ content = "other" /\ (Instruction \/ UNCHANGED vars)

Land(r) ==
  /\ bundle[r] = "queued"
  /\ Contained(kind[r])
  /\ bundle' = [bundle EXCEPT ![r] = "landed"]
  /\ UNCHANGED <<pc, state, file, kind, late>>

\* The creation lands and the buy does not: the landing the executor's text
\* tells the operator to recover from.
LandPartly(r) ==
  /\ bundle[r] = "queued"
  /\ kind[r] = "create_and_buy"
  /\ \E m \in Mints : PumpCreate(m)
  /\ bundle' = [bundle EXCEPT ![r] = "partial"]
  /\ UNCHANGED <<pc, state, file, kind, late>>

\* A transaction failed, no leader took it, or its blockhash expired.
Drop(r) ==
  /\ bundle[r] = "queued"
  /\ bundle' = [bundle EXCEPT ![r] = "dropped"]
  /\ UNCHANGED <<vars, pc, state, file, kind, late>>

Others == Next /\ UNCHANGED executor

LaunchNext ==
  \/ \E r \in Runs : Run(r)
  \/ \E r \in Runs : Land(r) \/ LandPartly(r) \/ Drop(r)
  \/ Others

LaunchSpec == LaunchInit /\ [][LaunchNext]_launchVars

\* The clock never stops, and whoever wants a refund, a claim or the pool
\* finalized keeps sending the transaction: nobody else's signature is needed.
\* Nothing is asked of the operator, the executor or the engine.
TimePasses == WF_launchVars(Tick /\ UNCHANGED executor)
FinalizeFair == WF_launchVars(Finalize /\ UNCHANGED executor)
RefundFair(c) == WF_launchVars(Refund(c) /\ UNCHANGED executor)
ClaimFair(c) == WF_launchVars(Claim(c) /\ UNCHANGED executor)

LaunchFairness ==
  /\ TimePasses
  /\ FinalizeFair
  /\ \A c \in Contributors : RefundFair(c)
  /\ \A c \in Contributors : ClaimFair(c)

FairLaunchSpec == LaunchSpec /\ LaunchFairness

-----------------------------------------------------------------------------
(* A bundle that brought the buy and landed whole settles the launch: from  *)
(* then on the chain tells every run that reads it "bought" or "finalized", *)
(* whatever answer got lost, whichever run wrote the file last, and whoever *)
(* tries to close the pool and start over.                                  *)
LandedBuyIsFinal ==
  \A r \in Runs :
    bundle[r] = "landed" /\ kind[r] \in BundleKinds =>
      NextStageFromChain \in {"bought", "finalized"}

(* Once a bundle may have reached the engine, every later run finds a file. *)
SubmittedIsRecorded ==
  (\E r \in Runs : bundle[r] # "unsent") => file # NoRecord

(* A saved "confirming" names a bundle the engine took, and a saved         *)
(* "failed" an error, whichever run wrote the file last.                    *)
RecordTellsAnswer ==
  file \in Record =>
    /\ file.stage = "confirming" => file.bundleId \in Accepted
    /\ file.stage = "failed" => file.error

(* A bundle still in flight when the refunds open cannot spend the pool any *)
(* more, and a pool spent while its bundle was waited for cannot refund.    *)
RefundWindowIsFinal ==
  [][/\ RefundAllowed => pool'.status \notin Sold
     /\ pool.status \in Sold => pool'.status \in Sold]_launchVars

-----------------------------------------------------------------------------
(* Statements of the repository that the code does not keep *)

(* launch.ts and docs/plans/phase-1-escrow.md: the stages are crash-safe: a *)
(* file that was written once can be read when no run is writing it.        *)
StateFileReadable ==
  (\A r \in Runs : pc[r] # "write") => file # Torn

(* state-machine.ts and docs/plans/phase-1-escrow.md: a resumed run reads   *)
(* the chain first, and sends nothing for a pool that has bought or whose   *)
(* grace period is over.                                                    *)
ResumeReadsChainFirst ==
  \A r \in late : bundle[r] = "unsent"
=============================================================================
