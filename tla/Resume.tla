-------------------------------- MODULE Resume --------------------------------
(***************************************************************************)
(* What the orchestrator concludes from the chain when it resumes: the      *)
(* stage of the launch and the bundle that is still worth sending           *)
(* (apps/orchestrator/src/state-machine.ts).  They repeat, in TypeScript    *)
(* and from outside, guards the escrow program applies.                     *)
(***************************************************************************)
EXTENDS EscrowProperties

Stages == {"idle", "waiting_launch_at", "begin_launch_sent", "building_bundle",
           "bundle_submitted", "confirming", "bought", "finalized", "failed",
           "refund_window"}

BundleKinds == {"create_and_buy", "buy_only"}

\* Slip: the second the grace period ends still counted in.
GraceOverNextSecond == now > pool.graceEndsAt

GraceOver == now >= pool.graceEndsAt

NextStageFromChain ==
  CASE pool.status = "Finalized" -> "finalized"
    [] pool.status = "Bought" -> "bought"
    [] pool.status = "Refundable" -> "refund_window"
    [] pool.status \in {"Launching", "Open"} /\ GraceOver -> "refund_window"
    [] pool.status = "Launching" /\ ~GraceOver -> "building_bundle"
    [] pool.status = "Open" /\ ~GraceOver -> "waiting_launch_at"
    [] OTHER -> "idle"

BundleKind ==
  IF pool.status # "Launching" THEN "none"
  ELSE IF CurveExists THEN "buy_only" ELSE "create_and_buy"

-----------------------------------------------------------------------------
(* The conclusions are the program's own, up to the second the grace period *)
(* ends: refunds are open exactly in the refund window, the pool's lamports *)
(* can be spent exactly while bundles are built, with the curve there       *)
(* exactly when the bundle leaves it out, and a bought pool can be          *)
(* finalized.                                                               *)
StageAgreesWithChain ==
  /\ NextStageFromChain = "refund_window" <=> RefundAllowed
  /\ NextStageFromChain = "building_bundle" <=> SpendAllowed
  /\ NextStageFromChain = "bought" <=> FinalizeAllowed
  /\ BundleKind = "buy_only" /\ ~GraceOver <=> SpendAllowed /\ CurveExists
=============================================================================
