----------------------------- MODULE MCBurnMath -----------------------------
(***************************************************************************)
(* The split of BurnMath over every input up to a bound.  A behaviour is    *)
(* one input; there are no steps but stuttering.                            *)
(***************************************************************************)
EXTENDS BurnMath

CONSTANT Bound    \* largest value of an argument

ASSUME BoundAssumption == Bound \in U64

VARIABLES
  total,    \* pool.total_contributed
  bought,   \* pool.tokens_bought
  vtok,     \* virtual token reserves
  vquote,   \* virtual quote reserves
  stake     \* one contribution

vars == <<total, bought, vtok, vquote, stake>>

Arguments == 0 .. Bound

Init ==
  /\ total \in Arguments /\ bought \in Arguments
  /\ vtok \in Arguments /\ vquote \in Arguments
  /\ stake \in Arguments
  /\ DistributableDefined(total, bought, vquote)
  /\ stake <= total

Next == UNCHANGED vars

Spec == Init /\ [][Next]_vars

-----------------------------------------------------------------------------
shared == Distributable(total, bought, vtok, vquote)
burned == Burned(total, bought, vtok, vquote)

(* math.rs, "dust favors burn": the contributors never share more than the  *)
(* market price gives them for their lamports, nor more than was bought,    *)
(* truncated worth included; short of that cap they share all of the worth  *)
(* but a fraction of one unit, where the worth fits a u64.                  *)
DustFavorsBurn ==
  /\ shared * vquote <= total * vtok
  /\ shared + burned = bought
  /\ MarketWorth(total, vtok, vquote) \in U64 /\ burned > 0 =>
       (shared + 1) * vquote > total * vtok

(* One contribution split in two accounts is never worth more than one      *)
(* account with both, and loses at most one unit by it.                     *)
SplittingNeverGains ==
  \A part \in 0 .. stake :
    LET apart == Allocation(shared, part, total)
                   + Allocation(shared, stake - part, total)
    IN  /\ apart <= Allocation(shared, stake, total)
        /\ Allocation(shared, stake, total) <= apart + 1

(* The only contributor, or all of them together, is worth the whole share. *)
WholeStakeIsWholeShare == Allocation(shared, total, total) = shared

(* Where burn.ts and math.rs part: nowhere while the worth of the raise     *)
(* fits a u64, and beyond it the program shares less than the mirror says,  *)
(* never more; what a stake is worth of a share they always agree on.       *)
MirrorErrsOneWay ==
  /\ MarketWorth(total, vtok, vquote) \in U64 =>
       TsDistributable(total, bought, vtok, vquote) = shared
  /\ shared <= TsDistributable(total, bought, vtok, vquote)
  /\ TsAllocation(shared, stake, total) = Allocation(shared, stake, total)

(* burn.ts, "mirrors programs/batchit/src/math.rs": both compute the same   *)
(* split.                                                                   *)
TsMirrorsRust ==
  /\ TsDistributable(total, bought, vtok, vquote) = shared
  /\ TsAllocation(shared, stake, total) = Allocation(shared, stake, total)
=============================================================================
