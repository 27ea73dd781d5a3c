------------------------------ MODULE BurnMath ------------------------------
(***************************************************************************)
(* The split of the bought tokens: how many of them the contributors share, *)
(* how many are burned, and what one contribution is worth of the share.    *)
(*                                                                         *)
(* programs/batchit/src/math.rs computes in u128 and converts the result to *)
(* u64 with `as`, which keeps the low 64 bits; packages/core/src/burn.ts    *)
(* says the same thing with bigint, which has no width.                     *)
(***************************************************************************)
EXTENDS Integers

CONSTANT Word    \* the number of values of a u64: 2^64 in the program

ASSUME WordAssumption == Word \in Nat \ {0}

U64 == 0 .. (Word - 1)

\* Rust's `n as u64` of a u128.
AsU64(n) == n % Word

-----------------------------------------------------------------------------
(* math.rs *)

\* What `total` lamports buy at the price of the reserves.
MarketWorth(total, vtok, vquote) == (total * vtok) \div vquote

\* The require!s of compute_distributable.
DistributableDefined(total, bought, vquote) ==
  bought > 0 /\ vquote > 0 /\ total > 0

\* A mutant of Distributable: the worth rounded up.
GenerousDistributable(total, bought, vtok, vquote) ==
  LET worth == AsU64((total * vtok + vquote - 1) \div vquote)
  IN  IF worth > bought THEN bought ELSE worth

Distributable(total, bought, vtok, vquote) ==
  LET worth == AsU64(MarketWorth(total, vtok, vquote))
  IN  IF worth > bought THEN bought ELSE worth

Burned(total, bought, vtok, vquote) ==
  bought - Distributable(total, bought, vtok, vquote)

\* Mutants of Allocation: dust in favour of the claim; dividing first.
RoundedUp(distributable, contribution, total) ==
  (distributable * contribution + total - 1) \div total

QuotientFirst(distributable, contribution, total) ==
  (distributable \div total) * contribution

\* Called with total > 0 only: the require! of allocation.
Allocation(distributable, contribution, total) ==
  IF contribution = 0 \/ distributable = 0
  THEN 0
  ELSE AsU64((distributable * contribution) \div total)

-----------------------------------------------------------------------------
(* burn.ts *)

TsDistributable(total, bought, vtok, vquote) ==
  LET worth == MarketWorth(total, vtok, vquote)
  IN  IF worth > bought THEN bought ELSE worth

TsAllocation(distributable, contribution, total) ==
  IF contribution = 0 \/ distributable = 0
  THEN 0
  ELSE (distributable * contribution) \div total
=============================================================================
