------------------------------ MODULE PooledSale ------------------------------
(***************************************************************************)
(* What a pool promises, with no clock, no terms, no accounts and no Pump:  *)
(* people put money together, one sale turns all of it into goods, part of  *)
(* the goods is shared, and each person is handed the part the stake is     *)
(* worth, once.  Before the sale everyone can be given back what they put   *)
(* in, and the first to get it back ends the sale for all.                  *)
(***************************************************************************)
EXTENDS Sums

CONSTANTS
  N,      \* people are 1..N
  Funds   \* money each of them comes with

People == 1 .. N

VARIABLES
  phase,    \* "absent", "raising", "returning", "sold" or "paying"
  purse,    \* purse[p]: money p has
  stake,    \* stake[p]: money of p in the pool
  held,     \* money the pool has
  bought,   \* goods the sale brought
  shared,   \* how many of them the people share
  served,   \* who was handed a part
  goods     \* goods[p]: goods p has

saleVars == <<phase, purse, stake, held, bought, shared, served, goods>>

Total == SumTo(stake, N)

SaleInit ==
  /\ phase = "absent"
  /\ purse = [p \in People |-> Funds]
  /\ stake = [p \in People |-> 0]
  /\ held = 0 /\ bought = 0 /\ shared = 0
  /\ served = {}
  /\ goods = [p \in People |-> 0]

Announced ==
  /\ phase = "absent" /\ phase' = "raising"
  /\ UNCHANGED <<purse, stake, held, bought, shared, served, goods>>

\* Only money the person has goes in, and it stays the person's stake.
Deposited(p, amount) ==
  /\ phase = "raising"
  /\ purse' = [purse EXCEPT ![p] = @ - amount]
  /\ stake' = [stake EXCEPT ![p] = @ + amount]
  /\ held' = held + amount
  /\ UNCHANGED <<phase, bought, shared, served, goods>>

Abandoned ==
  /\ phase = "raising" /\ phase' = "returning"
  /\ UNCHANGED <<purse, stake, held, bought, shared, served, goods>>

\* All of the stake goes back, and nobody's stake can be sold any more.
Withdrawn(p) ==
  /\ phase \in {"raising", "returning"}
  /\ stake[p] > 0
  /\ phase' = "returning"
  /\ purse' = [purse EXCEPT ![p] = @ + stake[p]]
  /\ stake' = [stake EXCEPT ![p] = 0]
  /\ held' = held - stake[p]
  /\ UNCHANGED <<bought, shared, served, goods>>

\* The pool goes when it holds nothing of anybody.
Retired ==
  /\ phase = "returning" /\ held = 0 /\ \A p \in People : stake[p] = 0
  /\ phase' = "absent"
  /\ UNCHANGED <<purse, stake, held, bought, shared, served, goods>>

\* Everything is spent at once, on some goods.
Sold ==
  /\ phase = "raising" /\ held > 0
  /\ phase' = "sold"
  /\ held' = 0
  /\ bought' \in Nat \ {0}
  /\ UNCHANGED <<purse, stake, shared, served, goods>>

Priced ==
  /\ phase = "sold" /\ phase' = "paying"
  /\ shared' \in 0 .. bought
  /\ UNCHANGED <<purse, stake, held, bought, served, goods>>

\* The part depends on the stakes alone, not on who came before.
Served(p) ==
  /\ phase = "paying" /\ p \notin served
  /\ served' = served \cup {p}
  /\ goods' = [goods EXCEPT ![p] = @ + (shared * stake[p]) \div Total]
  /\ UNCHANGED <<phase, purse, stake, held, bought, shared>>

SaleNext ==
  \/ Announced \/ Abandoned \/ Retired \/ Sold \/ Priced
  \/ \E p \in People : \E amount \in 1 .. purse[p] : Deposited(p, amount)
  \/ \E p \in People : Withdrawn(p) \/ Served(p)

SaleSpec == SaleInit /\ [][SaleNext]_saleVars

-----------------------------------------------------------------------------
\* A stake is spent with all the others, or comes back whole.
SpentOrBack(p) ==
  stake[p] > 0 ~> (phase \in {"sold", "paying"} \/ purse[p] = Funds)

\* A stake that was spent brings, some time after, the part it is worth.
WorthServed(p) ==
  (phase = "sold" /\ stake[p] > 0) ~>
    (phase = "paying" /\ goods[p] = (shared * stake[p]) \div Total)

(* Nobody's stake is stuck.                                                 *)
NothingStuck == \A p \in People : SpentOrBack(p) /\ WorthServed(p)
=============================================================================
