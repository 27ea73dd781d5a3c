------------------------------ MODULE EscrowSale ------------------------------
(***************************************************************************)
(* The escrow program read as a PooledSale: the promise is kept by every    *)
(* execution of the program, alone (Escrow) or beside the executor and the  *)
(* block engine (Launch).                                                   *)
(***************************************************************************)
EXTENDS EscrowProperties

Phase ==
  CASE pool.status = "None" -> "absent"
    [] pool.status \in {"Open", "Launching"} -> "raising"
    [] pool.status \in {"Refundable", "Closed"} -> "returning"
    [] pool.status = "Bought" -> "sold"
    [] OTHER -> "paying"

Claimants == {c \in Contributors : contribution[c].claimed}

Sale == INSTANCE PooledSale WITH
  phase <- Phase, purse <- wallet, stake <- Amount, held <- escrow - GiftsHeld,
  bought <- pool.tokensBought, shared <- pool.distributable,
  served <- Claimants, goods <- tokens

(* The handlers of programs/batchit, called by anyone in any order, keep    *)
(* the promise of a pooled sale: money moves only between a contributor's   *)
(* wallet and stake until the one buy takes all of it, the first refund     *)
(* ends the sale for all, nothing goes to anyone else when the account is   *)
(* closed, and every claim is paid once, by the stakes alone.               *)
ImplementsSale == Sale!SaleSpec

(* The program, with a clock that goes on and people who insist on what     *)
(* they are due, leaves nothing stuck: no call of the creator, the          *)
(* orchestrator or Pump is needed for it.                                   *)
NothingStuckInSale == Sale!NothingStuck
=============================================================================
