------------------------------ MODULE MCEscrow ------------------------------
(***************************************************************************)
(* Small instances of Escrow for TLC.                                       *)
(***************************************************************************)
EXTENDS Resume, EscrowSale

CONSTANT m1, m2   \* mints

\* A curve before and after its price rose.
Cheap == [token |-> 3, quote |-> 1]
Dear  == [token |-> 3, quote |-> 2]
Zero  == [token |-> 0, quote |-> 0]

OneMint == {m1}
TwoMints == {m1, m2}
OnePrice == {Cheap}
Prices == {Cheap, Dear}
OtherBytes == {Zero, [token |-> 7, quote |-> 1]}
=============================================================================
