------------------------------- MODULE MCSpike -------------------------------
(***************************************************************************)
(* Small instances of Spike for TLC.                                        *)
(***************************************************************************)
EXTENDS Spike

CONSTANTS f1, l1, p1   \* runs of run.ts, run-lite-a.ts, run-fee-probe.ts

OneFull == {f1}
OneLite == {l1}
OneProbe == {p1}
=============================================================================
