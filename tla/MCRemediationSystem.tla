------------------------- MODULE MCRemediationSystem -------------------------
(* Small instances of RemediationSystem.                                     *)
EXTENDS RemediationSystem, TLC

CONSTANTS a1, a2, d1, d2

Interchangeable == Permutations(Drains)

\* All but the history variable that only NoReportLost reads.
Distinguished == <<rec, agent, pending, batch, kept, draining, history>>
=============================================================================
