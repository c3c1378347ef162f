-------------------------- MODULE MCRemediationEngine --------------------------
(* An instance of RemediationEngine for TLC: one Pod with two containers,   *)
(* two actions of one incident for each, and an operation on the Pod.  All  *)
(* time-outs pass with one tick, so that time adds as few states as         *)
(* possible.                                                                *)
EXTENDS RemediationEngine, TLC

CONSTANTS a1, a2, b1, b2, o1, i1, op, t1, c1, c2

MCActions == {a1, a2, b1, b2, o1}
MCIncidents == {i1, op}
MCOperations == {op}
MCIncidentOf == [a \in Actions |-> IF a = o1 THEN op ELSE i1]
MCTargetOf == [a \in Actions |-> t1]
MCContainerOf == [a \in Actions |-> CASE a \in {a1, a2} -> c1 [] a \in {b1, b2} -> c2 [] OTHER -> NoContainer]
MCReversible == {a1, a2, b1, b2}

\* Containers are only compared, so a permutation may also exchange them.
Alike ==
  {p \in Permutations({a1, a2, b1, b2}) :
     \A a, b \in DOMAIN p : ContainerOf[a] = ContainerOf[b] <=> ContainerOf[p[a]] = ContainerOf[p[b]]}
=============================================================================
