---------------------- MODULE MCSnapshotReconciliation ----------------------
(* Small instances of SnapshotReconciliation: a standalone pod and a        *)
(* stateful set, whose kind snapshotComplete does not ask about.            *)
EXTENDS SnapshotReconciliation

CONSTANTS pod, db, pods, deployments, statefulsets

MCKindOf == [r \in Resources |-> IF r = pod THEN pods ELSE statefulsets]
=============================================================================
