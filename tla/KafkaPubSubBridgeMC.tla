------------------------ MODULE KafkaPubSubBridgeMC ------------------------
(* Small instances of the bridge for TLC: two ordering keys that share a    *)
(* partition.                                                               *)
EXTENDS KafkaPubSubBridge

CONSTANTS p1, k1, k2

SharedPartition == [k \in {k1, k2} |-> p1]

ValidOnly == {"valid"}
OneOfEach == {"valid", "schema_validation_failed", "undecodable"}
============================================================================
