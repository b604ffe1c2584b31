--------------------------- MODULE KafkaConsumerMC ---------------------------
(* A small instance of the consumer group for TLC: two members that take    *)
(* one partition from each other, and a record of every kind.               *)
EXTENDS KafkaConsumer

CONSTANTS p1, c1, c2

OneOfEach == {"valid", "invalid_json", "undecodable"}
============================================================================
