--------------------------- MODULE KafkaProducerMC ---------------------------
(* A small instance of the producer for TLC: a queue of two slots and two  *)
(* events to repeat, so that both run over.                                *)
EXTENDS KafkaProducer

CONSTANTS d1, d2
==============================================================================
