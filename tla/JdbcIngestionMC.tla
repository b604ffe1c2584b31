-------------------------- MODULE JdbcIngestionMC --------------------------
(* A small instance of the incremental JDBC extraction for TLC: two tables, *)
(* two processes on the same or on different ones, either store.            *)
EXTENDS JdbcIngestion

CONSTANTS t1, t2, r1, r2, i1, i2
============================================================================
