------------------------------ MODULE DailyDagMC ------------------------------
(* A small instance of the daily DAG for TLC: a file source, one Silver and  *)
(* one Gold entity, the second dependency of which no Silver task builds.    *)
EXTENDS DailyDag

CONSTANTS files, x, y, g

XFromFiles == [e \in Silver |-> files]
NeedsXAndY == [f \in Gold |-> {x, y}]
===============================================================================
