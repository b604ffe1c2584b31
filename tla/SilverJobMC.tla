----------------------------- MODULE SilverJobMC -----------------------------
(* A small instance of the Silver job for TLC: entities whose rules meet    *)
(* each kind of row; the last has nothing but a warning.                    *)
EXTENDS SilverJob, TLC

CONSTANTS k1, k2

Strict(type)   == [type |-> type, severity |-> "error", threshold |-> 0]
Tolerant(type) == [type |-> type, severity |-> "error", threshold |-> 50]
Warning(type)  == [type |-> type, severity |-> "warn", threshold |-> 0]

SomeConfigs ==
    {[rules |-> {Strict("not_null"), Tolerant("in_range")}, dtype |-> "string",
      texts |-> {"good", "bad", "null"}],
     [rules |-> {Strict("allowed_values"), Warning("in_range")}, dtype |-> "int",
      texts |-> {"good", "bad", "junk"}],
     [rules |-> {Strict("not_null"), Warning("in_range")}, dtype |-> "int",
      texts |-> {"good", "bad", "empty"}],
     [rules |-> {Tolerant("unique"), Strict("matches_regex")}, dtype |-> "string",
      texts |-> {"good", "loose", "bad"}],
     [rules |-> {Strict("valid_date"), Tolerant("foreign_key")}, dtype |-> "date",
      texts |-> {"good", "junk", "null"}],
     [rules |-> {Warning("in_range")}, dtype |-> "int", texts |-> {"good"}]}

KeysAlike == Permutations(Keys)
==============================================================================
