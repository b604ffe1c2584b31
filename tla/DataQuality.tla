----------------------------- MODULE DataQuality -----------------------------
(***************************************************************************)
(* The data-quality rules of the batch platform in their two engines:      *)
(* scb_common/dq.py evaluates them over Python rows, spark/transforms/     *)
(* (dq_spark.py, expressions.py) over the columns of a Spark DataFrame     *)
(* after the casts to the Silver schema. Both are given one column: a      *)
(* table is a function from row numbers to texts.                          *)
(***************************************************************************)
EXTENDS Naturals, FiniteSets

CONSTANT Cap   \* 50 failing rows are remembered for each rule

ASSUME CapAssumption == Cap \in Nat

(* One text for each case the engines can tell apart in Bronze, where      *)
(* every column is a string:                                               *)
(*   "good"   the type of the column, and what its rules ask for           *)
(*   "bad"    the type of the column, refused by its range, set or pattern *)
(*   "loose"  matches the pattern in part; a date in another format        *)
(*   "junk"   not of the column's type                                     *)
Texts == {"null", "empty", "good", "bad", "loose", "junk"}
Dtypes == {"string", "int", "date"}

RuleTypes == {"not_null", "in_range", "allowed_values", "matches_regex",
              "valid_date", "foreign_key", "unique"}

(* threshold: the tolerated failures in percent of the rows.               *)
Rule == [type : RuleTypes, severity : {"error", "warn"}, threshold : 0 .. 100]
ErrorRules(rules) == {r \in rules : r.severity = "error"}

(* RuleResult.breached, from the number of failed rows of all rows.        *)
Breached(rule, fails, total) ==
    rule.severity = "error" /\ fails * 100 > rule.threshold * total

-----------------------------------------------------------------------------
(* dq.py.                                                                  *)

(* Rule.passes: the texts a row may have.                                  *)
Accepted == [not_null       |-> Texts \ {"null", "empty"},
             in_range       |-> {"null", "good", "loose"},
             valid_date     |-> {"null", "good", "bad"},
             allowed_values |-> {"null", "good"},
             matches_regex  |-> {"null", "good"},
             foreign_key    |-> {"null", "good"}]

(* evaluate(): Unique fails the second row of a value and those after it.  *)
FailingRows(rule, table) ==
    IF rule.type = "unique"
    THEN {i \in DOMAIN table : \E j \in DOMAIN table : j < i /\ table[j] = table[i]}
    ELSE {i \in DOMAIN table : table[i] \notin Accepted[rule.type]}

(* failing[:50]                                                            *)
RememberedOneLess(rows) == \* mutant: the last of them is lost
    {i \in rows : Cardinality({j \in rows : j <= i}) < Cap}
Remembered(rows) == {i \in rows : Cardinality({j \in rows : j <= i}) <= Cap}

(* DQReport.failing_indexes, split() and breaches.                         *)
FailingIndexes(rules, table) ==
    UNION {Remembered(FailingRows(r, table)) : r \in ErrorRules(rules)}
SplitClean(rules, table) == DOMAIN table \ FailingIndexes(rules, table)
Breaches(rules, table) ==
    {r \in rules : Breached(r, Cardinality(FailingRows(r, table)),
                            Cardinality(DOMAIN table))}

-----------------------------------------------------------------------------
(* The Spark engine.                                                       *)

(* cast_select_exprs: NULLIF(c, ''), then a cast that yields NULL for what *)
(* it cannot read.                                                         *)
Cast(text, dtype) ==
    IF \/ text = "empty"
       \/ text = "junk" /\ dtype # "string"
    THEN "null"
    ELSE text
CastTable(table, dtype) == [i \in DOMAIN table |-> Cast(table[i], dtype)]

(* rule_to_condition: the texts of a column it is true for, and the window *)
(* of Unique; for ForeignKey the job passes no keys. On a column that is no *)
(* string, the v <> '' of NotNull makes a condition NULL.                   *)
Matched == [not_null       |-> Texts \ {"null"},
            in_range       |-> {"null", "good", "loose"},
            valid_date     |-> Texts \ {"junk"},
            allowed_values |-> {"null", "good"},
            matches_regex  |-> {"null", "good", "loose"},
            foreign_key    |-> {"null"}]
Holds(rule, table, i) ==
    IF rule.type = "unique"
    THEN \A j \in DOMAIN table \ {i} : table[j] # table[i]
    ELSE table[i] \in Matched[rule.type]

Condition(rule, dtype, table, i) ==
    IF rule.type = "not_null" /\ dtype # "string" /\ table[i] # "null" THEN "null"
    ELSE IF Holds(rule, table, i) THEN "true" ELSE "false"

(* error_cols[0] of a rule set without an error rule.                      *)
GateRaises(rules) == ErrorRules(rules) = {}

(* evaluate_spark: filter(_dq_ok), filter(~_dq_ok), and the counts of      *)
(* filter(~pass); a NULL is in none of them.                               *)
CleanRows(rules, dtype, table) ==
    {i \in DOMAIN table :
       \A r \in ErrorRules(rules) : Condition(r, dtype, table, i) = "true"}
QuarantinedRows(rules, dtype, table) ==
    {i \in DOMAIN table :
       \E r \in ErrorRules(rules) : Condition(r, dtype, table, i) = "false"}
SparkBreaches(rules, dtype, table) ==
    {r \in rules :
       Breached(r,
         Cardinality({i \in DOMAIN table : Condition(r, dtype, table, i) = "false"}),
         Cardinality(DOMAIN table))}

-----------------------------------------------------------------------------
(* Where the two engines mean the same, and where they do not.             *)

(* The types whose Spark condition says what Rule.passes says of a column  *)
(* of that type. Not among them: a pattern (RLIKE finds it anywhere), a    *)
(* date format (to_date knows others), a foreign key (the job has no       *)
(* keys), uniqueness (Spark fails the first row of a value as well), and   *)
(* NotNull of a column that is no string (NULL).                           *)
Portable(rule, dtype) ==
    \/ rule.type \in {"in_range", "allowed_values"}
    \/ rule.type = "not_null" /\ dtype = "string"

(* The cast loses no distinction a rule makes: '' and junk become NULL,    *)
(* which every rule but NotNull lets pass.                                 *)
SurvivesCast(table, dtype) ==
    \A i \in DOMAIN table : Cast(table[i], dtype) = table[i]

(* Every condition is true or false.                                       *)
TwoValued(rules, dtype) ==
    dtype = "string" \/ \A r \in ErrorRules(rules) : r.type # "not_null"
=============================================================================
