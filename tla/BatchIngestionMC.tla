-------------------------- MODULE BatchIngestionMC --------------------------
(* Small instances of the ingestion of one source for TLC: contents c1 (a   *)
(* lower watermark value), c2 (a higher one), an unreadable one and one     *)
(* with no rows; an entity with a file per date, or two as the sheets of a   *)
(* workbook per date.                                                       *)
EXTENDS BatchIngestion

CONSTANTS e1, e2, d1, d2, f1, f2, c1, c2, bad, nil, b1, b2, b3, b4, b5, b6, b7, b8

OneEntity == <<e1>>
TwoEntities == <<e1, e2>>

ContentQuality ==
    [c \in Contents |-> CASE c = bad -> "corrupt" [] c = nil -> "empty" [] OTHER -> "rows"]
ContentHigh ==
    [c \in Contents |-> CASE c = c1 -> 1 [] c = c2 -> 2 [] OTHER -> 0]

(* One file per date: <base>/<ds>/<entity>.csv of the one entity, or        *)
(* <base>/<ds>/<workbook> with a sheet for every entity.                    *)
FilePerDate == [w \in Entities \X Dates |-> IF w[2] = d1 THEN <<f1>> ELSE <<f2>>]

AnyFile == Paths \X Contents
(* The second file has no rows, or those the first may have brought.        *)
NewOrRedelivered == ({f1} \X {c1, c2, bad}) \cup ({f2} \X {c1, nil})
============================================================================
