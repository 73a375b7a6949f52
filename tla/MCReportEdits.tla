--------------------------- MODULE MCReportEdits ---------------------------
(* ReportEdits on small instances *)
EXTENDS ReportEdits, TLC

\* "a" and "A" are one destination in two spellings.
Lower(d) == IF d = "A" THEN "a" ELSE d

Symmetry == Permutations(Requests) \cup Permutations(Values)

=============================================================================
