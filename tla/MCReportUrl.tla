----------------------------- MODULE MCReportUrl -----------------------------
(* ReportUrl with texts whose characters all encode to the same length.    *)
EXTENDS ReportUrl

Uniform(n, width) == [length |-> n, size |-> [k \in 0..n |-> k * width]]

(* Short texts, of cheap and of dear characters.                           *)
MCTexts == {Uniform(n, width) : n \in 0..6, width \in {1, 3}}

=============================================================================
