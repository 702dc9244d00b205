---- MODULE MCSourceLocations ----
(* Instance of SourceLocations for TLC: every text up to four bytes. *)
EXTENDS SourceLocations

ShortTexts == UNION {[1..n -> {"c", NL}] : n \in 0..4}
====
