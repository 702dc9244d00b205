---- MODULE MCFormatOnSave ----
(* Instances of FormatOnSave and SpecRequests for TLC. *)
EXTENDS SpecRequests
====
