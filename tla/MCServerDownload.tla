---- MODULE MCServerDownload ----
(* Instances of ServerDownload for TLC. *)
EXTENDS ServerDownload
====
