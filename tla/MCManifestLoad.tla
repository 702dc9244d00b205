---- MODULE MCManifestLoad ----
(* Instance of ManifestLoad and ManifestPaths for TLC. *)
EXTENDS ManifestPaths

CONSTANTS a, b, c

\* Every package may name every package, itself included.
Anything == Pkg \X Pkg
====
