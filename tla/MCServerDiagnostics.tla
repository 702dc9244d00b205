---- MODULE MCServerDiagnostics ----
(* Instance of ServerDiagnostics for TLC. *)
EXTENDS ServerDiagnostics, TLC

CONSTANTS a, c, fa, ga, fc

\* fa and ga lie in a, fc in a package that neither uses a nor is used by it.
Apart == (fa :> a) @@ (ga :> a) @@ (fc :> c)
OnlyItself == [p \in Pkg |-> {p}]
====
