---- MODULE MCProjectRegistry ----
(* Instances of ProjectRegistry for TLC. *)
EXTENDS ProjectRegistry

CONSTANTS a, b, c

\* a uses b, b uses c: a library under a library.
Layered == {<<a, b>>, <<b, c>>}

\* b uses c for its own tests only.
LibraryTests == {<<b, c>>}

OneWay == {<<a, b>>}
====
