---- MODULE MCEditorSync ----
(* Instances of EditorSync and Completion for TLC; a tick is 200 ms. *)
EXTENDS Completion

CONSTANTS d1, d2

\* Two documents as they are typed: d1 through a member of a module and of a
\* standard address, d2, which has fewer lines, through a field.
MCText ==
  d1 :> [n \in 0..3 |->
           <<<<"fun", " ", "seek">>,
             CASE n = 0 -> <<"x">>
               [] n = 1 -> <<"f", "(", "coin", ":", ":">>
               [] n = 2 -> <<"f", "(", "std", ":", ":", "coin", ":", ":", "see">>
               [] n = 3 -> <<"let", " ", "x", "=", "std", ":", ":">>>>] @@
  d2 :> [n \in 0..3 |->
           <<CASE n = 0 -> <<"x">>
               [] n = 1 -> <<"x", ":">>
               [] n = 2 -> <<"let", " ", "coin", ".">>
               [] n = 3 -> <<"let", " ", "x", "=", "see">>>>]
MCWord == {"fun", "let", "x", "f", "coin", "pool", "std", "see", "seek", "seed", "pay"}
MCHolds == {<<w, w>> : w \in MCWord \cup {"::", "."}} \cup {<<"seek", "see">>, <<"seed", "see">>}
MCMember == "coin" :> {"seed", "pay"} @@ "pool" :> {"seek", "f"}
MCField == "coin" :> {"see"} @@ "pool" :> {"x"}
MCModuleOf == d1 :> "pool" @@ d2 :> "coin"
MCUsed == "pool" :> {"coin"} @@ "coin" :> {}
====
