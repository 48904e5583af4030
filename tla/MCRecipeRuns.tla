---------------------------- MODULE MCRecipeRuns ----------------------------
(* Matches of one or two machines, in either order, for RecipeRuns. *)
EXTENDS RecipeRuns

CONSTANTS m1, m2

BothMachines == {m1, m2}
OneOrTwo == {<<m1>>, <<m1, m2>>, <<m2, m1>>}
=============================================================================
