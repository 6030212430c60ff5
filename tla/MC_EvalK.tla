------------------------------ MODULE MC_EvalK ------------------------------
(* Instance of EvalK for TLC: the constant values the .cfg files name.    *)
EXTENDS EvalK, TLC

MC_ArgLongs == {Long(1)}
MC_Globals  == {"symbols", "globals"}
MC_Locals   == {"x"}
MC_AllOps   == {"cons", "string", "symbol", "array", "set", "env", "variable", "intern"}
(* Objects are interchangeable: nothing in the code tells two chunks apart *)
(* but their contents.                                                     *)
ObjSymmetry == Permutations(Objs)
==============================================================================
