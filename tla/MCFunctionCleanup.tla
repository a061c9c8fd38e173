-------------------------- MODULE MCFunctionCleanup --------------------------
(***************************************************************************)
(* FunctionCleanup for TLC: the classes of functions the runs distinguish, *)
(* each named for what it adds to functions made of braced blocks, loops,  *)
(* tries, break, continue, return, throw and forward goto.                 *)
(***************************************************************************)
EXTENDS FunctionCleanup

Structured      == {"goto"}
AnyUnwinding    == AllFeatures
UnwindIntoTry   == {"unwind_into_try"}
JumpOutOfTry    == {"jump_out_of_try"}
=============================================================================
