------------------------- MODULE MCTaskFunctionOps --------------------------
(* An instance of TaskFunctionOps for TLC.                                 *)
EXTENDS TaskFunctionOps, TLC

FunctionNames == {"a", "f"}
=============================================================================
