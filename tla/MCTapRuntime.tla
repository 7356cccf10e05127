----------------------------- MODULE MCTapRuntime -----------------------------
(* Two thread slots: were a second tap thread ever spawned, it would exist. *)
EXTENDS TapRuntime

TwoThreads == {"t1", "t2"}
==============================================================================
