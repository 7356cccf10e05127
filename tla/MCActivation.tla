----------------------------- MODULE MCActivation -----------------------------
(* Small populations of processes. *)
EXTENDS Activation

Nobody == {}
Primary == {"g1"}
OneLaunch == {"g1"}
TwoLaunches == {"g1", "g2"}
OneReloader == {"c1"}
TwoReloaders == {"c1", "c2"}
OneOpener == {"o1"}
==============================================================================
