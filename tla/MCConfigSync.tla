----------------------------- MODULE MCConfigSync -----------------------------
(* Values for the constants of ConfigSync in the runs. *)
EXTENDS ConfigSync

None == {}
SeedConfig == {"s"}
WindowEdit == {"u1"}
WindowEdits == {"u1", "u2"}
MenuEdit == {"t1"}
MenuEdits == {"t1", "t2"}
CommandEdit == {"c1"}
CommandEdits == {"c1", "c2"}
SecondCommand == {"c2"}
AllSwitch == {"u1", "t1", "c1"}
WindowAndCommandSwitch == {"u1", "c1"}
DaemonOnly == {"daemon"}
GuiOnly == {"gui"}
===============================================================================
