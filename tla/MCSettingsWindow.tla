--------------------------- MODULE MCSettingsWindow ---------------------------
(* The parts of the settings window that keep state of their own: the       *)
(* panel that edits the configuration, the moving of the login start, the   *)
(* list of devices, the test of a device and the benchmark.  They share no  *)
(* variable, so every behaviour of the window, seen from one part, is a     *)
(* behaviour of that part alone: TLC explores them one at a time.           *)
EXTENDS SettingsPanel, StartupOwnership, DeviceList, DeviceTest, ScrollBenchmark, Integers, TLC

VARIABLE part    \* the part that TLC explores

WindowInit ==
    /\ Init /\ StartupInit /\ ListInit /\ TestInit /\ BenchmarkInit
    /\ part \in {"panel", "startup", "list", "test", "benchmark"}
    /\ part # "panel" => disk = Defaults /\ known = Defaults /\ observed = {}
    /\ part # "startup" => item /\ agent = "absent" /\ flag
    /\ part # "list" => plugged = {}

WindowNext ==
    /\ UNCHANGED part
    /\ IF part = "panel" THEN Next ELSE UNCHANGED vars
    /\ IF part = "startup" THEN StartupNext ELSE UNCHANGED startupVars
    /\ IF part = "list" THEN ListNext ELSE UNCHANGED listVars
    /\ IF part = "test" THEN TestNext ELSE UNCHANGED testVars
    /\ IF part = "benchmark" THEN BenchmarkNext ELSE UNCHANGED benchmarkVars

WindowSpec == WindowInit /\ [][WindowNext]_<<vars, startupVars, listVars, testVars,
                                             benchmarkVars, part>>

CommandsAlike == Permutations(Commands)

-------------------------------------------------------------------------------
(* A mouse with a serial number and the model it is one of, whose row is    *)
(* the one a device without a serial number gets; the file a command wrote; *)
(* a file to import that differs in every section.                          *)
CONSTANTS a, off, fast, precise

OneMouse == [model |-> "m", serial |-> "s", port |-> None]
ItsModel == [model |-> "m", serial |-> None, port |-> None]
TwoDevices == {OneMouse, ItsModel}

Fresh ==
    [enabled |-> TRUE, step |-> 3, preset |-> off, reversedKinds |-> {"Mouse"}, rules |-> {},
     login |-> FALSE, icon |-> TRUE]

FromCommand ==
    {[Fresh EXCEPT !.login = TRUE, !.preset = fast,
                   !.rules = {[InheritingFor(OneMouse) EXCEPT !.alias = a]}]}

ToImport ==
    {[enabled |-> FALSE, step |-> 5, preset |-> fast, reversedKinds |-> {}, login |-> TRUE, icon |-> FALSE,
      rules |-> {[InheritingFor(ItsModel) EXCEPT !.step = 7, !.preset = fast]}]}

(* A matrix of two cases, near enough to be reached, overshot and settled   *)
(* on within the bounds; and the built-in ones, whose lengths the window    *)
(* names.                                                                   *)
ShortCase(distance) == [distance |-> distance, viewport |-> 200, tolerance |-> 1]
ShortMatrix == {<<ShortCase(3), ShortCase(2)>>}
SomeDeltas == {-2, 3, Bad}

Compact == FromAxes(<<240, 960, 2880>>, <<240, 360>>, <<12, 32>>)
Full == FromAxes(<<160, 480, 1440, 4320>>, <<240, 360, 480>>, <<8, 20, 40>>)

ASSUME MatricesAssumption ==
    /\ ShortMatrix = {FromAxes(<<3, 2>>, <<200>>, <<1>>)}
    /\ Len(Compact) = 12 /\ Len(Full) = 36
    /\ \A m \in {Compact, Full} : \A i, j \in DOMAIN m : m[i] = m[j] => i = j
    /\ FromAxes(<<240>>, <<240>>, <<8, 120>>) = << >>
    /\ FromAxes(<< >>, <<240>>, <<8>>) = << >>
================================================================================
