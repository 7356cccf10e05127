------------------------------ MODULE CommandLine ------------------------------
(***************************************************************************)
(* The command line: which command a list of arguments is, with which       *)
(* options (cli.rs), and what the commands that only read and report make   *)
(* of the configuration (main.rs).  The commands that change something are  *)
(* actions of ConfigSync, StoreFiles and StartupOwnership.                  *)
(*                                                                         *)
(* An argument is a word.  The words that read as numbers, and what a word  *)
(* is without the blanks around it, are constants.                          *)
(***************************************************************************)
EXTENDS Integers, SequencesExt, TLC

CONSTANTS
    Integer,     \* the function of the words that read as a decimal integer
    Hex,         \* the function of the words that read as 0x...
    Trimmed,     \* the function of the words that are not blank
    Dashed,      \* the words that begin with a dash
    U32Max, U64Max

Usage == [command |-> "Usage"]    \* AppError::Usage
Help == [command |-> "Help"]
Plain(name) == [command |-> name]

HelpFlags == {"--help", "-h"}

IntegerOf(word) == IF word \in DOMAIN Integer THEN {Integer[word]} ELSE {}
UnsignedOf(word) == {n \in IntegerOf(word) : n \in 0 .. U64Max}
IdOf(word) ==
    {n \in (IF word \in DOMAIN Hex THEN {Hex[word]} ELSE IntegerOf(word)) : n \in 0 .. U32Max}
BooleanOf(word) ==
    IF word \in {"true", "yes", "1"} THEN {TRUE}
    ELSE IF word \in {"false", "no", "0"} THEN {FALSE} ELSE {}
KindOf(word) ==
    CASE word = "mouse" -> {"Mouse"}
      [] word = "trackpad" -> {"Trackpad"}
      [] word \in {"magic-mouse", "magic_mouse"} -> {"MagicMouse"}
      [] word = "unknown" -> {"Unknown"}
      [] OTHER -> {}

-------------------------------------------------------------------------------
(* Arguments are taken from the left until one of them decides the result;  *)
(* a flag that takes a value has the next word, whatever it is.             *)

Taken(options, args, Take(_, _)) ==
    FoldLeft(LAMBDA s, word : IF s.result # {} THEN s ELSE Take(s, word),
             [result |-> {}, awaits |-> "", options |-> options], args)

Decided(s, result) == [s EXCEPT !.result = {result}]

WithOption(s, field, value) == [s EXCEPT !.options[field] = value, !.awaits = ""]

Finish(s, Command(_)) ==
    IF s.result # {} THEN CHOOSE r \in s.result : TRUE
    ELSE IF s.awaits # "" THEN Usage
    ELSE Command(s.options)

(* doctor, validate-config and startup-status: switches, the last one wins. *)
ParseSwitches(name, field, default, switches, args) ==
    LET Take(s, word) ==
          IF word \in DOMAIN switches THEN WithOption(s, field, switches[word])
          ELSE Decided(s, IF word \in HelpFlags THEN Help ELSE Usage)
    IN  Finish(Taken(field :> default, args, Take),
               LAMBDA options : [command |-> name, options |-> options])

Formats == ("--json" :> "Json") @@ ("--text" :> "Text")

(* open-releases: the channels exclude each other. *)
Channels == ("--latest" :> "LatestStable") @@ ("--all" :> "IncludingPrereleases")

ParseOpenReleases(args) ==
    LET Take(s, word) ==
          IF word \in DOMAIN Channels
          THEN IF s.options.channel \in {{}, {Channels[word]}}
               THEN WithOption(s, "channel", {Channels[word]})
               ELSE Decided(s, Usage)
          ELSE Decided(s, IF word \in HelpFlags THEN Help ELSE Usage)
    IN  Finish(Taken("channel" :> {}, args, Take),
               LAMBDA options : [command |-> "OpenReleases", options |-> options])

(* trace-lab: one path, and limits on the gain and on the gap. *)
TraceLabFlags == {"--baseline-gain", "--clutch-gap-ms"}

LabValue(flag, word) ==
    IF flag = "--baseline-gain" THEN IdOf(word) \cap 1 .. 100
    ELSE {n * 1000 : n \in UnsignedOf(word) \cap 1 .. 60000}

ParseTraceLab(args) ==
    LET Take(s, word) ==
          IF s.awaits # ""
          THEN IF LabValue(s.awaits, word) = {} THEN Decided(s, Usage)
               ELSE WithOption(s, s.awaits, CHOOSE n \in LabValue(s.awaits, word) : TRUE)
          ELSE IF word \in TraceLabFlags THEN [s EXCEPT !.awaits = word]
          ELSE IF word \in HelpFlags THEN Decided(s, Help)
          ELSE IF word \in Dashed \/ s.options["path"] # {} THEN Decided(s, Usage)
          ELSE WithOption(s, "path", {word})
    IN  Finish(Taken(("path" :> {}) @@ ("--baseline-gain" :> 1) @@ ("--clutch-gap-ms" :> 150000),
                     args, Take),
               LAMBDA options : IF options["path"] = {} THEN Usage
                                ELSE [command |-> "TraceLab", options |-> options])

(* simulate: every flag has a value; an identity has both ids. *)
SimulateFlags ==
    ("--device" :> "kind") @@ ("--dy" :> "dy") @@ ("--delta-y" :> "dy")
    @@ ("--dx" :> "dx") @@ ("--delta-x" :> "dx") @@ ("--continuous" :> "continuous")
    @@ ("--synthetic" :> "synthetic") @@ ("--source-pid" :> "pid") @@ ("--vendor-id" :> "vendor")
    @@ ("--product-id" :> "product") @@ ("--serial-number" :> "serial") @@ ("--location-id" :> "location")

IdentityFields == {"vendor", "product", "serial", "location"}

SimulateValue(field, word) ==
    CASE field = "kind" -> KindOf(word)
      [] field \in {"dy", "dx", "pid"} -> IntegerOf(word)
      [] field \in {"continuous", "synthetic"} -> BooleanOf(word)
      [] field \in {"vendor", "product"} -> {{n} : n \in IdOf(word)}
      [] field = "serial" -> IF word \in DOMAIN Trimmed THEN {{Trimmed[word]}} ELSE {}
      [] field = "location" -> {{n} : n \in IdOf(word) \ {0}}

SimulateDefaults ==
    [kind |-> "Mouse", dy |-> 1, dx |-> 0, continuous |-> FALSE, synthetic |-> FALSE, pid |-> 0,
     vendor |-> {}, product |-> {}, serial |-> {}, location |-> {}]

ParseSimulate(args) ==
    LET Take(s, word) ==
          IF s.awaits # ""
          THEN IF SimulateValue(s.awaits, word) = {} THEN Decided(s, Usage)
               ELSE WithOption(s, s.awaits, CHOOSE v \in SimulateValue(s.awaits, word) : TRUE)
          ELSE IF word \in DOMAIN SimulateFlags THEN [s EXCEPT !.awaits = SimulateFlags[word]]
          ELSE Decided(s, Usage)
        Whole(o) ==
          \/ o.vendor # {} /\ o.product # {}
          \/ \A field \in IdentityFields : o[field] = {}
    IN  Finish(Taken(SimulateDefaults, args, Take),
               LAMBDA o : IF Whole(o) THEN [command |-> "Simulate", options |-> o] ELSE Usage)

-------------------------------------------------------------------------------
(* parse_args.  Some commands look at no argument of theirs, some refuse    *)
(* any.                                                                     *)
Heedless ==
    ("run" :> "Run") @@ ("init" :> "Init") @@ ("enable" :> "Enable") @@ ("disable" :> "Disable")
    @@ ("toggle" :> "Toggle") @@ ("enable-startup" :> "EnableStartup")
    @@ ("disable-startup" :> "DisableStartup") @@ ("config-path" :> "ConfigPath")
    @@ ("show-config" :> "ShowConfig") @@ ("devices" :> "Devices") @@ ("benchmark" :> "Benchmark")
    @@ ("ui" :> "Ui") @@ ("help" :> "Help") @@ ("--help" :> "Help") @@ ("-h" :> "Help")

Strict ==
    ("show-menu-bar-icon" :> "ShowMenuBarIcon") @@ ("rollback-dynamics" :> "RollbackDynamics")
    @@ ("repair-config" :> "RepairConfig") @@ ("prepare-uninstall" :> "PrepareUninstall")

ParseArgs(args) ==
    IF args = << >> THEN Plain("Run")
    ELSE LET name == Head(args)
             rest == Tail(args)
         IN CASE name \in DOMAIN Heedless -> Plain(Heedless[name])
              [] name \in DOMAIN Strict -> IF rest = << >> THEN Plain(Strict[name]) ELSE Usage
              [] name = "doctor" ->
                    ParseSwitches("Doctor", "create", TRUE,
                                  ("--no-create" :> FALSE) @@ ("--create" :> TRUE), rest)
              [] name = "validate-config" ->
                    ParseSwitches("ValidateConfig", "format", "Text", Formats, rest)
              [] name = "startup-status" ->
                    ParseSwitches("StartupStatus", "format", "Text", Formats, rest)
              [] name = "open-releases" -> ParseOpenReleases(rest)
              [] name = "trace-lab" -> ParseTraceLab(rest)
              [] name = "simulate" -> ParseSimulate(rest)
              [] OTHER -> Usage

(* command_for_launch: the app, opened, is its window. *)
CommandForLaunch(args, bundled) ==
    IF args = << >> /\ bundled THEN Plain("Ui") ELSE ParseArgs(args)

-------------------------------------------------------------------------------
(* Reports.  The configuration file is missing, valid, invalid (it can be   *)
(* read but is no configuration) or unreadable.                             *)

(* load_config_for_diagnostics: where the configuration comes from, and     *)
(* whether a default one is written.                                        *)
DiagnosticConfig(file, create) ==
    CASE file = "valid" -> [state |-> "Existing", writes |-> FALSE]
      [] file = "missing" /\ create -> [state |-> "Created", writes |-> TRUE]
      [] file = "missing" /\ ~create -> [state |-> "MissingUsingDefaults", writes |-> FALSE]
      [] OTHER -> [state |-> "Error", writes |-> FALSE]

(* doctor; run starts the tap only where doctor says "ON". *)
DoctorStatus(enabled, accessible) ==
    IF ~enabled THEN "OFF" ELSE IF ~accessible THEN "NEEDS PERMISSION" ELSE "ON"

(* run_event_tap, by what becomes of the tap. *)
RunOutcome(enabled, accessible, tap) ==
    IF ~enabled THEN "ok"
    ELSE IF ~accessible THEN "error"
    ELSE IF tap = "AlreadyRunning" THEN "ok" ELSE "error"

(* validate_config: the status it prints and whether it exits with success. *)
Validation(file) ==
    CASE file \in {"valid", "missing"} -> [status |-> file, ok |-> TRUE]
      [] file = "invalid" -> [status |-> "invalid", ok |-> FALSE]
      [] OTHER -> [status |-> "error", ok |-> FALSE]

(* open_releases: the flag, else what the configuration wants, else stable; *)
(* a configuration that cannot be read is an error unless a flag is given.  *)
PolicyChannel(beta) == IF beta THEN "IncludingPrereleases" ELSE "LatestStable"

ReleaseChannel(options, file, beta) ==
    IF options.channel # {} THEN options.channel
    ELSE CASE file = "missing" -> {"LatestStable"}
           [] file = "valid" -> {PolicyChannel(beta)}
           [] OTHER -> {}

(* simulate: the tap attributes no continuous event to a device. *)
SimulatedEvent(o, identity) ==
    [kind |-> o.kind, continuous |-> o.continuous, synthetic |-> o.synthetic,
     posted |-> o.pid # 0, source |-> "NotObserved",
     identity |-> IF o.continuous \/ o.vendor = {} THEN {} ELSE {identity}]

(* trace_lab: the file is cut off one byte past the limit, and refused; the *)
(* configuration is read, never written.                                    *)
LabRuns(bytes, limit, traced, file) ==
    /\ bytes <= limit /\ traced
    /\ DiagnosticConfig(file, FALSE).state # "Error"

(* StartupReport. *)
ReportInSync(report) ==
    /\ report.flag = report.installed
    /\ ~report.installed \/ report.forThisBinary

SyncWarning(report) ==
    IF report.flag /\ report.installed /\ ~report.forThisBinary THEN {"OtherBinary"}
    ELSE IF report.flag # report.installed THEN {"Differ"}
    ELSE {}

(* list_devices: by state, and in the order of the catalog within one. *)
Listing(catalog) ==
    FoldLeft(LAMBDA list, state : list \o SelectSeq(catalog, LAMBDA d : d.state = state),
             << >>, <<"Connected", "Remembered", "Unavailable">>)
================================================================================
