----------------------------- MODULE ConfigDocument -----------------------------
(***************************************************************************)
(* The configuration as a document: what a valid configuration is           *)
(* (config/schema.rs), how a document that is imported or exported is read  *)
(* and written (config/transfer/document.rs), and how the file to import is *)
(* read, which someone may be changing meanwhile (secure_file.rs).          *)
(*                                                                         *)
(* A document is a version field and a function of the other fields it      *)
(* has; a rule in it is a function of the fields it has.                    *)
(***************************************************************************)
EXTENDS Integers, Sequences, FiniteSets, Functions

CONSTANTS
    None,
    ConfigVersion,    \* CONFIG_VERSION
    U32Max,
    MaxBytes          \* MAX_IMPORT_BYTES

Flags == {"enabled", "reverse_vertical", "reverse_horizontal", "reverse_mouse", "reverse_trackpad",
          "reverse_magic_mouse", "reverse_unknown", "show_discrete_scroll_options",
          "start_at_login", "show_menu_bar_icon", "check_for_updates", "include_beta_updates",
          "reverse_only_raw_input"}

RootFields == Flags \cup {"discrete_scroll_step_size", "smooth_preset", "device_rules"}
OptionalRuleFields == {"serial_number", "location_id", "name", "alias", "reverse", "step_size",
                       "smooth_preset"}
RuleFields == OptionalRuleFields \cup {"vendor_id", "product_id"}

DefaultConfig ==
    [f \in RootFields |->
        CASE f = "discrete_scroll_step_size" -> 3
          [] f = "smooth_preset" -> "off"
          [] f = "device_rules" -> << >>
          [] OTHER -> f \in {"enabled", "reverse_vertical", "reverse_mouse", "reverse_magic_mouse",
                             "show_menu_bar_icon"}]

-------------------------------------------------------------------------------
(* AppConfig::validate.  A text is a sequence of letters, which are blank,  *)
(* control characters or others.                                            *)

Trimmed(text) == text # << >> /\ text[1] # "blank" /\ text[Len(text)] # "blank"

ValidRule(r) ==
    /\ r.serial_number # None => Trimmed(r.serial_number)
    /\ r.serial_number = None \/ r.location_id = None
    /\ r.location_id # 0
    /\ r.alias # None => /\ Trimmed(r.alias) /\ Len(r.alias) <= 64
                         /\ \A i \in DOMAIN r.alias : r.alias[i] # "control"
    /\ r.step_size # None => r.step_size \in 0 .. 20

SelectorOf(r) == <<r.vendor_id, r.product_id, r.serial_number, r.location_id>>

Valid(version, config) ==
    /\ version = ConfigVersion
    /\ config.discrete_scroll_step_size \in 0 .. 20
    /\ \A i \in DOMAIN config.device_rules : ValidRule(config.device_rules[i])
    /\ \A i, j \in DOMAIN config.device_rules :
        i # j => SelectorOf(config.device_rules[i]) # SelectorOf(config.device_rules[j])

(* plain_english_summary. *)
Summary(config) ==
    LET targets == {f \in {"reverse_mouse", "reverse_trackpad", "reverse_magic_mouse"} : config[f]}
        pinned == {i \in DOMAIN config.device_rules : config.device_rules[i].reverse = TRUE}
    IN  CASE ~config.enabled -> [says |-> "disabled"]
          [] config.enabled /\ targets = {} /\ pinned # {} ->
                [says |-> "only devices of rules", rules |-> Cardinality(pinned)]
          [] config.enabled /\ targets = {} /\ pinned = {} -> [says |-> "no device"]
          [] OTHER -> [says |-> "reversing", targets |-> targets,
                       axes |-> {f \in {"reverse_vertical", "reverse_horizontal"} : config[f]},
                       rules |-> Len(config.device_rules)]

-------------------------------------------------------------------------------
(* Documents.  What serde makes of one: fields that are absent have their   *)
(* default, a rule has to have both ids, unknown fields are passed over,    *)
(* and numbers and flags are what they are to be (wellTyped).               *)

Filled(fields, defaults) ==
    [f \in DOMAIN defaults |-> IF f \in DOMAIN fields THEN fields[f] ELSE defaults[f]]

RuleOf(table) == Filled(table, [f \in RuleFields |-> None])

ConfigOf(doc) ==
    IF ~doc.wellTyped \/ ("device_rules" \in DOMAIN doc.fields
            /\ \E i \in DOMAIN doc.fields.device_rules :
                    ~({"vendor_id", "product_id"} \subseteq DOMAIN doc.fields.device_rules[i]))
    THEN {}
    ELSE LET c == Filled(doc.fields, DefaultConfig)
         IN  {[c EXCEPT !.device_rules = [i \in DOMAIN @ |-> RuleOf(@[i])]]}

(* parse_version: a document without one has version 0. *)
VersionOf(doc) ==
    CASE doc.version.is = "absent" -> {0}
      [] doc.version.is = "integer" -> {doc.version.value} \cap 0 .. U32Max
      [] OTHER -> {}

UnknownFields(doc) ==
    \/ \E f \in DOMAIN doc.fields : f \notin RootFields
    \/ /\ "device_rules" \in DOMAIN doc.fields
       /\ \E i \in DOMAIN doc.fields.device_rules :
            \E f \in DOMAIN doc.fields.device_rules[i] : f \notin RuleFields

Refusal(reason) == [refused |-> reason]

(* preview_import_document. *)
Preview(doc) ==
    LET versions == VersionOf(doc) IN
    IF versions = {} THEN Refusal("InvalidVersion")
    ELSE LET version == CHOOSE v \in versions : TRUE IN
      IF version > ConfigVersion THEN Refusal("UnsupportedVersion")
      ELSE IF UnknownFields(doc) THEN Refusal("UnknownFields")
      ELSE IF \A c \in ConfigOf(doc) : ~Valid(ConfigVersion, c) THEN Refusal("InvalidSchema")
      ELSE [candidate |-> CHOOSE c \in ConfigOf(doc) : TRUE, migrated |-> version = 0]

(* The store reads its own file with less: unknown fields are dropped, and  *)
(* a version that is absent is the current one.                             *)
StoreReads(doc) ==
    LET version == IF doc.version.is = "absent" THEN ConfigVersion ELSE doc.version.value IN
    IF doc.version.is = "other" \/ version \notin 0 .. U32Max \/ ConfigOf(doc) = {}
    THEN Refusal("ConfigParse")
    ELSE IF \A c \in ConfigOf(doc) : ~Valid(version, c) THEN Refusal("InvalidConfig")
    ELSE [candidate |-> CHOOSE c \in ConfigOf(doc) : TRUE]

(* export_document: of a valid configuration, without what is None. *)
Export(config) ==
    IF ~Valid(ConfigVersion, config) THEN {}
    ELSE LET Written(r) == Restrict(r, {f \in DOMAIN r : r[f] # None})
         IN {[version |-> [is |-> "integer", value |-> ConfigVersion], wellTyped |-> TRUE,
              fields |-> [config EXCEPT !.device_rules = [i \in DOMAIN @ |-> Written(@[i])]]]}

-------------------------------------------------------------------------------
(* Reading the file.  seen has the file that the path named at each look: a *)
(* stat, the open, a stat of what is open, the bytes, and a stat at the     *)
(* end; what is open stays that file, whatever the path comes to name.      *)

ValidMetadata(f) == f.kind = "file" /\ f.length <= MaxBytes /\ ~f.worldWritable

SameFile(f, g) == f.id = g.id

SameSnapshot(f, g) == f.length = g.length /\ f.modified = g.modified

ReadSecurely(selected, opened, read, after) ==
    /\ selected.kind # "symlink" /\ ValidMetadata(selected)
    /\ opened.kind # "symlink" /\ ValidMetadata(opened) /\ SameFile(selected, opened)
    /\ read.length <= MaxBytes
    /\ ValidMetadata(after) /\ SameFile(opened, after) /\ SameSnapshot(opened, after)
================================================================================
