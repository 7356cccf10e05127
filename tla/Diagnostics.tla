------------------------------ MODULE Diagnostics ------------------------------
(***************************************************************************)
(* What the program remembers of itself to show it: the ring of decisions   *)
(* that the tap thread writes without ever waiting (debug_log.rs), the      *)
(* audit of recoveries (recovery_audit.rs, recovery_log.rs), the debug      *)
(* console over both (ui/debug_console.rs, export.rs), the summary for the  *)
(* clipboard (diagnostics_summary.rs) and the fuzzy index of the settings   *)
(* (settings_search.rs).                                                    *)
(***************************************************************************)
EXTENDS ScrollTransform, SequencesExt

CONSTANTS
    Capacity,          \* CAPACITY: decisions in the ring
    AuditCapacity,     \* RECOVERY_AUDIT_CAPACITY
    U32Max,            \* attempts are counted up to here
    ReasonsInOrder     \* DecisionReason in the order of their codes

(* Appended to a bounded queue: the oldest makes room. *)
Pushed(queue, element, capacity) ==
    Append(IF Len(queue) >= capacity THEN Tail(queue) ELSE queue, element)

-------------------------------------------------------------------------------
(* The ring.  try_push: a record met by a lock that is held is dropped and  *)
(* counted, and so never holds up the tap.                                  *)

EmptyLog == [events |-> << >>, dropped |-> 0]

TryPush(log, event, contended) ==
    IF contended THEN [log EXCEPT !.dropped = @ + 1]
    ELSE [log EXCEPT !.events = Pushed(@, event, Capacity)]

-------------------------------------------------------------------------------
(* The audit.  Attempts are numbered by reason; a status repeats the latest *)
(* number of its reason.                                                    *)

RecoveryReasons == {"Wake", "TapTimeout", "TapUserInput", "WatchdogDisabled", "PermissionLoss"}

NewAudit == [records |-> << >>, attempts |-> [r \in RecoveryReasons |-> 0], next |-> 1]

PushRecord(audit, reason, action, attempt) ==
    [audit EXCEPT
        !.records = Pushed(@, [sequence |-> audit.next, reason |-> reason, action |-> action,
                               attempt |-> attempt], AuditCapacity),
        !.next = @ + 1]

RecordAttempt(audit, reason, action) ==
    LET n == IF audit.attempts[reason] = U32Max THEN U32Max ELSE audit.attempts[reason] + 1
    IN  PushRecord([audit EXCEPT !.attempts[reason] = n], reason, action, n)

RecordStatus(audit, reason, action) == PushRecord(audit, reason, action, audit.attempts[reason])

(* refresh_permission_state of the settings window, while reversal is on:   *)
(* the loss of the permission is an attempt, its return a status of one     *)
(* that was seen to be lost.                                                *)
PermissionObserved(audit, enabled, was, granted) ==
    CASE enabled /\ was /\ ~granted -> RecordAttempt(audit, "PermissionLoss", "Suspended")
      [] enabled /\ ~was /\ granted /\ audit.attempts["PermissionLoss"] > 0
            -> RecordStatus(audit, "PermissionLoss", "Restored")
      [] OTHER -> audit

-------------------------------------------------------------------------------
(* The console. *)

LatestRecoveries(audit) ==
    LET n == Len(audit.records) IN Reverse(SubSeq(audit.records, (IF n > 12 THEN n - 12 ELSE 0) + 1, n))

(* filtered_events: by category and by what the search finds. *)
Filtered(events, filter, Found(_)) ==
    SelectSeq(events, LAMBDA e : filter \in {"All", Category(e.reason)} /\ Found(e))

(* Clear empties the ring, its count of drops and the audit, and no chart.  *)
ConsoleCleared(console) == [console EXCEPT !.log = EmptyLog, !.audit = NewAudit]

(* apply_export_result: a receipt, nothing (the panel was cancelled), or an *)
(* error, which keeps the receipt of the export before.                     *)
ExportApplied(console, result) ==
    CASE result.outcome = "receipt" ->
            [console EXCEPT !.receipt = {result.value}, !.exportError = {}, !.revealError = {}]
      [] result.outcome = "cancelled" -> console
      [] result.outcome = "error" -> [console EXCEPT !.exportError = {result.value}]

(* export_directory: where the last export went while that exists, else the *)
(* old folder of logs while that exists, else the one of the configuration. *)
ExportDirectory(receipt, directories) ==
    IF receipt \cap directories # {} THEN receipt
    ELSE IF "Debug Logs" \in directories THEN {"Debug Logs"} ELSE {"config"}

-------------------------------------------------------------------------------
(* The summary: only counts. *)

CountWhere(events, Holds(_)) == Len(SelectSeq(events, Holds))

OutcomeCounts(events) ==
    [c \in {"Reversed", "Passed", "Ignored"} |-> CountWhere(events, LAMBDA e : Category(e.reason) = c)]

KindCounts(events) ==
    [k \in {"Mouse", "Trackpad", "MagicMouse", "Unknown"} |-> CountWhere(events, LAMBDA e : e.kind = k)]

(* The reasons seen, the most frequent first, then by code. *)
ReasonCounts(events) ==
    LET counted == [i \in DOMAIN ReasonsInOrder |->
                        [place |-> i, reason |-> ReasonsInOrder[i],
                         count |-> CountWhere(events, LAMBDA e : e.reason = ReasonsInOrder[i])]]
    IN  SetToSortSeq({c \in {counted[i] : i \in DOMAIN counted} : c.count > 0},
                     LAMBDA c, d : c.count > d.count \/ (c.count = d.count /\ c.place < d.place))

RecoveryAttempts(records) ==
    LET Of(reason) == {records[i].attempt : i \in {j \in DOMAIN records : records[j].reason = reason}}
        Most(S) == CHOOSE n \in S : \A m \in S : m <= n
        seen == {r \in RecoveryReasons : Of(r) # {} /\ Most(Of(r)) > 0}
    IN  [r \in seen |-> Most(Of(r))]

-------------------------------------------------------------------------------
(* The index.  fuzzy_token_score over letters: a word found whole scores by *)
(* its place; else its letters are taken one by one where each comes first. *)

StartsAt(haystack, needle, i) == SubSeq(haystack, i, i + Len(needle) - 1) = needle

Limited(n, bound) == IF n < bound THEN n ELSE bound

FirstAfter(haystack, letter, from) ==
    {i \in from .. Len(haystack) : haystack[i] = letter /\ \A j \in from .. i - 1 : haystack[j] # letter}

FuzzyScore(haystack, needle) ==
    LET whole == {i \in 1 .. Len(haystack) - Len(needle) + 1 : StartsAt(haystack, needle, i)}
        Next(s, letter) ==
            LET found == IF s.lost THEN {} ELSE FirstAfter(haystack, letter, s.from)
            IN  IF found = {} THEN [s EXCEPT !.lost = TRUE]
                ELSE LET i == CHOOSE j \in found : TRUE
                     IN  [lost |-> FALSE, from |-> i + 1, last |-> i,
                          first |-> IF s.first = 0 THEN i ELSE s.first]
        walk == FoldLeft(Next, [lost |-> FALSE, from |-> 1, first |-> 0, last |-> 0], needle)
    IN  IF whole # {} THEN {1000 - Limited((CHOOSE i \in whole : \A j \in whole : i <= j) - 1, 500)}
        ELSE IF walk.lost THEN {} ELSE {500 - Limited(walk.last - walk.first, 400)}

(* search_settings: every token has to be found; the best first, then by    *)
(* title, and no more than the limit.                                       *)
SearchSettings(entries, tokens, limit) ==
    LET Scores(e) == [i \in DOMAIN tokens |-> FuzzyScore(entries[e], tokens[i])]
        Total(e) == FoldLeft(LAMBDA sum, s : sum + (CHOOSE n \in s : TRUE), 0, Scores(e))
        hits == {e \in DOMAIN entries : \A i \in DOMAIN tokens : Scores(e)[i] # {}}
        ranked == SetToSortSeq(hits, LAMBDA e, f : Total(e) > Total(f) \/ (Total(e) = Total(f) /\ e < f))
    IN  IF tokens = << >> THEN << >> ELSE SubSeq(ranked, 1, Limited(Len(ranked), limit))
================================================================================
