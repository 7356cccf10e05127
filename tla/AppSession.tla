------------------------------- MODULE AppSession -------------------------------
(***************************************************************************)
(* The pinning of the target application for a scroll session               *)
(* (app_session.rs): a direct event opens a session on the application      *)
(* under the pointer, and until it ends or pauses, the events of the        *)
(* session, momentum too, go to that one.  A part without a caller yet.     *)
(***************************************************************************)
EXTENDS Naturals

CONSTANTS
    IdleTimeout,    \* APP_SESSION_IDLE_TIMEOUT
    U64Max          \* generations are counted up to here

NoSession == [active |-> {}, last |-> 0]

Target(pids, generation, new) == [targets |-> pids, generation |-> generation, new |-> new]

(* A result: the pin afterwards, and the target if the event has one. *)
Result(pin, targets) == [pin |-> pin, targets |-> targets]

(* start_session, unless the generations have run out. *)
StartSession(pin, pids, at) ==
    IF pin.last = U64Max THEN {}
    ELSE {Result([active |-> {[targets |-> pids, generation |-> pin.last + 1, at |-> at]},
                  last |-> pin.last + 1],
                 {Target(pids, pin.last + 1, TRUE)})}

Opened(pin, pids, phase, at) ==
    IF phase = "Direct" THEN StartSession(pin, pids, at) ELSE {Result(pin, {})}

(* observe, of which no result is an error; a process id is positive. *)
Observe(pin, candidates, phase, at) ==
    LET pids == candidates \ {0} IN
    IF pin.active = {} THEN Opened(pin, pids, phase, at)
    ELSE LET s == CHOOSE x \in pin.active : TRUE IN
         IF at < s.at THEN {}
         ELSE IF at - s.at > IdleTimeout THEN Opened([pin EXCEPT !.active = {}], pids, phase, at)
         ELSE {Result([pin EXCEPT !.active = IF phase = "Ended" THEN {} ELSE {[s EXCEPT !.at = at]}],
                      {Target(s.targets, s.generation, FALSE)})}

(* An error where the generations run out after a pause has ended the old   *)
(* session all the same. *)
PinAfter(pin, candidates, phase, at) ==
    IF Observe(pin, candidates, phase, at) # {}
    THEN (CHOOSE r \in Observe(pin, candidates, phase, at) : TRUE).pin
    ELSE [pin EXCEPT !.active = {s \in @ : at - s.at <= IdleTimeout}]

CancelSession(pin) == [pin EXCEPT !.active = {}]
================================================================================
