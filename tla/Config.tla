-------------------------------- MODULE Config --------------------------------
(***************************************************************************)
(* Reading config/app.json (launcher/src/config.cpp), and the backoff of   *)
(* the error page that runs on what was read (errorpage.cpp).              *)
(*                                                                         *)
(* A file is a function from the paths that are present to JSON values, a  *)
(* value a type and a content; a number counts tenths, so that a fraction  *)
(* is a number that is no multiple of Unit.  A section of the keymap is a  *)
(* sequence of <<control, value>>, a member of an object.  Strings the     *)
(* launcher hands on unread, logging and unknown keys are left out.        *)
(***************************************************************************)
EXTENDS Integers, Sequences

Unit == 10

SupportedSchema == 1

Field(min, max, default) == [min |-> min, max |-> max, default |-> default]

\* The settings that pace a loop or bound a quantity.
IntFields ==
    [right_stick_deadzone |-> Field(1, 32000, 13000),
     right_stick_slow_ms  |-> Field(10, 5000, 200),
     right_stick_fast_ms  |-> Field(10, 5000, 45),
     skip_seconds         |-> Field(1, 600, 10),
     touch_poll_ms        |-> Field(10, 1000, 50),
     touch_max_steps      |-> Field(1, 50, 1),
     error_retry_min_ms   |-> Field(100, 600000, 2000),
     error_retry_max_ms   |-> Field(100, 600000, 30000),
     devtools_poll_ms     |-> Field(100, 60000, 1000),
     max_restarts         |-> Field(1, 1000, 5),
     log_max_files        |-> Field(0, 100, 5)]

RealFields ==
    [touch_hold_rate      |-> Field(1, 40, 20),
     touch_hold_slow_rate |-> Field(1, 40, 5)]

BoolFields ==
    [right_stick_scroll |-> TRUE, disable_touch |-> TRUE, touch_gestures |-> FALSE]

KeymapFields == {"keymap", "keymap_player", "keymap_osk", "keymap_lt", "keymap_rt"}

-----------------------------------------------------------------------------
(* Typed reads: what is absent or of another type keeps the default.        *)

Has(file, path, type) == path \in DOMAIN file /\ file[path].type = type

Clamp(v, f) == IF v < f.min THEN f.min ELSE IF v > f.max THEN f.max ELSE v

BindBool(file, path) ==
    IF Has(file, path, "bool") THEN file[path].value ELSE BoolFields[path]

Integral(file, path) == Has(file, path, "number") /\ file[path].value % Unit = 0

\* Mutant of BindInt: out of range is taken as it is.
BindIntUnclamped(file, path) ==
    IF Integral(file, path) THEN file[path].value \div Unit ELSE IntFields[path].default

\* A number out of range is clamped, one with a fraction refused.
BindInt(file, path) ==
    IF Integral(file, path)
    THEN Clamp(file[path].value \div Unit, IntFields[path])
    ELSE IntFields[path].default

BindReal(file, path) ==
    IF Has(file, path, "number")
    THEN Clamp(file[path].value, RealFields[path])
    ELSE RealFields[path].default

\* The string members of an object, in written order; a key that begins with $ is a comment.
Comments == {"$comment"}
BindSection(file, path) ==
    IF Has(file, path, "object")
    THEN LET bound(member) == member[1] \notin Comments /\ member[2].type = "string"
             kept == SelectSeq(file[path].value, bound)
         IN  [i \in DOMAIN kept |-> <<kept[i][1], kept[i][2].value>>]
    ELSE <<>>

\* The tri-state under "power", then the one at top level, then the legacy boolean;
\* whatever it says that is neither "off" nor "auto" is to ask the user.
SelfUpdateMode(file) ==
    LET path == IF "power.self_update_mode" \in DOMAIN file
                THEN "power.self_update_mode" ELSE "self_update_mode"
    IN  IF path \in DOMAIN file
        THEN IF file[path].type = "string" /\ file[path].value \in {"off", "auto"}
             THEN file[path].value ELSE "notify"
        ELSE IF Has(file, "self_update", "bool")
             THEN IF file["self_update"].value THEN "auto" ELSE "off"
             ELSE "notify"

-----------------------------------------------------------------------------
(* Config::load(), of a file that is a JSON object.                         *)

Refused(file) ==
    /\ "schema_version" \in DOMAIN file
    /\ \/ ~Integral(file, "schema_version")
       \/ file["schema_version"].value \notin 0..(SupportedSchema * Unit)

Bound(file) ==
    [int |-> [f \in DOMAIN IntFields |-> BindInt(file, f)],
     real |-> [f \in DOMAIN RealFields |-> BindReal(file, f)],
     bool |-> [f \in DOMAIN BoolFields |-> BindBool(file, f)],
     keymap |-> [k \in KeymapFields |-> BindSection(file, k)],
     self_update_mode |-> SelfUpdateMode(file)]

\* Mutant of Ordered: an inverted pair is kept.
OrderedNot(int, low, high) == int

\* A pair of bounds the wrong way round is swapped.
Ordered(int, low, high) ==
    IF int[low] > int[high]
    THEN [int EXCEPT ![low] = int[high], ![high] = int[low]]
    ELSE int

Load(file) ==
    LET bound == Bound(file)
        retry == Ordered(bound.int, "error_retry_min_ms", "error_retry_max_ms")
    IN  [bound EXCEPT !.int = Ordered(retry, "right_stick_fast_ms", "right_stick_slow_ms")]

\* main(): no_pointer.js would swallow the touches the router reads.
GesturesOn(config) == config.bool.touch_gestures /\ ~config.bool.disable_touch

-----------------------------------------------------------------------------
(* retry_backoff_ms().                                                      *)

\* Below this the navigator would spin against a dead network.
MinRetry == 250

Floor(min) == IF min < MinRetry THEN MinRetry ELSE min

\* The next delay but for the one past the maximum.
Doubled(delay, max) == IF delay > max \div 2 THEN max ELSE 2 * delay

\* The delay before the retry after so many attempts that failed.
Backoff(attempt, min, max) ==
    LET delay[n \in 0..attempt] ==
            IF n = 0 THEN Floor(min)
            ELSE IF delay[n - 1] >= max THEN delay[n - 1]
            ELSE Doubled(delay[n - 1], max)
    IN  delay[attempt]
=============================================================================
