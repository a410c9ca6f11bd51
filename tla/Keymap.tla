-------------------------------- MODULE Keymap --------------------------------
(***************************************************************************)
(* What the controls of a pad mean (launcher/src/keymap.cpp): the keys a   *)
(* section of the keymap binds, the layers that come before others, and    *)
(* the digital form of the analog axes.                                    *)
(*                                                                         *)
(* A section is a sequence of <<control, value>>; a control stands for its *)
(* evdev code and a direction for the arrow it is.  A value is a DOM key,  *)
(* an action with a key, an action of the launcher, or nothing known.      *)
(***************************************************************************)
EXTENDS Integers, Sequences

None == "none"

Arrows == [up |-> "ArrowUp", down |-> "ArrowDown", left |-> "ArrowLeft", right |-> "ArrowRight"]
Buttons == {"a", "b", "x", "y", "lb", "rb", "start", "select", "l3", "r3"}
Triggers == {"lt", "rt"}

\* Some keys DevToolsClient can send, and the actions that stand for one.
DomKeys == {Arrows[d] : d \in DOMAIN Arrows} \cup {"Enter", "Escape", "MediaPlayPause"}
Aliases ==
    [select |-> "Enter", back |-> "Escape", playpause |-> "MediaPlayPause",
     scrub_back |-> "ArrowLeft", scrub_fwd |-> "ArrowRight"]

\* What the launcher does itself.
CaptionsActions == {"toggle_captions", "captions"}
GesturesActions == {"toggle_gestures", "touch_gestures", "toggle_touch"}
SeekActions == {"skip_fwd", "skip_back", "chapter_fwd", "chapter_back"}

\* resolve_binding(): a key comes before an action.
KeyOf(value) ==
    IF value \in DomKeys THEN value
    ELSE IF value \in DOMAIN Aliases THEN Aliases[value] ELSE None

-----------------------------------------------------------------------------
(* Layers: functions from the controls they bind to keys.                   *)

Entries(section) == {section[i] : i \in DOMAIN section}

\* build_layer(); a JSON object binds a control once.
Layer(section) ==
    LET bound == {e \in Entries(section) :
                    e[1] \in Buttons \cup DOMAIN Arrows /\ KeyOf(e[2]) # None}
    IN  [c \in {e[1] : e \in bound} |-> KeyOf((CHOOSE e \in bound : e[1] = c)[2])]

\* What build_layer() reports instead: an unknown control, or a value without a key. A
\* trigger is passed over, and a launcher's action unless a direction is bound to it.
Unmapped(section) ==
    {e \in Entries(section) :
        \/ e[1] \in DOMAIN Arrows /\ KeyOf(e[2]) = None
        \/ /\ e[1] \notin DOMAIN Arrows \cup Triggers \cup {"dpad"}
           /\ e[2] \notin CaptionsActions \cup GesturesActions
           /\ e[1] \notin Buttons \/ KeyOf(e[2]) = None}

DefaultKeymap == <<<<"a", "select">>, <<"b", "back">>>>

Keymaps(base, player, osk, lt, rt) ==
    [base |-> Layer(IF base = <<>> THEN DefaultKeymap ELSE base),
     player |-> Layer(player), osk |-> Layer(osk), lt |-> Layer(lt), rt |-> Layer(rt)]

Find(layer, control) == IF control \in DOMAIN layer THEN layer[control] ELSE None

\* The modifier that owns the buttons: a held trigger with a layer, LT before RT.
ActiveModifier(maps, held) ==
    IF held["lt"] /\ DOMAIN maps.lt # {} THEN "lt"
    ELSE IF held["rt"] /\ DOMAIN maps.rt # {} THEN "rt" ELSE None

\* Mutant of Resolve: what a modifier does not bind falls through.
ResolveThrough(maps, control, layer, held, fallback) ==
    LET mod == ActiveModifier(maps, held)
        own == IF mod # None THEN Find(maps[mod], control) ELSE None
    IN  IF own # None THEN own
        ELSE IF Find(maps.base, control) # None THEN Find(maps.base, control) ELSE fallback

\* resolve_button(), resolve_direction_key(): a modifier absorbs what it does not bind, a
\* context's layer only overrides.
Resolve(maps, control, layer, held, fallback) ==
    LET mod == ActiveModifier(maps, held)
        context == IF layer = "browse" THEN None ELSE Find(maps[layer], control)
        base == Find(maps.base, control)
    IN  IF mod # None THEN Find(maps[mod], control)
        ELSE IF context # None THEN context
        ELSE IF base # None THEN base ELSE fallback

\* The first button of the base section with such an action.
ControlFor(section, actions) ==
    LET does(i) == section[i][2] \in actions /\ section[i][1] \in Buttons
        at == {i \in DOMAIN section : does(i)}
    IN  IF at = {} THEN None ELSE section[CHOOSE i \in at : \A j \in at : i <= j][1]

Does(kind, key) == [kind |-> kind, key |-> key]
Nothing == Does("nothing", None)
Key(key) == IF key = None THEN Nothing ELSE Does("key", key)

\* resolve_press(): the launcher's actions, unless a modifier is held; then the keys.
ResolvePress(maps, control, layer, held, captions, gestures) ==
    LET free == ActiveModifier(maps, held) = None
    IN  IF free /\ control = captions THEN Does("captions", None)
        ELSE IF free /\ control = gestures THEN Does("gestures", None)
        ELSE Key(Resolve(maps, control, layer, held, None))

-----------------------------------------------------------------------------
(* Axes.                                                                    *)

AxisMin == -32768
AxisMax == 32767
TriggerMax == 255
TriggerPress == 192
TriggerRelease == 64
StickDeadzone == 13000
MinScroll == 25

Saturate(v, lo, hi) == IF v < lo THEN lo ELSE IF v > hi THEN hi ELSE v

\* normalize_axis(): from the range r a device reports to the range lo..hi the thresholds
\* are in; an unknown range passes through.
Normalize(v, r, lo, hi) ==
    IF r.max <= r.min \/ (r.min = lo /\ r.max = hi) THEN v
    ELSE lo + ((Saturate(v, r.min, r.max) - r.min) * (hi - lo)) \div (r.max - r.min)

\* Mutant of TriggerPressed: one threshold.
TriggerPressedAtOnce(v, was) == v >= TriggerPress

TriggerPressed(v, was) == IF was THEN v > TriggerRelease ELSE v >= TriggerPress

Quantize(v) == IF v < -StickDeadzone THEN -1 ELSE IF v > StickDeadzone THEN 1 ELSE 0

\* resolve_direction(), of what D-pad or left stick say: vertical before horizontal.
Direction(x, y) ==
    IF y < 0 THEN "up" ELSE IF y > 0 THEN "down"
    ELSE IF x < 0 THEN "left" ELSE IF x > 0 THEN "right" ELSE None

Magnitude(v) == LET s == Saturate(v, -AxisMax, AxisMax) IN IF s < 0 THEN -s ELSE s

\* The interval at deflection m past the deadzone dz, on the way from slow to fast;
\* rounding is to a millisecond.
Ramp(m, dz, slow, fast) ==
    LET part(d) == ((m - dz) * d) \div (AxisMax - dz)
    IN  IF fast <= slow THEN Saturate(slow - part(slow - fast), fast, slow)
        ELSE Saturate(slow + part(fast - slow), slow, fast)

\* Mutant of Interval: no floor.
IntervalUnfloored(m, dz, slow, fast) == Ramp(m, dz, slow, fast)

Interval(m, dz, slow, fast) ==
    LET ramp == Ramp(m, dz, slow, fast) IN IF ramp < MinScroll THEN MinScroll ELSE ramp

\* fast_scroll(): the larger deflection decides, vertical at a tie.
Scroll(x, y, enabled, dz, slow, fast) ==
    LET ax == Magnitude(x)
        ay == Magnitude(y)
        m == IF ay >= ax THEN ay ELSE ax
    IN  IF ~enabled \/ m <= dz THEN [key |-> None, interval |-> 0]
        ELSE [key |-> IF ay >= ax THEN Direction(0, y) ELSE Direction(x, 0),
              interval |-> Interval(m, dz, slow, fast)]
=============================================================================
