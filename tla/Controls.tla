------------------------------- MODULE Controls -------------------------------
(***************************************************************************)
(* From app.json and a pad to what the page is sent: GamepadInput's        *)
(* construction and its handling of an event outside the menu and the      *)
(* card, over the pure Config and Keymap.  GamepadInput.tla has the loop,  *)
(* its queues and the surfaces that take the events instead.               *)
(*                                                                         *)
(* How far a control is pushed is in percent of its travel; the pad        *)
(* reports it in a range of its own.                                       *)
(***************************************************************************)
EXTENDS Config, Keymap

CONSTANTS
    Files,      \* the app.json files looked at
    Pads,       \* the ranges [stick, trigger] pads report
    Pulls, Tilts, Steers    \* how far triggers, right stick and left stick are pushed

\* A number of a file is one, and a pad reports ranges that are not empty.
ASSUME ControlsAssumption ==
    /\ \A f \in Files : \A path \in DOMAIN f :
        /\ f[path].type = "number" => f[path].value \in Int
        /\ f[path].type = "bool" => f[path].value \in BOOLEAN
    /\ \A p \in Pads : \A range \in {p.stick, p.trigger} :
        range.min \in Int /\ range.max \in Int /\ range.min < range.max
    /\ Pulls \subseteq 0..100
    /\ Tilts \subseteq (0..100) \X (0..100) /\ Steers \subseteq (0..100) \X (0..100)

VARIABLES
    file, config, maps,
    pad,        \* the pad's ranges
    layer,      \* the page's context
    pulled,     \* how far the triggers are pulled
    tilt,       \* the right stick
    axes,       \* axes_, with dir_key_ and fast_key_
    letGo,      \* history: the trigger was let go since it last fired, or all was forgotten
    forgotten,  \* history: the triggers that have not moved since all was forgotten
    out         \* what the last event did

controlsVars == <<file, config, maps, pad, layer, pulled, tilt, axes, letGo, forgotten, out>>

Centre == 50
NoConfig == [refused |-> FALSE]
Started == config \notin {NoConfig, [refused |-> TRUE]}

Raw(range, percent) == range.min + (percent * (range.max - range.min)) \div 100
Pull(p, percent) == Normalize(Raw(p.trigger, percent), p.trigger, 0, TriggerMax)
Tilt(p, percent) == Normalize(Raw(p.stick, percent), p.stick, AxisMin, AxisMax)

Idle == [lt |-> FALSE, rt |-> FALSE, x |-> 0, y |-> 0, dir |-> None, fast |-> None]

ControlsInit ==
    /\ file \in Files /\ config = NoConfig /\ maps = Keymaps(<<>>, <<>>, <<>>, <<>>, <<>>)
    /\ pad \in Pads /\ layer = "browse"
    /\ pulled = [t \in Triggers |-> 0] /\ tilt = <<Centre, Centre>>
    /\ axes = Idle /\ letGo = [t \in Triggers |-> TRUE] /\ forgotten = {} /\ out = Nothing

ControlsTypeOK ==
    /\ layer \in {"browse", "player", "osk"}
    /\ pulled \in [Triggers -> Pulls \cup {0}] /\ tilt \in Tilts \cup {<<Centre, Centre>>}
    /\ axes.lt \in BOOLEAN /\ axes.rt \in BOOLEAN
    /\ {axes.dir, axes.fast} \subseteq DOMAIN Arrows \cup {None}
    /\ letGo \in [Triggers -> BOOLEAN] /\ forgotten \subseteq Triggers

-----------------------------------------------------------------------------
\* The launcher reads the file, or refuses it and exits.
Start ==
    /\ config = NoConfig
    /\ IF Refused(file)
       THEN config' = [refused |-> TRUE] /\ UNCHANGED maps
       ELSE /\ config' = Load(file)
            /\ LET k == config'.keymap
               IN maps' = Keymaps(k.keymap, k.keymap_player, k.keymap_osk, k.keymap_lt, k.keymap_rt)
    /\ UNCHANGED <<file, pad, layer, pulled, tilt, axes, letGo, forgotten, out>>

Held == [t \in Triggers |-> axes[t]]

\* dispatch_key(), of a direction.
Arrow(d) == IF d = None THEN Nothing ELSE Key(Resolve(maps, d, layer, Held, Arrows[d]))

\* What a trigger does itself, unless it is a modifier: a seek, or a key.
TriggerDoes(t) ==
    LET bound == {e \in Entries(config.keymap.keymap) : e[1] = t}
        value == IF bound = {} THEN None ELSE (CHOOSE e \in bound : TRUE)[2]
    IN  IF DOMAIN maps[t] # {} THEN Nothing
        ELSE IF value \in SeekActions THEN Does("seek", None) ELSE Key(KeyOf(value))

PullTrigger(t, percent) ==
    LET v == Pull(pad, percent)
        now == TriggerPressed(v, axes[t])
        edge == now /\ ~axes[t]
    IN  /\ Started /\ percent # pulled[t]
        /\ pulled' = [pulled EXCEPT ![t] = percent]
        /\ axes' = [axes EXCEPT ![t] = now]
        /\ letGo' = [letGo EXCEPT ![t] = (@ \/ v <= TriggerRelease) /\ ~edge]
        /\ forgotten' = forgotten \ {t}
        /\ out' = IF edge THEN TriggerDoes(t) ELSE Nothing
        /\ UNCHANGED <<file, config, maps, pad, layer, tilt>>

ScrollOf(x, y) ==
    Scroll(x, y, config.bool.right_stick_scroll, config.int.right_stick_deadzone,
           config.int.right_stick_slow_ms, config.int.right_stick_fast_ms)

\* update_fast_scroll(): a held direction suppresses the right stick.
TiltStick(at) ==
    LET ax == Tilt(pad, at[1])
        ay == Tilt(pad, at[2])
        fast == IF axes.dir # None THEN None ELSE ScrollOf(ax, ay).key
    IN  /\ Started /\ at # tilt
        /\ tilt' = at
        /\ axes' = [axes EXCEPT !.x = ax, !.y = ay, !.fast = fast]
        /\ out' = IF fast # axes.fast THEN Arrow(fast) ELSE Nothing
        /\ UNCHANGED <<file, config, maps, pad, layer, pulled, letGo, forgotten>>

\* set_direction(), of D-pad or left stick; one let go hands the right stick back.
Steer(at) ==
    LET d == Direction(Quantize(Tilt(pad, at[1])), Quantize(Tilt(pad, at[2])))
        fast == IF d # None THEN None ELSE ScrollOf(axes.x, axes.y).key
    IN  /\ Started /\ d # axes.dir
        /\ axes' = [axes EXCEPT !.dir = d, !.fast = fast]
        /\ out' = IF d # None THEN Arrow(d) ELSE IF fast # axes.fast THEN Arrow(fast) ELSE Nothing
        /\ UNCHANGED <<file, config, maps, pad, layer, pulled, tilt, letGo, forgotten>>

Captions == ControlFor(config.keymap.keymap, CaptionsActions)
Gestures ==
    IF GesturesOn(config) THEN ControlFor(config.keymap.keymap, GesturesActions) ELSE None

Press(control) == ResolvePress(maps, control, layer, Held, Captions, Gestures)

\* Menu opens the settings whatever it is bound to.
PressButton(control) ==
    /\ Started
    /\ out' = IF control = "start" THEN Does("menu", None) ELSE Press(control)
    /\ UNCHANGED <<file, config, maps, pad, layer, pulled, tilt, axes, letGo, forgotten>>

\* PlayerController's thread publishes another context.
Enter(l) ==
    /\ Started /\ l # layer /\ layer' = l /\ out' = Nothing
    /\ UNCHANGED <<file, config, maps, pad, pulled, tilt, axes, letGo, forgotten>>

\* drop_held_state(): events were lost, and what is held is forgotten until it moves.
Forget ==
    /\ Started /\ axes # Idle
    /\ axes' = Idle /\ letGo' = [t \in Triggers |-> TRUE] /\ forgotten' = Triggers /\ out' = Nothing
    /\ UNCHANGED <<file, config, maps, pad, layer, pulled, tilt>>

ControlsNext ==
    \/ Start \/ Forget
    \/ \E t \in Triggers, p \in Pulls : PullTrigger(t, p)
    \/ \E at \in Tilts : TiltStick(at)
    \/ \E at \in Steers : Steer(at)
    \/ \E c \in Buttons : PressButton(c)
    \/ \E l \in {"browse", "player", "osk"} : Enter(l)

ControlsSpec == ControlsInit /\ [][ControlsNext]_controlsVars

-----------------------------------------------------------------------------
(* Properties.                                                              *)

\* The right stick is pushed further along the axis that decides.
Deeper ==
    /\ axes'.x = axes.x /\ Magnitude(axes.x) <= Magnitude(axes.y)
    /\ (axes.y > 0 /\ axes'.y >= axes.y) \/ (axes.y < 0 /\ axes'.y <= axes.y)

\* Whatever the file says, a stick pushed deeper on its way keeps its direction and is not
\* repeated slower, nor ever faster than the input thread can send.
ScrollIsPaced ==
    [][Started /\ Deeper /\ ScrollOf(axes.x, axes.y).key # None =>
        LET now == ScrollOf(axes.x, axes.y)
            next == ScrollOf(axes'.x, axes'.y)
        IN  next.key = now.key /\ next.interval \in MinScroll..now.interval]_axes

\* Whatever the file says, the retries against a dead network slow down until they reach
\* the longer of the two delays, and are never closer than the floor.
RetriesBackOff ==
    [][Start /\ ~Refused(file) =>
        LET min == config'.int.error_retry_min_ms
            max == config'.int.error_retry_max_ms
            delay(n) == Backoff(n, min, max)
        IN  /\ \A n \in 0..12 : delay(n) \in MinRetry..Floor(max) /\ delay(n) <= delay(n + 1)
            /\ delay(13) = Floor(max)]_config

\* A trigger acts once for a pull, however it trembles between the thresholds; and a full
\* pull of one that was let go always acts.
TriggerFiresOnce ==
    [][\A t \in Triggers : pulled'[t] # pulled[t] =>
          /\ out' # Nothing => letGo[t]
          /\ pulled'[t] = 100 /\ letGo[t] => out' = TriggerDoes(t)]_controlsVars

\* The middle of the stick's range, which a range of few values has no value for, is
\* within the deadzone.
CentreIsDead == Magnitude(Tilt(pad, Centre)) <= config.int.right_stick_deadzone

\* Nothing is read as held that the user lets alone, but by a deadzone too small for the
\* pad; a trigger pulled all the way is read as held unless what is held was forgotten, and
\* a right stick pushed all the way scrolls, whatever deadzone the file asks for: in
\* whatever range the pad reports.
AxesSayWhatIsHeld ==
    /\ \A t \in Triggers : /\ pulled[t] = 0 => ~axes[t]
                           /\ pulled[t] = 100 => axes[t] \/ t \in forgotten
    /\ tilt = <<Centre, Centre>> /\ Started /\ CentreIsDead => axes.fast = None
    /\ Started /\ config.bool.right_stick_scroll =>
        (axes.dir = None /\ Magnitude(axes.y) = AxisMax => axes.fast # None)

\* While a trigger with a layer of its own is known to be pulled, no button, stick or context
\* brings anything of the pad but its layer's keys and the menu.  The one thing it does not
\* absorb is the other trigger, which when it is no modifier acts at the edge of its own pull.
ModifierOwnsPad ==
    [][\A t \in Triggers :
        /\ pulled[t] = 100 /\ t \notin forgotten /\ DOMAIN maps[t] # {}
        /\ t = "lt" \/ ~axes.lt \/ DOMAIN maps.lt = {}
        => \/ out'.kind \in {"nothing", "menu"} \/ out'.key \in {maps[t][c] : c \in DOMAIN maps[t]}
           \/ \E u \in Triggers : /\ DOMAIN maps[u] = {} /\ ~axes[u] /\ axes'[u]
                                  /\ out' = TriggerDoes(u)]_controlsVars

\* config.hpp: a modifier absorbs the controls it does not bind, the other trigger too.
\* No run checks it: handle_event() sends what a trigger does without looking at the layers.
ModifierAbsorbs ==
    [][\A t \in Triggers :
        /\ pulled[t] = 100 /\ t \notin forgotten /\ DOMAIN maps[t] # {}
        /\ t = "lt" \/ ~axes.lt \/ DOMAIN maps.lt = {}
        => out'.kind \in {"nothing", "menu"} \/ out'.key \in {maps[t][c] : c \in DOMAIN maps[t]}]_controlsVars

\* app.json and config.hpp: keymap_player and keymap_osk override the base keymap.
LayerOverrides ==
    Started /\ layer # "browse" /\ ActiveModifier(maps, Held) = None =>
        \A c \in DOMAIN maps[layer] \cap Buttons : Press(c) = Key(maps[layer][c])
=============================================================================
