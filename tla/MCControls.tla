------------------------------ MODULE MCControls ------------------------------
(* Controls for TLC: app.json files a user or a typo could write, and pads. *)
EXTENDS Controls, TLC

Num(n) == [type |-> "number", value |-> Unit * n]
Str(s) == [type |-> "string", value |-> s]
Obj(q) == [type |-> "object", value |-> q]

Shipped ==
    [schema_version |-> Num(1),
     keymap |-> Obj(<<<<"$comment", Str("Enter")>>, <<"a", Str("select")>>, <<"b", Str("back")>>,
                      <<"lt", Str("chapter_back")>>, <<"rt", Str("Enter")>>,
                      <<"select", Str("toggle_captions")>>, <<"y", Str("captions")>>,
                      <<"l3", Str("toggle_gestures")>>>>)]

\* Inverted, clamped, fractional and mistyped numbers; layers and modifiers.
Inverted ==
    [right_stick_fast_ms |-> Num(700), right_stick_slow_ms |-> Num(3),
     error_retry_min_ms |-> Num(4000), error_retry_max_ms |-> Num(120),
     right_stick_deadzone |-> Num(90000), self_update |-> [type |-> "bool", value |-> TRUE]]
Mistyped ==
    [right_stick_fast_ms |-> Str("fast"), right_stick_deadzone |-> [type |-> "number", value |-> 15],
     error_retry_max_ms |-> Num(200), error_retry_min_ms |-> Num(100),
     touch_gestures |-> [type |-> "bool", value |-> TRUE],
     disable_touch |-> [type |-> "bool", value |-> FALSE],
     keymap |-> Obj(<<<<"l3", Str("toggle_touch")>>, <<"a", Num(7)>>, <<"select", Str("captions")>>,
                      <<"rt", Str("Enter")>>>>),
     keymap_player |-> Obj(<<<<"a", Str("playpause")>>, <<"up", Str("Enter")>>>>),
     keymap_lt |-> Obj(<<<<"x", Str("scrub_fwd")>>, <<"left", Str("scrub_back")>>>>)]
\* Both triggers are modifiers, and what a trigger would do itself is not done.
Modifiers ==
    [keymap |-> Obj(<<<<"a", Str("select")>>, <<"rt", Str("skip_fwd")>>>>),
     keymap_lt |-> Obj(<<<<"x", Str("playpause")>>>>),
     keymap_rt |-> Obj(<<<<"a", Str("back")>>, <<"up", Str("scrub_fwd")>>>>)]
\* A deadzone narrower than the step of a pad whose range is small.
Keen == [right_stick_deadzone |-> Num(0), error_retry_min_ms |-> Num(600000)]
Newer == [schema_version |-> Num(2)]

\* For the claim that a layer overrides the base keymap.
Overriding ==
    Shipped @@ [keymap_player |-> Obj(<<<<"select", Str("playpause")>>>>)]

McFiles == {Shipped, Inverted, Mistyped, Modifiers, Keen, Newer}
McOverriding == {Overriding}

Range(min, max) == [min |-> min, max |-> max]
McPads ==
    {[stick |-> Range(AxisMin, AxisMax), trigger |-> Range(0, TriggerMax)],
     [stick |-> Range(0, 255), trigger |-> Range(-128, 127)]}

\* Between the trigger's thresholds, and beyond both; two depths on one side of the stick,
\* a diagonal, and the other way.
McPulls == {0, 50, 100}
McTilts == {<<50, 50>>, <<50, 80>>, <<50, 100>>, <<50, 0>>, <<100, 50>>, <<0, 100>>}
McSteers == {<<50, 50>>, <<0, 0>>, <<100, 50>>}
=============================================================================
