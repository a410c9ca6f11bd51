---------------------------- MODULE GamepadInput ----------------------------
(***************************************************************************)
(* The input thread (input.cpp) with one pad: evdev events in batches,     *)
(* then the housekeeping of a turn of loop(), one step per call that       *)
(* another thread or the page can come between.                            *)
(*                                                                         *)
(* A direction is what resolve_direction() makes of D-pad and left stick,  *)
(* or fast_scroll() of the right stick; which key it stands for (keymap,   *)
(* layers, modifiers) is data, and so are the rates of repeat.  Left out:  *)
(* triggers, whose latch is tracked like the axes, captions and gestures,  *)
(* haptics, and the update prompt but for the menu's new model.            *)
(***************************************************************************)
EXTENDS Onboarding, OsdMenu, Sequences

CONSTANTS
    Directions,
    None,
    MaxQueue,   \* bound: the kernel's event buffer
    MaxActs     \* bound: what the user does to the pad

ASSUME InputAssumption ==
    None \notin Directions /\ MaxQueue \in Nat \ {0} /\ MaxActs \in Nat

VARIABLES
    ipc,        \* the thread's step
    fd,         \* the pad's: "none", "open", "dead" (pad gone), "gone" (and noticed)
    queue,      \* the events the kernel holds for fd
    evs,        \* what read() returned and is still to be handled
    hat, right, \* axes_: the direction of D-pad and left stick, and of the right stick
    dir, fast,  \* dir_key_, fast_key_
    hold,       \* exit_hold_deadline_: "off", "on", or "due" (passed)
    swallowed,  \* history: the card swallowed the end of the direction held
    plugged, pad, \* the real pad: present, and what the user holds
    acts        \* bound: what the user did

axisVars == <<hat, right, dir, fast, swallowed>>
padVars == <<plugged, pad, acts>>
inputVars == <<ipc, fd, queue, evs, axisVars, hold, padVars>>

Pushed == Directions \cup {None}

\* To the menu B is as Menu, and to the page every button but Menu is as A.
Buttons == {"menu", "a", "y"}
Events == [kind : {"hat", "right"}, arg : Pushed]
          \cup [kind : {"press", "release"}, arg : Buttons]
          \cup [kind : {"dropped"}, arg : {None}]
Ev(k, a) == [kind |-> k, arg |-> a]

InputOK ==
    /\ ipc \in {"poll", "events", "tick", "probe", "sweep", "card", "repeat", "scroll", "drop"}
    /\ fd \in {"none", "open", "dead", "gone"}
    /\ queue \in Seq(Events) /\ evs \in Seq(Events) /\ (ipc = "events" <=> evs # <<>>)
    /\ hat \in Pushed /\ right \in Pushed /\ dir \in Pushed /\ fast \in Pushed
    /\ hold \in {"off", "on", "due"} /\ swallowed \in BOOLEAN
    /\ plugged \in BOOLEAN /\ pad \in [hat : Pushed, right : Pushed, y : BOOLEAN]
    /\ acts \in 0 .. MaxActs

Released == [hat |-> None, right |-> None, y |-> FALSE]

InputInit ==
    /\ ipc = "poll" /\ fd = "open" /\ queue = <<>> /\ evs = <<>>
    /\ hat = None /\ right = None /\ dir = None /\ fast = None
    /\ hold = "off" /\ swallowed = FALSE
    /\ plugged = TRUE /\ pad = Released /\ acts = 0

-----------------------------------------------------------------------------
\* The user and the kernel.

\* A full buffer is dropped for a SYN_DROPPED and the newest event.
Emit(e) ==
    queue' = IF fd # "open" THEN queue
             ELSE IF Len(queue) < MaxQueue THEN Append(queue, e)
             ELSE <<Ev("dropped", None), e>>

Act == acts < MaxActs /\ acts' = acts + 1

PushHat(d) ==
    /\ Act /\ plugged /\ pad.hat # d
    /\ pad' = [pad EXCEPT !.hat = d] /\ Emit(Ev("hat", d))
    /\ UNCHANGED <<ipc, fd, evs, axisVars, hold, plugged>>

PushRight(d) ==
    /\ Act /\ plugged /\ pad.right # d
    /\ pad' = [pad EXCEPT !.right = d] /\ Emit(Ev("right", d))
    /\ UNCHANGED <<ipc, fd, evs, axisVars, hold, plugged>>

\* Only Y's release is acted on anywhere.
PressButton(b) ==
    /\ Act /\ plugged /\ ~(b = "y" /\ pad.y)
    /\ pad' = [pad EXCEPT !.y = @ \/ b = "y"] /\ Emit(Ev("press", b))
    /\ UNCHANGED <<ipc, fd, evs, axisVars, hold, plugged>>

ReleaseY ==
    /\ Act /\ plugged /\ pad.y
    /\ pad' = [pad EXCEPT !.y = FALSE] /\ Emit(Ev("release", "y"))
    /\ UNCHANGED <<ipc, fd, evs, axisVars, hold, plugged>>

\* Steam removes its virtual pad; what is queued on it cannot be read any more.
Unplug ==
    /\ Act /\ plugged /\ plugged' = FALSE
    /\ pad' = Released /\ queue' = <<>>
    /\ fd' = IF fd = "open" THEN "dead" ELSE fd
    /\ UNCHANGED <<ipc, evs, axisVars, hold>>

Plug ==
    /\ Act /\ ~plugged /\ plugged' = TRUE
    /\ UNCHANGED <<ipc, fd, queue, evs, axisVars, hold, pad>>

HoldElapses ==
    /\ hold = "on" /\ hold' = "due"
    /\ UNCHANGED <<ipc, fd, queue, evs, axisVars, padVars>>

UserActs ==
    \/ \E d \in Pushed : PushHat(d) \/ PushRight(d)
    \/ \E b \in Buttons : PressButton(b)
    \/ ReleaseY \/ Unplug \/ Plug

-----------------------------------------------------------------------------
\* Directions.

MenuQuiet == UNCHANGED <<menu, menuVars>>

\* dispatch_key(), dispatch_scroll(): a command of the open menu, or a key of the page.
Dispatch == IF open THEN Exec("move") ELSE MenuQuiet

\* update_fast_scroll(), with the direction d and the right stick r.
FastScroll(d, r) == IF d # None \/ cardUp THEN None ELSE r

\* set_direction(d): of the direction and the right stick at most one moves, and that at once.
SetDirection(d, r) ==
    /\ dir' = d /\ fast' = FastScroll(d, r)
    /\ IF (d \notin {None, dir}) \/ (fast' \notin {None, fast}) THEN Dispatch ELSE MenuQuiet

\* track_axes() and what follows from it, outside the card.
Steer(e) ==
    /\ hat' = IF e.kind = "hat" THEN e.arg ELSE hat
    /\ right' = IF e.kind = "right" THEN e.arg ELSE right
    /\ SetDirection(IF e.kind = "hat" THEN e.arg ELSE dir, right')
    /\ swallowed' = (swallowed /\ e.kind = "right")

\* Mutant of DropHeld: the direction is kept.
DropHeldButDirection ==
    /\ hat' = None /\ right' = None
    /\ hold' = "off"
    /\ IF hold # "off" /\ open THEN Exec("hold_cancel") ELSE MenuQuiet
    /\ UNCHANGED <<dir, fast, swallowed>>

\* drop_held_state().
DropHeld ==
    /\ hat' = None /\ right' = None
    /\ dir' = None /\ fast' = None /\ swallowed' = FALSE
    /\ hold' = "off"
    /\ IF hold # "off" /\ open THEN Exec("hold_cancel") ELSE MenuQuiet

-----------------------------------------------------------------------------
\* handle_event().

\* osd_event(), a press.
MenuPress(b) ==
    /\ \/ b = "a" /\ Exec("select") /\ UNCHANGED hold
       \/ b = "menu" /\ Exec("back") /\ UNCHANGED hold
       \/ b = "y" /\ \E verdict \in Verdicts("hold_start") \cup {"unreachable"} :
            /\ Obey(verdict)
            /\ hold' = IF verdict = "hold" THEN "on" ELSE hold
    /\ UNCHANGED <<axisVars, card, cardVars>>

\* osd_event(), Y's release: "hold_cancel", then "ignore"; both get the same answer of a menu that
\* is gone.
MenuRelease ==
    /\ hold' = "off"
    /\ IF hold = "off" THEN MenuQuiet ELSE Exec("ignore")
    /\ UNCHANGED <<axisVars, card, cardVars>>

InMenu(e) ==
    /\ open
    /\ \/ e.kind = "press" /\ MenuPress(e.arg)
       \/ e.kind = "release" /\ MenuRelease
       \/ e.kind \in {"hat", "right"} /\ Steer(e) /\ UNCHANGED <<hold, card, cardVars>>

\* handle_onboarding(): the axes are tracked, the direction is not.
UnderCard(e) ==
    /\ ~open /\ cardUp
    /\ IF e.kind = "press" THEN Hide ELSE UNCHANGED <<card, cardVars>>
    /\ hat' = IF e.kind = "hat" THEN e.arg ELSE hat
    /\ right' = IF e.kind = "right" THEN e.arg ELSE right
    /\ swallowed' = (swallowed \/ (e.kind = "hat" /\ dir \notin {None, e.arg}))
    /\ MenuQuiet
    /\ UNCHANGED <<dir, fast, hold>>

\* osd_open_edge(), and the keys of the page.
InApp(e) ==
    /\ ~open /\ ~cardUp
    /\ \/ e = Ev("press", "menu") /\ OpenMenu /\ UNCHANGED axisVars
       \/ e.kind \in {"press", "release"} /\ e # Ev("press", "menu") /\ MenuQuiet /\ UNCHANGED axisVars
       \/ e.kind \in {"hat", "right"} /\ Steer(e)
    /\ UNCHANGED <<hold, card, cardVars>>

AfterEvent == IF Len(evs) = 1 THEN "tick" ELSE "events"

\* process_event(), one event of the batch.
HandleEvent ==
    /\ ipc = "events"
    /\ LET e == Head(evs)
       IN  \/ e.kind = "dropped" /\ DropHeld /\ UNCHANGED <<card, cardVars>>
           \/ e.kind # "dropped" /\ (InMenu(e) \/ UnderCard(e) \/ InApp(e))
    /\ evs' = Tail(evs)
    /\ ipc' = AfterEvent
    /\ UNCHANGED <<fd, queue, padVars, turns>>

-----------------------------------------------------------------------------
\* loop().

\* The periodic scan for a pad, if it is due; then poll() and read(): all that is queued, or the
\* news that the pad went away, or a timeout.
Poll ==
    /\ ipc = "poll"
    /\ evs' = queue /\ queue' = <<>>
    /\ ipc' = IF queue # <<>> THEN "events" ELSE "tick"
    /\ fd' \in (IF fd = "dead" THEN {"gone"}
               ELSE IF fd = "none" /\ plugged THEN {"none", "open"} ELSE {fd})
    /\ UNCHANGED <<axisVars, hold, padVars, pageVars, cardVars, menuVars>>

Idle == <<fd, queue, evs, padVars, turns>>

\* OsdMenuController::tick(), up to reconcile_open(); the update prompt may have a new model first.
MenuTick ==
    /\ ipc = "tick"
    /\ reloaded' = FALSE
    /\ \/ open /\ PushModel
       \/ open /\ ~dirty /\ UNCHANGED <<open, dirty>>
       \/ ~open /\ dirty' \in {dirty, TRUE} /\ UNCHANGED open
    /\ ipc' = IF open' THEN "probe" ELSE IF reloaded THEN "sweep" ELSE "card"
    /\ UNCHANGED <<Idle, axisVars, hold, menu, card, cardVars, orphan>>

\* reconcile_open(): not due, not answered, or the menu is (or may come back) there.
ProbeKeeps ==
    /\ ipc = "probe" /\ ipc' = "card"
    /\ UNCHANGED <<Idle, axisVars, hold, menu, card, cardVars, menuVars>>

\* Mutant of ProbeGone: the capture is kept.
ProbeGoneKeeps ==
    /\ ipc = "probe" /\ ipc' = "card"
    /\ StateGone
    /\ UNCHANGED <<Idle, axisVars, hold, menu, card, cardVars, menuVars>>

ProbeGone ==
    /\ ipc = "probe" /\ ipc' = "card"
    /\ StateGone /\ open' = FALSE
    /\ UNCHANGED <<Idle, axisVars, hold, menu, card, cardVars, reloaded, dirty, orphan>>

\* A reload under a menu we do not capture for: close whatever is there.
Sweep ==
    /\ ipc = "sweep" /\ ipc' = "card"
    /\ EvalClose
    /\ UNCHANGED <<Idle, axisVars, hold, card, cardVars, open, reloaded, dirty>>

\* OnboardingController::tick() finds the card gone ...
CardLost ==
    /\ ipc = "card" /\ ipc' = "repeat"
    /\ CardGone /\ cardUp' = FALSE
    /\ UNCHANGED <<Idle, axisVars, hold, menu, card, marked, menuVars>>

\* ... or not (or is not due, or not answered); a card that is up ends a held direction.
CardStays ==
    /\ ipc = "card" /\ ipc' = "repeat"
    /\ IF cardUp
       THEN SetDirection(None, right) /\ swallowed' = FALSE
       ELSE MenuQuiet /\ UNCHANGED <<dir, fast, swallowed>>
    /\ UNCHANGED <<Idle, hat, right, hold, card, cardVars>>

\* The exit hold belongs to the open menu, and fires when it is due (fire_exit()).
HoldTick == hold' = IF ~open \/ hold = "due" THEN "off" ELSE hold

\* The hold, then the auto-repeat of a held direction, if it is due.
Repeat ==
    /\ ipc = "repeat" /\ ipc' = "scroll"
    /\ HoldTick
    /\ \/ dir # None /\ Dispatch
       \/ MenuQuiet
    /\ UNCHANGED <<Idle, axisVars, card, cardVars>>

\* ... and of the right stick, whose direction may have changed under the card.
Scroll ==
    /\ ipc = "scroll"
    /\ ipc' = IF fd = "gone" THEN "drop" ELSE "poll"
    /\ \/ /\ fast # None /\ fast = right /\ Dispatch
          /\ UNCHANGED axisVars
       \/ fast \notin {None, right} /\ SetDirection(dir, right) /\ UNCHANGED <<hat, right, swallowed>>
       \/ MenuQuiet /\ UNCHANGED axisVars
    /\ UNCHANGED <<Idle, hold, card, cardVars>>

\* The lost pad: close it, look for another, forget all that was held.
DropPad ==
    /\ ipc = "drop" /\ ipc' = "poll"
    /\ fd' = IF plugged THEN "open" ELSE "none"
    /\ DropHeld
    /\ UNCHANGED <<queue, evs, padVars, turns, card, cardVars>>

InputStep ==
    \/ Poll \/ HandleEvent \/ MenuTick \/ ProbeKeeps \/ ProbeGone \/ Sweep \/ CardLost \/ CardStays
    \/ Repeat \/ Scroll \/ DropPad

-----------------------------------------------------------------------------
(***************************************************************************)
(* The specification.  The navigator's thread may load a document, raise   *)
(* the card and flag a reload at any time, which is more than Navigator    *)
(* does (PageThreads composes the two).  The thread runs, and an engine    *)
(* that is asked again and again whether the menu is there answers at last.*)
(***************************************************************************)
vars == <<pageVars, cardVars, menuVars, inputVars>>

TypeOK == PageOK /\ CardOK /\ MenuOK /\ InputOK

Init == PageInit /\ CardInit /\ MenuInit /\ InputInit

User == UserActs /\ UNCHANGED <<pageVars, cardVars, menuVars>>
Time == HoldElapses /\ UNCHANGED <<pageVars, cardVars, menuVars>>

Engine == (Reload \/ Rebuild) /\ UNCHANGED <<cardVars, menuVars, inputVars>>

NavigatorThread ==
    \/ Show /\ UNCHANGED <<menu, turns, menuVars, inputVars>>
    \/ OnPageReloaded /\ UNCHANGED <<pageVars, cardVars, inputVars>>
    \/ NewDocument /\ UNCHANGED <<turns, cardVars, menuVars, inputVars>>

Next == User \/ Time \/ Engine \/ NavigatorThread \/ InputStep

Spec == Init /\ [][Next]_vars

FairSpec == Spec /\ WF_vars(InputStep) /\ SF_vars(ProbeGone)

-----------------------------------------------------------------------------
(***************************************************************************)
(* Properties.                                                             *)
(***************************************************************************)

\* A menu in the page is one the launcher captures for, unless the answer to its opening was lost
\* or its closing did not run (half of osdmenu.hpp's "capture <=> paint").
PaintedIsCaptured == menu = "shown" => open \/ orphan

\* The other half: a menu that a new document took away is given up, whatever is being pressed.
CaptureEnds == (open /\ menu = "none") ~> ~open

\* A direction that repeats is one the user holds, over full buffers, pads that go and come back,
\* and menus and cards that open and close; but for one released under the card.
RepeatsWhatIsHeld ==
    ipc = "poll" /\ fd = "open" /\ queue = <<>> => dir \in {None, pad.hat} \/ swallowed

\* The D-pad and the right stick never both move the focus.
OneMover == dir = None \/ fast = None
=============================================================================
