----------------------------- MODULE PageProofs -----------------------------
(***************************************************************************)
(* The input thread keeps its types, captures for every menu on screen,    *)
(* moves the focus with one control at a time and repeats only what is     *)
(* held; the navigator's thread announces what it loads; and each is all   *)
(* that the other takes it for.  For any directions, buffer size, number   *)
(* of the user's acts and of the page's moves.                             *)
(***************************************************************************)
EXTENDS PageThreads, SequenceTheorems, TLAPS

\* Typing and "capture <=> paint" of the menu, which every operation of it keeps.
MenuInv == menu \in Menus /\ MenuOK /\ PaintedIsCaptured

AxisOK == hat \in Pushed /\ right \in Pushed /\ dir \in Pushed /\ fast \in Pushed /\ swallowed \in BOOLEAN

HoldOK == hold \in {"off", "on", "due"}

-----------------------------------------------------------------------------
\* What each operation of the menu does to it.

\* Unless it tells that the menu is gone, a verdict leaves no menu uncaptured.
LEMMA ObeyMenu ==
    ASSUME MenuInv, NEW verdict, Obey(verdict), verdict = "gone" => menu # "shown"
    PROVE  MenuInv'
<1>1. CASE verdict \in {"close", "action"}
    <2>1. EvalClose /\ open' = FALSE /\ reloaded' = reloaded /\ dirty' = dirty
        BY <1>1 DEF Obey
    <2>2. PICK ran \in BOOLEAN :
            /\ menu' = IF ran THEN Closed ELSE menu
            /\ orphan' = (~ran /\ (orphan \/ menu = "shown"))
        BY <2>1 DEF EvalClose
    <2>3. CASE ran
        BY <2>1, <2>2, <2>3 DEF MenuInv, MenuOK, Menus, Closed, PaintedIsCaptured
    <2>4. CASE ~ran
        BY <2>1, <2>2, <2>4 DEF MenuInv, MenuOK, Menus, PaintedIsCaptured
    <2> QED BY <2>3, <2>4
<1>2. CASE verdict \notin {"close", "action"}
    <2>1. menu' = menu /\ orphan' = orphan /\ reloaded' = reloaded /\ dirty' = dirty
        BY <1>2 DEF Obey
    <2>2. CASE verdict = "gone"
        BY <2>1, <2>2 DEF Obey, MenuInv, MenuOK, PaintedIsCaptured
    <2>3. CASE verdict # "gone"
        <3>1. open' = open BY <1>2, <2>3 DEF Obey, MenuInv, MenuOK
        <3> QED BY <2>1, <3>1 DEF MenuInv, MenuOK, PaintedIsCaptured
    <2> QED BY <2>2, <2>3
<1> QED BY <1>1, <1>2

LEMMA ExecMenu ==
    ASSUME MenuInv, NEW cmd \in DOMAIN LiveVerdicts, Exec(cmd)
    PROVE  MenuInv'
<1>1. PICK verdict \in Verdicts(cmd) \cup {"unreachable"} : Obey(verdict)
    BY DEF Exec
<1>2. verdict = "gone" => menu # "shown"
    BY <1>1 DEF Verdicts, LiveVerdicts
<1> QED BY <1>1, <1>2, ObeyMenu

LEMMA QuietMenu == ASSUME MenuInv, MenuQuiet PROVE MenuInv'
BY DEF MenuQuiet, menuVars, MenuInv, MenuOK, PaintedIsCaptured

LEMMA OpenMenuMenu == ASSUME MenuInv, ~open, OpenMenu PROVE MenuInv'
<1>1. PICK r \in Replies :
        /\ menu' = IF r = "unsent" THEN menu ELSE "shown"
        /\ open' = (r = "answered")
        /\ orphan' = (r = "lost" \/ (r = "unsent" /\ orphan))
        /\ reloaded' = reloaded /\ dirty' = dirty
    BY DEF OpenMenu
<1>2. CASE r = "answered" BY <1>1, <1>2 DEF MenuInv, MenuOK, Menus, PaintedIsCaptured
<1>3. CASE r = "lost" BY <1>1, <1>3 DEF MenuInv, MenuOK, Menus, PaintedIsCaptured
<1>4. CASE r = "unsent" BY <1>1, <1>4 DEF MenuInv, MenuOK, Menus, PaintedIsCaptured
<1> QED BY <1>1, <1>2, <1>3, <1>4 DEF Replies

LEMMA CloseMenu ==
    ASSUME MenuInv, EvalClose, UNCHANGED <<open, reloaded, dirty>>
    PROVE  MenuInv'
<1>1. PICK ran \in BOOLEAN :
        /\ menu' = IF ran THEN Closed ELSE menu
        /\ orphan' = (~ran /\ (orphan \/ menu = "shown"))
    BY DEF EvalClose
<1>2. CASE ran BY <1>1, <1>2 DEF MenuInv, MenuOK, Menus, Closed, PaintedIsCaptured
<1>3. CASE ~ran BY <1>1, <1>3 DEF MenuInv, MenuOK, Menus, PaintedIsCaptured
<1> QED BY <1>2, <1>3

LEMMA DispatchMenu == ASSUME MenuInv, Dispatch PROVE MenuInv'
<1>1. "move" \in DOMAIN LiveVerdicts BY DEF LiveVerdicts
<1> QED BY <1>1, ExecMenu, QuietMenu DEF Dispatch

-----------------------------------------------------------------------------
\* What each change of the direction does.

LEMMA Directed ==
    ASSUME MenuInv, AxisOK, NEW d \in Pushed, NEW r \in Pushed, SetDirection(d, r)
    PROVE  MenuInv' /\ dir' = d /\ fast' \in Pushed /\ OneMover'
<1>1. MenuInv' BY DispatchMenu, QuietMenu DEF SetDirection
<1>2. dir' = d /\ fast' \in {None, r} /\ (d = None \/ fast' = None)
    BY DEF SetDirection, FastScroll
<1> QED BY <1>1, <1>2 DEF OneMover, Pushed

LEMMA Dropped ==
    ASSUME MenuInv, DropHeld
    PROVE  MenuInv' /\ AxisOK' /\ HoldOK' /\ OneMover' /\ dir' = None
<1>1. "hold_cancel" \in DOMAIN LiveVerdicts BY DEF LiveVerdicts
<1>2. MenuInv' BY <1>1, ExecMenu, QuietMenu DEF DropHeld
<1> QED BY <1>2 DEF DropHeld, AxisOK, HoldOK, OneMover, Pushed

-----------------------------------------------------------------------------
(***************************************************************************)
(* The focus: the menu, the axes and the exit hold.                        *)
(***************************************************************************)
FocusInv == MenuInv /\ AxisOK /\ HoldOK /\ OneMover

QueueOK ==
    /\ ipc \in {"poll", "events", "tick", "probe", "sweep", "card", "repeat", "scroll", "drop"}
    /\ fd \in {"none", "open", "dead", "gone"}
    /\ queue \in Seq(Events) /\ evs \in Seq(Events) /\ (ipc = "events" <=> evs # <<>>)

LEMMA FocusInit == Init => FocusInv
BY DEF Init, PageInit, MenuInit, InputInit, FocusInv, MenuInv, Menus, MenuOK, PaintedIsCaptured,
       AxisOK, HoldOK, OneMover, Pushed

\* What leaves the menu and the axes alone leaves the invariant alone.
LEMMA FocusFrame ==
    ASSUME FocusInv, UNCHANGED <<menu, menuVars, axisVars>>, HoldOK'
    PROVE  FocusInv'
<1>1. MenuInv' BY QuietMenu DEF FocusInv, MenuQuiet
<1> QED BY <1>1 DEF FocusInv, axisVars, AxisOK, OneMover

LEMMA FocusUser == ASSUME FocusInv, User \/ Time PROVE FocusInv'
<1>1. CASE User
    <2>1. UNCHANGED <<axisVars, hold>>
        BY <1>1 DEF User, UserActs, PushHat, PushRight, PressButton, ReleaseY, Unplug, Plug
    <2>2. UNCHANGED <<menu, menuVars>> BY <1>1 DEF User, pageVars
    <2> QED BY <2>1, <2>2, FocusFrame DEF FocusInv, HoldOK
<1>2. CASE Time
    <2>1. UNCHANGED <<menu, menuVars, axisVars>> /\ hold' = "due"
        BY <1>2 DEF Time, HoldElapses, pageVars
    <2> QED BY <2>1, FocusFrame DEF HoldOK
<1> QED BY <1>1, <1>2

LEMMA FocusEngine == ASSUME FocusInv, Engine \/ NavigatorThread PROVE FocusInv'
<1>1. CASE Engine
    <2>1. UNCHANGED <<menuVars, axisVars, hold>> BY <1>1 DEF Engine, inputVars
    <2>2. menu' \in Menus /\ menu' # "shown"
        BY <1>1 DEF Engine, Reload, NewDocument, Rebuild, FocusInv, MenuInv, Menus
    <2>3. MenuInv' BY <2>1, <2>2 DEF FocusInv, MenuInv, menuVars, MenuOK, PaintedIsCaptured
    <2> QED BY <2>1, <2>3 DEF FocusInv, axisVars, AxisOK, HoldOK, OneMover
<1>2. CASE Show /\ UNCHANGED <<menu, turns, menuVars, inputVars>>
    BY <1>2, FocusFrame DEF inputVars, FocusInv, HoldOK
<1>3. CASE OnPageReloaded /\ UNCHANGED <<pageVars, cardVars, inputVars>>
    <2>1. MenuInv' BY <1>3 DEF OnPageReloaded, pageVars, FocusInv, MenuInv, MenuOK, PaintedIsCaptured
    <2> QED BY <1>3, <2>1 DEF inputVars, FocusInv, axisVars, AxisOK, HoldOK, OneMover
<1>4. CASE NewDocument /\ UNCHANGED <<turns, cardVars, menuVars, inputVars>>
    <2>1. menu' = "none" BY <1>4 DEF NewDocument
    <2>2. MenuInv' BY <1>4, <2>1 DEF FocusInv, MenuInv, Menus, menuVars, MenuOK, PaintedIsCaptured
    <2> QED BY <1>4, <2>2 DEF FocusInv, inputVars, axisVars, AxisOK, HoldOK, OneMover
<1> QED BY <1>1, <1>2, <1>3, <1>4 DEF NavigatorThread

-----------------------------------------------------------------------------
\* The events.

LEMMA SteerFocus ==
    ASSUME FocusInv, NEW e \in Events, e.kind \in {"hat", "right"}, Steer(e), UNCHANGED hold
    PROVE  FocusInv'
<1>1. e.arg \in Pushed BY DEF Events
<1>2. right' \in Pushed /\ hat' \in Pushed BY <1>1 DEF Steer, FocusInv, AxisOK
<1>3. PICK d \in Pushed : SetDirection(d, right')
    BY <1>1 DEF Steer, FocusInv, AxisOK
<1>4. MenuInv' /\ dir' = d /\ fast' \in Pushed /\ OneMover'
    BY <1>2, <1>3, Directed DEF FocusInv
<1>5. swallowed' \in BOOLEAN BY DEF Steer, FocusInv, AxisOK
<1> QED BY <1>2, <1>4, <1>5 DEF FocusInv, AxisOK, HoldOK

LEMMA MenuPressFocus == ASSUME FocusInv, NEW b, MenuPress(b) PROVE FocusInv'
<1>1. UNCHANGED axisVars BY DEF MenuPress
<1>2. CASE Exec("select") /\ UNCHANGED hold
    <2>1. MenuInv' BY <1>2, ExecMenu DEF LiveVerdicts, FocusInv
    <2> QED BY <1>1, <1>2, <2>1 DEF FocusInv, axisVars, AxisOK, HoldOK, OneMover
<1>3. CASE Exec("back") /\ UNCHANGED hold
    <2>1. MenuInv' BY <1>3, ExecMenu DEF LiveVerdicts, FocusInv
    <2> QED BY <1>1, <1>3, <2>1 DEF FocusInv, axisVars, AxisOK, HoldOK, OneMover
<1>4. ASSUME NEW verdict \in Verdicts("hold_start") \cup {"unreachable"}, Obey(verdict),
             hold' = IF verdict = "hold" THEN "on" ELSE hold
      PROVE  FocusInv'
    <2>1. verdict = "gone" => menu # "shown" BY <1>4 DEF Verdicts, LiveVerdicts
    <2>2. MenuInv' BY <1>4, <2>1, ObeyMenu DEF FocusInv
    <2> QED BY <1>1, <1>4, <2>2 DEF FocusInv, axisVars, AxisOK, HoldOK, OneMover
<1> QED BY <1>2, <1>3, <1>4 DEF MenuPress

LEMMA MenuReleaseFocus == ASSUME FocusInv, MenuRelease PROVE FocusInv'
<1>1. "ignore" \in DOMAIN LiveVerdicts BY DEF LiveVerdicts
<1>2. MenuInv' BY <1>1, ExecMenu, QuietMenu DEF MenuRelease, FocusInv
<1> QED BY <1>2 DEF MenuRelease, FocusInv, axisVars, AxisOK, HoldOK, OneMover

LEMMA UnderCardFocus == ASSUME FocusInv, NEW e \in Events, UnderCard(e) PROVE FocusInv'
<1>1. MenuInv' BY QuietMenu DEF UnderCard, FocusInv
<1>2. e.kind = "hat" \/ e.kind = "right" => e.arg \in Pushed BY DEF Events
<1>3. AxisOK' BY <1>2 DEF UnderCard, FocusInv, AxisOK
<1> QED BY <1>1, <1>3 DEF UnderCard, FocusInv, HoldOK, OneMover

LEMMA InAppFocus == ASSUME FocusInv, NEW e \in Events, InApp(e) PROVE FocusInv'
<1>1. UNCHANGED hold /\ ~open BY DEF InApp
<1>2. CASE OpenMenu /\ UNCHANGED axisVars
    <2>1. MenuInv' BY <1>1, <1>2, OpenMenuMenu DEF FocusInv
    <2> QED BY <1>1, <1>2, <2>1 DEF FocusInv, axisVars, AxisOK, HoldOK, OneMover
<1>3. CASE MenuQuiet /\ UNCHANGED axisVars
    BY <1>1, <1>3, FocusFrame DEF MenuQuiet, FocusInv, HoldOK
<1>4. CASE e.kind \in {"hat", "right"} /\ Steer(e)
    BY <1>1, <1>4, SteerFocus
<1> QED BY <1>2, <1>3, <1>4 DEF InApp

LEMMA HeadIsEvent == ASSUME QueueOK, ipc = "events" PROVE Head(evs) \in Events
BY DEF QueueOK

LEMMA HandleEventFocus == ASSUME FocusInv, QueueOK, HandleEvent PROVE FocusInv'
<1> DEFINE e == Head(evs)
<1>1. e \in Events BY HeadIsEvent DEF HandleEvent
<1>2. CASE DropHeld BY <1>2, Dropped DEF FocusInv
<1>3. CASE InMenu(e)
    <2>1. CASE MenuPress(e.arg) BY <2>1, MenuPressFocus
    <2>2. CASE MenuRelease BY <2>2, MenuReleaseFocus
    <2>3. CASE e.kind \in {"hat", "right"} /\ Steer(e) /\ UNCHANGED hold
        BY <1>1, <2>3, SteerFocus
    <2> QED BY <1>3, <2>1, <2>2, <2>3 DEF InMenu
<1>4. CASE UnderCard(e) BY <1>1, <1>4, UnderCardFocus
<1>5. CASE InApp(e) BY <1>1, <1>5, InAppFocus
<1> QED BY <1>2, <1>3, <1>4, <1>5 DEF HandleEvent

-----------------------------------------------------------------------------
\* The housekeeping.

LEMMA MenuTickFocus == ASSUME FocusInv, MenuTick PROVE FocusInv'
<1>1. reloaded' = FALSE /\ menu' = menu /\ orphan' = orphan /\ UNCHANGED <<axisVars, hold>>
    BY DEF MenuTick
<1>2. MenuInv'
    <2>1. CASE PushModel
        <3>1. PICK answered \in BOOLEAN :
                /\ dirty' = ~answered
                /\ open' = ~(answered /\ UpdateGone)
            BY <2>1 DEF PushModel
        <3>2. open' = FALSE => menu # "shown" BY <3>1 DEF UpdateGone
        <3> QED BY <1>1, <3>1, <3>2 DEF FocusInv, MenuInv, MenuOK, PaintedIsCaptured
    <2>2. CASE open' = open /\ dirty' \in {dirty, TRUE}
        BY <1>1, <2>2 DEF FocusInv, MenuInv, MenuOK, PaintedIsCaptured
    <2> QED BY <2>1, <2>2 DEF MenuTick
<1> QED BY <1>1, <1>2 DEF FocusInv, axisVars, AxisOK, HoldOK, OneMover

LEMMA ProbeGoneFocus == ASSUME FocusInv, ProbeGone PROVE FocusInv'
<1>1. menu = "none" /\ open' = FALSE /\ UNCHANGED <<menu, reloaded, dirty, orphan, axisVars, hold>>
    BY DEF ProbeGone, StateGone
<1>2. MenuInv' BY <1>1 DEF FocusInv, MenuInv, MenuOK, PaintedIsCaptured
<1> QED BY <1>1, <1>2 DEF FocusInv, axisVars, AxisOK, HoldOK, OneMover

LEMMA SweepFocus == ASSUME FocusInv, Sweep PROVE FocusInv'
<1>1. MenuInv' BY CloseMenu DEF Sweep, FocusInv
<1> QED BY <1>1 DEF Sweep, FocusInv, axisVars, AxisOK, HoldOK, OneMover

LEMMA CardStaysFocus == ASSUME FocusInv, CardStays PROVE FocusInv'
<1>1. UNCHANGED <<hat, right, hold>> BY DEF CardStays
<1>2. CASE SetDirection(None, right) /\ swallowed' = FALSE
    <2>1. None \in Pushed /\ right \in Pushed BY DEF Pushed, FocusInv, AxisOK
    <2>2. MenuInv' /\ dir' = None /\ fast' \in Pushed /\ OneMover'
        BY <1>2, <2>1, Directed DEF FocusInv
    <2> QED BY <1>1, <1>2, <2>1, <2>2 DEF FocusInv, AxisOK, HoldOK
<1>3. CASE MenuQuiet /\ UNCHANGED <<dir, fast, swallowed>>
    BY <1>1, <1>3, FocusFrame DEF MenuQuiet, axisVars, FocusInv, HoldOK
<1> QED BY <1>2, <1>3 DEF CardStays

LEMMA RepeatFocus == ASSUME FocusInv, Repeat PROVE FocusInv'
<1>1. UNCHANGED axisVars BY DEF Repeat
<1>2. HoldOK' BY DEF Repeat, HoldTick, FocusInv, HoldOK
<1>3. MenuInv' BY DispatchMenu, QuietMenu DEF Repeat, FocusInv
<1> QED BY <1>1, <1>2, <1>3 DEF FocusInv, axisVars, AxisOK, OneMover

LEMMA ScrollFocus == ASSUME FocusInv, Scroll PROVE FocusInv'
<1>1. UNCHANGED hold BY DEF Scroll
<1>2. CASE Dispatch /\ UNCHANGED axisVars
    <2>1. MenuInv' BY <1>2, DispatchMenu DEF FocusInv
    <2> QED BY <1>1, <1>2, <2>1 DEF FocusInv, axisVars, AxisOK, HoldOK, OneMover
<1>3. CASE SetDirection(dir, right) /\ UNCHANGED <<hat, right, swallowed>>
    <2>1. dir \in Pushed /\ right \in Pushed BY DEF FocusInv, AxisOK
    <2>2. MenuInv' /\ dir' = dir /\ fast' \in Pushed /\ OneMover'
        BY <1>3, <2>1, Directed DEF FocusInv
    <2> QED BY <1>1, <1>3, <2>2 DEF FocusInv, AxisOK, HoldOK
<1>4. CASE MenuQuiet /\ UNCHANGED axisVars
    BY <1>1, <1>4, FocusFrame DEF MenuQuiet, FocusInv, HoldOK
<1> QED BY <1>2, <1>3, <1>4 DEF Scroll

LEMMA FocusStep == ASSUME FocusInv, QueueOK, [Next]_vars PROVE FocusInv'
<1>1. CASE InputStep
    <2>1. CASE Poll
        BY <2>1, FocusFrame DEF Poll, pageVars, FocusInv, HoldOK
    <2>2. CASE ProbeKeeps
        BY <2>2, FocusFrame DEF ProbeKeeps, FocusInv, HoldOK
    <2>3. CASE CardLost
        BY <2>3, FocusFrame DEF CardLost, FocusInv, HoldOK
    <2>4. CASE DropPad
        BY <2>4, Dropped DEF DropPad, FocusInv
    <2> QED
        BY <1>1, <2>1, <2>2, <2>3, <2>4, HandleEventFocus, MenuTickFocus, ProbeGoneFocus, SweepFocus,
           CardStaysFocus, RepeatFocus, ScrollFocus
           DEF InputStep
<1>2. CASE UNCHANGED vars
    BY <1>2, FocusFrame DEF vars, pageVars, inputVars, FocusInv, HoldOK
<1> QED BY <1>1, <1>2, FocusUser, FocusEngine DEF Next

-----------------------------------------------------------------------------
(***************************************************************************)
(* Typing of the rest.                                                     *)
(***************************************************************************)
CardInv == card \in BOOLEAN /\ turns \in 0 .. MaxTurns /\ CardOK

PadOK ==
    /\ plugged \in BOOLEAN /\ pad \in [hat : Pushed, right : Pushed, y : BOOLEAN]
    /\ acts \in 0 .. MaxActs

IInv == FocusInv /\ QueueOK /\ CardInv /\ PadOK

LEMMA Typing == IInv => TypeOK
BY DEF IInv, FocusInv, MenuInv, Menus, AxisOK, HoldOK, QueueOK, CardInv, PadOK, TypeOK, PageOK, InputOK

LEMMA RestInit == Init => QueueOK /\ CardInv /\ PadOK
<1> SUFFICES ASSUME Init PROVE QueueOK /\ CardInv /\ PadOK
    OBVIOUS
<1>1. QueueOK BY DEF Init, InputInit, QueueOK
<1>2. CardInv
    <2>1. turns \in 0 .. MaxTurns BY PageAssumption DEF Init, PageInit
    <2> QED BY <2>1 DEF Init, PageInit, CardInit, CardInv, CardOK
<1>3. Released \in [hat : Pushed, right : Pushed, y : BOOLEAN] BY DEF Released, Pushed
<1>4. PadOK BY <1>3, InputAssumption DEF Init, InputInit, PadOK
<1> QED BY <1>1, <1>2, <1>4

LEMMA TailOf ==
    ASSUME NEW q \in Seq(Events), q # <<>>
    PROVE  /\ Tail(q) \in Seq(Events) /\ Len(Tail(q)) = Len(q) - 1 /\ Len(q) >= 1
           /\ \A i \in 1 .. Len(Tail(q)) : Tail(q)[i] = q[i + 1]
           /\ (Tail(q) = <<>> <=> Len(q) = 1)
           /\ Head(q) = q[1]
<1>1. Tail(q) \in Seq(Events) /\ Len(Tail(q)) = Len(q) - 1
    BY HeadTailProperties
<1>2. Len(q) >= 1 BY EmptySeq
<1>3. \A i \in 1 .. Len(Tail(q)) : Tail(q)[i] = q[i + 1]
    BY <1>1, HeadTailProperties
<1>4. Tail(q) = <<>> <=> Len(q) = 1 BY <1>1, EmptySeq
<1> QED BY <1>1, <1>2, <1>3, <1>4

LEMMA EmitQueue ==
    ASSUME QueueOK, NEW e \in Events, Emit(e)
    PROVE  queue' \in Seq(Events)
<1>1. Ev("dropped", None) \in Events BY DEF Ev, Events
<1> QED BY <1>1 DEF Emit, QueueOK

LEMMA QueueUser == ASSUME QueueOK, UserActs PROVE QueueOK'
<1>1. UNCHANGED <<ipc, evs>> /\ fd' \in {fd, "dead"}
    BY DEF UserActs, PushHat, PushRight, PressButton, ReleaseY, Unplug, Plug
<1>2. queue' \in Seq(Events)
    <2>1. ASSUME NEW d \in Pushed, PushHat(d) PROVE queue' \in Seq(Events)
        <3>1. Ev("hat", d) \in Events BY DEF Ev, Events
        <3> QED BY <2>1, <3>1, EmitQueue DEF PushHat
    <2>2. ASSUME NEW d \in Pushed, PushRight(d) PROVE queue' \in Seq(Events)
        <3>1. Ev("right", d) \in Events BY DEF Ev, Events
        <3> QED BY <2>2, <3>1, EmitQueue DEF PushRight
    <2>3. ASSUME NEW b \in Buttons, PressButton(b) PROVE queue' \in Seq(Events)
        <3>1. Ev("press", b) \in Events BY DEF Ev, Events
        <3> QED BY <2>3, <3>1, EmitQueue DEF PressButton
    <2>4. CASE ReleaseY
        <3>1. Ev("release", "y") \in Events BY DEF Ev, Events, Buttons
        <3> QED BY <2>4, <3>1, EmitQueue DEF ReleaseY
    <2>5. CASE Unplug BY <2>5 DEF Unplug
    <2>6. CASE Plug BY <2>6 DEF Plug, QueueOK
    <2> QED BY <2>1, <2>2, <2>3, <2>4, <2>5, <2>6 DEF UserActs
<1> QED BY <1>1, <1>2 DEF QueueOK

LEMMA QueueStep == ASSUME QueueOK, [Next]_vars PROVE QueueOK'
<1>1. CASE User BY <1>1, QueueUser DEF User
<1>2. CASE Time BY <1>2 DEF Time, HoldElapses, QueueOK
<1>3. CASE Engine \/ NavigatorThread
    BY <1>3 DEF Engine, NavigatorThread, inputVars, QueueOK
<1>4. CASE Poll BY <1>4 DEF Poll, QueueOK
<1>5. CASE HandleEvent
    <2>1. UNCHANGED <<fd, queue>> /\ evs' = Tail(evs) /\ ipc = "events" /\ ipc' = AfterEvent
        BY <1>5 DEF HandleEvent
    <2>2. evs \in Seq(Events) /\ evs # <<>> BY <2>1 DEF QueueOK
    <2>3. Tail(evs) \in Seq(Events) /\ (Tail(evs) = <<>> <=> Len(evs) = 1) BY <2>2, TailOf
    <2> QED BY <2>1, <2>3 DEF AfterEvent, QueueOK
<1>6. CASE MenuTick BY <1>6 DEF MenuTick, Idle, QueueOK
<1>7. CASE ProbeKeeps \/ ProbeGone BY <1>7 DEF ProbeKeeps, ProbeGone, Idle, QueueOK
<1>8. CASE Sweep BY <1>8 DEF Sweep, Idle, QueueOK
<1>9. CASE CardLost \/ CardStays BY <1>9 DEF CardLost, CardStays, Idle, QueueOK
<1>10. CASE Repeat \/ Scroll BY <1>10 DEF Repeat, Scroll, Idle, QueueOK
<1>11. CASE DropPad BY <1>11 DEF DropPad, QueueOK
<1>12. CASE UNCHANGED vars BY <1>12 DEF vars, inputVars, QueueOK
<1> QED
    BY <1>1, <1>2, <1>3, <1>4, <1>5, <1>6, <1>7, <1>8, <1>9, <1>10, <1>11, <1>12 DEF Next, InputStep

LEMMA CardStep == ASSUME CardInv, [Next]_vars PROVE CardInv'
<1>1. CASE User \/ Time BY <1>1 DEF User, Time, pageVars, cardVars, CardInv, CardOK
<1>2. CASE Engine
    <2>1. card' = FALSE /\ Turn BY <1>2 DEF Engine, Reload, Rebuild, NewDocument
    <2>2. turns' \in 0 .. MaxTurns BY <2>1, PageAssumption DEF Turn, CardInv
    <2>3. UNCHANGED cardVars BY <1>2 DEF Engine
    <2> QED BY <2>1, <2>2, <2>3 DEF cardVars, CardInv, CardOK
<1>3. CASE Show /\ UNCHANGED turns BY <1>3 DEF Show, Replies, cardVars, CardInv, CardOK
<1>4. CASE OnPageReloaded /\ UNCHANGED <<pageVars, cardVars, inputVars>>
    BY <1>4 DEF pageVars, cardVars, CardInv, CardOK
<1>5. CASE Poll BY <1>5 DEF Poll, pageVars, cardVars, CardInv, CardOK
<1>6. CASE HandleEvent
    <2>1. turns' = turns BY <1>6 DEF HandleEvent
    <2>2. Hide \/ UNCHANGED <<card, cardVars>>
        BY <1>6 DEF HandleEvent, InMenu, MenuPress, MenuRelease, UnderCard, InApp
    <2>3. CASE Hide BY <2>1, <2>3 DEF Hide, Replies, CardInv, CardOK
    <2>4. CASE UNCHANGED <<card, cardVars>> BY <2>1, <2>4 DEF cardVars, CardInv, CardOK
    <2> QED BY <2>2, <2>3, <2>4
<1>7. CASE MenuTick \/ ProbeKeeps \/ ProbeGone \/ Sweep
    BY <1>7 DEF MenuTick, ProbeKeeps, ProbeGone, Sweep, Idle, cardVars, CardInv, CardOK
<1>8. CASE CardLost BY <1>8 DEF CardLost, Idle, CardInv, CardOK
<1>9. CASE CardStays \/ Repeat \/ Scroll
    BY <1>9 DEF CardStays, Repeat, Scroll, Idle, cardVars, CardInv, CardOK
<1>10. CASE DropPad BY <1>10 DEF DropPad, cardVars, CardInv, CardOK
<1>11. CASE UNCHANGED vars BY <1>11 DEF vars, pageVars, cardVars, CardInv, CardOK
<1>12. CASE NewDocument /\ UNCHANGED <<turns, cardVars, menuVars, inputVars>>
    BY <1>12 DEF NewDocument, cardVars, CardInv, CardOK
<1> QED
    BY <1>1, <1>2, <1>3, <1>4, <1>5, <1>6, <1>7, <1>8, <1>9, <1>10, <1>11, <1>12
       DEF Next, InputStep, NavigatorThread

LEMMA PadStep == ASSUME PadOK, [Next]_vars PROVE PadOK'
<1> DEFINE Pads == [hat : Pushed, right : Pushed, y : BOOLEAN]
<1>1. CASE User
    <2>1. Act BY <1>1 DEF User, UserActs, PushHat, PushRight, PressButton, ReleaseY, Unplug, Plug
    <2>2. acts' \in 0 .. MaxActs BY <2>1, InputAssumption DEF Act, PadOK
    <2>3. plugged' \in BOOLEAN
        BY <1>1 DEF User, UserActs, PushHat, PushRight, PressButton, ReleaseY, Unplug, Plug, PadOK
    <2>4. pad' \in Pads
        <3>1. pad \in Pads BY DEF PadOK
        <3>2. ASSUME NEW d \in Pushed, PushHat(d) PROVE pad' \in Pads
            BY <3>1, <3>2 DEF PushHat
        <3>3. ASSUME NEW d \in Pushed, PushRight(d) PROVE pad' \in Pads
            BY <3>1, <3>3 DEF PushRight
        <3>4. ASSUME NEW b \in Buttons, PressButton(b) PROVE pad' \in Pads
            <4>1. (pad.y \/ b = "y") \in BOOLEAN OBVIOUS
            <4>2. pad' = [pad EXCEPT !.y = (pad.y \/ b = "y")] BY <3>4 DEF PressButton
            <4> QED BY <3>1, <4>1, <4>2
        <3>5. CASE ReleaseY BY <3>1, <3>5 DEF ReleaseY
        <3>6. CASE Unplug BY <3>6 DEF Unplug, Released, Pushed
        <3>7. CASE Plug BY <3>1, <3>7 DEF Plug
        <3> QED BY <1>1, <3>2, <3>3, <3>4, <3>5, <3>6, <3>7 DEF User, UserActs
    <2> QED BY <2>2, <2>3, <2>4 DEF PadOK
<1>2. CASE ~User
    <2>1. UNCHANGED padVars
        BY <1>2 DEF Next, vars, Time, HoldElapses, Engine, NavigatorThread, InputStep, Poll,
           HandleEvent, MenuTick, ProbeKeeps, ProbeGone, Sweep, CardLost, CardStays, Repeat, Scroll,
           DropPad, Idle, inputVars
    <2> QED BY <2>1 DEF padVars, PadOK
<1> QED BY <1>1, <1>2

LEMMA Inductive == Spec => []IInv
<1>1. Init => IInv BY FocusInit, RestInit DEF IInv
<1>2. IInv /\ [Next]_vars => IInv'
    BY FocusStep, QueueStep, CardStep, PadStep DEF IInv
<1> QED BY <1>1, <1>2, PTL DEF Spec

\* The fields of the input thread, the menu and the card keep their types.
THEOREM TypeCorrect == Spec => []TypeOK
<1> QED BY Inductive, Typing, PTL

\* Every menu on screen has the launcher's buttons, up to a lost opening or an unsent closing.
THEOREM MenuIsCaptured == Spec => []PaintedIsCaptured
<1>1. IInv => PaintedIsCaptured BY DEF IInv, FocusInv, MenuInv
<1> QED BY <1>1, Inductive, PTL

\* One control at a time moves the focus.
THEOREM OneMoves == Spec => []OneMover
<1>1. IInv => OneMover BY DEF IInv, FocusInv
<1> QED BY <1>1, Inductive, PTL

-----------------------------------------------------------------------------
(***************************************************************************)
(* A direction that repeats is held.                                       *)
(*                                                                         *)
(* It is the events under way that make the invariant: whatever the last   *)
(* of them says of the D-pad is what the user holds, and where none says   *)
(* anything the thread already agrees with the user.                       *)
(***************************************************************************)
Tells(e) == e.kind \in {"hat", "dropped"}

Quiet(q) == \A i \in 1 .. Len(q) : ~Tells(q[i])

\* The last event that tells anything, if it is of the D-pad, tells what the user holds.
Settles(q) ==
    \A i \in 1 .. Len(q) :
        q[i].kind = "hat" /\ (\A j \in i + 1 .. Len(q) : ~Tells(q[j])) => q[i].arg = pad.hat

Agrees == dir \in {None, pad.hat} \/ swallowed

HeldInv ==
    /\ fd # "open" => queue = <<>>
    /\ fd = "none" => dir = None /\ evs = <<>>
    /\ fd = "open" => /\ Settles(queue)
                      /\ Quiet(queue) => Settles(evs)
                      /\ Quiet(queue) /\ Quiet(evs) => Agrees

LEMMA NoEvents == Quiet(<<>>) /\ Settles(<<>>)
BY DEF Quiet, Settles

LEMMA HeldInit == Init => HeldInv
BY NoEvents DEF Init, InputInit, HeldInv, Agrees

\* Letting go of the direction, or leaving it alone, is always right.
LEMMA HeldFrame ==
    ASSUME HeldInv, UNCHANGED <<fd, queue, evs, pad>>,
           dir' = None \/ (dir' = dir /\ (swallowed => swallowed'))
    PROVE  HeldInv'
<1>1. Settles(queue)' = Settles(queue) /\ Settles(evs)' = Settles(evs) BY DEF Settles
<1>2. Agrees => Agrees' BY DEF Agrees
<1>3. dir' = None => Agrees' BY DEF Agrees
<1>4. dir = None => dir' = None OBVIOUS
<1> QED BY <1>1, <1>2, <1>3, <1>4 DEF HeldInv

\* A new event of the pad: full buffer or not, the last word is the event's, or nobody's.
LEMMA HeldEmit ==
    ASSUME HeldInv, QueueOK, NEW e \in Events, Emit(e), UNCHANGED <<fd, evs, dir, swallowed>>,
           e.kind # "dropped",
           IF e.kind = "hat" THEN pad'.hat = e.arg ELSE pad'.hat = pad.hat
    PROVE  HeldInv'
<1>1. CASE fd # "open"
    BY <1>1 DEF Emit, HeldInv
<1>2. CASE fd = "open" /\ Len(queue) < MaxQueue
    <2>1. queue' = Append(queue, e) BY <1>2 DEF Emit
    <2>2. /\ Len(queue') = Len(queue) + 1 /\ Len(queue) \in Nat
          /\ \A i \in 1 .. Len(queue) : queue'[i] = queue[i]
          /\ queue'[Len(queue) + 1] = e
        BY <2>1, AppendProperties, LenProperties DEF QueueOK
    <2>3. CASE e.kind = "hat"
        <3>1. ~Quiet(queue')
            <4>1. Len(queue) + 1 \in 1 .. Len(queue') BY <2>2
            <4> QED BY <2>2, <2>3, <4>1 DEF Quiet, Tells
        <3>2. Settles(queue)'
            <4> SUFFICES ASSUME NEW i \in 1 .. Len(queue'), queue'[i].kind = "hat",
                                \A j \in i + 1 .. Len(queue') : ~Tells(queue'[j])
                         PROVE  queue'[i].arg = pad'.hat
                BY DEF Settles
            <4>1. i = Len(queue) + 1
                <5> SUFFICES ASSUME i # Len(queue) + 1 PROVE FALSE
                    OBVIOUS
                <5>1. Len(queue) + 1 \in i + 1 .. Len(queue') BY <2>2
                <5> QED BY <2>2, <2>3, <5>1 DEF Tells
            <4> QED BY <2>2, <2>3, <4>1
        <3> QED BY <1>2, <3>1, <3>2 DEF HeldInv
    <2>4. CASE e.kind # "hat"
        <3>0. pad'.hat = pad.hat BY <2>4
        <3>1. Quiet(queue') => Quiet(queue)
            <4> SUFFICES ASSUME Quiet(queue'), NEW i \in 1 .. Len(queue) PROVE ~Tells(queue[i])
                BY DEF Quiet
            <4>1. i \in 1 .. Len(queue') BY <2>2
            <4> QED BY <2>2, <4>1 DEF Quiet
        <3>2. Settles(queue)'
            <4> SUFFICES ASSUME NEW i \in 1 .. Len(queue'), queue'[i].kind = "hat",
                                \A j \in i + 1 .. Len(queue') : ~Tells(queue'[j])
                         PROVE  queue'[i].arg = pad'.hat
                BY DEF Settles
            <4>1. i \in 1 .. Len(queue) BY <2>2, <2>4
            <4>2. \A j \in i + 1 .. Len(queue) : ~Tells(queue[j])
                <5> TAKE j \in i + 1 .. Len(queue)
                <5>1. j \in i + 1 .. Len(queue') /\ j \in 1 .. Len(queue) BY <2>2, <4>1
                <5> QED BY <2>2, <5>1
            <4>3. queue[i].kind = "hat" BY <2>2, <4>1
            <4>4. Settles(queue) BY <1>2 DEF HeldInv
            <4> QED BY <2>2, <3>0, <4>1, <4>2, <4>3, <4>4 DEF Settles
        <3>3. Settles(evs) => Settles(evs)' BY <3>0 DEF Settles
        <3>4. Agrees => Agrees' BY <3>0 DEF Agrees
        <3> QED BY <1>2, <3>1, <3>2, <3>3, <3>4 DEF HeldInv
    <2> QED BY <2>3, <2>4
<1>3. CASE fd = "open" /\ ~(Len(queue) < MaxQueue)
    <2>1. queue' = <<Ev("dropped", None), e>> BY <1>3 DEF Emit
    <2>2. Len(queue') = 2 /\ queue'[1].kind = "dropped" /\ queue'[2] = e BY <2>1 DEF Ev
    <2>3. ~Quiet(queue') BY <2>2 DEF Quiet, Tells
    <2>4. Settles(queue)'
        <3> SUFFICES ASSUME NEW i \in 1 .. Len(queue'), queue'[i].kind = "hat"
                     PROVE  queue'[i].arg = pad'.hat
            BY DEF Settles
        <3>1. i = 2 BY <2>2
        <3> QED BY <2>2, <3>1
    <2> QED BY <1>3, <2>3, <2>4 DEF HeldInv
<1> QED BY <1>1, <1>2, <1>3

LEMMA HeldUser == ASSUME HeldInv, QueueOK, PadOK, UserActs PROVE HeldInv'
<1> DEFINE Pads == [hat : Pushed, right : Pushed, y : BOOLEAN]
<1>1. pad \in Pads BY DEF PadOK
<1>2. ASSUME NEW d \in Pushed, PushHat(d) PROVE HeldInv'
    <2>1. Ev("hat", d) \in Events /\ Ev("hat", d).kind = "hat" /\ Ev("hat", d).arg = d
        BY DEF Ev, Events
    <2>2. pad'.hat = d BY <1>1, <1>2 DEF PushHat
    <2> QED BY <1>2, <2>1, <2>2, HeldEmit DEF PushHat, axisVars
<1>3. ASSUME NEW d \in Pushed, PushRight(d) PROVE HeldInv'
    <2>1. Ev("right", d) \in Events /\ Ev("right", d).kind = "right" BY DEF Ev, Events
    <2>2. pad'.hat = pad.hat BY <1>1, <1>3 DEF PushRight
    <2> QED BY <1>3, <2>1, <2>2, HeldEmit DEF PushRight, axisVars
<1>4. ASSUME NEW b \in Buttons, PressButton(b) PROVE HeldInv'
    <2>1. Ev("press", b) \in Events /\ Ev("press", b).kind = "press" BY DEF Ev, Events
    <2>2. pad' = [pad EXCEPT !.y = (pad.y \/ b = "y")] BY <1>4 DEF PressButton
    <2>3. pad'.hat = pad.hat BY <1>1, <2>2
    <2> QED BY <1>4, <2>1, <2>3, HeldEmit DEF PressButton, axisVars
<1>5. CASE ReleaseY
    <2>1. Ev("release", "y") \in Events /\ Ev("release", "y").kind = "release"
        BY DEF Ev, Events, Buttons
    <2>2. pad'.hat = pad.hat BY <1>1, <1>5 DEF ReleaseY
    <2> QED BY <1>5, <2>1, <2>2, HeldEmit DEF ReleaseY, axisVars
<1>6. CASE Unplug BY <1>6 DEF Unplug, axisVars, HeldInv
<1>7. CASE Plug BY <1>7, HeldFrame DEF Plug, axisVars
<1> QED BY <1>2, <1>3, <1>4, <1>5, <1>6, <1>7 DEF UserActs

\* What an event does to the direction: a telling one is obeyed, unless the card swallows it.
LEMMA EventTells ==
    ASSUME HandleEvent, AxisOK, NEW e, e = Head(evs), e \in Events
    PROVE  /\ e.kind = "dropped" => dir' = None
           /\ e.kind = "hat" => dir' \in {None, e.arg} \/ swallowed'
           /\ ~Tells(e) => dir' = dir /\ (swallowed => swallowed')
<1>1. CASE e.kind = "dropped" /\ DropHeld
    BY <1>1 DEF DropHeld, Tells
<1>2. CASE e.kind # "dropped" /\ UnderCard(e)
    BY <1>2 DEF UnderCard, Tells
<1>3. CASE e.kind # "dropped" /\ UNCHANGED axisVars /\ e.kind \in {"press", "release"}
    BY <1>3 DEF axisVars, Tells
<1>4. CASE e.kind \in {"hat", "right"} /\ Steer(e)
    BY <1>4 DEF Steer, SetDirection, Tells
<1>5. ASSUME InMenu(e) \/ InApp(e)
      PROVE  \/ UNCHANGED axisVars /\ e.kind \in {"press", "release"}
             \/ e.kind \in {"hat", "right"} /\ Steer(e)
    BY <1>5 DEF InMenu, InApp, MenuPress, MenuRelease, Ev
<1> QED BY <1>1, <1>2, <1>3, <1>4, <1>5 DEF HandleEvent

LEMMA HeldEvent == ASSUME HeldInv, QueueOK, AxisOK, HandleEvent PROVE HeldInv'
<1> DEFINE e == Head(evs)
           q == Tail(evs)
<1>1. evs \in Seq(Events) /\ evs # <<>> BY DEF HandleEvent, QueueOK
<1>2. /\ Len(q) = Len(evs) - 1 /\ Len(evs) >= 1
      /\ \A i \in 1 .. Len(q) : q[i] = evs[i + 1]
      /\ e = evs[1]
    BY <1>1, TailOf
<1>3. Len(evs) \in Nat /\ e \in Events BY <1>1, LenProperties, HeadTailProperties
<1>4. UNCHANGED <<fd, queue, pad>> /\ evs' = q BY DEF HandleEvent, padVars
<1>5. /\ e.kind = "dropped" => dir' = None
      /\ e.kind = "hat" => dir' \in {None, e.arg} \/ swallowed'
      /\ ~Tells(e) => dir' = dir /\ (swallowed => swallowed')
    BY <1>3, EventTells
<1>6. fd # "none" BY <1>1 DEF HeldInv
<1>7. ASSUME Settles(evs) PROVE Settles(q)
    <2> SUFFICES ASSUME NEW i \in 1 .. Len(q), q[i].kind = "hat",
                        \A j \in i + 1 .. Len(q) : ~Tells(q[j])
                 PROVE  q[i].arg = pad.hat
        BY DEF Settles
    <2>1. i + 1 \in 1 .. Len(evs) /\ q[i] = evs[i + 1] BY <1>2, <1>3
    <2>2. \A j \in (i + 1) + 1 .. Len(evs) : ~Tells(evs[j])
        <3> TAKE j \in (i + 1) + 1 .. Len(evs)
        <3>1. j - 1 \in i + 1 .. Len(q) /\ j - 1 \in 1 .. Len(q) BY <1>2, <1>3
        <3>2. q[j - 1] = evs[(j - 1) + 1] /\ (j - 1) + 1 = j BY <1>2, <3>1
        <3> QED BY <3>1, <3>2
    <2> QED BY <1>7, <2>1, <2>2 DEF Settles
<1>8. Settles(queue)' = Settles(queue) /\ Settles(evs)' = Settles(q) BY <1>4 DEF Settles
<1>9. ASSUME fd = "open", Quiet(queue), Quiet(q) PROVE Agrees'
    <2>1. \A j \in 1 + 1 .. Len(evs) : ~Tells(evs[j])
        <3> TAKE j \in 1 + 1 .. Len(evs)
        <3>1. j - 1 \in 1 .. Len(q) BY <1>2, <1>3
        <3>2. q[j - 1] = evs[(j - 1) + 1] /\ (j - 1) + 1 = j BY <1>2, <3>1
        <3> QED BY <1>9, <3>1, <3>2 DEF Quiet
    <2>2. CASE e.kind = "dropped" BY <1>5, <2>2 DEF Agrees
    <2>3. CASE e.kind = "hat"
        <3>1. Settles(evs) BY <1>9 DEF HeldInv
        <3>2. 1 \in 1 .. Len(evs) BY <1>2, <1>3
        <3>3. e.arg = pad.hat BY <1>2, <2>1, <2>3, <3>1, <3>2 DEF Settles
        <3> QED BY <1>4, <1>5, <2>3, <3>3 DEF Agrees
    <2>4. CASE ~Tells(e)
        <3>1. Quiet(evs)
            <4> SUFFICES ASSUME NEW j \in 1 .. Len(evs) PROVE ~Tells(evs[j])
                BY DEF Quiet
            <4>1. j = 1 \/ j \in 1 + 1 .. Len(evs) BY <1>3
            <4> QED BY <1>2, <2>1, <2>4, <4>1
        <3>2. Agrees BY <1>9, <3>1 DEF HeldInv
        <3> QED BY <1>4, <1>5, <2>4, <3>2 DEF Agrees
    <2> QED BY <2>2, <2>3, <2>4 DEF Tells
<1> QED BY <1>4, <1>6, <1>7, <1>8, <1>9 DEF HeldInv

LEMMA HeldHousekeeping ==
    ASSUME HeldInv, MenuTick \/ ProbeKeeps \/ ProbeGone \/ Sweep \/ CardLost \/ CardStays \/ Repeat
                    \/ Scroll
    PROVE  HeldInv'
<1>1. UNCHANGED <<fd, queue, evs, pad>>
    BY DEF MenuTick, ProbeKeeps, ProbeGone, Sweep, CardLost, CardStays, Repeat, Scroll, Idle, padVars
<1>2. CASE MenuTick \/ ProbeKeeps \/ ProbeGone \/ Sweep \/ CardLost \/ Repeat
    <2>1. UNCHANGED <<dir, swallowed>>
        BY <1>2 DEF MenuTick, ProbeKeeps, ProbeGone, Sweep, CardLost, Repeat, axisVars
    <2> QED BY <1>1, <2>1, HeldFrame
<1>3. CASE CardStays BY <1>1, <1>3, HeldFrame DEF CardStays, SetDirection
<1>4. CASE Scroll BY <1>1, <1>4, HeldFrame DEF Scroll, SetDirection, axisVars
<1> QED BY <1>2, <1>3, <1>4

LEMMA HeldPoll == ASSUME HeldInv, QueueOK, Poll PROVE HeldInv'
<1>1. evs = <<>> BY DEF Poll, QueueOK
<1>2. /\ evs' = queue /\ queue' = <<>> /\ UNCHANGED <<dir, swallowed, pad>>
      /\ fd' = "none" => fd = "none"
      /\ fd' = "open" => fd \in {"none", "open"}
    BY DEF Poll, axisVars, padVars, QueueOK
<1>3. Settles(evs)' = Settles(queue) /\ (Agrees <=> Agrees') BY <1>2 DEF Settles, Agrees
<1>4. Quiet(queue') /\ Settles(queue)' BY <1>2, NoEvents DEF Settles, Quiet
<1>5. CASE fd = "none"
    <2>1. queue = <<>> /\ dir = None BY <1>5 DEF HeldInv
    <2>2. Agrees' BY <1>2, <2>1 DEF Agrees
    <2>3. Settles(evs)' BY <1>3, <2>1, NoEvents
    <2> QED BY <1>2, <1>4, <2>1, <2>2, <2>3 DEF HeldInv
<1>6. CASE fd = "open"
    <2>1. Settles(queue) /\ (Quiet(queue) => Agrees) BY <1>1, <1>6, NoEvents DEF HeldInv
    <2> QED BY <1>2, <1>3, <1>4, <1>6, <2>1 DEF HeldInv
<1>7. CASE fd \notin {"none", "open"} BY <1>2, <1>7 DEF HeldInv
<1> QED BY <1>5, <1>6, <1>7

LEMMA HeldDropPad == ASSUME HeldInv, QueueOK, DropPad, fd # "open" PROVE HeldInv'
<1>1. evs' = <<>> /\ queue' = <<>> /\ dir' = None
    BY DEF DropPad, DropHeld, QueueOK, HeldInv
<1>2. Settles(queue)' /\ Settles(evs)' BY <1>1, NoEvents DEF Settles
<1> QED BY <1>1, <1>2 DEF HeldInv, Agrees

\* A pad is given up only once it is gone.
LostInv == ipc = "drop" => fd = "gone"

LEMMA LostStep == ASSUME QueueOK, LostInv, [Next]_vars PROVE LostInv'
<1>1. CASE User
    <2>1. UNCHANGED ipc /\ (fd = "gone" => fd' = "gone")
        BY <1>1 DEF User, UserActs, PushHat, PushRight, PressButton, ReleaseY, Unplug, Plug
    <2> QED BY <2>1 DEF LostInv
<1>2. CASE ~User /\ ~InputStep
    BY <1>2 DEF Next, vars, Time, HoldElapses, Engine, NavigatorThread, inputVars, LostInv
<1>3. CASE InputStep /\ ~Scroll
    <2>1. ipc' # "drop"
        BY <1>3 DEF InputStep, Poll, HandleEvent, AfterEvent, MenuTick, ProbeKeeps, ProbeGone, Sweep,
           CardLost, CardStays, Repeat, DropPad
    <2> QED BY <2>1 DEF LostInv
<1>4. CASE Scroll BY <1>4 DEF Scroll, Idle, LostInv
<1> QED BY <1>1, <1>2, <1>3, <1>4

HeldIInv == IInv /\ LostInv /\ HeldInv

LEMMA HeldStep == ASSUME HeldIInv, [Next]_vars PROVE HeldInv'
<1> USE DEF HeldIInv, IInv
<1>1. CASE User BY <1>1, HeldUser DEF User
<1>2. CASE Time BY <1>2, HeldFrame DEF Time, HoldElapses, axisVars, padVars
<1>3. CASE Engine \/ NavigatorThread
    BY <1>3, HeldFrame DEF Engine, NavigatorThread, inputVars, axisVars, padVars
<1>4. CASE Poll BY <1>4, HeldPoll
<1>5. CASE HandleEvent BY <1>5, HeldEvent DEF FocusInv
<1>6. CASE DropPad
    <2>1. fd # "open" BY <1>6 DEF DropPad, LostInv
    <2> QED BY <1>6, <2>1, HeldDropPad
<1>7. CASE UNCHANGED vars BY <1>7, HeldFrame DEF vars, inputVars, axisVars, padVars
<1> QED
    BY <1>1, <1>2, <1>3, <1>4, <1>5, <1>6, <1>7, HeldHousekeeping DEF Next, InputStep

\* A direction that repeats is held, however many events were lost, unless the card swallowed its
\* release.
THEOREM OnlyHeldRepeats == Spec => []RepeatsWhatIsHeld
<1>1. Init => LostInv /\ HeldInv BY HeldInit DEF Init, InputInit, LostInv
<1>2. IInv /\ LostInv /\ HeldInv /\ [Next]_vars => (LostInv /\ HeldInv)'
    BY HeldStep, LostStep DEF HeldIInv, IInv
<1>3. IInv /\ HeldInv => RepeatsWhatIsHeld
    <2> SUFFICES ASSUME IInv, HeldInv, ipc = "poll", fd = "open", queue = <<>>
                 PROVE  dir \in {None, pad.hat} \/ swallowed
        BY DEF RepeatsWhatIsHeld
    <2>1. evs = <<>> BY DEF IInv, QueueOK
    <2> QED BY <2>1, NoEvents DEF HeldInv, Agrees
<1> QED BY <1>1, <1>2, <1>3, Inductive, PTL DEF Spec

-----------------------------------------------------------------------------
(***************************************************************************)
(* The navigator's thread.                                                 *)
(***************************************************************************)

LEMMA NavigatorStart == NavigatorInit => NavigatorTypeOK
<1>1. 0 \in 0 .. MaxTurns BY PageAssumption
<1> QED
    BY <1>1 DEF NavigatorInit, PageInit, CardInit, MenuInit, NavInit, NavigatorTypeOK, PageOK, CardOK,
                MenuOK, NavOK, Menus

\* What the page does to itself and what is done to the card and the menu is typed whoever does it.
LEMMA SharedTyped ==
    ASSUME NavigatorTypeOK, [NavigatorNext]_navigatorVars
    PROVE  PageOK' /\ CardOK' /\ MenuOK'
<1> USE DEF NavigatorTypeOK, PageOK, CardOK, MenuOK
<1>1. CASE Arm \/ LookAtPage \/ TakeRetry \/ CheckError \/ RetryDue \/ TryAgain \/ DrawError
    BY <1>1 DEF Arm, LookAtPage, TakeRetry, CheckError, RetryDue, TryAgain, DrawError, pageVars,
                cardVars, menuVars
<1>2. CASE ShowCard
    BY <1>2 DEF ShowCard, Show, Replies, cardVars, menuVars
<1>3. CASE FlagReload
    BY <1>3 DEF FlagReload, OnPageReloaded, pageVars, cardVars
<1>4. CASE NavigateOk \/ NavigateFailed \/ NavigateSilent \/ NavigateBlank
    <2>1. UNCHANGED <<turns, cardVars, menuVars>>
        BY <1>4 DEF NavigateOk, NavigateFailed, NavigateSilent, NavigateBlank
    <2>2. (menu' = "none" /\ card' = FALSE) \/ UNCHANGED <<menu, card>>
        BY <1>4 DEF NavigateOk, NavigateFailed, NavigateSilent, NavigateBlank, Document, NewDocument
    <2> QED BY <2>1, <2>2 DEF cardVars, menuVars, Menus
<1>5. CASE PageMoves
    <2>1. UNCHANGED <<cardVars, menuVars>> /\ card' = FALSE /\ Turn
        BY <1>5 DEF PageMoves, Reload, Rebuild, Document, NewDocument
    <2>2. menu' \in Menus BY <1>5 DEF PageMoves, Reload, Rebuild, NewDocument, Menus
    <2>3. turns' \in 0 .. MaxTurns BY <2>1, PageAssumption DEF Turn
    <2> QED BY <2>1, <2>2, <2>3 DEF cardVars, menuVars
<1>6. CASE InputThread
    BY <1>6 DEF InputThread, Hide, Replies, cardVars
<1>7. CASE UNCHANGED navigatorVars
    BY <1>7 DEF navigatorVars, pageVars, cardVars, menuVars
<1> QED BY <1>1, <1>2, <1>3, <1>4, <1>5, <1>6, <1>7 DEF NavigatorNext, NavStep

LEMMA OwnTyped ==
    ASSUME NavigatorTypeOK, [NavigatorNext]_navigatorVars
    PROVE  NavOK'
<1> USE DEF NavigatorTypeOK, NavOK
<1>1. CASE Arm \/ LookAtPage \/ CheckError \/ RetryDue \/ TryAgain
    BY <1>1 DEF Arm, LookAtPage, CheckError, RetryDue, TryAgain, docVars, navVars
<1>2. CASE ShowCard \/ FlagReload
    BY <1>2 DEF ShowCard, FlagReload, docVars
<1>3. CASE TakeRetry
    BY <1>3 DEF TakeRetry, Replies
<1>4. CASE NavigateOk \/ NavigateFailed \/ NavigateSilent
    BY <1>4 DEF NavigateOk, NavigateFailed, NavigateSilent, Document, docVars
<1>5. CASE NavigateBlank
    BY <1>5 DEF NavigateBlank, Document, docVars
<1>6. CASE DrawError
    BY <1>6 DEF DrawError, Replies
<1>7. CASE PageMoves \/ InputThread \/ UNCHANGED navigatorVars
    BY <1>7 DEF PageMoves, InputThread, Document, navigatorVars, docVars, navVars
<1> QED BY <1>1, <1>2, <1>3, <1>4, <1>5, <1>6, <1>7 DEF NavigatorNext, NavStep

\* The fields of the navigator's thread and of what it shares keep their types, and the hook runs only
\* for a load that is noted as announced.
THEOREM NavigatorTyped == NavigatorSpec => []NavigatorTypeOK
<1>1. NavigatorTypeOK /\ [NavigatorNext]_navigatorVars => NavigatorTypeOK'
    BY SharedTyped, OwnTyped DEF NavigatorTypeOK
<1> QED BY <1>1, NavigatorStart, PTL DEF NavigatorSpec

\* After an announced load, the hook's promise is broken by a load past a vanished error page, by a
\* navigation without an answer and by a load the navigator had no part in, and by nothing else.
THEOREM HookMisses == NavigatorSpec => MissedLoads
<1> DEFINE Known == Missed' => Missed \/ (announced /\ (npc = "renavigate" \/ NavigateSilent \/ (PageMoves /\ loc' = "app")))
<1>1. ASSUME [NavigatorNext]_navigatorVars PROVE Known
    <2>1. CASE Arm \/ TakeRetry \/ CheckError \/ DrawError
        BY <2>1 DEF Arm, TakeRetry, CheckError, DrawError, Missed
    <2>2. CASE LookAtPage
        BY <2>2 DEF LookAtPage, Missed
    <2>3. CASE ShowCard \/ FlagReload
        BY <2>3 DEF ShowCard, FlagReload, Missed
    <2>4. CASE NavigateOk
        BY <2>4 DEF NavigateOk, Missed
    <2>5. CASE NavigateFailed \/ NavigateBlank
        BY <2>5 DEF NavigateFailed, NavigateBlank, Missed
    <2>6. CASE NavigateSilent
        BY <2>6 DEF NavigateSilent, Missed
    <2>7. CASE PageMoves
        <3>1. CASE loc' = "app"
            BY <2>7, <3>1 DEF PageMoves, Missed
        <3>2. CASE loc' # "app"
            BY <2>7, <3>2 DEF PageMoves, Document, Missed
        <3> QED BY <3>1, <3>2
    <2>8. CASE RetryDue \/ TryAgain \/ InputThread \/ UNCHANGED navigatorVars
        BY <2>8 DEF RetryDue, TryAgain, InputThread, navigatorVars, navVars, Missed
    <2> QED BY <1>1, <2>1, <2>2, <2>3, <2>4, <2>5, <2>6, <2>7, <2>8 DEF NavigatorNext, NavStep
<1>2. [NavigatorNext]_navigatorVars => [Known]_navigatorVars
    BY <1>1
<1> QED BY <1>2, PTL DEF NavigatorSpec, MissedLoads

-----------------------------------------------------------------------------
(***************************************************************************)
(* The two threads over one page.                                          *)
(***************************************************************************)

\* What the navigator's thread does, the input thread expects.
LEMMA NavigatorIsExpected ==
    ASSUME NavStep, UNCHANGED inputVars
    PROVE  NavigatorThread \/ UNCHANGED vars
<1>1. CASE Arm \/ LookAtPage \/ TakeRetry \/ CheckError \/ DrawError
    BY <1>1 DEF Arm, LookAtPage, TakeRetry, CheckError, DrawError, vars
<1>2. CASE ShowCard
    BY <1>2 DEF ShowCard, NavigatorThread
<1>3. CASE FlagReload
    BY <1>3 DEF FlagReload, NavigatorThread
<1>4. CASE NavigateOk \/ NavigateFailed \/ NavigateSilent \/ NavigateBlank
    <2>1. UNCHANGED <<turns, cardVars, menuVars>>
        BY <1>4 DEF NavigateOk, NavigateFailed, NavigateSilent, NavigateBlank
    <2>2. NewDocument \/ UNCHANGED <<menu, card>>
        BY <1>4 DEF NavigateOk, NavigateFailed, NavigateSilent, NavigateBlank, Document
    <2> QED BY <2>1, <2>2 DEF NavigatorThread, vars, pageVars
<1> QED BY <1>1, <1>2, <1>3, <1>4 DEF NavStep

LEMMA ServesInput == [ThreadsNext]_threadsVars => [Next]_vars
<1> SUFFICES ASSUME [ThreadsNext]_threadsVars PROVE [Next]_vars
    OBVIOUS
<1>1. CASE NavStep /\ UNCHANGED inputVars
    BY <1>1, NavigatorIsExpected DEF Next
<1>2. CASE (RetryDue \/ TryAgain) /\ UNCHANGED inputVars
    BY <1>2 DEF RetryDue, TryAgain, vars
<1>3. CASE InputTurn
    BY <1>3 DEF InputTurn, Next
<1>4. CASE PageTurn
    BY <1>4 DEF PageTurn, PageMoves, Engine, Next
<1>5. CASE UNCHANGED threadsVars
    BY <1>5 DEF threadsVars, vars
<1> QED BY <1>1, <1>2, <1>3, <1>4, <1>5 DEF ThreadsNext, NavigatorTurn

\* Whatever navigator.cpp does to the page beside it, the input thread is the one GamepadInput says it
\* is: all that is shown of it there holds with the real navigator in the place of any other.
THEOREM InputServed == ThreadsSpec => InputIsServed
<1>1. ThreadsInit => Init BY DEF ThreadsInit
<1> QED BY <1>1, ServesInput, PTL DEF ThreadsSpec, InputIsServed, Spec

\* No operation of the menu flags a reload or takes the flag.
LEMMA MenuKeepsFlag ==
    ASSUME Dispatch \/ MenuQuiet \/ OpenMenu \/ (\E cmd \in DOMAIN LiveVerdicts : Exec(cmd))
    PROVE  reloaded' = reloaded
<1>1. CASE MenuQuiet BY <1>1 DEF MenuQuiet, menuVars
<1>2. CASE OpenMenu BY <1>2 DEF OpenMenu
<1>3. ASSUME NEW cmd, Exec(cmd) PROVE reloaded' = reloaded BY <1>3 DEF Exec, Obey
<1> QED BY <1>1, <1>2, <1>3 DEF Dispatch

\* What an event does to the card and the flag.
LEMMA EventIsExpected ==
    ASSUME HandleEvent
    PROVE  /\ (cardUp /\ Hide) \/ UNCHANGED <<card, cardVars>>
           /\ reloaded' = reloaded
<1>1. PICK e : \/ e.kind = "dropped" /\ DropHeld /\ UNCHANGED <<card, cardVars>>
               \/ e.kind # "dropped" /\ (InMenu(e) \/ UnderCard(e) \/ InApp(e))
    BY DEF HandleEvent
<1>2. ASSUME Steer(e) PROVE reloaded' = reloaded
    BY <1>2, MenuKeepsFlag DEF Steer, SetDirection
<1>3. CASE DropHeld /\ UNCHANGED <<card, cardVars>>
    BY <1>3, MenuKeepsFlag DEF DropHeld, LiveVerdicts
<1>4. CASE InMenu(e)
    <2>1. UNCHANGED <<card, cardVars>>
        BY <1>4 DEF InMenu, MenuPress, MenuRelease
    <2>2. reloaded' = reloaded
        BY <1>2, <1>4, MenuKeepsFlag DEF InMenu, MenuPress, MenuRelease, LiveVerdicts, Obey
    <2> QED BY <2>1, <2>2
<1>5. CASE UnderCard(e)
    BY <1>5, MenuKeepsFlag DEF UnderCard
<1>6. CASE InApp(e)
    BY <1>2, <1>6, MenuKeepsFlag DEF InApp
<1> QED BY <1>1, <1>3, <1>4, <1>5, <1>6

\* What the input thread does to the card and the flag, the navigator's thread expects.
LEMMA InputIsExpected ==
    ASSUME InputStep
    PROVE  /\ \/ cardUp /\ Hide
              \/ CardGone /\ cardUp' = FALSE /\ UNCHANGED <<card, marked>>
              \/ UNCHANGED <<card, cardVars>>
           /\ reloaded' \in {reloaded, FALSE}
           /\ turns' = turns
<1>1. CASE Poll BY <1>1 DEF Poll, pageVars, menuVars
<1>2. CASE HandleEvent
    BY <1>2, EventIsExpected DEF HandleEvent
<1>3. CASE MenuTick BY <1>3 DEF MenuTick, Idle
<1>4. CASE ProbeKeeps \/ ProbeGone \/ Sweep
    BY <1>4 DEF ProbeKeeps, ProbeGone, Sweep, Idle, menuVars
<1>5. CASE CardLost BY <1>5 DEF CardLost, Idle, menuVars
<1>6. CASE CardStays
    BY <1>6, MenuKeepsFlag DEF CardStays, SetDirection, Idle
<1>7. CASE Repeat
    BY <1>7, MenuKeepsFlag DEF Repeat, Idle
<1>8. CASE Scroll
    BY <1>8, MenuKeepsFlag DEF Scroll, SetDirection, Idle
<1>9. CASE DropPad
    BY <1>9, MenuKeepsFlag DEF DropPad, DropHeld, LiveVerdicts
<1> QED BY <1>1, <1>2, <1>3, <1>4, <1>5, <1>6, <1>7, <1>8, <1>9 DEF InputStep

LEMMA ServesNavigator ==
    ASSUME IInv', [ThreadsNext]_threadsVars
    PROVE  [NavigatorNext]_navigatorVars
<1>1. CASE NavigatorTurn
    BY <1>1 DEF NavigatorTurn, NavigatorNext
<1>2. CASE InputStep /\ UNCHANGED ownVars
    <2>1. menu' \in Menus /\ open' \in BOOLEAN /\ dirty' \in BOOLEAN /\ orphan' \in BOOLEAN
        BY DEF IInv, FocusInv, MenuInv, MenuOK
    <2>2. InputThread
        BY <1>2, <2>1, InputIsExpected DEF InputThread, ownVars
    <2> QED BY <2>2 DEF NavigatorNext
<1>3. CASE (User \/ Time) /\ UNCHANGED ownVars
    BY <1>3 DEF User, Time, ownVars, navigatorVars
<1>4. CASE PageTurn
    BY <1>4 DEF PageTurn, NavigatorNext
<1>5. CASE UNCHANGED threadsVars
    BY <1>5 DEF threadsVars, ownVars, navigatorVars
<1> QED BY <1>1, <1>2, <1>3, <1>4, <1>5 DEF ThreadsNext, InputTurn

\* Whatever input.cpp does to the page beside it, the navigator's thread is the one Navigator says it
\* is.
THEOREM NavigatorServed == ThreadsSpec => NavigatorIsServed
<1>1. ThreadsSpec => []IInv BY InputServed, Inductive DEF InputIsServed
<1>2. ThreadsInit => NavigatorInit BY DEF ThreadsInit
<1>3. IInv' /\ [ThreadsNext]_threadsVars => [NavigatorNext]_navigatorVars
    BY ServesNavigator
<1> QED BY <1>1, <1>2, <1>3, PTL DEF ThreadsSpec, NavigatorIsServed, NavigatorSpec
=============================================================================
