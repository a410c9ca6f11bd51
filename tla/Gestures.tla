------------------------------ MODULE Gestures ------------------------------
(***************************************************************************)
(* Touch gestures: the page's recognizer and queue                         *)
(* (config/scripts/touch_gestures.js), the router's thread that waits on   *)
(* it and acts (launcher/src/gestures.cpp), the input thread that turns    *)
(* the router on and off, and the scrub a held finger starts               *)
(* (config/scripts/hold_scrub.js).                                         *)
(*                                                                         *)
(* A gesture is a move (an arrow, a tap, Back, a seek), a hold or a        *)
(* release, with its number.  A call to the page may fail before or after  *)
(* it ran, and a reload installs a fresh script.                           *)
(***************************************************************************)
EXTENDS Naturals, Sequences

CONSTANTS
    MaxQueue,                               \* 64 in the script
    MaxGestures, MaxToggles, MaxFaults      \* bounds on a behaviour

ASSUME GesturesAssumption ==
    /\ MaxQueue \in Nat \ {0}
    /\ MaxGestures \in Nat /\ MaxToggles \in Nat /\ MaxFaults \in Nat

VARIABLES
    pageOn,      \* cfg.enabled
    configured,  \* configure() reached this instance of the script
    queue,       \* the gestures nobody has drained
    finger,      \* seq: none, down, moving, down long enough to hold, given up for a second finger
    waiter,      \* the pending long-poll: of the router, or of a request it gave up
    scrub,       \* __deckbackScrub: the rate to restore when a hold ends is kept
    video,       \* there is none, or the one there is plays at its own or at a hold's rate
    enabled,     \* enabled_
    push,        \* push_enabled_
    storing,     \* the input thread is between its two stores
    modal,       \* the menu or the first-run card owns the input
    at,          \* the router's step
    batch,       \* what it has drained and not acted on
    drop,        \* ... all but the releases
    acted,       \* the number of the last gesture acted on
    made,        \* how many gestures were made
    excuse,      \* history: a release was lost with a call, an answer, a page or a full queue
    forgot,      \* history: a finger the page forgot at a configuration is none, owed a stop
                 \* by the push of "off" to come, or crossed by an "on" before that push
    toggles, faults

pageVars == <<pageOn, configured, queue, finger, waiter>>
inputVars == <<enabled, push, storing, modal, toggles>>
routerVars == <<at, batch, drop, acted>>
videoVars == <<scrub, video>>
vars == <<pageVars, inputVars, routerVars, videoVars, made, excuse, forgot, faults>>

Gesture == [n : 1..MaxGestures, kind : {"move", "hold", "release"}]
RouterSteps == {"top", "load", "stop", "ask", "waiting", "judge", "configure", "disable", "act"}

\* What drain() answers: how the page stands, and its queue.
NoBatch == [configured |-> FALSE, on |-> TRUE, q |-> <<>>]

TypeOK ==
    /\ pageOn \in BOOLEAN /\ configured \in BOOLEAN /\ scrub \in BOOLEAN
    /\ queue \in Seq(Gesture) /\ Len(queue) <= MaxQueue
    /\ finger \in {"none", "down", "moving", "held", "second", "heldSecond"}
    /\ waiter \in {"none", "router", "nobody"}
    /\ enabled \in BOOLEAN /\ push \in BOOLEAN /\ storing \in BOOLEAN /\ modal \in BOOLEAN
    /\ at \in RouterSteps
    /\ batch.configured \in BOOLEAN /\ batch.on \in BOOLEAN /\ batch.q \in Seq(Gesture)
    /\ drop \in BOOLEAN
    /\ acted \in 0..MaxGestures /\ made \in 0..MaxGestures
    /\ video \in {"none", "own", "held"} /\ forgot \in {"none", "owed", "crossed"}
    /\ excuse \in BOOLEAN /\ toggles \in 0..MaxToggles /\ faults \in 0..MaxFaults

Init ==
    /\ pageOn = TRUE /\ configured = FALSE /\ queue = <<>> /\ finger = "none" /\ waiter = "none"
    /\ scrub = FALSE /\ enabled = TRUE /\ push = FALSE /\ storing = FALSE /\ modal = FALSE
    /\ at = "top" /\ batch = NoBatch /\ drop = FALSE /\ acted = 0 /\ made = 0
    /\ video \in {"none", "own"}
    /\ excuse = FALSE /\ forgot = "none" /\ toggles = 0 /\ faults = 0

Fault == faults < MaxFaults /\ faults' = faults + 1

-----------------------------------------------------------------------------
(* The page.                                                                *)

Release(g) == g.kind = "release"
Releases(q) == \E i \in DOMAIN q : Release(q[i])
Holds(q) == \E i \in DOMAIN q : q[i].kind = "hold"

\* Mutant of Drained: the queue is answered and kept.
DrainedKept == queue

\* What drain() leaves of the queue it answers.
Drained == <<>>

Drain == [configured |-> configured, on |-> pageOn, q |-> queue]

\* push(): a full queue loses its oldest; the gesture wakes the waiter, which is
\* the router, or nobody any more.
Push(kind) ==
    LET kept == IF Len(queue) < MaxQueue THEN queue ELSE Tail(queue)
        new == Append(kept, [n |-> made + 1, kind |-> kind])
    IN  /\ made < MaxGestures /\ made' = made + 1
        /\ queue' = IF waiter = "none" THEN new ELSE Drained
        /\ waiter' = "none"
        /\ IF waiter = "router"
           THEN batch' = [Drain EXCEPT !.q = new] /\ at' = "judge"
           ELSE UNCHANGED <<batch, at>>
        /\ excuse' = \/ excuse
                     \/ waiter = "nobody" /\ kind = "release"
                     \/ Len(queue) = MaxQueue /\ Release(Head(queue))

PageFrame == UNCHANGED <<pageOn, configured, inputVars, drop, acted, videoVars, forgot, faults>>

\* While the router is off, the page swallows touches and sees none.
FingerDown ==
    /\ pageOn /\ finger = "none" /\ finger' = "down"
    /\ UNCHANGED <<queue, waiter, batch, at, made, excuse>> /\ PageFrame

SecondFinger ==
    /\ pageOn /\ finger \in {"down", "moving", "held"}
    /\ finger' = IF finger = "held" THEN "heldSecond" ELSE "second"
    /\ UNCHANGED <<queue, waiter, batch, at, made, excuse>> /\ PageFrame

\* Past the slop, a step is an arrow at once, also of a finger that has held long enough;
\* a shorter travel is one when the finger is lifted.
Drag ==
    /\ pageOn /\ finger \in {"down", "moving", "held"}
    /\ finger' = IF finger = "held" THEN "held" ELSE "moving"
    /\ \/ Push("move")
       \/ finger = "down" /\ UNCHANGED <<queue, waiter, batch, at, made, excuse>>
    /\ PageFrame

LongPress == finger = "down" /\ finger' = "held" /\ Push("hold") /\ PageFrame

\* The last finger is lifted or cancelled: a hold is released, a short touch is a
\* move, a touch given up or too long is nothing.
FingerUp ==
    /\ pageOn /\ finger # "none" /\ finger' = "none"
    /\ \/ finger \in {"held", "heldSecond"} /\ Push("release")
       \/ finger \in {"down", "moving"} /\ Push("move")
       \/ finger \in {"down", "moving", "second"} /\ UNCHANGED <<queue, waiter, batch, at, made, excuse>>
    /\ PageFrame

\* setEnabled() as the page runs it: off forgets the queue and the touch, whose
\* release will never be queued. A waiter left over is answered.
SetEnabled(on) ==
    /\ pageOn' = on /\ waiter' = "none"
    /\ queue' = IF on THEN queue ELSE <<>>
    /\ finger' = IF on THEN finger ELSE "none"

\* A video comes or goes; one that goes takes its rate with it.
VideoChanges ==
    /\ toggles < MaxToggles /\ toggles' = toggles + 1
    /\ video' = IF video = "none" THEN "own" ELSE "none"
    /\ UNCHANGED <<pageVars, enabled, push, storing, modal, routerVars, scrub, made, excuse, forgot, faults>>

\* A fresh document: no video is scrubbed, and a pending call fails.  Its script does
\* not know the finger of a hold already drained, whose release it will not see.
Reload ==
    /\ Fault
    /\ pageOn' = TRUE /\ configured' = FALSE /\ queue' = <<>> /\ finger' = "none" /\ waiter' = "none"
    /\ scrub' = FALSE /\ video' \in {"none", "own"}
    /\ IF at = "waiting" THEN at' = "top" ELSE UNCHANGED at
    /\ excuse' = (excuse \/ (~drop /\ Holds(batch.q)))
    /\ UNCHANGED <<inputVars, batch, drop, acted, made, forgot>>

\* The page's timer ends a wait with an empty batch, also one nobody waits for.
WaitEnds ==
    /\ waiter # "none" /\ waiter' = "none"
    /\ IF waiter = "router"
       THEN batch' = Drain /\ at' = "judge"
       ELSE UNCHANGED <<batch, at>>
    /\ queue' = Drained
    /\ UNCHANGED <<finger, made, excuse>> /\ PageFrame

-----------------------------------------------------------------------------
(* The input thread.                                                        *)

\* set_enabled(): two stores, the router's thread between them. An "on" before the push of
\* an "off" leaves nothing to push but "on".
Toggle ==
    /\ toggles < MaxToggles /\ toggles' = toggles + 1
    /\ ~storing /\ storing' = TRUE
    /\ enabled' = ~enabled
    /\ forgot' = IF forgot = "owed" THEN "crossed" ELSE forgot
    /\ UNCHANGED <<pageVars, push, modal, routerVars, videoVars, made, excuse, faults>>

StorePush ==
    /\ storing /\ storing' = FALSE /\ push' = TRUE
    /\ UNCHANGED <<pageVars, enabled, modal, toggles, routerVars, videoVars, made, excuse, forgot, faults>>

ModalChanges ==
    /\ toggles < MaxToggles /\ toggles' = toggles + 1
    /\ modal' = ~modal
    /\ UNCHANGED <<pageVars, enabled, push, storing, routerVars, videoVars, made, excuse, forgot, faults>>

-----------------------------------------------------------------------------
(* The router's thread.                                                     *)

Move(from, to) == at = from /\ at' = to

\* The page's part of a call and its outcome: it ran, or it failed, and ran or not.
Ran(effect, none) == (effect /\ UNCHANGED faults) \/ (Fault /\ (effect \/ none))

TakePush ==
    /\ Move("top", IF push THEN "load" ELSE "ask") /\ push' = FALSE
    /\ UNCHANGED <<pageVars, enabled, storing, modal, toggles, batch, drop, acted, videoVars, made, excuse, forgot, faults>>

PushEnabled ==
    /\ Move("load", IF enabled THEN "ask" ELSE "stop")
    /\ Ran(SetEnabled(enabled), UNCHANGED <<pageOn, waiter, queue, finger>>)
    /\ UNCHANGED <<configured, inputVars, batch, drop, acted, videoVars, made, excuse, forgot>>

\* hold_scrub, which without a video does nothing: a hold keeps the rate to restore and
\* sets its own; a stop restores what was kept.
Scrub ==
    /\ scrub' = (scrub \/ video # "none")
    /\ video' = IF video = "none" THEN "none" ELSE "held"

Unscrub ==
    /\ scrub' = (scrub /\ video = "none")
    /\ video' = IF scrub /\ video # "none" THEN "own" ELSE video

\* Mutant of StopScrub: off relies on the release.
StopScrubNot ==
    /\ Move("stop", "ask")
    /\ UNCHANGED <<pageVars, inputVars, batch, drop, acted, videoVars, made, excuse, forgot, faults>>

\* Off stops a scrub whose release the page has forgotten.
StopScrub ==
    /\ Move("stop", "ask")
    /\ forgot' = "none"
    /\ \/ Unscrub /\ UNCHANGED <<faults, excuse>>
       \/ Fault /\ UNCHANGED videoVars /\ excuse' = (excuse \/ video = "held")
    /\ UNCHANGED <<pageVars, inputVars, batch, drop, acted, made>>

\* wait(): answered at once, or pending; a wait it takes the place of is answered.
\* The call may also fail, with the page's answer lost.
Ask ==
    /\ \/ /\ queue # <<>> \/ ~configured
          /\ queue' = Drained /\ UNCHANGED waiter
          /\ \/ Move("ask", "judge") /\ batch' = Drain /\ UNCHANGED <<faults, excuse>>
             \/ Move("ask", "top") /\ Fault /\ excuse' = (excuse \/ Releases(queue)) /\ UNCHANGED batch
       \/ /\ queue = <<>> /\ configured
          /\ Move("ask", "waiting") /\ waiter' = "router"
          /\ UNCHANGED <<queue, batch, faults, excuse>>
    /\ UNCHANGED <<pageOn, configured, finger, inputVars, drop, acted, videoVars, made, forgot>>

\* The request times out, its wait still pending in the page.
AskTimesOut ==
    /\ Move("waiting", "top") /\ Fault
    /\ waiter' = "nobody"
    /\ UNCHANGED <<pageOn, configured, queue, finger, inputVars, batch, drop, acted, videoVars, made, excuse, forgot>>

Dropping == ~enabled \/ modal

\* Mutant of Agreed: the page is never told again.
AgreedNot == push

\* A page that disagrees is told again.
Agreed == push \/ batch.on # enabled

\* The batch is judged: first a page with the script's defaults is configured.
Configure ==
    /\ ~batch.configured
    /\ Move("judge", IF enabled THEN "configure" ELSE "disable")
    /\ Ran(configured' = TRUE, UNCHANGED configured)
    /\ UNCHANGED <<pageOn, queue, finger, waiter, inputVars, batch, drop, acted, videoVars, made, excuse, forgot>>

\* This off stops no scrub, and a hold already drained has lost its release to it: the push
\* that Judge asks for stops the one, and Judge drops the other, if the user has not
\* turned the router on again by then.
Disable ==
    /\ Move("disable", "configure")
    /\ Ran(SetEnabled(FALSE), UNCHANGED <<pageOn, waiter, queue, finger>>)
    /\ forgot' = IF forgot = "crossed" \/ (video # "held" /\ ~Holds(batch.q)) THEN forgot
                 ELSE IF enabled THEN "crossed" ELSE "owed"
    /\ UNCHANGED <<configured, inputVars, batch, drop, acted, videoVars, made, excuse>>

Judge ==
    /\ \/ batch.configured /\ Move("judge", "act")
       \/ Move("configure", "act")
    /\ push' = Agreed
    /\ drop' = Dropping
    /\ UNCHANGED <<pageVars, enabled, storing, modal, toggles, batch, acted, videoVars, made, excuse, forgot, faults>>

\* The next gesture of the batch, dropped or handed to act(): a hold starts the scrub, a
\* release stops it; a call that fails may have run.
Skip ==
    /\ at = "act" /\ batch.q # <<>> /\ drop /\ ~Release(Head(batch.q))
    /\ batch' = [batch EXCEPT !.q = Tail(@)]
    /\ UNCHANGED <<pageVars, inputVars, at, drop, acted, videoVars, made, excuse, forgot, faults>>

Act ==
    /\ at = "act" /\ batch.q # <<>> /\ (drop => Release(Head(batch.q)))
    /\ batch' = [batch EXCEPT !.q = Tail(@)]
    /\ acted' = Head(batch.q).n
    /\ LET kind == Head(batch.q).kind
       IN  \/ /\ \/ kind = "move" /\ UNCHANGED videoVars
                 \/ kind = "hold" /\ Scrub
                 \/ kind = "release" /\ Unscrub
              /\ UNCHANGED <<faults, excuse>>
           \/ Fault /\ UNCHANGED videoVars /\ excuse' = (excuse \/ kind = "release")
    /\ UNCHANGED <<pageVars, inputVars, at, drop, made, forgot>>

ActDone ==
    /\ batch.q = <<>> /\ Move("act", "top")
    /\ batch' = NoBatch /\ drop' = FALSE
    /\ UNCHANGED <<pageVars, inputVars, acted, videoVars, made, excuse, forgot, faults>>

Router ==
    \/ TakePush \/ PushEnabled \/ StopScrub \/ Ask \/ AskTimesOut
    \/ Configure \/ Disable \/ Judge \/ Skip \/ Act \/ ActDone

Next ==
    \/ FingerDown \/ Drag \/ SecondFinger \/ LongPress \/ FingerUp \/ VideoChanges \/ Reload \/ WaitEnds
    \/ Toggle \/ StorePush \/ ModalChanges
    \/ Router

Spec == Init /\ [][Next]_vars

\* The router's loop, the page's timers and the input thread's second store go on.
Fairness == WF_vars(Router) /\ WF_vars(WaitEnds) /\ WF_vars(StorePush)

FairSpec == Spec /\ Fairness

-----------------------------------------------------------------------------
(* Properties.                                                              *)

\* An "off" that the router has yet to push, and whose stop follows.
StopIsOwed == ~enabled /\ (push \/ storing \/ at = "load" \/ (at = "configure" /\ batch.on))

\* A scrub's end is ahead: its finger is down, its release is on the way, or the router is
\* about to stop it, or owes that.
Ending ==
    \/ finger \in {"held", "heldSecond"}
    \/ Releases(queue) \/ Releases(batch.q)
    \/ at = "stop" \/ StopIsOwed

\* Whatever is toggled, becomes modal or is touched, a video at the rate of a hold has an
\* end of that ahead, but for two ways to lose it: a release lost with a call that failed,
\* an answer, a reloaded page or a full queue (`excuse`), and an "on" that the user chose
\* between the "off" of a configuration and its push (`forgot`: ScrubAlwaysEnds).
ScrubHasEnd == video = "held" /\ ~excuse /\ forgot # "crossed" => Ending

\* The comment at gestures.cpp:213-214 has every "off" stop a held scrub. The one of a
\* configuration (gestures.cpp:237) does not, and two quick toggles refute this without
\* any fault: the hold drained from a fresh page is acted on, its release never comes.
ScrubAlwaysEnds == video = "held" /\ ~excuse => Ending

\* A gesture is acted on at most once, and in the order they were made, whatever
\* timed out, was superseded or was answered to nobody.
ActedInOrder == [][acted' # acted => acted' > acted]_acted

\* The page and the router agree in the end on whether gestures are on, whatever
\* pushes failed and however often the page was reloaded.
PageFollows == <>[](pageOn = enabled)
=============================================================================
