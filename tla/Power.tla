------------------------------- MODULE Power -------------------------------
(***************************************************************************)
(* The power contract: the logind event loop (launcher/src/platform.cpp,   *)
(* SdBusPlatform, with its backoff in busloop.cpp) and the player's poll   *)
(* thread (launcher/src/player.cpp), between logind and the page.          *)
(*                                                                         *)
(* External, and modelled from how the code uses it: logind (a suspend     *)
(* waits for our delay lock or for its timeout, PrepareForSleep signals    *)
(* reach the bus connection that is up when they are sent and are handled  *)
(* in order), the bus link, the page's video and the user.  Nothing of the *)
(* launcher runs while the machine sleeps.  logind refuses the delay lock  *)
(* while a suspend is under way and grants whatever else the link carries. *)
(***************************************************************************)
EXTENDS Naturals, Sequences

CONSTANTS
    MaxTries,       \* kReconnectMaxTries
    MaxEvents       \* bound: suspends, unpaired resume signals and lost links, all told

ASSUME BoundsAssumption == MaxTries \in Nat \ {0} /\ MaxEvents \in Nat

VARIABLES
    sys,            \* "awake", "preparing" for sleep, "asleep"
    locks,          \* delay locks logind holds for us
    bus, stable,    \* the link is up; it has been for kReconnectStableMs
    sig,            \* PrepareForSleep signals received and not dispatched
    lpc,            \* the loop thread's step
    sleepFd, idleFd,\* sleep_fd_ >= 0, idle_fd_ >= 0
    want, nudged,   \* want_idle_, and a byte in wake_
    failures,       \* reconnect_failures_
    running,        \* running_
    gen, resumeGen, pending,    \* suspend_gen_, resume_gen_, resume_pending_
    ppc, g, seen,   \* the player thread: its step, resume()'s gen, the state it read
    stop,           \* worker_.stop_
    mpc,            \* main(): "run", "player" and "platform" while it joins them, "done"
    playing,        \* the page's video plays
    guarded, late,  \* history of the suspend under way: our lock held it back; signals of
                    \* before were still to be handled when it was announced
    hooked, paused, \* history: a hook has run in it; the page took the pause of its signal
    excused,        \* history: the user pressed play since, or a nudge was in flight
    events          \* bound: how many of those there were

busVars == <<bus, stable, sig>>
fdVars == <<locks, sleepFd, idleFd>>
playerVars == <<ppc, g, seen>>
resumeVars == <<gen, resumeGen, pending>>
mainVars == <<mpc, stop, running>>
histVars == <<guarded, late, hooked, paused, excused>>
vars == <<sys, lpc, want, nudged, failures, playing, busVars, fdVars, playerVars, resumeVars,
          mainVars, histVars, events>>

LoopSteps == {"pump", "reconnect", "backoff", "reconcile", "wait", "ended",
              "suspending", "pausing", "releasing", "rearm", "take", "stamp", "request"}

TypeOK ==
    /\ sys \in {"awake", "preparing", "asleep"} /\ locks \in Nat
    /\ bus \in BOOLEAN /\ stable \in BOOLEAN /\ sig \in Seq(BOOLEAN)
    /\ lpc \in LoopSteps /\ sleepFd \in BOOLEAN /\ idleFd \in BOOLEAN
    /\ want \in BOOLEAN /\ nudged \in BOOLEAN /\ failures \in 0 .. MaxTries
    /\ gen \in Nat /\ resumeGen \in 0 .. gen /\ pending \in BOOLEAN
    /\ ppc \in {"probe", "nudge", "poll", "inhibit", "wait", "ended"}
    /\ g \in 0 .. gen /\ seen \in BOOLEAN
    /\ mpc \in {"run", "player", "platform", "done"}
    /\ stop \in BOOLEAN /\ running \in BOOLEAN
    /\ playing \in BOOLEAN
    /\ \A h \in {guarded, late, hooked, paused, excused} : h \in BOOLEAN
    /\ events \in Nat

\* The constructor connected and took the sleep lock; the player has just started.
Init ==
    /\ sys = "awake" /\ locks = 1 /\ bus = TRUE /\ stable = FALSE /\ sig = <<>>
    /\ lpc = "pump" /\ sleepFd = TRUE /\ idleFd = FALSE
    /\ want = FALSE /\ nudged = FALSE /\ failures = 0 /\ running = TRUE
    /\ gen = 0 /\ resumeGen = 0 /\ pending = FALSE
    /\ ppc = "poll" /\ g = 0 /\ seen = FALSE /\ stop = FALSE /\ mpc = "run"
    /\ playing = FALSE
    /\ guarded = FALSE /\ late = FALSE /\ hooked = FALSE /\ paused = FALSE /\ excused = FALSE
    /\ events = 0

Up == sys # "asleep"

-----------------------------------------------------------------------------
(* logind, the link and the user.                                           *)

World == UNCHANGED <<lpc, want, nudged, failures, fdVars, playerVars, resumeVars, mainVars>>

Receive(b) == sig' = IF bus THEN Append(sig, b) ELSE sig

Prepare ==
    /\ sys = "awake" /\ events < MaxEvents /\ events' = events + 1
    /\ sys' = "preparing" /\ Receive(TRUE)
    /\ guarded' = (bus /\ sleepFd)
    \* An unpaired resume, or the resume or the end of an earlier suspend, is not over for
    \* the loop: it will still release the lock that now holds back this suspend.
    /\ late' = (sig # <<>> \/ lpc \in {"rearm", "releasing"})
    /\ hooked' = FALSE /\ paused' = FALSE /\ excused' = FALSE
    /\ UNCHANGED <<bus, stable, playing>> /\ World

FallAsleep ==
    /\ sys = "preparing" /\ sys' = "asleep"
    /\ guarded' = (guarded /\ locks = 0)    \* else InhibitDelayMaxSec ran out
    /\ UNCHANGED <<busVars, playing, late, hooked, paused, excused, events>> /\ World

WakeUp ==
    /\ sys = "asleep" /\ sys' = "awake" /\ Receive(FALSE)
    /\ guarded' = FALSE /\ late' = FALSE
    /\ hooked' = FALSE /\ paused' = FALSE /\ excused' = FALSE
    /\ UNCHANGED <<bus, stable, playing, events>> /\ World

StrayResume ==
    /\ sys = "awake" /\ bus /\ events < MaxEvents /\ events' = events + 1
    /\ Receive(FALSE)
    /\ UNCHANGED <<sys, bus, stable, playing, histVars>> /\ World

\* The signals not yet dispatched go with the link; the lock, a file descriptor, stays.
LinkDrops ==
    /\ bus /\ Up /\ events < MaxEvents /\ events' = events + 1
    /\ bus' = FALSE /\ sig' = <<>>
    /\ UNCHANGED <<sys, stable, playing, histVars>> /\ World

LinkAges ==
    /\ bus /\ ~stable /\ stable' = TRUE
    /\ UNCHANGED <<sys, bus, sig, playing, histVars, events>> /\ World

\* The user starts or pauses a video.
User ==
    /\ Up /\ playing' = ~playing
    /\ excused' = (excused \/ (paused /\ playing'))
    /\ UNCHANGED <<sys, busVars, guarded, late, hooked, paused, events>> /\ World

-----------------------------------------------------------------------------
(* The loop thread.                                                         *)

Loop(from, to) == Up /\ lpc = from /\ lpc' = to
LoopFrame == UNCHANGED <<sys, want, playerVars, mainVars, events>>

\* One dispatch of bus_pump(): a signal, or the error of a lost link, which earns a
\* fresh budget if it had stayed up.
Pump ==
    /\ ~bus \/ sig # <<>>
    /\ Loop("pump", IF ~bus THEN "reconnect" ELSE IF Head(sig) THEN "suspending" ELSE "rearm")
    /\ sig' = IF bus THEN Tail(sig) ELSE sig
    /\ failures' = IF ~bus /\ stable THEN 0 ELSE failures
    /\ UNCHANGED <<bus, stable, nudged, playing, fdVars, resumeVars, histVars>> /\ LoopFrame

\* take_inhibitor("sleep"): logind refuses a delay lock while a suspend is on.
TakeSleepLock ==
    \/ bus' /\ sys # "preparing" /\ sleepFd' = TRUE /\ locks' = locks + 1
    \/ (~bus' \/ sys = "preparing") /\ sleepFd' = FALSE /\ UNCHANGED locks

\* reconnect(): connect() works, fails, or stop() has landed.
Reconnected ==
    /\ running /\ Loop("reconnect", "reconcile")
    /\ bus' = TRUE /\ stable' = FALSE /\ sig' = <<>>
    /\ IF sleepFd THEN UNCHANGED <<sleepFd, locks>> ELSE TakeSleepLock
    /\ UNCHANGED <<idleFd, nudged, failures, playing, resumeVars, histVars>> /\ LoopFrame

ConnectFails ==
    /\ running /\ Loop("reconnect", IF failures + 1 >= MaxTries THEN "ended" ELSE "backoff")
    /\ failures' = failures + 1
    /\ UNCHANGED <<busVars, nudged, playing, fdVars, resumeVars, histVars>> /\ LoopFrame

ReconnectStopped ==
    /\ ~running /\ Loop("reconnect", "ended")
    /\ UNCHANGED <<busVars, nudged, failures, playing, fdVars, resumeVars, histVars>> /\ LoopFrame

\* The backoff passes, or a nudge ends it; the nudge is drained either way.
Backoff ==
    /\ Loop("backoff", "reconnect") /\ nudged' = FALSE
    /\ UNCHANGED <<busVars, failures, playing, fdVars, resumeVars, histVars>> /\ LoopFrame

\* A pump that found nothing more to dispatch, or a reconnect, goes on to reconcile.
Pumped == lpc = "reconcile" \/ (lpc = "pump" /\ bus /\ sig = <<>>)

\* reconcile_idle() takes or releases the idle lock; without a bus it cannot take.
Reconcile ==
    /\ Up /\ Pumped /\ lpc' = IF running THEN "wait" ELSE "ended"
    /\ idleFd' = IF running THEN want /\ (idleFd \/ bus) ELSE idleFd
    /\ UNCHANGED <<busVars, nudged, failures, playing, locks, sleepFd, resumeVars, histVars>>
    /\ LoopFrame

\* bus_wait(), which never wakes on a timer of its own, and the test of running_.
BusWait ==
    /\ nudged \/ ~bus \/ sig # <<>>
    /\ Loop("wait", IF running THEN "pump" ELSE "ended") /\ nudged' = FALSE
    /\ UNCHANGED <<busVars, failures, playing, fdVars, resumeVars, histVars>> /\ LoopFrame

CloseSleepFd == sleepFd' = FALSE /\ locks' = IF sleepFd THEN locks - 1 ELSE locks

\* Mutant of Suspending: the lock goes before the hook runs.
SuspendingReleases ==
    /\ Loop("suspending", "pausing")
    /\ gen' = gen + 1
    /\ CloseSleepFd
    /\ UNCHANGED <<busVars, idleFd, nudged, failures, playing, resumeGen, pending>>
    /\ UNCHANGED histVars /\ LoopFrame

\* PrepareForSleep(true): on_suspend() counts a generation, then pauses the page, ...
Suspending ==
    /\ Loop("suspending", "pausing")
    /\ gen' = gen + 1
    /\ UNCHANGED <<busVars, nudged, failures, playing, fdVars, resumeGen, pending>>
    /\ UNCHANGED histVars /\ LoopFrame

\* (It is the pause of this suspend's own signal if no other waits behind it.)
Pausing == \E reached \in BOOLEAN :
    /\ Loop("pausing", "releasing")
    /\ playing' = (playing /\ ~reached)
    /\ hooked' = (sys = "preparing")
    /\ paused' = (reached /\ sys = "preparing" /\ sig = <<>>)
    /\ excused' = (ppc = "nudge")
    /\ UNCHANGED <<busVars, nudged, failures, fdVars, resumeVars, guarded, late>>
    /\ LoopFrame

\* ... and the delay lock goes.
Releasing ==
    /\ Loop("releasing", "pump")
    /\ CloseSleepFd
    /\ UNCHANGED <<busVars, idleFd, nudged, failures, playing, resumeVars, histVars>> /\ LoopFrame

\* Mutant of Rearm: an unpaired signal leaks the lock still held.
RearmLeaky ==
    /\ Loop("rearm", "take")
    /\ sleepFd' = FALSE
    /\ UNCHANGED <<busVars, locks, idleFd, nudged, failures, playing, resumeVars, histVars>>
    /\ LoopFrame

\* PrepareForSleep(false): any lock still held goes, a new one is taken, ...
Rearm ==
    /\ Loop("rearm", "take")
    /\ CloseSleepFd
    /\ UNCHANGED <<busVars, idleFd, nudged, failures, playing, resumeVars, histVars>> /\ LoopFrame

Take ==
    /\ Loop("take", "stamp")
    /\ UNCHANGED bus /\ TakeSleepLock
    /\ UNCHANGED <<stable, sig, idleFd, nudged, failures, playing, resumeVars, histVars>> /\ LoopFrame

\* ... and request_resume() hands the nudge to the player's thread.
Stamp ==
    /\ Loop("stamp", "request")
    /\ resumeGen' = gen
    /\ UNCHANGED <<busVars, fdVars, nudged, failures, playing, gen, pending, histVars>> /\ LoopFrame

RequestResume ==
    /\ Loop("request", "pump")
    /\ pending' = TRUE
    /\ UNCHANGED <<busVars, fdVars, nudged, failures, playing, gen, resumeGen, histVars>> /\ LoopFrame

-----------------------------------------------------------------------------
(* The player's thread.                                                     *)

Player(from, to) == Up /\ ppc = from /\ ppc' = to
PlayerFrame == UNCHANGED <<sys, busVars, fdVars, lpc, failures, gen, resumeGen, mainVars,
                           histVars, events>>

\* The interval passes, or wake() ends it; then a resume asked for goes first.
PlayerWait ==
    /\ ~stop
    /\ Player("wait", IF pending THEN "probe" ELSE "poll")
    /\ pending' = FALSE
    /\ g' = IF pending THEN resumeGen ELSE g
    /\ UNCHANGED <<seen, want, nudged, playing>> /\ PlayerFrame

Superseded == gen # g

\* Mutant of Probe: only stop() cancels the nudge.
ProbeBlind ==
    /\ Player("probe", IF stop THEN "poll" ELSE "nudge")
    /\ UNCHANGED <<pending, g, seen, want, nudged, playing>> /\ PlayerFrame

\* wait_online() returns: reachable, out of time, stopped or superseded.
Probe ==
    /\ Player("probe", IF Superseded \/ stop THEN "poll" ELSE "nudge")
    /\ UNCHANGED <<pending, g, seen, want, nudged, playing>> /\ PlayerFrame

\* The play nudge (or the reload after a long sleep, which plays as well).
Nudge == \E reached \in BOOLEAN :
    /\ Player("nudge", "poll")
    /\ playing' = (playing \/ reached)
    /\ UNCHANGED <<pending, g, seen, want, nudged>> /\ PlayerFrame

\* poll_once(): an unreachable page counts as not playing.
Poll == \E reached \in BOOLEAN :
    /\ Player("poll", "inhibit")
    /\ seen' = (reached /\ playing)
    /\ UNCHANGED <<pending, g, want, nudged, playing>> /\ PlayerFrame

\* Mutant of SetIdleInhibited: the loop thread is not woken.
SetIdleQuietly(b) == want' = b /\ UNCHANGED nudged

SetIdleInhibited(b) == want' = b /\ nudged' = (nudged \/ want # b)

Inhibit ==
    /\ Player("inhibit", "wait")
    /\ SetIdleInhibited(seen)
    /\ UNCHANGED <<pending, g, seen, playing>> /\ PlayerFrame

\* stop() ended the wait: no stale lock is left behind.
Leave ==
    /\ stop
    /\ Player("wait", "ended")
    /\ SetIdleInhibited(FALSE)
    /\ UNCHANGED <<pending, g, seen, playing>> /\ PlayerFrame

-----------------------------------------------------------------------------
(* main() after the watchdog returns: player->stop(), then platform.reset() *)

Main(from, to) ==
    /\ Up /\ mpc = from /\ mpc' = to
    /\ UNCHANGED <<sys, busVars, lpc, want, failures, playerVars, resumeVars, playing, histVars,
                   events>>

StopPlayer ==
    /\ Main("run", "player") /\ stop' = TRUE
    /\ UNCHANGED <<running, nudged, fdVars>>

\* Mutant of StopPlatform: running_ is cleared without a nudge.
StopPlatformQuietly ==
    /\ ppc = "ended" /\ Main("player", "platform")
    /\ running' = FALSE
    /\ UNCHANGED <<stop, nudged, fdVars>>

StopPlatform ==
    /\ ppc = "ended" /\ Main("player", "platform")
    /\ running' = FALSE /\ nudged' = TRUE
    /\ UNCHANGED <<stop, fdVars>>

CloseFds ==
    /\ lpc = "ended" /\ Main("platform", "done")
    /\ idleFd' = FALSE /\ CloseSleepFd
    /\ UNCHANGED <<stop, running, nudged>>

-----------------------------------------------------------------------------
LoopStep ==
    \/ Pump \/ Reconnected \/ ConnectFails \/ ReconnectStopped \/ Backoff \/ Reconcile
    \/ BusWait \/ Suspending \/ Pausing \/ Releasing \/ Rearm \/ Take \/ Stamp \/ RequestResume

PlayerStep == Probe \/ Nudge \/ Poll \/ Inhibit \/ PlayerWait \/ Leave
MainStep == StopPlatform \/ CloseFds
External == Prepare \/ FallAsleep \/ WakeUp \/ StrayResume \/ LinkDrops \/ LinkAges \/ User

Next == LoopStep \/ PlayerStep \/ StopPlayer \/ MainStep \/ External

Spec == Init /\ [][Next]_vars

\* The three threads run while the machine is awake, and it always wakes up again.
FairSpec == Spec /\ WF_vars(LoopStep) /\ WF_vars(PlayerStep) /\ WF_vars(MainStep) /\ WF_vars(WakeUp)

-----------------------------------------------------------------------------
\* Every delay lock logind holds for us is the one we can still release; a lost one
\* would delay each suspend by InhibitDelayMaxSec (the comment in on_prepare_for_sleep).
NoLeakedLock == locks = IF sleepFd THEN 1 ELSE 0

\* A suspend our delay lock held back happens only after a suspend hook has run in it,
\* unless the launcher has shut down meanwhile, or the loop had a signal of before to
\* handle when it was announced: that one then releases the lock unasked (`late`).
HookBeforeSleep == sys = "asleep" /\ guarded /\ ~late => hooked \/ mpc = "done"

\* platform.hpp:14-15 says so of every such suspend, and a `late` one refutes it: an
\* unpaired resume still queued closes the lock (platform.cpp:216) with no hook run, and
\* so does the end of an earlier suspend's handler (platform.cpp:209).
SuspendAlwaysHooked == sys = "asleep" /\ guarded => hooked \/ mpc = "done"

\* If the page took the pause of the suspend's own signal, it does not play into the sleep,
\* unless the user pressed play since or a resume nudge was already past its last check
\* (player.cpp resume): no resume of an earlier suspend, and no unpaired one, undoes it.
SleepsPaused == sys = "asleep" /\ paused /\ ~excused => ~playing

\* Once playback has stopped for good the idle lock is released, or the loop gave up.
IdleReleased == <>[]~playing => <>[](~idleFd \/ lpc = "ended")

\* Stopping the player and then the platform always completes.
ShutdownCompletes == mpc = "player" ~> mpc = "done"
=============================================================================
