------------------------------ MODULE Updater ------------------------------
(***************************************************************************)
(* The self-update client (launcher/src/updater.cpp, PortalUpdater): one   *)
(* thread that owns a session-bus link and an UpdateMonitor of the Flatpak *)
(* portal, rebuilds them when the bus drops or the portal restarts, and    *)
(* deploys on detection (auto) or on the consent the input thread leaves   *)
(* in confirm_requested_ (notify).                                         *)
(*                                                                         *)
(* What it promises is Deployer; the input thread (UpdatePrompt) relies on *)
(* that.                                                                   *)
(*                                                                         *)
(* External: the portal.  It announces any commit at any time, may never   *)
(* finish a deploy, refuses Update() or lets the call time out while it    *)
(* deploys, and forgets its monitors when it restarts.  Its signals to one *)
(* link arrive in order.  Not modelled: the consent pre-grant in the       *)
(* permission store (its effect is one of the reasons for a refusal), the  *)
(* selftests, and a failed allocation of a message.                        *)
(***************************************************************************)
EXTENDS Naturals

CONSTANTS
    Commits,    \* the commits the remote may publish, none of them the running one
    None,
    MaxTries,   \* kReconnectMaxTries
    MaxRestarts \* bound: how often the portal restarts

\* The terminal DeployPhases.
Verdicts == {"Done", "Empty", "Failed", "PermissionBlocked"}

ASSUME UpdaterAssumption ==
    /\ None \notin Commits \cup Verdicts
    /\ MaxTries \in Nat \ {0}
    /\ MaxRestarts \in Nat

VARIABLES
    auto,           \* cfg_.auto_deploy
    running,        \* running_
    upc,            \* the thread's step
    nudged,         \* a byte in wake_
    confirm,        \* confirm_requested_
    want, updating, reestablish,    \* want_update_, updating_, reestablish_monitor_
    looping, failures,              \* loop() was entered; reconnect_failures_
    stable,         \* kReconnectStableMs have passed since last_connect_ms_
    available,      \* UpdateState: the commit announced, or None
    deploying,      \* portal: it deploys for our monitor
    verdict,        \* portal: the verdict of a Progress in flight to us, or None
    ownerSignal,    \* portal: a NameOwnerChanged in flight to us
    orphaned,       \* portal: it restarted and no longer knows our monitor
    told,           \* history: a verdict was told since Update() was last called
    flaps,          \* history: links lost in a row before they were stable
    restarts        \* bound: how often the portal restarted

outVars == <<auto, available, told>>
handVars == <<confirm, nudged>>
linkVars == <<looping, failures, stable, flaps>>
workVars == <<want, updating, reestablish>>
signalVars == <<ownerSignal, orphaned, restarts>>
portalVars == <<deploying, verdict, signalVars>>
vars == <<outVars, running, upc, handVars, linkVars, workVars, portalVars>>

Connected == {"subscribe", "pump", "act", "update", "wait"}

TypeOK ==
    /\ auto \in BOOLEAN /\ running \in BOOLEAN /\ nudged \in BOOLEAN /\ confirm \in BOOLEAN
    /\ upc \in Connected \cup {"establish", "backoff", "ended"}
    /\ want \in BOOLEAN /\ updating \in BOOLEAN /\ reestablish \in BOOLEAN
    /\ looping \in BOOLEAN /\ failures \in 0 .. MaxTries /\ stable \in BOOLEAN
    /\ available \in Commits \cup {None}
    /\ deploying \in BOOLEAN /\ verdict \in Verdicts \cup {None}
    /\ ownerSignal \in BOOLEAN /\ orphaned \in BOOLEAN
    /\ told \in BOOLEAN /\ flaps \in Nat
    /\ restarts \in 0 .. MaxRestarts

\* start() on a live link.
Init ==
    /\ auto \in BOOLEAN /\ running = TRUE /\ upc = "establish"
    /\ nudged = FALSE /\ confirm = FALSE
    /\ want = FALSE /\ updating = FALSE /\ reestablish = FALSE
    /\ looping = FALSE /\ failures = 0 /\ stable = FALSE /\ flaps = 0
    /\ available = None /\ told = FALSE
    /\ deploying = FALSE /\ verdict = None /\ ownerSignal = FALSE /\ orphaned = FALSE /\ restarts = 0

-----------------------------------------------------------------------------
\* The hand-offs from other threads.

\* Mutant of RequestUpdate: the loop thread is not woken.
RequestQuietly ==
    /\ ~auto
    /\ confirm' = TRUE
    /\ UNCHANGED <<outVars, running, upc, nudged, linkVars, workVars, portalVars>>

\* request_update(), called by the input thread; in auto mode nothing calls it.
RequestUpdate ==
    /\ ~auto
    /\ confirm' = TRUE /\ nudged' = TRUE
    /\ UNCHANGED <<outVars, running, upc, linkVars, workVars, portalVars>>

\* Mutant of Stop: the thread is not woken.
StopQuietly ==
    /\ running
    /\ running' = FALSE
    /\ UNCHANGED <<outVars, upc, nudged, confirm, linkVars, workVars, portalVars>>

\* stop(), at shutdown.
Stop ==
    /\ running
    /\ running' = FALSE /\ nudged' = TRUE
    /\ UNCHANGED <<outVars, upc, confirm, linkVars, workVars, portalVars>>

-----------------------------------------------------------------------------
\* Connecting.

\* teardown_monitor() and teardown_bus(): the deploy and every signal in flight die with the
\* monitor; a latched consent (confirm, want) does not.
Teardown ==
    /\ updating' = FALSE
    /\ deploying' = FALSE /\ verdict' = None /\ ownerSignal' = FALSE /\ orphaned' = FALSE
    /\ UNCHANGED <<want, restarts>>

\* One more failure: the last one allowed ends the thread.
CountFailure ==
    /\ failures' = failures + 1
    /\ upc' = IF ~running \/ failures' >= MaxTries THEN "ended" ELSE "backoff"
    /\ running' = (running /\ failures' < MaxTries)

\* establish(): the bus and the monitor.
Establish ==
    /\ upc = "establish" /\ running
    /\ upc' = "subscribe"
    /\ UNCHANGED <<outVars, running, handVars, linkVars, workVars, portalVars>>

\* establish(): the portal's owner changes, watched only once the monitor is there.
Subscribe ==
    /\ upc = "subscribe" /\ running
    /\ upc' = "pump"
    /\ stable' = FALSE
    /\ looping' = TRUE
    /\ failures' = IF looping THEN failures ELSE 0
    /\ UNCHANGED <<outVars, running, flaps, handVars, workVars, portalVars>>

\* establish() fails, or stop() ends it, and establish_with_retry() counts it.
EstablishFails ==
    /\ upc \in {"establish", "subscribe"}
    /\ Teardown
    /\ CountFailure
    /\ UNCHANGED <<outVars, reestablish, looping, stable, flaps, handVars>>

\* wait_backoff(): the delay passes, or any nudge ends it.
Backoff ==
    /\ upc = "backoff"
    /\ nudged' = FALSE
    /\ upc' = IF running THEN "establish" ELSE "ended"
    /\ UNCHANGED <<outVars, running, confirm, linkVars, workVars, portalVars>>

\* Mutant of BusError: every drop earns a fresh budget.
BusErrorForgiven ==
    /\ upc = "pump" /\ running
    /\ Teardown
    /\ failures' = 0 /\ upc' = "establish" /\ UNCHANGED running
    /\ flaps' = IF stable THEN 0 ELSE flaps + 1
    /\ UNCHANGED <<outVars, reestablish, looping, stable, handVars>>

\* loop(): the bus failed.  A link that had been stable earns a fresh budget.
BusError ==
    /\ upc = "pump" /\ running
    /\ Teardown
    /\ IF stable
       THEN failures' = 0 /\ upc' = "establish" /\ flaps' = 0 /\ UNCHANGED running
       ELSE CountFailure /\ flaps' = flaps + 1
    /\ UNCHANGED <<outVars, reestablish, looping, stable, handVars>>

\* kReconnectStableMs pass, by which time the loop has been through a turn.
LinkStable ==
    /\ upc = "wait" /\ ~stable
    /\ stable' = TRUE
    /\ UNCHANGED <<outVars, running, upc, looping, failures, flaps, handVars, workVars,
                   portalVars>>

-----------------------------------------------------------------------------
\* The loop's turn: pump the bus, rebuild the monitor, act on consent, wait.

\* What a signal handler leaves alone.
HandlerFrame == UNCHANGED <<auto, running, upc, handVars, linkVars>>

OnNameOwnerChanged ==
    /\ upc = "pump" /\ ownerSignal /\ verdict = None
    /\ ownerSignal' = FALSE /\ reestablish' = TRUE
    /\ UNCHANGED <<want, updating, available, told, deploying, verdict, orphaned, restarts>> /\ HandlerFrame

OnUpdateAvailable(c) ==
    /\ upc = "pump" /\ ~orphaned
    /\ IF auto
       THEN want' = (want \/ ~updating) /\ UNCHANGED available
       ELSE available' = c /\ UNCHANGED want
    /\ UNCHANGED <<told, updating, reestablish, portalVars>> /\ HandlerFrame

\* on_progress(), a verdict: calls on_terminal.
OnProgress(v) ==
    /\ upc = "pump" /\ verdict = v
    /\ verdict' = None
    /\ updating' = FALSE
    /\ told' = TRUE
    /\ UNCHANGED <<available, want, reestablish, deploying, signalVars>> /\ HandlerFrame

\* pump_pending() returns once nothing is left.
PumpDone ==
    /\ upc = "pump" /\ ~ownerSignal /\ verdict = None
    /\ upc' = "act"
    /\ UNCHANGED <<outVars, running, handVars, linkVars, workVars, portalVars>>

\* The loop ends on stop(), after either test of running_.
LoopEnds ==
    /\ upc \in {"pump", "act"} /\ ~running
    /\ upc' = "ended"
    /\ UNCHANGED <<outVars, running, handVars, linkVars, workVars, portalVars>>

\* Mutant of Rebuild: the flag is cleared and the monitor kept.
ForgetRestart ==
    /\ upc = "act" /\ running /\ reestablish
    /\ reestablish' = FALSE
    /\ upc' = "pump"
    /\ UNCHANGED <<outVars, running, want, updating, linkVars, handVars, portalVars>>

\* The portal restarted: a new monitor on the same bus, or a reconnect when there is none to get.
Rebuild ==
    /\ upc = "act" /\ running /\ reestablish
    /\ reestablish' = FALSE
    /\ updating' = FALSE /\ deploying' = FALSE /\ verdict' = None
    /\ \/ orphaned' = FALSE /\ upc' = "pump" /\ stable' = FALSE /\ UNCHANGED ownerSignal
       \/ orphaned' = FALSE /\ ownerSignal' = FALSE /\ upc' = "establish" /\ UNCHANGED stable
    /\ UNCHANGED <<outVars, running, want, looping, failures, flaps, handVars, restarts>>

\* Mutant of Consent: a consent given during a deploy starts another.
ConsentRepeated ==
    /\ upc = "act" /\ running /\ ~reestablish
    /\ LET calling == want \/ confirm
       IN  /\ confirm' = FALSE /\ want' = FALSE
           /\ updating' = IF calling THEN TRUE ELSE updating
           /\ upc' = IF calling THEN "update" ELSE "wait"
           /\ told' = IF calling THEN FALSE ELSE told
    /\ UNCHANGED <<auto, available, running, nudged, reestablish, linkVars, portalVars>>

\* Consent is taken, and Update() called unless one is already running.
Consent ==
    /\ upc = "act" /\ running /\ ~reestablish
    /\ LET calling == ~updating /\ (want \/ confirm)
       IN  /\ confirm' = FALSE
           /\ want' = IF calling THEN FALSE ELSE want
           /\ updating' = IF calling THEN TRUE ELSE updating
           /\ upc' = IF calling THEN "update" ELSE "wait"
           /\ told' = IF calling THEN FALSE ELSE told
    /\ UNCHANGED <<auto, available, running, nudged, reestablish, linkVars, portalVars>>

\* do_update(): the portal takes the call.
UpdateAccepted ==
    /\ upc = "update" /\ ~orphaned /\ ~deploying
    /\ deploying' = TRUE
    /\ upc' = "wait"
    /\ UNCHANGED <<outVars, running, handVars, linkVars, workVars, verdict, signalVars>>

\* do_update(): it does not, or its answer is late while it deploys all the same.  Calls
\* on_terminal.
UpdateRefused ==
    /\ upc = "update"
    /\ deploying' \in {deploying, ~orphaned}
    /\ updating' = FALSE
    /\ told' = TRUE
    /\ upc' = "wait"
    /\ UNCHANGED <<auto, available, running, want, reestablish, handVars, linkVars, verdict,
                   signalVars>>

\* bus_wait() returns: a nudge, a signal, a timer of the bus or its loss.
Wake ==
    /\ upc = "wait"
    /\ nudged' = FALSE
    /\ upc' = "pump"
    /\ UNCHANGED <<outVars, running, confirm, linkVars, workVars, portalVars>>

-----------------------------------------------------------------------------
\* The portal.

PortalFinishes ==
    /\ deploying /\ verdict = None
    /\ deploying' = FALSE
    /\ verdict' \in Verdicts
    /\ UNCHANGED <<outVars, running, upc, handVars, linkVars, workVars, signalVars>>

\* It restarts: its deploy ends without a verdict, and we are told if we are subscribed.
PortalRestarts ==
    /\ upc \in Connected /\ restarts < MaxRestarts
    /\ restarts' = restarts + 1
    /\ orphaned' = TRUE
    /\ ownerSignal' = (upc # "subscribe")
    /\ deploying' = FALSE
    /\ UNCHANGED <<outVars, running, upc, handVars, linkVars, workVars, verdict>>

-----------------------------------------------------------------------------
(***************************************************************************)
(* The specification.  The thread runs, and a byte in the pipe or a signal *)
(* on the bus wakes it; the portal owes nothing.                           *)
(***************************************************************************)
LoopTurn == Establish \/ Subscribe \/ EstablishFails \/ Backoff \/ PumpDone \/ LoopEnds
            \/ Rebuild \/ Consent \/ UpdateAccepted \/ UpdateRefused
Signal == OnNameOwnerChanged \/ \E v \in Verdicts : OnProgress(v)
Portal == PortalFinishes \/ PortalRestarts
WakeDue == (nudged \/ ownerSignal \/ verdict # None) /\ Wake

Next == RequestUpdate \/ Stop \/ LoopTurn \/ Signal \/ BusError \/ LinkStable \/ Wake \/ Portal
        \/ \E c \in Commits : OnUpdateAvailable(c)

Spec == Init /\ [][Next]_vars

FairSpec == Spec /\ WF_vars(LoopTurn) /\ WF_vars(Signal) /\ WF_vars(WakeDue)

-----------------------------------------------------------------------------
(***************************************************************************)
(* Properties.                                                             *)
(***************************************************************************)

\* What updater.hpp promises (Deployer): Update() only on a consent given since the last one,
\* never two at a time, and a verdict only of a deploy.
Promise == INSTANCE Deployer WITH
    consent <- confirm \/ want,
    deploying <- IF upc = "update" THEN "calling" ELSE IF updating THEN "yes"
                 ELSE IF deploying \/ verdict # None THEN "stray" ELSE "no"
KeepsPromise == Promise!DeployerSpec

\* In notify mode Update() waits for a press: it is called only while confirm_requested_ is set,
\* never on an announcement ("never installs it behind your back", docs/SUPPORT.md).
InstallsOnConsent == [][upc' = "update" /\ upc # "update" => auto \/ confirm]_vars

\* A link that drops again and again before it is stable is given up, though each reconnect
\* succeeds (the budget of updater.cpp's loop()).
FlappingGivesUp == flaps <= MaxTries

\* Consent given while the link is being rebuilt is acted on: the flag is taken by a turn of the
\* loop unless the thread has ended, whatever drops and restarts come between.
ConsentIsTaken == confirm ~> (~confirm \/ upc = "ended")

\* A restart of the portal that the bus told us of leaves no thread listening to a monitor
\* that is gone.
RestartIsHealed == ownerSignal ~> (~orphaned \/ upc = "ended")

\* stop() ends the thread from every step, a backoff and a reconnect included.
StopEndsThread == ~running ~> upc = "ended"
=============================================================================
