---------------------------- MODULE UpdatePrompt ----------------------------
(***************************************************************************)
(* The notify side of self-update (launcher/src/updateprompt.cpp,          *)
(* UpdatePromptController): the input thread's tick and the buttons of the *)
(* Updates tab, the probe thread that reads the published ref, and the two *)
(* callbacks the updater's thread makes under deploy_mu_.                  *)
(*                                                                         *)
(* A tick is one action for each stretch the updater's thread may come     *)
(* between: consuming the probe, its fallback, reading the phase, and      *)
(* announcing.  A button is pressed between ticks, as the last tick drew   *)
(* it.  Status texts, toasts and the changelog are left out.  Three fields *)
(* are forgotten when nothing reads them again: late and moved outside a   *)
(* request, found once it is consumed, seen between ticks.                 *)
(*                                                                         *)
(* External: the published ref as the CDN serves it, which may be old, and *)
(* the clock of the two windows.                                           *)
(***************************************************************************)
EXTENDS Deployer

CONSTANTS
    Commits,    \* the commits the remote may publish, none of them the running one
    None

ASSUME PromptAssumption == None \notin Commits

VARIABLES
    phase, fresh,   \* deploy_phase_, deploy_fresh_
    late,           \* deploy_timeout_ms have passed since requested_at_ms_
    notify, last,   \* notify_, last_commit_
    ignored,        \* the dot-dismissed marker on disk
    announced,      \* probe_announced_
    refused,        \* probe_refused_, while refusal_window_ms last
    probe, found,   \* probe_state_, or "absent" without a probe; what it read
    forUser,        \* probe_for_user_
    shown,          \* the buttons the tab has
    tpc, seen,      \* the tick's step, and the phase it read
    available,      \* UpdateState: the commit announced, or None
    moved           \* bound: the pending request's clock was restarted once

probeVars == <<probe, found, forUser>>
offerVars == <<notify, last, ignored>>
refusalVars == <<announced, refused>>
tickVars == <<shown, tpc, seen>>
phaseVars == <<phase, fresh, late>>
envVars == <<available, moved, deployerVars>>
vars == <<phaseVars, offerVars, refusalVars, probeVars, tickVars, available, moved, deployerVars>>

\* The terminal DeployPhases.
Verdicts == {"Done", "Empty", "Failed", "PermissionBlocked"}
Phases == Verdicts \cup {"Idle", "Checking", "Requested"}
Readings == Commits \cup {"current", "unknown"}

TypeOK ==
    /\ DeployerTypeOK
    /\ phase \in Phases /\ fresh \in BOOLEAN /\ late \in BOOLEAN
    /\ notify \in BOOLEAN /\ {available, last, ignored, announced, refused} \subseteq Commits \cup {None}
    /\ probe \in {"absent", "idle", "running", "done"} /\ found \in Readings
    /\ forUser \in BOOLEAN /\ (probe = "absent" => ~forUser)
    /\ moved \in BOOLEAN
    /\ shown \in {"update", "check", "quit", "none"}
    /\ tpc \in {"idle", "fallback", "read", "announce"} /\ seen \in Phases

\* The first tick starts the launch probe, where there is one; the marker is of an earlier launch.
Init ==
    /\ DeployerInit /\ available = None /\ moved = FALSE
    /\ phase = "Idle" /\ fresh = FALSE /\ late = FALSE
    /\ notify = FALSE /\ last = None /\ ignored \in Commits \cup {None}
    /\ announced = None /\ refused = None
    /\ probe \in {"absent", "running"} /\ found = "unknown" /\ forUser = FALSE
    /\ shown = "check" /\ tpc = "idle" /\ seen = "Idle"

-----------------------------------------------------------------------------
\* The updater's thread.

\* It goes about its work, and tells nobody.
Work ==
    /\ Start \/ Accept \/ Overtaken \/ Lose
    /\ UNCHANGED <<phaseVars, offerVars, refusalVars, probeVars, tickVars, available, moved>>

\* on_terminal: on_deploy_result().
OnDeployResult(v) ==
    /\ Tell
    /\ phase' = v /\ fresh' = TRUE /\ late' = FALSE /\ moved' = FALSE
    /\ UNCHANGED <<offerVars, refusalVars, probeVars, tickVars, available>>

\* on_running: on_deploy_progress() restarts the clock of a request.
OnDeployProgress ==
    /\ deploying # "no" /\ phase = "Requested" /\ ~moved
    /\ late' = FALSE
    /\ moved' = TRUE
    /\ UNCHANGED <<phase, fresh, offerVars, refusalVars, probeVars, tickVars, available,
                   deployerVars>>

\* The portal's own announcement: UpdateState::set_available().
SetAvailable(c) ==
    /\ available' = c
    /\ UNCHANGED <<phaseVars, offerVars, refusalVars, probeVars, tickVars, moved, deployerVars>>

-----------------------------------------------------------------------------
\* The buttons.

\* request_deploy().
RequestDeploy ==
    /\ phase' = "Requested" /\ fresh' = FALSE /\ late' = FALSE /\ moved' = FALSE
    /\ notify' = FALSE
    /\ Ask
    /\ UNCHANGED <<available, last, ignored, refusalVars>>

\* confirm_update(), "Update now".
ConfirmUpdate ==
    /\ tpc = "idle" /\ shown = "update"
    /\ RequestDeploy
    /\ UNCHANGED <<probeVars, tickVars>>

\* ignore_version().
IgnoreVersion ==
    /\ tpc = "idle" /\ shown = "update"
    /\ notify' = FALSE
    /\ ignored' = available
    /\ UNCHANGED <<phaseVars, last, refusalVars, probeVars, tickVars, envVars>>

\* check_now() with no probe: the portal checks by deploying.
CheckByDeploy ==
    /\ tpc = "idle" /\ shown = "check" /\ probe = "absent"
    /\ RequestDeploy
    /\ UNCHANGED <<probeVars, tickVars>>

\* check_now(): a probe already running answers this press too.
CheckNow ==
    /\ tpc = "idle" /\ shown = "check" /\ probe # "absent"
    /\ phase \notin {"Requested", "Done"}
    /\ phase' = "Checking" /\ fresh' = FALSE
    /\ forUser' = TRUE
    /\ probe' = IF probe = "idle" THEN "running" ELSE probe
    /\ UNCHANGED <<envVars, late, found, offerVars, refusalVars, tickVars>>

-----------------------------------------------------------------------------
\* The probe thread and the clock.

ProbeReads(r) ==
    /\ probe = "running"
    /\ probe' = "done" /\ found' = r
    /\ UNCHANGED <<envVars, phaseVars, forUser, offerVars, refusalVars, tickVars>>

NoAnswer ==
    /\ phase = "Requested" /\ ~late
    /\ late' = TRUE
    /\ UNCHANGED <<envVars, phase, fresh, offerVars, refusalVars, probeVars, tickVars>>

RefusalExpires ==
    /\ refused # None
    /\ refused' = None
    /\ UNCHANGED <<envVars, phaseVars, announced, offerVars, probeVars, tickVars>>

-----------------------------------------------------------------------------
\* The tick.

\* The probe's answer: the reading, but for a commit the portal has just refused.
Answer == IF found = refused THEN "current" ELSE found

\* Mutant of Consume: any reading of the running commit overrides the phase.
ConsumeCurrent ==
    /\ tpc = "idle" /\ probe = "done"
    /\ probe' = "idle" /\ found' = "unknown" /\ forUser' = FALSE
    /\ IF Answer \in Commits
       THEN /\ announced' = Answer /\ available' = Answer /\ last' = None
            /\ phase' = IF phase = "Checking" THEN "Idle" ELSE phase
            /\ UNCHANGED fresh
       ELSE /\ phase' = IF Answer = "current" THEN "Empty" ELSE phase
            /\ fresh' = (fresh \/ Answer = "current")
            /\ UNCHANGED <<announced, available, last>>
    /\ tpc' = IF Answer = "unknown" /\ phase = "Checking" THEN "fallback" ELSE "read"
    /\ UNCHANGED <<late, notify, ignored, refused, shown, seen, moved, deployerVars>>

\* consume_probe().
Consume ==
    /\ tpc = "idle" /\ probe = "done"
    /\ probe' = "idle" /\ found' = "unknown" /\ forUser' = FALSE
    /\ LET checking == phase = "Checking"
           offered == available # None /\ available # refused
           settles == Answer = "current" /\ (checking \/ (phase = "Idle" /\ ~forUser))
       IN  /\ IF Answer \in Commits
              THEN /\ announced' = Answer /\ available' = Answer /\ last' = None
                   /\ phase' = IF checking THEN "Idle" ELSE phase
                   /\ UNCHANGED fresh
              ELSE /\ phase' = IF ~settles THEN phase ELSE IF offered THEN "Idle" ELSE "Empty"
                   /\ fresh' = IF settles THEN checking /\ ~offered ELSE fresh
                   /\ UNCHANGED <<announced, available, last>>
           /\ tpc' = IF Answer = "unknown" /\ checking THEN "fallback" ELSE "read"
    /\ UNCHANGED <<late, notify, ignored, refused, shown, seen, moved, deployerVars>>

\* consume_probe(), after the lock: an unreadable ref lets the portal check by deploying.
FallBack ==
    /\ tpc = "fallback"
    /\ RequestDeploy
    /\ tpc' = "read"
    /\ UNCHANGED <<probeVars, shown, seen>>

\* Mutant of ReadPhase: nobody watches the clock.
ReadPhaseOnly ==
    /\ ~(tpc # "read" /\ (tpc # "idle" \/ probe = "done"))
    /\ seen' = phase /\ fresh' = FALSE /\ tpc' = "announce"
    /\ UNCHANGED <<envVars, phase, late, offerVars, refusalVars, probeVars, shown>>

\* tick(): the phase, the timeout, the verdict's toast and the refused commit.
ReadPhase ==
    /\ ~(tpc # "read" /\ (tpc # "idle" \/ probe = "done"))
    /\ LET expired == phase = "Requested" /\ late
       IN  /\ seen' = (IF expired THEN "Failed" ELSE phase)
           /\ phase' = seen'
           /\ fresh' = expired
           /\ late' = (late /\ ~expired)
           /\ moved' = (moved /\ ~expired)
    /\ refused' = IF fresh /\ seen' = "Empty" /\ announced # None /\ available = announced
                  THEN announced ELSE refused
    /\ tpc' = "announce"
    /\ UNCHANGED <<available, announced, offerVars, probeVars, shown, deployerVars>>

\* updates_view(): the buttons of a phase.
Buttons(p, update) ==
    CASE p = "Done" -> "quit"
      [] p \in {"Empty", "Failed"} -> "check"
      [] p = "Idle" -> IF update THEN "update" ELSE "check"
      [] OTHER -> "none"

\* The verdicts a newer commit outdates; a staged deploy stands.
Stale(p) == p \in {"Empty", "Failed", "PermissionBlocked"}

\* tick(): the announced commit, the decision on it, and the tab.
Announce ==
    /\ tpc = "announce"
    /\ LET newer == available # None /\ available # last
           clears == newer /\ Stale(seen)
       IN  /\ phase' = IF clears /\ phase = seen THEN "Idle" ELSE phase
           /\ last' = IF newer THEN available ELSE last
           /\ notify' = IF newer THEN available # ignored ELSE notify
           /\ shown' = Buttons(IF clears THEN phase' ELSE seen, notify')
    /\ tpc' = "idle" /\ seen' = "Idle"
    /\ UNCHANGED <<envVars, fresh, late, ignored, refusalVars, probeVars>>

-----------------------------------------------------------------------------
(***************************************************************************)
(* The specification.  The input thread ticks, the probe's HTTP read has a *)
(* timeout (kUpdateRefTimeoutSec) and time passes; nothing is assumed of   *)
(* the updater, the portal or the user.                                    *)
(***************************************************************************)
Tick == Consume \/ FallBack \/ ReadPhase \/ Announce
Press == ConfirmUpdate \/ IgnoreVersion \/ CheckByDeploy \/ CheckNow
Probe == \E r \in Readings : ProbeReads(r)
UpdaterThread == Work \/ OnDeployProgress \/ (\E v \in Verdicts : OnDeployResult(v))
                 \/ \E c \in Commits : SetAvailable(c)

Next == Tick \/ Press \/ Probe \/ UpdaterThread \/ NoAnswer \/ RefusalExpires

Spec == Init /\ [][Next]_vars

FairSpec == Spec /\ WF_vars(Tick) /\ WF_vars(Probe) /\ WF_vars(NoAnswer)

-----------------------------------------------------------------------------
(***************************************************************************)
(* Properties.                                                             *)
(***************************************************************************)

\* A staged deploy stands (tick()'s comment): neither a reading of the ref, nor an announcement,
\* nor a tick that read the phase before the verdict came takes it off the tab.
StagedStands ==
    [][phase = "Done" /\ phase' # "Done"
       => phase' = "Requested" \/ (phase' \in Verdicts /\ UNCHANGED tickVars)]_vars

\* A request ends in a verdict, its own timeout's included, whatever the probe reads meanwhile.
RequestStands ==
    [][phase = "Requested" /\ phase' # "Requested"
       => \/ phase' \in Verdicts /\ UNCHANGED tickVars
          \/ phase' = "Failed" /\ late]_vars

\* "Check for updates" always has a probe to answer it, whether it found the launch's probe
\* running, unconsumed or gone.
CheckHasProbe == phase = "Checking" => probe \in {"running", "done"} \/ tpc = "fallback"

\* ... so that every check and every request is answered, by a timeout if need be.
Answered == phase \in {"Checking", "Requested"} ~> phase \notin {"Checking", "Requested"}

\* An announcement that is neither ignored nor refused is on the tab whenever the tab says that
\* nothing was announced (the Idle phase without an update).
AnnouncementShown ==
    [][tpc = "announce" /\ tpc' = "idle" /\ seen = "Idle" /\ shown' = "check"
       => available \in {None, ignored, refused}]_vars
=============================================================================
