------------------------ MODULE UpdatePromptProofs -------------------------
(***************************************************************************)
(* Proofs about UpdatePrompt, for any commits.  What they rest on: a phase *)
(* of "Checking" is answered by a probe or its fallback (CheckHasProbe),   *)
(* and a tick reads "Failed" into the phase only of a late request.        *)
(***************************************************************************)
EXTENDS UpdatePrompt, TLAPS

USE DEF probeVars, offerVars, refusalVars, tickVars, phaseVars, envVars, deployerVars

\* SMT is weak on Boolean variables, so their types are kept apart.
DataOK ==
    /\ phase \in Phases /\ seen \in Phases
    /\ probe \in {"absent", "idle", "running", "done"} /\ found \in Readings
    /\ tpc \in {"idle", "fallback", "read", "announce"}
    /\ shown \in {"update", "check", "quit", "none"}
    /\ deploying \in {"no", "calling", "yes", "stray"}
    /\ {available, last, ignored, announced, refused} \subseteq Commits \cup {None}

FlagsOK ==
    /\ fresh \in BOOLEAN /\ late \in BOOLEAN /\ notify \in BOOLEAN /\ forUser \in BOOLEAN
    /\ (probe = "absent" => ~forUser)
    /\ moved \in BOOLEAN /\ consent \in BOOLEAN /\ told \in BOOLEAN

LEMMA Typing == DataOK /\ FlagsOK => TypeOK
BY DEF TypeOK, DataOK, FlagsOK, DeployerTypeOK

LEMMA DataInit == Init => DataOK
BY DEF Init, DataOK, Phases, Readings, DeployerInit

LEMMA DataStep == ASSUME DataOK, [Next]_vars PROVE DataOK'
<1> USE DEF DataOK, Phases, Verdicts, Readings
<1>1. CASE Consume
  BY <1>1 DEF Consume, Answer
<1>2. CASE FallBack
  BY <1>2 DEF FallBack, RequestDeploy, Ask
<1>3. CASE ReadPhase
  BY <1>3 DEF ReadPhase
<1>4. CASE Announce
  BY <1>4 DEF Announce, Buttons, Stale
<1>5. CASE ConfirmUpdate
  BY <1>5 DEF ConfirmUpdate, RequestDeploy, Ask
<1>6. CASE IgnoreVersion
  BY <1>6 DEF IgnoreVersion
<1>7. CASE CheckByDeploy
  BY <1>7 DEF CheckByDeploy, RequestDeploy, Ask
<1>8. CASE CheckNow
  BY <1>8 DEF CheckNow
<1>9. CASE Work
  BY <1>9 DEF Work, Start, Accept, Overtaken, Lose
<1>10. CASE OnDeployProgress
  BY <1>10 DEF OnDeployProgress
<1>11. CASE NoAnswer
  BY <1>11 DEF NoAnswer
<1>12. CASE RefusalExpires
  BY <1>12 DEF RefusalExpires
<1>13. ASSUME NEW r \in Readings, ProbeReads(r) PROVE DataOK'
  BY <1>13 DEF ProbeReads
<1>14. ASSUME NEW v \in Verdicts, OnDeployResult(v) PROVE DataOK'
  BY <1>14 DEF OnDeployResult, Tell
<1>15. ASSUME NEW c \in Commits, SetAvailable(c) PROVE DataOK'
  BY <1>15 DEF SetAvailable
<1>16. CASE UNCHANGED vars
  BY <1>16 DEF vars
<1> QED
  BY <1>1, <1>2, <1>3, <1>4, <1>5, <1>6, <1>7, <1>8, <1>9,
     <1>10, <1>11, <1>12, <1>13, <1>14, <1>15, <1>16
     DEF Next, Tick, Press, Probe, UpdaterThread

LEMMA FlagsInit == Init => FlagsOK
BY Zenon DEF Init, FlagsOK, DeployerInit

LEMMA FlagsStep == ASSUME FlagsOK, [Next]_vars PROVE FlagsOK'
<1> USE DEF FlagsOK
<1>1. CASE Consume
  BY Zenon, <1>1 DEF Consume
<1>2. CASE FallBack
  BY Zenon, <1>2 DEF FallBack, RequestDeploy, Ask
<1>3. CASE ReadPhase
  BY Zenon, <1>3 DEF ReadPhase
<1>4. CASE Announce
  BY Zenon, <1>4 DEF Announce
<1>5. CASE ConfirmUpdate
  BY Zenon, <1>5 DEF ConfirmUpdate, RequestDeploy, Ask
<1>6. CASE IgnoreVersion
  BY Zenon, <1>6 DEF IgnoreVersion
<1>7. CASE CheckByDeploy
  BY Zenon, <1>7 DEF CheckByDeploy, RequestDeploy, Ask
<1>8. CASE CheckNow
  BY Zenon, <1>8 DEF CheckNow
<1>9. CASE Work
  BY Zenon, <1>9 DEF Work, Start, Accept, Overtaken, Lose
<1>10. CASE OnDeployProgress
  BY Zenon, <1>10 DEF OnDeployProgress
<1>11. CASE NoAnswer
  BY Zenon, <1>11 DEF NoAnswer
<1>12. CASE RefusalExpires
  BY Zenon, <1>12 DEF RefusalExpires
<1>13. ASSUME NEW r \in Readings, ProbeReads(r) PROVE FlagsOK'
  BY Zenon, <1>13 DEF ProbeReads
<1>14. ASSUME NEW v \in Verdicts, OnDeployResult(v) PROVE FlagsOK'
  BY Zenon, <1>14 DEF OnDeployResult, Tell
<1>15. ASSUME NEW c \in Commits, SetAvailable(c) PROVE FlagsOK'
  BY Zenon, <1>15 DEF SetAvailable
<1>16. CASE UNCHANGED vars
  BY Zenon, <1>16 DEF vars
<1> QED
  BY <1>1, <1>2, <1>3, <1>4, <1>5, <1>6, <1>7, <1>8, <1>9,
     <1>10, <1>11, <1>12, <1>13, <1>14, <1>15, <1>16
     DEF Next, Tick, Press, Probe, UpdaterThread

-----------------------------------------------------------------------------
LEMMA CheckInit == Init => CheckHasProbe
BY DEF Init, CheckHasProbe

\* Only consume_probe() takes the probe's answer, and it settles the check with it; a tick reads
\* the phase only once it has.
LEMMA CheckStep == ASSUME DataOK, CheckHasProbe, [Next]_vars PROVE CheckHasProbe'
<1> USE DEF DataOK, CheckHasProbe, Phases, Verdicts, Readings
<1>1. CASE Consume
  BY <1>1 DEF Consume, Answer
<1>2. CASE FallBack
  BY <1>2 DEF FallBack, RequestDeploy
<1>3. CASE ReadPhase
  BY <1>3 DEF ReadPhase
<1>4. CASE Announce
  BY <1>4 DEF Announce, Stale
<1>5. CASE ConfirmUpdate
  BY <1>5 DEF ConfirmUpdate, RequestDeploy
<1>6. CASE IgnoreVersion
  BY <1>6 DEF IgnoreVersion
<1>7. CASE CheckByDeploy
  BY <1>7 DEF CheckByDeploy, RequestDeploy
<1>8. CASE CheckNow
  BY <1>8 DEF CheckNow
<1>9. CASE Work
  BY <1>9 DEF Work
<1>10. CASE OnDeployProgress
  BY <1>10 DEF OnDeployProgress
<1>11. CASE NoAnswer
  BY <1>11 DEF NoAnswer
<1>12. CASE RefusalExpires
  BY <1>12 DEF RefusalExpires
<1>13. ASSUME NEW r \in Readings, ProbeReads(r) PROVE CheckHasProbe'
  BY <1>13 DEF ProbeReads
<1>14. ASSUME NEW v \in Verdicts, OnDeployResult(v) PROVE CheckHasProbe'
  BY <1>14 DEF OnDeployResult
<1>15. ASSUME NEW c \in Commits, SetAvailable(c) PROVE CheckHasProbe'
  BY <1>15 DEF SetAvailable
<1>16. CASE UNCHANGED vars
  BY <1>16 DEF vars
<1> QED
  BY <1>1, <1>2, <1>3, <1>4, <1>5, <1>6, <1>7, <1>8, <1>9,
     <1>10, <1>11, <1>12, <1>13, <1>14, <1>15, <1>16
     DEF Next, Tick, Press, Probe, UpdaterThread

Invariant == DataOK /\ FlagsOK /\ CheckHasProbe

LEMMA InvariantHolds == Spec => []Invariant
<1>1. Init => Invariant
  BY DataInit, FlagsInit, CheckInit DEF Invariant
<1>2. Invariant /\ [Next]_vars => Invariant'
  BY DataStep, FlagsStep, CheckStep DEF Invariant
<1> QED
  BY <1>1, <1>2, PTL DEF Spec

\* Every variable keeps its type.
THEOREM TypeCorrect == Spec => []TypeOK
<1>1. Invariant => TypeOK
  BY Typing DEF Invariant
<1> QED
  BY <1>1, InvariantHolds, PTL

\* check_now() leaves no check without a probe to answer it, whatever the launch's probe does.
THEOREM ChecksAreProbed == Spec => []CheckHasProbe
<1>1. Invariant => CheckHasProbe
  BY DEF Invariant
<1> QED
  BY <1>1, InvariantHolds, PTL

-----------------------------------------------------------------------------
StagedStandsStep ==
    phase = "Done" /\ phase' # "Done"
    => phase' = "Requested" \/ (phase' \in Verdicts /\ UNCHANGED tickVars)

LEMMA StagedStep == ASSUME [Next]_vars PROVE StagedStandsStep
<1> USE DEF StagedStandsStep, Verdicts
<1>1. CASE Consume
  BY <1>1 DEF Consume, Answer
<1>2. CASE FallBack
  BY <1>2 DEF FallBack, RequestDeploy
<1>3. CASE ReadPhase
  BY <1>3 DEF ReadPhase
<1>4. CASE Announce
  BY <1>4 DEF Announce, Stale
<1>5. CASE ConfirmUpdate
  BY <1>5 DEF ConfirmUpdate, RequestDeploy
<1>6. CASE IgnoreVersion
  BY <1>6 DEF IgnoreVersion
<1>7. CASE CheckByDeploy
  BY <1>7 DEF CheckByDeploy, RequestDeploy
<1>8. CASE CheckNow
  BY <1>8 DEF CheckNow
<1>9. CASE Work
  BY <1>9 DEF Work
<1>10. CASE OnDeployProgress
  BY <1>10 DEF OnDeployProgress
<1>11. CASE NoAnswer
  BY <1>11 DEF NoAnswer
<1>12. CASE RefusalExpires
  BY <1>12 DEF RefusalExpires
<1>13. ASSUME NEW r \in Readings, ProbeReads(r) PROVE StagedStandsStep
  BY <1>13 DEF ProbeReads
<1>14. ASSUME NEW v \in Verdicts, OnDeployResult(v) PROVE StagedStandsStep
  BY <1>14 DEF OnDeployResult
<1>15. ASSUME NEW c \in Commits, SetAvailable(c) PROVE StagedStandsStep
  BY <1>15 DEF SetAvailable
<1>16. CASE UNCHANGED vars
  BY <1>16 DEF vars
<1> QED
  BY <1>1, <1>2, <1>3, <1>4, <1>5, <1>6, <1>7, <1>8, <1>9,
     <1>10, <1>11, <1>12, <1>13, <1>14, <1>15, <1>16
     DEF Next, Tick, Press, Probe, UpdaterThread

\* A staged deploy stands until a new request or a new verdict: no probe, announcement or stale
\* reading of the phase takes it off the tab.
THEOREM StagedDeployStands == Spec => StagedStands
<1>1. [Next]_vars => [StagedStandsStep]_vars
  BY StagedStep
<1> QED
  BY <1>1, PTL DEF Spec, StagedStands, StagedStandsStep

RequestStandsStep ==
    phase = "Requested" /\ phase' # "Requested"
    => \/ phase' \in Verdicts /\ UNCHANGED tickVars
       \/ phase' = "Failed" /\ late

LEMMA RequestStep == ASSUME [Next]_vars PROVE RequestStandsStep
<1> USE DEF RequestStandsStep, Verdicts
<1>1. CASE Consume
  BY <1>1 DEF Consume, Answer
<1>2. CASE FallBack
  BY <1>2 DEF FallBack, RequestDeploy
<1>3. CASE ReadPhase
  BY <1>3 DEF ReadPhase
<1>4. CASE Announce
  BY <1>4 DEF Announce, Stale
<1>5. CASE ConfirmUpdate
  BY <1>5 DEF ConfirmUpdate, RequestDeploy
<1>6. CASE IgnoreVersion
  BY <1>6 DEF IgnoreVersion
<1>7. CASE CheckByDeploy
  BY <1>7 DEF CheckByDeploy, RequestDeploy
<1>8. CASE CheckNow
  BY <1>8 DEF CheckNow
<1>9. CASE Work
  BY <1>9 DEF Work
<1>10. CASE OnDeployProgress
  BY <1>10 DEF OnDeployProgress
<1>11. CASE NoAnswer
  BY <1>11 DEF NoAnswer
<1>12. CASE RefusalExpires
  BY <1>12 DEF RefusalExpires
<1>13. ASSUME NEW r \in Readings, ProbeReads(r) PROVE RequestStandsStep
  BY <1>13 DEF ProbeReads
<1>14. ASSUME NEW v \in Verdicts, OnDeployResult(v) PROVE RequestStandsStep
  BY <1>14 DEF OnDeployResult
<1>15. ASSUME NEW c \in Commits, SetAvailable(c) PROVE RequestStandsStep
  BY <1>15 DEF SetAvailable
<1>16. CASE UNCHANGED vars
  BY <1>16 DEF vars
<1> QED
  BY <1>1, <1>2, <1>3, <1>4, <1>5, <1>6, <1>7, <1>8, <1>9,
     <1>10, <1>11, <1>12, <1>13, <1>14, <1>15, <1>16
     DEF Next, Tick, Press, Probe, UpdaterThread

\* A request ends in a verdict or its own timeout, never in what a probe read meanwhile.
THEOREM RequestsStand == Spec => RequestStands
<1>1. [Next]_vars => [RequestStandsStep]_vars
  BY RequestStep
<1> QED
  BY <1>1, PTL DEF Spec, RequestStands, RequestStandsStep
=============================================================================
