--------------------------- MODULE UpdaterProofs ---------------------------
(***************************************************************************)
(* Proofs about Updater, for any commits, retry limit and number of        *)
(* restarts of the portal.                                                 *)
(***************************************************************************)
EXTENDS Updater, TLAPS

\* While the thread runs a try is left, and each link lost before it was stable took one.
BudgetInv ==
    /\ upc # "ended" => failures < MaxTries
    /\ flaps <= failures
    /\ ~looping => flaps = 0
    /\ upc \in {"pump", "act", "update", "wait"} => looping

\* Update() is called with updating_ set, and want_update_ outlives a turn of the loop only as
\* auto mode's latch for the next one.
ConsentInv ==
    /\ upc = "update" => updating
    /\ want => auto /\ ~updating

-----------------------------------------------------------------------------
USE DEF outVars, handVars, linkVars, workVars, signalVars, portalVars

\* SMT is weak on Boolean variables, so their types are kept apart.
DataOK ==
    /\ upc \in Connected \cup {"establish", "backoff", "ended"}
    /\ failures \in 0 .. MaxTries /\ flaps \in Nat /\ restarts \in 0 .. MaxRestarts
    /\ available \in Commits \cup {None} /\ verdict \in Verdicts \cup {None}
    /\ BudgetInv

FlagsOK ==
    /\ auto \in BOOLEAN /\ running \in BOOLEAN /\ nudged \in BOOLEAN /\ confirm \in BOOLEAN
    /\ want \in BOOLEAN /\ updating \in BOOLEAN /\ reestablish \in BOOLEAN
    /\ looping \in BOOLEAN /\ stable \in BOOLEAN /\ deploying \in BOOLEAN
    /\ ownerSignal \in BOOLEAN /\ orphaned \in BOOLEAN /\ told \in BOOLEAN

LEMMA Typing == DataOK /\ FlagsOK => TypeOK
BY DEF TypeOK, DataOK, FlagsOK

LEMMA DataInit == Init => DataOK
BY UpdaterAssumption DEF Init, DataOK, BudgetInv, Connected

LEMMA DataStep == ASSUME DataOK, [Next]_vars PROVE DataOK'
<1> USE UpdaterAssumption DEF DataOK, BudgetInv, Connected
<1>1. CASE RequestUpdate
  BY <1>1 DEF RequestUpdate
<1>2. CASE Stop
  BY <1>2 DEF Stop
<1>3. CASE Establish
  BY <1>3 DEF Establish
<1>4. CASE Subscribe
  BY <1>4 DEF Subscribe
<1>5. CASE EstablishFails
  BY <1>5 DEF EstablishFails, Teardown, CountFailure
<1>6. CASE Backoff
  BY <1>6 DEF Backoff
<1>7. CASE PumpDone
  BY <1>7 DEF PumpDone
<1>8. CASE LoopEnds
  BY <1>8 DEF LoopEnds
<1>9. CASE Rebuild
  BY <1>9 DEF Rebuild
<1>10. CASE Consent
  BY <1>10 DEF Consent
<1>11. CASE UpdateAccepted
  BY <1>11 DEF UpdateAccepted
<1>12. CASE UpdateRefused
  BY <1>12 DEF UpdateRefused
<1>13. CASE OnNameOwnerChanged
  BY <1>13 DEF OnNameOwnerChanged, HandlerFrame
<1>14. CASE BusError
  <2>1. CASE stable
    BY <1>14, <2>1 DEF BusError, Teardown, CountFailure
  <2>2. CASE ~stable
    BY <1>14, <2>2 DEF BusError, Teardown, CountFailure
  <2> QED
    BY <2>1, <2>2
<1>15. CASE LinkStable
  BY <1>15 DEF LinkStable
<1>16. CASE Wake
  BY <1>16 DEF Wake
<1>17. CASE PortalFinishes
  BY <1>17 DEF PortalFinishes
<1>18. CASE PortalRestarts
  BY <1>18 DEF PortalRestarts
<1>19. ASSUME NEW v \in Verdicts, OnProgress(v) PROVE DataOK'
  BY <1>19 DEF OnProgress, HandlerFrame
<1>20. ASSUME NEW c \in Commits, OnUpdateAvailable(c) PROVE DataOK'
  BY <1>20 DEF OnUpdateAvailable, HandlerFrame
<1>21. CASE UNCHANGED vars
  BY <1>21 DEF vars
<1> QED
  BY <1>1, <1>2, <1>3, <1>4, <1>5, <1>6, <1>7, <1>8, <1>9, <1>10, <1>11, <1>12,
     <1>13, <1>14, <1>15, <1>16, <1>17, <1>18, <1>19, <1>20, <1>21
     DEF Next, LoopTurn, Signal, Portal

LEMMA FlagsInit == Init => FlagsOK
BY Zenon DEF Init, FlagsOK

LEMMA FlagsStep == ASSUME FlagsOK, [Next]_vars PROVE FlagsOK'
<1> USE DEF FlagsOK
<1>1. CASE RequestUpdate
  BY Zenon, <1>1 DEF RequestUpdate
<1>2. CASE Stop
  BY Zenon, <1>2 DEF Stop
<1>3. CASE Establish
  BY Zenon, <1>3 DEF Establish
<1>4. CASE Subscribe
  BY Zenon, <1>4 DEF Subscribe
<1>5. CASE EstablishFails
  BY Zenon, <1>5 DEF EstablishFails, Teardown, CountFailure
<1>6. CASE Backoff
  BY Zenon, <1>6 DEF Backoff
<1>7. CASE PumpDone
  BY Zenon, <1>7 DEF PumpDone
<1>8. CASE LoopEnds
  BY Zenon, <1>8 DEF LoopEnds
<1>9. CASE Rebuild
  BY Zenon, <1>9 DEF Rebuild
<1>10. CASE Consent
  BY Zenon, <1>10 DEF Consent
<1>11. CASE UpdateAccepted
  BY Zenon, <1>11 DEF UpdateAccepted
<1>12. CASE UpdateRefused
  BY Zenon, <1>12 DEF UpdateRefused
<1>13. CASE OnNameOwnerChanged
  BY Zenon, <1>13 DEF OnNameOwnerChanged, HandlerFrame
<1>14. CASE BusError
  BY Zenon, <1>14 DEF BusError, Teardown, CountFailure
<1>15. CASE LinkStable
  BY Zenon, <1>15 DEF LinkStable
<1>16. CASE Wake
  BY Zenon, <1>16 DEF Wake
<1>17. CASE PortalFinishes
  BY Zenon, <1>17 DEF PortalFinishes
<1>18. CASE PortalRestarts
  BY Zenon, <1>18 DEF PortalRestarts
<1>19. ASSUME NEW v \in Verdicts, OnProgress(v) PROVE FlagsOK'
  BY Zenon, <1>19 DEF OnProgress, HandlerFrame
<1>20. ASSUME NEW c \in Commits, OnUpdateAvailable(c) PROVE FlagsOK'
  BY Zenon, <1>20 DEF OnUpdateAvailable, HandlerFrame
<1>21. CASE UNCHANGED vars
  <2>1. /\ auto' = auto /\ running' = running /\ nudged' = nudged /\ confirm' = confirm
        /\ want' = want /\ updating' = updating /\ reestablish' = reestablish
        /\ looping' = looping /\ stable' = stable /\ deploying' = deploying
        /\ ownerSignal' = ownerSignal /\ orphaned' = orphaned /\ told' = told
    BY <1>21 DEF vars
  <2> QED
    BY ZenonT(30), <2>1
<1> QED
  BY <1>1, <1>2, <1>3, <1>4, <1>5, <1>6, <1>7, <1>8, <1>9, <1>10, <1>11, <1>12,
     <1>13, <1>14, <1>15, <1>16, <1>17, <1>18, <1>19, <1>20, <1>21
     DEF Next, LoopTurn, Signal, Portal

LEMMA ConsentInit == Init => ConsentInv
BY DEF Init, ConsentInv

LEMMA ConsentStep == ASSUME ConsentInv, [Next]_vars PROVE ConsentInv'
<1> USE DEF ConsentInv
<1>1. CASE RequestUpdate
  BY <1>1 DEF RequestUpdate
<1>2. CASE Stop
  BY <1>2 DEF Stop
<1>3. CASE Establish
  BY <1>3 DEF Establish
<1>4. CASE Subscribe
  BY <1>4 DEF Subscribe
<1>5. CASE EstablishFails
  BY <1>5 DEF EstablishFails, Teardown, CountFailure
<1>6. CASE Backoff
  BY <1>6 DEF Backoff
<1>7. CASE PumpDone
  BY <1>7 DEF PumpDone
<1>8. CASE LoopEnds
  BY <1>8 DEF LoopEnds
<1>9. CASE Rebuild
  BY <1>9 DEF Rebuild
<1>10. CASE Consent
  BY <1>10 DEF Consent
<1>11. CASE UpdateAccepted
  BY <1>11 DEF UpdateAccepted
<1>12. CASE UpdateRefused
  BY <1>12 DEF UpdateRefused
<1>13. CASE OnNameOwnerChanged
  BY <1>13 DEF OnNameOwnerChanged, HandlerFrame
<1>14. CASE BusError
  BY <1>14 DEF BusError, Teardown, CountFailure
<1>15. CASE LinkStable
  BY <1>15 DEF LinkStable
<1>16. CASE Wake
  BY <1>16 DEF Wake
<1>17. CASE PortalFinishes
  BY <1>17 DEF PortalFinishes
<1>18. CASE PortalRestarts
  BY <1>18 DEF PortalRestarts
<1>19. ASSUME NEW v \in Verdicts, OnProgress(v) PROVE ConsentInv'
  BY <1>19 DEF OnProgress, HandlerFrame
<1>20. ASSUME NEW c \in Commits, OnUpdateAvailable(c) PROVE ConsentInv'
  BY <1>20 DEF OnUpdateAvailable, HandlerFrame
<1>21. CASE UNCHANGED vars
  BY <1>21 DEF vars
<1> QED
  BY <1>1, <1>2, <1>3, <1>4, <1>5, <1>6, <1>7, <1>8, <1>9, <1>10, <1>11, <1>12,
     <1>13, <1>14, <1>15, <1>16, <1>17, <1>18, <1>19, <1>20, <1>21
     DEF Next, LoopTurn, Signal, Portal

Invariant == DataOK /\ FlagsOK /\ ConsentInv

LEMMA InvariantHolds == Spec => []Invariant
<1>1. Init => Invariant
  BY DataInit, FlagsInit, ConsentInit DEF Invariant
<1>2. Invariant /\ [Next]_vars => Invariant'
  BY DataStep, FlagsStep, ConsentStep DEF Invariant
<1> QED
  BY <1>1, <1>2, PTL DEF Spec

\* Every variable keeps its type, the budget of retries included.
THEOREM TypeCorrect == Spec => []TypeOK
<1>1. Invariant => TypeOK
  BY Typing DEF Invariant
<1> QED
  BY <1>1, InvariantHolds, PTL

\* Links that drop before they are stable are given up after kReconnectMaxTries of them, however
\* often the reconnects between succeed.
THEOREM FlappingIsGivenUp == Spec => []FlappingGivesUp
<1>1. Invariant => FlappingGivesUp
  BY UpdaterAssumption DEF Invariant, DataOK, BudgetInv, FlappingGivesUp
<1> QED
  BY <1>1, InvariantHolds, PTL

-----------------------------------------------------------------------------
\* In notify mode nothing but a press leads to Update(): not an announcement, a restart or a
\* reconnect.
THEOREM NeverBehindYourBack == Spec => InstallsOnConsent
<1>1. ASSUME Invariant, [Next]_vars, upc' = "update", upc # "update" PROVE auto \/ confirm
  <2> USE <1>1
  <2>1. CASE Consent
    BY <2>1 DEF Consent, Invariant, ConsentInv
  <2>2. ~Consent => FALSE
    BY DEF Next, LoopTurn, Signal, Portal, vars, RequestUpdate, Stop, Establish, Subscribe, EstablishFails, Backoff, PumpDone, LoopEnds, Rebuild, UpdateAccepted, UpdateRefused, OnNameOwnerChanged, BusError, LinkStable, Wake, PortalFinishes, PortalRestarts, OnProgress, OnUpdateAvailable, Teardown, CountFailure, HandlerFrame
  <2> QED
    BY <2>1, <2>2
<1>2. Invariant /\ [Next]_vars => [upc' = "update" /\ upc # "update" => auto \/ confirm]_vars
  BY <1>1
<1> QED
  BY <1>2, InvariantHolds, PTL DEF Spec, InstallsOnConsent

-----------------------------------------------------------------------------
LEMMA PromiseInit == Init => Promise!DeployerInit
BY DEF Init, Promise!DeployerInit

LEMMA PromiseStep ==
    ASSUME Invariant, [Next]_vars PROVE [Promise!DeployerNext]_(Promise!deployerVars)
<1> USE UpdaterAssumption DEF Invariant, ConsentInv, Promise!DeployerNext, Promise!deployerVars
<1>1. CASE RequestUpdate
  BY <1>1 DEF RequestUpdate, Promise!Ask
<1>2. CASE Stop
  BY <1>2 DEF Stop
<1>3. CASE Establish
  BY <1>3 DEF Establish
<1>4. CASE Subscribe
  BY <1>4 DEF Subscribe
<1>5. CASE EstablishFails
  BY <1>5 DEF EstablishFails, Teardown, CountFailure, Promise!Lose
<1>6. CASE Backoff
  BY <1>6 DEF Backoff
<1>7. CASE PumpDone
  BY <1>7 DEF PumpDone
<1>8. CASE LoopEnds
  BY <1>8 DEF LoopEnds
<1>9. CASE Rebuild
  BY <1>9 DEF Rebuild, Promise!Lose
<1>10. CASE Consent
  <2>1. CASE ~updating /\ (want \/ confirm)
    <3>1. Promise!Start
      BY <1>10, <2>1 DEF Consent, Promise!Start
    <3> QED
      BY <3>1
  <2>2. CASE updating /\ confirm
    <3>1. Promise!Overtaken
      BY <1>10, <2>2 DEF Consent, Promise!Overtaken
    <3> QED
      BY <3>1
  <2>3. CASE ~want /\ ~confirm
    BY <1>10, <2>3 DEF Consent
  <2> QED
    BY <2>1, <2>2, <2>3
<1>11. CASE UpdateAccepted
  BY <1>11 DEF UpdateAccepted, Promise!Accept
<1>12. CASE UpdateRefused
  BY <1>12 DEF UpdateRefused, Promise!Tell
<1>13. CASE OnNameOwnerChanged
  BY <1>13 DEF OnNameOwnerChanged, HandlerFrame
<1>14. CASE BusError
  BY <1>14 DEF BusError, Teardown, CountFailure, Promise!Lose
<1>15. CASE LinkStable
  BY <1>15 DEF LinkStable
<1>16. CASE Wake
  BY <1>16 DEF Wake
<1>17. CASE PortalFinishes
  BY <1>17 DEF PortalFinishes
<1>18. CASE PortalRestarts
  BY <1>18 DEF PortalRestarts, Promise!Lose
<1>19. ASSUME NEW v \in Verdicts, OnProgress(v) PROVE [Promise!DeployerNext]_(Promise!deployerVars)
  BY <1>19 DEF OnProgress, HandlerFrame, Promise!Tell
<1>20. ASSUME NEW c \in Commits, OnUpdateAvailable(c) PROVE [Promise!DeployerNext]_(Promise!deployerVars)
  BY <1>20 DEF OnUpdateAvailable, HandlerFrame, Promise!Ask
<1>21. CASE UNCHANGED vars
  BY <1>21 DEF vars
<1> QED
  BY <1>1, <1>2, <1>3, <1>4, <1>5, <1>6, <1>7, <1>8, <1>9, <1>10, <1>11, <1>12,
     <1>13, <1>14, <1>15, <1>16, <1>17, <1>18, <1>19, <1>20, <1>21
     DEF Next, LoopTurn, Signal, Portal

\* The thread keeps what the rest of the launcher relies on (updater.hpp): Update() on consent
\* and one at a time, a verdict only of a deploy, through drops, restarts and shutdown.
THEOREM Implements == Spec => KeepsPromise
<1>1. Invariant /\ [Next]_vars => [Promise!DeployerNext]_(Promise!deployerVars)
  BY PromiseStep
<1> QED
  BY <1>1, PromiseInit, InvariantHolds, PTL DEF Spec, KeepsPromise, Promise!DeployerSpec
=============================================================================
