----------------------------- MODULE PowerProofs -----------------------------
(***************************************************************************)
(* Proofs about Power, for any number of suspends, unpaired resume signals *)
(* and lost links, and any retry limit.                                    *)
(***************************************************************************)
EXTENDS Power, TLAPS

USE DEF busVars, fdVars, playerVars, resumeVars, mainVars, histVars, Up

-----------------------------------------------------------------------------
(* The delay lock.                                                          *)

\* A lock is taken only where none is held: at a reconnect, or behind the close of
\* the old one.
LockInv == NoLeakedLock /\ (lpc = "take" => sleepFd = FALSE)

LEMMA LockStep == ASSUME LockInv, [Next]_vars PROVE LockInv'
<1> USE DEF LockInv, NoLeakedLock
<1>1. CASE Pump
  BY <1>1 DEF Pump, LoopFrame, Loop
<1>2. CASE Reconnected
  BY <1>2 DEF Reconnected, LoopFrame, Loop, TakeSleepLock
<1>3. CASE ConnectFails
  BY <1>3 DEF ConnectFails, LoopFrame, Loop
<1>4. CASE ReconnectStopped
  BY <1>4 DEF ReconnectStopped, LoopFrame, Loop
<1>5. CASE Backoff
  BY <1>5 DEF Backoff, LoopFrame, Loop
<1>6. CASE Reconcile
  BY <1>6 DEF Reconcile, LoopFrame, Pumped
<1>7. CASE BusWait
  BY <1>7 DEF BusWait, LoopFrame, Loop
<1>8. CASE Suspending
  BY <1>8 DEF Suspending, LoopFrame, Loop
<1>9. CASE Pausing
  BY <1>9 DEF Pausing, LoopFrame, Loop
<1>10. CASE Releasing
  BY <1>10 DEF Releasing, LoopFrame, Loop, CloseSleepFd
<1>11. CASE Rearm
  BY <1>11 DEF Rearm, LoopFrame, Loop, CloseSleepFd
<1>12. CASE Take
  BY <1>12 DEF Take, LoopFrame, Loop, TakeSleepLock
<1>13. CASE Stamp
  BY <1>13 DEF Stamp, LoopFrame, Loop
<1>14. CASE RequestResume
  BY <1>14 DEF RequestResume, LoopFrame, Loop
<1>15. CASE Probe
  BY <1>15 DEF Probe, Player, PlayerFrame, Superseded
<1>16. CASE Nudge
  BY <1>16 DEF Nudge, Player, PlayerFrame
<1>17. CASE Poll
  BY <1>17 DEF Poll, Player, PlayerFrame
<1>18. CASE Inhibit
  BY <1>18 DEF Inhibit, Player, PlayerFrame
<1>19. CASE PlayerWait
  BY <1>19 DEF PlayerWait, Player, PlayerFrame
<1>20. CASE Leave
  BY <1>20 DEF Leave, Player, PlayerFrame
<1>21. CASE StopPlayer
  BY <1>21 DEF StopPlayer, Main
<1>22. CASE StopPlatform
  BY <1>22 DEF StopPlatform, Main
<1>23. CASE CloseFds
  BY <1>23 DEF CloseFds, Main, CloseSleepFd
<1>24. CASE Prepare
  BY <1>24 DEF Prepare, World, Receive
<1>25. CASE FallAsleep
  BY <1>25 DEF FallAsleep, World
<1>26. CASE WakeUp
  BY <1>26 DEF WakeUp, World, Receive
<1>27. CASE StrayResume
  BY <1>27 DEF StrayResume, World, Receive
<1>28. CASE LinkDrops
  BY <1>28 DEF LinkDrops, World
<1>29. CASE LinkAges
  BY <1>29 DEF LinkAges, World
<1>30. CASE User
  BY <1>30 DEF User, World
<1>31. CASE UNCHANGED vars
  BY <1>31 DEF vars
<1> QED
  BY <1>1, <1>2, <1>3, <1>4, <1>5, <1>6, <1>7, <1>8, <1>9, <1>10, <1>11, <1>12, <1>13, <1>14,
     <1>15, <1>16, <1>17, <1>18, <1>19, <1>20, <1>21, <1>22, <1>23, <1>24, <1>25, <1>26, <1>27, <1>28,
     <1>29, <1>30, <1>31
     DEF Next, LoopStep, PlayerStep, MainStep, External

LEMMA LockHolds == Spec => []LockInv
<1>1. Init => LockInv
  BY DEF Init, LockInv, NoLeakedLock
<1>2. LockInv /\ [Next]_vars => LockInv'
  BY LockStep
<1> QED
  BY <1>1, <1>2, PTL DEF Spec

\* logind never holds a delay lock the launcher cannot release, whatever unpaired
\* resume signals, lost links and suspends come in whatever order.
THEOREM LocksAreOurs == Spec => []NoLeakedLock
<1>1. LockInv => NoLeakedLock
  BY DEF LockInv
<1> QED
  BY <1>1, LockHolds, PTL

-----------------------------------------------------------------------------
(* Types.                                                                   *)

\* The budget of tries is spent only by the thread that gives up.
DataInv ==
    /\ sys \in {"awake", "preparing", "asleep"} /\ locks \in Nat
    /\ lpc \in LoopSteps /\ failures \in 0 .. MaxTries
    /\ lpc # "ended" => failures < MaxTries
    /\ gen \in Nat /\ resumeGen \in 0 .. gen /\ g \in 0 .. gen
    /\ ppc \in {"probe", "nudge", "poll", "inhibit", "wait", "ended"}
    /\ mpc \in {"run", "player", "platform", "done"}
    /\ events \in Nat

SigOK == sig \in Seq(BOOLEAN)

FlagsOK ==
    /\ bus \in BOOLEAN /\ stable \in BOOLEAN /\ sleepFd \in BOOLEAN /\ idleFd \in BOOLEAN
    /\ want \in BOOLEAN /\ nudged \in BOOLEAN /\ pending \in BOOLEAN /\ seen \in BOOLEAN
    /\ stop \in BOOLEAN /\ running \in BOOLEAN /\ playing \in BOOLEAN
    /\ guarded \in BOOLEAN /\ late \in BOOLEAN /\ hooked \in BOOLEAN /\ paused \in BOOLEAN
    /\ excused \in BOOLEAN

LEMMA DataStep == ASSUME LockInv, DataInv, [Next]_vars PROVE DataInv'
<1> USE BoundsAssumption DEF LockInv, NoLeakedLock, DataInv, LoopSteps
<1>1. CASE Pump
  <2>1. lpc' \in {"reconnect", "suspending", "rearm"} /\ lpc = "pump"
    BY <1>1, Zenon DEF Pump, Loop
  <2>2. UNCHANGED <<sys, locks, gen, resumeGen, g, ppc, mpc, events>>
    BY <1>1 DEF Pump, LoopFrame
  <2>3. failures' = 0 \/ failures' = failures
    BY <1>1, Zenon DEF Pump
  <2> QED
    BY <2>1, <2>2, <2>3
<1>2. CASE Reconnected
  BY <1>2 DEF Reconnected, LoopFrame, Loop, TakeSleepLock
<1>3. CASE ConnectFails
  BY <1>3 DEF ConnectFails, LoopFrame, Loop
<1>4. CASE ReconnectStopped
  BY <1>4 DEF ReconnectStopped, LoopFrame, Loop
<1>5. CASE Backoff
  BY <1>5 DEF Backoff, LoopFrame, Loop
<1>6. CASE Reconcile
  BY <1>6 DEF Reconcile, LoopFrame, Pumped
<1>7. CASE BusWait
  BY <1>7 DEF BusWait, LoopFrame, Loop
<1>8. CASE Suspending
  BY <1>8 DEF Suspending, LoopFrame, Loop
<1>9. CASE Pausing
  BY <1>9 DEF Pausing, LoopFrame, Loop
<1>10. CASE Releasing
  BY <1>10 DEF Releasing, LoopFrame, Loop, CloseSleepFd
<1>11. CASE Rearm
  BY <1>11 DEF Rearm, LoopFrame, Loop, CloseSleepFd
<1>12. CASE Take
  BY <1>12 DEF Take, LoopFrame, Loop, TakeSleepLock
<1>13. CASE Stamp
  BY <1>13 DEF Stamp, LoopFrame, Loop
<1>14. CASE RequestResume
  BY <1>14 DEF RequestResume, LoopFrame, Loop
<1>15. CASE Probe
  BY <1>15 DEF Probe, Player, PlayerFrame, Superseded
<1>16. CASE Nudge
  BY <1>16 DEF Nudge, Player, PlayerFrame
<1>17. CASE Poll
  BY <1>17 DEF Poll, Player, PlayerFrame
<1>18. CASE Inhibit
  BY <1>18 DEF Inhibit, Player, PlayerFrame
<1>19. CASE PlayerWait
  BY <1>19 DEF PlayerWait, Player, PlayerFrame
<1>20. CASE Leave
  BY <1>20 DEF Leave, Player, PlayerFrame
<1>21. CASE StopPlayer
  BY <1>21 DEF StopPlayer, Main
<1>22. CASE StopPlatform
  BY <1>22 DEF StopPlatform, Main
<1>23. CASE CloseFds
  BY <1>23 DEF CloseFds, Main, CloseSleepFd
<1>24. CASE Prepare
  BY <1>24 DEF Prepare, World, Receive
<1>25. CASE FallAsleep
  BY <1>25 DEF FallAsleep, World
<1>26. CASE WakeUp
  BY <1>26 DEF WakeUp, World, Receive
<1>27. CASE StrayResume
  BY <1>27 DEF StrayResume, World, Receive
<1>28. CASE LinkDrops
  BY <1>28 DEF LinkDrops, World
<1>29. CASE LinkAges
  BY <1>29 DEF LinkAges, World
<1>30. CASE User
  BY <1>30 DEF User, World
<1>31. CASE UNCHANGED vars
  BY <1>31 DEF vars
<1> QED
  BY <1>1, <1>2, <1>3, <1>4, <1>5, <1>6, <1>7, <1>8, <1>9, <1>10, <1>11, <1>12, <1>13, <1>14,
     <1>15, <1>16, <1>17, <1>18, <1>19, <1>20, <1>21, <1>22, <1>23, <1>24, <1>25, <1>26, <1>27, <1>28,
     <1>29, <1>30, <1>31
     DEF Next, LoopStep, PlayerStep, MainStep, External

LEMMA Received == ASSUME NEW s \in Seq(BOOLEAN), NEW b \in BOOLEAN PROVE Append(s, b) \in Seq(BOOLEAN)
  OBVIOUS

LEMMA SigStep == ASSUME SigOK, [Next]_vars PROVE SigOK'
<1> USE DEF SigOK
<1>1. CASE Pump
  <2>1. sig' = sig \/ (sig # <<>> /\ sig' = Tail(sig))
    BY <1>1, Zenon DEF Pump
  <2> QED
    BY <2>1
<1>2. CASE Reconnected
  BY <1>2 DEF Reconnected, LoopFrame, Loop, TakeSleepLock
<1>3. CASE ConnectFails
  BY <1>3 DEF ConnectFails, LoopFrame, Loop
<1>4. CASE ReconnectStopped
  BY <1>4 DEF ReconnectStopped, LoopFrame, Loop
<1>5. CASE Backoff
  BY <1>5 DEF Backoff, LoopFrame, Loop
<1>6. CASE Reconcile
  BY <1>6 DEF Reconcile, LoopFrame, Pumped
<1>7. CASE BusWait
  BY <1>7 DEF BusWait, LoopFrame, Loop
<1>8. CASE Suspending
  BY <1>8 DEF Suspending, LoopFrame, Loop
<1>9. CASE Pausing
  BY <1>9 DEF Pausing, LoopFrame, Loop
<1>10. CASE Releasing
  BY <1>10 DEF Releasing, LoopFrame, Loop, CloseSleepFd
<1>11. CASE Rearm
  BY <1>11 DEF Rearm, LoopFrame, Loop, CloseSleepFd
<1>12. CASE Take
  BY <1>12 DEF Take, LoopFrame, Loop, TakeSleepLock
<1>13. CASE Stamp
  BY <1>13 DEF Stamp, LoopFrame, Loop
<1>14. CASE RequestResume
  BY <1>14 DEF RequestResume, LoopFrame, Loop
<1>15. CASE Probe
  BY <1>15 DEF Probe, Player, PlayerFrame, Superseded
<1>16. CASE Nudge
  BY <1>16 DEF Nudge, Player, PlayerFrame
<1>17. CASE Poll
  BY <1>17 DEF Poll, Player, PlayerFrame
<1>18. CASE Inhibit
  BY <1>18 DEF Inhibit, Player, PlayerFrame
<1>19. CASE PlayerWait
  BY <1>19 DEF PlayerWait, Player, PlayerFrame
<1>20. CASE Leave
  BY <1>20 DEF Leave, Player, PlayerFrame
<1>21. CASE StopPlayer
  BY <1>21 DEF StopPlayer, Main
<1>22. CASE StopPlatform
  BY <1>22 DEF StopPlatform, Main
<1>23. CASE CloseFds
  BY <1>23 DEF CloseFds, Main, CloseSleepFd
<1>24. CASE Prepare
  <2>1. sig' = sig \/ sig' = Append(sig, TRUE)
    BY <1>24, Zenon DEF Prepare, Receive
  <2> QED
    BY <2>1, Received
<1>25. CASE FallAsleep
  BY <1>25 DEF FallAsleep, World
<1>26. CASE WakeUp
  <2>1. sig' = sig \/ sig' = Append(sig, FALSE)
    BY <1>26, Zenon DEF WakeUp, Receive
  <2> QED
    BY <2>1, Received
<1>27. CASE StrayResume
  <2>1. sig' = sig \/ sig' = Append(sig, FALSE)
    BY <1>27, Zenon DEF StrayResume, Receive
  <2> QED
    BY <2>1, Received
<1>28. CASE LinkDrops
  BY <1>28 DEF LinkDrops, World
<1>29. CASE LinkAges
  BY <1>29 DEF LinkAges, World
<1>30. CASE User
  BY <1>30 DEF User, World
<1>31. CASE UNCHANGED vars
  BY <1>31 DEF vars
<1> QED
  BY <1>1, <1>2, <1>3, <1>4, <1>5, <1>6, <1>7, <1>8, <1>9, <1>10, <1>11, <1>12, <1>13, <1>14,
     <1>15, <1>16, <1>17, <1>18, <1>19, <1>20, <1>21, <1>22, <1>23, <1>24, <1>25, <1>26, <1>27, <1>28,
     <1>29, <1>30, <1>31
     DEF Next, LoopStep, PlayerStep, MainStep, External

LEMMA FlagsStep == ASSUME FlagsOK, [Next]_vars PROVE FlagsOK'
<1> USE DEF FlagsOK
<1>1. CASE Pump
  <2>1. UNCHANGED <<bus, stable, sleepFd, idleFd, want, nudged, pending, seen, stop,
                    running, playing, guarded, late, hooked, paused, excused>>
    BY <1>1 DEF Pump, LoopFrame, Loop
  <2> QED
    BY <2>1
<1>2. CASE Reconnected
  <2>1. UNCHANGED <<idleFd, want, nudged, pending, seen, stop, running, playing, guarded,
                    late, hooked, paused, excused>>
    BY <1>2 DEF Reconnected, LoopFrame
  <2>2. bus' \in BOOLEAN /\ stable' \in BOOLEAN /\ sleepFd' \in BOOLEAN
    BY <1>2, Zenon DEF Reconnected, TakeSleepLock
  <2> QED
    BY <2>1, <2>2
<1>3. CASE ConnectFails
  BY <1>3 DEF ConnectFails, LoopFrame, Loop
<1>4. CASE ReconnectStopped
  BY <1>4 DEF ReconnectStopped, LoopFrame, Loop
<1>5. CASE Backoff
  <2>1. UNCHANGED <<bus, stable, sleepFd, idleFd, want, pending, seen, stop, running,
                    playing, guarded, late, hooked, paused, excused>>
    BY <1>5 DEF Backoff, LoopFrame, Loop
  <2>2. nudged' \in BOOLEAN
    BY <1>5, Zenon DEF Backoff, LoopFrame, Loop
  <2> QED
    BY <2>1, <2>2
<1>6. CASE Reconcile
  BY <1>6 DEF Reconcile, LoopFrame, Pumped
<1>7. CASE BusWait
  <2>1. UNCHANGED <<bus, stable, sleepFd, idleFd, want, pending, seen, stop, running,
                    playing, guarded, late, hooked, paused, excused>>
    BY <1>7 DEF BusWait, LoopFrame, Loop
  <2>2. nudged' \in BOOLEAN
    BY <1>7, Zenon DEF BusWait, LoopFrame, Loop
  <2> QED
    BY <2>1, <2>2
<1>8. CASE Suspending
  BY <1>8 DEF Suspending, LoopFrame, Loop
<1>9. CASE Pausing
  BY <1>9 DEF Pausing, LoopFrame, Loop
<1>10. CASE Releasing
  <2>1. UNCHANGED <<bus, stable, idleFd, want, nudged, pending, seen, stop, running,
                    playing, guarded, late, hooked, paused, excused>>
    BY <1>10 DEF Releasing, LoopFrame, Loop, CloseSleepFd
  <2>2. sleepFd' \in BOOLEAN
    BY <1>10, Zenon DEF Releasing, LoopFrame, Loop, CloseSleepFd
  <2> QED
    BY <2>1, <2>2
<1>11. CASE Rearm
  <2>1. UNCHANGED <<bus, stable, idleFd, want, nudged, pending, seen, stop, running,
                    playing, guarded, late, hooked, paused, excused>>
    BY <1>11 DEF Rearm, LoopFrame, Loop, CloseSleepFd
  <2>2. sleepFd' \in BOOLEAN
    BY <1>11, Zenon DEF Rearm, LoopFrame, Loop, CloseSleepFd
  <2> QED
    BY <2>1, <2>2
<1>12. CASE Take
  <2>1. UNCHANGED <<bus, stable, idleFd, want, nudged, pending, seen, stop, running,
                    playing, guarded, late, hooked, paused, excused>>
    BY <1>12 DEF Take, LoopFrame, Loop, TakeSleepLock
  <2>2. sleepFd' \in BOOLEAN
    BY <1>12, Zenon DEF Take, LoopFrame, Loop, TakeSleepLock
  <2> QED
    BY <2>1, <2>2
<1>13. CASE Stamp
  BY <1>13 DEF Stamp, LoopFrame, Loop
<1>14. CASE RequestResume
  BY <1>14 DEF RequestResume, LoopFrame, Loop
<1>15. CASE Probe
  BY <1>15 DEF Probe, Player, PlayerFrame, Superseded
<1>16. CASE Nudge
  BY <1>16 DEF Nudge, Player, PlayerFrame
<1>17. CASE Poll
  BY <1>17 DEF Poll, Player, PlayerFrame
<1>18. CASE Inhibit
  <2>1. UNCHANGED <<bus, stable, sleepFd, idleFd, pending, seen, stop, running, playing,
                    guarded, late, hooked, paused, excused>>
    BY <1>18 DEF Inhibit, Player, PlayerFrame
  <2>2. want' \in BOOLEAN /\ nudged' \in BOOLEAN
    BY <1>18, Zenon DEF Inhibit, Player, PlayerFrame, SetIdleInhibited
  <2> QED
    BY <2>1, <2>2
<1>19. CASE PlayerWait
  <2>1. UNCHANGED <<bus, stable, sleepFd, idleFd, want, nudged, seen, stop, running,
                    playing, guarded, late, hooked, paused, excused>>
    BY <1>19 DEF PlayerWait, Player, PlayerFrame
  <2>2. pending' \in BOOLEAN
    BY <1>19, Zenon DEF PlayerWait, Player, PlayerFrame
  <2> QED
    BY <2>1, <2>2
<1>20. CASE Leave
  <2>1. UNCHANGED <<bus, stable, sleepFd, idleFd, pending, seen, stop, running, playing,
                    guarded, late, hooked, paused, excused>>
    BY <1>20 DEF Leave, Player, PlayerFrame
  <2>2. want' \in BOOLEAN /\ nudged' \in BOOLEAN
    BY <1>20, Zenon DEF Leave, Player, PlayerFrame, SetIdleInhibited
  <2> QED
    BY <2>1, <2>2
<1>21. CASE StopPlayer
  BY <1>21 DEF StopPlayer, Main
<1>22. CASE StopPlatform
  <2>1. UNCHANGED <<bus, stable, sleepFd, idleFd, want, pending, seen, stop, playing,
                    guarded, late, hooked, paused, excused>>
    BY <1>22 DEF StopPlatform, Main
  <2>2. running' \in BOOLEAN /\ nudged' \in BOOLEAN
    BY <1>22, Zenon DEF StopPlatform, Main
  <2> QED
    BY <2>1, <2>2
<1>23. CASE CloseFds
  <2>1. UNCHANGED <<bus, stable, want, nudged, pending, seen, stop, running, playing,
                    guarded, late, hooked, paused, excused>>
    BY <1>23 DEF CloseFds, Main, CloseSleepFd
  <2>2. idleFd' \in BOOLEAN /\ sleepFd' \in BOOLEAN
    BY <1>23, Zenon DEF CloseFds, Main, CloseSleepFd
  <2> QED
    BY <2>1, <2>2
<1>24. CASE Prepare
  BY <1>24 DEF Prepare, World, Receive
<1>25. CASE FallAsleep
  BY <1>25 DEF FallAsleep, World
<1>26. CASE WakeUp
  BY <1>26 DEF WakeUp, World, Receive
<1>27. CASE StrayResume
  BY <1>27 DEF StrayResume, World, Receive
<1>28. CASE LinkDrops
  <2>1. UNCHANGED <<stable, sleepFd, idleFd, want, nudged, pending, seen, stop, running,
                    playing, guarded, late, hooked, paused, excused>>
    BY <1>28 DEF LinkDrops, World
  <2>2. bus' \in BOOLEAN
    BY <1>28, Zenon DEF LinkDrops, World
  <2> QED
    BY <2>1, <2>2
<1>29. CASE LinkAges
  BY <1>29 DEF LinkAges, World
<1>30. CASE User
  BY <1>30 DEF User, World
<1>31. CASE UNCHANGED vars
  BY <1>31 DEF vars
<1> QED
  BY <1>1, <1>2, <1>3, <1>4, <1>5, <1>6, <1>7, <1>8, <1>9, <1>10, <1>11, <1>12, <1>13, <1>14,
     <1>15, <1>16, <1>17, <1>18, <1>19, <1>20, <1>21, <1>22, <1>23, <1>24, <1>25, <1>26, <1>27, <1>28,
     <1>29, <1>30, <1>31
     DEF Next, LoopStep, PlayerStep, MainStep, External

\* Every variable has its type, and the reconnects stay within their budget, in every
\* reachable state of the loop, the player's thread and main().
THEOREM TypeCorrect == Spec => []TypeOK
<1>1. Init => DataInv /\ SigOK
  BY BoundsAssumption DEF Init, DataInv, SigOK, LoopSteps
<1>2. Init => FlagsOK
  BY Zenon DEF Init, FlagsOK
<1>3. LockInv /\ DataInv /\ SigOK /\ FlagsOK /\ [Next]_vars => DataInv' /\ SigOK' /\ FlagsOK'
  BY DataStep, SigStep, FlagsStep
<1>4. DataInv /\ SigOK /\ FlagsOK => TypeOK
  BY DEF DataInv, SigOK, FlagsOK, TypeOK
<1> QED
  BY <1>1, <1>2, <1>3, <1>4, LockHolds, PTL DEF Spec

-----------------------------------------------------------------------------
(* A suspend the lock holds back.                                           *)

\* No resume is stamped with a generation that is still to come.
GenInv == gen \in Nat /\ resumeGen \in 0 .. gen /\ g \in 0 .. gen

LEMMA GenStep == ASSUME GenInv, [Next]_vars PROVE GenInv'
<1> USE DEF GenInv
<1>1. CASE Pump
  BY <1>1 DEF Pump, LoopFrame, Loop
<1>2. CASE Reconnected
  BY <1>2 DEF Reconnected, LoopFrame, Loop, TakeSleepLock
<1>3. CASE ConnectFails
  BY <1>3 DEF ConnectFails, LoopFrame, Loop
<1>4. CASE ReconnectStopped
  BY <1>4 DEF ReconnectStopped, LoopFrame, Loop
<1>5. CASE Backoff
  BY <1>5 DEF Backoff, LoopFrame, Loop
<1>6. CASE Reconcile
  BY <1>6 DEF Reconcile, LoopFrame, Pumped
<1>7. CASE BusWait
  BY <1>7 DEF BusWait, LoopFrame, Loop
<1>8. CASE Suspending
  BY <1>8 DEF Suspending, LoopFrame, Loop
<1>9. CASE Pausing
  BY <1>9 DEF Pausing, LoopFrame, Loop
<1>10. CASE Releasing
  BY <1>10 DEF Releasing, LoopFrame, Loop, CloseSleepFd
<1>11. CASE Rearm
  BY <1>11 DEF Rearm, LoopFrame, Loop, CloseSleepFd
<1>12. CASE Take
  BY <1>12 DEF Take, LoopFrame, Loop, TakeSleepLock
<1>13. CASE Stamp
  BY <1>13 DEF Stamp, LoopFrame, Loop
<1>14. CASE RequestResume
  BY <1>14 DEF RequestResume, LoopFrame, Loop
<1>15. CASE Probe
  BY <1>15 DEF Probe, Player, PlayerFrame, Superseded
<1>16. CASE Nudge
  BY <1>16 DEF Nudge, Player, PlayerFrame
<1>17. CASE Poll
  BY <1>17 DEF Poll, Player, PlayerFrame
<1>18. CASE Inhibit
  BY <1>18 DEF Inhibit, Player, PlayerFrame
<1>19. CASE PlayerWait
  BY <1>19 DEF PlayerWait, Player, PlayerFrame
<1>20. CASE Leave
  BY <1>20 DEF Leave, Player, PlayerFrame
<1>21. CASE StopPlayer
  BY <1>21 DEF StopPlayer, Main
<1>22. CASE StopPlatform
  BY <1>22 DEF StopPlatform, Main
<1>23. CASE CloseFds
  BY <1>23 DEF CloseFds, Main, CloseSleepFd
<1>24. CASE Prepare
  BY <1>24 DEF Prepare, World, Receive
<1>25. CASE FallAsleep
  BY <1>25 DEF FallAsleep, World
<1>26. CASE WakeUp
  BY <1>26 DEF WakeUp, World, Receive
<1>27. CASE StrayResume
  BY <1>27 DEF StrayResume, World, Receive
<1>28. CASE LinkDrops
  BY <1>28 DEF LinkDrops, World
<1>29. CASE LinkAges
  BY <1>29 DEF LinkAges, World
<1>30. CASE User
  BY <1>30 DEF User, World
<1>31. CASE UNCHANGED vars
  BY <1>31 DEF vars
<1> QED
  BY <1>1, <1>2, <1>3, <1>4, <1>5, <1>6, <1>7, <1>8, <1>9, <1>10, <1>11, <1>12, <1>13, <1>14,
     <1>15, <1>16, <1>17, <1>18, <1>19, <1>20, <1>21, <1>22, <1>23, <1>24, <1>25, <1>26, <1>27, <1>28,
     <1>29, <1>30, <1>31
     DEF Next, LoopStep, PlayerStep, MainStep, External

\* The signals of a suspend announced to a loop that had handled all before it: the
\* lock is ours until the hook has run, or until main() is done.
Between == {"pump", "reconcile", "wait", "ended", "reconnect", "backoff"}

BeforeHook ==
    /\ mpc = "done" \/ sleepFd
    /\ lpc \in Between \cup {"stamp", "request", "suspending", "pausing"}
    /\ sig = <<TRUE>> \/ sig = <<>>

HookInv ==
    /\ sys \in {"awake", "preparing", "asleep"}
    /\ sys = "preparing" /\ guarded /\ ~late /\ ~hooked => BeforeHook
    /\ sys = "asleep" /\ guarded /\ ~late => hooked \/ mpc = "done"

LEMMA OneSignal == ASSUME NEW x PROVE Head(<<x>>) = x /\ Tail(<<x>>) = <<>>
  OBVIOUS

LEMMA HookStep == ASSUME LockInv, DataInv, HookInv, [Next]_vars PROVE HookInv'
<1> USE DEF LockInv, NoLeakedLock, HookInv, BeforeHook, Between
<1>1. CASE Pump
  <2>1. sig = <<TRUE>> => Head(sig) = TRUE /\ Tail(sig) = <<>>
    BY OneSignal
  <2>2. /\ UNCHANGED <<sys, guarded, late, hooked, mpc, sleepFd>>
        /\ lpc = "pump" /\ (~bus \/ sig # <<>>)
    BY <1>1 DEF Pump, Loop, LoopFrame
  <2>3. bus => lpc' = (IF Head(sig) THEN "suspending" ELSE "rearm") /\ sig' = Tail(sig)
    BY <1>1 DEF Pump, Loop
  <2>4. ~bus => lpc' = "reconnect" /\ sig' = sig
    BY <1>1 DEF Pump, Loop
  <2> QED
    BY <2>1, <2>2, <2>3, <2>4
<1>2. CASE Reconnected
  BY <1>2 DEF Reconnected, LoopFrame, Loop, TakeSleepLock
<1>3. CASE ConnectFails
  BY <1>3 DEF ConnectFails, LoopFrame, Loop
<1>4. CASE ReconnectStopped
  BY <1>4 DEF ReconnectStopped, LoopFrame, Loop
<1>5. CASE Backoff
  BY <1>5 DEF Backoff, LoopFrame, Loop
<1>6. CASE Reconcile
  BY <1>6 DEF Reconcile, LoopFrame, Pumped
<1>7. CASE BusWait
  BY <1>7 DEF BusWait, LoopFrame, Loop
<1>8. CASE Suspending
  BY <1>8 DEF Suspending, LoopFrame, Loop
<1>9. CASE Pausing
  <2>1. UNCHANGED <<sys, guarded, late>> /\ sys # "asleep"
    BY <1>9, Zenon DEF Pausing, Loop, LoopFrame
  <2>2. sys = "preparing" => hooked'
    BY <1>9, Zenon DEF Pausing
  <2> QED
    BY <2>1, <2>2, Zenon
<1>10. CASE Releasing
  BY <1>10 DEF Releasing, LoopFrame, Loop, CloseSleepFd
<1>11. CASE Rearm
  BY <1>11 DEF Rearm, LoopFrame, Loop, CloseSleepFd
<1>12. CASE Take
  BY <1>12 DEF Take, LoopFrame, Loop, TakeSleepLock
<1>13. CASE Stamp
  BY <1>13 DEF Stamp, LoopFrame, Loop
<1>14. CASE RequestResume
  BY <1>14 DEF RequestResume, LoopFrame, Loop
<1>15. CASE Probe
  BY <1>15 DEF Probe, Player, PlayerFrame, Superseded
<1>16. CASE Nudge
  <2>1. UNCHANGED <<sys, sig, lpc, guarded, late, hooked, mpc, sleepFd>>
    BY <1>16, Zenon DEF Nudge, Player, PlayerFrame
  <2> QED
    BY <2>1
<1>17. CASE Poll
  <2>1. UNCHANGED <<sys, sig, lpc, guarded, late, hooked, mpc, sleepFd>>
    BY <1>17, Zenon DEF Poll, Player, PlayerFrame
  <2> QED
    BY <2>1
<1>18. CASE Inhibit
  BY <1>18 DEF Inhibit, Player, PlayerFrame
<1>19. CASE PlayerWait
  BY <1>19 DEF PlayerWait, Player, PlayerFrame
<1>20. CASE Leave
  BY <1>20 DEF Leave, Player, PlayerFrame
<1>21. CASE StopPlayer
  BY <1>21 DEF StopPlayer, Main
<1>22. CASE StopPlatform
  BY <1>22 DEF StopPlatform, Main
<1>23. CASE CloseFds
  BY <1>23 DEF CloseFds, Main, CloseSleepFd
<1>24. CASE Prepare
  <2>1. /\ UNCHANGED <<bus, mpc, sleepFd, lpc>>
        /\ sys' = "preparing" /\ sig' = IF bus THEN Append(sig, TRUE) ELSE sig
    BY <1>24 DEF Prepare, World, Receive
  <2>2. guarded' => bus /\ sleepFd
    BY <1>24, Zenon DEF Prepare
  <2>3. ~late' => sig = <<>> /\ lpc \notin {"rearm", "releasing"}
    BY <1>24, Zenon DEF Prepare
  <2>4. sig = <<>> => Append(sig, TRUE) = <<TRUE>>
    OBVIOUS
  <2>5. lpc \in LoopSteps
    BY DEF DataInv
  <2> QED
    BY <2>1, <2>2, <2>3, <2>4, <2>5 DEF LoopSteps
<1>25. CASE FallAsleep
  <2>1. UNCHANGED <<late, hooked, mpc, sleepFd>> /\ sys = "preparing" /\ sys' = "asleep"
    BY <1>25 DEF FallAsleep, World
  <2>2. guarded' => guarded /\ locks = 0
    BY <1>25, Zenon DEF FallAsleep
  <2>3. locks = 0 => ~sleepFd
    OBVIOUS
  <2> QED
    BY <2>1, <2>2, <2>3
<1>26. CASE WakeUp
  BY <1>26 DEF WakeUp, World, Receive
<1>27. CASE StrayResume
  BY <1>27 DEF StrayResume, World, Receive
<1>28. CASE LinkDrops
  BY <1>28 DEF LinkDrops, World
<1>29. CASE LinkAges
  BY <1>29 DEF LinkAges, World
<1>30. CASE User
  BY <1>30 DEF User, World
<1>31. CASE UNCHANGED vars
  BY <1>31 DEF vars
<1> QED
  BY <1>1, <1>2, <1>3, <1>4, <1>5, <1>6, <1>7, <1>8, <1>9, <1>10, <1>11, <1>12, <1>13, <1>14,
     <1>15, <1>16, <1>17, <1>18, <1>19, <1>20, <1>21, <1>22, <1>23, <1>24, <1>25, <1>26, <1>27, <1>28,
     <1>29, <1>30, <1>31
     DEF Next, LoopStep, PlayerStep, MainStep, External


\* No nudge is past its last check, and none asked for so far will pass it.
NudgesOver == resumeGen < gen /\ ppc # "nudge" /\ (ppc = "probe" => g < gen)

\* A hook that is about to pause has put an end to every resume of before; a page that
\* took the pause of the suspend's own signal stays paused, since no signal is left to
\* resume it, but for what the user started or what was in flight.
PauseInv ==
    /\ lpc = "pausing" => resumeGen < gen /\ (ppc = "probe" => g < gen)
    /\ paused => sys # "awake"
    /\ sys = "preparing" /\ paused =>
        /\ sig = <<>> /\ lpc \in Between \cup {"releasing"}
        /\ ~excused => ~playing /\ NudgesOver
    /\ sys = "asleep" /\ paused /\ ~excused => ~playing

LEMMA PauseStep == ASSUME GenInv, PauseInv, [Next]_vars PROVE PauseInv'
<1> USE DEF GenInv, PauseInv, NudgesOver, Between
<1>1. CASE Pump
  <2>1. /\ UNCHANGED <<sys, gen, resumeGen, g, ppc, paused, excused, playing>>
        /\ lpc = "pump" /\ (~bus \/ sig # <<>>) /\ lpc' # "pausing"
    BY <1>1, Zenon DEF Pump, Loop, LoopFrame
  <2>2. ~bus => lpc' = "reconnect" /\ sig' = sig
    BY <1>1 DEF Pump, Loop
  <2> QED
    BY <2>1, <2>2
<1>2. CASE Reconnected
  BY <1>2 DEF Reconnected, LoopFrame, Loop, TakeSleepLock
<1>3. CASE ConnectFails
  BY <1>3 DEF ConnectFails, LoopFrame, Loop
<1>4. CASE ReconnectStopped
  BY <1>4 DEF ReconnectStopped, LoopFrame, Loop
<1>5. CASE Backoff
  BY <1>5 DEF Backoff, LoopFrame, Loop
<1>6. CASE Reconcile
  BY <1>6 DEF Reconcile, LoopFrame, Pumped
<1>7. CASE BusWait
  BY <1>7 DEF BusWait, LoopFrame, Loop
<1>8. CASE Suspending
  BY <1>8 DEF Suspending, LoopFrame, Loop
<1>9. CASE Pausing
  <2>1. PICK reached \in BOOLEAN :
          /\ playing' = (playing /\ ~reached)
          /\ paused' = (reached /\ sys = "preparing" /\ sig = <<>>)
    BY <1>9 DEF Pausing
  <2>2. /\ UNCHANGED <<sys, sig, gen, resumeGen, g, ppc>>
        /\ lpc = "pausing" /\ lpc' = "releasing" /\ sys # "asleep"
    BY <1>9, Zenon DEF Pausing, Loop, LoopFrame
  <2>3. paused' => ~playing' /\ sys = "preparing" /\ sig = <<>>
    BY <2>1, Zenon
  <2>4. excused' = (ppc = "nudge")
    BY <1>9, Zenon DEF Pausing
  <2> QED
    BY <2>2, <2>3, <2>4
<1>10. CASE Releasing
  BY <1>10 DEF Releasing, LoopFrame, Loop, CloseSleepFd
<1>11. CASE Rearm
  BY <1>11 DEF Rearm, LoopFrame, Loop, CloseSleepFd
<1>12. CASE Take
  BY <1>12 DEF Take, LoopFrame, Loop, TakeSleepLock
<1>13. CASE Stamp
  BY <1>13 DEF Stamp, LoopFrame, Loop
<1>14. CASE RequestResume
  BY <1>14 DEF RequestResume, LoopFrame, Loop
<1>15. CASE Probe
  <2>1. /\ UNCHANGED <<sys, sig, gen, resumeGen, g, lpc, paused, excused, playing>>
        /\ ppc = "probe" /\ ppc' \in {"poll", "nudge"} /\ (gen # g => ppc' = "poll")
    BY <1>15 DEF Probe, Player, PlayerFrame, Superseded
  <2> QED
    BY <2>1
<1>16. CASE Nudge
  <2>1. /\ UNCHANGED <<sys, sig, gen, resumeGen, g, lpc, paused, excused>>
        /\ ppc = "nudge" /\ ppc' = "poll" /\ sys # "asleep"
    BY <1>16, Zenon DEF Nudge, Player, PlayerFrame
  <2> QED
    BY <2>1
<1>17. CASE Poll
  <2>1. /\ UNCHANGED <<sys, sig, gen, resumeGen, g, lpc, paused, excused, playing>>
        /\ ppc' = "inhibit"
    BY <1>17, Zenon DEF Poll, Player, PlayerFrame
  <2> QED
    BY <2>1
<1>18. CASE Inhibit
  BY <1>18 DEF Inhibit, Player, PlayerFrame
<1>19. CASE PlayerWait
  BY <1>19 DEF PlayerWait, Player, PlayerFrame
<1>20. CASE Leave
  BY <1>20 DEF Leave, Player, PlayerFrame
<1>21. CASE StopPlayer
  BY <1>21 DEF StopPlayer, Main
<1>22. CASE StopPlatform
  BY <1>22 DEF StopPlatform, Main
<1>23. CASE CloseFds
  BY <1>23 DEF CloseFds, Main, CloseSleepFd
<1>24. CASE Prepare
  <2>1. UNCHANGED <<gen, resumeGen, g, ppc, lpc>> /\ sys' = "preparing" /\ paused' = FALSE
    BY <1>24 DEF Prepare, World
  <2> QED
    BY <2>1
<1>25. CASE FallAsleep
  <2>1. /\ UNCHANGED <<gen, resumeGen, g, ppc, lpc, paused, excused, playing>>
        /\ sys = "preparing" /\ sys' = "asleep"
    BY <1>25 DEF FallAsleep, World
  <2> QED
    BY <2>1
<1>26. CASE WakeUp
  BY <1>26 DEF WakeUp, World, Receive
<1>27. CASE StrayResume
  BY <1>27 DEF StrayResume, World, Receive
<1>28. CASE LinkDrops
  BY <1>28 DEF LinkDrops, World
<1>29. CASE LinkAges
  BY <1>29 DEF LinkAges, World
<1>30. CASE User
  <2>1. UNCHANGED <<sys, sig, gen, resumeGen, g, ppc, lpc, paused>> /\ sys # "asleep"
    BY <1>30, Zenon DEF User, World
  <2>2. paused /\ ~excused' => ~excused /\ ~playing'
    BY <1>30, Zenon DEF User
  <2> QED
    BY <2>1, <2>2
<1>31. CASE UNCHANGED vars
  BY <1>31 DEF vars
<1> QED
  BY <1>1, <1>2, <1>3, <1>4, <1>5, <1>6, <1>7, <1>8, <1>9, <1>10, <1>11, <1>12, <1>13, <1>14,
     <1>15, <1>16, <1>17, <1>18, <1>19, <1>20, <1>21, <1>22, <1>23, <1>24, <1>25, <1>26, <1>27, <1>28,
     <1>29, <1>30, <1>31
     DEF Next, LoopStep, PlayerStep, MainStep, External


LEMMA SleepHolds == Spec => [](HookInv /\ PauseInv)
<1>1. Init => DataInv /\ GenInv /\ HookInv /\ PauseInv
  BY BoundsAssumption DEF Init, DataInv, LoopSteps, GenInv, HookInv, PauseInv
<1>2. /\ LockInv /\ DataInv /\ GenInv /\ HookInv /\ PauseInv /\ [Next]_vars
      => DataInv' /\ GenInv' /\ HookInv' /\ PauseInv'
  BY DataStep, GenStep, HookStep, PauseStep
<1> QED
  BY <1>1, <1>2, LockHolds, PTL DEF Spec

\* A suspend the delay lock holds back waits for a suspend hook, or for a launcher that
\* has shut down, if the loop had handled every earlier signal when it was announced. (If
\* not it may not wait: SuspendAlwaysHooked, which TLC refutes.)
THEOREM HookComesFirst == Spec => []HookBeforeSleep
<1>1. HookInv => HookBeforeSleep
  BY DEF HookInv, HookBeforeSleep
<1> QED
  BY <1>1, SleepHolds, PTL

\* A page that took the pause of a suspend's own signal does not play into the sleep,
\* unless the user pressed play since or a nudge was past its last check: no resume of an
\* earlier suspend, and no unpaired one, gets through, guarded or not.
THEOREM PauseHolds == Spec => []SleepsPaused
<1>1. PauseInv => SleepsPaused
  BY DEF PauseInv, SleepsPaused
<1> QED
  BY <1>1, SleepHolds, PTL
=============================================================================
