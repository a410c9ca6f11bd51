--------------------------- MODULE WatchdogProofs ---------------------------
(***************************************************************************)
(* Proofs about Watchdog, for any number of shutdown requests, any restart *)
(* limit and a clock without end.                                          *)
(***************************************************************************)
EXTENDS Watchdog, TLAPS

\* A child exists, and g_child holds its pid, from fork() until it is reaped; a
\* request that is past its look at g_child has set g_shutdown.
ChildInv ==
    /\ pc \in {"stored", "wait", "reaped"} => gchild
    /\ pc \in {"forked", "stored", "wait"} => child # "none"
    /\ \A r \in Requesters : req[r] # "idle" => shutdown
    /\ \A r \in Requesters :
        pc = "wait" /\ req[r] \in {"miss", "done"} => child = "dead" \/ lostTerm

\* Once a child is reaped under a shutdown, run() only has its exit left.
EarlyInv ==
    /\ early => shutdown /\ pc \in {"reaped", "decide", "exited", "killed"}
    /\ early /\ pc = "exited" => rc = 0

\* Restarts at times s so far, the last k of them in the window that opened at w, and
\* now is t: the window before that one opened a minute or more earlier, and had at
\* most MaxRestarts of them.
Spread(s, t, k, w) ==
    /\ \A i \in 1 .. Len(s) : s[i] <= t
    /\ \A i \in 1 .. Len(s) - k : s[i] <= w
    /\ \A i \in 1 .. Len(s) - k - MaxRestarts : s[i] + Minute <= w
    /\ \A i \in 1 .. Len(s) - 2 * MaxRestarts : s[i] + Minute <= s[i + 2 * MaxRestarts]

WindowInv ==
    /\ restarts <= MaxRestarts => Spread(restartTimes, clock, restarts, windowStart)
    /\ RestartsPerMinute

-----------------------------------------------------------------------------
USE DEF mainVars, childVars, histVars, Others, NoTerm, PreExec

\* SMT is weak on Boolean variables, so their types are kept apart.
DataOK ==
    /\ pc \in {"test", "fork", "forked", "stored", "wait", "reaped", "decide", "exited", "killed"}
    /\ rc \in {-1, 0, 1}
    /\ windowStart \in 0 .. clock /\ restarts \in 0 .. MaxRestarts + 1
    /\ child \in PreExec \cup {"none", "engine", "dead"}
    /\ status \in {"clean", "crash"}
    /\ req \in [Requesters -> {"idle", "set", "hit", "miss", "done"}]
    /\ clock \in Nat /\ restartTimes \in Seq(Nat)
    /\ pc \notin {"exited", "killed"} => restarts <= MaxRestarts

FlagsOK ==
    /\ restart \in BOOLEAN /\ shutdown \in BOOLEAN /\ gchild \in BOOLEAN
    /\ lostTerm \in BOOLEAN /\ lostDeath \in BOOLEAN /\ early \in BOOLEAN

LEMMA Typing == DataOK /\ FlagsOK => TypeOK
BY DEF TypeOK, DataOK, FlagsOK

LEMMA DataInit == Init => DataOK
BY LimitsAssumption DEF Init, DataOK

LEMMA FlagsInit == Init => FlagsOK
BY Zenon DEF Init, FlagsOK

LEMMA DataStep == ASSUME DataOK, [Next]_vars PROVE DataOK'
<1> USE LimitsAssumption DEF DataOK
<1>1. ASSUME NEW r \in Requesters, SetShutdown(r) PROVE DataOK'
  BY <1>1 DEF SetShutdown
<1>2. ASSUME NEW r \in Requesters, LoadChild(r) PROVE DataOK'
  BY <1>2 DEF LoadChild
<1>3. ASSUME NEW r \in Requesters, KillChild(r) PROVE DataOK'
  BY <1>3 DEF KillChild, Term
<1>4. CASE TestShutdown
  BY <1>4 DEF TestShutdown, Exit, Goto
<1>5. CASE Fork
  BY <1>5 DEF Fork, Goto
<1>6. CASE ForkFails
  BY <1>6 DEF ForkFails, Exit
<1>7. CASE StoreChild
  BY <1>7 DEF StoreChild, Goto
<1>8. CASE RecheckShutdown
  BY <1>8 DEF RecheckShutdown, Goto, Term
<1>9. CASE Reap
  BY <1>9 DEF Reap, Goto
<1>10. CASE ClearChild
  BY <1>10 DEF ClearChild, Goto
<1>11. CASE Decide
  <2>1. CASE \E code \in {0, 1} : Exit(code)
    BY <1>11, <2>1 DEF Decide, Exit
  <2>2. CASE Restart
    BY <1>11, <2>2 DEF Decide, Restart, WindowOver
  <2> QED
    BY <1>11, <2>1, <2>2 DEF Decide
<1>12. CASE ChildPrctl
  BY <1>12 DEF ChildPrctl, ChildGoes
<1>13. CASE ChildChecksParent
  BY <1>13 DEF ChildChecksParent, ChildGoes, Alive
<1>14. CASE ChildExecs
  BY <1>14 DEF ChildExecs, ChildGoes
<1>15. CASE ExecFails
  BY <1>15 DEF ExecFails, ChildGoes
<1>16. CASE EngineEnds
  BY <1>16 DEF EngineEnds, ChildGoes
<1>17. CASE LauncherKilled
  BY <1>17 DEF LauncherKilled
<1>18. CASE Tick
  BY <1>18 DEF Tick
<1>19. CASE UNCHANGED vars
  BY <1>19 DEF vars
<1> QED
  BY <1>1, <1>2, <1>3, <1>4, <1>5, <1>6, <1>7, <1>8, <1>9, <1>10, <1>11, <1>12, <1>13, <1>14,
     <1>15, <1>16, <1>17, <1>18, <1>19 DEF Next, Main, Child, Request, Over

LEMMA ChildInit == Init => ChildInv
BY DEF Init, ChildInv

LEMMA ChildStep == ASSUME DataOK, ChildInv, [Next]_vars PROVE ChildInv'
<1> USE DEF DataOK, ChildInv
<1>1. ASSUME NEW r \in Requesters, SetShutdown(r) PROVE ChildInv'
  BY <1>1 DEF SetShutdown
<1>2. ASSUME NEW r \in Requesters, LoadChild(r) PROVE ChildInv'
  BY <1>2 DEF LoadChild
<1>3. ASSUME NEW r \in Requesters, KillChild(r) PROVE ChildInv'
  BY <1>3 DEF KillChild, Term
<1>4. CASE TestShutdown
  BY <1>4 DEF TestShutdown, Exit, Goto
<1>5. CASE Fork
  BY <1>5 DEF Fork, Goto
<1>6. CASE ForkFails
  BY <1>6 DEF ForkFails, Exit
<1>7. CASE StoreChild
  BY <1>7 DEF StoreChild, Goto
<1>8. CASE RecheckShutdown
  BY <1>8 DEF RecheckShutdown, Goto, Term
<1>9. CASE Reap
  BY <1>9 DEF Reap, Goto
<1>10. CASE ClearChild
  BY <1>10 DEF ClearChild, Goto
<1>11. CASE Decide
  BY <1>11 DEF Decide, Exit, Restart, WindowOver
<1>12. CASE ChildPrctl
  BY <1>12 DEF ChildPrctl, ChildGoes
<1>13. CASE ChildChecksParent
  BY <1>13 DEF ChildChecksParent, ChildGoes, Alive
<1>14. CASE ChildExecs
  BY <1>14 DEF ChildExecs, ChildGoes
<1>15. CASE ExecFails
  BY <1>15 DEF ExecFails, ChildGoes
<1>16. CASE EngineEnds
  BY <1>16 DEF EngineEnds, ChildGoes
<1>17. CASE LauncherKilled
  BY <1>17 DEF LauncherKilled
<1>18. CASE Tick
  BY <1>18 DEF Tick
<1>19. CASE UNCHANGED vars
  BY <1>19 DEF vars
<1> QED
  BY <1>1, <1>2, <1>3, <1>4, <1>5, <1>6, <1>7, <1>8, <1>9, <1>10, <1>11, <1>12, <1>13, <1>14,
     <1>15, <1>16, <1>17, <1>18, <1>19 DEF Next, Main, Child, Request, Over

LEMMA EarlyInit == Init => EarlyInv
BY DEF Init, EarlyInv

LEMMA EarlyStep == ASSUME DataOK, EarlyInv, [Next]_vars PROVE EarlyInv'
<1> USE DEF DataOK, EarlyInv
<1>1. ASSUME NEW r \in Requesters, SetShutdown(r) PROVE EarlyInv'
  BY <1>1 DEF SetShutdown
<1>2. ASSUME NEW r \in Requesters, LoadChild(r) PROVE EarlyInv'
  BY <1>2 DEF LoadChild
<1>3. ASSUME NEW r \in Requesters, KillChild(r) PROVE EarlyInv'
  BY <1>3 DEF KillChild, Term
<1>4. CASE TestShutdown
  BY <1>4 DEF TestShutdown, Exit, Goto
<1>5. CASE Fork
  BY <1>5 DEF Fork, Goto
<1>6. CASE ForkFails
  BY <1>6 DEF ForkFails, Exit
<1>7. CASE StoreChild
  BY <1>7 DEF StoreChild, Goto
<1>8. CASE RecheckShutdown
  BY <1>8 DEF RecheckShutdown, Goto, Term
<1>9. CASE Reap
  BY <1>9 DEF Reap, Goto
<1>10. CASE ClearChild
  BY <1>10 DEF ClearChild, Goto
<1>11. CASE Decide
  BY <1>11 DEF Decide, Exit, Restart, WindowOver
<1>12. CASE ChildPrctl
  BY <1>12 DEF ChildPrctl, ChildGoes
<1>13. CASE ChildChecksParent
  BY <1>13 DEF ChildChecksParent, ChildGoes, Alive
<1>14. CASE ChildExecs
  BY <1>14 DEF ChildExecs, ChildGoes
<1>15. CASE ExecFails
  BY <1>15 DEF ExecFails, ChildGoes
<1>16. CASE EngineEnds
  BY <1>16 DEF EngineEnds, ChildGoes
<1>17. CASE LauncherKilled
  BY <1>17 DEF LauncherKilled
<1>18. CASE Tick
  BY <1>18 DEF Tick
<1>19. CASE UNCHANGED vars
  BY <1>19 DEF vars
<1> QED
  BY <1>1, <1>2, <1>3, <1>4, <1>5, <1>6, <1>7, <1>8, <1>9, <1>10, <1>11, <1>12, <1>13, <1>14,
     <1>15, <1>16, <1>17, <1>18, <1>19 DEF Next, Main, Child, Request, Over

LEMMA WindowInit == Init => WindowInv
BY LimitsAssumption DEF Init, WindowInv, RestartsPerMinute, Spread

\* One more restart at time t, in the current window or in a new one.
LEMMA OneMore ==
    ASSUME NEW s \in Seq(Nat), NEW t \in Nat,
           NEW k \in 0 .. MaxRestarts, NEW w \in 0 .. t, Spread(s, t, k, w),
           NEW k2 \in 0 .. MaxRestarts, NEW w2 \in 0 .. t,
           \/ k2 = 1 /\ w2 = t /\ w + Minute <= t
           \/ k2 = k + 1 /\ w2 = w
    PROVE  Spread(Append(s, t), t, k2, w2)
<1> DEFINE M == MaxRestarts
           m == Minute
           s2 == Append(s, t)
<1> USE LimitsAssumption DEF Spread
<1> DEFINE n == Len(s)
<1>1. n \in Nat /\ Len(s2) = n + 1
  OBVIOUS
<1>2. \A i \in 1 .. n : s2[i] = s[i] /\ s[i] \in Nat
  OBVIOUS
<1>3. s2[n + 1] = t
  OBVIOUS
<1>4. k2 >= 1 /\ w <= w2 /\ n + 1 - k2 <= n /\ n + 1 - k2 - M <= n
  BY <1>1
<1>5. \A i \in 1 .. Len(s2) : s2[i] <= t
  BY <1>1, <1>2, <1>3
<1>6. \A i \in 1 .. Len(s2) - k2 : s2[i] <= w2
  BY <1>1, <1>2, <1>5
<1>7. \A i \in 1 .. Len(s2) - k2 - M : s2[i] + m <= w2
  <2> SUFFICES ASSUME NEW i \in 1 .. Len(s2) - k2 - M PROVE s2[i] + m <= w2
    OBVIOUS
  <2>1. i \in 1 .. n
    BY <1>1, <1>4
  <2>2. s[i] \in Nat /\ s2[i] = s[i]
    BY <2>1, <1>2
  <2>3. CASE k2 = 1 /\ w2 = t /\ w + m <= t
    <3>1. i \in 1 .. n - k
      BY <2>1, <2>3, <1>1
    <3>2. s[i] <= w
      BY <3>1
    <3> QED
      BY <3>2, <2>2, <2>3
  <2>4. CASE k2 = k + 1 /\ w2 = w
    <3>1. i \in 1 .. n - k - M
      BY <2>1, <2>4, <1>1
    <3> QED
      BY <3>1, <2>2, <2>4
  <2> QED
    BY <2>3, <2>4
<1>8. \A i \in 1 .. Len(s2) - 2 * M : s2[i] + m <= s2[i + 2 * M]
  <2> SUFFICES ASSUME NEW i \in 1 .. Len(s2) - 2 * M PROVE s2[i] + m <= s2[i + 2 * M]
    OBVIOUS
  <2>1. i \in Nat /\ 2 * M \in Nat /\ i >= 1 /\ i + 2 * M <= n + 1
    BY <1>1
  <2>2. CASE i + 2 * M <= n
    <3>1. i \in 1 .. n - 2 * M /\ i \in 1 .. n /\ i + 2 * M \in 1 .. n
      BY <2>1, <2>2, <1>1
    <3>2. s[i] + m <= s[i + 2 * M]
      BY <3>1
    <3> QED
      BY <3>1, <3>2, <1>2
  <2>3. CASE i + 2 * M = n + 1
    <3>1. i \in 1 .. Len(s2) - k2 - M
      BY <2>1, <2>3, <1>1
    <3>2. s2[i] + m <= w2
      BY <3>1, <1>7
    <3>3. s2[i + 2 * M] = t
      BY <2>3, <1>3
    <3>4. s2[i] \in Nat
      BY <3>1, <1>1, <1>2, <1>4
    <3> QED
      BY <3>2, <3>3, <3>4
  <2>4. i + 2 * M <= n \/ i + 2 * M = n + 1
    <3> HIDE DEF n, M, s2, Spread
    <3> QED
      BY <2>1, <1>1
  <2> QED
    BY <2>2, <2>3, <2>4
<1> QED
  BY <1>5, <1>6, <1>7, <1>8

LEMMA WindowStep == ASSUME DataOK, WindowInv, [Next]_vars PROVE WindowInv'
<1> USE LimitsAssumption DEF DataOK, WindowInv, RestartsPerMinute, Spread
<1>1. ASSUME NEW r \in Requesters, SetShutdown(r) PROVE WindowInv'
  BY <1>1 DEF SetShutdown
<1>2. ASSUME NEW r \in Requesters, LoadChild(r) PROVE WindowInv'
  BY <1>2 DEF LoadChild
<1>3. ASSUME NEW r \in Requesters, KillChild(r) PROVE WindowInv'
  BY <1>3 DEF KillChild, Term
<1>4. CASE TestShutdown
  BY <1>4 DEF TestShutdown, Exit, Goto
<1>5. CASE Fork
  BY <1>5 DEF Fork, Goto
<1>6. CASE ForkFails
  BY <1>6 DEF ForkFails, Exit
<1>7. CASE StoreChild
  BY <1>7 DEF StoreChild, Goto
<1>8. CASE RecheckShutdown
  BY <1>8 DEF RecheckShutdown, Goto, Term
<1>9. CASE Reap
  BY <1>9 DEF Reap, Goto
<1>10. CASE ClearChild
  BY <1>10 DEF ClearChild, Goto
<1>11. CASE Decide
  <2> UNCHANGED clock /\ pc = "decide" /\ restarts <= MaxRestarts
    BY <1>11 DEF Decide
  <2>1. CASE \E code \in {0, 1} : Exit(code)
    BY <2>1 DEF Exit
  <2>2. CASE Restart /\ UNCHANGED restartTimes
    BY <2>2 DEF Restart, WindowOver
  <2>3. CASE Restart /\ restartTimes' = Append(restartTimes, clock)
    <3>1. restarts' <= MaxRestarts
      BY <2>3 DEF Restart
    <3>2. \/ restarts' = 1 /\ windowStart' = clock /\ windowStart + Minute <= clock
          \/ restarts' = restarts + 1 /\ windowStart' = windowStart
      BY <2>3 DEF Restart, WindowOver
    <3>3. /\ clock \in Nat /\ restartTimes \in Seq(Nat)
          /\ restarts \in 0 .. MaxRestarts /\ restarts' \in 0 .. MaxRestarts
          /\ windowStart \in 0 .. clock /\ windowStart' \in 0 .. clock
      BY <3>1, <3>2
    <3>4. Spread(restartTimes, clock, restarts, windowStart)
      BY Zenon
    <3>5. Spread(restartTimes', clock', restarts', windowStart')
      <4> HIDE DEF DataOK, WindowInv, RestartsPerMinute, Spread
      <4> QED
        BY <2>3, <3>2, <3>3, <3>4, OneMore
    <3> QED
      BY <3>5
  <2> QED
    BY <1>11, <2>1, <2>2, <2>3 DEF Decide, Restart
<1>12. CASE ChildPrctl
  BY <1>12 DEF ChildPrctl, ChildGoes
<1>13. CASE ChildChecksParent
  BY <1>13 DEF ChildChecksParent, ChildGoes, Alive
<1>14. CASE ChildExecs
  BY <1>14 DEF ChildExecs, ChildGoes
<1>15. CASE ExecFails
  BY <1>15 DEF ExecFails, ChildGoes
<1>16. CASE EngineEnds
  BY <1>16 DEF EngineEnds, ChildGoes
<1>17. CASE LauncherKilled
  BY <1>17 DEF LauncherKilled
<1>18. CASE Tick
  BY <1>18 DEF Tick
<1>19. CASE UNCHANGED vars
  BY <1>19 DEF vars
<1> QED
  BY <1>1, <1>2, <1>3, <1>4, <1>5, <1>6, <1>7, <1>8, <1>9, <1>10, <1>11, <1>12, <1>13, <1>14,
     <1>15, <1>16, <1>17, <1>18, <1>19 DEF Next, Main, Child, Request, Over

-----------------------------------------------------------------------------
LEMMA FlagsStep == ASSUME FlagsOK, [Next]_vars PROVE FlagsOK'
<1> USE DEF FlagsOK
<1>1. ASSUME NEW r \in Requesters, SetShutdown(r) PROVE FlagsOK'
  BY <1>1, Zenon DEF SetShutdown
<1>2. ASSUME NEW r \in Requesters, LoadChild(r) PROVE FlagsOK'
  BY <1>2, Zenon DEF LoadChild
<1>3. ASSUME NEW r \in Requesters, KillChild(r) PROVE FlagsOK'
  BY <1>3, Zenon DEF KillChild, Term
<1>4. CASE TestShutdown
  BY <1>4, Zenon DEF TestShutdown
<1>5. CASE Fork
  BY <1>5, Zenon DEF Fork
<1>6. CASE ForkFails
  BY <1>6, Zenon DEF ForkFails
<1>7. CASE StoreChild
  BY <1>7, Zenon DEF StoreChild
<1>8. CASE RecheckShutdown
  BY <1>8, Zenon DEF RecheckShutdown, Term
<1>9. CASE Reap
  BY <1>9, Zenon DEF Reap
<1>10. CASE ClearChild
  BY <1>10, Zenon DEF ClearChild
<1>11. CASE Decide
  BY <1>11, Zenon DEF Decide
<1>12. CASE ChildPrctl
  BY <1>12, Zenon DEF ChildPrctl, ChildGoes
<1>13. CASE ChildChecksParent
  BY <1>13, Zenon DEF ChildChecksParent, ChildGoes
<1>14. CASE ChildExecs
  BY <1>14, Zenon DEF ChildExecs, ChildGoes
<1>15. CASE ExecFails
  BY <1>15, Zenon DEF ExecFails, ChildGoes
<1>16. CASE EngineEnds
  BY <1>16, Zenon DEF EngineEnds, ChildGoes
<1>17. CASE LauncherKilled
  BY <1>17, Zenon DEF LauncherKilled
<1>18. CASE Tick
  BY <1>18, Zenon DEF Tick
<1>19. CASE UNCHANGED vars
  BY <1>19, Zenon DEF vars
<1> QED
  BY <1>1, <1>2, <1>3, <1>4, <1>5, <1>6, <1>7, <1>8, <1>9, <1>10, <1>11, <1>12, <1>13, <1>14,
     <1>15, <1>16, <1>17, <1>18, <1>19 DEF Next, Main, Child, Request, Over

Invariant == DataOK /\ FlagsOK /\ ChildInv /\ EarlyInv /\ WindowInv

LEMMA InvariantHolds == Spec => []Invariant
<1>1. Init => Invariant
  BY DataInit, FlagsInit, ChildInit, EarlyInit, WindowInit, Zenon DEF Invariant
<1>2. Invariant /\ [Next]_vars => Invariant'
  BY DataStep, FlagsStep, ChildStep, EarlyStep, WindowStep, Zenon DEF Invariant
<1> QED
  BY <1>1, <1>2, PTL DEF Spec

\* The fields keep their types; in particular the restart count stops one past its limit.
THEOREM TypeCorrect == Spec => []TypeOK
<1>1. Invariant => TypeOK
  BY Typing, Zenon DEF Invariant
<1> QED
  BY <1>1, InvariantHolds, PTL

\* No shutdown request slips between fork() and the wait for the child (the second look
\* at g_shutdown in run).
THEOREM ShutdownNeverMissed == Spec => []NoMissedShutdown
<1>1. Invariant => NoMissedShutdown
  BY DEF Invariant, DataOK, ChildInv, NoMissedShutdown
<1> QED
  BY <1>1, InvariantHolds, PTL

\* A shutdown requested while the child lived is never reported as a failure (the order
\* of the tests after waitpid in run).
THEOREM ShutdownSucceeds == Spec => []ShutdownIsSuccess
<1>1. Invariant => ShutdownIsSuccess
  BY Zenon DEF Invariant, EarlyInv, ShutdownIsSuccess
<1> QED
  BY <1>1, InvariantHolds, PTL

\* The fixed windows bound any burst of restarts by twice the limit (the crash-loop test
\* in run).
THEOREM RestartsAreBounded == Spec => []RestartsPerMinute
<1>1. Invariant => RestartsPerMinute
  BY Zenon DEF Invariant, WindowInv
<1> QED
  BY <1>1, InvariantHolds, PTL
=============================================================================
