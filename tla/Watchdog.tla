------------------------------ MODULE Watchdog ------------------------------
(***************************************************************************)
(* The supervise loop that forks, watches and restarts the engine          *)
(* (launcher/src/watchdog.cpp), the shutdown requests that race it (the    *)
(* SIGINT/SIGTERM handler and main.cpp's graceful_exit, each a call of     *)
(* request_shutdown on some thread), the forked child until it execs, and  *)
(* a launcher killed outright.                                             *)
(*                                                                         *)
(* The engine is external: it exits, crashes or runs on as it likes, and   *)
(* dies of a SIGTERM.  Time is a coarse clock; "Minute" of its ticks are   *)
(* the 60 seconds of the restart window.                                   *)
(***************************************************************************)
EXTENDS Integers, Sequences

CONSTANTS
    Requesters,     \* threads that call request_shutdown, once each
    MaxRestarts,    \* max_restarts_per_minute_
    Minute,         \* ticks per minute
    MaxClock        \* bound: ticks of the clock

ASSUME LimitsAssumption == MaxRestarts \in Nat /\ Minute \in Nat \ {0} /\ MaxClock \in Nat

VARIABLES
    restart,        \* restart_on_crash_
    shutdown,       \* g_shutdown
    gchild,         \* g_child: TRUE while it holds the pid of the current child
    pc, rc,         \* run(): its step, and its result
    windowStart, restarts,  \* window_start, restarts_in_window
    child, status,  \* the current child: its step; how it ended
    req,            \* each requester: "idle", "set", "hit", "miss", "done"
    clock,
    restartTimes,   \* history: when each restart was decided
    lostTerm,       \* history: a SIGTERM met a child that had not reached execv
    lostDeath,      \* history: PDEATHSIG did
    early           \* history: shutdown was set when the last child was reaped

mainVars == <<pc, rc, windowStart, restarts, restartTimes>>
childVars == <<child, status>>
histVars == <<lostTerm, lostDeath, early>>
vars == <<restart, shutdown, gchild, req, clock, mainVars, childVars, histVars>>

\* A child before execv still runs the launcher's own SIGTERM handler.
PreExec == {"pre", "asked", "ready"}

TypeOK ==
    /\ restart \in BOOLEAN /\ shutdown \in BOOLEAN /\ gchild \in BOOLEAN
    /\ pc \in {"test", "fork", "forked", "stored", "wait", "reaped", "decide", "exited", "killed"}
    /\ rc \in {-1, 0, 1}
    /\ windowStart \in 0 .. clock /\ restarts \in 0 .. MaxRestarts + 1
    /\ child \in PreExec \cup {"none", "engine", "dead"}
    /\ status \in {"clean", "crash"}
    /\ req \in [Requesters -> {"idle", "set", "hit", "miss", "done"}]
    /\ clock \in Nat /\ restartTimes \in Seq(Nat)
    /\ lostTerm \in BOOLEAN /\ lostDeath \in BOOLEAN /\ early \in BOOLEAN

Init ==
    /\ restart \in BOOLEAN
    /\ shutdown = FALSE /\ gchild = FALSE
    /\ pc = "test" /\ rc = -1 /\ windowStart = 0 /\ restarts = 0
    /\ child = "none" /\ status = "clean"
    /\ req = [r \in Requesters |-> "idle"]
    /\ clock = 0 /\ restartTimes = <<>>
    /\ lostTerm = FALSE /\ lostDeath = FALSE /\ early = FALSE

Alive == pc # "killed"

-----------------------------------------------------------------------------
(* SIGTERM to the current child.  exec() gives the engine the default       *)
(* disposition; until then the inherited handler swallows the signal (its   *)
(* copy of g_child is -1).  A zombie does not care.                         *)

Term ==
    /\ child' = IF child = "engine" THEN "dead" ELSE child
    /\ status' = IF child = "engine" THEN "crash" ELSE status
    /\ lostTerm' = IF child \in PreExec THEN TRUE ELSE lostTerm
    /\ UNCHANGED <<lostDeath, early>>

NoTerm == UNCHANGED <<childVars, histVars>>

-----------------------------------------------------------------------------
(* request_shutdown(): three atomic accesses.                               *)

SetShutdown(r) ==
    /\ Alive /\ req[r] = "idle" /\ req' = [req EXCEPT ![r] = "set"]
    /\ shutdown' = TRUE
    /\ UNCHANGED <<restart, gchild, clock, mainVars, childVars, histVars>>

LoadChild(r) ==
    /\ Alive /\ req[r] = "set"
    /\ req' = [req EXCEPT ![r] = IF gchild THEN "hit" ELSE "miss"]
    /\ UNCHANGED <<restart, shutdown, gchild, clock, mainVars, childVars, histVars>>

\* After a hit the pid may have been reaped meanwhile; that signal hits nobody here.
KillChild(r) ==
    /\ Alive /\ req[r] \in {"hit", "miss"} /\ req' = [req EXCEPT ![r] = "done"]
    /\ IF req[r] = "hit" THEN Term ELSE NoTerm
    /\ UNCHANGED <<restart, shutdown, gchild, clock, mainVars>>

-----------------------------------------------------------------------------
(* run().                                                                   *)

Exit(code) == pc' = "exited" /\ rc' = code /\ UNCHANGED <<windowStart, restarts, restartTimes>>
Goto(from, to) ==
    /\ pc = from /\ pc' = to
    /\ UNCHANGED <<rc, windowStart, restarts, restartTimes>>
Others == UNCHANGED <<restart, shutdown, req, clock>>

TestShutdown ==
    /\ pc = "test"
    /\ IF shutdown THEN Exit(0) ELSE Goto("test", "fork")
    /\ UNCHANGED <<gchild, childVars, histVars>> /\ Others

Fork ==
    /\ Goto("fork", "forked")
    /\ child' = "pre"
    /\ UNCHANGED <<gchild, status, histVars>> /\ Others

ForkFails ==
    /\ pc = "fork" /\ Exit(1)
    /\ UNCHANGED <<gchild, childVars, histVars>> /\ Others

StoreChild ==
    /\ Goto("forked", "stored")
    /\ gchild' = TRUE
    /\ UNCHANGED <<childVars, histVars>> /\ Others

\* Mutant of RecheckShutdown: the second look at g_shutdown is left out.
NoRecheck == Goto("stored", "wait") /\ NoTerm /\ UNCHANGED gchild /\ Others

\* A request between fork() and the store above saw no child to signal.
RecheckShutdown ==
    /\ Goto("stored", "wait")
    /\ IF shutdown THEN Term ELSE NoTerm
    /\ UNCHANGED gchild /\ Others

\* waitpid(), retried across signals.
Reap ==
    /\ child = "dead"
    /\ Goto("wait", "reaped")
    /\ child' = "none" /\ early' = shutdown
    /\ UNCHANGED <<gchild, status, lostTerm, lostDeath>> /\ Others

ClearChild ==
    /\ Goto("reaped", "decide")
    /\ gchild' = FALSE
    /\ UNCHANGED <<childVars, histVars>> /\ Others

\* Mutant of WindowOver: any later tick opens a new window.
WindowOverAtOnce == clock > windowStart

\* A new window opens when a crash finds the old one a minute old.
WindowOver == clock - windowStart >= Minute

\* A crash: one more restart unless the window has had its share.
Restart ==
    LET n == IF WindowOver THEN 1 ELSE restarts + 1 IN
    /\ windowStart' = IF WindowOver THEN clock ELSE windowStart
    /\ restarts' = n
    /\ IF n > MaxRestarts
       THEN pc' = "exited" /\ rc' = 1 /\ UNCHANGED restartTimes
       ELSE pc' = "test" /\ UNCHANGED rc /\ restartTimes' = Append(restartTimes, clock)

Decide ==
    /\ pc = "decide"
    /\ IF shutdown \/ status = "clean" THEN Exit(0)
       ELSE IF ~restart THEN Exit(1) ELSE Restart
    /\ UNCHANGED <<gchild, childVars, histVars>> /\ Others

-----------------------------------------------------------------------------
(* The child up to execv, the engine, the outside world.                    *)

ChildGoes(from, to) ==
    /\ child = from /\ child' = to
    /\ UNCHANGED <<restart, shutdown, gchild, req, clock, mainVars, histVars>>

ChildPrctl == ChildGoes("pre", "asked") /\ UNCHANGED status

\* Mutant of ChildChecksParent: the getppid() test is left out.
ChildTrustsParent == ChildGoes("asked", "ready") /\ UNCHANGED status

\* getppid() covers a launcher that died before prctl().
ChildChecksParent ==
    \/ Alive /\ ChildGoes("asked", "ready") /\ UNCHANGED status
    \/ ~Alive /\ ChildGoes("asked", "dead") /\ status' = "clean"

ChildExecs == ChildGoes("ready", "engine") /\ UNCHANGED status
ExecFails == ChildGoes("ready", "dead") /\ status' = "crash"
EngineEnds == ChildGoes("engine", "dead") /\ status' \in {"clean", "crash"}

\* SIGKILL on the launcher: PR_SET_PDEATHSIG sends SIGTERM to a child that asked.
LauncherKilled ==
    /\ pc \notin {"exited", "killed"} /\ pc' = "killed"
    /\ IF child = "engine" THEN child' = "dead" /\ status' = "crash" ELSE UNCHANGED childVars
    /\ lostDeath' = (child = "ready")
    /\ UNCHANGED <<rc, windowStart, restarts, restartTimes, gchild, lostTerm, early>> /\ Others

Tick ==
    /\ pc \notin {"exited", "killed"} /\ clock < MaxClock /\ clock' = clock + 1
    /\ UNCHANGED <<restart, shutdown, gchild, req, mainVars, childVars, histVars>>

-----------------------------------------------------------------------------
Main == TestShutdown \/ Fork \/ ForkFails \/ StoreChild \/ RecheckShutdown \/ Reap
            \/ ClearChild \/ Decide
Child == ChildPrctl \/ ChildChecksParent \/ ChildExecs \/ ExecFails
Request(r) == LoadChild(r) \/ KillChild(r)

\* run() has returned, or the launcher is dead and so is its child or an orphan.
Over == pc \in {"exited", "killed"} /\ UNCHANGED vars

Next ==
    \/ Main \/ Child \/ EngineEnds \/ LauncherKilled \/ Tick \/ Over
    \/ \E r \in Requesters : SetShutdown(r) \/ Request(r)

Spec == Init /\ [][Next]_vars

\* The threads and the child keep running; nobody need ask for a shutdown, and the
\* engine need not end by itself.
FairSpec == Spec /\ WF_vars(Main) /\ WF_vars(Child) /\ \A r \in Requesters : WF_vars(Request(r))

-----------------------------------------------------------------------------
\* While run() waits, a completed shutdown request has reached the child: it is
\* dead, or the signal came before execv.  This is what the second look at
\* g_shutdown after g_child is stored is for.
NoMissedShutdown ==
    pc = "wait" /\ (\E r \in Requesters : req[r] = "done") => child = "dead" \/ lostTerm

\* A shutdown requested while the child lived makes the run a success, whatever
\* the child died of (watchdog.cpp, the comment above the test of g_shutdown).
ShutdownIsSuccess == pc = "exited" /\ early => rc = 0

\* Any 2 * max_restarts_per_minute_ + 1 restarts in a row take a minute or more.  The
\* windows are fixed, so a burst may straddle two of them: half of that is no bound.
RestartsPerMinute == \A i \in 1 .. Len(restartTimes) - 2 * MaxRestarts :
    restartTimes[i] + Minute <= restartTimes[i + 2 * MaxRestarts]

\* A shutdown request ends run(), or the launcher was killed, unless the SIGTERM met
\* the child before execv.
ShutdownEnds == shutdown ~> (pc \in {"exited", "killed"} \/ lostTerm)

\* docs/HOW-IT-WORKS.md: SIGINT/SIGTERM forwards SIGTERM to the child and exits 0.
ShutdownAlwaysEnds == shutdown ~> pc \in {"exited", "killed"}

\* The engine dies with a killed launcher (the comment above prctl in run), unless
\* the launcher dies between the getppid() test and execv.
EngineDiesWithLauncher == pc = "killed" ~> (child \in {"none", "dead"} \/ lostDeath)
=============================================================================
