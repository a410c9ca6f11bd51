-------------------------------- MODULE Boot --------------------------------
(***************************************************************************)
(* A launch, from the single-instance lock to the engine: the first half   *)
(* of main() (launcher/src/main.cpp), the migration of a legacy profile    *)
(* (profile.cpp) and the Widevine CDM (cdm_fetcher.cpp).                   *)
(*                                                                         *)
(* Several launcher processes may be started; each may be killed at every  *)
(* step, and the power may be cut.  The engine of a killed launcher gets a *)
(* SIGTERM and lives on for a while: it is an orphan.  A legacy profile    *)
(* has at least one entry: one that is empty is passed over.               *)
(***************************************************************************)
EXTENDS AtomicFile

CONSTANTS
    Launchers,       \* processes; a process that ended may be started again
    Pieces,          \* the entries of a legacy profile
    NumCandidates,   \* the places a legacy profile is looked for, in order
    Guarded,         \* the lock file can be opened
    Pinned, Other,   \* the bytes of cdm_sha256, and any others
    NoOne,
    MaxLaunches      \* bound: launches in a behaviour

ASSUME BootAssumption ==
    /\ NumCandidates \in Nat /\ MaxLaunches \in Nat
    /\ Guarded \in BOOLEAN /\ Pieces # {}
    /\ NoOne \notin Launchers

Candidates == 1..NumCandidates
Bytes == {<<Pinned>>, <<Other>>}

VARIABLES
    pc,        \* each launcher's step
    lock,      \* who holds the flock
    legacy,    \* what each candidate is: nothing, a tree with a symlink, a profile
    profile,   \* the durable profile's directory
    staging,   \* each launcher's .profile-migration directory
    cached,    \* a promoted profile's bytes are in the page cache only
    cdm,       \* the installed CDM's file
    mem,       \* each launcher's locals: target_exists, downloaded, the answer so far
    engine,    \* each launcher's engine, and whether it was given --widevine-cdm-path
    setup,     \* whether cdm_url is set, whether cdm_sha256 is
    faults,    \* what has gone wrong so far (for the properties)
    launches

vars == <<pc, lock, legacy, profile, staging, cached, cdm, mem, engine, setup, faults, launches>>

\* A profile directory: where its legacy entries are from, which ones it has,
\* and what this installation has put there.
Dir(from, has, own) == [exists |-> TRUE, from |-> from, has |-> has, own |-> own]
EmptyDir == Dir(0, {}, {})
NoDir == [EmptyDir EXCEPT !.exists = FALSE]
IsEmpty(d) == d.has = {} /\ d.own = {}
Dirs == [exists : BOOLEAN, from : Candidates \cup {0}, has : SUBSET Pieces, own : SUBSET {"cdm", "used"}]

BootSteps == {"off", "lock", "config", "inspect", "prepare", "copy", "replace", "promote", "discard",
              "check", "fetch", "run"}

NoMem == [existed |-> FALSE, got |-> Absent, ready |-> FALSE]

TypeOK ==
    /\ pc \in [Launchers -> BootSteps \cup Calls]
    /\ lock \in Launchers \cup {NoOne}
    /\ legacy \in [Candidates -> {"none", "symlink", "profile"}]
    /\ profile \in Dirs /\ staging \in [Launchers -> Dirs]
    /\ cached \in BOOLEAN /\ cdm \in Files(Bytes)
    /\ mem \in [Launchers -> [existed : BOOLEAN, got : Bytes \cup {Absent}, ready : BOOLEAN]]
    /\ engine \in [Launchers -> {"none", "plain", "widevine", "orphan"}]
    /\ setup \in [url : BOOLEAN, pin : BOOLEAN]
    /\ faults \in SUBSET {"call", "orphan", "cut"}
    /\ launches \in 0..MaxLaunches

Init ==
    /\ pc = [l \in Launchers |-> "off"] /\ lock = NoOne /\ launches = 0
    /\ legacy \in [Candidates -> {"none", "symlink", "profile"}]
    /\ profile \in {NoDir, EmptyDir} /\ staging = [l \in Launchers |-> NoDir]
    /\ cached = FALSE /\ cdm = File(Absent)
    /\ mem = [l \in Launchers |-> NoMem] /\ engine = [l \in Launchers |-> "none"]
    /\ setup \in [url : BOOLEAN, pin : BOOLEAN]
    /\ faults = {}

Move(l, from, to) == pc[l] = from /\ pc' = [pc EXCEPT ![l] = to]

-----------------------------------------------------------------------------
(* The lock and the config (main.cpp), and the ends of a launch.            *)

StartFrame == UNCHANGED <<legacy, profile, staging, cached, cdm, setup, faults>>

\* A new process, while the orphan of another one may still be there.
Start(l) ==
    /\ launches < MaxLaunches /\ launches' = launches + 1
    /\ engine[l] = "none"
    /\ Move(l, "off", "lock")
    /\ UNCHANGED <<lock, mem, engine>> /\ StartFrame

\* A lock file that cannot be opened is warned about, no more.
TakeLock(l) ==
    /\ lock = NoOne \/ ~Guarded
    /\ lock' = IF Guarded THEN l ELSE lock
    /\ Move(l, "lock", "config")
    /\ UNCHANGED <<mem, engine, launches>> /\ StartFrame

Refused(l) ==
    /\ Guarded /\ lock # NoOne
    /\ Move(l, "lock", "off")
    /\ UNCHANGED <<lock, mem, engine, launches>> /\ StartFrame

\* The lock once process l has ended: the engine never had its descriptor.
Released(l) == IF lock = l THEN NoOne ELSE lock

\* app.json is read, or the launch ends.
ReadConfig(l) ==
    /\ \/ Move(l, "config", "inspect") /\ UNCHANGED lock
       \/ Move(l, "config", "off") /\ lock' = Released(l)
    /\ UNCHANGED <<mem, engine, launches>> /\ StartFrame

\* The watchdog reaps the engine before main() returns.
Quit(l) ==
    /\ Move(l, "run", "off")
    /\ lock' = Released(l) /\ engine' = [engine EXCEPT ![l] = "none"]
    /\ UNCHANGED <<mem, launches>> /\ StartFrame

\* The launcher is killed; its engine is sent a SIGTERM and lives on for a while.
Killed(l) ==
    /\ pc[l] # "off" /\ pc' = [pc EXCEPT ![l] = "off"]
    /\ lock' = Released(l)
    /\ engine' = [engine EXCEPT ![l] = IF @ = "none" THEN "none" ELSE "orphan"]
    /\ mem' = [mem EXCEPT ![l] = NoMem]
    /\ UNCHANGED launches /\ StartFrame

OrphanEnds(l) ==
    /\ engine[l] = "orphan" /\ engine' = [engine EXCEPT ![l] = "none"]
    /\ UNCHANGED <<pc, lock, mem, launches>> /\ StartFrame

-----------------------------------------------------------------------------
(* migrate_legacy_profile() (profile.cpp).                                  *)

MigrationFrame == UNCHANGED <<lock, legacy, engine, setup, launches>>

\* A call of the migration fails.
Fault(f) == faults' = faults \cup {f}

Acceptable == {i \in Candidates : legacy[i] = "profile"}

\* The first candidate that is a directory with something in it and no symlink.
Source == IF Acceptable = {} THEN 0 ELSE CHOOSE i \in Acceptable : \A j \in Acceptable : i <= j

\* Mutant of MayMigrate: a profile in use is migrated over.
MayMigrateOver(d) == d = d

\* Mutant of MayMigrate: an empty directory is taken for a profile.
MayMigrateAbsent(d) == ~d.exists

MayMigrate(d) == ~d.exists \/ IsEmpty(d)

Inspect(l) ==
    /\ \/ /\ Move(l, "inspect", IF MayMigrate(profile) /\ Source # 0 THEN "prepare" ELSE "check")
          /\ mem' = [mem EXCEPT ![l].existed = profile.exists]
          /\ UNCHANGED faults
       \/ Move(l, "inspect", "check") /\ Fault("call") /\ UNCHANGED mem
    /\ UNCHANGED <<profile, staging, cached, cdm>> /\ MigrationFrame

\* An old staging directory of the same pid goes first.
Prepare(l) ==
    /\ \/ /\ Move(l, "prepare", "copy")
          /\ staging' = [staging EXCEPT ![l] = Dir(Source, {}, {})]
          /\ UNCHANGED faults
       \/ Move(l, "prepare", "discard") /\ Fault("call") /\ UNCHANGED staging
    /\ UNCHANGED <<profile, cached, cdm, mem>> /\ MigrationFrame

\* Mutant of CopyPiece: the entries are copied into the durable profile itself.
CopyPieceInPlace(l, p) ==
    /\ pc[l] = "copy" /\ p \notin staging[l].has
    /\ staging' = [staging EXCEPT ![l].has = @ \cup {p}]
    /\ profile' = Dir(Source, profile.has \cup {p}, profile.own)
    /\ UNCHANGED <<pc, cached, cdm, mem, faults>> /\ MigrationFrame

CopyPiece(l, p) ==
    /\ pc[l] = "copy" /\ p \notin staging[l].has
    /\ staging' = [staging EXCEPT ![l].has = @ \cup {p}]
    /\ UNCHANGED <<pc, profile, cached, cdm, mem, faults>> /\ MigrationFrame

Copied(l) ==
    /\ staging[l].has = Pieces
    /\ Move(l, "copy", "replace")
    /\ UNCHANGED <<profile, staging, cached, cdm, mem, faults>> /\ MigrationFrame

\* A copy that fails ends the migration; a source that can no longer be listed
\* does not: its iterator is the end, and the copy of nothing is promoted.
CopyFails(l) ==
    /\ \/ Move(l, "copy", "discard")
       \/ staging[l].has = {} /\ Move(l, "copy", "replace")
    /\ Fault("call")
    /\ UNCHANGED <<profile, staging, cached, cdm, mem>> /\ MigrationFrame

\* The empty target makes room; remove_all() takes whatever is in it by now.
Replace(l) ==
    /\ Move(l, "replace", "promote")
    /\ profile' \in IF mem[l].existed THEN {NoDir, profile} ELSE {profile}
    /\ cdm' = IF profile'.exists THEN cdm ELSE File(Absent)
    /\ UNCHANGED <<staging, cached, mem, faults>> /\ MigrationFrame

\* rename() takes the place of nothing or of an empty directory only.
Promote(l) ==
    /\ \/ /\ Move(l, "promote", "check")
          /\ ~profile.exists \/ IsEmpty(profile)
          /\ profile' = staging[l] /\ staging' = [staging EXCEPT ![l] = NoDir]
          /\ cached' = TRUE /\ UNCHANGED faults
       \/ Move(l, "promote", "discard") /\ Fault("call") /\ UNCHANGED <<profile, staging, cached>>
    /\ UNCHANGED <<cdm, mem>> /\ MigrationFrame

Discard(l) ==
    /\ Move(l, "discard", "check")
    /\ staging' \in {[staging EXCEPT ![l] = NoDir], staging}
    /\ UNCHANGED <<profile, cached, cdm, mem, faults>> /\ MigrationFrame

-----------------------------------------------------------------------------
(* CdmFetcher::ensure_installed() (cdm_fetcher.cpp).                        *)

CdmFrame == UNCHANGED <<lock, legacy, staging, cached, setup, faults, launches>>

Verified == cdm.main # Absent /\ (setup.pin => cdm.main = <<Pinned>>)
Mismatch == cdm.main # Absent /\ ~Verified

\* main() goes on to the engine; the path is passed on if the CDM is there.
Launch(l, from, cdmReady) ==
    /\ Move(l, from, "run")
    /\ engine' = [engine EXCEPT ![l] = IF cdmReady THEN "widevine" ELSE "plain"]
    /\ mem' = [mem EXCEPT ![l] = NoMem]

\* A CDM that is as wanted is used, one that is not is the fallback; without a
\* URL nothing is fetched.
CheckCdm(l) ==
    /\ IF ~Verified /\ setup.url
       THEN /\ Move(l, "check", "fetch")
            /\ mem' = [mem EXCEPT ![l].ready = Mismatch]
            /\ UNCHANGED engine
       ELSE Launch(l, "check", Verified \/ Mismatch)
    /\ UNCHANGED <<cdm, profile>> /\ CdmFrame

\* http_get() fails or returns some bytes; bytes other than the pin's are refused.
Fetch(l) ==
    /\ \/ Launch(l, "fetch", mem[l].ready)
       \/ \E b \in Bytes :
             /\ setup.pin => b = <<Pinned>>
             /\ Move(l, "fetch", "open")
             /\ mem' = [mem EXCEPT ![l].got = b]
             /\ UNCHANGED engine
    /\ UNCHANGED <<cdm, profile>> /\ CdmFrame

\* One call of the atomic write. The directories on the way are made before the
\* first one, so the profile is no longer empty.
Install(l) ==
    /\ pc[l] \in Calls
    /\ \E o \in Outcomes(cdm, pc[l], mem[l].got) :
          /\ cdm' = o[1]
          /\ IF o[2] \in Ends
             THEN Launch(l, pc[l], mem[l].ready \/ o[2] = "saved")
             ELSE Move(l, pc[l], o[2]) /\ UNCHANGED <<mem, engine>>
    /\ profile' \in {Dir(profile.from, profile.has, profile.own \cup {"cdm"})} \cup
                    (IF pc'[l] = "run" THEN {profile} ELSE {})
    /\ CdmFrame

-----------------------------------------------------------------------------
(* The engine and the power.                                                *)

Migrating == \E l \in Launchers : pc[l] \in {"prepare", "copy", "replace", "promote"}

EngineWrites(l) ==
    /\ engine[l] # "none" /\ "used" \notin profile.own
    /\ profile' = Dir(profile.from, profile.has, profile.own \cup {"used"})
    /\ IF Migrating THEN Fault("orphan") ELSE UNCHANGED faults
    /\ UNCHANGED <<pc, lock, legacy, staging, cached, cdm, mem, engine, setup, launches>>

WrittenBack ==
    /\ cached /\ cached' = FALSE
    /\ UNCHANGED <<pc, lock, legacy, profile, staging, cdm, mem, engine, setup, faults, launches>>

\* Nothing of a copied profile is synced: what the kernel had not written back is lost.
PowerCut ==
    /\ pc' = [l \in Launchers |-> "off"] /\ lock' = NoOne
    /\ engine' = [l \in Launchers |-> "none"] /\ mem' = [l \in Launchers |-> NoMem]
    /\ cdm' \in AfterPowerCut(cdm)
    /\ IF cached
       THEN Fault("cut") /\ \E kept \in SUBSET profile.has : profile' = [profile EXCEPT !.has = kept]
       ELSE UNCHANGED <<faults, profile>>
    /\ cached' = FALSE
    /\ UNCHANGED <<legacy, staging, setup, launches>>

Launcher(l) ==
    \/ Start(l) \/ TakeLock(l) \/ Refused(l) \/ ReadConfig(l)
    \/ Inspect(l) \/ Prepare(l) \/ (\E p \in Pieces : CopyPiece(l, p)) \/ Copied(l) \/ CopyFails(l)
    \/ Replace(l) \/ Promote(l) \/ Discard(l)
    \/ CheckCdm(l) \/ Fetch(l) \/ Install(l)
    \/ EngineWrites(l) \/ Quit(l) \/ Killed(l) \/ OrphanEnds(l)

Next == (\E l \in Launchers : Launcher(l)) \/ WrittenBack \/ PowerCut

Spec == Init /\ [][Next]_vars

-----------------------------------------------------------------------------
(* Properties.                                                              *)

\* What a migration left in the durable profile is the whole of the first
\* acceptable legacy profile or nothing of any, wherever it failed or was killed
\* (a power cut alone can spoil it: copy_profile() syncs nothing).
MigrationIsWhole ==
    "cut" \notin faults /\ profile.has # {} => profile.has = Pieces /\ profile.from = Source

\* What a profile holds is never lost to a later launch ("durable profile already
\* exists", profile.cpp): only an engine that outlived its launcher and first
\* writes while the next launch migrates can lose what it wrote.
ProfileKept ==
    [][\/ profile.has \subseteq profile'.has /\ profile.own \subseteq profile'.own
       \/ faults' \cap {"cut", "orphan"} # {}]_vars

\* A launch killed at any step, and the launches after it, never start in a fresh
\* profile with an acceptable legacy one left behind: only a call that failed can.
LegacyNotStranded ==
    Source # 0 /\ faults = {} /\ profile.own # {} => profile.has # {}

\* The engine is never given the path of a CDM that is not there or is torn, not
\* after a failed or killed install nor after a power cut.
WidevineIsWhole ==
    \A l \in Launchers : engine[l] = "widevine" => cdm.main \in Bytes

\* A launch is refused only because another launcher is there: neither a kill nor
\* an engine that outlives its launcher keeps the lock (main.cpp's O_CLOEXEC).
LockNeedsLauncher == lock # NoOne => pc[lock] # "off"
=============================================================================
