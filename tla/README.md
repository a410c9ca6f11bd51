# Deckback launcher: TLA+ verification

Deckback runs a Chromium-based engine full-screen on a Steam Deck and turns the
controller, logind and the Flatpak portal into something YouTube's TV app can live
with. This directory holds TLA+ models of the launcher (`launcher/src`), the TLC
configurations that check them, and TLAPS proofs about them. The models follow the
code, not the docs; where the two differ this file says so (*Where code and docs disagree*).

Contents: the inventory of the system, the modules and how they correspond to the
code, the runs and the fairness they assume, the proofs, the disagreements between
code and docs, and what is left out.

## Inventory

The launcher is one process of about ten threads, plus the engine it forks.

| Component | State it keeps | Operations | Talks to |
| --- | --- | --- | --- |
| DevTools session (`devtools.cpp`) | one WebSocket, a reader thread, pending requests by id, sticky user agent, scripts and grant | `request`, sticky setters, `ensure_connected`, `drop_connection`, `read_loop`, destructor | every other component, through `DevToolsClient` handles |
| Watchdog (`watchdog.cpp`) | `g_shutdown`, `g_child`, the minute's restart count | `run`, `request_shutdown` (signal handler and exit chord) | the engine process, main |
| Platform (`platform.cpp`, `busloop.cpp`) | system bus, sleep and idle inhibitor fds, retry budget | loop thread, `PrepareForSleep` handler, `set_idle_inhibited`, destructor | logind; calls the player's hooks |
| Player (`player.cpp`, `netprobe.cpp`) | suspend generation, resume hand-off, the input layer | poll thread, `on_suspend`, `request_resume`, `resume` | platform, the page |
| Updater (`updater.cpp`) | session bus, UpdateMonitor, consent latches, retry budget | loop thread, three signal handlers, `request_update`, `stop` | the Flatpak portal; calls the update prompt |
| Update prompt (`updateprompt.cpp`) | the deploy's phase, the probe, the announced, refused and ignored commits | `tick`, `confirm_update`, `check_now`, `ignore_version`, `on_deploy_*` | updater, probe thread, settings menu |
| Navigator, error page (`navigator.cpp`, `errorpage.cpp`) | error state, backoff, whether this load was announced | keep-alive loop, `try_navigate`, `show_error_page` | the session; calls the card and the menu |
| Gamepad input (`input.cpp`, `keymap.cpp`, `layers.cpp`) | axes, held directions, exit hold, open pads | event handlers, repeat, hotplug | the session, the menu, the card |
| Settings menu (`osdmenu.cpp`, `osd.js`) | the capture flag; the menu's node in the page | `open_menu`, `exec`, `tick`, `on_page_reloaded` | the page's scripts, update prompt |
| First-run card (`onboarding.cpp`, `pageoverlay.cpp`) | what it believes is painted | `show`, `hide`, `tick` | navigator's and input's threads, the page |
| Captions (`caption_settings.cpp`, `input.cpp`, `toggle_captions.js`) | the four settings, the enforcement window | toggle, tick, `put` | the page's player, the settings store |
| Touch gestures (`gestures.cpp`, `touch_gestures.js`, `hold_scrub.js`) | enabled and to-be-pushed flags; a queue and a waiter in the page | the router's loop, the recognizer, `set_enabled` | the page, the input thread |
| Configuration, stored settings (`config.cpp`, `config_store.cpp`, `fileio.cpp`) | app.json's values, the overlay in memory and in `user.json` | load and clamp, `put`, atomic write | the disk, every component at its construction |
| Controls (`keymap.cpp`, `layers.cpp`) | keymaps by context, trigger and stick thresholds | what an event means in a context | the input thread |
| Profile, CDM fetcher, main (`profile.cpp`, `cdm_fetcher.cpp`, `main.cpp`) | the lock file, the profile's directory, the CDM's file | lock, migrate, check, install, start | the disk, the network, a second launcher |

What is hard in it, component by component, with what would make it correct:

- **Session.** Any thread may find the socket dead and reconnect while others hold
  requests on it, the reader demultiplexes answers by id, and the engine replaces its
  target at will. Correct: no wait is orphaned, no answer goes to a stranger, a fresh
  target is re-armed before anything else reaches it, nothing blocks for ever.
- **Watchdog.** A signal can land at any step of fork, store, wait. Correct: a
  requested shutdown is never missed and reported as success, crashes are restarted
  within a budget, and no engine outlives the launcher.
- **Platform and player.** logind waits for us only as long as we hold a lock; the
  suspend hook, the resume nudge and the poll run on two threads. Correct: the video is
  paused before the machine sleeps, a stale nudge never plays into a suspend, locks do
  not leak, the idle lock goes when playback does, shutdown joins everybody.
- **Updater.** The portal restarts, refuses, answers late; the bus drops. Correct: it
  installs only on consent and one deploy at a time, acts on every consent, gives up on
  a flapping link, heals after a restart, stops when told.
- **Update prompt.** Three threads write one phase: the user's presses, a CDN that is
  up to ten minutes old, and the portal's verdicts. Correct: a staged deploy and a
  pending request stand, every check is answered, an announcement stays visible.
- **Navigator.** Every navigation and evaluation may fail or go unanswered, and a failed
  navigation has the app's URL. Correct: an error page is left for the app in the end,
  every load of the app is announced (it is not: see `AppIsAnnounced`).
- **Input, menu, card.** Three parties own the buttons in turn while the page reloads
  under them, answers are lost and the kernel drops releases. Correct: the launcher
  captures exactly while its menu is on screen, nothing repeats that is not held, one
  control moves the focus.
- **Captions.** YouTube chooses captions of its own, its module comes late, and the
  thread enforces a setting for ten seconds while the user may toggle it. Correct: what
  the user toggled stands, what is set comes to be, the store keeps a state that was.
- **Gestures.** The page queues what fingers do, a long poll fetches it and may be
  answered after it was given up, and another thread switches it all off. Correct: a
  held finger's scrub ends, nothing is acted on twice, page and launcher agree.
- **Files, profile, CDM.** Every call may fail or be the last before a kill or a power
  cut; an engine may outlive its launcher; two launchers may be started. Correct: what is
  used is whole, what was there is kept, one launcher at a time.
- **Configuration and controls.** Anyone may edit the file, and pads differ. Correct: no
  value spins a loop or stops a control, a trigger acts once a pull, a modifier owns the pad.

`PROJECT.json` lists every component with its status, and under `hazards` what is hard
to test in this code, each at its line, with the property that covers it or the reason
why none does.

## Modules

| Module | Models | Kind |
| --- | --- | --- |
| `CdpSession` | `CdpSession` of devtools.cpp | component |
| `CdpPromise` | what a caller of the session may rely on | abstract specification, implemented by `CdpSession` |
| `Watchdog` | `Watchdog::run`, `request_shutdown`, the forked child | component |
| `Power` | `SdBusPlatform` and `PlayerController` with logind | composition of two components |
| `Updater` | `PortalUpdater` with the portal | component |
| `Deployer` | what updater.hpp promises the launcher | abstract specification, implemented by `Updater`, relied on by `UpdatePrompt` |
| `UpdatePrompt` | `UpdatePromptController`, three threads | component, composed with `Deployer` |
| `Page` | the document on screen and what `osd.js` answers | external, extended by the next four |
| `Onboarding` | `OnboardingController`, `PageOverlay` | component, operations of two threads |
| `OsdMenu` | `OsdMenuController` | component, operations of two threads |
| `Navigator` | `Navigator::loop` with the hook `main()` gives it | composed with `Onboarding`, `OsdMenu` |
| `GamepadInput` | `GamepadInput::loop` | composed with `Onboarding`, `OsdMenu` |
| `PageThreads` | the navigator's and the input thread over one page, as `main()` starts them | composes `Navigator` and `GamepadInput` |
| `AtomicFile` | `write_file_atomic` of fileio.cpp, with failures, kills and power cuts | pure, used by `Boot` and `ConfigStore` |
| `Boot` | `main()` up to the engine, `migrate_legacy_profile`, the CDM's check and install | composed with `AtomicFile` |
| `ConfigStore` | `ConfigStore`, the overlay and `user.json` | component over `AtomicFile` |
| `SettingsStore` | what config_store.hpp promises | abstract specification, implemented by `Captions` |
| `Captions` | `CaptionSettings`, the toggle and enforcement of input.cpp, the page's script | composed with `ConfigStore` |
| `Gestures` | `GestureRouter`, the recognizer's phases and queue, the scrub | component, three threads and the page |
| `Config` | reading app.json: types, clamps, order; the error page's backoff | pure |
| `Keymap` | keymaps, layers, hysteresis, axis scaling, scroll pacing | pure |
| `Controls` | from a file and a pad to what the page is sent | composed of `Config` and `Keymap` |
| `MC*` | the small instances for TLC | |
| `*Proofs` | theorems | |

**CdpSession.** `pc`, `op`, `id`, `slot` are per thread: where it is in an operation,
what it sends, under which id, and the `Pending` slot it waits on. `sock` stands for
`fd_` and the stream behind it ("none", "up", "cut" by us, "gone" by the engine),
`reader` for the reader thread, `lock` for `reconnect_mu_`, `armer` for
`arming_thread_`, `owed` and `wire` record which sticky items a connection owes its
target and what was written to it. The short mutexes are atomic; `reconnect_mu_` is
held across blocking calls and is a variable. `Ensure`, `Lock`, `Join`, `Publish`,
`Unreachable` are the stretches of `ensure_connected()` between two points at which
another thread matters; `ArmRequest` to `ArmDone` are the re-arm, which sends through
the same `Register`, `Send`, `Timeout`, `Answered` as any request. `LastHandle` and
`DtorJoins` are the destructor. The engine (`Deliver`, `TargetGone`) answers any
request in flight, in any order, or none.

**Watchdog.** `pc` walks `run()`; `child` walks the forked process from `fork()`
through `prctl`, the `getppid()` test and `execv`, because a SIGTERM means something
else at each of these; `req` is one requester's three steps (store, load, kill). Time
is `clock`, up to `MaxClock`; the window and the restarts are the code's own.

**Power.** `lpc` is the loop thread's step, pump, reconnect and backoff included, and
the steps of the `PrepareForSleep` handler; `ppc` is the player thread's; `mpc` is
main's joins at shutdown. `sys`, `locks` and `sig` are logind: a suspend waits for the
delay lock or its timeout, and signals reach the link that is up. History variables say
what the last suspend saw: `guarded`, that our lock held it back; `late`, that the loop had
a signal of before still to handle; `hooked`, that a hook ran in it; `paused`, that the page
took the pause of its own signal; `excused`, that the user or a nudge in flight undid that.

**Updater.** `upc` is the loop thread's step. `confirm`, `want`, `updating`,
`reestablish`, `failures` are the fields of the same meaning; `deploying`, `verdict`,
`ownerSignal`, `orphaned` are the portal and its signals in flight. One pass of
`loop()` is `PumpDone` (after any number of handlers), then `Rebuild` or `Consent`,
then the call's answer (`UpdateAccepted`, `UpdateRefused`), then `Wake`.

**UpdatePrompt.** A `tick()` is four actions, cut where the updater's thread can come
between: `Consume`, `FallBack`, `ReadPhase`, `Announce`. Presses act on the buttons the
last tick drew (`shown`). The updater's thread is any behaviour `Deployer` allows:
`RequestDeploy` is `Ask` of `Deployer`, and `OnDeployResult` is `Tell`. That
`Updater` keeps to `Deployer` is a run and a theorem, so the two halves compose.
Left out: texts, toasts and release notes.

**Page, Onboarding, OsdMenu.** `menu` and `card` are the launcher's nodes in the
document; `open` and `cardUp` are what `OsdMenuController` (`open_`) and `PageOverlay`
(`painted_`) believe. A menu node is "shown", "kept" (its documentElement was replaced,
`__dbKeep` still holds it), "dropped" (by `S.close`) or "none" (a new document). Every
evaluation has one of three ends: answered, run with its answer lost, never run.
`Verdicts(cmd)` is the set of answers `S.exec` may give, whatever tab or row it is in.

**Navigator.** `npc` is cut at each evaluation and navigation; `showing` is
`showing_error_`, `due` stands for the backoff's clock, `announced` is the local of that
name. The page may move (reload, be redirected, lose its nodes) and the input thread may
act at every step; what it does to the menu is left open here.

**GamepadInput.** One turn of `loop()` is `Poll`, a `HandleEvent` per event read, then
`MenuTick` with its probe or sweep, the card's tick (`CardLost`, `CardStays`), `Repeat`
(exit hold and direction), `Scroll` and `DropPad`. Each is a step because the page and
the navigator's thread can come between. `queue` is the kernel's buffer, which overflows
to `SYN_DROPPED`; `pad` is what the user really holds. Left out: haptics, and what is
modelled apart, triggers and layers (`Controls`), captions and gestures. `SetDirection` and
`FastScroll` are shared by events and housekeeping, as in the code.

**PageThreads.** `Navigator` and `GamepadInput` each take one thread whole and leave the
other to what it may do. Here both are whole and share `Page`, `Onboarding` and `OsdMenu`.
That this composition behaves as each of the two modules says is a pair of theorems
(`InputServed`, `NavigatorServed`): so what is shown of one thread with the other left open
holds of it beside the real one.

**AtomicFile, ConfigStore.** A file is what its path holds, what it held before the last
rename, its `.part` and whether each is on the disk. A write walks the calls of
`write_file_atomic` (open, write, fsync, close, rename), each of which may fail and go to
the cleanup; a kill stops it where it is; a power cut undoes an unsynced rename and tears
unsynced bytes. `Captions` takes a put as one step (its thread waits for it), the write's
kills and failures within it; `Boot` interleaves its calls.

**Boot.** `pc` is each launcher's step from `flock` to the running engine. `profile` and
`staging` are directories: which legacy entries they have, from which candidate, and what
this installation put there. `cdm` is an `AtomicFile`. `Killed`, `OrphanEnds`, `PowerCut`
and `WrittenBack` are the world. `faults` says what has gone wrong so far; the properties
name which faults excuse what.

**Captions.** `known`, `setting` are `CaptionSettings`; `videoUp`, `prevUp`, `pending`,
`ticks` the input thread's window; `tracks`, `cc`, `settled`, `loaded` YouTube's player as
the script meets it. `tracks` are the languages of the tracks that `caption_type` admits and
`barred` says that there are others, so a fallback may find none. A call into the page may
fail before it runs or after, and the player may refuse what the script sets: `turnOff()`
answers "off" all the same. `toggled` is set on a video the thread has seen start; a press
before that stores what it did and leaves the video to the window.

**Gestures.** `at` is the router's step, cut at each call into the page; `waiter` says for
whom the page's pending promise still waits, a request given up included; `finger` is the
recognizer's state without its geometry; `storing` is the gap between the input thread's
two stores of the setting; `drop` is what `loop()` decided of a batch before it went
through it. `scrub` is `__deckbackScrub` and `video` the video element, with its own rate or
a hold's: without one `hold_scrub.js` does nothing, a stop included, so a rate kept from a
video that left is what the next hold's end restores. A held finger may drag on, and what
that queues goes with its hold. `forgot` follows a finger that the page forgot when a
configuration found gestures off.

**Config, Keymap, Controls.** A file is a function from paths to typed values; `Load` reads
each field with its type test, range and default, then orders the pairs that must be in
order. `Keymap`'s operators (`ResolvePress`, `Normalize`, `TriggerPressed`, `Scroll`) are
`keymap.cpp`'s functions. `Controls` starts a launcher on a file, with a pad of its own
ranges, and sends it events of every trigger, stick and button in every context. The
history variables say what a trigger did: `letGo`, that it was let go since it last fired;
`forgotten`, that it has not moved since `drop_held_state()`, so the launcher cannot know
that it is pulled.

## Runs

| Run | Question | Bounds | Result |
| --- | --- | --- | --- |
| `cdp_session` | orphaned waits, wrong answers, re-arm, the promise to callers; does everything return? | 2 threads that set a script or ask, 2 connections, 2 operations each | holds |
| `cdp_user_agent` | is the user agent first on a fresh target? | 3 operations, 2 connections | violated |
| `watchdog` | shutdown, restarts, orphaned engines | 2 requesters, 2 restarts a minute, a clock just past a minute | holds |
| `power` | locks, suspend order, stale nudges, shutdown | 2 retries, 2 events (suspend, unpaired resume, lost link) | holds |
| `updater` | consent, restarts, give-up, stop, `Deployer` | 1 commit, 2 retries, 2 portal restarts, any number of drops | holds |
| `update_prompt` | pending requests, answered checks | 2 commits | holds |
| `input` | capture against paint, held directions, lost pads | 1 direction, a buffer of 2 events, 3 acts of the user, 1 move of the page | holds |
| `navigator` | is the error page left? | 2 moves of the page | holds |
| `boot` | migration, kept profiles, whole CDMs | 2 launchers, 3 launches, 2 candidates of 2 entries, any kills, failures and cuts | holds |
| `captions` | toggles stand, settings come to be, the store's promise | 2 videos, 2 edits, 1 mishap, a window of 3 ticks of which 2 relax | holds |
| `gestures` | scrubs end, order, agreement | 3 gestures, a queue of 2, 2 toggles (of the setting, surfaces or the video), 1 fault | holds |
| `controls` | pace, retries, triggers, modifiers | 6 files, 2 kinds of pad, 3 pulls, 6 tilts | holds |

Why the bounds are enough. Every race of the session needs two threads (one that
reconnects or fails, one that is caught) and two connections (an old one and the fresh
one); a third caller repeats the role of the second. The watchdog's window needs a
restart on each side of its edge. In `Power` two events cover each pair: two suspends,
a suspend and a lost link, an unpaired resume and a suspend (announced before that
resume is handled, while it is, or after). In `Updater` one commit
suffices because commits are only passed through; two restarts of the portal put one
inside the recovery from the other. `UpdatePrompt` needs a second commit, for a newer
announcement after a refused, ignored or failed one. `moved` lets a request's clock be
restarted once: without a bound a portal that always makes progress keeps a request
pending for ever, as it should. In `GamepadInput` three acts are a press, what it meets and
a release, or enough to overflow a buffer of two; the theorems cover every number of
directions, acts and buffer sizes, and the run covers the liveness at the size where
each event can meet a reload at every step. The navigator needs one move that loses the
app and one that loses the error page. In `Boot` two launchers are one that is refused, or
one whose engine is left over and the next; three launches are one cut short, one cut
short in the recovery, and one that uses what is there; two entries make a copy that may
be partial, two candidates make a choice; the theorems cover every number of each. In
`Captions` the window has a tick that insists and two that relax, and the second video
meets what the first left; two edits are a toggle and a change, or off and on again. In
`Gestures` three gestures are a hold, its release and one before or between them, which
fills the queue; two toggles are off and on again, or one and a video that comes or goes.
`Controls` has a file as shipped, one with inverted and out-of-range numbers, one mistyped
and with a layer and one modifier, one with two modifiers, one with a deadzone finer than a
pad's step and the longest retry, and one of a later schema; the pulls lie between and beyond
both thresholds. Queues in `Power` and clocks are bounded by the event bounds; every bound
is a CONSTANT marked so.

Deadlock is checked for `CdpSession` and `Watchdog`, whose ends (`Destroyed`, `Over`)
are named stuttering actions, and for `Power`, where the user may always act. `Updater`
ends for good (`upc = "ended"`), and so its configuration, like those of `UpdatePrompt`
(whose input thread is not told to stop), `Boot` (whose launches are used up),
`Captions` (whose videos and edits are) and `Controls` (where a refused file ends the
launcher), switches the test off. In `Navigator`, `GamepadInput` and `Gestures` something
can always happen, and the test is on.

### Fairness

- `CdpSession`: weak fairness of each thread's own steps and of the reader; strong
  fairness of `Lock`, because a thread that holds `reconnect_mu_` waits on timeouts
  between its calls and a mutex is not handed over in order. None of the engine.
- `Watchdog`: the supervise loop, the child up to `execv`, and a requester that has
  begun. The engine need not stop by itself, and nobody need ask.
- `Power`: the two threads and main, and a machine asleep wakes up again.
- `Updater`: the thread's own steps, signals that wait to be dispatched, and a wake
  when there is a byte in the pipe or a signal on the bus. None of the portal.
- `UpdatePrompt`: the input thread ticks, the probe's HTTP read has a timeout
  (`kUpdateRefTimeoutSec`), and time passes. None of the updater or the user.
- `Navigator`: the thread's steps, the backoff's clock, and strong fairness of
  `NavigateOk`: a navigation tried again and again succeeds at last, which is what the
  retries are for. None of the page, the user or the other thread.
- `GamepadInput`: the thread's steps, and strong fairness of `ProbeGone`: an engine asked
  again and again (`kOverlayReconcileMs`) whether the menu is there answers at last. A
  probe that is not due, or not answered, is `ProbeKeeps`. None of the user, the page or
  the navigator.
- `Captions`: the input thread's two ticks, the player's poll and the loading of a
  video's module. None of the user, of YouTube's own choices, or of answers.
- `Gestures`: the router's thread, the page's timeout of a long poll (`WaitEnds`), and the
  second of the input thread's two stores. None of fingers, toggles or reloads.
- `Boot`, `Controls`: none; their properties are of safety.

## Proofs

TLC shows the properties above on small instances; the theorems hold for every value of
the constants: any number of threads, scripts, connections, retries, commits, launchers,
suspends, any file and any pad.

| Theorem | Property of | Rests on |
| --- | --- | --- |
| `CdpSessionProofs!TypeCorrect` | `TypeOK` | typing alone |
| `CdpSessionProofs!JoinsDeadReaders` | `JoinNeverBlocks` | `LockInv` |
| `CdpSessionProofs!NoWaitOrphaned` | `NoOrphanedWait` | `RequestInv`, `LockInv` |
| `CdpSessionProofs!RepliesAreOwn` | `AnswerIsOwn` | `RequestInv` |
| `CdpSessionProofs!ArmedIsReapplied` | `ArmedMeansReapplied` | `ArmInv` |
| `CdpSessionProofs!Implements` | `KeepsPromise` | all three |
| `WatchdogProofs!TypeCorrect` | `TypeOK` | `DataOK`, `FlagsOK` |
| `WatchdogProofs!ShutdownNeverMissed` | `NoMissedShutdown` | `ChildInv` |
| `WatchdogProofs!ShutdownSucceeds` | `ShutdownIsSuccess` | `EarlyInv` |
| `WatchdogProofs!RestartsAreBounded` | `RestartsPerMinute` | `WindowInv` |
| `PowerProofs!TypeCorrect` | `TypeOK` | `DataInv`, `SigOK`, `FlagsOK` |
| `PowerProofs!LocksAreOurs` | `NoLeakedLock` | `LockInv` |
| `PowerProofs!HookComesFirst` | `HookBeforeSleep` | `HookInv`, `LockInv`, `DataInv` |
| `PowerProofs!PauseHolds` | `SleepsPaused` | `PauseInv`, `GenInv` |
| `UpdaterProofs!TypeCorrect` | `TypeOK` | `DataOK`, `FlagsOK` |
| `UpdaterProofs!FlappingIsGivenUp` | `FlappingGivesUp` | `BudgetInv` |
| `UpdaterProofs!NeverBehindYourBack` | `InstallsOnConsent` | `ConsentInv` |
| `UpdaterProofs!Implements` | `KeepsPromise` | `ConsentInv` |
| `UpdatePromptProofs!TypeCorrect` | `TypeOK` | `DataOK`, `FlagsOK` |
| `UpdatePromptProofs!ChecksAreProbed` | `CheckHasProbe` | itself, with typing |
| `UpdatePromptProofs!StagedDeployStands` | `StagedStands` | each step |
| `UpdatePromptProofs!RequestsStand` | `RequestStands` | each step |
| `PageProofs!TypeCorrect` | `TypeOK` | `IInv` |
| `PageProofs!MenuIsCaptured` | `PaintedIsCaptured` | `MenuInv` |
| `PageProofs!OneMoves` | `OneMover` | `FocusInv` |
| `PageProofs!OnlyHeldRepeats` | `RepeatsWhatIsHeld` | `HeldInv`, `LostInv` |
| `PageProofs!NavigatorTyped` | `NavigatorTypeOK` | itself |
| `PageProofs!HookMisses` | `MissedLoads` | each step |
| `PageProofs!InputServed` | `InputIsServed` | each step |
| `PageProofs!NavigatorServed` | `NavigatorIsServed` | `InputServed`, `IInv` |
| `DiskProofs!SaveIsTold` | `AtomicFile`'s outcomes | `Reaches` |
| `DiskProofs!CaptionsTyped` | `CaptionsTypeOK` | `CaptionsOK` |
| `DiskProofs!PressStands` | `ToggleStands` | `StandsInv`, `CaptionsOK` |
| `DiskProofs!StoreImplements` | `StoreKeepsPromise` | `StoreInv`, `SaveIsTold`, `SettingsOK` |
| `DiskProofs!LockIsFreed` | `LockNeedsLauncher` | `LockInv` |
| `DiskProofs!MigratesWhole` | `MigrationIsWhole` | `CopyInv` |
| `DiskProofs!ProfileIsKept` | `ProfileKept` | `LockInv`, `CopyInv`, `EmptyInv` |
| `DiskProofs!LegacyIsTaken` | `LegacyNotStranded` | `StrandInv`, `EmptyInv`, `LockInv` |
| `DiskProofs!WidevineStays` | `WidevineIsWhole` | `CdmInv` |
| `PadAndTouchProofs!ActsInOrder` | `ActedInOrder` | `OrderInv` |
| `PadAndTouchProofs!ScrubEnds` | `ScrubHasEnd` | `Safe`, `OffInv`, `WaitInv`, `DropInv` |
| `PadAndTouchProofs!ControlsTyped` | `ControlsTypeOK` | `ControlsOK` |
| `PadAndTouchProofs!AxesAreRight` | `AxesSayWhatIsHeld` | `TriggersOK`, `ScrollOK` |
| `PadAndTouchProofs!ScrollPaced` | `ScrollIsPaced` | `ScrollOK`, `Paced`, `ScrollDeeper` |
| `PadAndTouchProofs!TriggersFireOnce` | `TriggerFiresOnce` | `TriggersOK` |
| `PadAndTouchProofs!ModifierOwns` | `ModifierOwnsPad` | `TriggersOK` |
| `PadAndTouchProofs!RetriesSlowDown` | `RetriesBackOff` | `Paced`, `BackoffStep` |

Why the strengthenings are needed:

- *Session.* That a reader may be joined follows from who holds what (`LockInv`): a
  thread between `Lock` and `Publish` owns `reconnect_mu_` and finds the link down, an
  open link has a reader in its loop, and an unarmed open link has an armer that owns
  the lock. That no wait is orphaned and no answer goes astray follows from
  `RequestInv`: ids are unique among active requests and never reused by a later
  connection, a waiting slot is in the pending table, a frame in flight belongs to the
  thread that waits under its id. `ArmInv` says what the re-arm still has to send: what
  a connection owes its target has been sent, is still to come, or is on its way.
- *Watchdog.* `ChildInv` ties a requester that found no child (or signalled one) to
  what `run()` has yet to do about it. `WindowInv` keeps the restarts of the current
  window at its end of `restartTimes` and those of the window before a minute away:
  hence no `2 * MaxRestarts + 1` restarts within less than a minute, which is what the
  window reset of the code really gives (not `MaxRestarts + 1`).
- *Power.* `NoLeakedLock` needs that a lock is taken only where none is held (`LockInv`:
  the step that takes follows the step that closed). `HookInv` follows a suspend that the
  lock holds back through the loop: until the hook has run its own signal is the only one
  queued or being handled, and the lock is ours (`BeforeHook`); a suspend announced while an
  earlier signal was still to be handled (`late`) is not so, and is let go with no hook.
  `PauseInv` says of every suspend, guarded or not, that once the page took the pause no
  signal is left to resume it and no nudge will pass its last check with an old generation
  (`NudgesOver`). It needs that no resume is stamped with a generation still to come
  (`GenInv`).
- *Updater.* `BudgetInv`: while the thread runs it has a try left, and every link lost
  before it was stable has used one. `ConsentInv`: `want_update_` outlives a turn of
  the loop only in auto mode, and `Update()` is called only with `updating_` set.
- *Update prompt.* A check without a probe is impossible because only
  `consume_probe()` takes an answer, and settles the check in the same step or falls
  back, and `tick()` reads the phase only afterwards. The two action properties are
  proved of every single step.
- *Input.* `MenuInv` is kept by each operation of the menu (`ObeyMenu`: a verdict leaves
  no menu uncaptured unless it says that there is none), so a command can be sent from
  any step of the thread. `HeldInv` speaks of the events under way: the last of those in
  the buffer and the batch that tells anything of the D-pad tells what the user holds,
  and where none does the thread agrees with the user, unless the card swallowed a
  release. An overflow keeps it because `SYN_DROPPED` tells "let go", an unplugged pad
  because its state is dropped before another is opened (`LostInv`).
- *Boot.* `LockInv`: a launcher past the lock holds it, so there is one. `CopyInv`: a
  staging directory past its copy has all entries of the first acceptable candidate or
  none, and only such a one is promoted. `EmptyInv`: between the test that the profile is
  empty and its replacement only an orphan writes. `StrandInv`: while no call has failed,
  a launcher that is past the migration has found or made a profile with entries. `CdmInv`
  ties what a launcher believes of the CDM (`ready`, the call it is at) to the file on the
  disk, which `AtomicFile` replaces as a whole whatever is cut.
- *Gestures.* `OrderInv`: what was acted on is older than what was drained, and that older
  than what is queued. `Safe` says it of holds: each one queued, or drained and not
  dropped, has its release behind it or its finger still down, so acting on one starts no
  scrub without an end. It needs that nothing is queued while a poll is pending and that
  the router has a batch only between an answer and its next question (`WaitInv`), and that
  a page that is off has nothing queued and sees no finger, and that its "off" has a stop
  with it, or one owed by the push to come, or was crossed (`OffInv`, over `forgot`).
- *Page threads.* Each step of the one thread is one the other expects: of the navigator's,
  that it loads a document, raises a card that is down, or flags a reload; of the input
  thread's, that it hides a card that is up, learns that one is gone, or takes the flag, and
  leaves the menu typed (`IInv`, of the composition by `InputServed`). `HookMisses` needs no
  invariant: every step but the three of its statement leaves `Missed` as it was.
- *Captions and settings.* `Reaches` says where a write can be after each of its calls, for
  any contents: told to have succeeded only with the new bytes under the path. `StoreInv`: the
  file holds a document of overlay values, whole, and the overlay in memory is one of them.
  `StandsInv`: a toggle on a video the thread has seen start has ended the enforcement window
  and found the video that is on, so no later tick has anything to enforce. The track the script
  picks is the first of the list that there is (`PickIsFirst`).
- *Controls.* `Paced` is what `Load` makes of any file: the fields that pace a loop are in
  range and in order. `TriggersOK`: a trigger is held from its press to its release, and one
  that was not forgotten is held while it is pulled; so a pulled modifier is the active one
  (`OwnerIsActive`), and what buttons and sticks resolve to is its own. `ScrollOK`: the right stick was last read
  where it is or was forgotten, and what it scrolls is a function of that. The proof found two
  faults of the statements: a deadzone finer than one step of the pad's range makes a stick at
  rest scroll (`CentreIsDead` in `AxesSayWhatIsHeld` is that qualification), and `letGo` alone
  says no more than that the trigger is not held, which left two conjuncts empty until
  `forgotten` took its place.

Two proofs need induction, of `Backoff`'s recursive function and of `Pick`'s first element of
a list. The library's induction theorems take an operator, which the provers cannot
instantiate, so both go by the least counterexample (`LeastIndex`, from the
well-foundedness of `<` on Nat).

The assumptions are those of the modules: finite or infinite sets of threads and
commits, `None` and `NoOne` outside them, positive limits, a legacy profile with an entry,
languages and bounds of the captions that are natural numbers where they count, and of a
file and a pad that a number is a number and a range is not empty (`ControlsAssumption`).
`ProfileIsKept`, `LegacyIsTaken` and `WidevineStays` also assume `Guarded`: the lock file
could be opened. Nothing else is assumed.

Every safety property of a passing run is stated by a theorem. Only model-checked is
liveness (`CallsReturn`, `ShutdownEnds`, `EngineDiesWithLauncher`, `IdleReleased`,
`ShutdownCompletes`, `ConsentIsTaken`, `RestartIsHealed`, `StopEndsThread`, `Answered`,
`CaptureEnds`, `ErrorIsLeft`, `CaptionsFollow`, `PageFollows`), which the proof system does
not reach under fairness.

`OneMover`, `LockNeedsLauncher`, `ShutdownIsSuccess`, `InstallsOnConsent`, `StagedStands`,
`CheckHasProbe`, `JoinNeverBlocks`, `MissedLoads` and the `TypeOK`s of the modules with proofs
are proved for every value of the constants and in no configuration; to see one on the small
instance, add it to the module's `.cfg`. So are the two of `PageThreads`, whose states are
those of `GamepadInput` and `Navigator` together: a configuration for it is `Input.cfg` with
`ThreadsSpec` and every bound at 1 (about 250,000 states).

## Where code and docs disagree

One run checks what a doc says and the code does not do, and TLC finds the violation:

- `cdp_user_agent`: a thread that passed `ensure_connected()` on the old socket writes
  its request to the fresh one before the re-arm has set the user agent
  (`send_text()` tests only `fd_`), which docs/HOW-IT-WORKS.md:116-118 rules out.

Others have their property in the module, stated as the doc has it, and in no
configuration: adding it to the module's `.cfg` gives the counterexample.

| Property | What TLC shows | Said at |
| --- | --- | --- |
| `Watchdog!ShutdownAlwaysEnds` | a SIGTERM forwarded to a child that has not reached `execv()` is swallowed by the handler it inherited, and `run()` waits for an engine nobody will stop | docs/HOW-IT-WORKS.md on SIGTERM |
| `UpdatePrompt!AnnouncementShown` | after a failed deploy of an announced commit, a check answered by a stale copy of the ref leaves the tab without the announced update | updateprompt.cpp, `tick()` |
| `Navigator!AppIsAnnounced` | when the error page has vanished (a restarted engine), `loop()` navigates and drops the result of `try_navigate()`; the hook never fires for the recovered app. Nor does it after a navigation whose answer was lost, nor when the app is loaded without the navigator: by the page, or by the player after a long sleep (player.cpp:176). A load by a navigation the loop makes otherwise, and hears of, is announced (`HookMisses`) | navigator.hpp on `on_app_loaded_` |
| `Power!SuspendAlwaysHooked` | an unpaired resume is queued, or being handled, when a suspend is announced: its re-arm closes the lock that holds the suspend back (platform.cpp:216) and the machine sleeps with no hook run. So does the end of an earlier suspend's handler (platform.cpp:209) | platform.hpp:14-15, docs/HOW-IT-WORKS.md:223 |
| `Gestures!ScrubAlwaysEnds` (with `MaxFaults = 0`) | a hold drained from a page that was not configured is acted on after gestures were turned off and on again while the page was being disabled (gestures.cpp:237): that disable forgot the finger and sent no stop, and the push that follows is "on" | gestures.cpp:213-214 |
| `Controls!ModifierAbsorbs` | under a held modifier the other trigger, when it is none, still sends its own key or seek (input.cpp:496-512) | config.hpp:35-37 |
| `Captions!StateIsRemembered` | remember off, a toggle, remember on again (caption_settings.cpp:273) stores `caption_remember` alone: the next session starts with the state before the toggle | app.json:107 |
| `Controls!LayerOverrides`, with `Files <- McOverriding` | the captions and gestures codes are compared before the layer is looked at (keymap.cpp:368), so a layer cannot rebind them | config.hpp:33-34, app.json:77 |

Three more are steps of a model without a property. "capture <=> paint" (osdmenu.hpp:23)
fails of an opening whose answer was lost (osdmenu.cpp:108) and of a closing that did not
run: the menu is painted and nobody captures for it until it is opened or closed again or
the document goes (`orphan`, which `PaintedIsCaptured` leaves out). The system bus's loop
reconnects for ever to a bus that connects and drops at once, because only a failed
`connect()` is counted, while platform.cpp:231-232 speaks of giving up (the updater's loop
counts them: `FlappingGivesUp`). A script stored while a re-arm copies the list is sent twice, while
devtools.cpp:304 says it never is; the scripts guard themselves against it.

Smaller things met on the way: a direction released under the card repeats on if the page
takes the card away before the thread looks again (`swallowed` in `RepeatsWhatIsHeld`,
input.cpp:456); the exit hold's deadline is looked at before the events that came
meanwhile and before a lost pad's state is dropped (input.cpp:592); a documentElement that
is replaced leaves the menu detached, which the probe takes for a live one, counting on
the page's keep-alive to append it again (osdmenu.cpp:201); a navigation that failed and
an error page that could not be drawn leave Chromium's own page on screen
(navigator.cpp:158); a trigger still pulled when events were lost acts again at its next
event, since `drop_held_state()` forgets it (`letGo` counts that as let go); a stop with no
video in the page leaves `__deckbackScrub` set, and the next hold restores that old rate
(hold_scrub.js:6 and :26); a press before the caption module has loaded ends the enforcement
window and changes nothing (input.cpp:341).

## Not modelled

- **Frame and JSON codecs, HTTP, SHA-256, page texts, toasts, logs, selftests**:
  sequential, without state that outlives a call, and unit-tested or fuzzed. Their results
  are data here: a frame arrives, bytes are the pinned ones or others.
- **Touch mode**: one thread that writes one X property while its window has the focus and
  reads nothing back. **Audio, haptics, the simulated watch, about**: device output.
- **Windows taken as one step**: a pid reused between `waitpid()` and the store of
  `g_child`; a blocking `send()`; the updater's consent pre-grant, two D-Bus calls an
  explicit "no" could fall between.
- **Parts of modelled components**: a second pad and the Settings button of the input
  thread (the launcher goes on after an exit hold fires); the navigator with
  `error_page = false`; the recognizer's geometry, double taps and HUD; which track of a
  language `caption_type` prefers; the release notes of the update prompt; the player's
  warning and its TCP probe; option parsing in `main()`. `PROJECT.json` says for each component what is in and what is not.
- **Engine patches, build, packaging, host scripts**: outside the launcher's process.
  `idle-nudge.py` watches the launcher's idle lock from outside and
  `publish-repo.sh` signs and pushes a repository; neither is talked to by the launcher.

What a later extension would take first: a second pad in `GamepadInput`, an abstract "one
owner of the buttons" that the menu, the card and the input thread implement, and the same
composition for the other threads that share the page (gestures, captions).
