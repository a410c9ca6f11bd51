------------------------------ MODULE Captions ------------------------------
(***************************************************************************)
(* Captions: the settings (launcher/src/caption_settings.cpp), the input   *)
(* thread that toggles them and that enforces them for a while after a     *)
(* video starts (input.cpp), and the page's script                         *)
(* (config/scripts/toggle_captions.js) over YouTube's player.              *)
(*                                                                         *)
(* A track is its language; of caption_type only whether it admits a track. *)
(***************************************************************************)
EXTENDS ConfigStore

CONSTANTS
    SystemLang,              \* the language "system" stands for
    MaxTicks, RelaxTicks,    \* 40 and 6 in the code
    MaxVideos, MaxEdits, MaxMishaps   \* bounds on a behaviour

ASSUME CaptionsAssumption ==
    /\ MaxTicks \in Nat /\ RelaxTicks \in 1..MaxTicks
    /\ SystemLang \in Codes
    /\ MaxVideos \in Nat /\ MaxEdits \in Nat /\ MaxMishaps \in Nat

VARIABLES
    known,     \* on_known_
    setting,   \* control_, remember_, on_, languages_ by their keys
    videoUp,   \* LayerState::video_up, written by the player's poll
    prevUp,    \* prev_video_up_
    pending,   \* caption_apply_pending_
    ticks,     \* caption_apply_ticks_
    watching,  \* the page is on a video
    loaded,    \* the player's caption module is there
    tracks,    \* the languages the video offers in tracks that caption_type admits
    barred,    \* it offers tracks that caption_type does not admit
    cc,        \* the language on screen
    settled,   \* YouTube has put its own choice of captions on the screen
    toggled,   \* the user has toggled captions since the thread saw this video start
    missed,    \* a poll missed this video, or an answer of its window was lost
    videos, edits, mishaps

settingVars == <<storeVars, known, setting>>
threadVars == <<videoUp, prevUp, pending, ticks>>
pageVars == <<watching, loaded, tracks, barred, cc, settled>>
noteVars == <<toggled, missed>>
captionsVars == <<settingVars, threadVars, pageVars, noteVars, videos, edits, mishaps>>

NoCaptions == "off"

CaptionsTypeOK ==
    /\ overlay \in Overlays /\ file \in Files({"document"} \X Overlays)
    /\ known \in BOOLEAN
    /\ setting \in [caption_control : {"local", "youtube"}, caption_remember : {"on", "off"},
                    caption_on : {"on", "off"}, caption_languages : Lists]
    /\ videoUp \in BOOLEAN /\ prevUp \in BOOLEAN /\ pending \in BOOLEAN /\ ticks \in 0..MaxTicks
    /\ watching \in BOOLEAN /\ loaded \in BOOLEAN /\ settled \in BOOLEAN
    /\ tracks \in SUBSET Codes /\ barred \in BOOLEAN /\ cc \in Codes \cup {NoCaptions}
    /\ toggled \in BOOLEAN /\ missed \in BOOLEAN
    /\ videos \in 0..MaxVideos /\ edits \in 0..MaxEdits /\ mishaps \in 0..MaxMishaps

\* app.json's values of the keys.
Shipped == [caption_control |-> "local", caption_remember |-> "on", caption_on |-> "off",
            caption_languages |-> <<SystemLang>>]

Local == setting.caption_control = "local"
Remember == setting.caption_remember = "on"
On == setting.caption_on = "on"
Languages == setting.caption_languages

\* The settings of a new session; a state that is remembered is known from the start.
SessionStarts ==
    /\ setting' = Applied(Shipped, overlay')
    /\ known' = (setting'.caption_remember = "on")
    /\ videoUp' = FALSE /\ prevUp' = FALSE /\ pending' = FALSE /\ ticks' = 0
    /\ watching' = FALSE /\ loaded' = FALSE /\ tracks' = {} /\ barred' = FALSE /\ cc' = NoCaptions
    /\ settled' = FALSE /\ toggled' = FALSE /\ missed' = FALSE

CaptionsInit ==
    /\ StoreInit
    /\ setting = Applied(Shipped, Nothing) /\ known = TRUE
    /\ videoUp = FALSE /\ prevUp = FALSE /\ pending = FALSE /\ ticks = 0
    /\ watching = FALSE /\ loaded = FALSE /\ tracks = {} /\ barred = FALSE /\ cc = NoCaptions
    /\ settled = FALSE /\ toggled = FALSE /\ missed = FALSE
    /\ videos = 0 /\ edits = 0 /\ mishaps = 0

Edit == edits < MaxEdits /\ edits' = edits + 1
Mishap == mishaps < MaxMishaps /\ mishaps' = mishaps + 1

-----------------------------------------------------------------------------
(* The page.                                                                *)

\* The page goes to a video, or leaves it.
Navigate ==
    /\ \/ ~watching /\ watching' = TRUE /\ videos < MaxVideos /\ videos' = videos + 1
       \/ watching /\ watching' = FALSE /\ UNCHANGED videos
    /\ loaded' = FALSE /\ tracks' = {} /\ barred' = FALSE /\ cc' = NoCaptions /\ settled' = FALSE
    /\ toggled' = FALSE /\ missed' = FALSE
    /\ UNCHANGED <<settingVars, threadVars, edits, mishaps>>

\* The caption module comes with the video's tracks.
ModuleLoads ==
    /\ watching /\ ~loaded /\ loaded' = TRUE
    /\ tracks' \in SUBSET Codes /\ barred' \in BOOLEAN
    /\ UNCHANGED <<settingVars, threadVars, watching, cc, settled, noteVars, videos, edits, mishaps>>

\* YouTube puts on the captions the account asks for, once.
YouTubeTurnsOn ==
    /\ loaded /\ ~settled /\ settled' = TRUE
    /\ cc' \in IF barred THEN Codes ELSE tracks
    /\ UNCHANGED <<settingVars, threadVars, watching, loaded, tracks, barred, noteVars, videos, edits, mishaps>>

\* haveTracks.
HaveTracks == tracks # {} \/ barred

\* pickTrack(): the first preferred language on offer; or any, as a fallback.
Preferred(langs) == {i \in DOMAIN langs : langs[i] \in tracks}
Pick(langs) == langs[CHOOSE i \in Preferred(langs) : \A j \in Preferred(langs) : i <= j]
Picks(langs) == IF Preferred(langs) # {} THEN {Pick(langs)} ELSE tracks

\* What a press does to the screen, and its answer.
ToggleLangs == IF Local THEN Languages ELSE <<SystemLang>>
ToggleAnswers ==
    IF ~watching \/ ~loaded THEN {<<cc, "na">>}
    ELSE IF cc # NoCaptions THEN {<<NoCaptions, "off">>}
    ELSE IF tracks = {} THEN {<<cc, "none">>}
    ELSE {<<c, "on">> : c \in Picks(ToggleLangs)}

\* While the state is not known: it is taken from the screen, in a preferred
\* language if the video has one.
SeedAnswers(relax) ==
    IF cc # NoCaptions
    THEN IF Preferred(Languages) # {} THEN {<<Pick(Languages), "seed_on">>}
         ELSE {<<cc, IF relax THEN "seed_on" ELSE "pending">>}
    ELSE {<<cc, IF HaveTracks THEN "seed_off" ELSE "wait">>}

\* Mutant of EnforceAnswers: the fallback is never allowed.
EnforceStrictly(relax) ==
    IF ~On THEN {<<NoCaptions, "off">>}
    ELSE IF ~HaveTracks THEN {<<cc, "wait">>}
    ELSE IF Preferred(Languages) # {} THEN {<<Pick(Languages), "on">>}
    ELSE {<<NoCaptions, "pending">>}

\* Once it is known: captions off, or on in a preferred language, or none until
\* the last ticks allow any, if there is one.
EnforceAnswers(relax) ==
    IF ~On THEN {<<NoCaptions, "off">>}
    ELSE IF ~HaveTracks THEN {<<cc, "wait">>}
    ELSE IF Preferred(Languages) # {} THEN {<<Pick(Languages), "on">>}
    ELSE IF ~relax THEN {<<NoCaptions, "pending">>}
    ELSE IF tracks = {} THEN {<<cc, "none">>}
    ELSE {<<c, "on">> : c \in tracks}

ApplyAnswers(relax) ==
    IF ~watching THEN {<<cc, "na">>}
    ELSE IF ~loaded THEN {<<cc, "wait">>}
    ELSE IF known THEN EnforceAnswers(relax) ELSE SeedAnswers(relax)

-----------------------------------------------------------------------------
(* The input thread.                                                        *)

\* set_on(): remembered across sessions only while remember is on.
SetOn(on) ==
    /\ setting' = [setting EXCEPT !.caption_on = on]
    /\ known' = TRUE
    /\ IF Remember THEN Put("caption_on", on) ELSE UNCHANGED storeVars

\* The player's poll. One that fails reads as no video.
Poll ==
    /\ videoUp # watching /\ videoUp' = watching
    /\ UNCHANGED <<settingVars, prevUp, pending, ticks, pageVars, noteVars, videos, edits, mishaps>>

PollFails ==
    /\ videoUp /\ videoUp' = FALSE /\ Mishap
    /\ missed' = TRUE
    /\ UNCHANGED <<settingVars, prevUp, pending, ticks, pageVars, toggled, videos, edits>>

\* Mutant of EndsWindow: a press leaves the enforcement going.
EndsWindowNot == UNCHANGED pending

EndsWindow == pending' = FALSE

\* toggle_captions(), in whatever context.  YouTube's player may refuse: turnOff() answers
\* "off" all the same, applyTrack() answers "na".  Or the answer is lost, the script run or not.
Toggle ==
    /\ Edit
    /\ EndsWindow
    /\ \E a \in ToggleAnswers :
          /\ toggled' = (toggled \/ (videoUp /\ prevUp /\ a[2] \in {"on", "off"}))
          /\ \/ /\ cc' = a[1] /\ UNCHANGED mishaps
                /\ IF a[2] \in {"on", "off"} THEN SetOn(a[2]) ELSE UNCHANGED settingVars
             \/ a[2] = "off" /\ SetOn("off") /\ UNCHANGED cc /\ Mishap
             \/ cc' \in {cc, a[1]} /\ Mishap /\ UNCHANGED settingVars
    /\ UNCHANGED <<videoUp, prevUp, ticks, watching, loaded, tracks, barred, settled, missed, videos>>

\* The edges of video_up open and close the window of enforcement.
WindowOpens == Local /\ videoUp /\ ~prevUp
WindowStays == Local /\ videoUp /\ prevUp /\ pending

\* tick_caption_apply() where nothing is to be enforced.
TickIdle ==
    /\ ~WindowOpens /\ ~WindowStays
    /\ prevUp # videoUp \/ pending
    /\ prevUp' = videoUp /\ pending' = FALSE
    /\ UNCHANGED <<settingVars, videoUp, ticks, pageVars, noteVars, videos, edits, mishaps>>

\* One evaluation of the script, at most every 300 ms.  An answer that is lost, and a player that
\* refuses, are one: whatever turnOff() and applyTrack() then answer concludes nothing.
Tick ==
    /\ WindowOpens \/ WindowStays
    /\ prevUp' = TRUE
    /\ LET done == IF WindowOpens THEN 0 ELSE ticks
           relax == done >= MaxTicks - RelaxTicks
       IN  /\ ticks' = done + 1
           /\ \E a \in ApplyAnswers(relax) :
                 \/ /\ cc' = a[1]
                    /\ IF a[2] \in {"seed_on", "seed_off"}
                       THEN SetOn(IF a[2] = "seed_on" THEN "on" ELSE "off")
                       ELSE UNCHANGED settingVars
                    /\ pending' = (a[2] # "none" /\ ticks' < MaxTicks)
                    /\ UNCHANGED <<missed, mishaps>>
                 \/ /\ cc' \in {cc, a[1]} /\ Mishap /\ missed' = TRUE
                    /\ pending' = (ticks' < MaxTicks)
                    /\ UNCHANGED settingVars
    /\ UNCHANGED <<videoUp, watching, loaded, tracks, barred, settled, toggled, videos, edits>>

Store(k, v) == setting' = [setting EXCEPT ![k] = v] /\ Put(k, v)

\* A row of the Captions tab is stored when it changes anything.
Choose(k, v) == setting[k] # v /\ Store(k, v)

\* The lists one command away: a language added, removed (the last one leaves
\* "system") or swapped with its neighbour.
Without(list, i) == SubSeq(list, 1, i - 1) \o SubSeq(list, i + 1, Len(list))
ListEdits ==
    LET list == Languages
    IN  {Append(list, c) : c \in Codes \ {list[i] : i \in DOMAIN list}} \cup
        {IF Len(list) = 1 THEN <<SystemLang>> ELSE Without(list, i) : i \in DOMAIN list} \cup
        {[list EXCEPT ![i] = list[i + 1], ![i + 1] = list[i]] : i \in 1..Len(list) - 1}

\* apply_action().
ApplyAction ==
    /\ Edit
    /\ \/ \E v \in {"local", "youtube"} : Choose("caption_control", v)
       \/ \E v \in {"on", "off"} : Choose("caption_remember", v)
       \/ \E list \in ListEdits : Store("caption_languages", list)
    /\ UNCHANGED <<known, threadVars, pageVars, noteVars, videos, mishaps>>

-----------------------------------------------------------------------------
(* Sessions.                                                                *)

Restart ==
    /\ Mishap
    /\ \/ Reload
       \/ ReloadAfterPowerCut
       \/ \E v \in {"on", "off"} :
             \/ Remember /\ PutInterrupted("caption_on", v)
             \/ ~Remember /\ PutInterrupted("caption_remember", "on")
    /\ SessionStarts
    /\ UNCHANGED <<videos, edits>>

CaptionsNext ==
    \/ Navigate \/ ModuleLoads \/ YouTubeTurnsOn
    \/ Poll \/ PollFails \/ Toggle \/ TickIdle \/ Tick \/ ApplyAction \/ Restart

CaptionsSpec == CaptionsInit /\ [][CaptionsNext]_captionsVars

\* The input thread's loop and the player's poll go on, and a video loads.
Fairness == WF_captionsVars(Tick) /\ WF_captionsVars(TickIdle) /\ WF_captionsVars(Poll) /\ WF_captionsVars(ModuleLoads)

CaptionsFairSpec == CaptionsSpec /\ Fairness

-----------------------------------------------------------------------------
(* Properties.                                                              *)

\* Once the user has toggled captions on a video the thread has seen start, no
\* enforcement changes the screen again, also when the press's answer was lost,
\* until a failed poll makes the thread take the video for a new one.
ToggleStands ==
    [][toggled /\ toggled' /\ ~missed /\ Tick => cc' = cc]_captionsVars

\* The screen is as the settings want it.
AsSet ==
    /\ ~On => cc = NoCaptions
    /\ On /\ tracks # {} => cc \in Picks(Languages)

\* A video whose captions load before the last ticks of its window gets the captions
\* the settings want at some tick, in a fallback language if it must and whatever
\* YouTube turns on meanwhile, unless an answer is lost, the user decides otherwise
\* or the video is left.  (A press before they load ends the window too, undecided.)
CaptionsFollow ==
    pending /\ videoUp /\ loaded /\ ticks <= MaxTicks - RelaxTicks
        ~> AsSet \/ toggled \/ missed \/ ~Local \/ ~watching

\* "caption_remember: keep the caption on/off state across app restarts" (app.json).
StateIsRemembered ==
    [][Restart /\ Remember /\ known /\ file' = file /\ Loaded(file.main) = overlay
           => setting'.caption_on = setting.caption_on]_captionsVars
=============================================================================
