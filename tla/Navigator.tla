----------------------------- MODULE Navigator -----------------------------
(***************************************************************************)
(* The navigate and keep-alive thread (navigator.cpp, errorpage.cpp) with  *)
(* the hook main() gives it: first-run card, then on_page_reloaded().      *)
(* One action per evaluation or navigation, with its reply.  error_page is *)
(* on; the scripts and grants of the start are CdpSession's, the backoff's *)
(* length is data (due says that it is over), and the texts are left out.  *)
(***************************************************************************)
EXTENDS Onboarding, OsdMenu

VARIABLES
    loc,        \* "app", "failed" (Chromium's page, under the app's URL), "error" (ours), "away"
    retry,      \* window.__deckbackRetry
    npc,        \* the thread's step
    announced,  \* on_app_loaded_ was called for this load
    showing,    \* showing_error_
    due,        \* mono_ms() >= next_retry_ms_
    unheard     \* history: the app was loaded, by whomever, and on_app_loaded_ was not called since

docVars == <<loc, retry>>
navVars == <<npc, announced, showing, due, unheard>>

NavOK ==
    /\ loc \in {"app", "failed", "error", "away"} /\ retry \in BOOLEAN
    /\ npc \in {"arm", "idle", "check", "navigate", "renavigate", "blank", "draw", "loaded", "flag"}
    /\ (npc \in {"loaded", "flag"} => announced)
    /\ announced \in BOOLEAN /\ showing \in BOOLEAN /\ due \in BOOLEAN /\ unheard \in BOOLEAN

\* A new document at l.
Document(l) == loc' = l /\ retry' = FALSE /\ NewDocument

\* The engine boots on about:blank.
NavInit ==
    /\ loc = "away" /\ retry = FALSE
    /\ npc = "arm" /\ announced = FALSE /\ showing = FALSE /\ due = FALSE /\ unheard = FALSE

-----------------------------------------------------------------------------
\* set_user_agent_override(), until it is armed.
Arm ==
    /\ npc = "arm" /\ npc' = "idle"
    /\ UNCHANGED <<announced, showing, due, unheard, docVars, pageVars, cardVars, menuVars>>

\* loop(), no error shown: where is the engine?  A failed navigation has the app's URL too.
LookAtPage ==
    /\ npc = "idle" /\ ~showing
    /\ IF loc \in {"app", "failed"}
       THEN /\ ~announced
            /\ announced' = TRUE /\ npc' = "loaded"
       ELSE npc' = "navigate" /\ UNCHANGED announced
    /\ UNCHANGED <<showing, due, unheard, docVars, pageVars, cardVars, menuVars>>

\* on_app_loaded_: the card ...
ShowCard ==
    /\ npc = "loaded" /\ npc' = "flag"
    /\ Show /\ unheard' = FALSE
    /\ UNCHANGED <<announced, showing, due, docVars, menu, turns, menuVars>>

\* ... and the menu.
FlagReload ==
    /\ npc = "flag" /\ npc' = "idle"
    /\ OnPageReloaded
    /\ UNCHANGED <<announced, showing, due, unheard, docVars, pageVars, cardVars>>

\* loop(), error shown: take_retry_request() reads and clears the flag.
TakeRetry ==
    /\ npc = "idle" /\ showing
    /\ \E r \in Replies :
        /\ retry' = (retry /\ r = "unsent")
        /\ npc' = IF r = "answered" /\ retry THEN "navigate" ELSE "check"
    /\ UNCHANGED <<announced, showing, due, unheard, loc, pageVars, cardVars, menuVars>>

\* Mutant of CheckError: only the user's retry and a vanished page end the wait.
CheckErrorPage ==
    /\ npc = "check"
    /\ \/ loc # "error" /\ npc' = "renavigate"
       \/ npc' = "idle"
    /\ UNCHANGED <<announced, showing, due, unheard, docVars, pageVars, cardVars, menuVars>>

\* ... then the backoff, then whether the error page is still there.
CheckError ==
    /\ npc = "check"
    /\ \/ due /\ npc' = "navigate"
       \/ ~due /\ loc # "error" /\ npc' = "renavigate"
       \/ ~due /\ npc' = "idle"
    /\ UNCHANGED <<announced, showing, due, unheard, docVars, pageVars, cardVars, menuVars>>

RetryDue ==
    /\ showing /\ ~due /\ due' = TRUE
    /\ UNCHANGED <<npc, announced, showing, unheard, docVars, pageVars, cardVars, menuVars>>

\* try_navigate() succeeds.  The caller that found the error page gone leaves `announced` alone.
NavigateOk ==
    /\ npc \in {"navigate", "renavigate"} /\ npc' = "idle"
    /\ Document("app")
    /\ showing' = FALSE
    /\ announced' = (announced /\ npc = "renavigate")
    /\ unheard' = TRUE
    /\ UNCHANGED <<due, turns, cardVars, menuVars>>

\* try_navigate() fails in the network: back off, and draw the error page over about:blank.
NavigateFailed ==
    /\ npc \in {"navigate", "renavigate"} /\ npc' = "blank"
    /\ Document("failed")
    /\ due' = FALSE
    /\ UNCHANGED <<announced, showing, unheard, turns, cardVars, menuVars>>

\* try_navigate() without an answer: whatever the engine did, nothing is concluded from it.
NavigateSilent ==
    /\ npc \in {"navigate", "renavigate"} /\ npc' = "idle"
    /\ \/ Document("app") /\ unheard' = TRUE
       \/ Document("failed") /\ UNCHANGED unheard
       \/ UNCHANGED <<docVars, menu, card, unheard>>
    /\ UNCHANGED <<announced, showing, due, turns, cardVars, menuVars>>

\* show_error_page(): about:blank ...
NavigateBlank ==
    /\ npc = "blank"
    /\ \E r \in Replies :
        /\ npc' = IF r = "answered" THEN "draw" ELSE "idle"
        /\ IF r = "unsent" THEN UNCHANGED <<docVars, menu, card>> ELSE Document("away")
    /\ UNCHANGED <<announced, showing, due, unheard, turns, cardVars, menuVars>>

\* ... and the page itself.
DrawError ==
    /\ npc = "draw" /\ npc' = "idle"
    /\ \E r \in Replies :
        /\ loc' = IF r = "unsent" THEN loc ELSE "error"
        /\ showing' = (showing \/ r = "answered")
    /\ UNCHANGED <<announced, due, unheard, retry, pageVars, cardVars, menuVars>>

NavStep ==
    \/ Arm \/ LookAtPage \/ ShowCard \/ FlagReload \/ TakeRetry \/ CheckError
    \/ NavigateOk \/ NavigateFailed \/ NavigateSilent \/ NavigateBlank \/ DrawError

-----------------------------------------------------------------------------
\* What goes on meanwhile.  The page moves: a reload, its own or PlayerController's after a long
\* sleep, a redirect away from the app or back to it, a replaced documentElement; of our own error
\* page nothing leads to the app.
PageMoves ==
    /\ \/ Reload /\ Document("away") /\ UNCHANGED unheard
       \/ Reload /\ loc # "error" /\ Document("app") /\ unheard' = TRUE
       \/ Rebuild /\ UNCHANGED <<docVars, unheard>>
    /\ UNCHANGED <<npc, announced, showing, due, cardVars, menuVars>>

\* The user presses Try again.
TryAgain ==
    /\ loc = "error" /\ retry' = TRUE
    /\ UNCHANGED <<loc, navVars, pageVars, cardVars, menuVars>>

\* The input thread takes the card down, misses it, takes the flagged reload, and does to the menu
\* what it likes.
InputThread ==
    /\ \/ cardUp /\ Hide
       \/ CardGone /\ cardUp' = FALSE /\ UNCHANGED <<card, marked>>
       \/ UNCHANGED <<card, cardVars>>
    /\ reloaded' \in {reloaded, FALSE}
    /\ menu' \in Menus /\ open' \in BOOLEAN /\ dirty' \in BOOLEAN /\ orphan' \in BOOLEAN
    /\ UNCHANGED <<docVars, navVars, turns>>

(***************************************************************************)
(* The specification.  The thread runs and time passes, and a navigation   *)
(* that is tried again and again succeeds at last.                         *)
(***************************************************************************)
navigatorVars == <<docVars, pageVars, cardVars, menuVars, navVars>>

NavigatorTypeOK == PageOK /\ CardOK /\ MenuOK /\ NavOK

NavigatorInit == PageInit /\ CardInit /\ MenuInit /\ NavInit

NavigatorNext == NavStep \/ RetryDue \/ PageMoves \/ TryAgain \/ InputThread

NavigatorSpec == NavigatorInit /\ [][NavigatorNext]_navigatorVars

NavigatorFairSpec ==
    NavigatorSpec /\ WF_navigatorVars(NavStep) /\ WF_navigatorVars(RetryDue) /\ SF_navigatorVars(NavigateOk)

-----------------------------------------------------------------------------
(***************************************************************************)
(* Properties.                                                             *)
(***************************************************************************)

\* An error page is left for the app, though its drawing, its Try again button and its health check
\* may each go unanswered.
ErrorIsLeft == showing ~> loc = "app"

\* on_app_loaded_ "fires ... each time the TV app becomes loaded (including after a watchdog
\* restart)", as navigator.hpp says: no load is left unannounced.  No run checks it: TLC refutes it.
AppIsAnnounced == npc = "idle" /\ announced => ~unheard

\* How far that is untrue: a load goes unheard only after an earlier one was announced, and only if
\* it follows a vanished error page, its navigation was not answered, or the navigator had no part in
\* it.  A load by a navigation the loop makes otherwise, and is answered, is always announced.
Missed == announced /\ unheard /\ npc # "loaded"
MissedLoads ==
    [][Missed' => Missed \/ (announced /\ (npc = "renavigate" \/ NavigateSilent \/ (PageMoves /\ loc' = "app")))]_navigatorVars
=============================================================================
