------------------------------ MODULE OsdMenu ------------------------------
(***************************************************************************)
(* The settings menu's controller (osdmenu.cpp, OsdMenuController): the    *)
(* capture flag open_, and what each operation does to it and to the menu  *)
(* in the page.  The input thread runs all of them but on_page_reloaded(). *)
(*                                                                         *)
(* Each evaluation is one step with its reply; between the two of one      *)
(* operation the page may only lose the menu, which the second bears.      *)
(* Left out: the Settings button, an overlay that nothing here depends on, *)
(* and the update and caption handlers, which have no state of the menu's. *)
(***************************************************************************)
EXTENDS Page

VARIABLES
    open,       \* open_: every button goes to the menu
    reloaded,   \* reloaded_
    dirty,      \* model_dirty_
    orphan      \* history: an open's answer was lost, or a close did not run, since it last agreed

menuVars == <<open, reloaded, dirty, orphan>>

MenuOK == open \in BOOLEAN /\ reloaded \in BOOLEAN /\ dirty \in BOOLEAN /\ orphan \in BOOLEAN

MenuInit == open = FALSE /\ reloaded = FALSE /\ dirty = FALSE /\ orphan = FALSE

\* open_menu().
OpenMenu ==
    \E r \in Replies :
        /\ menu' = IF r = "unsent" THEN menu ELSE "shown"
        /\ open' = (r = "answered")
        /\ orphan' = (r = "lost" \/ (r = "unsent" /\ orphan))
        /\ UNCHANGED <<reloaded, dirty>>

\* The evaluation of op close, whose answer nobody reads.
EvalClose ==
    \E ran \in BOOLEAN :
        /\ menu' = IF ran THEN Closed ELSE menu
        /\ orphan' = (~ran /\ (orphan \/ menu = "shown"))

\* Mutant of Obey: an action's button releases the capture and leaves the menu up.
ObeyActionFirst(verdict) ==
    /\ open' = (open /\ verdict \notin {"gone", "close", "action"})
    /\ IF verdict = "close" THEN EvalClose ELSE UNCHANGED <<menu, orphan>>
    /\ UNCHANGED <<reloaded, dirty>>

\* exec(): act on the page's verdict; no answer says nothing about the menu.
Obey(verdict) ==
    /\ open' = (open /\ verdict \notin {"gone", "close", "action"})
    /\ IF verdict \in {"close", "action"} THEN EvalClose ELSE UNCHANGED <<menu, orphan>>
    /\ UNCHANGED <<reloaded, dirty>>

Exec(cmd) == \E verdict \in Verdicts(cmd) \cup {"unreachable"} : Obey(verdict)

\* push_update_model(), of an open menu with a new model.
PushModel ==
    \E answered \in BOOLEAN :
        /\ dirty' = ~answered
        /\ open' = ~(answered /\ UpdateGone)

\* on_page_reloaded(), on the navigator's thread.
OnPageReloaded == reloaded' = TRUE /\ UNCHANGED <<open, dirty, orphan>>
=============================================================================
