-------------------------------- MODULE Page --------------------------------
(***************************************************************************)
(* The document on screen, as the launcher's scripts see it: which of the  *)
(* launcher's nodes hang in it, and what osd.js answers.                   *)
(*                                                                         *)
(* External: YouTube's TV app and the engine.  As pageoverlay.hpp says,    *)
(* the app "navigates, reloads, and rebuilds documentElement underneath    *)
(* us".  A new document has none of our nodes and a fresh window; a        *)
(* rebuilt one keeps the window.  osd.js re-appends a kept node when the   *)
(* documentElement it observes changes, which to an evaluation is at once  *)
(* and no step here; a replaced documentElement is no longer observed, and *)
(* the node stays detached ("kept").                                       *)
(***************************************************************************)
EXTENDS Naturals

CONSTANT MaxTurns   \* bound: how often the page moves by itself

ASSUME PageAssumption == MaxTurns \in Nat

VARIABLES
    menu,   \* the menu's node: "none" (nor __dbOSD), "shown", "kept" or "dropped" (by S.close)
    card,   \* the first-run card is in the document
    turns   \* bound: how often the page moved by itself

pageVars == <<menu, card, turns>>

Menus == {"none", "shown", "kept", "dropped"}

PageOK ==
    /\ menu \in Menus
    /\ card \in BOOLEAN /\ turns \in 0 .. MaxTurns

PageInit == menu = "none" /\ card = FALSE /\ turns = 0

\* What becomes of an evaluation: it ran and was answered, it ran and the answer was lost, or it
\* never ran.
Replies == {"answered", "lost", "unsent"}

NewDocument == menu' = "none" /\ card' = FALSE

Turn == turns < MaxTurns /\ turns' = turns + 1

\* A reload, a redirect, a restarted engine.
Reload == Turn /\ NewDocument

Rebuild ==
    /\ Turn
    /\ menu' = IF menu = "shown" THEN "kept" ELSE menu
    /\ card' = FALSE

-----------------------------------------------------------------------------
\* osd.js, operation by operation.

\* op close.
Closed == IF menu = "none" THEN "none" ELSE "dropped"

\* S.exec(): what a live menu may answer, whatever tab, picker or row it is in; moving the focus
\* and applying a setting are both "consumed".
LiveVerdicts ==
    [move |-> {"consumed"}, back |-> {"consumed", "close"},
     select |-> {"consumed", "action", "check"}, ignore |-> {"consumed", "action"},
     hold_start |-> {"consumed", "hold"}, hold_cancel |-> {"consumed"}]

\* op cmd.
Verdicts(cmd) ==
    IF menu = "shown" THEN LiveVerdicts[cmd]
    ELSE IF menu = "kept" THEN {"consumed"} ELSE {"gone"}

\* op state: "gone" only without an __dbOSD.
StateGone == menu = "none"

\* op upd: "gone" unless the menu is in the document.
UpdateGone == menu # "shown"
=============================================================================
