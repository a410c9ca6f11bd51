---------------------------- MODULE PageThreads ----------------------------
(***************************************************************************)
(* The navigator's thread and the input thread over one page, as main()    *)
(* starts them.  GamepadInput and Navigator each take a whole thread and   *)
(* leave the other to what it may do; here both are whole, and what each   *)
(* takes the other for is a theorem.                                       *)
(***************************************************************************)
EXTENDS GamepadInput, Navigator

ownVars == <<docVars, navVars>>
threadsVars == <<pageVars, cardVars, menuVars, inputVars, ownVars>>

ThreadsInit == Init /\ NavigatorInit

\* What the navigator's thread, its clock and the user on the error page do.
NavigatorTurn == (NavStep \/ RetryDue \/ TryAgain) /\ UNCHANGED inputVars

\* What the input thread, its clock and the user on the pad do.
InputTurn == (InputStep \/ User \/ Time) /\ UNCHANGED ownVars

\* What the page does by itself.
PageTurn == PageMoves /\ UNCHANGED inputVars

ThreadsNext == NavigatorTurn \/ InputTurn \/ PageTurn

ThreadsSpec == ThreadsInit /\ [][ThreadsNext]_threadsVars

-----------------------------------------------------------------------------
\* The two threads together behave as GamepadInput says, and as Navigator says: neither does to the
\* card, the menu, the reload flag or the document what the other does not expect of it.
InputIsServed == Spec
NavigatorIsServed == NavigatorSpec
=============================================================================
