----------------------------- MODULE Onboarding -----------------------------
(***************************************************************************)
(* The first-run controls card (onboarding.cpp, PageOverlay): drawn by the *)
(* navigator's thread, hidden and health-checked by the input thread.      *)
(* cardUp is PageOverlay's belief (painted_), card of Page the truth.      *)
(***************************************************************************)
EXTENDS Page

VARIABLES
    cardUp,     \* painted_, hence visible()
    marked      \* the first-run marker is on disk

cardVars == <<cardUp, marked>>

CardOK == cardUp \in BOOLEAN /\ marked \in BOOLEAN

\* Any boot: the first one, or a later one.
CardInit == cardUp = FALSE /\ marked \in BOOLEAN

\* show(first_run_only): the state directory may be read-only.
Show ==
    IF marked \/ cardUp
    THEN UNCHANGED <<card, cardVars>>
    ELSE \E r \in Replies :
            /\ card' = (card \/ r # "unsent")
            /\ cardUp' = (r = "answered")
            /\ marked' \in (IF r = "answered" THEN BOOLEAN ELSE {marked})

\* hide(), of a card believed up.
Hide ==
    \E r \in Replies :
        /\ card' = (card /\ r = "unsent")
        /\ cardUp' = (r # "answered")
        /\ UNCHANGED marked

\* lost(), answered: the page took the card away.
CardGone == cardUp /\ ~card
=============================================================================
