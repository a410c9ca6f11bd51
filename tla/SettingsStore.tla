--------------------------- MODULE SettingsStore ---------------------------
(***************************************************************************)
(* What the settings of a session promise (config_store.hpp): a change     *)
(* shows at once; the file holds some earlier state of the settings as a   *)
(* whole, never a mixture; a save that succeeds brings all of it up to     *)
(* date; and a new session starts from what the file holds.                *)
(***************************************************************************)
CONSTANTS Keys, Settings

VARIABLES
    live,    \* the settings of the running session
    saved,   \* the settings in the file
    older    \* the ones before them, which a power cut may bring back

vars == <<live, saved, older>>

Init == live = saved /\ older = saved

\* The settings become others in one key.
Set == live' \in Settings /\ \E k \in Keys : \A j \in Keys \ {k} : live'[j] = live[j]

\* One key is given a value, and the file follows or does not.
Change ==
    /\ Set
    /\ \/ saved' = live' /\ older' = saved
       \/ UNCHANGED <<saved, older>>

NewSession == live' = saved /\ UNCHANGED <<saved, older>>

\* A session killed in the middle of a change: the file has it, or has not.
Interrupted == Set /\ saved' = live' /\ older' = saved

PowerCut == saved' \in {saved, older} /\ live' = saved' /\ older' = saved'

Next == Change \/ NewSession \/ Interrupted \/ PowerCut

Spec == Init /\ [][Next]_vars
=============================================================================
