------------------------------ MODULE Deployer ------------------------------
(***************************************************************************)
(* What the self-update thread promises the rest of the launcher (the      *)
(* comments of launcher/src/updater.hpp): consent is a latch, Update() is  *)
(* called only on consent given since the last call and not while a deploy *)
(* it knows of is under way, a consent given meanwhile changes nothing,    *)
(* and a verdict is told only of a deploy.  A deploy may be lost without a *)
(* verdict, when its monitor is; and one may stray: the call was refused   *)
(* (a verdict too) because only its answer was late, or an older deploy's  *)
(* verdict was taken for its own.                                          *)
(*                                                                         *)
(* Updater implements this; UpdatePrompt relies on no more than this.      *)
(***************************************************************************)
VARIABLES
    consent,    \* somebody asked for a deploy
    deploying,  \* "calling" Update(); "yes": accepted; "stray": one nobody waits for; "no"
    told        \* its verdict was told

deployerVars == <<consent, deploying, told>>

DeployerTypeOK ==
    consent \in BOOLEAN /\ deploying \in {"no", "calling", "yes", "stray"} /\ told \in BOOLEAN

DeployerInit == consent = FALSE /\ deploying = "no" /\ told = FALSE

Ask == consent' = TRUE /\ UNCHANGED <<deploying, told>>

Start ==
    /\ consent /\ consent' = FALSE
    /\ deploying \in {"no", "stray"} /\ deploying' = "calling"
    /\ told' = FALSE

Accept ==
    /\ deploying = "calling" /\ deploying' = "yes"
    /\ UNCHANGED <<consent, told>>

\* Consent while a deploy is under way is dropped.
Overtaken ==
    /\ consent /\ consent' = FALSE
    /\ deploying = "yes"
    /\ UNCHANGED <<deploying, told>>

\* The monitor is gone, and the deploy with it.
Lose ==
    /\ deploying # "no" /\ deploying' = "no"
    /\ UNCHANGED <<consent, told>>

Tell ==
    /\ deploying # "no" /\ deploying' \in {"no", "stray"}
    /\ told' = TRUE
    /\ UNCHANGED consent

DeployerNext == Ask \/ Start \/ Accept \/ Overtaken \/ Lose \/ Tell

DeployerSpec == DeployerInit /\ [][DeployerNext]_deployerVars
=============================================================================
