----------------------------- MODULE CdpPromise -----------------------------
(***************************************************************************)
(* What CdpSession promises the threads that share it, whatever sockets,   *)
(* readers and reconnects it takes: a request is carried by at most one    *)
(* link, it succeeds only while the link that carried it is up, and no     *)
(* request is carried over from one link to the next.                      *)
(***************************************************************************)
CONSTANT Callers

VARIABLES
    link,   \* "down", "arming" or "ready"
    ask     \* per caller: "idle", "asked", "flying", "won" or "lost"

vars == <<link, ask>>

Init == link = "down" /\ ask = [c \in Callers |-> "idle"]

\* A request can be lost even after it was won, until its thread has woken.
Losable == {c \in Callers : ask[c] \in {"asked", "flying", "won"}}

Set(c, from, to) == ask[c] = from /\ ask' = [ask EXCEPT ![c] = to]

Ask(c) == Set(c, "idle", "asked") /\ UNCHANGED link
Fly(c) == link # "down" /\ Set(c, "asked", "flying") /\ UNCHANGED link
Win(c) == link # "down" /\ Set(c, "flying", "won") /\ UNCHANGED link
Settle(c) == Set(c, "won", "idle") /\ UNCHANGED link

\* Any number of requests may be lost at once, also by a thread that goes on from
\* a loss of its own.
Lose ==
    /\ ask' \in [Callers -> {"idle", "asked", "flying", "won", "lost"}]
    /\ \A c \in Callers : \/ ask'[c] = ask[c]
                          \/ c \in Losable /\ ask'[c] = "lost"
                          \/ ask[c] = "lost" /\ ask'[c] = "idle"
    /\ UNCHANGED link

\* A new link comes up only when nothing carried by the old one is in flight.
LinkUp ==
    /\ link = "down" /\ link' = "arming"
    /\ \A c \in Callers : ask[c] # "flying"
    /\ UNCHANGED ask

LinkReady == link = "arming" /\ link' = "ready" /\ UNCHANGED ask
LinkDown == link # "down" /\ link' = "down" /\ UNCHANGED ask

Next ==
    \/ \E c \in Callers : Ask(c) \/ Fly(c) \/ Win(c) \/ Settle(c)
    \/ Lose \/ LinkUp \/ LinkReady \/ LinkDown

Spec == Init /\ [][Next]_vars
=============================================================================
