----------------------------- MODULE CdpSession -----------------------------
(***************************************************************************)
(* The one WebSocket session every DevToolsClient handle shares            *)
(* (launcher/src/devtools.cpp, class CdpSession): callers on any thread    *)
(* issue requests, whichever caller finds the socket dead reconnects under *)
(* reconnect_mu_ and re-arms the sticky state, and a reader thread per     *)
(* socket demultiplexes the replies by CDP id.                             *)
(*                                                                         *)
(* A critical section of conn_mu_, send_mu_, pending_mu_ or sticky_mu_ is  *)
(* one action: none of them blocks inside.  reconnect_mu_ is held across   *)
(* blocking calls and is the variable "lock".  There is at most one open   *)
(* socket, so "sock" stands for fd_ and for the state of the stream behind *)
(* it.  The engine is external: it answers any request in flight, or none, *)
(* and may tear the page target down at any time; a Close or a frame that  *)
(* does not decode counts as that.                                         *)
(*                                                                         *)
(* on_frame() and fail_all_pending() take a slot out of pending_ under one *)
(* lock and mark it under another.  Each is one action: nobody but the     *)
(* slot's own waiter reads it in between, and the waiter finds it gone     *)
(* only by timing out, as it may just before.                              *)
(***************************************************************************)
EXTENDS Naturals, Sequences

CONSTANTS
    Callers,    \* threads that own a DevToolsClient handle
    Scripts,    \* sticky document-start scripts
    UA, Grant,  \* the two other sticky items
    Enable,     \* Page.enable, sent once per connection
    Call,       \* any request that is not sticky (evaluate, navigate, a key...)
    Ops,        \* the operations callers perform here: sticky items and Call
    NoOne,      \* no thread
    MaxOps,     \* bound: operations begun
    MaxSock     \* bound: connections made

Items == Scripts \cup {UA, Grant}
Methods == Items \cup {Enable, Call}

ASSUME CallersAssumption ==
    /\ NoOne \notin Callers /\ "waiting" \notin Callers /\ "dead" \notin Callers
    /\ Ops \subseteq Items \cup {Call}
ASSUME BoundsAssumption == MaxOps \in Nat /\ MaxSock \in Nat

VARIABLES
    sock,               \* fd_: "none" is -1; else "up", "cut" by our shutdown(), or
                        \* "gone", the engine's end closed
    armed, armer,       \* armed_ and arming_thread_
    reader,             \* reader_: "none" (not joinable), "loop", "closed", "exited"
    lock,               \* the holder of reconnect_mu_
    pending, nextId,    \* pending_ (the ids registered) and next_id_
    sticky,             \* which of sticky_ua_, sticky_scripts_, grant_* are set
    stage, todo,        \* where the re-arm is, and its copy of sticky_scripts_
    dtor,               \* "held" while a handle exists, then ~CdpSession
    pc, op, what,       \* per caller: its step, its operation, the method it requests,
    id, slot,           \* the id drawn, and its Pending: "waiting", "dead", or the
                        \* caller whose answer woke it
    flight,             \* requests sent on the socket and not answered yet
    wire, owed,         \* history of the socket: the methods sent on it in order, and
                        \* the sticky items stored when it was published
    ops, made           \* bounds: operations begun, connections made

armVars == <<armer, stage, todo>>
connVars == <<sock, armed, reader, flight, wire, owed, made>>
slotVars == <<pending, slot>>
callVars == <<op, what>>
idVars == <<nextId, id>>
vars == <<armVars, connVars, slotVars, callVars, idVars, lock, sticky, dtor, pc, ops>>

ReconnectSteps == {"join", "connect"}
RequestSteps == {"ensure", "register", "send", "wait", "drop", "failAll"}
Steps == {"idle", "lock", "arm"} \cup ReconnectSteps \cup RequestSteps

TypeOK ==
    /\ sock \in {"none", "up", "cut", "gone"} /\ armed \in BOOLEAN
    /\ armer \in Callers \cup {NoOne} /\ lock \in Callers \cup {NoOne}
    /\ reader \in {"none", "loop", "closed", "exited"}
    /\ pending \subseteq Nat /\ nextId \in Nat
    /\ sticky \subseteq Items
    /\ stage \in {"none", "enable", "ua", "scripts", "script", "end"}
    /\ todo \subseteq Scripts
    /\ dtor \in {"held", "stopping", "gone"}
    /\ pc \in [Callers -> Steps] /\ op \in [Callers -> Items \cup {Call}]
    /\ what \in [Callers -> Methods] /\ id \in [Callers -> Nat]
    /\ slot \in [Callers -> Callers \cup {"waiting", "dead"}]
    /\ flight \subseteq [id : Nat, from : Callers]
    /\ wire \in Seq(Methods) /\ owed \subseteq Items
    /\ ops \in Nat /\ made \in Nat

Init ==
    /\ sock = "none" /\ armed = FALSE /\ armer = NoOne /\ reader = "none" /\ lock = NoOne
    /\ pending = {} /\ nextId = 0
    /\ sticky = {} /\ stage = "none" /\ todo = {} /\ dtor = "held"
    /\ pc = [c \in Callers |-> "idle"] /\ op = [c \in Callers |-> Call]
    /\ what = [c \in Callers |-> Call] /\ id = [c \in Callers |-> 0]
    /\ slot = [c \in Callers |-> "waiting"]
    /\ flight = {} /\ wire = <<>> /\ owed = {}
    /\ ops = 0 /\ made = 0

-----------------------------------------------------------------------------
(* Requests.  Move(c, a, b) takes caller c from step a to step b.           *)

Move(c, from, to) == pc[c] = from /\ pc' = [pc EXCEPT ![c] = to]

Connected == sock # "none"

\* Where a finished request returns to: the re-arm that made it, or the caller.
Back(c) == IF armer = c THEN "arm" ELSE "idle"

\* A caller enters request(), or a sticky setter (set_user_agent, add_sticky_script,
\* set_grant), which stores its item before it makes the request that applies it.
Begin(c) == \E o \in Ops :
    /\ dtor = "held" /\ ops < MaxOps /\ ops' = ops + 1
    /\ Move(c, "idle", "ensure")
    /\ op' = [op EXCEPT ![c] = o] /\ what' = [what EXCEPT ![c] = o]
    /\ sticky' = sticky \cup ({o} \cap Items)
    /\ UNCHANGED <<armVars, connVars, slotVars, idVars, lock, dtor>>

\* The first critical section of ensure_connected(): the arming thread uses the
\* socket it published, or fails; another thread needs it armed, or reconnects.
Ensure(c) ==
    /\ Move(c, "ensure",
            IF armer = c THEN IF Connected THEN "register" ELSE "arm"
            ELSE IF Connected /\ armed THEN "register" ELSE "lock")
    /\ UNCHANGED <<armVars, connVars, slotVars, callVars, idVars, lock, sticky, dtor, ops>>

\* reconnect_mu_ is taken and the socket looked at again.
Lock(c) ==
    /\ lock = NoOne
    /\ Move(c, "lock", IF Connected /\ armed THEN "register" ELSE "join")
    /\ lock' = IF Connected /\ armed THEN NoOne ELSE c
    /\ UNCHANGED <<armVars, connVars, slotVars, callVars, idVars, sticky, dtor, ops>>

\* Mutant of Join: the old reader is detached instead.
Detach(c) ==
    /\ Move(c, "join", "connect")
    /\ reader' = "none"
    /\ UNCHANGED <<sock, armed, flight, wire, owed, made>>
    /\ UNCHANGED <<armVars, slotVars, callVars, idVars, lock, sticky, dtor, ops>>

\* join_reader(): blocks until the old reader has returned.
Join(c) ==
    /\ reader \in {"none", "exited"}
    /\ Move(c, "join", "connect")
    /\ reader' = "none"
    /\ UNCHANGED <<sock, armed, flight, wire, owed, made>>
    /\ UNCHANGED <<armVars, slotVars, callVars, idVars, lock, sticky, dtor, ops>>

\* No target, no TCP connection or no upgrade: the request fails.
Unreachable(c) ==
    /\ Move(c, "connect", "idle")
    /\ lock' = NoOne
    /\ UNCHANGED <<armVars, connVars, slotVars, callVars, idVars, sticky, dtor, ops>>

\* The upgraded socket is published, unarmed, and its reader started.
Publish(c) ==
    /\ made < MaxSock /\ made' = made + 1
    /\ Move(c, "connect", "arm")
    /\ sock' = "up" /\ armed' = FALSE /\ armer' = c /\ reader' = "loop" /\ stage' = "enable"
    /\ flight' = {} /\ wire' = <<>> /\ owed' = sticky
    /\ UNCHANGED <<todo, slotVars, callVars, idVars, lock, sticky, dtor, ops>>

\* Mutant of Register: an id drawn twice.
RegisterSameId(c) ==
    /\ Move(c, "register", "send")
    /\ id' = [id EXCEPT ![c] = nextId + 1]
    /\ pending' = pending \cup {nextId + 1}
    /\ slot' = [slot EXCEPT ![c] = "waiting"]
    /\ UNCHANGED <<nextId, armVars, connVars, callVars, lock, sticky, dtor, ops>>

\* request(): an id is drawn and its slot registered before anything is sent.
Register(c) ==
    /\ Move(c, "register", "send")
    /\ nextId' = nextId + 1
    /\ id' = [id EXCEPT ![c] = nextId + 1]
    /\ pending' = pending \cup {nextId + 1}
    /\ slot' = [slot EXCEPT ![c] = "waiting"]
    /\ UNCHANGED <<armVars, connVars, callVars, lock, sticky, dtor, ops>>

\* send_text() writes to whatever fd_ is now: it tests fd_ >= 0 only.  A socket
\* whose other end is gone may still accept the bytes.
Send(c) ==
    /\ sock \in {"up", "gone"}
    /\ Move(c, "send", "wait")
    /\ flight' = flight \cup {[id |-> id[c], from |-> c]}
    /\ wire' = Append(wire, what[c])
    /\ UNCHANGED <<sock, armed, reader, owed, made>>
    /\ UNCHANGED <<armVars, slotVars, callVars, idVars, lock, sticky, dtor, ops>>

\* The slot is forgotten, then drop_connection() follows.
GiveUp(c, from) ==
    /\ Move(c, from, "drop")
    /\ pending' = pending \ {id[c]}
    /\ UNCHANGED <<armVars, connVars, slot, callVars, idVars, lock, sticky, dtor, ops>>

\* The write is refused.
SendFails(c) == sock # "up" /\ GiveUp(c, "send")

\* kRequestTimeoutMs passes without an answer: the peer is taken for dead.
Timeout(c) == slot[c] = "waiting" /\ GiveUp(c, "wait")

\* The wait ends with an answer, or with the socket's death.
Answered(c) ==
    /\ slot[c] # "waiting"
    /\ Move(c, "wait", Back(c))
    /\ pending' = pending \ {id[c]}
    /\ UNCHANGED <<armVars, connVars, slot, callVars, idVars, lock, sticky, dtor, ops>>

\* shutdown_locked() of whatever socket is current now.
ShutDown ==
    /\ sock' = IF sock = "up" THEN "cut" ELSE sock
    /\ UNCHANGED <<armed, reader, flight, wire, owed, made>>

\* fail_all_pending().
FailPending ==
    /\ slot' = [c \in Callers |-> IF id[c] \in pending THEN "dead" ELSE slot[c]]
    /\ pending' = {}

\* drop_connection(), its two critical sections.
Drop(c) ==
    /\ Move(c, "drop", "failAll")
    /\ ShutDown
    /\ UNCHANGED <<armVars, slotVars, callVars, idVars, lock, sticky, dtor, ops>>

FailAll(c) ==
    /\ Move(c, "failAll", Back(c))
    /\ FailPending
    /\ UNCHANGED <<armVars, connVars, callVars, idVars, lock, sticky, dtor, ops>>

-----------------------------------------------------------------------------
(* The re-arm of a fresh socket, by the thread that published it.           *)

\* One request of the re-arm, or none; its outcome is ignored.
ArmRequest(c, m) == Move(c, "arm", "ensure") /\ what' = [what EXCEPT ![c] = m]
ArmSkip(c) == pc[c] = "arm" /\ UNCHANGED <<pc, what>>
ArmFrame == UNCHANGED <<armer, connVars, slotVars, op, idVars, lock, sticky, dtor, ops>>

ArmEnable(c) ==
    /\ stage = "enable" /\ stage' = "ua"
    /\ ArmRequest(c, Enable)
    /\ UNCHANGED todo /\ ArmFrame

ArmUserAgent(c) ==
    /\ stage = "ua" /\ stage' = "scripts"
    /\ IF UA \in sticky THEN ArmRequest(c, UA) ELSE ArmSkip(c)
    /\ UNCHANGED todo /\ ArmFrame

\* Mutant of ArmCopyScripts: the re-arm forgets the scripts.
ArmCopyNoScripts(c) ==
    /\ stage = "scripts" /\ stage' = "script"
    /\ ArmSkip(c)
    /\ todo' = {}
    /\ ArmFrame

\* The scripts are copied under sticky_mu_, then installed one by one.
ArmCopyScripts(c) ==
    /\ stage = "scripts" /\ stage' = "script"
    /\ ArmSkip(c)
    /\ todo' = sticky \cap Scripts
    /\ ArmFrame

ArmScript(c) == \E s \in todo :
    /\ stage = "script" /\ UNCHANGED stage
    /\ ArmRequest(c, s)
    /\ todo' = todo \ {s}
    /\ ArmFrame

ArmGrant(c) ==
    /\ stage = "script" /\ todo = {} /\ stage' = "end"
    /\ IF Grant \in sticky THEN ArmRequest(c, Grant) ELSE ArmSkip(c)
    /\ UNCHANGED todo /\ ArmFrame

\* armed_ is set even if the socket died under the re-arm: fd_ is then -1.
ArmDone(c) ==
    /\ stage = "end" /\ stage' = "none"
    /\ Move(c, "arm", IF Connected THEN "register" ELSE "idle")
    /\ armer' = NoOne /\ armed' = TRUE /\ lock' = NoOne
    /\ what' = [what EXCEPT ![c] = op[c]]
    /\ UNCHANGED <<sock, reader, flight, wire, owed, made>>
    /\ UNCHANGED <<todo, slotVars, op, idVars, sticky, dtor, ops>>

-----------------------------------------------------------------------------
(* The reader thread, the engine and the destructor.                        *)

\* on_frame(): a reply wakes the slot registered under its id; one that nobody
\* waits for any more is ignored.
Deliver(r) ==
    /\ reader = "loop"
    /\ flight' = flight \ {r}
    /\ slot' = [c \in Callers |-> IF id[c] = r.id /\ r.id \in pending THEN r.from ELSE slot[c]]
    /\ UNCHANGED <<sock, armed, reader, wire, owed, made>>
    /\ UNCHANGED <<armVars, pending, callVars, idVars, lock, sticky, dtor, pc, ops>>

\* read_loop() sees the end of the stream and closes the socket.
ReaderCloses ==
    /\ reader = "loop" /\ sock \in {"cut", "gone"}
    /\ reader' = "closed" /\ sock' = "none" /\ armed' = FALSE
    /\ flight' = {} /\ wire' = <<>> /\ owed' = {}
    /\ UNCHANGED <<made, armVars, slotVars, callVars, idVars, lock, sticky, dtor, pc, ops>>

\* Mutant of ReaderExits: what is in flight is left to its timeout.
ReaderExitsSilently ==
    /\ reader = "closed" /\ reader' = "exited"
    /\ UNCHANGED <<sock, armed, flight, wire, owed, made, slotVars>>
    /\ UNCHANGED <<armVars, callVars, idVars, lock, sticky, dtor, pc, ops>>

\* The reader's last act: everything in flight fails now, not at its timeout.
ReaderExits ==
    /\ reader = "closed" /\ reader' = "exited"
    /\ FailPending
    /\ UNCHANGED <<sock, armed, flight, wire, owed, made>>
    /\ UNCHANGED <<armVars, callVars, idVars, lock, sticky, dtor, pc, ops>>

\* Leanback tears the page target down, or the engine exits.
TargetGone ==
    /\ sock = "up" /\ sock' = "gone"
    /\ UNCHANGED <<armed, reader, flight, wire, owed, made>>
    /\ UNCHANGED <<armVars, slotVars, callVars, idVars, lock, sticky, dtor, pc, ops>>

\* Mutant of LastHandle: the destructor joins without shutting the socket down.
LastHandleNoShutdown ==
    /\ dtor = "held" /\ \A c \in Callers : pc[c] = "idle"
    /\ dtor' = "stopping"
    /\ UNCHANGED <<connVars, armVars, slotVars, callVars, idVars, lock, sticky, pc, ops>>

\* ~CdpSession runs when the last handle is dropped, so no caller is inside.
LastHandle ==
    /\ dtor = "held" /\ \A c \in Callers : pc[c] = "idle"
    /\ dtor' = "stopping"
    /\ ShutDown
    /\ UNCHANGED <<armVars, slotVars, callVars, idVars, lock, sticky, pc, ops>>

DtorJoins ==
    /\ dtor = "stopping" /\ lock = NoOne /\ reader \in {"none", "exited"}
    /\ dtor' = "gone" /\ reader' = "none"
    /\ UNCHANGED <<sock, armed, flight, wire, owed, made>>
    /\ UNCHANGED <<armVars, slotVars, callVars, idVars, lock, sticky, pc, ops>>

-----------------------------------------------------------------------------
Rearm(c) ==
    \/ ArmEnable(c) \/ ArmUserAgent(c) \/ ArmCopyScripts(c)
    \/ ArmScript(c) \/ ArmGrant(c) \/ ArmDone(c)

Request(c) ==
    \/ Ensure(c) \/ Register(c) \/ Send(c) \/ SendFails(c)
    \/ Answered(c) \/ Timeout(c) \/ Drop(c) \/ FailAll(c)

CallerStep(c) == Join(c) \/ Unreachable(c) \/ Publish(c) \/ Rearm(c) \/ Request(c)

\* A destroyed session has nothing left to do.
Destroyed == dtor = "gone" /\ UNCHANGED vars

Next ==
    \/ \E c \in Callers : Begin(c) \/ Lock(c) \/ CallerStep(c)
    \/ \E r \in flight : Deliver(r)
    \/ ReaderCloses \/ ReaderExits \/ TargetGone
    \/ LastHandle \/ DtorJoins \/ Destroyed

Spec == Init /\ [][Next]_vars

\* A thread inside a request runs on and its timers fire; a thread queued for
\* reconnect_mu_ gets it in the end, as holders sleep between their calls; the
\* reader is woken by what happens to its socket.  Nothing is asked of the engine.
Fairness ==
    /\ \A c \in Callers : WF_vars(CallerStep(c)) /\ SF_vars(Lock(c))
    /\ WF_vars(ReaderCloses) /\ WF_vars(ReaderExits) /\ WF_vars(DtorJoins)

FairSpec == Spec /\ Fairness

-----------------------------------------------------------------------------
SentWhat == {wire[n] : n \in DOMAIN wire}

\* A reconnect joins the old reader only once that reader has let go of its
\* socket, so the join waits for a thread that is on its way out, never for a
\* live stream (devtools.cpp, the comment on join_reader in ensure_connected).
JoinNeverBlocks ==
    \A c \in Callers : pc[c] \in ReconnectSteps => ~Connected /\ reader # "loop"

\* A request still waiting is registered, and was sent on the socket that is
\* current or that the reader has just closed, about to fail everything in
\* flight: none is left to its timeout by a socket closed behind it.
NoOrphanedWait == \A c \in Callers :
    pc[c] = "wait" /\ slot[c] = "waiting" =>
        id[c] \in pending /\ (reader = "closed" \/ [id |-> id[c], from |-> c] \in flight)

\* A waiting caller is woken by the answer to its own request or by the death of
\* the socket, never by an answer to somebody else's (on_frame, next_id_).
AnswerIsOwn == \A c \in Callers : pc[c] = "wait" => slot[c] \in {c, "waiting", "dead"}

\* armed_ on a usable socket means what its comment says: every sticky item
\* stored before the socket was published has been sent on that socket.
ArmedMeansReapplied == armed /\ sock = "up" => owed \subseteq SentWhat

\* No plain request (a navigation) is sent to a fresh, live target ahead of a
\* user agent stored before the connection (the comment above reconnect_mu_ in
\* ensure_connected; docs/HOW-IT-WORKS.md on the CDP client).
UserAgentFirst == UA \in owed /\ sock = "up" => \A n \in DOMAIN wire :
    wire[n] = Call => \E m \in 1 .. n - 1 : wire[m] = UA

\* The session as the threads see it: the state of the link, and of their requests.
Link == IF ~Connected THEN "down" ELSE IF armed THEN "ready" ELSE "arming"
AskOf(c) ==
    CASE pc[c] = "send" -> IF slot[c] = "waiting" THEN "asked" ELSE "lost"
      [] pc[c] = "wait" -> (CASE slot[c] = "waiting" -> "flying"
                              [] slot[c] = "dead" -> "lost"
                              [] OTHER -> "won")
      [] pc[c] \in {"drop", "failAll"} -> "lost"
      [] OTHER -> "idle"
Ask == [c \in Callers |-> AskOf(c)]

Promise == INSTANCE CdpPromise WITH link <- Link, ask <- Ask

\* The session keeps that promise: in particular a reconnect never publishes a
\* socket while a request sent on the old one is still waiting (read_loop,
\* join_reader, fail_all_pending).
KeepsPromise == Promise!Spec

\* Every operation returns, and so does the destructor, whatever the engine does:
\* each is again and again out of its call.
CallsReturn ==
    /\ \A c \in Callers : []<>(pc[c] = "idle")
    /\ []<>(dtor # "stopping")
=============================================================================
