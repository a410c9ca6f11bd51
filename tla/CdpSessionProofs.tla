-------------------------- MODULE CdpSessionProofs --------------------------
(***************************************************************************)
(* Proofs about CdpSession: its invariants, and that it implements         *)
(* CdpPromise, for any number of threads, scripts and connections.         *)
(*                                                                         *)
(* The inductive invariant comes in three layers, each inductive relative  *)
(* to the ones before it: who holds reconnect_mu_ and what that excludes   *)
(* (LockInv), which ids are whose (RequestInv), and how far the re-arm of  *)
(* the current socket has got (ArmInv).                                    *)
(***************************************************************************)
EXTENDS CdpSession, TLAPS

\* The lock is held by exactly the thread that reconnects or re-arms, a socket has
\* a reader as long as it is open, and one that is not armed is being armed.
LockInv ==
    /\ \A c \in Callers :
        /\ pc[c] \in ReconnectSteps => lock = c /\ ~Connected
        /\ pc[c] = "connect" => reader = "none"
        /\ pc[c] = "arm" => armer = c
        /\ armer = c => lock = c /\ pc[c] \in {"arm"} \cup RequestSteps
    /\ Connected <=> reader = "loop"
    /\ Connected /\ ~armed => armer # NoOne

Active(c) == pc[c] \in {"send", "wait"}

\* Ids are drawn once: those in use differ, and what is in flight is older than the
\* next one.  Whoever waits is registered, and in flight until the reader closes.
RequestInv ==
    /\ \A c \in Callers : id[c] <= nextId
    /\ \A r \in flight : r.id <= nextId
    /\ \A c, d \in Callers : Active(c) /\ Active(d) /\ id[c] = id[d] => c = d
    /\ \A r \in flight, c \in Callers :
        Active(c) /\ r.id = id[c] => pc[c] = "wait" /\ r.from = c
    /\ \A c \in Callers : Active(c) =>
        /\ slot[c] = "waiting" => id[c] \in pending
        /\ slot[c] = "dead" => id[c] \notin pending
        /\ slot[c] \in {c, "waiting", "dead"}
    /\ \A c \in Callers : pc[c] = "send" => slot[c] # c
    /\ \A c \in Callers : pc[c] = "wait" /\ slot[c] = "waiting" =>
        reader = "closed" \/ [id |-> id[c], from |-> c] \in flight
    /\ reader # "loop" => flight = {}

\* What the re-arm by c has still to send: by stage, and the request it is making.
ToCome == CASE stage \in {"enable", "ua"} -> Items
            [] stage = "scripts" -> Scripts \cup {Grant}
            [] stage = "script" -> todo \cup {Grant}
            [] OTHER -> {}
OnItsWay(c) == IF pc[c] \in {"ensure", "register", "send"} THEN {what[c]} ELSE {}

\* A live socket was sent what it is owed, or the thread that arms it is about to.
ArmInv ==
    /\ owed \subseteq sticky
    /\ armed /\ sock = "up" => owed \subseteq SentWhat
    /\ \A c \in Callers : armer = c /\ sock = "up" =>
        owed \subseteq SentWhat \cup ToCome \cup OnItsWay(c)
-----------------------------------------------------------------------------
\* A step of Next, by the action taken: what every proof below splits on.
LEMMA StepOfNext ==
    ASSUME Next
    PROVE  \/ \E c \in Callers :
                \/ Begin(c) \/ Ensure(c) \/ Lock(c) \/ Join(c) \/ Unreachable(c) \/ Publish(c)
                \/ Register(c) \/ Send(c) \/ SendFails(c) \/ Answered(c) \/ Timeout(c)
                \/ Drop(c) \/ FailAll(c)
                \/ ArmEnable(c) \/ ArmUserAgent(c) \/ ArmCopyScripts(c)
                \/ ArmScript(c) \/ ArmGrant(c) \/ ArmDone(c)
           \/ \E r \in flight : Deliver(r)
           \/ ReaderCloses \/ ReaderExits \/ TargetGone \/ LastHandle \/ DtorJoins
           \/ UNCHANGED vars
BY DEF Next, CallerStep, Rearm, Request, Destroyed

USE DEF connVars, armVars, slotVars, callVars, idVars, ArmFrame, ReconnectSteps, RequestSteps

\* SMT is weak on Boolean variables, so the type of armed_ is kept apart.
DataOK ==
    /\ sock \in {"none", "up", "cut", "gone"}
    /\ armer \in Callers \cup {NoOne} /\ lock \in Callers \cup {NoOne}
    /\ reader \in {"none", "loop", "closed", "exited"}
    /\ pending \subseteq Nat /\ nextId \in Nat
    /\ sticky \subseteq Items
    /\ stage \in {"none", "enable", "ua", "scripts", "script", "end"}
    /\ todo \subseteq Scripts
    /\ dtor \in {"held", "stopping", "gone"}
    /\ pc \in [Callers -> Steps] /\ op \in [Callers -> Items \cup {Call}]
    /\ what \in [Callers -> Methods] /\ id \in [Callers -> Nat]
    /\ slot \in [Callers -> Callers \cup {"waiting", "dead"}]
    /\ flight \subseteq [id : Nat, from : Callers]
    /\ wire \in Seq(Methods) /\ owed \subseteq Items
    /\ ops \in Nat /\ made \in Nat

LEMMA Typing == TypeOK <=> DataOK /\ armed \in BOOLEAN
BY Zenon DEF TypeOK, DataOK

LEMMA ArmedStep == ASSUME Next, armed \in BOOLEAN PROVE armed' \in BOOLEAN
<1>1. armed' = armed \/ armed' = TRUE \/ armed' = FALSE
  <2>1. ASSUME NEW c \in Callers,
               \/ Begin(c) \/ Ensure(c) \/ Lock(c) \/ Join(c) \/ Unreachable(c) \/ Publish(c)
               \/ Register(c) \/ Send(c) \/ SendFails(c) \/ Answered(c) \/ Timeout(c)
               \/ Drop(c) \/ FailAll(c)
               \/ ArmEnable(c) \/ ArmUserAgent(c) \/ ArmCopyScripts(c)
               \/ ArmScript(c) \/ ArmGrant(c) \/ ArmDone(c)
        PROVE  armed' = armed \/ armed' = TRUE \/ armed' = FALSE
    BY <2>1, Zenon DEF Begin, Ensure, Lock, Join, Unreachable, Publish, Register, Send, SendFails,
       Answered, Timeout, GiveUp, Drop, ShutDown, FailAll, ArmEnable, ArmUserAgent, ArmCopyScripts,
       ArmScript, ArmGrant, ArmDone
  <2>2. CASE \/ \E r \in flight : Deliver(r)
             \/ ReaderCloses \/ ReaderExits \/ TargetGone \/ LastHandle \/ DtorJoins
             \/ UNCHANGED vars
    BY <2>2, Zenon DEF Deliver, ReaderCloses, ReaderExits, TargetGone, LastHandle, ShutDown, DtorJoins,
       vars
  <2> QED
    BY StepOfNext, <2>1, <2>2, Zenon
<1> QED
  BY <1>1, Zenon

LEMMA TypeInit == Init => TypeOK
<1>1. Init => DataOK
  BY DEF Init, DataOK, Steps, Items, Methods
<1> QED
  BY <1>1, Typing, Zenon DEF Init

LEMMA DataStep == ASSUME DataOK, [Next]_vars PROVE DataOK'
<1> USE CallersAssumption DEF DataOK, Move, Items, Methods, Steps
<1>1. ASSUME NEW c \in Callers, Begin(c) PROVE DataOK'
  BY <1>1 DEF Begin
<1>2. ASSUME NEW c \in Callers, Ensure(c) PROVE DataOK'
  BY <1>2 DEF Ensure
<1>3. ASSUME NEW c \in Callers, Lock(c) PROVE DataOK'
  BY <1>3 DEF Lock
<1>4. ASSUME NEW c \in Callers, Join(c) PROVE DataOK'
  BY <1>4 DEF Join
<1>5. ASSUME NEW c \in Callers, Unreachable(c) PROVE DataOK'
  BY <1>5 DEF Unreachable
<1>6. ASSUME NEW c \in Callers, Publish(c) PROVE DataOK'
  BY <1>6 DEF Publish
<1>7. ASSUME NEW c \in Callers, Register(c) PROVE DataOK'
  BY <1>7 DEF Register
<1>8. ASSUME NEW c \in Callers, Send(c) PROVE DataOK'
  BY <1>8 DEF Send
<1>9. ASSUME NEW c \in Callers, SendFails(c) PROVE DataOK'
  BY <1>9 DEF SendFails, GiveUp
<1>10. ASSUME NEW c \in Callers, Answered(c) PROVE DataOK'
  BY <1>10 DEF Answered, Back
<1>11. ASSUME NEW c \in Callers, Timeout(c) PROVE DataOK'
  BY <1>11 DEF Timeout, GiveUp
<1>12. ASSUME NEW c \in Callers, Drop(c) PROVE DataOK'
  BY <1>12 DEF Drop, ShutDown
<1>13. ASSUME NEW c \in Callers, FailAll(c) PROVE DataOK'
  BY <1>13 DEF FailAll, FailPending, Back
<1>14. ASSUME NEW c \in Callers, ArmEnable(c) PROVE DataOK'
  BY <1>14 DEF ArmEnable, ArmRequest
<1>15. ASSUME NEW c \in Callers, ArmUserAgent(c) PROVE DataOK'
  BY <1>15 DEF ArmUserAgent, ArmRequest, ArmSkip
<1>16. ASSUME NEW c \in Callers, ArmCopyScripts(c) PROVE DataOK'
  BY <1>16 DEF ArmCopyScripts, ArmSkip
<1>17. ASSUME NEW c \in Callers, ArmScript(c) PROVE DataOK'
  BY <1>17 DEF ArmScript, ArmRequest
<1>18. ASSUME NEW c \in Callers, ArmGrant(c) PROVE DataOK'
  BY <1>18 DEF ArmGrant, ArmRequest, ArmSkip
<1>19. ASSUME NEW c \in Callers, ArmDone(c) PROVE DataOK'
  BY <1>19 DEF ArmDone
<1>20. ASSUME NEW r \in flight, Deliver(r) PROVE DataOK'
  BY <1>20 DEF Deliver
<1>21. CASE ReaderCloses
  BY <1>21 DEF ReaderCloses
<1>22. CASE ReaderExits
  BY <1>22 DEF ReaderExits, FailPending
<1>23. CASE TargetGone
  BY <1>23 DEF TargetGone
<1>24. CASE LastHandle
  BY <1>24 DEF LastHandle, ShutDown
<1>25. CASE DtorJoins
  BY <1>25 DEF DtorJoins
<1>26. CASE UNCHANGED vars
  BY <1>26 DEF vars
<1> QED
  BY StepOfNext, <1>1, <1>2, <1>3, <1>4, <1>5, <1>6, <1>7, <1>8, <1>9, <1>10, <1>11, <1>12,
     <1>13, <1>14, <1>15, <1>16, <1>17, <1>18, <1>19, <1>20, <1>21, <1>22, <1>23, <1>24,
     <1>25, <1>26

LEMMA TypeStep == ASSUME TypeOK, [Next]_vars PROVE TypeOK'
<1>1. armed' \in BOOLEAN
  BY ArmedStep, Typing, Zenon DEF vars
<1>2. DataOK'
  BY DataStep, Typing, Zenon
<1> QED
  BY <1>1, <1>2, Zenon DEF TypeOK, DataOK

\* The fields keep their types (the variables' comments in CdpSession).
THEOREM TypeCorrect == Spec => []TypeOK
BY TypeInit, TypeStep, PTL DEF Spec

-----------------------------------------------------------------------------
LEMMA LockInit == Init => LockInv
BY CallersAssumption DEF Init, LockInv, Connected

LEMMA LockStep == ASSUME TypeOK, LockInv, [Next]_vars PROVE LockInv'
<1> USE CallersAssumption DEF DataOK, LockInv, Connected, Move, Steps
<1> DataOK
  BY Typing
<1>1. ASSUME NEW c \in Callers, Begin(c) PROVE LockInv'
  BY <1>1 DEF Begin
<1>2. ASSUME NEW c \in Callers, Ensure(c) PROVE LockInv'
  BY <1>2 DEF Ensure
<1>3. ASSUME NEW c \in Callers, Lock(c) PROVE LockInv'
  BY <1>3 DEF Lock
<1>4. ASSUME NEW c \in Callers, Join(c) PROVE LockInv'
  BY <1>4 DEF Join
<1>5. ASSUME NEW c \in Callers, Unreachable(c) PROVE LockInv'
  BY <1>5 DEF Unreachable
<1>6. ASSUME NEW c \in Callers, Publish(c) PROVE LockInv'
  BY <1>6 DEF Publish
<1>7. ASSUME NEW c \in Callers, Register(c) PROVE LockInv'
  BY <1>7 DEF Register
<1>8. ASSUME NEW c \in Callers, Send(c) PROVE LockInv'
  BY <1>8 DEF Send
<1>9. ASSUME NEW c \in Callers, SendFails(c) PROVE LockInv'
  BY <1>9 DEF SendFails, GiveUp
<1>10. ASSUME NEW c \in Callers, Answered(c) PROVE LockInv'
  BY <1>10 DEF Answered, Back
<1>11. ASSUME NEW c \in Callers, Timeout(c) PROVE LockInv'
  BY <1>11 DEF Timeout, GiveUp
<1>12. ASSUME NEW c \in Callers, Drop(c) PROVE LockInv'
  BY <1>12 DEF Drop, ShutDown
<1>13. ASSUME NEW c \in Callers, FailAll(c) PROVE LockInv'
  BY <1>13 DEF FailAll, FailPending, Back
<1>14. ASSUME NEW c \in Callers, ArmEnable(c) PROVE LockInv'
  BY <1>14 DEF ArmEnable, ArmRequest
<1>15. ASSUME NEW c \in Callers, ArmUserAgent(c) PROVE LockInv'
  BY <1>15 DEF ArmUserAgent, ArmRequest, ArmSkip
<1>16. ASSUME NEW c \in Callers, ArmCopyScripts(c) PROVE LockInv'
  BY <1>16 DEF ArmCopyScripts, ArmSkip
<1>17. ASSUME NEW c \in Callers, ArmScript(c) PROVE LockInv'
  BY <1>17 DEF ArmScript, ArmRequest
<1>18. ASSUME NEW c \in Callers, ArmGrant(c) PROVE LockInv'
  BY <1>18 DEF ArmGrant, ArmRequest, ArmSkip
<1>19. ASSUME NEW c \in Callers, ArmDone(c) PROVE LockInv'
  BY <1>19 DEF ArmDone
<1>20. ASSUME NEW r \in flight, Deliver(r) PROVE LockInv'
  BY <1>20 DEF Deliver
<1>21. CASE ReaderCloses
  BY <1>21 DEF ReaderCloses
<1>22. CASE ReaderExits
  BY <1>22 DEF ReaderExits, FailPending
<1>23. CASE TargetGone
  BY <1>23 DEF TargetGone
<1>24. CASE LastHandle
  BY <1>24 DEF LastHandle, ShutDown
<1>25. CASE DtorJoins
  BY <1>25 DEF DtorJoins
<1>26. CASE UNCHANGED vars
  BY <1>26 DEF vars
<1> QED
  BY StepOfNext, <1>1, <1>2, <1>3, <1>4, <1>5, <1>6, <1>7, <1>8, <1>9, <1>10, <1>11, <1>12,
     <1>13, <1>14, <1>15, <1>16, <1>17, <1>18, <1>19, <1>20, <1>21, <1>22, <1>23, <1>24,
     <1>25, <1>26

LEMMA RequestInit == Init => RequestInv
BY CallersAssumption DEF Init, RequestInv, Active

LEMMA RequestStep == ASSUME TypeOK, LockInv, RequestInv, [Next]_vars PROVE RequestInv'
<1> USE CallersAssumption DEF DataOK, LockInv, RequestInv, Active, Connected, Move, Steps
<1> DataOK
  BY Typing
<1>1. ASSUME NEW c \in Callers, Begin(c) PROVE RequestInv'
  BY <1>1 DEF Begin
<1>2. ASSUME NEW c \in Callers, Ensure(c) PROVE RequestInv'
  BY <1>2 DEF Ensure
<1>3. ASSUME NEW c \in Callers, Lock(c) PROVE RequestInv'
  BY <1>3 DEF Lock
<1>4. ASSUME NEW c \in Callers, Join(c) PROVE RequestInv'
  BY <1>4 DEF Join
<1>5. ASSUME NEW c \in Callers, Unreachable(c) PROVE RequestInv'
  BY <1>5 DEF Unreachable
<1>6. ASSUME NEW c \in Callers, Publish(c) PROVE RequestInv'
  <2>1. flight = {} /\ \A d \in Callers : ~(pc[d] = "wait" /\ slot[d] = "waiting")
    BY <1>6 DEF Publish
  <2>2. \A d \in Callers : pc'[d] = IF d = c THEN "arm" ELSE pc[d]
    BY <1>6 DEF Publish
  <2> QED
    BY <1>6, <2>1, <2>2 DEF Publish
<1>7. ASSUME NEW c \in Callers, Register(c) PROVE RequestInv'
  BY <1>7 DEF Register
<1>8. ASSUME NEW c \in Callers, Send(c) PROVE RequestInv'
  BY <1>8 DEF Send
<1>9. ASSUME NEW c \in Callers, SendFails(c) PROVE RequestInv'
  BY <1>9 DEF SendFails, GiveUp
<1>10. ASSUME NEW c \in Callers, Answered(c) PROVE RequestInv'
  BY <1>10 DEF Answered, Back
<1>11. ASSUME NEW c \in Callers, Timeout(c) PROVE RequestInv'
  BY <1>11 DEF Timeout, GiveUp
<1>12. ASSUME NEW c \in Callers, Drop(c) PROVE RequestInv'
  BY <1>12 DEF Drop, ShutDown
<1>13. ASSUME NEW c \in Callers, FailAll(c) PROVE RequestInv'
  BY <1>13 DEF FailAll, FailPending, Back
<1>14. ASSUME NEW c \in Callers, ArmEnable(c) PROVE RequestInv'
  BY <1>14 DEF ArmEnable, ArmRequest
<1>15. ASSUME NEW c \in Callers, ArmUserAgent(c) PROVE RequestInv'
  BY <1>15 DEF ArmUserAgent, ArmRequest, ArmSkip
<1>16. ASSUME NEW c \in Callers, ArmCopyScripts(c) PROVE RequestInv'
  BY <1>16 DEF ArmCopyScripts, ArmSkip
<1>17. ASSUME NEW c \in Callers, ArmScript(c) PROVE RequestInv'
  BY <1>17 DEF ArmScript, ArmRequest
<1>18. ASSUME NEW c \in Callers, ArmGrant(c) PROVE RequestInv'
  BY <1>18 DEF ArmGrant, ArmRequest, ArmSkip
<1>19. ASSUME NEW c \in Callers, ArmDone(c) PROVE RequestInv'
  BY <1>19 DEF ArmDone
<1>20. ASSUME NEW r \in flight, Deliver(r) PROVE RequestInv'
  BY <1>20 DEF Deliver
<1>21. CASE ReaderCloses
  BY <1>21 DEF ReaderCloses
<1>22. CASE ReaderExits
  BY <1>22 DEF ReaderExits, FailPending
<1>23. CASE TargetGone
  BY <1>23 DEF TargetGone
<1>24. CASE LastHandle
  BY <1>24 DEF LastHandle, ShutDown
<1>25. CASE DtorJoins
  BY <1>25 DEF DtorJoins
<1>26. CASE UNCHANGED vars
  BY <1>26 DEF vars
<1> QED
  BY StepOfNext, <1>1, <1>2, <1>3, <1>4, <1>5, <1>6, <1>7, <1>8, <1>9, <1>10, <1>11, <1>12,
     <1>13, <1>14, <1>15, <1>16, <1>17, <1>18, <1>19, <1>20, <1>21, <1>22, <1>23, <1>24,
     <1>25, <1>26

-----------------------------------------------------------------------------
LEMMA ArmInit == Init => ArmInv
BY CallersAssumption DEF Init, ArmInv

\* What has been sent stays sent while the socket lives.
LEMMA SentGrows ==
    ASSUME DataOK, NEW c \in Callers, wire' = Append(wire, what[c])
    PROVE  SentWhat' = SentWhat \cup {what[c]}
<1>1. what[c] \in Methods /\ wire \in Seq(Methods)
  BY DEF DataOK
<1>2. /\ DOMAIN wire = 1 .. Len(wire) /\ DOMAIN wire' = 1 .. Len(wire) + 1
      /\ Len(wire) \in Nat
      /\ \A n \in 1 .. Len(wire) : wire'[n] = wire[n]
      /\ wire'[Len(wire) + 1] = what[c]
  BY <1>1
<1>3. 1 .. Len(wire) + 1 = 1 .. Len(wire) \cup {Len(wire) + 1}
  BY <1>2
<1>4. \A m : m \in SentWhat' <=> \E n \in 1 .. Len(wire) \cup {Len(wire) + 1} : wire'[n] = m
  BY <1>2, <1>3 DEF SentWhat
<1>5. \A m : m \in SentWhat <=> \E n \in 1 .. Len(wire) : wire[n] = m
  BY <1>2 DEF SentWhat
<1> QED
  BY <1>2, <1>4, <1>5

LEMMA SentKept == wire' = wire => SentWhat' = SentWhat
BY DEF SentWhat

LEMMA ArmStep == ASSUME TypeOK, LockInv, ArmInv, [Next]_vars PROVE ArmInv'
<1> USE CallersAssumption, SentKept DEF DataOK, LockInv, ArmInv, ToCome, OnItsWay, Connected, Move, Steps, Items
<1> DataOK
  BY Typing
<1>1. ASSUME NEW c \in Callers, Begin(c) PROVE ArmInv'
  BY <1>1 DEF Begin
<1>2. ASSUME NEW c \in Callers, Ensure(c) PROVE ArmInv'
  BY <1>2 DEF Ensure
<1>3. ASSUME NEW c \in Callers, Lock(c) PROVE ArmInv'
  BY <1>3 DEF Lock
<1>4. ASSUME NEW c \in Callers, Join(c) PROVE ArmInv'
  BY <1>4 DEF Join
<1>5. ASSUME NEW c \in Callers, Unreachable(c) PROVE ArmInv'
  BY <1>5 DEF Unreachable
<1>6. ASSUME NEW c \in Callers, Publish(c) PROVE ArmInv'
  BY <1>6 DEF Publish
<1>7. ASSUME NEW c \in Callers, Register(c) PROVE ArmInv'
  BY <1>7 DEF Register
<1>8. ASSUME NEW c \in Callers, Send(c) PROVE ArmInv'
  <2>1. SentWhat' = SentWhat \cup {what[c]} /\ owed' = owed /\ sticky' = sticky
    BY <1>8, SentGrows DEF Send
  <2>2. \A d \in Callers : OnItsWay(d) \subseteq OnItsWay(d)' \cup {what[c]}
    BY <1>8 DEF Send
  <2>3. ToCome' = ToCome /\ armer' = armer /\ armed' = armed /\ sock' = sock
    BY <1>8 DEF Send
  <2> QED
    BY <2>1, <2>2, <2>3, Zenon DEF ArmInv
<1>9. ASSUME NEW c \in Callers, SendFails(c) PROVE ArmInv'
  BY <1>9 DEF SendFails, GiveUp
<1>10. ASSUME NEW c \in Callers, Answered(c) PROVE ArmInv'
  BY <1>10 DEF Answered, Back
<1>11. ASSUME NEW c \in Callers, Timeout(c) PROVE ArmInv'
  BY <1>11 DEF Timeout, GiveUp
<1>12. ASSUME NEW c \in Callers, Drop(c) PROVE ArmInv'
  BY <1>12 DEF Drop, ShutDown
<1>13. ASSUME NEW c \in Callers, FailAll(c) PROVE ArmInv'
  BY <1>13 DEF FailAll, FailPending, Back
<1>14. ASSUME NEW c \in Callers, ArmEnable(c) PROVE ArmInv'
  BY <1>14 DEF ArmEnable, ArmRequest
<1>15. ASSUME NEW c \in Callers, ArmUserAgent(c) PROVE ArmInv'
  BY <1>15 DEF ArmUserAgent, ArmRequest, ArmSkip
<1>16. ASSUME NEW c \in Callers, ArmCopyScripts(c) PROVE ArmInv'
  BY <1>16 DEF ArmCopyScripts, ArmSkip
<1>17. ASSUME NEW c \in Callers, ArmScript(c) PROVE ArmInv'
  BY <1>17 DEF ArmScript, ArmRequest
<1>18. ASSUME NEW c \in Callers, ArmGrant(c) PROVE ArmInv'
  <2>1. armer = c /\ armer' = armer /\ sock' = sock /\ UNCHANGED <<owed, sticky, armed, wire>>
    BY <1>18 DEF ArmGrant, ArmRequest, ArmSkip
  <2>2. ToCome = {Grant} /\ OnItsWay(c) = {}
    BY <1>18 DEF ArmGrant, ArmRequest, ArmSkip
  <2>3. Grant \in sticky => OnItsWay(c)' = {Grant}
    BY <1>18 DEF ArmGrant, ArmRequest, ArmSkip
  <2>4. SentWhat' = SentWhat
    BY <2>1
  <2>5. sock = "up" => owed \subseteq SentWhat \cup OnItsWay(c)'
    <3> HIDE DEF ToCome, OnItsWay
    <3> QED
      BY <2>1, <2>2, <2>3
  <2> HIDE DEF ToCome, OnItsWay
  <2> QED
    BY <2>1, <2>4, <2>5
<1>19. ASSUME NEW c \in Callers, ArmDone(c) PROVE ArmInv'
  BY <1>19 DEF ArmDone
<1>20. ASSUME NEW r \in flight, Deliver(r) PROVE ArmInv'
  BY <1>20 DEF Deliver
<1>21. CASE ReaderCloses
  BY <1>21 DEF ReaderCloses
<1>22. CASE ReaderExits
  BY <1>22 DEF ReaderExits, FailPending
<1>23. CASE TargetGone
  BY <1>23 DEF TargetGone
<1>24. CASE LastHandle
  BY <1>24 DEF LastHandle, ShutDown
<1>25. CASE DtorJoins
  BY <1>25 DEF DtorJoins
<1>26. CASE UNCHANGED vars
  BY <1>26 DEF vars
<1> QED
  BY StepOfNext, <1>1, <1>2, <1>3, <1>4, <1>5, <1>6, <1>7, <1>8, <1>9, <1>10, <1>11, <1>12,
     <1>13, <1>14, <1>15, <1>16, <1>17, <1>18, <1>19, <1>20, <1>21, <1>22, <1>23, <1>24,
     <1>25, <1>26

-----------------------------------------------------------------------------
Invariant == TypeOK /\ LockInv /\ RequestInv /\ ArmInv

LEMMA InvariantHolds == Spec => []Invariant
<1>1. Init => Invariant
  BY TypeInit, LockInit, RequestInit, ArmInit DEF Invariant
<1>2. Invariant /\ [Next]_vars => Invariant'
  BY TypeStep, LockStep, RequestStep, ArmStep DEF Invariant
<1> QED
  BY <1>1, <1>2, PTL DEF Spec

\* A reconnect only ever joins a reader that has let go of its socket (the comment
\* on join_reader in ensure_connected).
THEOREM JoinsDeadReaders == Spec => []JoinNeverBlocks
<1>1. Invariant => JoinNeverBlocks
  BY DEF Invariant, LockInv, JoinNeverBlocks
<1> QED
  BY <1>1, InvariantHolds, PTL

\* No waiting request is left to its timeout by a socket closed behind it (read_loop,
\* fail_all_pending).
THEOREM NoWaitOrphaned == Spec => []NoOrphanedWait
<1>1. Invariant => NoOrphanedWait
  BY DEF Invariant, RequestInv, NoOrphanedWait, Active
<1> QED
  BY <1>1, InvariantHolds, PTL

\* Replies are never crossed between the threads that share the socket (request,
\* on_frame).
THEOREM RepliesAreOwn == Spec => []AnswerIsOwn
<1>1. Invariant => AnswerIsOwn
  BY DEF Invariant, RequestInv, AnswerIsOwn, Active
<1> QED
  BY <1>1, InvariantHolds, PTL

\* armed_ on a live socket: all that was stored before it was published has been sent
\* on it (ensure_connected, the re-arm).
THEOREM ArmedIsReapplied == Spec => []ArmedMeansReapplied
<1>1. Invariant => ArmedMeansReapplied
  BY DEF Invariant, ArmInv, ArmedMeansReapplied
<1> QED
  BY <1>1, InvariantHolds, PTL

-----------------------------------------------------------------------------
(* The refinement of CdpPromise.                                            *)

\* Actions that change neither the link nor what a thread sees of its request.
LEMMA SeesNothing ==
    ASSUME Link' = Link, \A c \in Callers : AskOf(c)' = AskOf(c)
    PROVE  UNCHANGED Promise!vars
BY DEF Promise!vars, Ask

\* Actions that at most lose requests, or let the thread of a lost one go on.
LEMMA SeesLoss ==
    ASSUME Link' = Link,
           \A c \in Callers : \/ AskOf(c)' = AskOf(c)
                              \/ AskOf(c) \in {"asked", "flying", "won"} /\ AskOf(c)' = "lost"
                              \/ AskOf(c) = "lost" /\ AskOf(c)' = "idle"
    PROVE  Promise!Next
<1> DEFINE values == {"idle", "asked", "flying", "won", "lost"}
<1>1. \A c \in Callers : AskOf(c)' \in values
  BY DEF AskOf
<1>2. Ask' \in [Callers -> values] /\ \A c \in Callers : Ask[c] = AskOf(c) /\ Ask'[c] = AskOf(c)'
  BY <1>1 DEF Ask
<1>3. Promise!Lose
  BY <1>2 DEF Promise!Lose, Promise!Losable
<1> QED
  BY <1>3 DEF Promise!Next

\* Actions that move one thread's request from one state to another.
LEMMA SeesMove ==
    ASSUME NEW c \in Callers, NEW to, AskOf(c)' = to,
           \A d \in Callers \ {c} : AskOf(d)' = AskOf(d)
    PROVE  Ask' = [Ask EXCEPT ![c] = to] /\ Ask[c] = AskOf(c)
BY DEF Ask

LEMMA PromiseInit == Init => Promise!Init
BY DEF Init, Promise!Init, Link, Connected, Ask, AskOf

LEMMA PromiseStep ==
    ASSUME Invariant, [Next]_vars
    PROVE  Promise!Next \/ UNCHANGED Promise!vars
<1> USE CallersAssumption DEF DataOK, LockInv, RequestInv, Active, Connected, Move, Steps
<1> DataOK /\ LockInv /\ RequestInv
  BY Typing DEF Invariant
<1>1. ASSUME NEW c \in Callers, Begin(c)
      PROVE  Promise!Next \/ UNCHANGED Promise!vars
  <2>1. Link' = Link /\ \A d \in Callers : AskOf(d)' = AskOf(d)
    BY <1>1 DEF Begin, Link, AskOf
  <2> QED
    BY <2>1, SeesNothing
<1>2. ASSUME NEW c \in Callers, Ensure(c)
      PROVE  Promise!Next \/ UNCHANGED Promise!vars
  <2>1. Link' = Link /\ \A d \in Callers : AskOf(d)' = AskOf(d)
    BY <1>2 DEF Ensure, Link, AskOf
  <2> QED
    BY <2>1, SeesNothing
<1>3. ASSUME NEW c \in Callers, Lock(c)
      PROVE  Promise!Next \/ UNCHANGED Promise!vars
  <2>1. Link' = Link /\ \A d \in Callers : AskOf(d)' = AskOf(d)
    BY <1>3 DEF Lock, Link, AskOf
  <2> QED
    BY <2>1, SeesNothing
<1>4. ASSUME NEW c \in Callers, Join(c)
      PROVE  Promise!Next \/ UNCHANGED Promise!vars
  <2>1. Link' = Link /\ \A d \in Callers : AskOf(d)' = AskOf(d)
    BY <1>4 DEF Join, Link, AskOf
  <2> QED
    BY <2>1, SeesNothing
<1>5. ASSUME NEW c \in Callers, Unreachable(c)
      PROVE  Promise!Next \/ UNCHANGED Promise!vars
  <2>1. Link' = Link /\ \A d \in Callers : AskOf(d)' = AskOf(d)
    BY <1>5 DEF Unreachable, Link, AskOf
  <2> QED
    BY <2>1, SeesNothing
<1>6. ASSUME NEW c \in Callers, Drop(c)
      PROVE  Promise!Next \/ UNCHANGED Promise!vars
  <2>1. Link' = Link /\ \A d \in Callers : AskOf(d)' = AskOf(d)
    BY <1>6 DEF Drop, ShutDown, Link, AskOf
  <2> QED
    BY <2>1, SeesNothing
<1>7. ASSUME NEW c \in Callers, ArmEnable(c)
      PROVE  Promise!Next \/ UNCHANGED Promise!vars
  <2>1. Link' = Link /\ \A d \in Callers : AskOf(d)' = AskOf(d)
    BY <1>7 DEF ArmEnable, ArmRequest, Link, AskOf
  <2> QED
    BY <2>1, SeesNothing
<1>8. ASSUME NEW c \in Callers, ArmUserAgent(c)
      PROVE  Promise!Next \/ UNCHANGED Promise!vars
  <2>1. Link' = Link /\ \A d \in Callers : AskOf(d)' = AskOf(d)
    BY <1>8 DEF ArmUserAgent, ArmRequest, ArmSkip, Link, AskOf
  <2> QED
    BY <2>1, SeesNothing
<1>9. ASSUME NEW c \in Callers, ArmCopyScripts(c)
      PROVE  Promise!Next \/ UNCHANGED Promise!vars
  <2>1. Link' = Link /\ \A d \in Callers : AskOf(d)' = AskOf(d)
    BY <1>9 DEF ArmCopyScripts, ArmSkip, Link, AskOf
  <2> QED
    BY <2>1, SeesNothing
<1>10. ASSUME NEW c \in Callers, ArmScript(c)
      PROVE  Promise!Next \/ UNCHANGED Promise!vars
  <2>1. Link' = Link /\ \A d \in Callers : AskOf(d)' = AskOf(d)
    BY <1>10 DEF ArmScript, ArmRequest, Link, AskOf
  <2> QED
    BY <2>1, SeesNothing
<1>11. ASSUME NEW c \in Callers, ArmGrant(c)
      PROVE  Promise!Next \/ UNCHANGED Promise!vars
  <2>1. Link' = Link /\ \A d \in Callers : AskOf(d)' = AskOf(d)
    BY <1>11 DEF ArmGrant, ArmRequest, ArmSkip, Link, AskOf
  <2> QED
    BY <2>1, SeesNothing
<1>12. CASE TargetGone
  <2>1. Link' = Link /\ \A d \in Callers : AskOf(d)' = AskOf(d)
    BY <1>12 DEF TargetGone, Link, AskOf
  <2> QED
    BY <2>1, SeesNothing
<1>13. CASE LastHandle
  <2>1. Link' = Link /\ \A d \in Callers : AskOf(d)' = AskOf(d)
    BY <1>13 DEF LastHandle, ShutDown, Link, AskOf
  <2> QED
    BY <2>1, SeesNothing
<1>14. CASE DtorJoins
  <2>1. Link' = Link /\ \A d \in Callers : AskOf(d)' = AskOf(d)
    BY <1>14 DEF DtorJoins, Link, AskOf
  <2> QED
    BY <2>1, SeesNothing
<1>15. CASE UNCHANGED vars
  <2>1. Link' = Link /\ \A d \in Callers : AskOf(d)' = AskOf(d)
    BY <1>15 DEF vars, Link, AskOf
  <2> QED
    BY <2>1, SeesNothing
<1>16. ASSUME NEW c \in Callers, SendFails(c)
      PROVE  Promise!Next \/ UNCHANGED Promise!vars
  <2>1. Link' = Link
    BY <1>16 DEF SendFails, GiveUp, Link
  <2>2. \A d \in Callers : \/ AskOf(d)' = AskOf(d)
                           \/ AskOf(d) \in {"asked", "flying", "won"} /\ AskOf(d)' = "lost"
                           \/ AskOf(d) = "lost" /\ AskOf(d)' = "idle"
    BY <1>16 DEF SendFails, GiveUp, AskOf
  <2> QED
    BY <2>1, <2>2, SeesLoss
<1>17. ASSUME NEW c \in Callers, Timeout(c)
      PROVE  Promise!Next \/ UNCHANGED Promise!vars
  <2>1. Link' = Link
    BY <1>17 DEF Timeout, GiveUp, Link
  <2>2. \A d \in Callers : \/ AskOf(d)' = AskOf(d)
                           \/ AskOf(d) \in {"asked", "flying", "won"} /\ AskOf(d)' = "lost"
                           \/ AskOf(d) = "lost" /\ AskOf(d)' = "idle"
    BY <1>17 DEF Timeout, GiveUp, AskOf
  <2> QED
    BY <2>1, <2>2, SeesLoss
<1>18. ASSUME NEW c \in Callers, FailAll(c)
      PROVE  Promise!Next \/ UNCHANGED Promise!vars
  <2>1. Link' = Link
    BY <1>18 DEF FailAll, FailPending, Back, Link
  <2>2. \A d \in Callers : \/ AskOf(d)' = AskOf(d)
                           \/ AskOf(d) \in {"asked", "flying", "won"} /\ AskOf(d)' = "lost"
                           \/ AskOf(d) = "lost" /\ AskOf(d)' = "idle"
    BY <1>18 DEF FailAll, FailPending, Back, AskOf
  <2> QED
    BY <2>1, <2>2, SeesLoss
<1>19. CASE ReaderExits
  <2>1. Link' = Link
    BY <1>19 DEF ReaderExits, FailPending, Link
  <2>2. \A d \in Callers : \/ AskOf(d)' = AskOf(d)
                           \/ AskOf(d) \in {"asked", "flying", "won"} /\ AskOf(d)' = "lost"
                           \/ AskOf(d) = "lost" /\ AskOf(d)' = "idle"
    BY <1>19 DEF ReaderExits, FailPending, AskOf
  <2> QED
    BY <2>1, <2>2, SeesLoss
<1>20. ASSUME NEW c \in Callers, Register(c)
      PROVE  Promise!Next \/ UNCHANGED Promise!vars
  <2>1. Link' = Link /\ AskOf(c) = "idle" /\ AskOf(c)' = "asked"
    BY <1>20 DEF Register, Link, AskOf
  <2>2. \A d \in Callers \ {c} : AskOf(d)' = AskOf(d)
    BY <1>20 DEF Register, AskOf
  <2>3. Promise!Ask(c)
    BY <2>1, <2>2, SeesMove DEF Promise!Ask, Promise!Set
  <2> QED
    BY <2>3 DEF Promise!Next
<1>21. ASSUME NEW c \in Callers, Send(c)
      PROVE  Promise!Next \/ UNCHANGED Promise!vars
  <2>1. Link' = Link /\ Link # "down"
    BY <1>21 DEF Send, Link
  <2>2. \/ AskOf(c) = "asked" /\ AskOf(c)' = "flying"
        \/ AskOf(c)' = AskOf(c)
    BY <1>21 DEF Send, AskOf
  <2>3. \A d \in Callers \ {c} : AskOf(d)' = AskOf(d)
    BY <1>21 DEF Send, AskOf
  <2>4. CASE AskOf(c) = "asked" /\ AskOf(c)' = "flying"
    BY <2>1, <2>3, <2>4, SeesMove DEF Promise!Next, Promise!Fly, Promise!Set
  <2>5. CASE AskOf(c)' = AskOf(c)
    BY <2>1, <2>3, <2>5, SeesNothing
  <2> QED
    BY <2>2, <2>4, <2>5
<1>22. ASSUME NEW c \in Callers, Answered(c)
      PROVE  Promise!Next \/ UNCHANGED Promise!vars
  <2>1. Link' = Link
    BY <1>22 DEF Answered, Link
  <2>2. AskOf(c) \in {"won", "lost"} /\ AskOf(c)' = "idle"
    BY <1>22 DEF Answered, Back, AskOf
  <2>3. \A d \in Callers \ {c} : AskOf(d)' = AskOf(d)
    BY <1>22 DEF Answered, AskOf
  <2>4. CASE AskOf(c) = "won"
    <3>1. Promise!Settle(c)
      BY <2>1, <2>2, <2>3, <2>4, SeesMove DEF Promise!Settle, Promise!Set
    <3> QED
      BY <3>1 DEF Promise!Next
  <2>5. CASE AskOf(c) = "lost"
    BY <2>1, <2>2, <2>3, <2>5, SeesLoss
  <2> QED
    BY <2>2, <2>4, <2>5
<1>23. ASSUME NEW r \in flight, Deliver(r)
      PROVE  Promise!Next \/ UNCHANGED Promise!vars
  <2>1. Link' = Link /\ Link # "down"
    BY <1>23 DEF Deliver, Link
  <2>2. PICK c \in Callers : r.from = c
    BY DEF DataOK
  <2>3. \A d \in Callers \ {c} : AskOf(d)' = AskOf(d)
    BY <1>23, <2>2 DEF Deliver, AskOf
  <2>4. \/ AskOf(c) = "flying" /\ AskOf(c)' = "won"
        \/ AskOf(c)' = AskOf(c)
    BY <1>23, <2>2 DEF Deliver, AskOf
  <2>5. CASE AskOf(c) = "flying" /\ AskOf(c)' = "won"
    BY <2>1, <2>3, <2>5, SeesMove DEF Promise!Next, Promise!Win, Promise!Set
  <2>6. CASE AskOf(c)' = AskOf(c)
    BY <2>1, <2>3, <2>6, SeesNothing
  <2> QED
    BY <2>4, <2>5, <2>6
<1>24. ASSUME NEW c \in Callers, Publish(c)
      PROVE  Promise!Next \/ UNCHANGED Promise!vars
  <2>1. Link = "down" /\ Link' = "arming"
    BY <1>24 DEF Publish, Link
  <2>2. \A d \in Callers : AskOf(d)' = AskOf(d)
    BY <1>24 DEF Publish, AskOf
  <2>3. \A d \in Callers : AskOf(d) # "flying"
    BY <1>24 DEF Publish, AskOf
  <2>4. Ask' = Ask /\ \A d \in Callers : Ask[d] # "flying"
    BY <2>2, <2>3 DEF Ask
  <2> QED
    BY <2>1, <2>4 DEF Promise!Next, Promise!LinkUp
<1>25. ASSUME NEW c \in Callers, ArmDone(c)
      PROVE  Promise!Next \/ UNCHANGED Promise!vars
  <2>1. Link' = Link \/ (Link = "arming" /\ Link' = "ready")
    BY <1>25, Zenon DEF ArmDone, Link
  <2>2. \A d \in Callers : AskOf(d)' = AskOf(d)
    BY <1>25 DEF ArmDone, AskOf
  <2>3. Ask' = Ask
    BY <2>2 DEF Ask
  <2> QED
    BY <2>1, <2>2, <2>3, SeesNothing DEF Promise!Next, Promise!LinkReady
<1>26. CASE ReaderCloses
  <2>1. Link # "down" /\ Link' = "down"
    BY <1>26 DEF ReaderCloses, Link
  <2>2. Ask' = Ask
    BY <1>26 DEF ReaderCloses, Ask, AskOf
  <2> QED
    BY <2>1, <2>2 DEF Promise!Next, Promise!LinkDown
<1> QED
  BY StepOfNext, <1>1, <1>2, <1>3, <1>4, <1>5, <1>6, <1>7, <1>8, <1>9, <1>10, <1>11, <1>12,
     <1>13, <1>14, <1>15, <1>16, <1>17, <1>18, <1>19, <1>20, <1>21, <1>22, <1>23, <1>24, <1>25,
     <1>26

\* The session implements its promise: requests are carried by one link each, won only
\* while it is up, and never carried over (request, read_loop, ensure_connected).
THEOREM Implements == Spec => KeepsPromise
<1>1. Invariant /\ [Next]_vars => [Promise!Next]_(Promise!vars)
  BY PromiseStep
<1> QED
  BY <1>1, PromiseInit, InvariantHolds, PTL DEF Spec, KeepsPromise, Promise!Spec
=============================================================================
