-------------------------- MODULE ServletServerProofs --------------------------
(***************************************************************************)
(* Proofs about ServletServer, for any number of servlet threads, clients, *)
(* signals and descriptors: who works on a freed server, that it is clean  *)
(* when it is freed, and that an accepted client has exactly one owner.    *)
(***************************************************************************)
EXTENDS ServletServer, FiniteSetTheorems, TLAPS

-------------------------------------------------------------------------------
(* The inductive invariant *)

Loops == {"spawning", "serving", "stopping"}

Ended == {"joining", "released", "exited"}

\* Where the threads can be, by the place of main.
LifeInv ==
    /\ server.alive <=> main \in Loops \cup {"new", "bound", "joining", "unlisted"}
    /\ app => main # "init"
    /\ main \in {"init", "new", "bound", "unlisted", "unset"} =>
           \A t \in Threads : pc[t] = "unborn"
    /\ main # "serving" => pc[Main] \in {"unborn", "done"}
    /\ main \in Ended => \A w \in Workers : pc[w] \in {"unborn", "done"}

\* Where the stops can be: main's own belongs to "stopping", a handler needs
\* a thread to run on, and its guard lets it in only while there are loops, or
\* when it reads a freed server.
StopInv ==
    /\ stop[Main] # "guard"
    /\ stop[Main] \in {"idle", "over"} \/ main = "stopping"
    /\ \A h \in Signals :
           /\ \/ stop[h] \in {"idle", "guard", "over"}
              \/ main \in Loops
              \/ on[h] = Main /\ main \in {"unset", "released"}
           /\ Running(h) /\ on[h] # Main => pc[on[h]] \notin {"unborn", "done"}
           /\ Running(h) /\ on[h] = Main => main # "exited"

\* Who may still find the server running, and who is left to forget the socket.
RunInv ==
    /\ server.running => main \in Loops
    /\ main = "stopping" /\ server.running => stop[Main] \in {"enter", "clear"}
    /\ /\ main \in Loops \cup Ended \cup {"unset"}
       /\ server.socket = "listener"
       /\ ~server.running
       => \E p \in Signals \cup {Main} : stop[p] \in {"test", "shut", "forget"}
    /\ ~server.alive => server.socket = "invalid"

\* The socket that listens is the one the server knows, until it is shut.
ListenInv ==
    /\ listener = "listening" => main # "init" /\ server.socket = "listener"
    /\ \A p \in Signals \cup {Main} : stop[p] = "forget" => listener # "listening"

\* A client is held by one thread, which is reading from it or serving it.
HoldInv ==
    /\ \A t \in Threads : holds[t] # None <=> pc[t] \in {"reading", "handling"}
    /\ \A t \in Threads : holds[t] # None => conn[holds[t]] = "held"
    /\ \A c \in Clients : conn[c] = "held" => \E t \in Threads : holds[t] = c
    /\ \A t, u \in Threads : holds[t] = holds[u] /\ holds[t] # None => t = u

IInv == TypeOK /\ LifeInv /\ StopInv /\ RunInv /\ ListenInv /\ HoldInv

-------------------------------------------------------------------------------
(* Types *)

\* A place of the accept loop is taken over from another one.
LEMMA GoesTypes ==
    ASSUME TypeOK, NEW t \in Threads, NEW from, NEW next \in LoopSteps,
           Goes(t, from, next)
    PROVE  pc' \in [Threads -> LoopSteps]
  BY DEF TypeOK, Goes

\* Every step of a stop keeps the types.
LEMMA StopTypes ==
    ASSUME TypeOK, NEW p \in Signals \cup {Main}, StopStep(p)
    PROVE  TypeOK'
<1>1. CASE StopEnter(p)
  BY <1>1 DEF StopEnter, TypeOK, StopSteps
<1>2. CASE StopClear(p)
  BY <1>2 DEF StopClear, TypeOK, StopSteps
<1>3. CASE StopTest(p)
  BY <1>3 DEF StopTest, TypeOK, StopSteps
<1>4. CASE StopShut(p)
  BY <1>4 DEF StopShut, Unqueued, TypeOK, StopSteps
<1>5. CASE StopForget(p)
  BY <1>5 DEF StopForget, TypeOK, StopSteps
<1> QED BY <1>1, <1>2, <1>3, <1>4, <1>5 DEF StopStep

\* Every step of the main thread keeps the types.
LEMMA MainTypes ==
    ASSUME TypeOK, MainStep
    PROVE  TypeOK'
<1> USE DEF TypeOK, MainGoes, MainSteps
<1>1. CASE CreateServer
  BY <1>1 DEF CreateServer, NewServer
<1>2. CASE Listen
  BY <1>2 DEF Listen
<1>3. CASE SetRunning
  BY <1>3 DEF SetRunning
<1>4. CASE \E w \in Workers : Spawn(w)
  BY <1>4 DEF Spawn, LoopSteps, StopSteps, Threads
<1>5. CASE Serve
  BY <1>5 DEF Serve, LoopSteps, Threads
<1>6. CASE Release
  BY <1>6 DEF Release, StopSteps
<1>7. CASE Join
  BY <1>7 DEF Join
<1>8. CASE DeleteServer
  <2>1. listener' \in {"none", "listening", "shut"}
    BY <1>8 DEF DeleteServer, CloseAtDelete
  <2>2. conn' \in [Clients -> {"away", "queued", "held", "closed"}]
    BY <1>8 DEF DeleteServer, CloseAtDelete, Unqueued
  <2>3. server' \in [alive : BOOLEAN, running : BOOLEAN,
                     socket : {"invalid", "listener"}]
    BY <1>8 DEF DeleteServer
  <2> QED BY <1>8, <2>1, <2>2, <2>3 DEF DeleteServer
<1>9. CASE ForgetServer
  BY <1>9 DEF ForgetServer
<1>10. CASE Exit
  BY <1>10 DEF Exit
<1>11. CASE StopStep(Main)
  BY <1>11, StopTypes
<1> QED BY <1>1, <1>2, <1>3, <1>4, <1>5, <1>6, <1>7, <1>8, <1>9, <1>10, <1>11
        DEF MainStep

\* Every step of the accept loop keeps the types; what a thread reads from, or
\* hangs up, is a client.
LEMMA LoopTypes ==
    ASSUME TypeOK, HoldInv, NEW t \in Threads, LoopStep(t)
    PROVE  TypeOK'
<1> USE ServerAssumption DEF TypeOK, LoopOnly, LoopSteps
<1>1. pc' \in [Threads -> LoopSteps]
  BY DEF LoopStep, Check, Enter, CallAccept, Accept, AcceptFails, Read,
         ReadFails, Handled, Goes
<1>2. pc[t] \in {"reading", "handling"} => holds[t] \in Clients
  BY DEF HoldInv
<1>3. CASE Check(t) \/ Enter(t) \/ CallAccept(t) \/ AcceptFails(t)
  BY <1>1, <1>3 DEF Check, Enter, CallAccept, AcceptFails
<1>4. ASSUME NEW c \in Clients, Accept(t, c)
      PROVE  TypeOK'
  BY <1>1, <1>4 DEF Accept
<1>5. CASE Read(t)
  BY <1>1, <1>2, <1>5 DEF Read, Goes
<1>6. CASE ReadFails(t) \/ Handled(t)
  BY <1>1, <1>2, <1>6 DEF ReadFails, Handled, HangUp, Goes
<1> QED BY <1>3, <1>4, <1>5, <1>6 DEF LoopStep

\* Every step keeps the types.
LEMMA TypeStep ==
    ASSUME TypeOK, HoldInv, [Next]_vars
    PROVE  TypeOK'
<1>1. CASE MainStep
  BY <1>1, MainTypes
<1>2. ASSUME NEW t \in Threads, LoopStep(t)
      PROVE  TypeOK'
  BY <1>2, LoopTypes
<1>3. ASSUME NEW h \in Signals, Handle(h)
      PROVE  TypeOK'
  <2>1. CASE Guard(h)
    BY <2>1 DEF Guard, TypeOK, StopSteps
  <2>2. CASE StopStep(h)
    BY <2>2, StopTypes
  <2> QED BY <1>3, <2>1, <2>2 DEF Handle
<1>4. ASSUME NEW h \in Signals, NEW t \in Threads, Deliver(h, t)
      PROVE  TypeOK'
  BY <1>4 DEF Deliver, TypeOK, StopSteps
<1>5. ASSUME NEW c \in Clients, Connect(c) \/ Send(c) \/ Leave(c)
      PROVE  TypeOK'
  BY <1>5 DEF Connect, Send, Leave, ClientOnly, TypeOK
<1>6. CASE UNCHANGED vars
  BY <1>6 DEF vars, TypeOK
<1> QED BY <1>1, <1>2, <1>3, <1>4, <1>5, <1>6 DEF Next

-------------------------------------------------------------------------------
(* Main, the threads and the handlers *)

\* A thread that takes a step of the accept loop is not under a handler, and
\* main has not yet waited for its end.
LEMMA LoopMoves ==
    ASSUME TypeOK, LifeInv, NEW t \in Threads, LoopStep(t)
    PROVE  /\ ~Interrupted(t)
           /\ pc[t] \notin {"unborn", "done"}
           /\ \E s \in LoopSteps \ {"unborn"} : pc' = [pc EXCEPT ![t] = s]
           /\ main \in Loops
           /\ t = Main => main = "serving"
           /\ UNCHANGED <<main, server, app, listener, stop, on>>
<1>1. /\ ~Interrupted(t)
      /\ pc[t] \notin {"unborn", "done"}
      /\ \E s \in LoopSteps \ {"unborn"} : pc' = [pc EXCEPT ![t] = s]
      /\ UNCHANGED <<main, server, app, listener, stop, on>>
  BY DEF LoopStep, Check, Enter, CallAccept, Accept, AcceptFails, Read,
         ReadFails, Handled, Goes, LoopOnly, LoopSteps
<1>2. t = Main => main = "serving"
  BY <1>1 DEF LifeInv
<1>3. main \in Loops
  BY <1>1, <1>2 DEF LifeInv, Loops, Ended, Threads, TypeOK, MainSteps
<1> QED BY <1>1, <1>2, <1>3

\* A stop and a handler touch neither main nor the threads, nor whether the
\* server is allocated.
LEMMA StopTouches ==
    ASSUME TypeOK, NEW p \in Signals \cup {Main}, StopStep(p)
    PROVE  /\ UNCHANGED <<main, app, pc, holds, peer, on, fds>>
           /\ server'.alive = server.alive
           /\ stop[p] \in {"enter", "clear", "test", "shut", "forget"}
           /\ \E s \in {"clear", "test", "shut", "forget", "over"} :
                  stop' = [stop EXCEPT ![p] = s]
<1>1. UNCHANGED <<main, app, pc, holds, peer, on, fds>>
  BY DEF StopStep, StopEnter, StopClear, StopTest, StopShut, StopForget
<1>2. server'.alive = server.alive
  BY DEF StopStep, StopEnter, StopClear, StopTest, StopShut, StopForget, TypeOK
<1>3. /\ stop[p] \in {"enter", "clear", "test", "shut", "forget"}
      /\ \E s \in {"clear", "test", "shut", "forget", "over"} :
             stop' = [stop EXCEPT ![p] = s]
  BY DEF StopStep, StopEnter, StopClear, StopTest, StopShut, StopForget
<1> QED BY <1>1, <1>2, <1>3

\* When the workers were joined no handler is past its guard any more.
LEMMA JoinedIsQuiet ==
    ASSUME TypeOK, StopInv, ~Interrupted(Main),
           \A w \in Workers : pc[w] \in {"unborn", "done"}
    PROVE  \A h \in Signals : stop[h] \in {"idle", "over"}
  BY DEF TypeOK, StopInv, Running, Interrupted, Threads, StopSteps

\* Every step keeps the threads where main allows them to be.
LEMMA LifeStep ==
    ASSUME TypeOK, LifeInv, StopInv, [Next]_vars
    PROVE  LifeInv'
<1> USE ServerAssumption DEF TypeOK, LifeInv, MainSteps, Loops, Ended, Threads
<1>1. CASE CreateServer
  BY <1>1 DEF CreateServer, MainGoes, NewServer
<1>2. CASE Listen
  BY <1>2 DEF Listen, MainGoes
<1>3. CASE SetRunning
  BY <1>3 DEF SetRunning, MainGoes
<1>4. ASSUME NEW w \in Workers, Spawn(w)
      PROVE  LifeInv'
  BY <1>4 DEF Spawn, MainGoes
<1>5. CASE Serve
  BY <1>5 DEF Serve, MainGoes
<1>6. CASE Release
  BY <1>6 DEF Release, MainGoes
<1>7. CASE Join
  BY <1>7 DEF Join, MainGoes
<1>8. CASE DeleteServer
  BY <1>8 DEF DeleteServer, MainGoes
<1>9. CASE ForgetServer
  BY <1>9 DEF ForgetServer, MainGoes
<1>10. CASE Exit
  BY <1>10 DEF Exit, MainGoes
<1>11. ASSUME NEW p \in Signals \cup {Main}, StopStep(p)
       PROVE  LifeInv'
  BY <1>11, StopTouches
<1>12. ASSUME NEW t \in Threads, LoopStep(t)
       PROVE  LifeInv'
  BY <1>12, LoopMoves
<1>13. ASSUME NEW h \in Signals, Guard(h)
       PROVE  LifeInv'
  BY <1>13 DEF Guard
<1>14. ASSUME NEW h \in Signals, NEW t \in Threads, Deliver(h, t)
       PROVE  LifeInv'
  BY <1>14 DEF Deliver
<1>15. ASSUME NEW c \in Clients, Connect(c) \/ Send(c) \/ Leave(c)
       PROVE  LifeInv'
  BY <1>15 DEF Connect, Send, Leave, ClientOnly
<1>16. CASE UNCHANGED vars
  BY <1>16 DEF vars
<1> QED BY <1>1, <1>2, <1>3, <1>4, <1>5, <1>6, <1>7, <1>8, <1>9, <1>10, <1>11,
           <1>12, <1>13, <1>14, <1>15, <1>16
        DEF Next, MainStep, Handle

\* Every step keeps the stops where main and the threads allow them to be.
LEMMA StopInvStep ==
    ASSUME TypeOK, LifeInv, StopInv, RunInv, [Next]_vars
    PROVE  StopInv'
<1> USE ServerAssumption
    DEF TypeOK, StopInv, MainSteps, StopSteps, Loops, Ended, Threads, Running
<1>1. CASE CreateServer
  BY <1>1 DEF CreateServer, MainGoes
<1>2. CASE Listen
  BY <1>2 DEF Listen, MainGoes
<1>3. CASE SetRunning
  BY <1>3 DEF SetRunning, MainGoes
<1>4. ASSUME NEW w \in Workers, Spawn(w)
      PROVE  StopInv'
  BY <1>4 DEF Spawn, MainGoes
<1>5. CASE Serve
  BY <1>5 DEF Serve, MainGoes
<1>6. CASE Release
  BY <1>6 DEF Release, MainGoes
<1>7. CASE Join
  BY <1>7, JoinedIsQuiet DEF Join, MainGoes
<1>8. CASE DeleteServer
  BY <1>8 DEF DeleteServer, MainGoes
<1>9. CASE ForgetServer
  BY <1>9 DEF ForgetServer, MainGoes
<1>10. CASE Exit
  BY <1>10 DEF Exit, MainGoes, Interrupted
<1>11. ASSUME NEW p \in Signals \cup {Main}, StopStep(p)
       PROVE  StopInv'
  BY <1>11, StopTouches
<1>12. ASSUME NEW t \in Threads, LoopStep(t)
       PROVE  StopInv'
  BY <1>12, LoopMoves DEF Interrupted
<1>13. ASSUME NEW h \in Signals, Guard(h)
       PROVE  StopInv'
  <2>1. /\ stop[h] = "guard"
        /\ UNCHANGED <<main, server, pc, on>>
        /\ \E s \in {"enter", "over"} : stop' = [stop EXCEPT ![h] = s]
    BY <1>13 DEF Guard
  <2>2. CASE stop' = [stop EXCEPT ![h] = "over"]
    BY <2>1, <2>2
  <2>3. CASE stop' = [stop EXCEPT ![h] = "enter"] /\ server.alive
    <3>1. server.running
      BY <1>13, <2>1, <2>3 DEF Guard, RunningRead
    <3>2. main \in Loops
      BY <3>1 DEF RunInv
    <3> QED BY <2>1, <2>3, <3>2
  <2>4. CASE stop' = [stop EXCEPT ![h] = "enter"] /\ ~server.alive
    <3>1. app
      BY <1>13, <2>1, <2>4 DEF Guard
    <3>2. main \in {"unset", "released", "exited"}
      BY <2>4, <3>1 DEF LifeInv
    <3>3. \A w \in Workers : pc[w] \in {"unborn", "done"}
      BY <3>2 DEF LifeInv
    <3>4. on[h] = Main /\ main # "exited"
      BY <2>1, <3>2, <3>3
    <3> QED BY <2>1, <2>4, <3>2, <3>4
  <2> QED BY <2>1, <2>2, <2>3, <2>4
<1>14. ASSUME NEW h \in Signals, NEW t \in Threads, Deliver(h, t)
       PROVE  StopInv'
  BY <1>14 DEF Deliver, Exists
<1>15. ASSUME NEW c \in Clients, Connect(c) \/ Send(c) \/ Leave(c)
       PROVE  StopInv'
  BY <1>15 DEF Connect, Send, Leave, ClientOnly
<1>16. CASE UNCHANGED vars
  BY <1>16 DEF vars
<1> QED BY <1>1, <1>2, <1>3, <1>4, <1>5, <1>6, <1>7, <1>8, <1>9, <1>10, <1>11,
           <1>12, <1>13, <1>14, <1>15, <1>16
        DEF Next, MainStep, Handle

\* Every step keeps the server's flag and socket right, and somebody in charge
\* of a socket that is still to be forgotten.
LEMMA RunStep ==
    ASSUME TypeOK, LifeInv, StopInv, RunInv, [Next]_vars
    PROVE  RunInv'
<1> USE ServerAssumption
    DEF TypeOK, RunInv, MainSteps, StopSteps, Loops, Ended
<1>1. CASE CreateServer
  BY <1>1 DEF CreateServer, MainGoes, NewServer
<1>2. CASE Listen
  BY <1>2 DEF Listen, MainGoes, LifeInv
<1>3. CASE SetRunning
  BY <1>3 DEF SetRunning, MainGoes
<1>4. ASSUME NEW w \in Workers, Spawn(w)
      PROVE  RunInv'
  BY <1>4 DEF Spawn, MainGoes, StopInv
<1>5. CASE Serve
  BY <1>5 DEF Serve, MainGoes
<1>6. CASE Release
  BY <1>6 DEF Release, MainGoes, StopInv
<1>7. CASE Join
  <2>1. \A h \in Signals : stop[h] \in {"idle", "over"}
    BY <1>7, JoinedIsQuiet DEF Join, MainGoes
  <2>2. ~server.running /\ server.socket # "listener"
    BY <1>7, <2>1 DEF Join, MainGoes
  <2> QED BY <1>7, <2>2 DEF Join, MainGoes
<1>8. CASE DeleteServer
  BY <1>8 DEF DeleteServer, MainGoes
<1>9. CASE ForgetServer
  BY <1>9 DEF ForgetServer, MainGoes
<1>10. CASE Exit
  BY <1>10 DEF Exit, MainGoes
<1>11. ASSUME NEW p \in Signals \cup {Main}, StopStep(p)
       PROVE  RunInv'
  <2>1. CASE StopEnter(p)
    BY <2>1, <1>11 DEF StopEnter, RunningRead, LifeInv
  <2>2. CASE StopClear(p)
    BY <2>2, <1>11 DEF StopClear
  <2>3. CASE StopTest(p)
    BY <2>3, <1>11 DEF StopTest, SocketRead, LifeInv
  <2>4. CASE StopShut(p)
    BY <2>4, <1>11 DEF StopShut
  <2>5. CASE StopForget(p)
    BY <2>5, <1>11 DEF StopForget
  <2> QED BY <1>11, <2>1, <2>2, <2>3, <2>4, <2>5 DEF StopStep
<1>12. ASSUME NEW t \in Threads, LoopStep(t)
       PROVE  RunInv'
  BY <1>12, LoopMoves
<1>13. ASSUME NEW h \in Signals, Guard(h)
       PROVE  RunInv'
  BY <1>13 DEF Guard
<1>14. ASSUME NEW h \in Signals, NEW t \in Threads, Deliver(h, t)
       PROVE  RunInv'
  BY <1>14 DEF Deliver
<1>15. ASSUME NEW c \in Clients, Connect(c) \/ Send(c) \/ Leave(c)
       PROVE  RunInv'
  BY <1>15 DEF Connect, Send, Leave, ClientOnly
<1>16. CASE UNCHANGED vars
  BY <1>16 DEF vars
<1> QED BY <1>1, <1>2, <1>3, <1>4, <1>5, <1>6, <1>7, <1>8, <1>9, <1>10, <1>11,
           <1>12, <1>13, <1>14, <1>15, <1>16
        DEF Next, MainStep, Handle

\* Every step keeps the listening socket known to the server.
LEMMA ListenStep ==
    ASSUME TypeOK, LifeInv, StopInv, ListenInv, [Next]_vars
    PROVE  ListenInv'
<1> USE ServerAssumption
    DEF TypeOK, ListenInv, MainSteps, StopSteps, Loops, Ended
<1>1. CASE CreateServer
  BY <1>1 DEF CreateServer, MainGoes, NewServer
<1>2. CASE Listen
  BY <1>2 DEF Listen, MainGoes, StopInv
<1>3. CASE SetRunning
  BY <1>3 DEF SetRunning, MainGoes
<1>4. ASSUME NEW w \in Workers, Spawn(w)
      PROVE  ListenInv'
  BY <1>4 DEF Spawn, MainGoes
<1>5. CASE Serve
  BY <1>5 DEF Serve, MainGoes
<1>6. CASE Release
  BY <1>6 DEF Release, MainGoes
<1>7. CASE Join
  BY <1>7 DEF Join, MainGoes
<1>8. CASE DeleteServer
  BY <1>8 DEF DeleteServer, CloseAtDelete, MainGoes
<1>9. CASE ForgetServer
  BY <1>9 DEF ForgetServer, MainGoes
<1>10. CASE Exit
  BY <1>10 DEF Exit, MainGoes
<1>11. ASSUME NEW p \in Signals \cup {Main}, StopStep(p)
       PROVE  ListenInv'
  <2>1. CASE StopEnter(p)
    BY <2>1, <1>11 DEF StopEnter
  <2>2. CASE StopClear(p)
    BY <2>2, <1>11 DEF StopClear
  <2>3. CASE StopTest(p)
    BY <2>3, <1>11 DEF StopTest
  <2>4. CASE StopShut(p)
    BY <2>4, <1>11 DEF StopShut
  <2>5. CASE StopForget(p)
    BY <2>5, <1>11 DEF StopForget
  <2> QED BY <1>11, <2>1, <2>2, <2>3, <2>4, <2>5 DEF StopStep
<1>12. ASSUME NEW t \in Threads, LoopStep(t)
       PROVE  ListenInv'
  BY <1>12, LoopMoves
<1>13. ASSUME NEW h \in Signals, Guard(h)
       PROVE  ListenInv'
  BY <1>13 DEF Guard
<1>14. ASSUME NEW h \in Signals, NEW t \in Threads, Deliver(h, t)
       PROVE  ListenInv'
  BY <1>14 DEF Deliver
<1>15. ASSUME NEW c \in Clients, Connect(c) \/ Send(c) \/ Leave(c)
       PROVE  ListenInv'
  BY <1>15 DEF Connect, Send, Leave, ClientOnly
<1>16. CASE UNCHANGED vars
  BY <1>16 DEF vars
<1> QED BY <1>1, <1>2, <1>3, <1>4, <1>5, <1>6, <1>7, <1>8, <1>9, <1>10, <1>11,
           <1>12, <1>13, <1>14, <1>15, <1>16
        DEF Next, MainStep, Handle

-------------------------------------------------------------------------------
(* Clients and their owners *)

\* Whether t reads from a client or serves it.
Busy(t) == pc[t] \in {"reading", "handling"}

\* A step that gives no client to a thread and takes none from one.
LEMMA HoldFrame ==
    ASSUME HoldInv, UNCHANGED holds,
           \A t \in Threads : Busy(t)' <=> Busy(t),
           \A c \in Clients : conn'[c] = "held" <=> conn[c] = "held",
           \A t \in Threads : holds[t] \in Clients \cup {None}
    PROVE  HoldInv'
  BY DEF HoldInv, Busy

\* A thread hangs up the client it holds.
LEMMA HangUpKeepsOwners ==
    ASSUME TypeOK, HoldInv, NEW t \in Threads, Busy(t), HangUp(t),
           pc' = [pc EXCEPT ![t] = "check"]
    PROVE  HoldInv'
<1> DEFINE d == holds[t]
<1>1. d \in Clients /\ d # None
  BY DEF TypeOK, HoldInv, Busy
<1>2. /\ \A u \in Threads : holds'[u] = IF u = t THEN None ELSE holds[u]
      /\ \A u \in Threads : pc'[u] = IF u = t THEN "check" ELSE pc[u]
      /\ \A c \in Clients : conn'[c] = IF c = d THEN "closed" ELSE conn[c]
  BY DEF TypeOK, HangUp
<1>3. \A u \in Threads : u # t /\ holds[u] # None => holds[u] \in Clients \ {d}
  BY <1>1 DEF TypeOK, HoldInv
<1> HIDE DEF d
<1>4. \A u \in Threads : holds'[u] # None <=> pc'[u] \in {"reading", "handling"}
  BY <1>2 DEF HoldInv
<1>5. \A u \in Threads : holds'[u] # None => conn'[holds'[u]] = "held"
  BY <1>2, <1>3 DEF HoldInv
<1>6. \A c \in Clients : conn'[c] = "held" => \E u \in Threads : holds'[u] = c
  <2> SUFFICES ASSUME NEW c \in Clients, conn'[c] = "held"
               PROVE  \E u \in Threads : holds'[u] = c
    OBVIOUS
  <2>1. c # d /\ conn[c] = "held"
    BY <1>2
  <2>2. PICK u \in Threads : holds[u] = c
    BY <2>1 DEF HoldInv
  <2>3. u # t
    BY <2>1, <2>2 DEF d
  <2> QED BY <1>2, <2>2, <2>3
<1>7. \A u, v \in Threads : holds'[u] = holds'[v] /\ holds'[u] # None => u = v
  BY <1>2 DEF HoldInv
<1> QED BY <1>4, <1>5, <1>6, <1>7 DEF HoldInv

\* A thread that accepts a queued client becomes its only owner.
LEMMA AcceptKeepsOwners ==
    ASSUME TypeOK, HoldInv, NEW t \in Threads, NEW c \in Clients, Accept(t, c)
    PROVE  HoldInv'
<1>1. /\ conn[c] = "queued"
      /\ pc[t] = "accepting"
      /\ c # None
  BY ServerAssumption DEF Accept, Goes
<1>2. holds[t] = None
  BY <1>1 DEF HoldInv
<1>3. \A u \in Threads : holds[u] # c
  BY <1>1 DEF HoldInv
<1>4. CASE Goes(t, "accepting", "reading")
           /\ holds' = [holds EXCEPT ![t] = c]
           /\ conn' = [conn EXCEPT ![c] = "held"]
  <2>1. /\ \A u \in Threads : holds'[u] = IF u = t THEN c ELSE holds[u]
        /\ \A u \in Threads : pc'[u] = IF u = t THEN "reading" ELSE pc[u]
        /\ \A e \in Clients : conn'[e] = IF e = c THEN "held" ELSE conn[e]
    BY <1>4 DEF TypeOK, Goes
  <2>2. \A u \in Threads : holds'[u] # None <=> pc'[u] \in {"reading", "handling"}
    BY <1>1, <2>1 DEF HoldInv
  <2>3. \A u \in Threads : holds'[u] # None => conn'[holds'[u]] = "held"
    BY <2>1 DEF HoldInv, TypeOK
  <2>4. \A e \in Clients : conn'[e] = "held" => \E u \in Threads : holds'[u] = e
    <3> SUFFICES ASSUME NEW e \in Clients, conn'[e] = "held"
                 PROVE  \E u \in Threads : holds'[u] = e
      OBVIOUS
    <3>1. CASE e = c
      BY <2>1, <3>1
    <3>2. CASE e # c
      <4>1. PICK u \in Threads : holds[u] = e
        BY <2>1, <3>2 DEF HoldInv
      <4>2. u # t
        BY <1>2, <4>1, ServerAssumption
      <4> QED BY <2>1, <4>1, <4>2
    <3> QED BY <3>1, <3>2
  <2>5. \A u, v \in Threads : holds'[u] = holds'[v] /\ holds'[u] # None => u = v
    BY <1>3, <2>1 DEF HoldInv
  <2> QED BY <2>2, <2>3, <2>4, <2>5 DEF HoldInv
<1>5. CASE Goes(t, "accepting", "check")
           /\ conn' = [conn EXCEPT ![c] = "closed"]
           /\ UNCHANGED holds
  <2>1. /\ \A u \in Threads : pc'[u] = IF u = t THEN "check" ELSE pc[u]
        /\ \A e \in Clients : conn'[e] = IF e = c THEN "closed" ELSE conn[e]
    BY <1>5 DEF TypeOK, Goes
  <2> QED BY <1>1, <1>5, <2>1, HoldFrame DEF TypeOK, Busy
<1> QED BY <1>4, <1>5 DEF Accept

\* Every step of the accept loop keeps clients and owners matched.
LEMMA LoopKeepsOwners ==
    ASSUME TypeOK, HoldInv, NEW t \in Threads, LoopStep(t)
    PROVE  HoldInv'
<1>1. CASE Check(t) \/ Enter(t) \/ CallAccept(t) \/ AcceptFails(t)
  <2>1. UNCHANGED <<holds, conn>>
    BY <1>1 DEF Check, Enter, CallAccept, AcceptFails
  <2>2. \A u \in Threads : Busy(u)' <=> Busy(u)
    BY <1>1 DEF Check, Enter, CallAccept, AcceptFails, Goes, TypeOK, Busy
  <2> QED BY <2>1, <2>2, HoldFrame DEF TypeOK
<1>2. ASSUME NEW c \in Clients, Accept(t, c)
      PROVE  HoldInv'
  BY <1>2, AcceptKeepsOwners
<1>3. CASE Read(t) \/ (Goes(t, "handling", "reading") /\ UNCHANGED <<holds, conn>>)
  <2>1. UNCHANGED <<holds, conn>>
    BY <1>3 DEF Read
  <2>2. \A u \in Threads : Busy(u)' <=> Busy(u)
    BY <1>3 DEF Read, Goes, TypeOK, Busy
  <2> QED BY <2>1, <2>2, HoldFrame DEF TypeOK
<1>4. CASE ReadFails(t) \/ (Goes(t, "handling", "check") /\ HangUp(t))
  BY <1>4, HangUpKeepsOwners DEF ReadFails, Goes, Busy
<1> QED BY <1>1, <1>2, <1>3, <1>4 DEF LoopStep, Handled

\* Closing the listening socket resets clients nobody holds.
LEMMA UnqueuedHeld ==
    ASSUME TypeOK, conn' \in {conn, Unqueued}
    PROVE  \A c \in Clients : conn'[c] = "held" <=> conn[c] = "held"
  BY DEF TypeOK, Unqueued

\* Every step keeps clients and owners matched.
LEMMA HoldStep ==
    ASSUME TypeOK, LifeInv, HoldInv, [Next]_vars
    PROVE  HoldInv'
<1> USE ServerAssumption
<1>1. CASE CreateServer \/ SetRunning \/ Release \/ Join \/ ForgetServer \/ Exit
  BY <1>1, HoldFrame
     DEF CreateServer, SetRunning, Release, Join, ForgetServer, Exit, TypeOK, Busy
<1>2. CASE Listen
  BY <1>2, HoldFrame DEF Listen, TypeOK, Busy
<1>3. ASSUME NEW w \in Workers, Spawn(w)
      PROVE  HoldInv'
  BY <1>3, HoldFrame DEF Spawn, MainGoes, TypeOK, Busy
<1>4. CASE Serve
  BY <1>4, HoldFrame DEF Serve, MainGoes, LifeInv, TypeOK, Busy
<1>5. CASE DeleteServer
  <2>1. conn' \in {conn, Unqueued}
    BY <1>5 DEF DeleteServer, CloseAtDelete
  <2> QED BY <1>5, <2>1, UnqueuedHeld, HoldFrame DEF DeleteServer, TypeOK, Busy
<1>6. ASSUME NEW p \in Signals \cup {Main}, StopStep(p)
      PROVE  HoldInv'
  <2>1. conn' \in {conn, Unqueued}
    BY <1>6 DEF StopStep, StopEnter, StopClear, StopTest, StopShut, StopForget
  <2> QED BY <1>6, <2>1, UnqueuedHeld, StopTouches, HoldFrame DEF TypeOK, Busy
<1>7. ASSUME NEW t \in Threads, LoopStep(t)
      PROVE  HoldInv'
  BY <1>7, LoopKeepsOwners
<1>8. ASSUME NEW h \in Signals, Guard(h)
      PROVE  HoldInv'
  BY <1>8, HoldFrame DEF Guard, TypeOK, Busy
<1>9. ASSUME NEW h \in Signals, NEW t \in Threads, Deliver(h, t)
      PROVE  HoldInv'
  BY <1>9, HoldFrame DEF Deliver, TypeOK, Busy
<1>10. ASSUME NEW c \in Clients, Connect(c) \/ Send(c) \/ Leave(c)
       PROVE  HoldInv'
  <2>1. \A e \in Clients : conn'[e] = "held" <=> conn[e] = "held"
    BY <1>10 DEF Connect, Send, Leave, TypeOK
  <2> QED BY <1>10, <2>1, HoldFrame DEF Connect, Send, Leave, ClientOnly, TypeOK, Busy
<1>11. CASE UNCHANGED vars
  BY <1>11, HoldFrame DEF vars, TypeOK, Busy
<1> QED BY <1>1, <1>2, <1>3, <1>4, <1>5, <1>6, <1>7, <1>8, <1>9, <1>10, <1>11
        DEF Next, MainStep, Handle

-------------------------------------------------------------------------------
(* The theorems *)

\* The inductive invariant holds at the start.
LEMMA InitIInv == Init => IInv
<1> SUFFICES ASSUME Init PROVE IInv
  OBVIOUS
<1> USE ServerAssumption DEF Init
<1>1. TypeOK
  <2>1. server \in [alive : BOOLEAN, running : BOOLEAN,
                    socket : {"invalid", "listener"}]
    OBVIOUS
  <2>2. /\ pc \in [Threads -> LoopSteps]
        /\ holds \in [Threads -> Clients \cup {None}]
        /\ stop \in [Signals \cup {Main} -> StopSteps]
        /\ on \in [Signals -> Threads]
    BY DEF LoopSteps, StopSteps, Threads
  <2>3. /\ conn \in [Clients -> {"away", "queued", "held", "closed"}]
        /\ peer \in [Clients -> {"idle", "sent", "left"}]
    OBVIOUS
  <2>4. main \in MainSteps /\ fds \in 0 .. FdLimit
    BY DEF MainSteps
  <2>5. app \in BOOLEAN
    OBVIOUS
  <2>6. listener \in {"none", "listening", "shut"}
    OBVIOUS
  <2> HIDE DEF Init
  <2> QED BY <2>1, <2>2, <2>3, <2>4, <2>5, <2>6 DEF TypeOK
<1>2. LifeInv /\ StopInv /\ RunInv
  BY DEF LifeInv, StopInv, RunInv, Loops, Ended, Threads, Running
<1>3. ListenInv /\ HoldInv
  BY DEF ListenInv, HoldInv, Threads
<1> QED BY <1>1, <1>2, <1>3 DEF IInv

\* Every step keeps the inductive invariant.
LEMMA NextIInv == IInv /\ [Next]_vars => IInv'
  BY TypeStep, LifeStep, StopInvStep, RunStep, ListenStep, HoldStep DEF IInv

\* The inductive invariant is an invariant of the server.
THEOREM ServerInvariant == Spec => []IInv
  BY InitIInv, NextIInv, PTL DEF Spec

\* Every variable keeps its type.
THEOREM ServerTypes == Spec => []TypeOK
<1>1. IInv => TypeOK
  BY DEF IInv
<1> QED BY <1>1, ServerInvariant, PTL

\* However many threads serve and however many signals arrive, and whatever
\* thread each of them interrupts, nobody works on the server after
\* hiw_server_delete freed it, but for a handler that main took after it.
THEOREM ServerStaysAlive == Spec => []ServerAlive
<1>1. IInv => LoopServerAlive
  BY ServerAssumption
     DEF IInv, TypeOK, LifeInv, Loops, Ended, Threads, MainSteps, LoopServerAlive
<1>2. IInv => StopServerAlive
  BY ServerAssumption
     DEF IInv, TypeOK, LifeInv, StopInv, Loops, StopServerAlive
<1>3. IInv => ServerAlive
  BY <1>1, <1>2 DEF ServerAlive
<1> QED BY <1>3, ServerInvariant, PTL

\* hiw_server_delete finds the server stopped, its socket shut and forgotten,
\* and no thread with a client, however the stops before it overlapped.
THEOREM ServerDeletedClean == Spec => []DeleteIsClean
<1>1. ASSUME IInv, main = "joining"
      PROVE  /\ ~server.running
             /\ server.socket = "invalid"
             /\ listener # "listening"
  <2>1. ~server.running
    BY <1>1 DEF IInv, RunInv, Loops
  <2>2. \A p \in Signals \cup {Main} : stop[p] \notin {"test", "shut", "forget"}
    BY <1>1 DEF IInv, StopInv, Loops
  <2>3. server.socket # "listener"
    BY <1>1, <2>1, <2>2 DEF IInv, RunInv, Ended
  <2> QED BY <1>1, <2>1, <2>3 DEF IInv, ListenInv, TypeOK
<1>2. ASSUME IInv, main = "joining"
      PROVE  \A t \in Threads : holds[t] = None
  BY <1>2 DEF IInv, LifeInv, HoldInv, Ended, Threads
<1>3. IInv => DeleteIsClean
  BY <1>1, <1>2 DEF DeleteIsClean
<1> QED BY <1>3, ServerInvariant, PTL

\* An accepted connection is held by exactly one thread until it is shut down,
\* and one that is not accepted, or shut down, by none.
THEOREM ServerHeldByOne == Spec => []HeldByOne
<1>1. ASSUME IInv, NEW c \in Clients
      PROVE  Cardinality({t \in Threads : holds[t] = c}) =
                 IF conn[c] = "held" THEN 1 ELSE 0
  <2> DEFINE Owners == {t \in Threads : holds[t] = c}
  <2>1. c # None
    BY ServerAssumption
  <2>2. CASE conn[c] = "held"
    <3>1. PICK t \in Threads : holds[t] = c
      BY <1>1, <2>2 DEF IInv, HoldInv
    <3>2. Owners = {t}
      BY <1>1, <2>1, <3>1 DEF IInv, HoldInv
    <3> QED BY <2>2, <3>2, FS_Singleton
  <2>3. CASE conn[c] # "held"
    <3>1. Owners = {}
      BY <1>1, <2>1, <2>3 DEF IInv, HoldInv
    <3> QED BY <2>3, <3>1, FS_EmptySet
  <2> QED BY <2>2, <2>3
<1>2. IInv => HeldByOne
  BY <1>1 DEF IInv, HeldByOne
<1> QED BY <1>2, ServerInvariant, PTL
================================================================================
