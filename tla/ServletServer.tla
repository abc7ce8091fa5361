----------------------------- MODULE ServletServer -----------------------------
(***************************************************************************)
(* The life of a highway server: hiw_boot_start creates the server, spawns *)
(* the servlet threads and joins the accept loop itself; SIGINT stops the  *)
(* server from whatever thread it interrupts; the servlet is released once *)
(* the main thread's own loop has ended.                                   *)
(*                                                                         *)
(* A connection is in the state of its socket; what is said over it is the *)
(* subject of ServletConnection.                                           *)
(***************************************************************************)
EXTENDS Naturals, FiniteSets

CONSTANTS
    Main,           \* the thread that runs main
    Workers,        \* the servlet threads, config.num_accept_threads many
    Clients,        \* connections that may be opened
    Signals,        \* SIGINTs that may be delivered
    FdLimit,        \* client descriptors the process may still open
    ReadTimeout,    \* whether socket_config.read_timeout is non-zero
    None

ASSUME ServerAssumption ==
    /\ Main \notin Workers
    /\ None \notin Clients
    /\ FdLimit \in Nat
    /\ ReadTimeout \in BOOLEAN
    /\ Signals \cap (Workers \cup {Main}) = {}

Threads == Workers \cup {Main}

VARIABLES
    main,       \* where hiw_boot_start is
    server,     \* hiw_server; `alive` is FALSE before malloc and after free
    app,        \* whether hiw_app_state.server points to it
    listener,   \* the kernel's listening socket: "none", "listening", "shut"
    pc,         \* where each thread is in hiw_servlet_start_filter_chain
    holds,      \* the client each thread is serving
    conn,       \* server side of each connection
    peer,       \* client side: "idle", "sent" a request, or "left"
    stop,       \* where each call of hiw_server_stop, or handler, is
    on,         \* the thread each signal handler interrupts
    fds         \* client descriptors in use

vars == <<main, server, app, listener, pc, holds, conn, peer, stop, on, fds>>

MainSteps ==
    {"init", "new", "bound", "spawning", "serving", "stopping", "joining",
     "unlisted", "unset", "released", "exited"}

LoopSteps ==
    {"unborn", "check", "enter", "call", "accepting", "reading", "handling",
     "done"}

StopSteps == {"idle", "guard", "enter", "clear", "test", "shut", "forget", "over"}

TypeOK ==
    /\ main \in MainSteps
    /\ server \in [alive : BOOLEAN, running : BOOLEAN,
                   socket : {"invalid", "listener"}]
    /\ app \in BOOLEAN
    /\ listener \in {"none", "listening", "shut"}
    /\ pc \in [Threads -> LoopSteps]
    /\ holds \in [Threads -> Clients \cup {None}]
    /\ conn \in [Clients -> {"away", "queued", "held", "closed"}]
    /\ peer \in [Clients -> {"idle", "sent", "left"}]
    /\ stop \in [Signals \cup {Main} -> StopSteps]
    /\ on \in [Signals -> Threads]
    /\ fds \in 0 .. FdLimit

\* hiw_server_new
NewServer == [alive |-> TRUE, running |-> FALSE, socket |-> "invalid"]

Init ==
    /\ main = "init"
    /\ server = [alive |-> FALSE, running |-> FALSE, socket |-> "invalid"]
    /\ app = FALSE
    /\ listener = "none"
    /\ pc = [t \in Threads |-> "unborn"]
    /\ holds = [t \in Threads |-> None]
    /\ conn = [c \in Clients |-> "away"]
    /\ peer = [c \in Clients |-> "idle"]
    /\ stop = [p \in Signals \cup {Main} |-> "idle"]
    /\ on = [h \in Signals |-> Main]
    /\ fds = 0

-------------------------------------------------------------------------------
(* Threads and signals: a handler runs on top of the thread it interrupts. *)

Running(h) == stop[h] \notin {"idle", "over"}

Interrupted(t) == \E h \in Signals : Running(h) /\ on[h] = t

Exists(t) ==
    IF t = Main THEN main # "exited" ELSE pc[t] \notin {"unborn", "done"}

\* SIGINT reaches any thread that does not run its handler already.
Deliver(h, t) ==
    /\ stop[h] = "idle"
    /\ Exists(t)
    /\ ~Interrupted(t)
    /\ stop' = [stop EXCEPT ![h] = "guard"]
    /\ on' = [on EXCEPT ![h] = t]
    /\ UNCHANGED <<main, server, app, listener, pc, holds, conn, peer, fds>>

\* What a handler may read of the server: after free(s), anything. What it
\* writes there is read by nobody else.
RunningRead == IF server.alive THEN {server.running} ELSE BOOLEAN
SocketRead == IF server.alive THEN {server.socket} ELSE {"invalid", "listener"}

\* hiw_boot_signal: the test of the pointer, then of the server it points to,
\* which may have been freed.
Guard(h) ==
    /\ stop[h] = "guard"
    /\ \E running \in RunningRead :
           stop' = [stop EXCEPT ![h] = IF app /\ running THEN "enter" ELSE "over"]
    /\ UNCHANGED <<main, server, app, listener, pc, holds, conn, peer, on, fds>>

-------------------------------------------------------------------------------
(* hiw_server_stop, by a handler or by hiw_servlet_release. Each access to  *)
(* the shared fields is a step.                                             *)

MayStop(p) == p = Main => ~Interrupted(Main)

StopEnter(p) ==
    /\ stop[p] = "enter"
    /\ MayStop(p)
    /\ \E running \in RunningRead :
           stop' = [stop EXCEPT ![p] = IF running THEN "clear" ELSE "over"]
    /\ UNCHANGED <<main, server, app, listener, pc, holds, conn, peer, on, fds>>

\* Mutant: running is cleared, the socket is left to hiw_server_delete.
StopClearOnly(p) ==
    /\ stop[p] = "clear"
    /\ MayStop(p)
    /\ server' = [server EXCEPT !.running = FALSE]
    /\ stop' = [stop EXCEPT ![p] = "over"]
    /\ UNCHANGED <<main, app, listener, pc, holds, conn, peer, on, fds>>

StopClear(p) ==
    /\ stop[p] = "clear"
    /\ MayStop(p)
    /\ server' = [server EXCEPT !.running = FALSE]
    /\ stop' = [stop EXCEPT ![p] = "test"]
    /\ UNCHANGED <<main, app, listener, pc, holds, conn, peer, on, fds>>

\* Mutant: the socket is never shut, accept goes on waiting.
StopTestNever(p) ==
    /\ stop[p] = "test"
    /\ MayStop(p)
    /\ stop' = [stop EXCEPT ![p] = "over"]
    /\ UNCHANGED <<main, server, app, listener, pc, holds, conn, peer, on, fds>>

StopTest(p) ==
    /\ stop[p] = "test"
    /\ MayStop(p)
    /\ \E socket \in SocketRead :
           stop' = [stop EXCEPT ![p] = IF socket = "invalid" THEN "over" ELSE "shut"]
    /\ UNCHANGED <<main, server, app, listener, pc, holds, conn, peer, on, fds>>

\* shutdown on the listening socket resets the connections in its queue.
Unqueued == [c \in Clients |-> IF conn[c] = "queued" THEN "closed" ELSE conn[c]]

\* Mutant: the field is cleared before it is shut, so nothing is shut.
StopShutForgotten(p) ==
    /\ stop[p] = "shut"
    /\ MayStop(p)
    /\ stop' = [stop EXCEPT ![p] = "forget"]
    /\ UNCHANGED <<main, server, app, listener, pc, holds, conn, peer, on, fds>>

\* hiw_socket_close reads the field again: another stop may have cleared it. A
\* descriptor read from a freed server is one that was shut before, or none.
StopShut(p) ==
    /\ stop[p] = "shut"
    /\ MayStop(p)
    /\ IF server.socket = "listener"
       THEN listener' = "shut" /\ conn' = Unqueued
       ELSE UNCHANGED <<listener, conn>>
    /\ stop' = [stop EXCEPT ![p] = "forget"]
    /\ UNCHANGED <<main, server, app, pc, holds, peer, on, fds>>

StopForget(p) ==
    /\ stop[p] = "forget"
    /\ MayStop(p)
    /\ server' = [server EXCEPT !.socket = "invalid"]
    /\ stop' = [stop EXCEPT ![p] = "over"]
    /\ UNCHANGED <<main, app, listener, pc, holds, conn, peer, on, fds>>

StopStep(p) ==
    StopEnter(p) \/ StopClear(p) \/ StopTest(p) \/ StopShut(p) \/ StopForget(p)

Handle(h) == Guard(h) \/ StopStep(h)

-------------------------------------------------------------------------------
(* The main thread: hiw_boot_start *)

\* Main moves on to `next` and is not inside a handler.
MainGoes(from, next) ==
    /\ main = from
    /\ ~Interrupted(Main)
    /\ main' = next

CreateServer ==
    /\ MainGoes("init", "new")
    /\ server' = NewServer
    /\ app' = TRUE
    /\ UNCHANGED <<listener, pc, holds, conn, peer, stop, on, fds>>

\* hiw_server_start up to the store of the socket, or its failure.
Listen ==
    /\ \/ /\ MainGoes("new", "bound")
          /\ server' = [server EXCEPT !.socket = "listener"]
          /\ listener' = "listening"
       \/ /\ MainGoes("new", "unlisted")
          /\ UNCHANGED <<server, listener>>
    /\ UNCHANGED <<app, pc, holds, conn, peer, stop, on, fds>>

SetRunning ==
    /\ MainGoes("bound", "spawning")
    /\ server' = [server EXCEPT !.running = TRUE]
    /\ UNCHANGED <<app, listener, pc, holds, conn, peer, stop, on, fds>>

\* hiw_servlet_start_threads: pthread_create may fail, and then neither the
\* other threads nor the main thread's own loop are started.
Spawn(w) ==
    /\ pc[w] = "unborn"
    /\ \/ /\ MainGoes("spawning", "spawning")
          /\ pc' = [pc EXCEPT ![w] = "check"]
          /\ UNCHANGED stop
       \/ /\ MainGoes("spawning", "stopping")
          /\ stop' = [stop EXCEPT ![Main] = "enter"]
          /\ UNCHANGED pc
    /\ UNCHANGED <<server, app, listener, holds, conn, peer, on, fds>>

\* The main thread enters the accept loop itself.
Serve ==
    /\ MainGoes("spawning", "serving")
    /\ \A w \in Workers : pc[w] # "unborn"
    /\ pc' = [pc EXCEPT ![Main] = "check"]
    /\ UNCHANGED <<server, app, listener, holds, conn, peer, stop, on, fds>>

\* hiw_servlet_start returned: hiw_servlet_delete begins with hiw_server_stop.
Release ==
    /\ MainGoes("serving", "stopping")
    /\ pc[Main] = "done"
    /\ stop' = [stop EXCEPT ![Main] = "enter"]
    /\ UNCHANGED <<server, app, listener, pc, holds, conn, peer, on, fds>>

\* Mutant: the threads are freed without waiting for them to return.
JoinUnwaited ==
    /\ MainGoes("stopping", "joining")
    /\ stop[Main] = "over"
    /\ UNCHANGED <<server, app, listener, pc, holds, conn, peer, stop, on, fds>>

\* hiw_servlet_thread_delete of every thread: joins the ones that started.
Join ==
    /\ MainGoes("stopping", "joining")
    /\ stop[Main] = "over"
    /\ \A w \in Workers : pc[w] \in {"unborn", "done"}
    /\ UNCHANGED <<server, app, listener, pc, holds, conn, peer, stop, on, fds>>

\* hiw_server_delete, after its assertion: close the socket if need be, free.
CloseAtDelete ==
    IF server.socket = "listener"
    THEN listener' = "shut" /\ conn' = Unqueued
    ELSE UNCHANGED <<listener, conn>>

DeleteServer ==
    /\ \/ MainGoes("joining", "released")
       \/ MainGoes("unlisted", "unset")
    /\ CloseAtDelete
    /\ server' = [server EXCEPT !.alive = FALSE, !.socket = "invalid"]
    /\ UNCHANGED <<app, pc, holds, peer, stop, on, fds>>

\* Only the failure path of hiw_boot_start clears the pointer.
ForgetServer ==
    /\ MainGoes("unset", "released")
    /\ app' = FALSE
    /\ UNCHANGED <<server, listener, pc, holds, conn, peer, stop, on, fds>>

Exit ==
    /\ MainGoes("released", "exited")
    /\ UNCHANGED <<server, app, listener, pc, holds, conn, peer, stop, on, fds>>

MainStep ==
    \/ CreateServer \/ Listen \/ SetRunning
    \/ \E w \in Workers : Spawn(w)
    \/ Serve \/ Release \/ Join \/ DeleteServer \/ ForgetServer \/ Exit
    \/ StopStep(Main)

-------------------------------------------------------------------------------
(* hiw_servlet_start_filter_chain in thread t *)

\* t moves from one place of the loop to the next, unless a handler runs on it.
Goes(t, from, next) ==
    /\ pc[t] = from
    /\ ~Interrupted(t)
    /\ pc' = [pc EXCEPT ![t] = next]

LoopOnly == UNCHANGED <<main, server, app, listener, stop, on>>

\* while (hiw_server_is_running)
Check(t) ==
    /\ Goes(t, "check", IF server.running THEN "enter" ELSE "done")
    /\ LoopOnly
    /\ UNCHANGED <<holds, conn, peer, fds>>

\* hiw_server_accept tests running once more ...
Enter(t) ==
    /\ Goes(t, "enter", IF server.running THEN "call" ELSE "check")
    /\ LoopOnly
    /\ UNCHANGED <<holds, conn, peer, fds>>

\* ... and passes on the socket it finds then, which may be gone.
CallAccept(t) ==
    /\ Goes(t, "call", IF server.socket = "listener" THEN "accepting" ELSE "check")
    /\ LoopOnly
    /\ UNCHANGED <<holds, conn, peer, fds>>

\* accept returns a connection. A failing hiw_socket_set_timeout shuts it at
\* once; its descriptor is in use either way.
Accept(t, c) ==
    /\ listener = "listening"
    /\ conn[c] = "queued"
    /\ fds < FdLimit
    /\ fds' = fds + 1
    /\ \/ /\ Goes(t, "accepting", "reading")
          /\ holds' = [holds EXCEPT ![t] = c]
          /\ conn' = [conn EXCEPT ![c] = "held"]
       \/ /\ Goes(t, "accepting", "check")
          /\ conn' = [conn EXCEPT ![c] = "closed"]
          /\ UNCHANGED holds
    /\ LoopOnly
    /\ UNCHANGED peer

\* accept returns no connection: the listener was shut, the read timeout that
\* the listener shares ran out, or the process has no descriptor left.
AcceptFails(t) ==
    /\ Goes(t, "accepting", "check")
    /\ \/ listener = "shut"
       \/ ReadTimeout
       \/ fds = FdLimit /\ \E c \in Clients : conn[c] = "queued"
    /\ LoopOnly
    /\ UNCHANGED <<holds, conn, peer, fds>>

\* A request was read.
Read(t) ==
    /\ Goes(t, "reading", "handling")
    /\ peer[holds[t]] = "sent"
    /\ peer' = [peer EXCEPT ![holds[t]] = "idle"]
    /\ LoopOnly
    /\ UNCHANGED <<holds, conn, fds>>

\* Mutant: hiw_client_delete frees the client and leaves its socket open.
HangUpUnshut(t) ==
    /\ holds' = [holds EXCEPT ![t] = None]
    /\ UNCHANGED <<conn, peer, fds>>

\* hiw_client_delete: the connection is shut down, its descriptor stays.
HangUp(t) ==
    /\ holds' = [holds EXCEPT ![t] = None]
    /\ conn' = [conn EXCEPT ![holds[t]] = "closed"]
    /\ UNCHANGED <<peer, fds>>

\* recv failed: the client left or the read timeout ran out.
ReadFails(t) ==
    /\ Goes(t, "reading", "check")
    /\ ReadTimeout \/ peer[holds[t]] = "left"
    /\ HangUp(t)
    /\ LoopOnly

\* The servlet function returned; the connection is kept or not. Keeping it
\* goes back to reading without a look at the server.
Handled(t) ==
    /\ \/ Goes(t, "handling", "reading") /\ UNCHANGED <<holds, conn, peer, fds>>
       \/ Goes(t, "handling", "check") /\ HangUp(t)
    /\ LoopOnly

LoopStep(t) ==
    \/ Check(t) \/ Enter(t) \/ CallAccept(t)
    \/ \E c \in Clients : Accept(t, c)
    \/ AcceptFails(t) \/ Read(t) \/ ReadFails(t) \/ Handled(t)

-------------------------------------------------------------------------------
(* Clients *)

ClientOnly == UNCHANGED <<main, server, app, listener, pc, holds, stop, on, fds>>

Connect(c) ==
    /\ conn[c] = "away"
    /\ listener = "listening"
    /\ conn' = [conn EXCEPT ![c] = "queued"]
    /\ ClientOnly
    /\ UNCHANGED peer

Send(c) ==
    /\ conn[c] \in {"queued", "held"}
    /\ peer[c] = "idle"
    /\ peer' = [peer EXCEPT ![c] = "sent"]
    /\ ClientOnly
    /\ UNCHANGED conn

Leave(c) ==
    /\ conn[c] \in {"queued", "held"}
    /\ peer[c] # "left"
    /\ peer' = [peer EXCEPT ![c] = "left"]
    /\ ClientOnly
    /\ UNCHANGED conn

Next ==
    \/ MainStep
    \/ \E t \in Threads : LoopStep(t)
    \/ \E h \in Signals : Handle(h)
    \/ \E h \in Signals, t \in Threads : Deliver(h, t)
    \/ \E c \in Clients : Connect(c) \/ Send(c) \/ Leave(c)

Spec == Init /\ [][Next]_vars

\* The scheduler lets every thread and handler go on when it can.
Fairness ==
    /\ WF_vars(MainStep)
    /\ \A t \in Threads : WF_vars(LoopStep(t))
    /\ \A h \in Signals : WF_vars(Handle(h))

FairSpec == Spec /\ Fairness

\* The same, with clients that do not stay for ever.
LeavingSpec == FairSpec /\ \A c \in Clients : WF_vars(Leave(c))

-------------------------------------------------------------------------------
(* Properties *)

\* No thread is in the accept loop, which reads the server on every path back
\* to its head, after hiw_server_delete freed it.
LoopServerAlive ==
    \A t \in Threads : pc[t] \notin {"unborn", "done"} => server.alive

\* A hiw_server_stop in progress works on a freed server only if it is that of
\* a SIGINT that hiw_boot_signal took on the main thread after main came back
\* from hiw_server_delete and before it ended: never the one in
\* hiw_servlet_release, never a handler on a servlet's thread, however it races
\* with the release, and none that was in progress when the server was freed.
StopServerAlive ==
    \A p \in Signals \cup {Main} :
        stop[p] \in {"enter", "clear", "test", "shut", "forget"} =>
            \/ server.alive
            \/ p \in Signals /\ on[p] = Main /\ main \in {"unset", "released"}

\* Nobody works on the server after hiw_server_delete freed it, but for a
\* handler on the main thread that comes after it.
ServerAlive == LoopServerAlive /\ StopServerAlive

\* The assertion in hiw_server_delete, and what it is for: when the server is
\* about to be freed it does not run, its socket is shut and forgotten, and
\* no thread still holds a client - although stops may overlap, and the one
\* in hiw_servlet_release may find another one half done.
DeleteIsClean ==
    main = "joining" =>
        /\ ~server.running
        /\ server.socket = "invalid"
        /\ listener # "listening"
        /\ \A t \in Threads : holds[t] = None

\* Every variable keeps its type, and a connection that was accepted is held by
\* exactly one thread until it is shut down.
HeldByOne ==
    TypeOK /\ \A c \in Clients :
        Cardinality({t \in Threads : holds[t] = c}) =
            IF conn[c] = "held" THEN 1 ELSE 0

\* Once a running server was stopped, the process comes to its end.
ShutdownCompletes ==
    (main = "serving" /\ ~server.running) ~> main = "exited"

\* A connection does not stay in the accept queue while the process has a
\* descriptor to give it. No client's descriptor is ever closed: once all are
\* used up, what is queued then stays there until the server is stopped.
QueuedIsServed ==
    \A c \in Clients : (conn[c] = "queued") ~> (conn[c] # "queued" \/ fds = FdLimit)
===============================================================================
