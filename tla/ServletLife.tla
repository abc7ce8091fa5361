------------------------------ MODULE ServletLife ------------------------------
(***************************************************************************)
(* The life of servlets and of their threads: hiw_thread_* of              *)
(* core/src/hiw_thread.c without the pool, hiw_servlet_new, start, delete  *)
(* and the filter chain of servlet/src/hiw_servlet.c. One program calls    *)
(* them, servlet after servlet and in any order they allow; the threads    *)
(* run filters and the servlet function, which push and pop contexts.      *)
(*                                                                         *)
(* A filter chain is its number of filters; 0 is none. What a thread does  *)
(* between requests, and how the server stops, is in ServletServer: here a *)
(* thread may serve, and may return once the server was stopped.           *)
(***************************************************************************)
EXTENDS Integers, Sequences, SequencesExt, FiniteSetsExt

CONSTANTS
    MaxThreads,   \* bound: num_accept_threads is 0..MaxThreads
    MaxServlets,  \* bound: the servlets made, one after the other
    MaxStarts,    \* bound: the calls of hiw_servlet_start for one servlet
    Chains,       \* the numbers of filters a chain may have
    Busy,         \* bound: the threads that requests come to
    Keys          \* the keys of contexts

ASSUME LifeAssumption ==
    /\ MaxThreads \in Nat
    /\ MaxServlets \in Nat
    /\ MaxStarts \in Nat
    /\ Chains \subseteq Nat
    /\ "none" \notin Keys

Workers == 1..MaxThreads
Main == 0
Threads == Workers \cup {Main}

ASSUME BusyAssumption == Busy \subseteq Threads

VARIABLES
    at,       \* the program: "idle" between two calls, "starting" in
              \* hiw_servlet_start_threads, "serving" in the function of the
              \* main thread, "joining" in hiw_servlet_release; "crashed"
    next,     \* current_thread, or first, in these loops
    made,     \* the servlets made so far
    server,   \* "none", "running" or "stopped"
    servlet,  \* hiw_servlet, or NoServlet
    object,   \* the hiw_thread of a worker is allocated
    pthread,  \* "none", "running" or "returned", and not joined yet
    started,  \* hiw_thread.started
    chain,    \* hiw_servlet_thread.filter_chain
    call,     \* the calls of filters and the servlet function, innermost first
    context,  \* hiw_thread.context and its parents, innermost first
    local     \* the key the start function pushed a context for, or "none"

vars == <<at, next, made, server, servlet, object, pthread, started, chain,
          call, context, local>>
threadVars == <<object, pthread, started, chain>>
requestVars == <<call, context, local>>

Null == -1

NoServlet == [exists |-> FALSE, threads |-> << >>, chain |-> 0, starts |-> 0]

TypeOK ==
    /\ at \in {"idle", "starting", "serving", "joining", "crashed"}
    /\ next \in 1..MaxThreads + 1
    /\ made \in 0..MaxServlets
    /\ server \in {"none", "running", "stopped"}
    /\ servlet.threads \in Seq(Workers)
    /\ servlet.chain \in Chains \cup {0}
    /\ object \in [Workers -> BOOLEAN]
    /\ pthread \in [Workers -> {"none", "running", "returned"}]
    /\ started \in [Threads -> BOOLEAN]
    /\ chain \in [Threads -> Chains \cup {0}]
    /\ \A t \in Threads : \A i \in 1..Len(call[t]) :
        /\ call[t][i].filter \in Nat
        /\ call[t][i].pushed \in Keys \cup {"none"}
    /\ \A t \in Threads : context[t] \in Seq([key : Keys, value : Nat])
    /\ local \in [Threads -> Keys \cup {"none"}]

Init ==
    /\ at = "idle"
    /\ next = 1
    /\ made = 0
    /\ server = "none"
    /\ servlet = NoServlet
    /\ object = [w \in Workers |-> FALSE]
    /\ pthread = [w \in Workers |-> "none"]
    /\ started = [t \in Threads |-> FALSE]
    /\ chain = [t \in Threads |-> 0]
    /\ call = [t \in Threads |-> << >>]
    /\ context = [t \in Threads |-> << >>]
    /\ local = [t \in Threads |-> "none"]

-------------------------------------------------------------------------------
(* The program: hiw_servlet_new, set_filter_chain and start *)

NewServlet ==
    /\ at = "idle"
    /\ ~servlet.exists
    /\ made < MaxServlets
    /\ made' = made + 1
    /\ server' = "running"
    /\ servlet' = [NoServlet EXCEPT !.exists = TRUE]
    /\ UNCHANGED <<at, next, threadVars, requestVars>>

\* Also called while the servlet runs, from another thread.
SetFilterChain(c) ==
    /\ at # "crashed"
    /\ servlet.exists
    /\ servlet' = [servlet EXCEPT !.chain = c]
    /\ UNCHANGED <<at, next, made, server, threadVars, requestVars>>

Startable == at = "idle" /\ servlet.exists /\ servlet.starts < MaxStarts

\* hiw_servlet_thread_new and hiw_thread_new, n times.
StartNew(n) ==
    /\ Startable
    /\ servlet.threads = << >>
    /\ servlet' = [servlet EXCEPT !.threads = [i \in 1..n |-> i],
                                  !.starts = @ + 1]
    /\ object' = [w \in Workers |-> w <= n]
    /\ chain' = [t \in Threads |-> IF t \in 1..n THEN servlet.chain ELSE chain[t]]
    /\ at' = "starting"
    /\ next' = 1
    /\ UNCHANGED <<made, server, pthread, started, requestVars>>

\* A start with threads left from an earlier one: no thread is made ...
StartAgain ==
    /\ Startable
    /\ servlet.threads # << >>
    /\ servlet' = [servlet EXCEPT !.starts = @ + 1]
    /\ at' = "starting"
    /\ next' = 1
    /\ UNCHANGED <<made, server, threadVars, requestVars>>

\* ... or one is linked to a "last" that is NULL.
StartUnlinked ==
    /\ Startable
    /\ servlet.threads # << >>
    /\ at' = "crashed"
    /\ UNCHANGED <<next, made, server, servlet, threadVars, requestVars>>

Current == servlet.threads[next]

Starting == at = "starting" /\ next <= Len(servlet.threads)

\* hiw_thread_start of a thread that was started before.
SkipStarted ==
    /\ Starting
    /\ started[Current]
    /\ next' = next + 1
    /\ UNCHANGED <<at, made, server, servlet, threadVars, requestVars>>

Pushed(s, k, v) == <<[key |-> k, value |-> v]>> \o s

\* The start function may push a context for all requests of its thread.
RunsWith(t) ==
    \/ UNCHANGED <<context, local>>
    \/ \E k \in Keys :
        /\ local' = [local EXCEPT ![t] = k]
        /\ context' = [context EXCEPT ![t] = Pushed(@, k, 0)]

StartThread ==
    /\ Starting
    /\ ~started[Current]
    /\ started' = [started EXCEPT ![Current] = TRUE]
    /\ pthread' = [pthread EXCEPT ![Current] = "running"]
    /\ next' = next + 1
    /\ RunsWith(Current)
    /\ UNCHANGED <<at, made, server, servlet, object, chain, call>>

\* pthread_create fails and hiw_servlet_start returns an error.
StartThreadFails ==
    /\ Starting
    /\ ~started[Current]
    /\ at' = "idle"
    /\ UNCHANGED <<next, made, server, servlet, threadVars, requestVars>>

MainTurn == at = "starting" /\ next > Len(servlet.threads)

StartMain ==
    /\ MainTurn
    /\ ~started[Main]
    /\ started' = [started EXCEPT ![Main] = TRUE]
    /\ chain' = [chain EXCEPT ![Main] = servlet.chain]
    /\ at' = "serving"
    /\ RunsWith(Main)
    /\ UNCHANGED <<next, made, server, servlet, object, pthread, call>>

\* The main thread was started for an earlier servlet, and stays started:
\* hiw_servlet_start returns at once.
SkipMain ==
    /\ MainTurn
    /\ started[Main]
    /\ at' = "idle"
    /\ UNCHANGED <<next, made, server, servlet, threadVars, requestVars>>

-------------------------------------------------------------------------------
(* hiw_server_stop, hiw_servlet_delete and hiw_thread_delete *)

\* From the program's signal handler.
Stop ==
    /\ at # "crashed"
    /\ server = "running"
    /\ server' = "stopped"
    /\ UNCHANGED <<at, next, made, servlet, threadVars, requestVars>>

Delete ==
    /\ at = "idle"
    /\ servlet.exists
    /\ server' = "stopped"
    /\ at' = "joining"
    /\ next' = 1
    /\ UNCHANGED <<made, servlet, threadVars, requestVars>>

\* Mutant: the thread is not waited for.
JoinableAtOnce(w) == TRUE

Joinable(w) == started[w] => pthread[w] = "returned"

Join ==
    /\ at = "joining"
    /\ next <= Len(servlet.threads)
    /\ Joinable(Current)
    /\ object' = [object EXCEPT ![Current] = FALSE]
    /\ pthread' = [pthread EXCEPT ![Current] =
                    IF started[Current] /\ @ = "returned" THEN "none" ELSE @]
    /\ started' = [started EXCEPT ![Current] = FALSE]
    /\ next' = next + 1
    /\ UNCHANGED <<at, made, server, servlet, chain, requestVars>>

DeleteServer ==
    /\ at = "joining"
    /\ next > Len(servlet.threads)
    /\ at' = "idle"
    /\ server' = "none"
    /\ servlet' = NoServlet
    /\ UNCHANGED <<next, made, threadVars, requestVars>>

-------------------------------------------------------------------------------
(* The threads *)

Running(t) ==
    /\ at # "crashed"
    /\ IF t = Main THEN at = "serving" ELSE pthread[t] = "running"

\* Mutant: the outermost context is popped.
PoppedLast(s) == IF s = << >> THEN s ELSE Front(s)

Popped(s) == IF s = << >> THEN s ELSE Tail(s)

\* The start function is done: it pops what it pushed, or clears all.
StartDone(t) ==
    /\ local' = [local EXCEPT ![t] = "none"]
    /\ \/ local[t] = "none" /\ UNCHANGED context
       \/ local[t] # "none" /\ context' = [context EXCEPT ![t] = Popped(@)]
       \/ local[t] # "none" /\ context' = [context EXCEPT ![t] = << >>]

ThreadReturns(t) ==
    /\ Running(t)
    /\ call[t] = << >>
    /\ server = "stopped"
    /\ StartDone(t)
    /\ IF t = Main THEN at' = "idle" /\ UNCHANGED pthread
                   ELSE pthread' = [pthread EXCEPT ![t] = "returned"] /\ UNCHANGED at
    /\ UNCHANGED <<next, made, server, servlet, object, started, chain, call>>

Called(filter) == [filter |-> filter, pushed |-> "none"]

\* A request: the first filter, or the servlet function when there is none.
Request(t) ==
    /\ t \in Busy
    /\ Running(t)
    /\ call[t] = << >>
    /\ call' = [call EXCEPT ![t] = <<Called(IF chain[t] > 0 THEN 1 ELSE 0)>>]
    /\ UNCHANGED <<at, next, made, server, servlet, threadVars, context, local>>

InCall(t) == Running(t) /\ call[t] # << >>

\* Mutant: the chain is read from the servlet again.
NextOfServlet(t) ==
    IF Head(call[t]).filter < servlet.chain THEN Head(call[t]).filter + 1 ELSE 0

NextFilter(t) == IF Head(call[t]).filter < chain[t] THEN Head(call[t]).filter + 1 ELSE 0

\* hiw_filter_chain_next, which a filter calls as often as it likes.
ChainNext(t) ==
    /\ InCall(t)
    /\ Head(call[t]).filter > 0
    /\ call' = [call EXCEPT ![t] = <<Called(NextFilter(t))>> \o @]
    /\ UNCHANGED <<at, next, made, server, servlet, threadVars, context, local>>

ContextPush(t, k) ==
    /\ InCall(t)
    /\ Head(call[t]).pushed = "none"
    /\ call' = [call EXCEPT ![t][1].pushed = k]
    /\ context' = [context EXCEPT ![t] = Pushed(@, k, Len(call[t]))]
    /\ UNCHANGED <<at, next, made, server, servlet, threadVars, local>>

\* A function that pushed pops before it returns.
ContextPop(t) ==
    /\ InCall(t)
    /\ Head(call[t]).pushed # "none"
    /\ call' = [call EXCEPT ![t][1].pushed = "none"]
    /\ context' = [context EXCEPT ![t] = Popped(@)]
    /\ UNCHANGED <<at, next, made, server, servlet, threadVars, local>>

Return(t) ==
    /\ InCall(t)
    /\ Head(call[t]).pushed = "none"
    /\ call' = [call EXCEPT ![t] = Tail(@)]
    /\ UNCHANGED <<at, next, made, server, servlet, threadVars, context, local>>

\* hiw_thread_context_find: the value, or NULL.
Find(s, k) ==
    LET found == {i \in 1..Len(s) : s[i].key = k}
    IN IF found = {} THEN Null ELSE s[Min(found)].value

Serve(t) ==
    \/ ThreadReturns(t)
    \/ Request(t)
    \/ ChainNext(t)
    \/ \E k \in Keys : ContextPush(t, k)
    \/ ContextPop(t)
    \/ Return(t)

Start ==
    \/ \E n \in 0..MaxThreads : StartNew(n)
    \/ StartAgain
    \/ StartUnlinked
    \/ SkipStarted
    \/ StartThread
    \/ StartThreadFails
    \/ StartMain
    \/ SkipMain

Next ==
    \/ NewServlet
    \/ \E c \in Chains : SetFilterChain(c)
    \/ Start
    \/ Stop
    \/ Delete
    \/ Join
    \/ DeleteServer
    \/ \E t \in Threads : Serve(t)

Spec == Init /\ [][Next]_vars

-------------------------------------------------------------------------------
(* What the life of servlets and threads owes *)

\* A thread runs only while its hiw_thread, its hiw_servlet_thread and its
\* servlet exist: hiw_servlet_release joins what a start left running, also
\* after one that failed half way or was repeated.
WorkersOwned ==
    /\ \A w \in Workers : pthread[w] # "none" =>
        /\ object[w]
        /\ \E i \in 1..Len(servlet.threads) : servlet.threads[i] = w
    /\ at = "serving" => servlet.exists

\* hiw_server_delete comes after the last servlet thread and the main thread.
ServerOutlivesThreads ==
    at = "serving" \/ (\E w \in Workers : pthread[w] = "running") => server # "none"

\* hiw_thread.started tells pthread_join whether there is a thread: it is set
\* exactly as long as there is one to join, through failed and repeated starts.
StartedIsJoinable ==
    \A w \in Workers : object[w] => (started[w] <=> pthread[w] # "none")

\* Every variable keeps its type, and whatever runs is owned, known as started,
\* and has its server.
RunningIsOwned ==
    TypeOK /\ WorkersOwned /\ ServerOutlivesThreads /\ StartedIsJoinable

\* hiw_filter_chain_next walks the chain the thread was made with: every filter
\* once, in order, and the servlet function behind the last, whatever
\* hiw_servlet_set_filter_chain does meanwhile.
ChainInOrder ==
    \A t \in Threads :
        /\ Len(call[t]) <= chain[t] + 1
        /\ \A i \in 1..Len(call[t]) :
            LET depth == Len(call[t]) - i + 1
            IN call[t][i].filter = IF depth <= chain[t] THEN depth ELSE 0

\* hiw_thread_context_find gives the value that the innermost call in progress
\* pushed for the key, or else the start function's; nothing a call has popped
\* and nothing of an earlier servlet is found.
FindIsInnermost ==
    \A t \in Threads, k \in Keys :
        LET pushers == {i \in 1..Len(call[t]) : call[t][i].pushed = k}
        IN Find(context[t], k) =
            IF pushers # {} THEN Len(call[t]) - Min(pushers) + 1
            ELSE IF local[t] = k THEN 0 ELSE Null
===============================================================================
