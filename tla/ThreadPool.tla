------------------------------- MODULE ThreadPool -------------------------------
(***************************************************************************)
(* The thread pool of core/src/hiw_thread.c: a ring of workers, each with  *)
(* a linked list of work and one of free work memory behind a mutex and a  *)
(* condition variable.                                                     *)
(*                                                                         *)
(* A critical section without a wait is one step. Work memory has the name *)
(* of the job it was allocated for; it may carry another job later.        *)
(***************************************************************************)
EXTENDS Naturals, FiniteSets

CONSTANTS
    Count,      \* config.count
    Pushers,    \* threads that call hiw_thread_pool_push
    MaxPushes,  \* bound: the calls they make
    MaxRuns,    \* bound: how often one job is run
    None

ASSUME PoolAssumption ==
    /\ Count \in Nat \ {0}
    /\ MaxPushes \in Nat
    /\ MaxRuns \in Nat \ {0}
    /\ None \notin Nat

Workers == 1 .. Count
Jobs == 1 .. MaxPushes

VARIABLES
    main,           \* where the thread that owns the pool is
    current,        \* the worker it starts or deletes
    first, last,    \* pool->worker_first, worker_last
    next,           \* worker->next
    running,        \* worker->running
    work_next, work_last, work_free,    \* of each worker
    work,           \* of each work memory: what it carries, and its next
    pc,             \* where each worker is in hiw_thread_pool_worker_main
    popped, data,   \* the work it popped, the user-data it read from it
    push,           \* where each call of hiw_thread_pool_push is
    pushed,         \* history: number of jobs pushed
    given,          \* history: pushes each worker was chosen for
    runs,           \* history: how often the function of each job was called
    mixed,          \* history: a function was called with another job's data
    crowded,        \* history: work was pushed to a worker that had some
    freed,          \* workers whose memory was freed
    crashed         \* NULL or freed memory was used, or memory freed twice

vars == <<main, current, first, last, next, running, work_next, work_last,
          work_free, work, pc, popped, data, push, pushed, given, runs, mixed,
          crowded, freed, crashed>>

list == <<first, last, next>>
queue == <<work_next, work_last, work_free, work>>
history == <<pushed, given, runs, mixed, crowded>>

TypeOK ==
    /\ main \in {"starting", "started", "deleting", "joining", "freeing", "deleted"}
    /\ current \in Workers \cup {None}
    /\ first \in Workers /\ last \in Workers
    /\ next \in [Workers -> Workers \cup {None}]
    /\ running \in [Workers -> BOOLEAN]
    /\ work_next \in [Workers -> Jobs \cup {None}]
    /\ work_last \in [Workers -> Jobs \cup {None}]
    /\ work_free \in [Workers -> Jobs \cup {None}]
    /\ work \in [Jobs -> [job : Jobs \cup {None}, next : Jobs \cup {None}]]
    /\ pc \in [Workers -> {"unborn", "enter", "waiting", "woken", "fetch",
                           "call", "returned", "done"}]
    /\ popped \in [Workers -> Jobs \cup {None}]
    /\ data \in [Workers -> Jobs \cup {None}]
    /\ push \in [Pushers -> [worker : Workers \cup {None}, job : Jobs \cup {None}]]
    /\ pushed \in 0 .. MaxPushes
    /\ given \in [Workers -> 0 .. MaxPushes]
    /\ runs \in [Jobs -> 0 .. MaxRuns]
    /\ mixed \in BOOLEAN
    /\ crowded \in BOOLEAN
    /\ freed \subseteq Workers
    /\ crashed \in BOOLEAN

NoPush == [worker |-> None, job |-> None]

\* hiw_thread_pool_new: the workers are linked in the order they were added.
\* worker->running is what malloc left there.
Init ==
    /\ main = "starting"
    /\ current = 1
    /\ first = 1
    /\ last = Count
    /\ next = [w \in Workers |-> IF w = Count THEN None ELSE w + 1]
    /\ running \in [Workers -> BOOLEAN]
    /\ work_next = [w \in Workers |-> None]
    /\ work_last = [w \in Workers |-> None]
    /\ work_free = [w \in Workers |-> None]
    /\ work = [j \in Jobs |-> [job |-> None, next |-> None]]
    /\ pc = [w \in Workers |-> "unborn"]
    /\ popped = [w \in Workers |-> None]
    /\ data = [w \in Workers |-> None]
    /\ push = [p \in Pushers |-> NoPush]
    /\ pushed = 0
    /\ given = [w \in Workers |-> 0]
    /\ runs = [j \in Jobs |-> 0]
    /\ mixed = FALSE
    /\ crowded = FALSE
    /\ freed = {}
    /\ crashed = FALSE

\* Mutant: nobody is woken.
Unsignalled(w) == pc

\* Signalled wakes worker w if it sleeps.
Signalled(w) == IF pc[w] = "waiting" THEN [pc EXCEPT ![w] = "woken"] ELSE pc

-------------------------------------------------------------------------------
(* hiw_thread_pool_start *)

StartWorker ==
    /\ ~crashed /\ main = "starting"
    /\ running' = [running EXCEPT ![current] = TRUE]
    /\ \/ /\ pc' = [pc EXCEPT ![current] = "enter"]
          /\ current' = next[current]
          /\ main' = IF current' = None THEN "started" ELSE "starting"
       \/ \* hiw_thread_start failed: the caller deletes the pool
          /\ main' = "deleting"
          /\ current' = first
          /\ UNCHANGED pc
    /\ UNCHANGED <<list, queue, popped, data, push, history, freed, crashed>>

-------------------------------------------------------------------------------
(* hiw_thread_pool_push *)

\* Mutant: the first worker stays the first.
FirstStays == first

FirstAfter == next[first]

\* Under the pool's lock: the first worker goes to the end. The new first
\* worker is written to, which is NULL if there is no other.
Rotate(p) ==
    /\ ~crashed /\ main = "started"
    /\ push[p] = NoPush
    /\ pushed < MaxPushes
    /\ IF FirstAfter = None
       THEN /\ crashed' = TRUE
            /\ UNCHANGED <<list, push, pushed, given>>
       ELSE /\ first' = FirstAfter
            /\ next' = [next EXCEPT ![last] = first]
            /\ last' = first
            /\ pushed' = pushed + 1
            /\ given' = [given EXCEPT ![first] = @ + 1]
            /\ push' = [push EXCEPT ![p] = [worker |-> first, job |-> pushed + 1]]
            /\ UNCHANGED crashed
    /\ UNCHANGED <<main, current, running, queue, pc, popped, data, runs, mixed,
                   crowded, freed>>

\* hiw_thread_pool_work_new_UNSAFE: new memory, or the free one - which stays
\* in the free list, while what is behind it becomes the head of the queue.
Memory(w, job) == IF work_free[w] = None THEN job ELSE work_free[w]

HeadAfterNew(w) ==
    IF work_free[w] = None THEN work_next[w] ELSE work[work_free[w]].next

\* Under the worker's lock: the job goes behind work_last, which stays.
Enqueue(p) ==
    LET w == push[p].worker
        m == Memory(w, push[p].job)
        fresh == [job |-> push[p].job, next |-> None]
    IN  /\ ~crashed /\ push[p] # NoPush
        /\ IF work_last[w] = None
           THEN /\ work_next' = [work_next EXCEPT ![w] = m]
                /\ work_last' = [work_last EXCEPT ![w] = m]
                /\ work' = [work EXCEPT ![m] = fresh]
           ELSE /\ work_next' = [work_next EXCEPT ![w] = HeadAfterNew(w)]
                /\ work' = [work EXCEPT ![m] = fresh, ![work_last[w]].next = m]
                /\ UNCHANGED work_last
        /\ pc' = Signalled(w)
        /\ push' = [push EXCEPT ![p] = NoPush]
        /\ crowded' = (crowded \/ work_next[w] # None \/ popped[w] # None)
        /\ UNCHANGED <<main, current, list, running, work_free, popped, data,
                       pushed, given, runs, mixed, freed, crashed>>

-------------------------------------------------------------------------------
(* hiw_thread_pool_worker_main in worker w *)

WorkerOnly ==
    /\ ~crashed
    /\ UNCHANGED <<main, current, list, running, push, pushed, given, crowded,
                   freed, crashed>>

\* Nothing to do: sleep.
Sleep(w) ==
    /\ pc[w] = "enter"
    /\ running[w] /\ work_next[w] = None
    /\ pc' = [pc EXCEPT ![w] = "waiting"]
    /\ WorkerOnly
    /\ UNCHANGED <<queue, popped, data, runs, mixed>>

\* The wait may end without a signal: its deadline is not valid when the
\* nanoseconds of the clock and those of INT_MAX ms add up to a second.
WakeUp(w) ==
    /\ pc[w] = "waiting"
    /\ pc' = [pc EXCEPT ![w] = "woken"]
    /\ WorkerOnly
    /\ UNCHANGED <<queue, popped, data, runs, mixed>>

StopRunning(w) ==
    /\ pc[w] = "enter"
    /\ ~running[w] /\ work_next[w] = None
    /\ pc' = [pc EXCEPT ![w] = "done"]
    /\ WorkerOnly
    /\ UNCHANGED <<queue, popped, data, runs, mixed>>

\* Mutant: work_last is kept when the queue runs empty.
PopLastKept(w) ==
    /\ pc[w] = "woken" \/ (pc[w] = "enter" /\ work_next[w] # None)
    /\ IF work_next[w] = None
       THEN /\ pc' = [pc EXCEPT ![w] = "enter"]
            /\ UNCHANGED <<work_next, popped>>
       ELSE /\ pc' = [pc EXCEPT ![w] = "fetch"]
            /\ popped' = [popped EXCEPT ![w] = work_next[w]]
            /\ work_next' = [work_next EXCEPT ![w] = work[work_next[w]].next]
    /\ WorkerOnly
    /\ UNCHANGED <<work_last, work_free, work, data, runs, mixed>>

\* hiw_thread_pool_worker_pop_work_UNSAFE, in the section that was entered or
\* was returned to after the wait.
Pop(w) ==
    /\ pc[w] = "woken" \/ (pc[w] = "enter" /\ work_next[w] # None)
    /\ IF work_next[w] = None
       THEN /\ pc' = [pc EXCEPT ![w] = "enter"]
            /\ UNCHANGED <<work_next, work_last, popped>>
       ELSE /\ pc' = [pc EXCEPT ![w] = "fetch"]
            /\ popped' = [popped EXCEPT ![w] = work_next[w]]
            /\ work_next' = [work_next EXCEPT ![w] = work[work_next[w]].next]
            /\ work_last' = [work_last EXCEPT ![w] =
                    IF work[work_next[w]].next = None THEN None ELSE @]
    /\ WorkerOnly
    /\ UNCHANGED <<work_free, work, data, runs, mixed>>

\* work->data and work->func are read without a lock.
FetchData(w) ==
    /\ pc[w] = "fetch"
    /\ data' = [data EXCEPT ![w] = work[popped[w]].job]
    /\ pc' = [pc EXCEPT ![w] = "call"]
    /\ WorkerOnly
    /\ UNCHANGED <<queue, popped, runs, mixed>>

CallFunc(w) ==
    LET job == work[popped[w]].job
    IN  /\ pc[w] = "call"
        /\ runs[job] < MaxRuns
        /\ runs' = [runs EXCEPT ![job] = @ + 1]
        /\ mixed' = (mixed \/ job # data[w])
        /\ pc' = [pc EXCEPT ![w] = "returned"]
        /\ WorkerOnly
        /\ UNCHANGED <<queue, popped, data>>

\* hiw_thread_pool_work_done, under the lock
WorkDone(w) ==
    /\ pc[w] = "returned"
    /\ work' = IF work_free[w] = None THEN work
               ELSE [work EXCEPT ![popped[w]].next = work_free[w]]
    /\ work_free' = [work_free EXCEPT ![w] = popped[w]]
    /\ popped' = [popped EXCEPT ![w] = None]
    /\ data' = [data EXCEPT ![w] = None]
    /\ pc' = [pc EXCEPT ![w] = "enter"]
    /\ WorkerOnly
    /\ UNCHANGED <<work_next, work_last, runs, mixed>>

-------------------------------------------------------------------------------
(* hiw_thread_pool_delete, when no call of hiw_thread_pool_push is left *)

DeletePool ==
    /\ ~crashed /\ main = "started"
    /\ \A p \in Pushers : push[p] = NoPush
    /\ main' = "deleting"
    /\ current' = first
    /\ UNCHANGED <<list, running, queue, pc, popped, data, push, history, freed, crashed>>

\* Mutant: the thread is not joined.
NeverJoins(w) == "freeing"

\* Only a worker that was running is joined.
AfterStop(w) == IF running[w] THEN "joining" ELSE "freeing"

\* Mutant: the worker is woken, but running stays.
StopWorkerUnset ==
    /\ ~crashed /\ main = "deleting"
    /\ current \notin freed
    /\ pc' = IF running[current] THEN Signalled(current) ELSE pc
    /\ main' = AfterStop(current)
    /\ UNCHANGED <<current, list, running, queue, popped, data, push, history,
                   freed, crashed>>

\* hiw_thread_pool_worker_stop, up to the join
StopWorker ==
    /\ ~crashed /\ main = "deleting"
    /\ current \notin freed
    /\ running' = [running EXCEPT ![current] = FALSE]
    /\ pc' = IF running[current] THEN Signalled(current) ELSE pc
    /\ main' = AfterStop(current)
    /\ UNCHANGED <<current, list, queue, popped, data, push, history, freed, crashed>>

StopFreed ==
    /\ ~crashed /\ main = "deleting"
    /\ current \in freed
    /\ crashed' = TRUE
    /\ UNCHANGED <<main, current, list, running, queue, pc, popped, data, push,
                   history, freed>>

JoinWorker ==
    /\ ~crashed /\ main = "joining"
    /\ pc[current] \in {"unborn", "done"}
    /\ main' = "freeing"
    /\ UNCHANGED <<current, list, running, queue, pc, popped, data, push, history,
                   freed, crashed>>

\* The n-th work memory of the list that begins with `head`; there is one for
\* every n only if the list has a cycle.
Chain(head) ==
    LET at[n \in 0 .. MaxPushes] ==
            IF n = 0 THEN head
            ELSE IF at[n - 1] = None THEN None ELSE work[at[n - 1]].next
    IN  at

\* The rest of hiw_thread_pool_worker_delete: each free work memory is freed,
\* then the worker. A list with a cycle has its memory freed twice.
FreeWorker ==
    /\ ~crashed /\ main = "freeing"
    /\ IF Chain(work_free[current])[MaxPushes] # None
       THEN /\ crashed' = TRUE
            /\ UNCHANGED <<main, current, freed>>
       ELSE /\ freed' = freed \cup {current}
            /\ current' = next[current]
            /\ main' = IF current' = None THEN "deleted" ELSE "deleting"
            /\ UNCHANGED crashed
    /\ UNCHANGED <<list, running, queue, pc, popped, data, push, history>>

-------------------------------------------------------------------------------
Work(w) ==
    \/ Sleep(w) \/ WakeUp(w) \/ StopRunning(w) \/ Pop(w)
    \/ FetchData(w) \/ CallFunc(w) \/ WorkDone(w)

Push(p) == Rotate(p) \/ Enqueue(p)

Delete == DeletePool \/ StopWorker \/ StopFreed \/ JoinWorker \/ FreeWorker

Next ==
    \/ StartWorker
    \/ \E p \in Pushers : Push(p)
    \/ \E w \in Workers : Work(w)
    \/ Delete

Spec == Init /\ [][Next]_vars

\* What a worker does without the wait running out.
Proceed(w) ==
    \/ Sleep(w) \/ StopRunning(w) \/ Pop(w)
    \/ FetchData(w) \/ CallFunc(w) \/ WorkDone(w)

\* The operating system schedules every thread that can go on; a wait need not
\* run out.
FairSpec ==
    /\ Spec
    /\ \A w \in Workers : WF_vars(Proceed(w))
    /\ \A p \in Pushers : WF_vars(Enqueue(p))
    /\ WF_vars(JoinWorker)

-------------------------------------------------------------------------------
(* Properties *)

\* Every variable keeps its type, and a worker that sleeps has nothing to do: no
\* push and no stop falls between its look at the queue and its wait. Nor does
\* one that returned leave a queue behind.
NoLostWakeup ==
    /\ TypeOK
    /\ \A w \in Workers :
        /\ pc[w] = "waiting" => running[w] /\ work_next[w] = None
        /\ pc[w] = "done" => ~running[w] /\ work_next[w] = None

\* However many threads push at once, they are spread evenly, although every
\* rotation writes a ring of which no worker's next is ever reset.
Balanced == \A v, w \in Workers : given[v] <= given[w] + 1

\* A worker is freed once its thread has returned or never ran, holds no work
\* and is chosen by no push. Only main comes to a freed worker again, and only
\* in one way: jobs were pushed, so that the list is a ring, every worker was
\* deleted, and the loop of hiw_thread_pool_delete is back where it began.
JoinedBeforeFree ==
    /\ \A w \in freed :
           /\ pc[w] \in {"unborn", "done"} /\ popped[w] = None
           /\ \A p \in Pushers : push[p].worker # w
    /\ main \in {"deleting", "joining", "freeing"} /\ current \in freed =>
           main = "deleting" /\ pushed > 0 /\ freed = Workers /\ current = first

\* The work a worker will come to: its queue and what it holds.
Reachable(w) ==
    LET at == Chain(work_next[w])
    IN  {work[at[n]].job : n \in {m \in 0 .. MaxPushes : at[m] # None}}
            \cup (IF pc[w] \in {"fetch", "call"} THEN {work[popped[w]].job} ELSE {})

RunOnce ==
    /\ ~mixed
    /\ \A j \in Jobs : runs[j] <= 1
    /\ \A j \in Jobs : j <= pushed /\ runs[j] = 0 =>
        \/ \E p \in Pushers : push[p].job = j
        \/ \E w \in Workers : j \in Reachable(w)

\* The comment of hiw_thread_pool_push, "Push new work to be executed as soon
\* as already pushed work is done": work that was pushed is run, once and with
\* its own data, or is still to come.
WorkRunsOnce == RunOnce

\* The same as long as every push meets a worker without work, although the
\* work memory of the job before is reused while it stays in the free list.
IdleRunsOnce == ~crowded => RunOnce

\* Work that is pushed to a worker without work is run, be the worker asleep or
\* about to sleep, and without the wait running out.
IdleRuns ==
    \A j \in Jobs :
        (\E p \in Pushers : push[p].job = j) ~> runs[j] > 0 \/ crowded \/ crashed

\* The queue of worker w has no end: work memory that was in use was handed out
\* again, and follows itself.
Endless(w) == Chain(work_next[w])[MaxPushes] # None

\* hiw_thread_pool_delete does not hang on a worker, however many jobs wait in
\* its queue: the worker is woken, runs them and returns - unless its queue has
\* become one without an end, which is never drained.
JoinEnds == main = "joining" ~> main # "joining" \/ Endless(current)
===============================================================================
