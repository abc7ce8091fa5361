---------------------------- MODULE ThreadPoolProofs ----------------------------
(***************************************************************************)
(* Proofs about ThreadPool, for any number of workers, of threads that     *)
(* push, and of jobs.                                                      *)
(***************************************************************************)
EXTENDS ThreadPool, TLAPS

-------------------------------------------------------------------------------
(* The inductive invariant *)

\* Types, with a worker to go on with while there is one to start or to delete.
TypeInv ==
    /\ TypeOK
    /\ main \in {"starting", "deleting", "joining", "freeing"} => current \in Workers
    /\ \A p \in Pushers : push[p] # NoPush =>
           /\ push[p].worker \in Workers
           /\ push[p].job \in Jobs
    /\ \A w \in Workers : popped[w] # None <=> pc[w] \in {"fetch", "call", "returned"}

\* Before the first rotation the ring ends at the last worker, after it it does
\* not end at all; the workers before the first one were chosen once more.
RingInv ==
    /\ \A w \in Workers : w # Count => next[w] = w + 1
    /\ (next[Count] = 1 /\ pushed > 0) \/ (next[Count] = None /\ first = 1)
    /\ last = IF first = 1 THEN Count ELSE first - 1
    /\ \E n \in 0 .. pushed : \A w \in Workers : given[w] = IF w < first THEN n + 1 ELSE n

\* The workers are started one after the other. Who was stopped was joined, and
\* nobody pushes while the pool is deleted.
LifeInv ==
    /\ main = "starting" => /\ next[Count] = None
                            /\ \A w \in Workers : w >= current => pc[w] = "unborn"
    /\ main \in {"starting", "started"} => freed = {}
    /\ main # "started" => \A p \in Pushers : push[p] = NoPush
    /\ \A w \in Workers : pc[w] # "unborn" /\ ~running[w] =>
           w \in freed \/ (w = current /\ main \in {"joining", "freeing"})
    /\ main = "freeing" => pc[current] \in {"unborn", "done"}
    /\ \A w \in freed : pc[w] \in {"unborn", "done"}

\* The workers a deletion that stands at `current` has behind it.
Passed ==
    IF first <= current THEN {w \in Workers : first <= w /\ w < current}
    ELSE {w \in Workers : first <= w \/ w < current}

\* A deletion has freed what is behind it, or all, and then it is back at the
\* first worker of a ring.
DeleteInv ==
    main \in {"deleting", "joining", "freeing"} =>
        \/ freed = Passed
        \/ main = "deleting" /\ freed = Workers /\ current = first /\ next[Count] = 1

\* A worker that sleeps, or returned, has nothing to do.
SleepInv ==
    \A w \in Workers :
        /\ pc[w] = "waiting" => running[w] /\ work_next[w] = None
        /\ pc[w] = "done" => ~running[w] /\ work_next[w] = None

\* The work memory a worker has.
Memories(w) == {work_next[w], work_last[w], work_free[w], popped[w]} \ {None}

\* The job a worker has not called yet.
Pending(w) ==
    IF work_next[w] # None THEN {work[work_next[w]].job}
    ELSE IF pc[w] \in {"fetch", "call"} THEN {work[popped[w]].job}
    ELSE {}

\* The queue of a worker that always was without work is empty or one memory
\* long.
QueueInv ==
    \A w \in Workers :
        /\ work_last[w] = work_next[w]
        /\ work_next[w] # None => popped[w] = None /\ work[work_next[w]].next = None

\* No two workers share work memory, and what a push brings is still unused.
MemoryInv ==
    /\ \A v, w \in Workers : v # w => Memories(v) \cap Memories(w) = {}
    /\ \A w \in Workers : \A m \in Memories(w) :
           m <= pushed /\ \A p \in Pushers : push[p].job # m

\* A job that was pushed is at one place until it is called.
JobInv ==
    /\ ~mixed
    /\ \A p \in Pushers : push[p] # NoPush =>
           push[p].job <= pushed /\ runs[push[p].job] = 0
    /\ \A p, q \in Pushers : push[p] # NoPush /\ push[p].job = push[q].job => p = q
    /\ \A w \in Workers : \A j \in Pending(w) :
           /\ j \in Jobs /\ j <= pushed /\ runs[j] = 0
           /\ \A p \in Pushers : push[p].job # j
    /\ \A v, w \in Workers : v # w => Pending(v) \cap Pending(w) = {}
    /\ \A w \in Workers : pc[w] = "call" => data[w] = work[popped[w]].job
    /\ \A j \in Jobs : runs[j] <= 1 /\ (j > pushed => runs[j] = 0)
    /\ \A j \in Jobs : j <= pushed /\ runs[j] = 0 =>
           \/ \E p \in Pushers : push[p].job = j
           \/ \E w \in Workers : j \in Pending(w)

IdleInv == ~crowded => QueueInv /\ MemoryInv /\ JobInv

IInv == TypeInv /\ RingInv /\ LifeInv /\ DeleteInv /\ SleepInv /\ IdleInv

-------------------------------------------------------------------------------
(* Types *)

\* The work memory a push uses, and the new head of the queue, are memory.
LEMMA MemoryTypes ==
    ASSUME TypeOK, NEW w \in Workers, NEW job \in Jobs
    PROVE  /\ Memory(w, job) \in Jobs
           /\ HeadAfterNew(w) \in Jobs \cup {None}
  BY DEF TypeOK, Memory, HeadAfterNew

\* A push keeps the types.
LEMMA PushTypes ==
    ASSUME TypeInv, RingInv, NEW p \in Pushers, Push(p)
    PROVE  TypeInv'
<1>1. CASE Rotate(p)
  <2>1. CASE FirstAfter = None
    BY <1>1, <2>1 DEF Rotate, TypeInv, TypeOK, queue, list
  <2>2. CASE FirstAfter # None
    <3> DEFINE call == [worker |-> first, job |-> pushed + 1]
    <3>1. /\ first' = next[first] /\ next[first] # None
          /\ next' = [next EXCEPT ![last] = first]
          /\ last' = first
          /\ pushed' = pushed + 1 /\ pushed < MaxPushes
          /\ given' = [given EXCEPT ![first] = @ + 1]
          /\ push' = [push EXCEPT ![p] = call]
          /\ UNCHANGED <<main, current, running, queue, pc, popped, data, runs,
                         mixed, crowded, freed, crashed>>
      BY <1>1, <2>2 DEF Rotate, FirstAfter
    <3>2. /\ first \in Workers /\ last \in Workers
          /\ next \in [Workers -> Workers \cup {None}]
          /\ pushed \in 0 .. MaxPushes
          /\ given \in [Workers -> 0 .. MaxPushes]
          /\ push \in [Pushers -> [worker : Workers \cup {None}, job : Jobs \cup {None}]]
      BY DEF TypeInv, TypeOK
    <3>3. pushed' \in 0 .. MaxPushes /\ pushed + 1 \in Jobs
      BY <3>1, <3>2, PoolAssumption DEF Jobs
    <3>4. call \in [worker : Workers, job : Jobs]
      BY <3>2, <3>3
    <3> HIDE DEF call
    <3>5. push' \in [Pushers -> [worker : Workers \cup {None}, job : Jobs \cup {None}]]
      BY <3>1, <3>2, <3>4
    <3>6. \A q \in Pushers : push'[q] # NoPush =>
              push'[q].worker \in Workers /\ push'[q].job \in Jobs
      BY <3>1, <3>2, <3>4 DEF TypeInv
    <3>7. given[first] < MaxPushes
      <4>1. PICK n \in 0 .. pushed :
                \A w \in Workers : given[w] = IF w < first THEN n + 1 ELSE n
        BY DEF RingInv
      <4>2. given[first] = n /\ first \in Nat
        BY <3>2, <4>1 DEF Workers
      <4> QED BY <3>1, <3>2, <4>1, <4>2, PoolAssumption
    <3>8. given' \in [Workers -> 0 .. MaxPushes]
      BY <3>1, <3>2, <3>7, PoolAssumption
    <3>9. first' \in Workers /\ last' \in Workers /\ next' \in [Workers -> Workers \cup {None}]
      BY <3>1, <3>2
    <3> QED BY <3>1, <3>3, <3>5, <3>6, <3>8, <3>9 DEF TypeInv, TypeOK, queue
  <2> QED BY <2>1, <2>2
<1>2. CASE Enqueue(p)
  <2> DEFINE w == push[p].worker
             m == Memory(w, push[p].job)
             fresh == [job |-> push[p].job, next |-> None]
  <2>1. w \in Workers /\ push[p].job \in Jobs
    BY <1>2 DEF Enqueue, TypeInv
  <2>2. m \in Jobs /\ HeadAfterNew(w) \in Jobs \cup {None}
    BY <2>1, MemoryTypes DEF TypeInv
  <2> HIDE DEF w, m
  <2>3. /\ work_next' \in [Workers -> Jobs \cup {None}]
        /\ work_last' \in [Workers -> Jobs \cup {None}]
    <3>1. \/ /\ work_next' = [work_next EXCEPT ![w] = m]
             /\ work_last' = [work_last EXCEPT ![w] = m]
          \/ /\ work_next' = [work_next EXCEPT ![w] = HeadAfterNew(w)]
             /\ work_last' = work_last
      BY <1>2 DEF Enqueue, w, m
    <3> QED BY <3>1, <2>1, <2>2 DEF TypeInv, TypeOK
  <2>4. fresh \in [job : Jobs \cup {None}, next : Jobs \cup {None}]
    BY <2>1
  <2> HIDE DEF fresh
  <2>5. work' \in [Jobs -> [job : Jobs \cup {None}, next : Jobs \cup {None}]]
    <3>1. CASE work_last[w] = None
      <4>1. work' = [work EXCEPT ![m] = fresh]
        BY <1>2, <3>1 DEF Enqueue, w, m, fresh
      <4> QED BY <4>1, <2>2, <2>4 DEF TypeInv, TypeOK
    <3>2. CASE work_last[w] # None
      <4>1. work' = [work EXCEPT ![m] = fresh, ![work_last[w]].next = m]
        BY <1>2, <3>2 DEF Enqueue, w, m, fresh
      <4>2. work_last[w] \in Jobs
        BY <2>1, <3>2 DEF TypeInv, TypeOK
      <4> QED BY <4>1, <4>2, <2>2, <2>4 DEF TypeInv, TypeOK
    <3> QED BY <3>1, <3>2
  <2>6. /\ pc' \in [Workers -> {"unborn", "enter", "waiting", "woken", "fetch",
                                "call", "returned", "done"}]
        /\ \A v \in Workers : popped[v] # None <=> pc'[v] \in {"fetch", "call", "returned"}
    BY <1>2, <2>1 DEF Enqueue, TypeInv, TypeOK, Signalled
  <2>7. /\ push' \in [Pushers -> [worker : Workers \cup {None}, job : Jobs \cup {None}]]
        /\ \A q \in Pushers : push'[q] # NoPush => push'[q] = push[q]
    BY <1>2 DEF Enqueue, TypeInv, TypeOK, NoPush
  <2>8. crowded' \in BOOLEAN
    BY <1>2 DEF Enqueue, TypeInv, TypeOK
  <2>9. UNCHANGED <<main, current, list, running, work_free, popped, data,
                    pushed, given, runs, mixed, freed, crashed>>
    BY <1>2 DEF Enqueue
  <2> QED BY <2>3, <2>5, <2>6, <2>7, <2>8, <2>9 DEF TypeInv, TypeOK, list
<1> QED BY <1>1, <1>2 DEF Push

\* What a worker does keeps the types.
LEMMA WorkTypes ==
    ASSUME TypeInv, NEW w \in Workers, Work(w)
    PROVE  TypeInv'
<1> USE DEF TypeInv, TypeOK, WorkerOnly, queue, list
<1>1. CASE Sleep(w) \/ WakeUp(w) \/ StopRunning(w)
  BY <1>1 DEF Sleep, WakeUp, StopRunning
<1>2. CASE Pop(w)
  <2>1. CASE work_next[w] = None
    BY <1>2, <2>1 DEF Pop
  <2>2. CASE work_next[w] # None
    <3>1. work_next[w] \in Jobs /\ work[work_next[w]].next \in Jobs \cup {None}
      BY <2>2
    <3>2. /\ pc' = [pc EXCEPT ![w] = "fetch"]
          /\ popped' = [popped EXCEPT ![w] = work_next[w]]
      BY <1>2, <2>2 DEF Pop
    <3>3. /\ work_next' \in [Workers -> Jobs \cup {None}]
          /\ work_last' \in [Workers -> Jobs \cup {None}]
          /\ popped' \in [Workers -> Jobs \cup {None}]
      BY <1>2, <2>2, <3>1 DEF Pop
    <3>4. /\ pc' \in [Workers -> {"unborn", "enter", "waiting", "woken", "fetch",
                                  "call", "returned", "done"}]
          /\ \A v \in Workers :
                 popped'[v] # None <=> pc'[v] \in {"fetch", "call", "returned"}
      BY <2>2, <3>2
    <3> QED BY <1>2, <3>3, <3>4 DEF Pop
  <2> QED BY <2>1, <2>2
<1>3. CASE FetchData(w)
  <2>1. popped[w] \in Jobs
    BY <1>3 DEF FetchData
  <2>2. data' \in [Workers -> Jobs \cup {None}]
    BY <1>3, <2>1 DEF FetchData
  <2> QED BY <1>3, <2>2 DEF FetchData
<1>4. CASE CallFunc(w)
  <2> DEFINE job == work[popped[w]].job
  <2>1. runs' = [runs EXCEPT ![job] = @ + 1] /\ runs[job] < MaxRuns
    BY <1>4 DEF CallFunc
  <2> HIDE DEF job
  <2>2. runs' \in [Jobs -> 0 .. MaxRuns]
    <3>1. job \in Jobs => runs[job] + 1 \in 0 .. MaxRuns
      BY <2>1, PoolAssumption
    <3> QED BY <2>1, <3>1
  <2>3. mixed' \in BOOLEAN
    BY <1>4 DEF CallFunc
  <2> QED BY <1>4, <2>2, <2>3 DEF CallFunc
<1>5. CASE WorkDone(w)
  <2>1. popped[w] \in Jobs
    BY <1>5 DEF WorkDone
  <2>2. work' \in [Jobs -> [job : Jobs \cup {None}, next : Jobs \cup {None}]]
    BY <1>5, <2>1 DEF WorkDone
  <2> QED BY <1>5, <2>1, <2>2 DEF WorkDone
<1> QED BY <1>1, <1>2, <1>3, <1>4, <1>5 DEF Work

\* The thread that owns the pool keeps the types.
LEMMA OwnerTypes ==
    ASSUME TypeInv, LifeInv, StartWorker \/ Delete
    PROVE  TypeInv'
<1> USE DEF TypeInv, TypeOK, queue, list, history
<1>1. CASE StartWorker
  <2>1. /\ current \in Workers /\ next[current] \in Workers \cup {None}
        /\ pc[current] = "unborn"
    BY <1>1, PoolAssumption DEF StartWorker, LifeInv, Workers
  <2>2. running' \in [Workers -> BOOLEAN]
    BY <1>1, <2>1 DEF StartWorker
  <2>3. /\ pc' \in [Workers -> {"unborn", "enter", "waiting", "woken", "fetch",
                                "call", "returned", "done"}]
        /\ pc' = pc \/ pc' = [pc EXCEPT ![current] = "enter"]
    BY <1>1, <2>1 DEF StartWorker
  <2>4. /\ current' \in Workers \cup {None}
        /\ main' \in {"starting", "started", "deleting"}
        /\ main' \in {"starting", "deleting"} => current' \in Workers
    BY <1>1, <2>1 DEF StartWorker
  <2>5. \A w \in Workers :
            popped[w] # None <=> pc'[w] \in {"fetch", "call", "returned"}
    BY <2>1, <2>3
  <2>6. UNCHANGED <<list, queue, popped, data, push, history, freed, crashed>>
    BY <1>1 DEF StartWorker
  <2> QED BY <2>2, <2>3, <2>4, <2>5, <2>6
<1>2. CASE DeletePool
  BY <1>2 DEF DeletePool
<1>3. CASE StopWorker
  BY <1>3 DEF StopWorker, AfterStop, Signalled
<1>4. CASE StopFreed \/ JoinWorker
  BY <1>4 DEF StopFreed, JoinWorker
<1>5. CASE FreeWorker
  <2>1. current \in Workers /\ next[current] \in Workers \cup {None}
    BY <1>5 DEF FreeWorker
  <2>2. UNCHANGED <<list, running, queue, pc, popped, data, push, history>>
    BY <1>5 DEF FreeWorker
  <2>3. CASE Chain(work_free[current])[MaxPushes] # None
    <3>1. crashed' = TRUE /\ UNCHANGED <<main, current, freed>>
      BY <1>5, <2>3 DEF FreeWorker
    <3> QED BY <2>2, <3>1
  <2>4. CASE Chain(work_free[current])[MaxPushes] = None
    <3>1. /\ freed' = freed \cup {current}
          /\ current' = next[current]
          /\ main' = IF current' = None THEN "deleted" ELSE "deleting"
          /\ UNCHANGED crashed
      BY <1>5, <2>4 DEF FreeWorker
    <3>2. /\ freed' \in SUBSET Workers /\ current' \in Workers \cup {None}
          /\ main' = "deleting" => current' \in Workers
          /\ main' \in {"deleted", "deleting"}
      BY <2>1, <3>1
    <3> QED BY <2>2, <3>1, <3>2
  <2> QED BY <2>3, <2>4
<1> QED BY <1>1, <1>2, <1>3, <1>4, <1>5 DEF Delete

\* Every step keeps the types.
LEMMA TypeStep ==
    ASSUME TypeInv, RingInv, LifeInv, [Next]_vars
    PROVE  TypeInv'
<1>1. CASE UNCHANGED vars
  BY <1>1 DEF vars, TypeInv, TypeOK
<1> QED BY <1>1, PushTypes, WorkTypes, OwnerTypes DEF Next

-------------------------------------------------------------------------------
(* The ring *)

\* A rotation takes the next worker of the ring and keeps the ring whole.
LEMMA RotateKeepsRing ==
    ASSUME TypeInv, RingInv, NEW p \in Pushers, Rotate(p)
    PROVE  RingInv'
<1>1. CASE FirstAfter = None
  BY <1>1 DEF Rotate, RingInv, list
<1>2. CASE FirstAfter # None
  <2> USE PoolAssumption DEF Workers
  <2>1. /\ first \in Workers /\ last \in Workers /\ pushed \in Nat
        /\ first' = next[first]
        /\ next' = [next EXCEPT ![last] = first]
        /\ last' = first
        /\ pushed' = pushed + 1
        /\ given' = [given EXCEPT ![first] = @ + 1]
    BY <1>2 DEF Rotate, TypeInv, TypeOK, FirstAfter
  <2>2. first' = IF first = Count THEN 1 ELSE first + 1
    BY <1>2, <2>1 DEF RingInv, FirstAfter
  <2>3. /\ \A w \in Workers : w # Count => next'[w] = w + 1
        /\ next'[Count] = 1
    BY <2>1 DEF RingInv, TypeInv, TypeOK
  <2>4. PICK n \in 0 .. pushed :
            \A w \in Workers : given[w] = IF w < first THEN n + 1 ELSE n
    BY DEF RingInv
  <2>5. \A w \in Workers : given'[w] = IF w <= first THEN n + 1 ELSE n
    BY <2>1, <2>4 DEF TypeInv, TypeOK
  <2>6. \E k \in 0 .. pushed' :
            \A w \in Workers : given'[w] = IF w < first' THEN k + 1 ELSE k
    <3>1. CASE first = Count
      <4>1. n + 1 \in 0 .. pushed'
        BY <2>1
      <4>2. \A w \in Workers : given'[w] = IF w < first' THEN n + 2 ELSE n + 1
        BY <2>1, <2>2, <2>5, <3>1
      <4> QED BY <4>1, <4>2
    <3>2. CASE first # Count
      <4>1. n \in 0 .. pushed'
        BY <2>1
      <4>2. \A w \in Workers : given'[w] = IF w < first' THEN n + 1 ELSE n
        BY <2>1, <2>2, <2>5, <3>2
      <4> QED BY <4>1, <4>2
    <3> QED BY <3>1, <3>2
  <2>7. last' = IF first' = 1 THEN Count ELSE first' - 1
    BY <2>1, <2>2
  <2>8. pushed' > 0
    BY <2>1
  <2> QED BY <2>3, <2>6, <2>7, <2>8 DEF RingInv
<1> QED BY <1>1, <1>2

\* Every step keeps the ring.
LEMMA RingStep ==
    ASSUME TypeInv, RingInv, [Next]_vars
    PROVE  RingInv'
<1>1. ASSUME NEW p \in Pushers, Rotate(p)
      PROVE  RingInv'
  BY <1>1, RotateKeepsRing
<1>2. CASE UNCHANGED <<list, pushed, given>>
  BY <1>2 DEF RingInv, list
<1>3. ASSUME NEW p \in Pushers, Enqueue(p)
      PROVE  UNCHANGED <<list, pushed, given>>
  BY <1>3 DEF Enqueue
<1>4. ASSUME NEW w \in Workers, Work(w)
      PROVE  UNCHANGED <<list, pushed, given>>
  BY <1>4 DEF Work, Sleep, WakeUp, StopRunning, Pop, FetchData, CallFunc,
              WorkDone, WorkerOnly
<1>5. CASE StartWorker \/ Delete
  <2>1. UNCHANGED <<list, pushed, given>>
    BY <1>5 DEF StartWorker, Delete, DeletePool, StopWorker, StopFreed,
                JoinWorker, FreeWorker, history
  <2> QED BY <2>1, <1>2
<1>6. CASE UNCHANGED vars
  BY <1>6, <1>2 DEF vars, list
<1> QED BY <1>1, <1>2, <1>3, <1>4, <1>5, <1>6 DEF Next, Push

-------------------------------------------------------------------------------
(* The life of the workers *)

\* Signalling wakes a worker that sleeps, and does nothing else.
LEMMA SignalledWakes ==
    ASSUME TypeOK, NEW w \in Workers, pc' = Signalled(w)
    PROVE  \A v \in Workers :
               pc'[v] = IF v = w /\ pc[v] = "waiting" THEN "woken" ELSE pc[v]
  BY DEF TypeOK, Signalled

\* What a worker does, seen from outside: it stays alive, or it ends because
\* running is FALSE.
LEMMA WorkMoves ==
    ASSUME TypeInv, NEW w \in Workers, Work(w)
    PROVE  /\ UNCHANGED <<main, current, list, running, push, freed>>
           /\ pc[w] \notin {"unborn", "done"}
           /\ \E s : /\ pc' = [pc EXCEPT ![w] = s]
                     /\ s # "unborn"
                     /\ s = "done" => ~running[w] /\ work_next[w] = None
                     /\ s = "waiting" => running[w] /\ work_next[w] = None
           /\ \A v \in Workers : v # w => work_next'[v] = work_next[v]
           /\ work_next'[w] # work_next[w] => pc'[w] = "fetch"
<1> USE DEF TypeInv, TypeOK, WorkerOnly, queue
<1>1. CASE Sleep(w) \/ WakeUp(w) \/ StopRunning(w)
  BY <1>1 DEF Sleep, WakeUp, StopRunning
<1>2. CASE Pop(w)
  BY <1>2 DEF Pop
<1>3. CASE FetchData(w) \/ CallFunc(w) \/ WorkDone(w)
  BY <1>3 DEF FetchData, CallFunc, WorkDone
<1> QED BY <1>1, <1>2, <1>3 DEF Work

\* Every step keeps the order of start, stop, join and free.
LEMMA LifeStep ==
    ASSUME TypeInv, RingInv, LifeInv, [Next]_vars
    PROVE  LifeInv'
<1> USE DEF TypeInv, TypeOK, LifeInv, list, queue, history
<1>1. CASE StartWorker
  <2>1. /\ current \in Workers
        /\ next[current] \in Workers \cup {None}
        /\ running' = [running EXCEPT ![current] = TRUE]
        /\ UNCHANGED <<next, push, freed>>
        /\ freed = {}
    BY <1>1 DEF StartWorker
  <2>2. CASE main' = "deleting" /\ UNCHANGED pc
    <3>1. \A w \in Workers : pc'[w] # "unborn" => running'[w]
      BY <1>1, <2>1, <2>2 DEF StartWorker
    <3> QED BY <1>1, <2>1, <2>2, <3>1 DEF StartWorker
  <2>3. CASE /\ pc' = [pc EXCEPT ![current] = "enter"]
             /\ current' = next[current]
             /\ main' = IF current' = None THEN "started" ELSE "starting"
    <3>1. \A w \in Workers : pc'[w] # "unborn" => running'[w]
      BY <1>1, <2>1, <2>3 DEF StartWorker
    <3>2. current' # None => current' = current + 1
      BY <1>1, <2>1, <2>3, PoolAssumption DEF StartWorker, RingInv, Workers
    <3>3. main' = "starting" =>
              \A w \in Workers : w >= current' => pc'[w] = "unborn"
      BY <1>1, <2>1, <2>3, <3>2 DEF StartWorker, Workers
    <3> QED BY <1>1, <2>1, <2>3, <3>1, <3>3 DEF StartWorker
  <2> QED BY <1>1, <2>2, <2>3 DEF StartWorker
<1>2. ASSUME NEW p \in Pushers, Rotate(p)
      PROVE  LifeInv'
  BY <1>2 DEF Rotate
<1>3. ASSUME NEW p \in Pushers, Enqueue(p)
      PROVE  LifeInv'
  <2>1. /\ pc' = Signalled(push[p].worker) /\ push[p].worker \in Workers
        /\ main = "started"
        /\ UNCHANGED <<main, current, next, running, freed>>
    BY <1>3 DEF Enqueue
  <2>2. \A w \in Workers : pc'[w] \in {"unborn", "done"} <=> pc[w] \in {"unborn", "done"}
    BY <2>1, SignalledWakes
  <2>3. \A w \in Workers : pc'[w] = "unborn" <=> pc[w] = "unborn"
    BY <2>1, SignalledWakes
  <2> QED BY <2>1, <2>2, <2>3
<1>4. ASSUME NEW w \in Workers, Work(w)
      PROVE  LifeInv'
  BY <1>4, WorkMoves
<1>5. CASE DeletePool
  BY <1>5 DEF DeletePool
<1>6. CASE StopWorker
  <2>1. /\ current \in Workers \ freed
        /\ running' = [running EXCEPT ![current] = FALSE]
        /\ main = "deleting"
        /\ main' = IF running[current] THEN "joining" ELSE "freeing"
        /\ UNCHANGED <<current, push, freed>>
    BY <1>6 DEF StopWorker, AfterStop
  <2>2. \A w \in Workers : pc'[w] = pc[w] \/ (pc[w] = "waiting" /\ pc'[w] = "woken")
    BY <1>6, <2>1, SignalledWakes DEF StopWorker
  <2>3. main' = "freeing" => pc[current] = "unborn"
    BY <2>1
  <2> QED BY <2>1, <2>2, <2>3
<1>7. CASE StopFreed
  BY <1>7 DEF StopFreed
<1>8. CASE JoinWorker
  BY <1>8 DEF JoinWorker
<1>9. CASE FreeWorker
  BY <1>9 DEF FreeWorker
<1>10. CASE UNCHANGED vars
  BY <1>10 DEF vars
<1> QED BY <1>1, <1>2, <1>3, <1>4, <1>5, <1>6, <1>7, <1>8, <1>9, <1>10
        DEF Next, Push, Delete

\* Every step keeps what a deletion has freed.
LEMMA DeleteStep ==
    ASSUME TypeInv, RingInv, LifeInv, DeleteInv, [Next]_vars
    PROVE  DeleteInv'
<1> USE DEF DeleteInv, Passed, list
<1>1. CASE StartWorker
  <2>1. freed' = {} /\ first' = first
    BY <1>1 DEF StartWorker, LifeInv
  <2>2. main' \in {"deleting", "joining", "freeing"} => current' = first'
    BY <1>1 DEF StartWorker
  <2>3. current' = first' => Passed' = {}
    BY <2>1 DEF TypeInv, TypeOK, Workers
  <2> QED BY <2>1, <2>2, <2>3
<1>2. ASSUME NEW p \in Pushers, Push(p)
      PROVE  DeleteInv'
  BY <1>2 DEF Push, Rotate, Enqueue, LifeInv
<1>3. ASSUME NEW w \in Workers, Work(w)
      PROVE  DeleteInv'
  BY <1>3, WorkMoves
<1>4. CASE DeletePool
  <2>1. freed' = {} /\ first' = first /\ current' = first
    BY <1>4 DEF DeletePool, LifeInv
  <2>2. Passed' = {}
    BY <2>1 DEF TypeInv, TypeOK, Workers
  <2> QED BY <2>1, <2>2
<1>5. CASE StopWorker
  <2>1. /\ main = "deleting" /\ current \notin freed /\ current \in Workers
        /\ UNCHANGED <<current, list, freed>>
    BY <1>5 DEF StopWorker, TypeInv
  <2> QED BY <2>1
<1>6. CASE StopFreed \/ JoinWorker
  BY <1>6 DEF StopFreed, JoinWorker
<1>7. CASE FreeWorker
  <2>1. main = "freeing" /\ UNCHANGED list
    BY <1>7 DEF FreeWorker
  <2>2. CASE UNCHANGED <<main, current, freed>>
    BY <2>1, <2>2
  <2>3. CASE /\ freed' = freed \cup {current}
             /\ current' = next[current]
             /\ main' = IF current' = None THEN "deleted" ELSE "deleting"
    <3>1. /\ freed = Passed
          /\ first \in Workers /\ current \in Workers
          /\ freed' = freed \cup {current}
      BY <2>1, <2>3 DEF TypeInv, TypeOK
    <3>2. CASE current # Count
      <4>1. current' = current + 1
        BY <2>3, <3>1, <3>2 DEF RingInv
      <4>2. CASE current + 1 = first
        <5>1. freed' = Workers
          BY <3>1, <4>2, PoolAssumption DEF Workers
        <5>2. next[Count] = 1
          BY <3>1, <4>2 DEF RingInv, Workers
        <5> QED BY <2>1, <2>3, <4>1, <4>2, <5>1, <5>2, PoolAssumption
      <4>3. CASE current + 1 # first
        <5>1. freed' = Passed'
          BY <2>1, <3>1, <4>1, <4>3, PoolAssumption DEF Workers
        <5> QED BY <5>1
      <4> QED BY <4>2, <4>3
    <3>3. CASE current = Count /\ next[Count] = 1
      <4>1. current' = 1 /\ main' = "deleting"
        BY <2>3, <3>3, PoolAssumption
      <4>2. CASE first = 1
        <5>1. freed' = Workers
          BY <3>1, <3>3, <4>2, PoolAssumption DEF Workers
        <5> QED BY <2>1, <3>3, <4>1, <4>2, <5>1
      <4>3. CASE first # 1
        <5>1. freed' = Passed'
          BY <2>1, <3>1, <3>3, <4>1, <4>3, PoolAssumption DEF Workers
        <5> QED BY <5>1
      <4> QED BY <4>2, <4>3
    <3>4. CASE current = Count /\ next[Count] = None
      BY <2>3, <3>4
    <3> QED BY <3>2, <3>3, <3>4 DEF RingInv
  <2> QED BY <1>7, <2>2, <2>3 DEF FreeWorker
<1>8. CASE UNCHANGED vars
  BY <1>8 DEF vars
<1> QED BY <1>1, <1>2, <1>3, <1>4, <1>5, <1>6, <1>7, <1>8 DEF Next, Delete

\* Every step keeps sleeping workers without work.
LEMMA SleepStep ==
    ASSUME TypeInv, LifeInv, SleepInv, [Next]_vars
    PROVE  SleepInv'
<1> USE DEF TypeInv, TypeOK, SleepInv, list, queue, history
<1>1. CASE StartWorker
  <2>1. /\ current \in Workers
        /\ running' = [running EXCEPT ![current] = TRUE]
        /\ pc' \in {pc, [pc EXCEPT ![current] = "enter"]}
        /\ UNCHANGED work_next
    BY <1>1 DEF StartWorker
  <2>2. \A w \in Workers : pc[w] # "done"
    BY <1>1 DEF StartWorker, LifeInv
  <2> QED BY <2>1, <2>2
<1>2. ASSUME NEW p \in Pushers, Rotate(p)
      PROVE  SleepInv'
  BY <1>2 DEF Rotate
<1>3. ASSUME NEW p \in Pushers, Enqueue(p)
      PROVE  SleepInv'
  <2> DEFINE w == push[p].worker
  <2>1. /\ w \in Workers /\ pc' = Signalled(w)
        /\ main = "started"
        /\ running' = running
        /\ \A v \in Workers : v # w => work_next'[v] = work_next[v]
    BY <1>3 DEF Enqueue, LifeInv
  <2> HIDE DEF w
  <2>2. \A v \in Workers : pc'[v] = IF v = w /\ pc[v] = "waiting" THEN "woken" ELSE pc[v]
    BY <2>1, SignalledWakes
  <2>3. \A v \in Workers : pc[v] # "done"
    BY <2>1 DEF LifeInv
  <2> QED BY <2>1, <2>2, <2>3
<1>4. ASSUME NEW w \in Workers, Work(w)
      PROVE  SleepInv'
  BY <1>4, WorkMoves
<1>5. CASE DeletePool \/ StopFreed \/ JoinWorker \/ FreeWorker
  BY <1>5 DEF DeletePool, StopFreed, JoinWorker, FreeWorker
<1>6. CASE StopWorker
  <2>1. /\ current \in Workers
        /\ running' = [running EXCEPT ![current] = FALSE]
        /\ pc' = IF running[current] THEN Signalled(current) ELSE pc
        /\ UNCHANGED work_next
    BY <1>6 DEF StopWorker
  <2>2. \A w \in Workers : pc'[w] = pc[w] \/ (pc[w] = "waiting" /\ pc'[w] = "woken")
    BY <2>1, SignalledWakes
  <2>3. pc'[current] # "waiting"
    BY <2>1, SignalledWakes
  <2> QED BY <2>1, <2>2, <2>3
<1>7. CASE UNCHANGED vars
  BY <1>7 DEF vars
<1> QED BY <1>1, <1>2, <1>3, <1>4, <1>5, <1>6, <1>7 DEF Next, Push, Delete

-------------------------------------------------------------------------------
(* Work and its memory, while every push meets a worker without work *)

\* A step that leaves work, memory and jobs alone.
LEMMA IdleFrame ==
    ASSUME IdleInv,
           UNCHANGED <<queue, popped, data, push, history>>,
           \A w \in Workers :
               /\ pc'[w] \in {"fetch", "call"} <=> pc[w] \in {"fetch", "call"}
               /\ pc'[w] = "call" <=> pc[w] = "call"
    PROVE  IdleInv'
<1>1. \A w \in Workers : Pending(w)' = Pending(w) /\ Memories(w)' = Memories(w)
  BY DEF Pending, Memories, queue
<1>2. QueueInv => QueueInv'
  BY DEF QueueInv, queue
<1>3. MemoryInv => MemoryInv'
  BY <1>1 DEF MemoryInv, history
<1>4. JobInv => JobInv'
  BY <1>1 DEF JobInv, queue, history
<1> QED BY <1>2, <1>3, <1>4 DEF IdleInv, history

\* A rotation brings a job that was nowhere before.
LEMMA RotateIdle ==
    ASSUME TypeInv, IdleInv, NEW p \in Pushers, Rotate(p)
    PROVE  IdleInv'
<1>1. CASE FirstAfter = None
  BY <1>1, IdleFrame DEF Rotate, queue, history
<1>2. CASE FirstAfter # None
  <2> SUFFICES ASSUME ~crowded, QueueInv, MemoryInv, JobInv
               PROVE  QueueInv' /\ MemoryInv' /\ JobInv'
    BY <1>2 DEF Rotate, IdleInv
  <2>1. /\ push[p] = NoPush /\ push[p].job = None
        /\ pushed \in Nat /\ pushed' = pushed + 1 /\ pushed + 1 \in Jobs
        /\ push' = [push EXCEPT ![p] = [worker |-> first, job |-> pushed + 1]]
        /\ UNCHANGED <<queue, pc, popped, data, runs, mixed>>
    BY <1>2, PoolAssumption DEF Rotate, TypeInv, TypeOK, NoPush, Jobs
  <2>2. /\ push'[p].job = pushed + 1
        /\ \A q \in Pushers : q # p => push'[q] = push[q]
    BY <2>1 DEF TypeInv, TypeOK
  <2>3. \A w \in Workers : Pending(w)' = Pending(w) /\ Memories(w)' = Memories(w)
    BY <2>1 DEF Pending, Memories, queue
  <2>4. QueueInv'
    BY <2>1 DEF QueueInv, queue
  <2>5. \A w \in Workers : Memories(w) \subseteq Jobs
    BY DEF Memories, TypeInv, TypeOK
  <2>6. MemoryInv'
    BY <2>1, <2>2, <2>3, <2>5 DEF MemoryInv, Jobs
  <2>7. \A q \in Pushers : push[q] # NoPush => push[q].job \in 1 .. pushed
    BY <2>1 DEF JobInv, TypeInv, Jobs
  <2>8. \A q \in Pushers : push[q] = NoPush => push[q].job = None
    BY DEF NoPush
  <2>9. \A q, r \in Pushers :
            push'[q] # NoPush /\ push'[q].job = push'[r].job => q = r
    BY <2>1, <2>2, <2>7, <2>8, PoolAssumption DEF JobInv
  <2>10. \A q \in Pushers : push'[q] # NoPush =>
             push'[q].job <= pushed' /\ runs'[push'[q].job] = 0
    BY <2>1, <2>2, <2>7 DEF JobInv, Jobs
  <2>11. \A w \in Workers : \A j \in Pending(w)' :
             /\ j \in Jobs /\ j <= pushed' /\ runs'[j] = 0
             /\ \A q \in Pushers : push'[q].job # j
    BY <2>1, <2>2, <2>3 DEF JobInv, Jobs
  <2>12. \A j \in Jobs : runs'[j] <= 1 /\ (j > pushed' => runs'[j] = 0)
    BY <2>1 DEF JobInv, Jobs
  <2>13. \A j \in Jobs : j <= pushed' /\ runs'[j] = 0 =>
             \/ \E q \in Pushers : push'[q].job = j
             \/ \E w \in Workers : j \in Pending(w)'
    <3> SUFFICES ASSUME NEW j \in Jobs, j <= pushed', runs'[j] = 0
                 PROVE  \/ \E q \in Pushers : push'[q].job = j
                        \/ \E w \in Workers : j \in Pending(w)'
      OBVIOUS
    <3>1. CASE j = pushed + 1
      BY <3>1, <2>2
    <3>2. CASE j # pushed + 1
      <4>1. j <= pushed /\ runs[j] = 0 /\ j \in Nat
        BY <3>2, <2>1 DEF Jobs
      <4>2. \A q \in Pushers : push[q].job = j => push'[q].job = j
        BY <4>1, <2>1, <2>2, PoolAssumption
      <4> QED BY <4>1, <4>2, <2>3 DEF JobInv
    <3> QED BY <3>1, <3>2
  <2>14. JobInv'
    BY <2>1, <2>3, <2>9, <2>10, <2>11, <2>12, <2>13 DEF JobInv, queue
  <2> QED BY <2>4, <2>6, <2>14
<1> QED BY <1>1, <1>2

\* A job that is queued at a worker without work is put into memory that no
\* other worker has.
LEMMA EnqueueIdle ==
    ASSUME TypeInv, IdleInv, NEW p \in Pushers, Enqueue(p)
    PROVE  IdleInv'
<1> SUFFICES ASSUME ~crowded'
             PROVE  QueueInv' /\ MemoryInv' /\ JobInv'
  BY DEF IdleInv
<1>0. PICK w \in Workers, k \in Jobs, m \in Jobs :
          w = push[p].worker /\ k = push[p].job /\ m = Memory(w, k)
  BY MemoryTypes DEF Enqueue, TypeInv
<1>1. /\ push[p] # NoPush
      /\ ~crowded /\ work_next[w] = None /\ popped[w] = None
  BY <1>0 DEF Enqueue
<1>2. QueueInv /\ MemoryInv /\ JobInv
  BY <1>1 DEF IdleInv
<1>3. work_last[w] = None
  BY <1>1, <1>2 DEF QueueInv
<1>4. m = k \/ (m = work_free[w] /\ m \in Memories(w))
  BY <1>0, PoolAssumption DEF Memory, Memories, Jobs
<1>5. /\ work_next' = [work_next EXCEPT ![w] = m]
      /\ work_last' = [work_last EXCEPT ![w] = m]
      /\ work' = [work EXCEPT ![m] = [job |-> k, next |-> None]]
      /\ pc' = Signalled(w)
      /\ push' = [push EXCEPT ![p] = NoPush]
      /\ UNCHANGED <<work_free, popped, data, pushed, runs, mixed>>
  BY <1>0, <1>3 DEF Enqueue
<1>6. \A v \in Workers : v # w => m \notin Memories(v)
  BY <1>0, <1>1, <1>2, <1>4 DEF MemoryInv
<1>7. /\ \A v \in Workers : v # w => /\ work_next'[v] = work_next[v]
                                     /\ work_last'[v] = work_last[v]
      /\ work_next'[w] = m /\ work_last'[w] = m
      /\ work'[m].job = k /\ work'[m].next = None
      /\ \A x \in Jobs : x # m => work'[x] = work[x]
  BY <1>1, <1>4, <1>5 DEF TypeInv, TypeOK
<1>8. \A v \in Workers :
          /\ pc'[v] \in {"fetch", "call"} <=> pc[v] \in {"fetch", "call"}
          /\ pc'[v] = "call" <=> pc[v] = "call"
  BY <1>1, <1>5, SignalledWakes DEF TypeInv
<1>9. m # None /\ k # None
  BY <1>1, <1>4, PoolAssumption DEF Jobs
<1>10. \A v \in Workers : v # w =>
           /\ work_next[v] # None => work_next[v] # m /\ work_next[v] \in Jobs
           /\ popped[v] # None => popped[v] # m /\ popped[v] \in Jobs
  BY <1>6 DEF Memories, TypeInv, TypeOK
<1>11. QueueInv'
  BY <1>1, <1>2, <1>5, <1>7, <1>10 DEF QueueInv
<1>12. /\ \A v \in Workers : v # w => Memories(v)' = Memories(v)
       /\ Memories(w)' \subseteq Memories(w) \cup {m}
  BY <1>5, <1>7 DEF Memories
<1>13. /\ push'[p].job = None
       /\ \A q \in Pushers : q # p => push'[q] = push[q]
       /\ \A q \in Pushers : q # p => push[q].job # k
       /\ \A q \in Pushers : push'[q] # NoPush => push[q] # NoPush
       /\ \A q \in Pushers : push'[q] # NoPush => q # p
  BY <1>0, <1>1, <1>2, <1>5 DEF TypeInv, TypeOK, NoPush, JobInv
<1>14. MemoryInv'
  <2>1. \A u, v \in Workers : u # v => Memories(u)' \cap Memories(v)' = {}
    BY <1>1, <1>2, <1>6, <1>12 DEF MemoryInv
  <2>2. m <= pushed /\ \A q \in Pushers : push'[q].job # m
    BY <1>0, <1>1, <1>2, <1>4, <1>9, <1>13 DEF MemoryInv, JobInv
  <2>3. \A v \in Workers : \A x \in Memories(v) \cup {m} :
            x <= pushed /\ \A q \in Pushers : push'[q].job # x
    BY <1>2, <1>13, <2>2, <1>9 DEF MemoryInv, Memories
  <2> QED BY <1>5, <1>12, <2>1, <2>3 DEF MemoryInv
<1>15. Pending(w)' = {k}
  BY <1>7, <1>9 DEF Pending
<1>16. Pending(w) = {}
  BY <1>1 DEF Pending, TypeInv
<1>17. \A v \in Workers : v # w => Pending(v)' = Pending(v)
  <2> SUFFICES ASSUME NEW v \in Workers, v # w
               PROVE  Pending(v)' = Pending(v)
    OBVIOUS
  <2>1. /\ work_next'[v] = work_next[v]
        /\ work_next[v] # None => work'[work_next[v]] = work[work_next[v]]
        /\ popped[v] # None => work'[popped[v]] = work[popped[v]]
    BY <1>7, <1>10
  <2>2. pc[v] \in {"fetch", "call"} => popped[v] # None
    BY DEF TypeInv
  <2> QED BY <1>5, <1>8, <2>1, <2>2 DEF Pending
<1>18. JobInv'
  <2>1. ~mixed'
    BY <1>2, <1>5 DEF JobInv
  <2>2. \A q \in Pushers : push'[q] # NoPush =>
            push'[q].job <= pushed' /\ runs'[push'[q].job] = 0
    BY <1>2, <1>5, <1>13 DEF JobInv
  <2>3. \A q, r \in Pushers :
            push'[q] # NoPush /\ push'[q].job = push'[r].job => q = r
    <3> SUFFICES ASSUME NEW q \in Pushers, NEW r \in Pushers,
                        push'[q] # NoPush, push'[q].job = push'[r].job
                 PROVE  q = r
      OBVIOUS
    <3>1. q # p /\ push[q] # NoPush /\ push[q].job \in Jobs
      BY <1>13 DEF TypeInv
    <3>2. r # p
      BY <1>13, <3>1, PoolAssumption DEF Jobs
    <3> QED BY <1>2, <1>13, <3>1, <3>2 DEF JobInv
  <2>4. \A v \in Workers : \A j \in Pending(v)' :
            /\ j \in Jobs /\ j <= pushed' /\ runs'[j] = 0
            /\ \A q \in Pushers : push'[q].job # j
    <3>1. k <= pushed /\ runs[k] = 0 /\ \A q \in Pushers : push'[q].job # k
      BY <1>0, <1>1, <1>2, <1>9, <1>13 DEF JobInv
    <3>2. \A v \in Workers : \A j \in Pending(v) :
              /\ j \in Jobs /\ j <= pushed /\ runs[j] = 0
              /\ \A q \in Pushers : push'[q].job # j
      BY <1>2, <1>13, PoolAssumption DEF JobInv, Jobs
    <3> QED BY <1>1, <1>5, <1>15, <1>17, <3>1, <3>2
  <2>5. \A u, v \in Workers : u # v => Pending(u)' \cap Pending(v)' = {}
    <3>1. \A v \in Workers : k \notin Pending(v)
      BY <1>0, <1>2 DEF JobInv
    <3> QED BY <1>2, <1>15, <1>17, <3>1 DEF JobInv
  <2>6. \A v \in Workers : pc'[v] = "call" => data'[v] = work'[popped'[v]].job
    <3>1. \A v \in Workers : pc[v] = "call" => v # w /\ popped[v] # None
      BY <1>1 DEF TypeInv
    <3> QED BY <1>2, <1>5, <1>7, <1>8, <1>10, <3>1 DEF JobInv
  <2>7. \A j \in Jobs : runs'[j] <= 1 /\ (j > pushed' => runs'[j] = 0)
    BY <1>2, <1>5 DEF JobInv
  <2>8. \A j \in Jobs : j <= pushed' /\ runs'[j] = 0 =>
            \/ \E q \in Pushers : push'[q].job = j
            \/ \E v \in Workers : j \in Pending(v)'
    <3> SUFFICES ASSUME NEW j \in Jobs, j <= pushed, runs[j] = 0, j # k
                 PROVE  \/ \E q \in Pushers : push'[q].job = j
                        \/ \E v \in Workers : j \in Pending(v)'
      BY <1>1, <1>5, <1>15
    <3>1. CASE \E q \in Pushers : push[q].job = j
      <4>1. PICK q \in Pushers : push[q].job = j
        BY <3>1
      <4>2. q # p
        BY <1>0, <4>1
      <4> QED BY <1>13, <4>1, <4>2
    <3>2. CASE \E v \in Workers : j \in Pending(v)
      BY <1>16, <1>17, <3>2
    <3> QED BY <1>2, <3>1, <3>2 DEF JobInv
  <2> QED BY <2>1, <2>2, <2>3, <2>4, <2>5, <2>6, <2>7, <2>8 DEF JobInv
<1> QED BY <1>11, <1>14, <1>18

\* A worker that takes its work keeps the memory and the job.
LEMMA PopIdle ==
    ASSUME TypeInv, IdleInv, NEW w \in Workers, Pop(w)
    PROVE  IdleInv'
<1>1. CASE work_next[w] = None
  <2>1. /\ UNCHANGED <<queue, popped, data, push, history>>
        /\ pc' = [pc EXCEPT ![w] = "enter"]
        /\ pc[w] \in {"woken", "enter"}
    BY <1>1 DEF Pop, WorkerOnly, queue, history
  <2> QED BY <2>1, IdleFrame DEF TypeInv, TypeOK
<1>2. CASE work_next[w] # None
  <2> SUFFICES ASSUME ~crowded, QueueInv, MemoryInv, JobInv
               PROVE  QueueInv' /\ MemoryInv' /\ JobInv'
    BY DEF IdleInv, Pop, WorkerOnly
  <2>0. PICK m \in Jobs : m = work_next[w]
    BY <1>2 DEF TypeInv, TypeOK
  <2>1. /\ pc' = [pc EXCEPT ![w] = "fetch"]
        /\ popped' = [popped EXCEPT ![w] = m]
        /\ work_next' = [work_next EXCEPT ![w] = None]
        /\ work_last' = [work_last EXCEPT ![w] = None]
        /\ UNCHANGED <<work_free, work, data, push, pushed, runs, mixed>>
    BY <1>2, <2>0 DEF Pop, QueueInv, WorkerOnly
  <2>2. m # None
    BY <1>2, <2>0
  <2>3. /\ popped'[w] = m /\ work_next'[w] = None /\ work_last'[w] = None
        /\ pc'[w] = "fetch"
        /\ \A v \in Workers : v # w => /\ popped'[v] = popped[v]
                                       /\ work_next'[v] = work_next[v]
                                       /\ work_last'[v] = work_last[v]
                                       /\ pc'[v] = pc[v]
    BY <2>1 DEF TypeInv, TypeOK
  <2>4. QueueInv'
    BY <2>1, <2>3 DEF QueueInv
  <2>5. \A v \in Workers : Memories(v)' \subseteq Memories(v)
    BY <2>0, <2>1, <2>3 DEF Memories
  <2>6. MemoryInv'
    BY <2>1, <2>5 DEF MemoryInv
  <2>7. \A v \in Workers : Pending(v)' = Pending(v)
    BY <2>0, <2>1, <2>2, <2>3 DEF Pending
  <2>8. \A v \in Workers : pc'[v] = "call" => data'[v] = work'[popped'[v]].job
    BY <2>1, <2>3 DEF JobInv
  <2>9. JobInv'
    BY <2>1, <2>7, <2>8 DEF JobInv
  <2> QED BY <2>4, <2>6, <2>9
<1> QED BY <1>1, <1>2

\* The data a worker reads is that of the job it will call.
LEMMA FetchIdle ==
    ASSUME TypeInv, IdleInv, NEW w \in Workers, FetchData(w)
    PROVE  IdleInv'
<1> SUFFICES ASSUME ~crowded, QueueInv, MemoryInv, JobInv
             PROVE  QueueInv' /\ MemoryInv' /\ JobInv'
  BY DEF IdleInv, FetchData, WorkerOnly
<1>1. /\ pc' = [pc EXCEPT ![w] = "call"] /\ pc[w] = "fetch"
      /\ data' = [data EXCEPT ![w] = work[popped[w]].job]
      /\ UNCHANGED <<queue, popped, push, pushed, runs, mixed>>
  BY DEF FetchData, WorkerOnly
<1>2. /\ pc'[w] = "call" /\ data'[w] = work[popped[w]].job
      /\ \A v \in Workers : v # w => pc'[v] = pc[v] /\ data'[v] = data[v]
  BY <1>1 DEF TypeInv, TypeOK
<1>3. QueueInv'
  BY <1>1 DEF QueueInv, queue
<1>4. \A v \in Workers : Memories(v)' = Memories(v)
  BY <1>1 DEF Memories, queue
<1>5. MemoryInv'
  BY <1>1, <1>4 DEF MemoryInv
<1>6. \A v \in Workers : Pending(v)' = Pending(v)
  BY <1>1, <1>2 DEF Pending, queue
<1>7. \A v \in Workers : pc'[v] = "call" => data'[v] = work'[popped'[v]].job
  BY <1>1, <1>2 DEF JobInv, queue
<1>8. JobInv'
  BY <1>1, <1>6, <1>7 DEF JobInv
<1> QED BY <1>3, <1>5, <1>8

\* A job that is called was still to be called, and no longer is.
LEMMA CallIdle ==
    ASSUME TypeInv, IdleInv, NEW w \in Workers, CallFunc(w)
    PROVE  IdleInv'
<1> SUFFICES ASSUME ~crowded, QueueInv, MemoryInv, JobInv
             PROVE  QueueInv' /\ MemoryInv' /\ JobInv'
  BY DEF IdleInv, CallFunc, WorkerOnly
<1>0. work_next[w] = None /\ popped[w] # None /\ pc[w] = "call"
  BY DEF CallFunc, QueueInv, TypeInv
<1>1. Pending(w) = {work[popped[w]].job}
  BY <1>0 DEF Pending
<1>2. PICK j \in Jobs : j = work[popped[w]].job
  BY <1>1 DEF JobInv
<1>3. /\ pc' = [pc EXCEPT ![w] = "returned"]
      /\ runs' = [runs EXCEPT ![j] = @ + 1]
      /\ mixed' = (mixed \/ j # data[w])
      /\ UNCHANGED <<queue, popped, data, push, pushed>>
  BY <1>2 DEF CallFunc, WorkerOnly
<1>4. /\ pc'[w] = "returned"
      /\ \A v \in Workers : v # w => pc'[v] = pc[v]
  BY <1>3 DEF TypeInv, TypeOK
<1>5. /\ runs[j] = 0 /\ j <= pushed
      /\ \A q \in Pushers : push[q].job # j
      /\ \A v \in Workers : v # w => j \notin Pending(v)
  BY <1>1, <1>2 DEF JobInv
<1>6. runs'[j] = 1 /\ \A i \in Jobs : i # j => runs'[i] = runs[i]
  BY <1>3, <1>5 DEF TypeInv, TypeOK
<1>7. QueueInv'
  BY <1>3 DEF QueueInv, queue
<1>8. \A v \in Workers : Memories(v)' = Memories(v)
  BY <1>3 DEF Memories, queue
<1>9. MemoryInv'
  BY <1>3, <1>8 DEF MemoryInv
<1>10. /\ Pending(w)' = {}
       /\ \A v \in Workers : v # w => Pending(v)' = Pending(v)
  BY <1>0, <1>3, <1>4 DEF Pending, queue
<1>11. JobInv'
  <2>1. ~mixed'
    BY <1>0, <1>2, <1>3 DEF JobInv
  <2>2. \A q \in Pushers : push'[q] # NoPush =>
            push'[q].job <= pushed' /\ runs'[push'[q].job] = 0
    BY <1>3, <1>5, <1>6 DEF JobInv, TypeInv
  <2>3. \A q, r \in Pushers :
            push'[q] # NoPush /\ push'[q].job = push'[r].job => q = r
    BY <1>3 DEF JobInv
  <2>4. \A v \in Workers : \A i \in Pending(v)' :
            /\ i \in Jobs /\ i <= pushed' /\ runs'[i] = 0
            /\ \A q \in Pushers : push'[q].job # i
    <3> SUFFICES ASSUME NEW v \in Workers, NEW i \in Pending(v)'
                 PROVE  /\ i \in Jobs /\ i <= pushed' /\ runs'[i] = 0
                        /\ \A q \in Pushers : push'[q].job # i
      OBVIOUS
    <3>1. v # w /\ i \in Pending(v) /\ i # j
      BY <1>5, <1>10
    <3> QED BY <1>3, <1>6, <3>1 DEF JobInv
  <2>5. \A u, v \in Workers : u # v => Pending(u)' \cap Pending(v)' = {}
    BY <1>10 DEF JobInv
  <2>6. \A v \in Workers : pc'[v] = "call" => data'[v] = work'[popped'[v]].job
    BY <1>3, <1>4 DEF JobInv, queue
  <2>7. \A i \in Jobs : runs'[i] <= 1 /\ (i > pushed' => runs'[i] = 0)
    <3>1. ~ (j > pushed)
      BY <1>5 DEF TypeInv, TypeOK, Jobs
    <3> QED BY <1>3, <1>6, <3>1 DEF JobInv
  <2>8. \A i \in Jobs : i <= pushed' /\ runs'[i] = 0 =>
            \/ \E q \in Pushers : push'[q].job = i
            \/ \E v \in Workers : i \in Pending(v)'
    <3> SUFFICES ASSUME NEW i \in Jobs, i <= pushed, runs[i] = 0, i # j
                 PROVE  \/ \E q \in Pushers : push'[q].job = i
                        \/ \E v \in Workers : i \in Pending(v)'
      BY <1>3, <1>6
    <3>1. i \notin Pending(w)
      BY <1>1, <1>2
    <3> QED BY <1>3, <1>10, <3>1 DEF JobInv
  <2> QED BY <2>1, <2>2, <2>3, <2>4, <2>5, <2>6, <2>7, <2>8 DEF JobInv
<1> QED BY <1>7, <1>9, <1>11

\* Memory that goes back to the free list of its worker is still that worker's,
\* whatever becomes of the list.
LEMMA DoneIdle ==
    ASSUME TypeInv, IdleInv, NEW w \in Workers, WorkDone(w)
    PROVE  IdleInv'
<1> SUFFICES ASSUME ~crowded, QueueInv, MemoryInv, JobInv
             PROVE  QueueInv' /\ MemoryInv' /\ JobInv'
  BY DEF IdleInv, WorkDone, WorkerOnly
<1>1. /\ pc[w] = "returned" /\ popped[w] \in Jobs /\ popped[w] # None
      /\ work_next[w] = None
  BY DEF WorkDone, TypeInv, TypeOK, QueueInv
<1>2. PICK m \in Jobs : m = popped[w]
  BY <1>1
<1>3. /\ work' \in {work, [work EXCEPT ![m].next = work_free[w]]}
      /\ work_free' = [work_free EXCEPT ![w] = m]
      /\ popped' = [popped EXCEPT ![w] = None]
      /\ data' = [data EXCEPT ![w] = None]
      /\ pc' = [pc EXCEPT ![w] = "enter"]
      /\ UNCHANGED <<work_next, work_last, push, pushed, runs, mixed>>
  BY <1>2 DEF WorkDone, WorkerOnly
<1>4. /\ work_free'[w] = m /\ popped'[w] = None /\ pc'[w] = "enter"
      /\ \A v \in Workers : v # w => /\ work_free'[v] = work_free[v]
                                     /\ popped'[v] = popped[v]
                                     /\ data'[v] = data[v]
                                     /\ pc'[v] = pc[v]
  BY <1>3 DEF TypeInv, TypeOK
<1>5. /\ \A x \in Jobs : work'[x].job = work[x].job
      /\ \A x \in Jobs : x # m => work'[x] = work[x]
  BY <1>3 DEF TypeInv, TypeOK
<1>6. \A v \in Workers : work_next[v] # None =>
          work_next[v] \in Jobs /\ work_next[v] # m
  <2>1. m \in Memories(w)
    BY <1>1, <1>2 DEF Memories
  <2>2. \A v \in Workers : work_next[v] # None =>
            work_next[v] \in Jobs /\ work_next[v] \in Memories(v)
    BY DEF TypeInv, TypeOK, Memories
  <2> QED BY <1>1, <2>1, <2>2 DEF MemoryInv
<1>7. QueueInv'
  BY <1>3, <1>4, <1>5, <1>6, <1>1 DEF QueueInv
<1>8. \A v \in Workers : Memories(v)' \subseteq Memories(v)
  BY <1>2, <1>3, <1>4 DEF Memories
<1>9. MemoryInv'
  BY <1>3, <1>8 DEF MemoryInv
<1>10. \A v \in Workers :
           pc[v] \in {"fetch", "call"} => popped[v] \in Jobs /\ v # w
  BY <1>1 DEF TypeInv, TypeOK
<1>11. \A v \in Workers : Pending(v)' = Pending(v)
  <2>1. Pending(w)' = Pending(w)
    BY <1>1, <1>3, <1>4 DEF Pending
  <2>2. ASSUME NEW v \in Workers, v # w
        PROVE  Pending(v)' = Pending(v)
    <3>1. work_next'[v] = work_next[v] /\ pc'[v] = pc[v] /\ popped'[v] = popped[v]
      BY <1>3, <1>4, <2>2
    <3>2. work_next[v] # None => work'[work_next[v]].job = work[work_next[v]].job
      BY <1>5, <1>6
    <3>3. pc[v] \in {"fetch", "call"} => work'[popped[v]].job = work[popped[v]].job
      BY <1>5, <1>10
    <3> QED BY <3>1, <3>2, <3>3 DEF Pending
  <2> QED BY <2>1, <2>2
<1>12. \A v \in Workers : pc'[v] = "call" => data'[v] = work'[popped'[v]].job
  BY <1>4, <1>5, <1>10 DEF JobInv
<1>13. JobInv'
  BY <1>3, <1>11, <1>12 DEF JobInv
<1> QED BY <1>7, <1>9, <1>13

\* Every step keeps work, memory and jobs right.
LEMMA IdleStep ==
    ASSUME TypeInv, RingInv, LifeInv, IdleInv, [Next]_vars
    PROVE  IdleInv'
<1>1. ASSUME NEW p \in Pushers, Push(p)
      PROVE  IdleInv'
  BY <1>1, RotateIdle, EnqueueIdle DEF Push
<1>2. ASSUME NEW w \in Workers, Work(w)
      PROVE  IdleInv'
  <2>1. CASE Sleep(w) \/ WakeUp(w) \/ StopRunning(w)
    BY <2>1, IdleFrame
       DEF Sleep, WakeUp, StopRunning, WorkerOnly, history, TypeInv, TypeOK
  <2> QED BY <1>2, <2>1, PopIdle, FetchIdle, CallIdle, DoneIdle DEF Work
<1>3. CASE StartWorker
  <2>1. current \in Workers /\ pc[current] = "unborn"
    BY <1>3, PoolAssumption DEF StartWorker, TypeInv, LifeInv, Workers
  <2>2. pc' \in {pc, [pc EXCEPT ![current] = "enter"]}
    BY <1>3 DEF StartWorker
  <2> QED BY <1>3, <2>1, <2>2, IdleFrame DEF StartWorker, TypeInv, TypeOK
<1>4. CASE StopWorker
  <2>1. pc' \in {pc, Signalled(current)} /\ current \in Workers
    BY <1>4 DEF StopWorker, TypeInv
  <2> QED BY <1>4, <2>1, SignalledWakes, IdleFrame DEF StopWorker, TypeInv
<1>5. CASE DeletePool \/ StopFreed \/ JoinWorker \/ FreeWorker \/ UNCHANGED vars
  BY <1>5, IdleFrame
     DEF DeletePool, StopFreed, JoinWorker, FreeWorker, vars, queue, history
<1> QED BY <1>1, <1>2, <1>3, <1>4, <1>5 DEF Next, Delete

-------------------------------------------------------------------------------
(* The theorems *)

\* The inductive invariant holds at the start, whatever malloc left in running.
LEMMA InitIInv == Init => IInv
<1> SUFFICES ASSUME Init PROVE IInv
  OBVIOUS
<1> USE PoolAssumption DEF Init, Workers, Jobs
<1>1. TypeOK
  <2>1. /\ next \in [Workers -> Workers \cup {None}]
        /\ first \in Workers /\ last \in Workers
        /\ current \in Workers \cup {None}
    OBVIOUS
  <2>2. /\ work \in [Jobs -> [job : Jobs \cup {None}, next : Jobs \cup {None}]]
        /\ push \in [Pushers -> [worker : Workers \cup {None}, job : Jobs \cup {None}]]
    BY DEF NoPush
  <2>3. /\ given \in [Workers -> 0 .. MaxPushes]
        /\ runs \in [Jobs -> 0 .. MaxRuns]
        /\ pushed \in 0 .. MaxPushes
    OBVIOUS
  <2>4. mixed \in BOOLEAN /\ crowded \in BOOLEAN /\ crashed \in BOOLEAN
    OBVIOUS
  <2> QED BY <2>1, <2>2, <2>3, <2>4 DEF TypeOK
<1>2. TypeInv
  BY <1>1 DEF TypeInv
<1>3. RingInv
  BY DEF RingInv
<1>4. LifeInv /\ SleepInv
  BY DEF LifeInv, SleepInv
<1>7. DeleteInv
  BY DEF DeleteInv
<1>5. \A w \in Workers : Memories(w) = {} /\ Pending(w) = {}
  BY DEF Memories, Pending
<1>6. QueueInv /\ MemoryInv /\ JobInv
  BY <1>5 DEF QueueInv, MemoryInv, JobInv
<1> QED BY <1>2, <1>3, <1>4, <1>6, <1>7 DEF IInv, IdleInv

\* Every step keeps the inductive invariant.
LEMMA NextIInv == IInv /\ [Next]_vars => IInv'
  BY TypeStep, RingStep, LifeStep, DeleteStep, SleepStep, IdleStep DEF IInv

\* The inductive invariant is an invariant of the pool.
THEOREM PoolInvariant == Spec => []IInv
  BY InitIInv, NextIInv, PTL DEF Spec

\* Neither a push nor a stop is missed by a worker that goes to sleep, and a
\* worker that returned leaves no queue behind.
THEOREM PoolNoLostWakeup == Spec => []NoLostWakeup
<1>1. IInv => NoLostWakeup
  BY DEF IInv, TypeInv, SleepInv, NoLostWakeup
<1> QED BY <1>1, PoolInvariant, PTL

\* The pushes of however many threads are spread evenly over the workers.
THEOREM PoolBalanced == Spec => []Balanced
<1>1. IInv => Balanced
  <2> SUFFICES ASSUME IInv, NEW v \in Workers, NEW w \in Workers
               PROVE  given[v] <= given[w] + 1
    BY DEF Balanced
  <2>1. PICK n \in 0 .. pushed :
            \A u \in Workers : given[u] = IF u < first THEN n + 1 ELSE n
    BY DEF IInv, RingInv
  <2>2. pushed \in Nat
    BY PoolAssumption DEF IInv, TypeInv, TypeOK
  <2> QED BY <2>1, <2>2
<1> QED BY <1>1, PoolInvariant, PTL

\* For any number of workers and pushes: a worker is freed once its thread
\* returned or never ran and nobody else uses it, and main comes to a freed one
\* only when it has deleted all workers of a list that pushes made a ring.
THEOREM PoolJoinedBeforeFree == Spec => []JoinedBeforeFree
<1>1. ASSUME IInv, NEW w \in freed
      PROVE  /\ pc[w] \in {"unborn", "done"} /\ popped[w] = None
             /\ \A p \in Pushers : push[p].worker # w
  <2>1. w \in Workers /\ main # "started" /\ None \notin Workers
    BY <1>1, PoolAssumption DEF IInv, TypeInv, TypeOK, LifeInv, Workers
  <2>2. pc[w] \in {"unborn", "done"} /\ popped[w] = None
    BY <1>1, <2>1 DEF IInv, TypeInv, LifeInv
  <2>3. \A p \in Pushers : push[p].worker = None
    BY <1>1, <2>1 DEF IInv, LifeInv, NoPush
  <2> QED BY <2>1, <2>2, <2>3
<1>2. ASSUME IInv, main \in {"deleting", "joining", "freeing"}, current \in freed
      PROVE  main = "deleting" /\ pushed > 0 /\ freed = Workers /\ current = first
  <2>1. current \in Workers /\ first \in Workers
    BY <1>2 DEF IInv, TypeInv, TypeOK
  <2>2. freed # Passed
    BY <1>2, <2>1 DEF Passed, Workers
  <2>3. main = "deleting" /\ freed = Workers /\ current = first /\ next[Count] = 1
    BY <1>2, <2>2 DEF IInv, DeleteInv
  <2> QED BY <1>2, <2>3, PoolAssumption DEF IInv, RingInv
<1>3. IInv => JoinedBeforeFree
  BY <1>1, <1>2 DEF JoinedBeforeFree
<1> QED BY <1>3, PoolInvariant, PTL

\* A job that a worker still has to call is in its queue or in its hands.
LEMMA PendingReachable ==
    ASSUME TypeInv, QueueInv, NEW w \in Workers
    PROVE  Pending(w) \subseteq Reachable(w)
<1>1. CASE work_next[w] # None
  <2> DEFINE Follows(f) ==
                 f = [n \in 0 .. MaxPushes |->
                          IF n = 0 THEN work_next[w]
                          ELSE IF f[n - 1] = None THEN None ELSE work[f[n - 1]].next]
             only == [n \in 0 .. MaxPushes |-> IF n = 0 THEN work_next[w] ELSE None]
             at == CHOOSE f : Follows(f)
  <2>1. Follows(only)
    BY <1>1, PoolAssumption DEF QueueInv
  <2> HIDE DEF only
  <2>2. Follows(at)
    <3> HIDE DEF Follows
    <3> QED BY <2>1, Zenon
  <2>3. {work[at[n]].job : n \in {m \in 0 .. MaxPushes : at[m] # None}} \subseteq Reachable(w)
    BY DEF Reachable, Chain
  <2> HIDE DEF at
  <2>4. at[0] = work_next[w] /\ 0 \in 0 .. MaxPushes
    BY <2>2, PoolAssumption
  <2> QED BY <1>1, <2>3, <2>4 DEF Pending
<1>2. CASE work_next[w] = None
  BY <1>2 DEF Pending, Reachable
<1> QED BY <1>1, <1>2

\* As long as every push meets a worker without work, each job is called once,
\* with its own data, or is still to come: reusing the memory of the job before
\* it loses nothing, for any number of workers, pushing threads and jobs.
THEOREM PoolIdleRunsOnce == Spec => []IdleRunsOnce
<1>1. IInv => IdleRunsOnce
  BY PendingReachable DEF IInv, IdleInv, JobInv, IdleRunsOnce, RunOnce
<1> QED BY <1>1, PoolInvariant, PTL
================================================================================
