---------------------------- MODULE ThreadPools ----------------------------
(***************************************************************************)
(* The strategies behind parallel_for (common/parallel_for_*.cpp): mutex   *)
(* pool (the one compiled in without OpenMP), atomic pool, queued pool,    *)
(* moody pool and spawning, under run_loop_in_parallel (common/thread.cpp).*)
(* A step is what a thread does between two points where another thread    *)
(* can observe it: one critical section, one atomic operation, one entry   *)
(* into or return from func, one notification.  A thread that waits on a   *)
(* condition variable sleeps until it is notified; no spurious wake-ups.   *)
(***************************************************************************)
EXTENDS Integers, Sequences, FiniteSets

CONSTANTS Strategies,       \* the strategies explored
          NumCpus,          \* get_num_cpus()
          MaxCalls,         \* bound: calls of parallel_for
          MaxIterations,    \* bound: num_iterations of a call
          DirectSizes,      \* num_iterations of the direct calls explored
          LoopSizes,        \* num_points of the loops explored
          InlineUpTo        \* no_multhreading_if_less_or_equal

ASSUME PoolAssumption ==
    /\ Strategies \subseteq {"mutex", "atomic", "queued", "moody", "spawning"}
    /\ NumCpus \in Nat \ {0} /\ NumCpus <= MaxIterations
    /\ {MaxCalls, MaxIterations, InlineUpTo} \cup LoopSizes \subseteq Nat
    /\ DirectSizes \subseteq 0 .. MaxIterations

VARIABLES strategy,
          pc,               \* where each thread is
          at,               \* the local variable iteration (index, i) of each thread
          job,              \* the call whose function the thread is executing
          call,             \* calls made so far
          n,                \* its argument num_iterations
          points,           \* num_points of the call, or -1 when it is direct
          num_iterations_, iteration_, complete_, task_,
          tasks,            \* the queue of a queued or moody pool
          tasks_running,
          complete_queue_,  \* moody: the messages "complete" not yet dequeued
          stop,
          begun, ended,     \* invocations of func, as in ParallelFor
          raced             \* did a thread use the state of a call that is not its own?

caller   == <<strategy, call, n, points>>
locals   == <<at, job>>
counters == <<num_iterations_, iteration_, complete_, task_>>
queues   == <<tasks, tasks_running, complete_queue_, stop>>
ghosts   == <<begun, ended, raced>>
vars == <<caller, pc, locals, counters, queues, ghosts>>

Main == 0
Invocations == (1 .. MaxCalls) \X (0 .. MaxIterations - 1)
Threads == 0 .. NumCpus

\* parallel_for_queued makes get_num_cpus() threads, the other pools one fewer
\* "because main thread works"; spawning makes them anew for every call.
Pool == IF strategy = "queued" THEN 1 .. NumCpus ELSE 1 .. NumCpus - 1

Init ==
    /\ strategy \in Strategies
    /\ pc = [t \in Threads |-> IF t = Main THEN "idle"
                               ELSE IF strategy = "spawning" \/ t \notin Pool THEN "none"
                               ELSE IF strategy = "moody" THEN "loop" ELSE "wait"]
    /\ at = [t \in Threads |-> 0] /\ job = [t \in Threads |-> 0]
    /\ call = 0 /\ n = 0 /\ points = -1
    /\ num_iterations_ = 0 /\ iteration_ = 0 /\ complete_ = 0 /\ task_ = 0
    /\ tasks = <<>> /\ tasks_running = 0 /\ complete_queue_ = 0
    /\ stop = FALSE /\ raced = FALSE
    /\ begun = [x \in Invocations |-> 0] /\ ended = [x \in Invocations |-> 0]

Goto(t, where) == pc' = [pc EXCEPT ![t] = where]

\* condition.notify_all() and condition.notify_one() on the workers' condition.
Woken(ts) == [t \in Threads |-> IF t \in ts /\ pc[t] = "asleep" THEN "wait" ELSE pc[t]]
Sleepers == {t \in Pool : pc[t] = "asleep"}

-----------------------------------------------------------------------------
(* The callers: run_loop_in_parallel and a direct parallel_for.            *)

ChunkSizeFault(p) == p \div NumCpus

ChunkSize(p) == p \div NumCpus + (IF p % NumCpus = 0 THEN 0 ELSE 1)

\* The points that the lambda handed to parallel_for passes to func.
Chunk(p, i) ==
    LET size  == ChunkSize(p)
        start == size * i
        rest  == p - start
    IN  IF start > p THEN {}
        ELSE start .. start + (IF rest < size THEN rest ELSE size) - 1

\* Small loops run on the calling thread as one block.
Handled(p, i) == IF p <= InlineUpTo THEN 0 .. p - 1 ELSE Chunk(p, i)

\* Where a call of parallel_for first goes.
Entry == IF strategy = "atomic" THEN "publish" ELSE "start"

Called(k, p, where) ==
    /\ pc[Main] = "idle" /\ call < MaxCalls
    /\ call' = call + 1 /\ n' = k /\ points' = p
    /\ Goto(Main, where)
    /\ UNCHANGED <<strategy, locals, counters, queues, ghosts>>

ParallelForDirect(k) == Called(k, -1, Entry)

RunLoopInParallel(p) ==
    IF p <= InlineUpTo THEN Called(1, p, "inline") ELSE Called(NumCpus, p, Entry)

\* func(0, num_points) on the caller's own stack.
Inline ==
    /\ pc[Main] = "inline"
    /\ at' = [at EXCEPT ![Main] = 0]
    /\ job' = [job EXCEPT ![Main] = call] /\ Goto(Main, "beginInline")
    /\ UNCHANGED <<caller, counters, queues, ghosts>>

InlineReturn ==
    /\ pc[Main] = "inlineDone" /\ Goto(Main, "idle")
    /\ UNCHANGED <<caller, locals, counters, queues, ghosts>>

-----------------------------------------------------------------------------
(* The invocation of func, the same in all strategies.  Mutex and atomic   *)
(* pools read task_ when they call it, without the lock.                    *)

Shared == strategy \in {"mutex", "atomic"}

Begin(t) ==
    /\ pc[t] \in {"begin", "beginInline"}
    /\ LET c == IF Shared /\ pc[t] = "begin" THEN task_ ELSE job[t]
       IN  /\ job' = [job EXCEPT ![t] = c]
           /\ begun' = [begun EXCEPT ![<<c, at[t]>>] = @ + 1]
    /\ Goto(t, IF pc[t] = "begin" THEN "end" ELSE "endInline")
    /\ UNCHANGED <<caller, at, counters, queues, ended, raced>>

\* Where a thread goes when func returns to it.
AfterTask(t) ==
    IF pc[t] = "endInline" THEN "inlineDone"
    ELSE IF strategy = "spawning" THEN "fetch" ELSE "count"

End(t) ==
    /\ pc[t] \in {"end", "endInline"}
    /\ ended' = [ended EXCEPT ![<<job[t], at[t]>>] = @ + 1]
    /\ Goto(t, AfterTask(t))
    /\ at' = [at EXCEPT ![t] = 0]
    /\ job' = IF strategy = "moody" THEN job ELSE [job EXCEPT ![t] = 0]
    /\ UNCHANGED <<caller, counters, queues, begun, raced>>

\* Leaving do_iterations, or the worker lambda of spawning.
Leave(t) == IF t = Main THEN "await" ELSE IF strategy = "spawning" THEN "exited" ELSE "wait"

-----------------------------------------------------------------------------
(* Mutex pool.                                                             *)

StartTasksFault ==
    /\ strategy = "mutex" /\ pc[Main] = "start"
    /\ task_' = call /\ num_iterations_' = n /\ iteration_' = 0
    /\ Goto(Main, "notify")
    /\ UNCHANGED <<caller, locals, complete_, queues, ghosts>>

\* start_tasks: the assignments under the lock.
StartTasks ==
    /\ strategy = "mutex" /\ pc[Main] = "start"
    /\ task_' = call /\ num_iterations_' = n /\ iteration_' = 0 /\ complete_' = 0
    /\ Goto(Main, "notify")
    /\ UNCHANGED <<caller, locals, queues, ghosts>>

\* condition.notify_all(), after the lock is released.
NotifyAll ==
    /\ Shared /\ pc[Main] = "notify"
    /\ pc' = [Woken(Pool) EXCEPT ![Main] = IF strategy = "mutex" THEN "take" ELSE "fetch"]
    /\ UNCHANGED <<caller, locals, counters, queues, ghosts>>

\* The first critical section of do_iterations.
Take(t) ==
    /\ strategy = "mutex" /\ pc[t] = "take"
    /\ IF iteration_ = num_iterations_
       THEN Goto(t, Leave(t)) /\ UNCHANGED <<at, iteration_>>
       ELSE /\ at' = [at EXCEPT ![t] = iteration_] /\ iteration_' = iteration_ + 1
            /\ Goto(t, "begin")
    /\ UNCHANGED <<caller, job, num_iterations_, complete_, task_, queues, ghosts>>

CountFault(t) ==
    /\ strategy = "mutex" /\ pc[t] = "count"
    /\ complete_' = complete_ + 1
    /\ Goto(t, IF complete_' = num_iterations_ THEN Leave(t) ELSE "take")
    /\ UNCHANGED <<caller, locals, num_iterations_, iteration_, task_, queues, ghosts>>

\* The second one: the last iteration notifies the main thread.
Count(t) ==
    /\ strategy = "mutex" /\ pc[t] = "count"
    /\ complete_' = complete_ + 1
    /\ IF complete_' = num_iterations_
       THEN pc' = [pc EXCEPT ![t] = Leave(t),
                             ![Main] = IF t = Main THEN "await"
                                       ELSE IF @ = "awaiting" THEN "await" ELSE @]
       ELSE Goto(t, "take")
    /\ UNCHANGED <<caller, locals, num_iterations_, iteration_, task_, queues, ghosts>>

\* worker_loop: condition.wait for an iteration or for stop.  The lock is also
\* held while start_tasks of the atomic pool makes its assignments.
WorkerWait(t) ==
    /\ Shared /\ t \in Pool /\ pc[t] = "wait"
    /\ pc[Main] \notin {"resetIteration", "resetComplete"}
    /\ Goto(t, IF stop THEN "exited"
               ELSE IF iteration_ >= num_iterations_ THEN "asleep"
               ELSE IF strategy = "mutex" THEN "take" ELSE "fetch")
    /\ UNCHANGED <<caller, locals, counters, queues, ghosts>>

AwaitFault ==
    /\ Shared /\ pc[Main] = "await"
    /\ IF iteration_ >= num_iterations_ THEN Goto(Main, "idle")
       ELSE strategy = "mutex" /\ Goto(Main, "awaiting")
    /\ UNCHANGED <<caller, locals, counters, queues, ghosts>>

\* complete_condition_.wait, or the spin of the atomic pool.
Await ==
    /\ Shared /\ pc[Main] = "await"
    /\ IF complete_ = num_iterations_ THEN Goto(Main, "idle")
       ELSE strategy = "mutex" /\ Goto(Main, "awaiting")
    /\ UNCHANGED <<caller, locals, counters, queues, ghosts>>

-----------------------------------------------------------------------------
(* Atomic pool: the counters are used without the lock, so the assignments *)
(* of start_tasks are seen one by one by a worker that has not left        *)
(* do_iterations yet.                                                      *)

InIterations(t) == pc[t] \in {"fetch", "compare", "begin", "end", "count"}

Publish ==
    /\ strategy = "atomic" /\ pc[Main] = "publish"
    /\ task_' = call /\ num_iterations_' = n
    /\ raced' = (raced \/ \E t \in Pool : InIterations(t))
    /\ Goto(Main, "resetIteration")
    /\ UNCHANGED <<caller, locals, iteration_, complete_, queues, begun, ended>>

ResetIteration ==
    /\ strategy = "atomic" /\ pc[Main] = "resetIteration"
    /\ iteration_' = 0 /\ Goto(Main, "resetComplete")
    /\ UNCHANGED <<caller, locals, num_iterations_, complete_, task_, queues, ghosts>>

ResetComplete ==
    /\ strategy = "atomic" /\ pc[Main] = "resetComplete"
    /\ complete_' = 0 /\ Goto(Main, "notify")
    /\ UNCHANGED <<caller, locals, num_iterations_, iteration_, task_, queues, ghosts>>

\* iteration_.fetch_add(1), here and in spawning's current_iteration.
Fetch(t) ==
    /\ strategy \in {"atomic", "spawning"} /\ pc[t] = "fetch"
    /\ at' = [at EXCEPT ![t] = iteration_] /\ iteration_' = iteration_ + 1
    /\ Goto(t, "compare")
    /\ UNCHANGED <<caller, job, num_iterations_, complete_, task_, queues, ghosts>>

\* ... < num_iterations_, a read of its own.
Compare(t) ==
    /\ strategy \in {"atomic", "spawning"} /\ pc[t] = "compare"
    /\ Goto(t, IF at[t] < (IF strategy = "atomic" THEN num_iterations_ ELSE n) THEN "begin" ELSE Leave(t))
    /\ IF pc'[t] = "begin" THEN job' = [job EXCEPT ![t] = call] /\ UNCHANGED at
       ELSE at' = [at EXCEPT ![t] = 0] /\ UNCHANGED job
    /\ UNCHANGED <<caller, counters, queues, ghosts>>

\* iterations_completed_++
CountAtomic(t) ==
    /\ strategy = "atomic" /\ pc[t] = "count"
    /\ complete_' = complete_ + 1 /\ Goto(t, "fetch")
    /\ UNCHANGED <<caller, locals, num_iterations_, iteration_, task_, queues, ghosts>>

-----------------------------------------------------------------------------
(* Queued pool.                                                            *)

\* pool.wait(): once before the tasks are queued and once after.
PoolWait ==
    /\ strategy = "queued" /\ pc[Main] \in {"start", "await"}
    /\ IF tasks # <<>> \/ tasks_running # 0
       THEN Goto(Main, IF pc[Main] = "start" THEN "starting" ELSE "awaiting")
            /\ UNCHANGED at
       ELSE IF pc[Main] = "await"
       THEN Goto(Main, "idle") /\ UNCHANGED at
       ELSE at' = [at EXCEPT ![Main] = 0] /\ Goto(Main, "push")
    /\ UNCHANGED <<caller, job, counters, queues, ghosts>>

\* enqueue: the push under the lock, for every iteration in turn.
Enqueue ==
    /\ strategy = "queued" /\ pc[Main] = "push"
    /\ IF at[Main] < n
       THEN tasks' = Append(tasks, <<call, at[Main]>>) /\ Goto(Main, "notifyOne")
       ELSE Goto(Main, "await") /\ UNCHANGED tasks
    /\ UNCHANGED <<caller, locals, counters, tasks_running, complete_queue_, stop, ghosts>>

\* condition.notify_one() wakes some sleeping worker, if there is one.
NotifyOne ==
    /\ strategy = "queued" /\ pc[Main] = "notifyOne"
    /\ at' = [at EXCEPT ![Main] = @ + 1]
    /\ \E ts \in (IF Sleepers = {} THEN {{}} ELSE {{t} : t \in Sleepers}) :
           pc' = [Woken(ts) EXCEPT ![Main] = "push"]
    /\ UNCHANGED <<caller, job, counters, queues, ghosts>>

TakeTaskFault(t) ==
    /\ strategy = "queued" /\ t \in Pool /\ pc[t] = "wait"
    /\ IF tasks = <<>>
       THEN Goto(t, IF stop THEN "exited" ELSE "asleep") /\ UNCHANGED <<locals, tasks>>
       ELSE /\ job' = [job EXCEPT ![t] = Head(tasks)[1]]
            /\ at' = [at EXCEPT ![t] = Head(tasks)[2]]
            /\ tasks' = Tail(tasks) /\ Goto(t, "begin")
    /\ UNCHANGED <<caller, counters, tasks_running, complete_queue_, stop, ghosts>>

\* worker_loop up to the call of the task.
TakeTask(t) ==
    /\ strategy = "queued" /\ t \in Pool /\ pc[t] = "wait"
    /\ IF tasks = <<>>
       THEN Goto(t, IF stop THEN "exited" ELSE "asleep")
            /\ UNCHANGED <<locals, tasks, tasks_running>>
       ELSE /\ job' = [job EXCEPT ![t] = Head(tasks)[1]]
            /\ at' = [at EXCEPT ![t] = Head(tasks)[2]]
            /\ tasks' = Tail(tasks) /\ tasks_running' = tasks_running + 1
            /\ Goto(t, "begin")
    /\ UNCHANGED <<caller, counters, complete_queue_, stop, ghosts>>

\* The critical section after the task; notify_all on finished_condition.
CountQueued(t) ==
    /\ strategy = "queued" /\ pc[t] = "count"
    /\ tasks_running' = tasks_running - 1
    /\ pc' = [pc EXCEPT ![t] = "wait",
                        ![Main] = IF tasks = <<>> /\ tasks_running' = 0
                                  THEN CASE @ = "starting" -> "start"
                                         [] @ = "awaiting" -> "await"
                                         [] OTHER -> @
                                  ELSE @]
    /\ UNCHANGED <<caller, locals, counters, tasks, complete_queue_, stop, ghosts>>

-----------------------------------------------------------------------------
(* Moody pool.  The two concurrent queues are external; an operation on    *)
(* one is atomic.  A task <<0, 0>> is the empty one of the destructor.     *)

\* start_tasks up to enqueue_bulk; complete_counter lives in this frame.
StartMoody ==
    /\ strategy = "moody" /\ pc[Main] = "start"
    /\ complete_' = 0
    /\ tasks' = tasks \o [i \in 1 .. n |-> <<call, i - 1>>]
    /\ Goto(Main, "drain")
    /\ UNCHANGED <<caller, locals, num_iterations_, iteration_, task_, tasks_running, complete_queue_, stop, ghosts>>

\* try_dequeue of the main thread, wait_dequeue of a worker.
Dequeue(t) ==
    /\ strategy = "moody" /\ pc[t] \in {"drain", "dequeue"}
    /\ IF tasks = <<>>
       THEN t = Main /\ Goto(t, "await") /\ UNCHANGED <<locals, tasks>>
       ELSE /\ job' = [job EXCEPT ![t] = Head(tasks)[1]]
            /\ at' = [at EXCEPT ![t] = Head(tasks)[2]]
            /\ tasks' = Tail(tasks)
            /\ Goto(t, IF Head(tasks)[1] = 0 THEN "loop" ELSE "begin")
    /\ UNCHANGED <<caller, counters, tasks_running, complete_queue_, stop, ghosts>>

\* complete_counter.fetch_add(1)
CountMoody(t) ==
    /\ strategy = "moody" /\ pc[t] = "count"
    /\ complete_' = complete_ + 1 /\ at' = [at EXCEPT ![t] = complete_]
    /\ Goto(t, "compare")
    /\ UNCHANGED <<caller, job, num_iterations_, iteration_, task_, queues, ghosts>>

\* ... == num_iterations - 1.  The operands are not ordered and num_iterations
\* is captured by reference: when start_tasks has returned, the read is of a
\* dead frame and its outcome arbitrary.
CompareMoody(t) ==
    /\ strategy = "moody" /\ pc[t] = "compare"
    /\ LET alive == job[t] = call /\ pc[Main] \notin {"idle", "stopNotify", "join", "gone"}
       IN  \E last \in (IF alive THEN {at[t] = n - 1} ELSE BOOLEAN) :
               /\ complete_queue_' = complete_queue_ + (IF last THEN 1 ELSE 0)
               /\ raced' = (raced \/ ~alive)
    /\ Goto(t, IF t = Main THEN "drain" ELSE "loop")
    /\ at' = [at EXCEPT ![t] = 0] /\ job' = [job EXCEPT ![t] = 0]
    /\ UNCHANGED <<caller, counters, tasks, tasks_running, stop, begun, ended>>

\* complete_queue_.wait_dequeue
AwaitMoody ==
    /\ strategy = "moody" /\ pc[Main] = "await"
    /\ complete_queue_ > 0 /\ complete_queue_' = complete_queue_ - 1
    /\ Goto(Main, "idle")
    /\ UNCHANGED <<caller, locals, counters, tasks, tasks_running, stop, ghosts>>

\* while (!stop)
LoopMoody(t) ==
    /\ strategy = "moody" /\ pc[t] = "loop"
    /\ Goto(t, IF stop THEN "exited" ELSE "dequeue")
    /\ UNCHANGED <<caller, locals, counters, queues, ghosts>>

-----------------------------------------------------------------------------
(* Spawning.                                                               *)

\* num_threads = min(num_iterations, cpus) - 1 wraps for no iterations, and
\* the vector of 2^64 - 1 threads throws.
StartSpawning ==
    /\ strategy = "spawning" /\ pc[Main] = "start"
    /\ iteration_' = 0 /\ at' = [at EXCEPT ![Main] = 0]
    /\ Goto(Main, IF n = 0 THEN "crashed" ELSE "spawn")
    /\ UNCHANGED <<caller, job, num_iterations_, complete_, task_, queues, ghosts>>

\* threads[i] = std::thread(worker, i), then worker(num_threads).
Spawn ==
    /\ strategy = "spawning" /\ pc[Main] = "spawn"
    /\ LET num_threads == (IF n < NumCpus THEN n ELSE NumCpus) - 1
       IN  IF at[Main] < num_threads
           THEN /\ at' = [at EXCEPT ![Main] = @ + 1]
                /\ Goto(at[Main] + 1, "fetch")
           ELSE Goto(Main, "fetch") /\ UNCHANGED at
    /\ UNCHANGED <<caller, job, counters, queues, ghosts>>

\* thread.join() for all of them.
JoinThreads ==
    /\ strategy = "spawning" /\ pc[Main] = "await"
    /\ \A t \in Pool : pc[t] \in {"none", "exited"}
    /\ pc' = [t \in Threads |-> IF t = Main THEN "idle" ELSE "none"]
    /\ UNCHANGED <<caller, locals, counters, queues, ghosts>>

-----------------------------------------------------------------------------
(* ~ThreadPool of the static pool, when the program ends.                  *)

Destroy ==
    /\ strategy # "spawning" /\ pc[Main] = "idle"
    /\ stop' = TRUE /\ Goto(Main, "stopNotify")
    /\ UNCHANGED <<caller, locals, counters, tasks, tasks_running, complete_queue_, ghosts>>

DestroyNotifyFault ==
    /\ pc[Main] = "stopNotify"
    /\ \E ts \in (IF Sleepers = {} THEN {{}} ELSE {{t} : t \in Sleepers}) :
           pc' = [Woken(ts) EXCEPT ![Main] = "join"]
    /\ tasks' = IF strategy = "moody" THEN tasks \o [i \in 1 .. NumCpus - 1 |-> <<0, 0>>] ELSE tasks
    /\ UNCHANGED <<caller, locals, counters, tasks_running, complete_queue_, stop, ghosts>>

\* notify_all, or one empty task for every worker.
DestroyNotify ==
    /\ pc[Main] = "stopNotify"
    /\ pc' = [Woken(Pool) EXCEPT ![Main] = "join"]
    /\ tasks' = IF strategy = "moody" THEN tasks \o [i \in 1 .. NumCpus - 1 |-> <<0, 0>>] ELSE tasks
    /\ UNCHANGED <<caller, locals, counters, tasks_running, complete_queue_, stop, ghosts>>

DestroyJoin ==
    /\ pc[Main] = "join" /\ \A t \in Pool : pc[t] = "exited"
    /\ Goto(Main, "gone")
    /\ UNCHANGED <<caller, locals, counters, queues, ghosts>>

-----------------------------------------------------------------------------
\* What thread t does next of its own accord.
Step(t) ==
    \/ Begin(t) \/ End(t)
    \/ Take(t) \/ Count(t) \/ WorkerWait(t)
    \/ Fetch(t) \/ Compare(t) \/ CountAtomic(t)
    \/ TakeTask(t) \/ CountQueued(t)
    \/ Dequeue(t) \/ CountMoody(t) \/ CompareMoody(t) \/ LoopMoody(t)

MainStep ==
    \/ Inline \/ InlineReturn \/ StartTasks \/ NotifyAll \/ Await
    \/ Publish \/ ResetIteration \/ ResetComplete
    \/ PoolWait \/ Enqueue \/ NotifyOne
    \/ StartMoody \/ AwaitMoody
    \/ StartSpawning \/ Spawn \/ JoinThreads
    \/ DestroyNotify \/ DestroyJoin

Next ==
    \/ \E k \in DirectSizes : ParallelForDirect(k)
    \/ \E p \in LoopSizes : RunLoopInParallel(p)
    \/ Destroy
    \/ MainStep
    \/ \E t \in Threads : Step(t)

\* Every thread the operating system runs keeps running; nobody has to call.
Spec == /\ Init /\ [][Next]_vars
        /\ WF_vars(MainStep) /\ \A t \in Threads : WF_vars(Step(t))

-----------------------------------------------------------------------------
Active == pc[Main] \notin {"idle", "stopNotify", "join", "gone", "crashed"}

\* Counters of iterations, jobs and running tasks stay within the sizes of the
\* calls whatever the workers do: no counter of thread_pool, atomic_pool or
\* queued_pool underflows or runs past its last iteration.
TypeOK ==
    /\ strategy \in Strategies
    /\ at \in [Threads -> 0 .. 2 * MaxIterations + NumCpus]
    /\ job \in [Threads -> 0 .. MaxCalls] /\ task_ \in 0 .. MaxCalls
    /\ call \in 0 .. MaxCalls /\ n \in 0 .. MaxIterations /\ points \in LoopSizes \cup {-1}
    /\ num_iterations_ \in 0 .. MaxIterations
    /\ Len(tasks) <= MaxIterations + NumCpus
    /\ tasks_running \in 0 .. NumCpus
    /\ stop \in BOOLEAN /\ raced \in BOOLEAN
    /\ ended \in [Invocations -> Nat] /\ begun \in [Invocations -> Nat]

Promise == INSTANCE ParallelFor WITH active <- Active

(***************************************************************************)
(* Every strategy implements parallel_for: each iteration is entered once, *)
(* while the call is active, and the call returns when all have ended.     *)
(* Excepted are calls that return into a race: a worker of the atomic pool *)
(* that is still in do_iterations when the next job is published, a worker *)
(* of the moody pool that compares with the frame of a finished call, and  *)
(* the crash of spawning with no iterations.                               *)
(***************************************************************************)
ImplementsParallelFor ==
    Promise!Init /\ [][raced' \/ pc'[Main] = "crashed" \/ Promise!Next]_(Promise!vars)

\* The threads that were handed an iteration and have not accounted for it.
Holders == {t \in Threads : pc[t] \in {"begin", "end", "count"}}

(***************************************************************************)
(* The mutex pool's counters account for every iteration handed out:       *)
(* those not complete are the ones some thread holds, so the main thread   *)
(* cannot see complete_ == num_iterations_ while one is under way, and the *)
(* queued pool's tasks_running counts the workers that hold a task.        *)
(***************************************************************************)
Accounted ==
    /\ strategy = "mutex" => iteration_ - complete_ = Cardinality(Holders)
    /\ strategy = "queued" => tasks_running = Cardinality(Holders)

(***************************************************************************)
(* run_loop_in_parallel hands every point of the loop to func exactly once *)
(* (chunks of the rounded-up size, the last ones short or empty).          *)
(***************************************************************************)
PointsOnce ==
    pc[Main] = "idle" /\ call > 0 /\ points >= 0 /\ ~raced =>
        \A p \in 0 .. points - 1 :
            \E i \in 0 .. n - 1 :
                /\ p \in Handled(points, i) /\ ended[<<call, i>>] = 1
                /\ \A j \in (0 .. n - 1) \ {i} : p \notin Handled(points, j)

(***************************************************************************)
(* A call returns: no wake-up is lost between a worker's last decrement    *)
(* and the main thread's wait.  A moody pool asked for no iterations waits *)
(* for a completion nobody sends, and spawning crashes.                    *)
(***************************************************************************)
Returns ==
    Active ~> (~Active \/ raced \/ (strategy = "moody" /\ n = 0))

(***************************************************************************)
(* The destructor's joins end: no worker sleeps through stop, or finds the *)
(* queue of a moody pool empty after it.                                   *)
(***************************************************************************)
DestructorEnds == (pc[Main] = "stopNotify") ~> (pc[Main] = "gone")

(***************************************************************************)
(* The counters stay in their bounds and account for every iteration that  *)
(* was handed out (thread_pool::do_iterations, queued worker_loop).        *)
(***************************************************************************)
CountersSound == TypeOK /\ Accounted

(***************************************************************************)
(* Nobody waits for ever: neither a caller of parallel_for for its workers *)
(* nor the destructor of the pool for its joins.                           *)
(***************************************************************************)
Terminates == Returns /\ DestructorEnds

=============================================================================
