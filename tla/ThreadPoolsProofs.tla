------------------------- MODULE ThreadPoolsProofs -------------------------
(***************************************************************************)
(* Proofs about ThreadPools, for every number of cpus, of calls and of     *)
(* iterations and for all five strategies: the counters account for the    *)
(* iterations handed out, and every strategy implements ParallelFor.       *)
(***************************************************************************)
EXTENDS ThreadPools, FiniteSetTheorems, TLAPS

-----------------------------------------------------------------------------
(* Where the threads can be. *)

InlinePcs == {"inline", "beginInline", "endInline", "inlineDone"}
StopPcs == {"stopNotify", "join", "gone"}

MainPcs(s) ==
    {"idle"} \cup InlinePcs \cup
    (IF s = "mutex" THEN {"start", "notify", "take", "begin", "end", "count", "await", "awaiting"}
     ELSE IF s = "atomic" THEN {"publish", "resetIteration", "resetComplete", "notify", "fetch",
                                "compare", "begin", "end", "count", "await"}
     ELSE IF s = "queued" THEN {"start", "starting", "push", "notifyOne", "await", "awaiting"}
     ELSE IF s = "moody" THEN {"start", "drain", "begin", "end", "count", "compare", "await"}
     ELSE {"start", "spawn", "fetch", "compare", "begin", "end", "await", "crashed"})
    \cup (IF s = "spawning" THEN {} ELSE StopPcs)

WorkerPcs(s) ==
    {"begin", "end", "exited"} \cup
    (IF s = "mutex" THEN {"wait", "asleep", "take", "count"}
     ELSE IF s = "atomic" THEN {"wait", "asleep", "fetch", "compare", "count"}
     ELSE IF s = "queued" THEN {"wait", "asleep", "count"}
     ELSE IF s = "moody" THEN {"loop", "dequeue", "count", "compare"}
     ELSE {"none", "fetch", "compare"})

Pcs ==
    /\ pc = [t \in Threads |-> pc[t]]
    /\ pc[Main] \in MainPcs(strategy)
    /\ \A t \in Pool : pc[t] \in WorkerPcs(strategy)
    /\ \A t \in Threads : t # Main /\ t \notin Pool => pc[t] = "none"

\* The call is under way: its iterations are being handed out or waited for.
Running == Active /\ pc[Main] \notin InlinePcs \cup {"start", "starting", "publish"}

Types ==
    /\ strategy \in Strategies
    /\ at \in [Threads -> 0 .. MaxIterations + NumCpus]
    /\ job \in [Threads -> 0 .. call] /\ task_ \in 0 .. call
    /\ call \in 0 .. MaxCalls /\ n \in 0 .. MaxIterations /\ points \in LoopSizes \cup {-1}
    /\ num_iterations_ \in 0 .. MaxIterations /\ iteration_ \in Nat
    /\ complete_ \in Nat /\ complete_queue_ \in Nat /\ tasks_running \in Int
    /\ tasks \in Seq(Nat \X Nat)
    /\ stop \in BOOLEAN /\ raced \in BOOLEAN
    /\ ended \in [Invocations -> Nat] /\ begun \in [Invocations -> Nat]
    /\ pc[Main] \in InlinePcs => n = 1
    /\ Active => call >= 1

-----------------------------------------------------------------------------
(* What the shared state of each strategy says. *)

\* The two counters differ by the iterations some thread holds.
MutexInv ==
    /\ iteration_ <= num_iterations_
    /\ iteration_ = complete_ + Cardinality(Holders)
    /\ Running => num_iterations_ = n /\ task_ = call
    /\ ~Running => complete_ = num_iterations_

\* Threads that will not fetch an iteration again before iteration_ is reset.
Spent == {t \in Threads : /\ pc[t] \notin {"none", "spawn", "resetComplete", "notify", "fetch",
                                            "begin", "end", "count"}
                          /\ pc[t] = "compare" => at[t] >= MaxIterations}

\* Threads with an iteration of the job that is published.
Flight == {t \in Threads : \/ pc[t] \in {"begin", "end", "count"}
                           \/ pc[t] = "compare" /\ at[t] < num_iterations_}

Resetting == pc[Main] \in {"resetIteration", "resetComplete"}

AtomicInv ==
    /\ iteration_ <= MaxIterations + Cardinality(Spent)
    /\ ~raced /\ ~Running => iteration_ >= num_iterations_ /\ Flight = {}
    /\ ~raced /\ Running => num_iterations_ = n /\ task_ = call
    /\ ~raced /\ Resetting => \A t \in Pool : ~InIterations(t)
    /\ ~raced /\ pc[Main] = "resetComplete" => iteration_ = 0
    /\ ~raced /\ Running /\ ~Resetting =>
           /\ iteration_ <= n => complete_ + Cardinality(Flight) = iteration_
           /\ iteration_ >= n => complete_ + Cardinality(Flight) = n

\* The iterations that enqueue has put into the queue of the call.
Pushed == IF pc[Main] = "push" THEN at[Main]
          ELSE IF pc[Main] = "notifyOne" THEN at[Main] + 1 ELSE n

\* The queue holds the last iterations up to one, in order.
Consecutive(upTo) ==
    /\ Len(tasks) <= upTo
    /\ \A j \in 1 .. Len(tasks) : tasks[j] = <<call, upTo - Len(tasks) + j - 1>>

QueuedInv ==
    /\ tasks_running = Cardinality(Holders)
    /\ ~Running => tasks = <<>> /\ Holders = {}
    /\ Running => Pushed <= n /\ Consecutive(Pushed)

Draining == Running /\ pc[Main] # "await"

MoodyInv ==
    /\ pc[Main] \notin {"join", "gone"} =>
           Len(tasks) + complete_ + Cardinality(Holders) <= MaxIterations + NumCpus
    /\ complete_ + Cardinality(Holders) <= MaxIterations + NumCpus
    /\ IF pc[Main] \in {"join", "gone"}
       THEN Len(tasks) <= NumCpus /\ \A j \in 1 .. Len(tasks) : tasks[j] = <<0, 0>>
       ELSE IF Draining THEN Consecutive(n) ELSE tasks = <<>>
    /\ ~raced /\ ~Running => Holders = {} /\ complete_queue_ = 0
    /\ ~raced /\ Active /\ ~Running => \A t \in Threads : pc[t] = "compare" => job[t] # call
    /\ ~raced /\ Running =>
           /\ complete_queue_ \in {0, 1}
           /\ complete_ + Len(tasks) + Cardinality(Holders) = n
           /\ \A t \in Holders : job[t] = call
           /\ \A t \in Threads : pc[t] = "compare" /\ job[t] = call => at[t] < complete_
           /\ \A t, u \in Threads :
                  t # u /\ pc[t] = "compare" /\ job[t] = call /\ pc[u] = "compare" /\ job[u] = call
                      => at[t] # at[u]
           /\ complete_queue_ > 0 =>
                  /\ complete_ = n
                  /\ \A t \in Threads : pc[t] = "compare" /\ job[t] = call => at[t] # n - 1

SpawnInv ==
    /\ Running => iteration_ <= MaxIterations + Cardinality(Spent)
    /\ ~Running => \A t \in Pool : pc[t] = "none"
    /\ pc[Main] = "spawn" => /\ at[Main] <= NumCpus - 1
                             /\ \A t \in Pool : t > at[Main] => pc[t] = "none"
    /\ Running => \A t \in Threads : pc[t] = "compare" => at[t] < iteration_
    /\ pc[Main] = "await" => iteration_ >= n

PoolInv ==
    /\ strategy = "mutex" => MutexInv
    /\ strategy = "atomic" => AtomicInv
    /\ strategy = "queued" => QueuedInv
    /\ strategy = "moody" => MoodyInv
    /\ strategy = "spawning" => SpawnInv

-----------------------------------------------------------------------------
(* What the strategies have in common. *)

\* The iterations below this one have been handed to a thread.
Handed ==
    IF ~Active THEN n
    ELSE IF ~Running THEN IF pc[Main] \in InlinePcs \ {"inline"} THEN 1 ELSE 0
    ELSE IF strategy = "atomic" /\ pc[Main] = "resetIteration" THEN 0
    ELSE IF strategy = "queued" THEN Pushed - Len(tasks)
    ELSE IF strategy = "moody" THEN n - Len(tasks)
    ELSE iteration_

\* Thread t was handed iteration at[t], and func has not returned from it.
Holds(t) ==
    \/ pc[t] \in {"begin", "end", "beginInline", "endInline"}
    \/ /\ strategy = "atomic" /\ pc[t] = "compare" /\ at[t] < num_iterations_
    \/ /\ strategy = "spawning" /\ pc[t] = "compare" /\ at[t] < n

Entered(t) == IF pc[t] \in {"end", "endInline"} THEN 1 ELSE 0

\* The thread runs the function of this call (a shared task_ is read later).
OwnJob(t) ==
    pc[t] \in {"end", "beginInline", "endInline"} \/ (pc[t] = "begin" /\ ~Shared) => job[t] = call

\* What is known of an iteration that thread t holds.
Held(t) ==
    /\ Active /\ at[t] < n /\ at[t] < Handed /\ OwnJob(t)
    /\ begun[<<call, at[t]>>] = Entered(t) /\ ended[<<call, at[t]>>] = 0

\* An iteration is handed out once, and has ended when nobody holds it.
Once ==
    /\ \A t \in Threads : Holds(t) => Held(t)
    /\ \A t, u \in Threads : t # u /\ Holds(t) /\ Holds(u) => at[t] # at[u]
    /\ Active => \A i \in 0 .. n - 1 :
           i >= Handed => begun[<<call, i>>] = 0 /\ ended[<<call, i>>] = 0
    /\ call > 0 => \A i \in 0 .. n - 1 :
           \/ i >= Handed
           \/ \E t \in Threads : Holds(t) /\ at[t] = i
           \/ begun[<<call, i>>] = 1 /\ ended[<<call, i>>] = 1

\* Calls not made yet have entered nothing.
Fresh == \A x \in Invocations : x[1] > call => begun[x] = 0 /\ ended[x] = 0

(* The inductive invariant.  That a call returns only after its iterations   *)
(* have ended is what the counters or queues say when main leaves (PoolInv)  *)
(* together with what they stand for (Once); a race or the crash of spawning *)
(* ends the latter but not the bounds of the counters.                       *)
IInv ==
    /\ Types /\ Pcs /\ PoolInv /\ Fresh
    /\ ~raced /\ pc[Main] # "crashed" => Once

\* The step is one of ParallelFor, or excused.
Refines ==
    raced' \/ pc'[Main] = "crashed" \/ Promise!Next \/ UNCHANGED (Promise!vars)

StepOK == IInv' /\ Refines

-----------------------------------------------------------------------------
(* Numbers of threads. *)

\* What the assumption on the constants says of each.
LEMMA Sizes == NumCpus \in Nat /\ NumCpus >= 1 /\ MaxIterations \in Nat /\ MaxCalls \in Nat
               /\ NumCpus <= MaxIterations /\ InlineUpTo \in Nat /\ LoopSizes \in SUBSET Nat
BY PoolAssumption

\* Main is a thread outside the pool.
LEMMA PoolThreads ==
    /\ Main \in Threads /\ Main \notin Pool /\ Pool \in SUBSET Threads
BY Sizes DEF Main, Threads, Pool

\* A set of threads is finite and no larger than the number of threads.
LEMMA SubsetSize ==
    ASSUME NEW S \in SUBSET Threads
    PROVE  /\ IsFiniteSet(S) /\ Cardinality(S) \in Nat /\ Cardinality(S) <= NumCpus + 1
           /\ (Cardinality(S) = 0 <=> S = {})
           /\ \A t \in Threads \ S : Cardinality(S) <= NumCpus
<1>1. IsFiniteSet(Threads) /\ Cardinality(Threads) = NumCpus + 1
  <2>1. 0 \in Int /\ NumCpus \in Int /\ ~(0 > NumCpus)
    BY Sizes
  <2> QED
    BY <2>1, Sizes, FS_Interval DEF Threads
<1>2. IsFiniteSet(S) /\ Cardinality(S) \in Nat /\ Cardinality(S) <= NumCpus + 1
  BY <1>1, FS_Subset, FS_CardinalityType
<1>3. Cardinality(S) = 0 <=> S = {}
  BY <1>2, FS_EmptySet
<1>4. ASSUME NEW t \in Threads \ S
      PROVE  Cardinality(S) <= NumCpus
  <2>1. Cardinality(S) # Cardinality(Threads)
    BY <1>1, <1>4, FS_Subset
  <2> QED
    BY <1>1, <1>2, <2>1, Sizes
<1> QED
  BY <1>2, <1>3, <1>4

\* One thread joins a set.
LEMMA OneMore ==
    ASSUME NEW S \in SUBSET Threads, NEW T, NEW t \in Threads \ S, T = S \cup {t}
    PROVE  Cardinality(T) = Cardinality(S) + 1
BY SubsetSize, FS_AddElement

\* One thread leaves a set.
LEMMA OneLess ==
    ASSUME NEW S \in SUBSET Threads, NEW T, NEW t \in S, T = S \ {t}
    PROVE  Cardinality(T) = Cardinality(S) - 1
BY SubsetSize, FS_RemoveElement

-----------------------------------------------------------------------------
(* One thread goes somewhere. *)

\* Goto changes the place of one thread only.
LEMMA Moved ==
    ASSUME Pcs, NEW t \in Threads, NEW x, pc' = [pc EXCEPT ![t] = x]
    PROVE  /\ pc'[t] = x /\ \A u \in Threads : u # t => pc'[u] = pc[u]
           /\ pc' = [u \in Threads |-> pc'[u]]
BY DEF Pcs

\* The places where a thread may be.
Allowed(t, x) == IF t = Main THEN x \in MainPcs(strategy)
                 ELSE IF t \in Pool THEN x \in WorkerPcs(strategy) ELSE x = "none"

\* Pcs, thread by thread.
LEMMA PcsAllowed ==
    /\ Pcs => \A t \in Threads : Allowed(t, pc[t])
    /\ pc = [t \in Threads |-> pc[t]] /\ (\A t \in Threads : Allowed(t, pc[t])) => Pcs
BY PoolThreads DEF Pcs, Allowed

\* ... and in the next state.
LEMMA PcsAllowedNext ==
    ASSUME strategy' = strategy, pc' = [t \in Threads |-> pc'[t]],
           \A t \in Threads : Allowed(t, pc'[t])
    PROVE  Pcs'
<1>1. Pool' = Pool
  BY DEF Pool
<1> QED
  BY <1>1, PoolThreads DEF Pcs, Allowed

\* A thread that goes to an allowed place keeps Pcs.
LEMMA PcsMove ==
    ASSUME Pcs, strategy' = strategy, NEW t \in Threads, NEW x, Allowed(t, x),
           pc' = [pc EXCEPT ![t] = x]
    PROVE  Pcs'
<1>1. \A u \in Threads : Allowed(u, pc'[u])
  <2> TAKE u \in Threads
  <2>1. CASE u = t
    BY <2>1, Moved
  <2>2. CASE u # t
    BY <2>2, Moved, PcsAllowed
  <2> QED
    BY <2>1, <2>2
<1> QED
  BY <1>1, Moved, PcsAllowedNext

\* The pool's threads that hold an iteration, after t went to x.
LEMMA HoldersMove ==
    ASSUME Pcs, NEW t \in Threads, NEW x, pc'[t] = x, \A u \in Threads : u # t => pc'[u] \in {"begin", "end", "count"} <=> pc[u] \in {"begin", "end", "count"}
    PROVE  /\ (x \in {"begin", "end", "count"} <=> t \in Holders) => Holders' = Holders
           /\ x \in {"begin", "end", "count"} /\ t \notin Holders =>
                  Cardinality(Holders') = Cardinality(Holders) + 1
           /\ x \notin {"begin", "end", "count"} /\ t \in Holders =>
                  Cardinality(Holders') = Cardinality(Holders) - 1
<1>0. Holders \in SUBSET Threads
  BY DEF Holders
<1>1. (x \in {"begin", "end", "count"} <=> t \in Holders) => Holders' = Holders
  BY DEF Holders
<1>2. ASSUME x \in {"begin", "end", "count"} /\ t \notin Holders
      PROVE  Cardinality(Holders') = Cardinality(Holders) + 1
  <2>1. Holders' = Holders \cup {t} /\ t \in Threads \ Holders
    BY <1>2 DEF Holders
  <2> QED
    BY <1>0, <2>1, OneMore
<1>3. ASSUME x \notin {"begin", "end", "count"} /\ t \in Holders
      PROVE  Cardinality(Holders') = Cardinality(Holders) - 1
  <2>1. Holders' = Holders \ {t}
    BY <1>3 DEF Holders
  <2> QED
    BY <1>0, <1>3, <2>1, OneLess
<1> QED
  BY <1>1, <1>2, <1>3

-----------------------------------------------------------------------------
(* How the steps of a call change who holds what. *)

\* The number of iterations handed out is a number.
LEMMA HandedInt ==
    ASSUME Types
    PROVE  Handed \in Int /\ n \in Nat /\ \A t \in Threads : at[t] \in Nat
<1>1. /\ n \in Nat /\ Len(tasks) \in Nat /\ iteration_ \in Nat
      /\ \A t \in Threads : at[t] \in Nat
  BY Sizes DEF Types
<1>2. Pushed \in Int
  BY <1>1, PoolThreads DEF Pushed
<1>3. (n - Len(tasks)) \in Int /\ (Pushed - Len(tasks)) \in Int
  BY <1>1, <1>2
<1> HIDE DEF Pushed
<1> QED
  BY <1>1, <1>3 DEF Handed

\* ... and in the next state.
LEMMA HandedIntNext ==
    ASSUME Types'
    PROVE  Handed' \in Int /\ n' \in Nat /\ \A t \in Threads : at'[t] \in Nat
<1>1. /\ n' \in Nat /\ Len(tasks') \in Nat /\ iteration_' \in Nat
      /\ \A t \in Threads : at'[t] \in Nat
  BY Sizes DEF Types
<1>2. Pushed' \in Int
  BY <1>1, PoolThreads DEF Pushed
<1>3. (n' - Len(tasks')) \in Int /\ (Pushed' - Len(tasks')) \in Int
  BY <1>1, <1>2
<1> HIDE DEF Pushed
<1> QED
  BY <1>1, <1>3 DEF Handed

\* What a thread held it still holds, and nothing else.
Keeps(u) ==
    /\ Holds(u)' <=> Holds(u)
    /\ Holds(u) => at'[u] = at[u] /\ Entered(u)' = Entered(u) /\ OwnJob(u)'

\* A step that hands out, enters and ends nothing keeps Once.
LEMMA OnceQuiet ==
    ASSUME Types, Types', Once, UNCHANGED <<call, n, begun, ended>>, Active' <=> Active,
           Handed' = Handed \/ (Handed >= n /\ Handed' >= n),
           \A u \in Threads : Keeps(u)
    PROVE  Once'
<1>1. /\ Handed \in Int /\ Handed' \in Int /\ n \in Nat
      /\ \A t \in Threads : at[t] \in Nat
  BY HandedInt, HandedIntNext
<1>2. ASSUME NEW t \in Threads, Holds(t)'
      PROVE  Held(t)'
  <2>1. /\ Holds(t) /\ at'[t] = at[t] /\ Entered(t)' = Entered(t) /\ OwnJob(t)'
    BY <1>2 DEF Keeps
  <2>2. Held(t)
    BY <2>1 DEF Once
  <2>3. Active /\ at[t] < n /\ at[t] < Handed
    BY <2>2 DEF Held
  <2>4. Active' /\ at'[t] < n' /\ at'[t] < Handed'
    BY <1>1, <2>1, <2>3
  <2>5. begun[<<call, at[t]>>] = Entered(t) /\ ended[<<call, at[t]>>] = 0
    BY <2>2 DEF Held
  <2>6. begun'[<<call', at'[t]>>] = Entered(t)' /\ ended'[<<call', at'[t]>>] = 0
    BY <2>1, <2>5
  <2> QED
    BY <2>1, <2>4, <2>6 DEF Held
<1>3. \A t, u \in Threads : t # u /\ Holds(t)' /\ Holds(u)' => at'[t] # at'[u]
  <2>1. \A t, u \in Threads : t # u /\ Holds(t) /\ Holds(u) => at[t] # at[u]
    BY DEF Once
  <2>2. \A t \in Threads : Holds(t)' => Holds(t) /\ at'[t] = at[t]
    BY DEF Keeps
  <2> QED
    BY <2>1, <2>2
<1>4. ASSUME Active', NEW i \in 0 .. n' - 1, i >= Handed'
      PROVE  begun'[<<call', i>>] = 0 /\ ended'[<<call', i>>] = 0
  <2>1. i \in 0 .. n - 1 /\ i >= Handed
    BY <1>1, <1>4
  <2> QED
    BY <1>4, <2>1 DEF Once
<1>5. ASSUME call' > 0, NEW i \in 0 .. n' - 1
      PROVE  \/ i >= Handed'
             \/ \E t \in Threads : Holds(t)' /\ at'[t] = i
             \/ begun'[<<call', i>>] = 1 /\ ended'[<<call', i>>] = 1
  <2>1. i \in 0 .. n - 1 /\ (i >= Handed => i >= Handed')
    BY <1>1, <1>5
  <2>2. \/ i >= Handed
        \/ \E t \in Threads : Holds(t) /\ at[t] = i
        \/ begun[<<call, i>>] = 1 /\ ended[<<call, i>>] = 1
    BY <1>5, <2>1 DEF Once
  <2>3. \A t \in Threads : Holds(t) => Holds(t)' /\ at'[t] = at[t]
    BY DEF Keeps
  <2> QED
    BY <2>1, <2>2, <2>3
<1> QED
  BY <1>2, <1>3, <1>4, <1>5 DEF Once

(* A thread is handed the next iteration. *)
LEMMA OnceHand ==
    ASSUME Types, Types', Once, UNCHANGED <<call, n, begun, ended>>, Active, Active',
           Handed < n, Handed' = Handed + 1, NEW t \in Threads,
           ~Holds(t), Holds(t)', at'[t] = Handed, Entered(t)' = 0, OwnJob(t)',
           \A u \in Threads : u # t => Keeps(u)
    PROVE  Once'
<1>1. /\ Handed \in Int /\ Handed' \in Int /\ n \in Nat
      /\ \A u \in Threads : at[u] \in Nat /\ at'[u] \in Nat
  BY HandedInt, HandedIntNext
<1>2. Handed \in 0 .. n - 1
  BY <1>1
<1>3. begun[<<call, Handed>>] = 0 /\ ended[<<call, Handed>>] = 0
  BY <1>1, <1>2 DEF Once
<1>4. ASSUME NEW u \in Threads, Holds(u)', u # t
      PROVE  Held(u)' /\ at'[u] # at'[t] /\ Holds(u) /\ at'[u] = at[u]
  <2>1. /\ Holds(u) /\ at'[u] = at[u] /\ Entered(u)' = Entered(u) /\ OwnJob(u)'
    BY <1>4 DEF Keeps
  <2>2. Held(u)
    BY <2>1 DEF Once
  <2>3. Active /\ at[u] < n /\ at[u] < Handed
    BY <2>2 DEF Held
  <2>4. at'[u] < n' /\ at'[u] < Handed' /\ at'[u] # at'[t]
    BY <1>1, <2>1, <2>3
  <2>5. begun[<<call, at[u]>>] = Entered(u) /\ ended[<<call, at[u]>>] = 0
    BY <2>2 DEF Held
  <2>6. begun'[<<call', at'[u]>>] = Entered(u)' /\ ended'[<<call', at'[u]>>] = 0
    BY <2>1, <2>5
  <2> QED
    BY <2>1, <2>4, <2>6 DEF Held
<1>5. Held(t)'
  <2>1. at'[t] < n' /\ at'[t] < Handed'
    BY <1>1
  <2> QED
    BY <1>3, <2>1 DEF Held
<1>6. \A v, u \in Threads : v # u /\ Holds(v)' /\ Holds(u)' => at'[v] # at'[u]
  <2>1. \A v, u \in Threads : v # u /\ Holds(v) /\ Holds(u) => at[v] # at[u]
    BY DEF Once
  <2> QED
    BY <1>4, <2>1
<1>7. ASSUME NEW i \in 0 .. n' - 1, i >= Handed'
      PROVE  begun'[<<call', i>>] = 0 /\ ended'[<<call', i>>] = 0
  <2>1. i \in 0 .. n - 1 /\ i >= Handed
    BY <1>1, <1>7
  <2> QED
    BY <2>1 DEF Once
<1>8. ASSUME call' > 0, NEW i \in 0 .. n' - 1
      PROVE  \/ i >= Handed'
             \/ \E u \in Threads : Holds(u)' /\ at'[u] = i
             \/ begun'[<<call', i>>] = 1 /\ ended'[<<call', i>>] = 1
  <2>1. i \in 0 .. n - 1 /\ (i >= Handed => i >= Handed' \/ i = at'[t])
    BY <1>1, <1>8
  <2>2. \/ i >= Handed
        \/ \E u \in Threads : Holds(u) /\ at[u] = i
        \/ begun[<<call, i>>] = 1 /\ ended[<<call, i>>] = 1
    BY <1>8, <2>1 DEF Once
  <2>3. \A u \in Threads : Holds(u) => Holds(u)' /\ at'[u] = at[u]
    BY DEF Keeps
  <2> QED
    BY <2>1, <2>2, <2>3
<1> QED
  BY <1>4, <1>5, <1>6, <1>7, <1>8 DEF Once

(* func is entered. *)
LEMMA OnceBegin ==
    ASSUME Types, Types', Once, UNCHANGED <<call, n, ended>>, Active, Active',
           Handed' = Handed, NEW t \in Threads,
           Holds(t), Holds(t)', at'[t] = at[t], Entered(t) = 0, Entered(t)' = 1, OwnJob(t)',
           begun' = [begun EXCEPT ![<<call, at[t]>>] = @ + 1],
           \A u \in Threads : u # t => Keeps(u)
    PROVE  Once' /\ Promise!Next
<1>1. /\ Handed \in Int /\ n \in Nat /\ n <= MaxIterations /\ call \in 1 .. MaxCalls
      /\ \A u \in Threads : at[u] \in Nat /\ at'[u] \in Nat
      /\ begun \in [Invocations -> Nat]
  <2>1. Handed \in Int /\ n \in Nat /\ \A u \in Threads : at[u] \in Nat /\ at'[u] \in Nat
    BY HandedInt, HandedIntNext
  <2>2. n <= MaxIterations /\ call \in 1 .. MaxCalls /\ begun \in [Invocations -> Nat]
    BY Sizes DEF Types
  <2> QED
    BY <2>1, <2>2
<1>2. /\ at[t] < n /\ at[t] < Handed
      /\ begun[<<call, at[t]>>] = 0 /\ ended[<<call, at[t]>>] = 0
  BY DEF Once, Held
<1>3. <<call, at[t]>> \in Invocations /\ at[t] \in 0 .. MaxIterations - 1
  BY <1>1, <1>2, Sizes DEF Invocations
<1>4. /\ begun'[<<call, at[t]>>] = 1 /\ begun' = [begun EXCEPT ![<<call, at[t]>>] = 1]
      /\ \A i \in Nat : i # at[t] => begun'[<<call, i>>] = begun[<<call, i>>]
  <2>1. begun' = [begun EXCEPT ![<<call, at[t]>>] = 1]
    BY <1>2
  <2>2. \A x : x # <<call, at[t]>> => begun'[x] = begun[x]
    BY <1>1, <1>3, <2>1
  <2> QED
    BY <1>1, <1>3, <2>1, <2>2
<1>5. Promise!Next
  BY <1>1, <1>2, <1>3, <1>4 DEF Promise!Next, Promise!Begin
<1>6. ASSUME NEW u \in Threads, Holds(u)', u # t
      PROVE  Held(u)' /\ at'[u] # at'[t] /\ Holds(u) /\ at'[u] = at[u]
  <2>1. /\ Holds(u) /\ at'[u] = at[u] /\ Entered(u)' = Entered(u) /\ OwnJob(u)'
    BY <1>6 DEF Keeps
  <2>2. Held(u) /\ at[u] # at[t]
    BY <1>6, <2>1 DEF Once
  <2>3. at'[u] < n' /\ at'[u] < Handed'
    BY <2>1, <2>2 DEF Held
  <2>4. begun[<<call, at[u]>>] = Entered(u) /\ ended[<<call, at[u]>>] = 0
    BY <2>2 DEF Held
  <2>5. begun'[<<call', at'[u]>>] = Entered(u)' /\ ended'[<<call', at'[u]>>] = 0
    BY <1>1, <1>4, <2>1, <2>2, <2>4
  <2> QED
    BY <2>1, <2>2, <2>3, <2>5 DEF Held
<1>7. Held(t)'
  BY <1>2, <1>4 DEF Held
<1>8. \A v, u \in Threads : v # u /\ Holds(v)' /\ Holds(u)' => at'[v] # at'[u]
  <2>1. \A v, u \in Threads : v # u /\ Holds(v) /\ Holds(u) => at[v] # at[u]
    BY DEF Once
  <2> QED
    BY <1>6, <2>1
<1>9. ASSUME NEW i \in 0 .. n' - 1, i >= Handed'
      PROVE  begun'[<<call', i>>] = 0 /\ ended'[<<call', i>>] = 0
  <2>1. i \in 0 .. n - 1 /\ i >= Handed /\ i # at[t] /\ i \in Nat
    BY <1>1, <1>2, <1>9
  <2>2. begun[<<call, i>>] = 0 /\ ended[<<call, i>>] = 0
    BY <2>1 DEF Once
  <2> QED
    BY <1>4, <2>1, <2>2
<1>10. ASSUME call' > 0, NEW i \in 0 .. n' - 1
       PROVE  \/ i >= Handed'
              \/ \E u \in Threads : Holds(u)' /\ at'[u] = i
              \/ begun'[<<call', i>>] = 1 /\ ended'[<<call', i>>] = 1
  <2>1. \/ i >= Handed
        \/ \E u \in Threads : Holds(u) /\ at[u] = i
        \/ begun[<<call, i>>] = 1 /\ ended[<<call, i>>] = 1
    BY <1>10 DEF Once
  <2>2. \A u \in Threads : Holds(u) => Holds(u)' /\ at'[u] = at[u]
    BY DEF Keeps
  <2>3. i # at[t] => begun'[<<call, i>>] = begun[<<call, i>>]
    BY <1>1, <1>4, <1>10
  <2> QED
    BY <2>1, <2>2, <2>3
<1> QED
  BY <1>5, <1>6, <1>7, <1>8, <1>9, <1>10 DEF Once

(* func returns. *)
LEMMA OnceEnd ==
    ASSUME Types, Types', Once, UNCHANGED <<call, n, begun>>, Active, Active',
           Handed' = Handed, NEW t \in Threads,
           Holds(t), ~Holds(t)', Entered(t) = 1,
           ended' = [ended EXCEPT ![<<call, at[t]>>] = @ + 1],
           \A u \in Threads : u # t => Keeps(u)
    PROVE  Once' /\ Promise!Next
<1>1. /\ Handed \in Int /\ n \in Nat /\ n <= MaxIterations /\ call \in 1 .. MaxCalls
      /\ \A u \in Threads : at[u] \in Nat /\ at'[u] \in Nat
      /\ ended \in [Invocations -> Nat]
  <2>1. Handed \in Int /\ n \in Nat /\ \A u \in Threads : at[u] \in Nat /\ at'[u] \in Nat
    BY HandedInt, HandedIntNext
  <2>2. n <= MaxIterations /\ call \in 1 .. MaxCalls /\ ended \in [Invocations -> Nat]
    BY Sizes DEF Types
  <2> QED
    BY <2>1, <2>2
<1>2. /\ at[t] < n /\ at[t] < Handed
      /\ begun[<<call, at[t]>>] = 1 /\ ended[<<call, at[t]>>] = 0
  BY DEF Once, Held
<1>3. <<call, at[t]>> \in Invocations /\ at[t] \in 0 .. MaxIterations - 1
  BY <1>1, <1>2, Sizes DEF Invocations
<1>4. /\ ended'[<<call, at[t]>>] = 1 /\ ended' = [ended EXCEPT ![<<call, at[t]>>] = 1]
      /\ \A i \in Nat : i # at[t] => ended'[<<call, i>>] = ended[<<call, i>>]
  <2>1. ended' = [ended EXCEPT ![<<call, at[t]>>] = 1]
    BY <1>2
  <2>2. \A x : x # <<call, at[t]>> => ended'[x] = ended[x]
    BY <1>1, <1>3, <2>1
  <2> QED
    BY <1>1, <1>3, <2>1, <2>2
<1>5. Promise!Next
  BY <1>1, <1>2, <1>3, <1>4 DEF Promise!Next, Promise!End
<1>6. ASSUME NEW u \in Threads, Holds(u)'
      PROVE  Held(u)' /\ Holds(u) /\ at'[u] = at[u]
  <2>1. /\ Holds(u) /\ at'[u] = at[u] /\ Entered(u)' = Entered(u) /\ OwnJob(u)' /\ u # t
    BY <1>6 DEF Keeps
  <2>2. Held(u) /\ at[u] # at[t]
    BY <1>6, <2>1 DEF Once
  <2>3. at'[u] < n' /\ at'[u] < Handed'
    BY <2>1, <2>2 DEF Held
  <2>4. begun[<<call, at[u]>>] = Entered(u) /\ ended[<<call, at[u]>>] = 0
    BY <2>2 DEF Held
  <2>5. begun'[<<call', at'[u]>>] = Entered(u)' /\ ended'[<<call', at'[u]>>] = 0
    BY <1>1, <1>4, <2>1, <2>2, <2>4
  <2> QED
    BY <2>1, <2>2, <2>3, <2>5 DEF Held
<1>8. \A v, u \in Threads : v # u /\ Holds(v)' /\ Holds(u)' => at'[v] # at'[u]
  <2>1. \A v, u \in Threads : v # u /\ Holds(v) /\ Holds(u) => at[v] # at[u]
    BY DEF Once
  <2> QED
    BY <1>6, <2>1
<1>9. ASSUME NEW i \in 0 .. n' - 1, i >= Handed'
      PROVE  begun'[<<call', i>>] = 0 /\ ended'[<<call', i>>] = 0
  <2>1. i \in 0 .. n - 1 /\ i >= Handed /\ i # at[t] /\ i \in Nat
    BY <1>1, <1>2, <1>9
  <2>2. begun[<<call, i>>] = 0 /\ ended[<<call, i>>] = 0
    BY <2>1 DEF Once
  <2> QED
    BY <1>4, <2>1, <2>2
<1>10. ASSUME call' > 0, NEW i \in 0 .. n' - 1
       PROVE  \/ i >= Handed'
              \/ \E u \in Threads : Holds(u)' /\ at'[u] = i
              \/ begun'[<<call', i>>] = 1 /\ ended'[<<call', i>>] = 1
  <2>1. \/ i >= Handed
        \/ \E u \in Threads : Holds(u) /\ at[u] = i
        \/ begun[<<call, i>>] = 1 /\ ended[<<call, i>>] = 1
    BY <1>10 DEF Once
  <2>2. \A u \in Threads : u # t /\ Holds(u) => Holds(u)' /\ at'[u] = at[u]
    BY DEF Keeps
  <2>3. i # at[t] => ended'[<<call, i>>] = ended[<<call, i>>]
    BY <1>1, <1>4, <1>10
  <2>4. CASE i = at[t]
    BY <1>2, <1>4, <2>4
  <2>5. CASE i # at[t]
    BY <2>1, <2>2, <2>3, <2>5
  <2> QED
    BY <2>4, <2>5
<1> QED
  BY <1>5, <1>6, <1>8, <1>9, <1>10 DEF Once

(* The call returns. *)
LEMMA OnceReturn ==
    ASSUME Types, Types', Once, UNCHANGED <<call, n, begun, ended>>, Active, ~Active',
           Handed >= n, \A u \in Threads : ~Holds(u) /\ ~Holds(u)'
    PROVE  Once' /\ Promise!Next
<1>1. n \in Nat /\ call > 0 /\ Handed \in Int
  BY HandedInt, SMTT(20) DEF Types
<1>2. \A i \in 0 .. n - 1 : begun[<<call, i>>] = 1 /\ ended[<<call, i>>] = 1
  BY <1>1 DEF Once
<1>3. Promise!Next
  BY <1>2 DEF Promise!Next, Promise!Return
<1>4. Once'
  BY <1>2 DEF Once
<1> QED
  BY <1>3, <1>4

(* The iterations of a call are among those that are counted. *)
LEMMA InRange ==
    ASSUME NEW c \in 1 .. MaxCalls, NEW m \in 0 .. MaxIterations, NEW i \in 0 .. m - 1
    PROVE  <<c, i>> \in Invocations
<1>1. i \in 0 .. MaxIterations - 1
  BY Sizes
<1> QED
  BY <1>1 DEF Invocations

(* parallel_for is called. *)
LEMMA OnceCall ==
    ASSUME Types, Types', Fresh, UNCHANGED <<begun, ended>>, ~Active, Active',
           call < MaxCalls, call' = call + 1, Handed' = 0,
           \A u \in Threads : ~Holds(u)'
    PROVE  Once' /\ Promise!Next
<1>1. /\ call \in Nat /\ MaxCalls \in Nat /\ n' \in 0 .. MaxIterations
  BY Sizes DEF Types
<1>2. PICK m \in 0 .. MaxIterations : m = n'
  BY <1>1
<1>3. PICK c \in 1 .. MaxCalls : c = call' /\ c > call
  BY <1>1
<1>4. ASSUME NEW i \in 0 .. m - 1
      PROVE  begun'[<<call', i>>] = 0 /\ ended'[<<call', i>>] = 0
  <2>1. <<c, i>> \in Invocations
    BY InRange
  <2>2. begun[<<c, i>>] = 0 /\ ended[<<c, i>>] = 0
    BY <1>3, <2>1 DEF Fresh
  <2> QED
    BY <1>3, <2>2
<1>5. Promise!Next
  BY <1>1 DEF Promise!Next, Promise!Call
<1>6. \A i \in 0 .. m - 1 : i >= Handed'
  BY <1>2, Sizes
<1>7. Once'
  BY <1>2, <1>4, <1>6 DEF Once
<1> QED
  BY <1>5, <1>7

(* Calls not made yet have entered nothing, whatever the step. *)
LEMMA FreshKept ==
    ASSUME Fresh, Types, Types', call' = call \/ call' = call + 1,
           \A x \in Invocations : x[1] > call => begun'[x] = begun[x] /\ ended'[x] = ended[x]
    PROVE  Fresh'
<1>1. call \in Nat
  BY Sizes DEF Types
<1>2. ASSUME NEW x \in Invocations, x[1] > call'
      PROVE  begun'[x] = 0 /\ ended'[x] = 0
  <2>1. x[1] \in Nat
    BY DEF Invocations
  <2>2. x[1] > call
    BY <1>1, <1>2, <2>1
  <2> QED
    BY <2>2 DEF Fresh
<1> QED
  BY <1>2 DEF Fresh

-----------------------------------------------------------------------------
(* Steps that neither enter nor leave func. *)

HoldPcs == {"begin", "end", "beginInline", "endInline", "compare"}

\* Thread u does not move, or is somewhere where it holds nothing.
Still(u) ==
    \/ pc[u] \notin HoldPcs /\ pc'[u] \notin HoldPcs
    \/ pc'[u] = pc[u] /\ at'[u] = at[u] /\ job'[u] = job[u]

\* A thread that does not move keeps what it holds.
LEMMA StillKeeps ==
    ASSUME Once, strategy' = strategy, UNCHANGED <<call, n>>, NEW u \in Threads, Still(u),
           strategy = "atomic" /\ pc[u] = "compare" => num_iterations_' = num_iterations_
    PROVE  Keeps(u)
<1>1. CASE pc[u] \notin HoldPcs /\ pc'[u] \notin HoldPcs
  BY <1>1 DEF Keeps, Holds, HoldPcs
<1>2. CASE pc'[u] = pc[u] /\ at'[u] = at[u] /\ job'[u] = job[u]
  <2>1. Holds(u)' <=> Holds(u)
    BY <1>2 DEF Holds
  <2>2. Entered(u)' = Entered(u)
    BY <1>2 DEF Entered
  <2>3. Holds(u) => OwnJob(u)
    BY DEF Once, Held
  <2>4. OwnJob(u) => OwnJob(u)'
    BY <1>2 DEF OwnJob, Shared
  <2> QED
    BY <1>2, <2>1, <2>2, <2>3, <2>4 DEF Keeps
<1> QED
  BY <1>1, <1>2 DEF Still

\* A step that hands out, enters and ends nothing is a stutter of ParallelFor.
LEMMA QuietStep ==
    ASSUME IInv, Types', Pcs', PoolInv', UNCHANGED <<call, n, begun, ended>>,
           Active' <=> Active, pc[Main] # "crashed", raced => raced',
           ~raced /\ ~raced' /\ Once => /\ Handed' = Handed \/ (Handed >= n /\ Handed' >= n)
                                        /\ \A u \in Threads : Keeps(u)
    PROVE  StepOK
<1>1. Types /\ Fresh /\ (~raced => Once)
  BY DEF IInv
<1>2. Fresh'
  BY <1>1, FreshKept
<1>3. ~raced' => Once'
  BY <1>1, OnceQuiet
<1>4. UNCHANGED (Promise!vars)
  BY DEF Promise!vars, Active
<1> QED
  BY <1>2, <1>3, <1>4 DEF StepOK, IInv, Refines

(* The call returns. *)
LEMMA ReturnStep ==
    ASSUME IInv, Types', Pcs', PoolInv', UNCHANGED <<call, n, begun, ended>>,
           Active, ~Active', raced => raced',
           ~raced /\ ~raced' /\ Once => /\ Handed >= n
                                        /\ \A u \in Threads : ~Holds(u) /\ ~Holds(u)'
    PROVE  StepOK
<1>1. Types /\ Fresh /\ (~raced => Once)
  BY DEF IInv, Active
<1>2. Fresh'
  BY <1>1, FreshKept
<1>3. ~raced' => Once' /\ Promise!Next
  BY <1>1, OnceReturn
<1> QED
  BY <1>2, <1>3 DEF StepOK, IInv, Refines

(* A thread is handed the next iteration. *)
LEMMA HandStep ==
    ASSUME IInv, Types', Pcs', PoolInv', UNCHANGED <<call, n, begun, ended>>,
           Active, Active', raced => raced', NEW t \in Threads,
           ~raced /\ ~raced' /\ Once =>
               /\ Handed < n /\ Handed' = Handed + 1 /\ ~Holds(t) /\ Holds(t)'
               /\ at'[t] = Handed /\ Entered(t)' = 0 /\ OwnJob(t)'
               /\ \A u \in Threads : u # t => Keeps(u)
    PROVE  StepOK
<1>1. Types /\ Fresh /\ (~raced => Once)
  BY DEF IInv, Active
<1>2. Fresh'
  BY <1>1, FreshKept
<1>3. ~raced' => Once'
  BY <1>1, OnceHand
<1>4. UNCHANGED (Promise!vars)
  BY DEF Promise!vars, Active
<1> QED
  BY <1>2, <1>3, <1>4 DEF StepOK, IInv, Refines

(* Main stays where it is. *)
LEMMA MainStays ==
    ASSUME pc'[Main] = pc[Main]
    PROVE  /\ Active' <=> Active
           /\ Running' <=> Running
           /\ Draining' <=> Draining
           /\ Resetting' <=> Resetting
BY DEF Active, Running, Draining, Resetting

-----------------------------------------------------------------------------
(* The mutex pool. *)

\* The threads that hold an iteration can be counted.
LEMMA HoldersSize ==
    /\ Holders \in SUBSET Threads /\ Cardinality(Holders) \in Nat
    /\ Cardinality(Holders) <= NumCpus + 1
    /\ (Cardinality(Holders) = 0 <=> Holders = {})
<1>1. Holders \in SUBSET Threads
  BY DEF Holders
<1> QED
  BY <1>1, SubsetSize

\* What the invariant says of a mutex pool.
LEMMA MutexFacts ==
    ASSUME IInv, strategy = "mutex"
    PROVE  /\ Types /\ Pcs /\ MutexInv /\ Shared /\ pc[Main] # "crashed"
           /\ iteration_ \in Nat /\ complete_ \in Nat /\ num_iterations_ \in Nat /\ n \in Nat
           /\ ~Running => Holders = {} /\ iteration_ = num_iterations_
<1>1. Types /\ Pcs /\ MutexInv /\ pc[Main] # "crashed"
  BY DEF IInv, PoolInv, Pcs, MainPcs, InlinePcs, StopPcs
<1>2. iteration_ \in Nat /\ complete_ \in Nat /\ num_iterations_ \in Nat /\ n \in Nat
  BY <1>1, Sizes DEF Types
<1>3. ~Running => Cardinality(Holders) = 0 /\ iteration_ = num_iterations_
  BY <1>1, <1>2, HoldersSize DEF MutexInv
<1> QED
  BY <1>1, <1>2, <1>3, HoldersSize DEF Shared

\* start_tasks publishes a job when nobody holds an iteration of the last one.
LEMMA StartTasksOK ==
    ASSUME IInv, StartTasks
    PROVE  StepOK
<1>1. strategy = "mutex" /\ pc[Main] = "start"
  BY DEF StartTasks
<1>2. /\ Types /\ Pcs /\ MutexInv /\ n \in Nat /\ pc[Main] # "crashed"
      /\ Active /\ ~Running /\ Holders = {}
  BY <1>1, MutexFacts DEF Running, Active
<1>3. /\ pc' = [pc EXCEPT ![Main] = "notify"] /\ task_' = call /\ num_iterations_' = n
      /\ iteration_' = 0 /\ complete_' = 0
      /\ UNCHANGED <<caller, locals, queues, ghosts>>
  BY DEF StartTasks, Goto
<1>4. pc'[Main] = "notify" /\ (\A u \in Threads : u # Main => pc'[u] = pc[u]) /\ Main \in Threads
  BY <1>2, <1>3, Moved, PoolThreads
<1>5. Active' /\ Running'
  BY <1>4 DEF Active, Running, InlinePcs
<1>6. Types'
  BY <1>2, <1>3, <1>4 DEF Types, caller, locals, queues, ghosts, InlinePcs, Active
<1>7. Pcs'
  BY <1>1, <1>2, <1>3, <1>4, PcsMove DEF Allowed, MainPcs, caller
<1>8. Holders' = {}
  BY <1>1, <1>2, <1>4, HoldersMove DEF Holders
<1>9. PoolInv'
  <2>1. Cardinality(Holders') = 0
    BY <1>8, FS_EmptySet
  <2> QED
    BY <1>1, <1>2, <1>3, <1>5, <2>1 DEF PoolInv, MutexInv, caller
<1>10. Handed' = Handed
  BY <1>1, <1>2, <1>3, <1>4, <1>5 DEF Handed, InlinePcs, caller
<1>11. \A u \in Threads : Still(u)
  BY <1>1, <1>3, <1>4 DEF Still, HoldPcs, locals
<1>12. Once => \A u \in Threads : Keeps(u)
  BY <1>1, <1>3, <1>11, StillKeeps DEF caller
<1> QED
  BY <1>2, <1>3, <1>5, <1>6, <1>7, <1>9, <1>10, <1>12, QuietStep DEF caller, ghosts

(* Sleeping workers are woken while main goes on. *)
LEMMA WokenMove ==
    ASSUME Pcs, NEW S, NEW x, pc' = [Woken(S) EXCEPT ![Main] = x],
           pc[Main] \notin HoldPcs \cup {"count"}, x \notin HoldPcs \cup {"count"},
           x \in MainPcs(strategy), strategy' = strategy
    PROVE  /\ Pcs' /\ pc'[Main] = x /\ Holders' = Holders
           /\ \A u \in Threads : u # Main =>
                  pc'[u] = pc[u] \/ (pc[u] = "asleep" /\ pc'[u] = "wait")
<1>1. /\ Main \in Threads /\ Woken(S) = [u \in Threads |-> IF u \in S /\ pc[u] = "asleep" THEN "wait" ELSE pc[u]]
  BY PoolThreads DEF Woken
<1>2. /\ pc'[Main] = x /\ pc' = [u \in Threads |-> pc'[u]]
      /\ \A u \in Threads : u # Main =>
             pc'[u] = pc[u] \/ (pc[u] = "asleep" /\ pc'[u] = "wait")
  BY <1>1
<1>3. \A u \in Threads : Allowed(u, pc'[u])
  <2> SUFFICES ASSUME NEW u \in Threads
               PROVE  Allowed(u, pc'[u])
    OBVIOUS
  <2>1. Allowed(u, pc[u])
    BY PcsAllowed
  <2>2. CASE u = Main
    BY <1>2, <2>2 DEF Allowed
  <2>3. CASE u # Main /\ pc'[u] = pc[u]
    BY <2>1, <2>3
  <2>4. CASE u # Main /\ pc[u] = "asleep" /\ pc'[u] = "wait"
    BY <2>1, <2>4 DEF Allowed, WorkerPcs
  <2> QED
    BY <1>2, <2>2, <2>3, <2>4
<1>4. Holders' = Holders
  <2>1. \A u \in Threads :
            pc'[u] \in {"begin", "end", "count"} <=> pc[u] \in {"begin", "end", "count"}
    BY <1>2 DEF HoldPcs
  <2> QED
    BY <2>1 DEF Holders
<1> QED
  BY <1>2, <1>3, <1>4, PcsAllowedNext

\* notify_all wakes workers, which hold nothing.
LEMMA MutexNotifyAllOK ==
    ASSUME IInv, strategy = "mutex", NotifyAll
    PROVE  StepOK
<1>1. pc[Main] = "notify"
  BY DEF NotifyAll
<1>2. Types /\ Pcs /\ MutexInv /\ Active /\ Running
  BY <1>1, MutexFacts DEF Running, Active, InlinePcs
<1>3. /\ pc' = [Woken(Pool) EXCEPT ![Main] = "take"]
      /\ UNCHANGED <<caller, locals, counters, queues, ghosts>>
  BY DEF NotifyAll
<1>4. /\ Pcs' /\ pc'[Main] = "take" /\ Holders' = Holders
      /\ \A u \in Threads : u # Main =>
             pc'[u] = pc[u] \/ (pc[u] = "asleep" /\ pc'[u] = "wait")
  <2>1. /\ "take" \in MainPcs(strategy)
        /\ pc[Main] \notin HoldPcs \cup {"count"} /\ "take" \notin HoldPcs \cup {"count"}
        /\ strategy' = strategy
    BY <1>1, <1>3 DEF MainPcs, HoldPcs, caller
  <2> HIDE DEF Woken
  <2> QED
    BY <1>2, <1>3, <2>1, WokenMove
<1>5. Active' /\ Running'
  BY <1>4 DEF Active, Running, InlinePcs
<1>6. Types'
  BY <1>2, <1>3, <1>4 DEF Types, caller, locals, counters, queues, ghosts, InlinePcs, Active
<1>7. PoolInv'
  BY <1>2, <1>3, <1>4, <1>5 DEF PoolInv, MutexInv, caller, counters
<1>8. Handed' = Handed
  BY <1>1, <1>2, <1>3, <1>4, <1>5 DEF Handed, InlinePcs, caller, counters
<1>9. \A u \in Threads : Still(u)
  BY <1>1, <1>3, <1>4 DEF Still, HoldPcs, locals
<1>10. Once => \A u \in Threads : Keeps(u)
  BY <1>3, <1>9, StillKeeps DEF caller, counters
<1> QED
  BY <1>1, <1>2, <1>3, <1>4, <1>5, <1>6, <1>7, <1>8, <1>10, QuietStep DEF caller, ghosts

\* The first critical section hands out the next iteration or leaves do_iterations.
LEMMA TakeOK ==
    ASSUME IInv, NEW t \in Threads, Take(t)
    PROVE  StepOK
<1>1. strategy = "mutex" /\ pc[t] = "take" /\ strategy' = strategy
  BY DEF Take, caller
<1>2. /\ Types /\ Pcs /\ MutexInv /\ pc[Main] # "crashed" /\ Shared
      /\ iteration_ \in Nat /\ num_iterations_ \in Nat
      /\ ~Running => iteration_ = num_iterations_
  BY <1>1, MutexFacts
<1>3. t \notin Holders /\ (t = Main => Running) /\ (t # Main => t \in Pool)
  BY <1>1, <1>2 DEF Holders, Running, Active, InlinePcs, Pcs
<1>4. CASE iteration_ = num_iterations_
  <2>1. /\ pc' = [pc EXCEPT ![t] = Leave(t)]
        /\ UNCHANGED <<caller, locals, counters, queues, ghosts>>
    BY <1>4 DEF Take, Goto, locals, counters
  <2>2. Leave(t) = IF t = Main THEN "await" ELSE "wait"
    BY <1>1 DEF Leave
  <2>3. pc'[t] = Leave(t) /\ (\A u \in Threads : u # t => pc'[u] = pc[u])
    BY <1>2, <2>1, Moved
  <2>4. Pcs'
    <3>1. Allowed(t, Leave(t))
      BY <1>1, <1>3, <2>2 DEF Allowed, MainPcs, WorkerPcs
    <3> QED
      BY <1>1, <1>2, <2>1, <3>1, PcsMove
  <2>5. /\ (Active' <=> Active) /\ (Running' <=> Running)
        /\ pc'[Main] = pc[Main] \/ (pc'[Main] = "await" /\ Running)
    <3>1. CASE t = Main
      BY <1>3, <2>2, <2>3, <3>1 DEF Active, Running, InlinePcs
    <3>2. CASE t # Main
      BY <2>3, <3>2, PoolThreads, MainStays
    <3> QED
      BY <3>1, <3>2
  <2>6. Types'
    BY <1>2, <2>1, <2>5 DEF Types, caller, locals, counters, queues, ghosts, InlinePcs
  <2>7. Holders' = Holders
    BY <1>3, <2>2, <2>3, <1>2, HoldersMove
  <2>8. PoolInv'
    BY <1>1, <1>2, <2>1, <2>5, <2>7 DEF PoolInv, MutexInv, caller, counters
  <2>9. Handed' = Handed
    BY <1>1, <2>1, <2>5 DEF Handed, InlinePcs, caller, counters, Running
  <2>10. \A u \in Threads : Still(u)
    BY <1>1, <2>1, <2>2, <2>3 DEF Still, HoldPcs, locals
  <2>11. Once => \A u \in Threads : Keeps(u)
    BY <2>1, <2>10, StillKeeps DEF caller, counters
  <2> QED
    BY <1>2, <2>1, <2>4, <2>5, <2>6, <2>8, <2>9, <2>11, QuietStep DEF caller, ghosts
<1>5. CASE iteration_ # num_iterations_
  <2>1. /\ pc' = [pc EXCEPT ![t] = "begin"] /\ at' = [at EXCEPT ![t] = iteration_]
        /\ iteration_' = iteration_ + 1
        /\ UNCHANGED <<caller, job, num_iterations_, complete_, task_, queues, ghosts>>
    BY <1>5 DEF Take, Goto
  <2>2. Running /\ Active /\ num_iterations_ = n /\ iteration_ < n /\ n <= MaxIterations
    BY <1>2, <1>5, Sizes DEF MutexInv, Running, Types
  <2>3. pc'[t] = "begin" /\ (\A u \in Threads : u # t => pc'[u] = pc[u])
    BY <1>2, <2>1, Moved
  <2>4. Pcs'
    <3>1. Allowed(t, "begin")
      BY <1>1, <1>3 DEF Allowed, MainPcs, WorkerPcs
    <3> QED
      BY <1>1, <1>2, <2>1, <3>1, PcsMove
  <2>5. Active' /\ Running' /\ pc'[Main] \notin InlinePcs
    BY <2>2, <2>3, PoolThreads DEF Active, Running, InlinePcs
  <2>6. at'[t] = iteration_ /\ (\A u \in Threads : u # t => at'[u] = at[u])
        /\ at' \in [Threads -> 0 .. MaxIterations + NumCpus]
    <3>1. iteration_ \in 0 .. MaxIterations + NumCpus
      BY <1>2, <2>2, Sizes DEF Types
    <3>2. at \in [Threads -> 0 .. MaxIterations + NumCpus]
      BY <1>2 DEF Types
    <3> QED
      BY <2>1, <3>1, <3>2
  <2>7. Types'
    BY <1>2, <2>1, <2>2, <2>5, <2>6 DEF Types, caller, queues, ghosts
  <2>8. Cardinality(Holders') = Cardinality(Holders) + 1
    BY <1>2, <1>3, <2>3, HoldersMove
  <2>9. PoolInv'
    <3>1. MutexInv'
      BY <1>2, <2>1, <2>2, <2>5, <2>8, HoldersSize DEF MutexInv, caller, Types
    <3> QED
      BY <1>1, <3>1 DEF PoolInv
  <2>10. Handed = iteration_ /\ Handed' = iteration_ + 1
    BY <1>1, <2>1, <2>2, <2>5 DEF Handed, InlinePcs, caller, Running
  <2>11. ~Holds(t) /\ Holds(t)' /\ Entered(t)' = 0 /\ OwnJob(t)'
    BY <1>1, <1>2, <2>3 DEF Holds, Entered, OwnJob, Shared
  <2>12. \A u \in Threads : u # t => Still(u)
    BY <2>1, <2>3, <2>6 DEF Still
  <2>13. Once => \A u \in Threads : u # t => Keeps(u)
    BY <2>1, <2>12, StillKeeps DEF caller
  <2> QED
    BY <2>1, <2>2, <2>4, <2>5, <2>6, <2>7, <2>9, <2>10, <2>11, <2>13, HandStep DEF caller, ghosts
<1> QED
  BY <1>4, <1>5

\* The second critical section counts an iteration that has ended.
LEMMA CountOK ==
    ASSUME IInv, NEW t \in Threads, Count(t)
    PROVE  StepOK
<1>1. strategy = "mutex" /\ pc[t] = "count" /\ strategy' = strategy
  BY DEF Count, caller
<1>2. /\ Types /\ Pcs /\ MutexInv /\ pc[Main] # "crashed"
      /\ iteration_ \in Nat /\ complete_ \in Nat /\ num_iterations_ \in Nat
  BY <1>1, MutexFacts
<1>3. t \in Holders /\ Running /\ Active /\ (t # Main => t \in Pool)
  BY <1>1, <1>2, MutexFacts DEF Holders, Running, Pcs
<1>4. /\ complete_' = complete_ + 1
      /\ UNCHANGED <<caller, locals, num_iterations_, iteration_, task_, queues, ghosts>>
  BY DEF Count
\* t leaves or goes on; main is woken when it sleeps and t was the last.
<1>5. PICK x, y : /\ x \in {"await", "wait", "take"} /\ (x = "await" => t = Main)
                  /\ (x = "wait" => t # Main)
                  /\ pc'[t] = x /\ pc' = [u \in Threads |-> pc'[u]]
                  /\ \A u \in Threads : u # t /\ u # Main => pc'[u] = pc[u]
                  /\ t # Main => pc'[Main] = y
                  /\ y = pc[Main] \/ (pc[Main] = "awaiting" /\ y = "await")
  <2>0. Main \in Threads /\ pc = [u \in Threads |-> pc[u]]
        /\ Leave(t) = IF t = Main THEN "await" ELSE "wait"
    BY <1>1, <1>2, PoolThreads DEF Pcs, Leave
  <2>1. CASE complete_' = num_iterations_
    <3>1. pc' = [pc EXCEPT ![t] = Leave(t),
                           ![Main] = IF t = Main THEN "await"
                                     ELSE IF @ = "awaiting" THEN "await" ELSE @]
      BY <2>1 DEF Count
    <3>2. CASE t = Main
      BY <2>0, <3>1, <3>2
    <3>3. CASE t # Main
      BY <2>0, <3>1, <3>3
    <3> QED
      BY <3>2, <3>3
  <2>2. CASE complete_' # num_iterations_
    <3>1. pc' = [pc EXCEPT ![t] = "take"]
      BY <2>2 DEF Count, Goto
    <3> QED
      BY <2>0, <3>1
  <2> QED
    BY <2>1, <2>2
<1>6. Active' /\ Running' /\ pc'[Main] \notin InlinePcs
  BY <1>3, <1>5 DEF Active, Running, InlinePcs
<1>7. Pcs'
  <2>1. \A u \in Threads : Allowed(u, pc'[u])
    <3> SUFFICES ASSUME NEW u \in Threads
                 PROVE  Allowed(u, pc'[u])
      OBVIOUS
    <3>0. Allowed(u, pc[u])
      BY <1>2, PcsAllowed
    <3>1. CASE u = t
      BY <1>1, <1>3, <1>5, <3>1 DEF Allowed, MainPcs, WorkerPcs
    <3>2. CASE u # t /\ u = Main
      BY <1>1, <1>5, <3>0, <3>2 DEF Allowed, MainPcs
    <3>3. CASE u # t /\ u # Main
      BY <1>5, <3>0, <3>3
    <3> QED
      BY <3>1, <3>2, <3>3
  <2> QED
    BY <1>1, <1>5, <2>1, PcsAllowedNext
<1>8. Types'
  BY <1>2, <1>3, <1>4, <1>6 DEF Types, caller, locals, queues, ghosts
<1>9. Cardinality(Holders') = Cardinality(Holders) - 1
  <2>1. \A u \in Threads : u # t =>
            (pc'[u] \in {"begin", "end", "count"} <=> pc[u] \in {"begin", "end", "count"})
    BY <1>5
  <2>2. pc'[t] = x /\ x \notin {"begin", "end", "count"}
    BY <1>5
  <2> QED
    BY <1>2, <1>3, <2>1, <2>2, HoldersMove
<1>10. PoolInv'
  <2>1. MutexInv'
    BY <1>2, <1>3, <1>4, <1>6, <1>9, HoldersSize DEF MutexInv, caller
  <2> QED
    BY <1>1, <2>1 DEF PoolInv
<1>11. Handed' = Handed
  BY <1>1, <1>3, <1>4, <1>6 DEF Handed, caller
<1>12. \A u \in Threads : Still(u)
  BY <1>1, <1>4, <1>5 DEF Still, HoldPcs, locals
<1>13. Once => \A u \in Threads : Keeps(u)
  BY <1>1, <1>4, <1>12, StillKeeps DEF caller
<1> QED
  BY <1>2, <1>3, <1>4, <1>6, <1>7, <1>8, <1>10, <1>11, <1>13, QuietStep DEF caller, ghosts

\* A worker's wait hands out nothing.
LEMMA MutexWorkerWaitOK ==
    ASSUME IInv, strategy = "mutex", NEW t \in Threads, WorkerWait(t)
    PROVE  StepOK
<1>1. /\ t \in Pool /\ pc[t] = "wait" /\ strategy' = strategy
      /\ UNCHANGED <<caller, locals, counters, queues, ghosts>>
  BY DEF WorkerWait, caller
<1>2. Types /\ Pcs /\ MutexInv /\ pc[Main] # "crashed"
  BY MutexFacts
<1>3. PICK x \in {"exited", "asleep", "take"} : pc' = [pc EXCEPT ![t] = x]
  BY DEF WorkerWait, Goto
<1>4. /\ pc'[t] = x /\ (\A u \in Threads : u # t => pc'[u] = pc[u]) /\ pc'[Main] = pc[Main]
  BY <1>1, <1>2, <1>3, Moved, PoolThreads
<1>5. Pcs'
  <2>1. Allowed(t, x)
    BY <1>1, PoolThreads DEF Allowed, WorkerPcs
  <2> QED
    BY <1>1, <1>2, <1>3, <2>1, PcsMove
<1>6. (Active' <=> Active) /\ (Running' <=> Running)
  BY <1>4, MainStays
<1>7. Types'
  BY <1>1, <1>2, <1>4, <1>6 DEF Types, caller, locals, counters, queues, ghosts
<1>8. Holders' = Holders
  <2>1. t \notin Holders
    BY <1>1 DEF Holders
  <2> QED
    BY <1>2, <1>4, <2>1, HoldersMove
<1>9. PoolInv'
  BY <1>1, <1>2, <1>6, <1>8 DEF PoolInv, MutexInv, caller, counters
<1>10. Handed' = Handed
  BY <1>1, <1>4, <1>6 DEF Handed, caller, counters
<1>11. \A u \in Threads : Still(u)
  BY <1>1, <1>4 DEF Still, HoldPcs, locals
<1>12. Once => \A u \in Threads : Keeps(u)
  BY <1>1, <1>11, StillKeeps DEF caller, counters
<1> QED
  BY <1>1, <1>2, <1>5, <1>6, <1>7, <1>9, <1>10, <1>12, QuietStep DEF caller, ghosts

\* start_tasks returns when complete_ has reached num_iterations_: all have ended.
LEMMA MutexAwaitOK ==
    ASSUME IInv, strategy = "mutex", Await
    PROVE  StepOK
<1>1. /\ pc[Main] = "await" /\ strategy' = strategy
      /\ UNCHANGED <<caller, locals, counters, queues, ghosts>>
  BY DEF Await, caller
<1>2. /\ Types /\ Pcs /\ MutexInv /\ pc[Main] # "crashed" /\ Main \in Threads
      /\ iteration_ \in Nat /\ complete_ \in Nat /\ num_iterations_ \in Nat /\ n \in Nat
      /\ Active /\ Running /\ Main \notin Holders
  BY <1>1, MutexFacts, PoolThreads DEF Active, Running, InlinePcs, Holders
<1>3. PICK x \in {"idle", "awaiting"} :
          pc' = [pc EXCEPT ![Main] = x] /\ (x = "idle" <=> complete_ = num_iterations_)
  BY DEF Await, Goto
<1>4. /\ pc'[Main] = x /\ (\A u \in Threads : u # Main => pc'[u] = pc[u])
  BY <1>2, <1>3, Moved
<1>5. Pcs'
  <2>1. Allowed(Main, x)
    BY DEF Allowed, MainPcs
  <2> QED
    BY <1>1, <1>2, <1>3, <2>1, PcsMove
<1>6. (x = "awaiting" => Active' /\ Running') /\ (x = "idle" => ~Active' /\ ~Running')
      /\ pc'[Main] \notin InlinePcs
  BY <1>4 DEF Active, Running, InlinePcs
<1>7. Types'
  BY <1>1, <1>2, <1>6 DEF Types, caller, locals, counters, queues, ghosts
<1>8. Holders' = Holders
  BY <1>2, <1>4, HoldersMove
<1>9. PoolInv'
  <2>1. MutexInv'
    BY <1>1, <1>2, <1>3, <1>6, <1>8 DEF MutexInv, caller, counters
  <2> QED
    BY <1>1, <2>1 DEF PoolInv
<1>10. Handed = iteration_
  BY <1>2 DEF Handed
<1>11. \A u \in Threads : Still(u)
  BY <1>1, <1>4 DEF Still, HoldPcs, locals
<1>12. CASE x = "awaiting"
  <2>1. Handed' = Handed
    BY <1>1, <1>2, <1>6, <1>12 DEF Handed, caller, counters
  <2>2. Once => \A u \in Threads : Keeps(u)
    BY <1>1, <1>11, StillKeeps DEF caller, counters
  <2> QED
    BY <1>1, <1>2, <1>5, <1>6, <1>7, <1>9, <1>12, <2>1, <2>2, QuietStep DEF caller, ghosts
<1>13. CASE x = "idle"
  <2>1. Cardinality(Holders) = 0 /\ iteration_ = n
    BY <1>2, <1>3, <1>13, HoldersSize DEF MutexInv
  <2>2. Holders = {}
    BY <2>1, HoldersSize
  <2>3. \A u \in Threads : ~Holds(u) /\ ~Holds(u)'
    <3>1. \A u \in Threads : pc[u] \notin {"begin", "end", "beginInline", "endInline"}
      BY <1>1, <1>2, <2>2 DEF Holders, Pcs, WorkerPcs
    <3>2. \A u \in Threads : pc'[u] \notin {"begin", "end", "beginInline", "endInline"}
      BY <1>4, <3>1
    <3> QED
      BY <1>1, <3>1, <3>2 DEF Holds
  <2>4. Handed >= n
    BY <1>2, <1>10, <2>1
  <2> QED
    BY <1>1, <1>2, <1>5, <1>6, <1>7, <1>9, <1>13, <2>3, <2>4, ReturnStep DEF caller, ghosts
<1> QED
  BY <1>12, <1>13

-----------------------------------------------------------------------------
(* The queued pool. *)

\* What the invariant says of a queued pool.
LEMMA QueuedFacts ==
    ASSUME IInv, strategy = "queued"
    PROVE  /\ Types /\ Pcs /\ QueuedInv /\ ~Shared /\ pc[Main] # "crashed"
           /\ tasks \in Seq(Nat \X Nat) /\ Len(tasks) \in Nat /\ n \in Nat /\ at[Main] \in Nat
           /\ n <= MaxIterations /\ Main \in Threads
           /\ Main \notin Holders /\ pc[Main] \notin {"begin", "end", "count"}
<1>1. Types /\ Pcs /\ QueuedInv /\ pc[Main] # "crashed" /\ pc[Main] \notin {"begin", "end", "count"}
  BY DEF IInv, PoolInv, Pcs, MainPcs, InlinePcs, StopPcs
<1>2. Main \in Threads
  BY PoolThreads
<1>3. tasks \in Seq(Nat \X Nat) /\ Len(tasks) \in Nat
  BY <1>1 DEF Types
<1>4. n \in Nat /\ at[Main] \in Nat /\ n <= MaxIterations
  BY <1>1, <1>2, Sizes DEF Types
<1> QED
  BY <1>1, <1>2, <1>3, <1>4 DEF Shared, Holders

\* pool.wait() returns when the queue is empty and no task runs: all have ended.
LEMMA PoolWaitOK ==
    ASSUME IInv, PoolWait
    PROVE  StepOK
<1>1. /\ strategy = "queued" /\ pc[Main] \in {"start", "await"} /\ strategy' = strategy
      /\ UNCHANGED <<caller, job, counters, queues, ghosts>>
  BY DEF PoolWait, caller
<1>2. /\ Types /\ Pcs /\ QueuedInv /\ pc[Main] # "crashed" /\ Main \in Threads
      /\ n \in Nat /\ Len(tasks) \in Nat /\ Main \notin Holders /\ Active
      /\ (Running <=> pc[Main] = "await")
  BY <1>1, QueuedFacts DEF Active, Running, InlinePcs
<1>3. tasks_running = Cardinality(Holders) /\ (tasks_running = 0 <=> Holders = {})
  BY <1>2, HoldersSize DEF QueuedInv
<1>4. pc[Main] = "start" => tasks = <<>> /\ tasks_running = 0
  BY <1>1, <1>2, <1>3 DEF QueuedInv
<1>5. PICK x \in {"push", "awaiting", "idle"} :
          /\ pc' = [pc EXCEPT ![Main] = x]
          /\ x = "push" <=> pc[Main] = "start"
          /\ x = "idle" => tasks = <<>> /\ tasks_running = 0
          /\ x = "push" => at' = [at EXCEPT ![Main] = 0]
          /\ x # "push" => at' = at
  BY <1>1, <1>4 DEF PoolWait, Goto
<1>6. pc'[Main] = x /\ (\A u \in Threads : u # Main => pc'[u] = pc[u])
  BY <1>2, <1>5, Moved
<1>7. Pcs'
  <2>1. Allowed(Main, x)
    BY <1>1 DEF Allowed, MainPcs
  <2> QED
    BY <1>1, <1>2, <1>5, <2>1, PcsMove
<1>8. /\ x = "idle" => ~Active' /\ ~Running'
      /\ x # "idle" => Active' /\ Running'
      /\ pc'[Main] \notin InlinePcs
  BY <1>6 DEF Active, Running, InlinePcs
<1>9. at' \in [Threads -> 0 .. MaxIterations + NumCpus] /\ (x = "push" => at'[Main] = 0)
      /\ \A u \in Threads : u # Main => at'[u] = at[u]
  <2>1. at \in [Threads -> 0 .. MaxIterations + NumCpus] /\ 0 \in 0 .. MaxIterations + NumCpus
    BY <1>2, Sizes DEF Types
  <2> QED
    BY <1>2, <1>5, <2>1
<1>10. Types'
  BY <1>1, <1>2, <1>8, <1>9 DEF Types, caller, counters, queues, ghosts
<1>11. Holders' = Holders
  BY <1>2, <1>6, HoldersMove
<1>12. Pushed' = (IF x = "push" THEN 0 ELSE n) /\ (pc[Main] = "await" => Pushed = n)
  BY <1>1, <1>6, <1>9 DEF Pushed, caller
<1>13. PoolInv'
  <2>1. Running' => Pushed' <= n' /\ Consecutive(Pushed)'
    <3>1. CASE x = "push"
      <4>1. tasks' = <<>> /\ Len(tasks') = 0
        BY <1>1, <1>4, <1>5, <3>1 DEF queues
      <4> QED
        BY <1>1, <1>2, <1>12, <3>1, <4>1 DEF Consecutive, caller
    <3>2. CASE x = "awaiting"
      <4>1. Pushed = n /\ Pushed' = n /\ Running /\ Consecutive(Pushed)
        BY <1>1, <1>2, <1>5, <1>12, <3>2 DEF QueuedInv
      <4> QED
        BY <1>1, <1>2, <4>1 DEF Consecutive, caller, queues
    <3> QED
      BY <1>8, <3>1, <3>2
  <2>2. ~Running' => tasks' = <<>> /\ Holders' = {}
    BY <1>1, <1>3, <1>5, <1>8, <1>11 DEF queues
  <2>3. tasks_running' = Cardinality(Holders')
    BY <1>1, <1>3, <1>11 DEF queues
  <2>4. QueuedInv'
    BY <2>1, <2>2, <2>3 DEF QueuedInv
  <2> QED
    BY <1>1, <2>4 DEF PoolInv
<1>14. \A u \in Threads : Still(u)
  BY <1>1, <1>6, <1>9 DEF Still, HoldPcs
<1>15. CASE x # "idle"
  <2>1. Handed' = Handed
    <3>1. CASE x = "push"
      <4>1. ~Running /\ Handed = 0
        BY <1>2, <1>5, <3>1 DEF Handed, InlinePcs
      <4>2. Len(tasks') = 0 /\ Pushed' = 0
        BY <1>1, <1>4, <1>5, <1>12, <3>1 DEF queues
      <4> QED
        BY <1>1, <1>8, <3>1, <4>1, <4>2 DEF Handed
    <3>2. CASE x = "awaiting"
      <4>1. Running /\ Pushed' = Pushed
        BY <1>1, <1>2, <1>5, <1>12, <3>2
      <4> QED
        BY <1>1, <1>2, <1>8, <3>2, <4>1 DEF Handed, caller, queues
    <3> QED
      BY <1>15, <3>1, <3>2
  <2>2. Once => \A u \in Threads : Keeps(u)
    BY <1>1, <1>14, StillKeeps DEF caller, counters
  <2> QED
    BY <1>1, <1>2, <1>7, <1>8, <1>10, <1>13, <1>15, <2>1, <2>2, QuietStep DEF caller, ghosts
<1>16. CASE x = "idle"
  <2>1. Running /\ Holders = {} /\ Len(tasks) = 0 /\ Pushed = n
    BY <1>1, <1>2, <1>3, <1>5, <1>12, <1>16
  <2>2. Handed >= n
    <3>1. Handed = Pushed - Len(tasks)
      BY <1>1, <1>2, <2>1 DEF Handed
    <3> QED
      BY <1>2, <2>1, <3>1
  <2>3. \A u \in Threads : ~Holds(u) /\ ~Holds(u)'
    <3>1. \A u \in Threads : pc[u] \notin {"begin", "end", "beginInline", "endInline"}
      BY <1>1, <1>2, <2>1 DEF Holders, Pcs, WorkerPcs
    <3>2. \A u \in Threads : pc'[u] \notin {"begin", "end", "beginInline", "endInline"}
      BY <1>6, <1>16, <3>1
    <3> QED
      BY <1>1, <3>1, <3>2 DEF Holds
  <2> QED
    BY <1>1, <1>2, <1>7, <1>8, <1>10, <1>13, <1>16, <2>2, <2>3, ReturnStep DEF caller, ghosts
<1> QED
  BY <1>15, <1>16

\* enqueue puts the next iteration at the end of the queue.
LEMMA EnqueueOK ==
    ASSUME IInv, Enqueue
    PROVE  StepOK
<1>1. /\ strategy = "queued" /\ pc[Main] = "push" /\ strategy' = strategy
      /\ UNCHANGED <<caller, locals, counters, tasks_running, complete_queue_, stop, ghosts>>
  BY DEF Enqueue, caller
<1>2. /\ Types /\ Pcs /\ QueuedInv /\ pc[Main] # "crashed" /\ Main \in Threads
      /\ tasks \in Seq(Nat \X Nat) /\ n \in Nat /\ Len(tasks) \in Nat /\ at[Main] \in Nat
      /\ Main \notin Holders /\ Active /\ Running /\ call \in Nat
  BY <1>1, QueuedFacts, Sizes DEF Active, Running, InlinePcs, Types
<1>3. Pushed = at[Main] /\ Pushed <= n /\ Consecutive(Pushed)
  BY <1>1, <1>2 DEF Pushed, QueuedInv
<1>4. PICK x \in {"notifyOne", "await"} :
          /\ pc' = [pc EXCEPT ![Main] = x]
          /\ x = "notifyOne" => at[Main] < n /\ tasks' = Append(tasks, <<call, at[Main]>>)
          /\ x = "await" => ~(at[Main] < n) /\ tasks' = tasks
  BY DEF Enqueue, Goto
<1>5. pc'[Main] = x /\ (\A u \in Threads : u # Main => pc'[u] = pc[u])
  BY <1>2, <1>4, Moved
<1>6. Pcs'
  <2>1. Allowed(Main, x)
    BY <1>1 DEF Allowed, MainPcs
  <2> QED
    BY <1>1, <1>2, <1>4, <2>1, PcsMove
<1>7. Active' /\ Running' /\ pc'[Main] \notin InlinePcs
  BY <1>5 DEF Active, Running, InlinePcs
<1>8. tasks' \in Seq(Nat \X Nat)
  <2>1. <<call, at[Main]>> \in Nat \X Nat
    BY <1>2
  <2>2. Append(tasks, <<call, at[Main]>>) \in Seq(Nat \X Nat)
    BY <1>2, <2>1
  <2> QED
    BY <1>2, <1>4, <2>2
<1>9. Types'
  BY <1>1, <1>2, <1>7, <1>8 DEF Types, caller, locals, counters, ghosts
<1>10. Holders' = Holders
  BY <1>2, <1>5, HoldersMove
<1>11. Pushed' <= n /\ Consecutive(Pushed)' /\ Pushed' - Len(tasks') = Pushed - Len(tasks)
  <2>1. CASE x = "notifyOne"
    <3>1. Pushed' = at[Main] + 1
      BY <1>1, <1>5, <2>1 DEF Pushed, locals
    <3>2. /\ Len(tasks') = Len(tasks) + 1 /\ tasks'[Len(tasks) + 1] = <<call, at[Main]>>
          /\ \A j \in 1 .. Len(tasks) : tasks'[j] = tasks[j]
      BY <1>2, <1>4, <2>1, SMTT(20)
    <3>3. \A j \in 1 .. Len(tasks) : tasks[j] = <<call, Pushed - Len(tasks) + j - 1>>
      BY <1>3 DEF Consecutive
    <3>4. \A j \in 1 .. Len(tasks') : tasks'[j] = <<call', Pushed' - Len(tasks') + j - 1>>
      <4>0. PICK m \in Nat : m = Len(tasks') /\ m = Len(tasks) + 1
        BY <1>2, <3>2
      <4> SUFFICES ASSUME NEW j \in 1 .. m
                   PROVE  tasks'[j] = <<call', Pushed' - Len(tasks') + j - 1>>
        BY <4>0
      <4>1. j \in Nat /\ Pushed' - Len(tasks') + j - 1 = Pushed - Len(tasks) + j - 1
        BY <1>2, <1>3, <3>1, <3>2, <4>0, SMTT(20)
      <4>2. CASE j = Len(tasks) + 1
        <5>1. Pushed' - Len(tasks') + j - 1 = at[Main]
          BY <1>2, <1>3, <3>1, <3>2, <4>2
        <5> QED
          BY <1>1, <3>2, <4>2, <5>1 DEF caller
      <4>3. CASE j # Len(tasks) + 1
        <5>1. j \in 1 .. Len(tasks)
          BY <1>2, <4>0, <4>3
        <5> QED
          BY <1>1, <3>2, <3>3, <4>1, <5>1 DEF caller
      <4> QED
        BY <4>2, <4>3
    <3>5. Len(tasks) <= Pushed
      BY <1>3 DEF Consecutive
    <3>6. Len(tasks') <= Pushed' /\ Pushed' <= n /\ Pushed' - Len(tasks') = Pushed - Len(tasks)
      BY <1>2, <1>3, <1>4, <2>1, <3>1, <3>2, <3>5
    <3> QED
      BY <3>4, <3>6 DEF Consecutive
  <2>2. CASE x = "await"
    <3>1. Pushed' = n /\ Pushed = n
      BY <1>1, <1>2, <1>3, <1>4, <1>5, <2>2 DEF Pushed, caller
    <3> QED
      BY <1>1, <1>2, <1>3, <1>4, <2>2, <3>1 DEF Consecutive, caller
  <2> QED
    BY <2>1, <2>2
<1>12. PoolInv'
  <2>1. QueuedInv'
    BY <1>1, <1>2, <1>7, <1>10, <1>11 DEF QueuedInv, caller
  <2> QED
    BY <1>1, <2>1 DEF PoolInv
<1>13. Handed' = Handed
  BY <1>1, <1>2, <1>7, <1>11 DEF Handed
<1>14. \A u \in Threads : Still(u)
  BY <1>1, <1>4, <1>5 DEF Still, HoldPcs, locals
<1>15. Once => \A u \in Threads : Keeps(u)
  BY <1>1, <1>14, StillKeeps DEF caller, counters
<1> QED
  BY <1>1, <1>2, <1>6, <1>7, <1>9, <1>12, <1>13, <1>15, QuietStep DEF caller, ghosts

\* notify_one wakes a worker, which holds nothing.
LEMMA NotifyOneOK ==
    ASSUME IInv, NotifyOne
    PROVE  StepOK
<1>1. /\ strategy = "queued" /\ pc[Main] = "notifyOne" /\ strategy' = strategy
      /\ at' = [at EXCEPT ![Main] = @ + 1]
      /\ UNCHANGED <<caller, job, counters, queues, ghosts>>
  BY DEF NotifyOne, caller
<1>2. /\ Types /\ Pcs /\ QueuedInv /\ pc[Main] # "crashed" /\ Main \in Threads
      /\ n \in Nat /\ n <= MaxIterations /\ Len(tasks) \in Nat /\ at[Main] \in Nat
      /\ Active /\ Running
  BY <1>1, QueuedFacts DEF Active, Running, InlinePcs
<1>3. Pushed = at[Main] + 1 /\ Pushed <= n /\ Consecutive(Pushed)
  BY <1>1, <1>2 DEF Pushed, QueuedInv
<1>4. PICK S : pc' = [Woken(S) EXCEPT ![Main] = "push"]
  BY DEF NotifyOne
<1>5. /\ Pcs' /\ pc'[Main] = "push" /\ Holders' = Holders
      /\ \A u \in Threads : u # Main =>
             pc'[u] = pc[u] \/ (pc[u] = "asleep" /\ pc'[u] = "wait")
  <2>1. /\ "push" \in MainPcs(strategy)
        /\ pc[Main] \notin HoldPcs \cup {"count"} /\ "push" \notin HoldPcs \cup {"count"}
    BY <1>1 DEF MainPcs, HoldPcs
  <2> QED
    BY <1>1, <1>2, <1>4, <2>1, WokenMove
<1>6. Active' /\ Running' /\ pc'[Main] \notin InlinePcs
  BY <1>5 DEF Active, Running, InlinePcs
<1>7. /\ at'[Main] = at[Main] + 1 /\ (\A u \in Threads : u # Main => at'[u] = at[u])
      /\ at' \in [Threads -> 0 .. MaxIterations + NumCpus]
  <2>1. at \in [Threads -> 0 .. MaxIterations + NumCpus]
    BY <1>2 DEF Types
  <2>2. at[Main] + 1 \in 0 .. MaxIterations + NumCpus
    BY <1>2, <1>3, Sizes
  <2> QED
    BY <1>1, <1>2, <2>1, <2>2
<1>8. Types'
  BY <1>1, <1>2, <1>6, <1>7 DEF Types, caller, counters, queues, ghosts
<1>9. Pushed' = Pushed
  BY <1>3, <1>5, <1>7 DEF Pushed
<1>10. PoolInv'
  <2>1. QueuedInv'
    BY <1>1, <1>2, <1>3, <1>5, <1>6, <1>9 DEF QueuedInv, Consecutive, caller, queues
  <2> QED
    BY <1>1, <2>1 DEF PoolInv
<1>11. Handed' = Handed
  BY <1>1, <1>2, <1>6, <1>9 DEF Handed, queues
<1>12. \A u \in Threads : Still(u)
  BY <1>1, <1>5, <1>7 DEF Still, HoldPcs
<1>13. Once => \A u \in Threads : Keeps(u)
  BY <1>1, <1>12, StillKeeps DEF caller, counters
<1> QED
  BY <1>1, <1>2, <1>5, <1>6, <1>8, <1>10, <1>11, <1>13, QuietStep DEF caller, ghosts

(* A worker goes somewhere: main stays. *)
LEMMA WorkerMove ==
    ASSUME Pcs, strategy' = strategy, NEW t \in Threads, t \in Pool, NEW x,
           x \in WorkerPcs(strategy), pc' = [pc EXCEPT ![t] = x]
    PROVE  /\ Pcs' /\ pc'[t] = x /\ t # Main /\ pc'[Main] = pc[Main]
           /\ \A u \in Threads : u # t => pc'[u] = pc[u]
           /\ (Active' <=> Active) /\ (Running' <=> Running) /\ (Draining' <=> Draining)
           /\ (Resetting' <=> Resetting)
<1>1. t # Main /\ Main \in Threads /\ Allowed(t, x)
  BY PoolThreads DEF Allowed
<1>2. pc'[t] = x /\ \A u \in Threads : u # t => pc'[u] = pc[u]
  BY Moved
<1>3. pc'[Main] = pc[Main]
  BY <1>1, <1>2
<1>4. Pcs'
  BY <1>1, PcsMove
<1> QED
  BY <1>1, <1>2, <1>3, <1>4, MainStays

(* Taking the first task leaves the queue consecutive. *)
LEMMA TailConsecutive ==
    ASSUME tasks \in Seq(Nat \X Nat), tasks # <<>>, NEW U \in Nat, Consecutive(U),
           tasks' = Tail(tasks), call' = call
    PROVE  /\ Head(tasks) = <<call, U - Len(tasks)>>
           /\ Head(tasks)[1] = call /\ Head(tasks)[2] = U - Len(tasks)
           /\ tasks' \in Seq(Nat \X Nat) /\ Len(tasks') = Len(tasks) - 1
           /\ Len(tasks) \in Nat /\ Len(tasks) >= 1 /\ Len(tasks) <= U
           /\ Len(tasks') <= U
           /\ \A j \in 1 .. Len(tasks') : tasks'[j] = <<call', U - Len(tasks') + j - 1>>
<1>1. /\ Len(tasks) \in Nat /\ Len(tasks) >= 1 /\ Head(tasks) = tasks[1]
      /\ Len(tasks) <= U
  BY DEF Consecutive
<1>2. \A j \in 1 .. Len(tasks) : tasks[j] = <<call, U - Len(tasks) + j - 1>>
  BY DEF Consecutive
<1>3. Head(tasks) = <<call, U - Len(tasks)>>
  <2>1. 1 \in 1 .. Len(tasks) /\ U - Len(tasks) + 1 - 1 = U - Len(tasks)
    BY <1>1
  <2> QED
    BY <1>1, <1>2, <2>1
<1>4. /\ tasks' \in Seq(Nat \X Nat) /\ Len(tasks') = Len(tasks) - 1
      /\ \A j \in 1 .. Len(tasks) - 1 : tasks'[j] = tasks[j + 1]
  BY <1>1
<1>5. PICK m \in Nat : m = Len(tasks') /\ m = Len(tasks) - 1
  <2>1. Len(tasks) - 1 \in Nat
    BY <1>1
  <2> QED
    BY <1>4, <2>1
<1>6. ASSUME NEW j \in 1 .. m
      PROVE  tasks'[j] = <<call', U - m + j - 1>>
  <2>1. j + 1 \in 1 .. Len(tasks) /\ j \in 1 .. Len(tasks) - 1
        /\ U - Len(tasks) + (j + 1) - 1 = U - m + j - 1
    BY <1>1, <1>5
  <2> QED
    BY <1>2, <1>4, <2>1
<1> QED
  BY <1>1, <1>3, <1>4, <1>5, <1>6

\* A worker takes the first task of the queue.
LEMMA TakeTaskOK ==
    ASSUME IInv, NEW t \in Threads, TakeTask(t)
    PROVE  StepOK
<1>1. /\ strategy = "queued" /\ t \in Pool /\ pc[t] = "wait" /\ strategy' = strategy
      /\ UNCHANGED <<caller, counters, complete_queue_, stop, ghosts>>
  BY DEF TakeTask, caller
<1>2. /\ Types /\ Pcs /\ QueuedInv /\ pc[Main] # "crashed" /\ Main \in Threads /\ ~Shared
      /\ tasks \in Seq(Nat \X Nat) /\ n \in Nat /\ Len(tasks) \in Nat /\ at[Main] \in Nat
      /\ n <= MaxIterations /\ t \notin Holders /\ t # Main
  BY <1>1, QueuedFacts, PoolThreads DEF Holders
<1>3. CASE tasks = <<>>
  <2>1. PICK x \in {"exited", "asleep"} : pc' = [pc EXCEPT ![t] = x]
    BY <1>3 DEF TakeTask, Goto
  <2>2. UNCHANGED <<caller, locals, counters, queues, ghosts>>
    BY <1>1, <1>3 DEF TakeTask, queues, locals
  <2>3. x \in WorkerPcs(strategy)
    BY <1>1 DEF WorkerPcs
  <2>4. /\ Pcs' /\ pc'[t] = x /\ pc'[Main] = pc[Main]
        /\ \A u \in Threads : u # t => pc'[u] = pc[u]
        /\ (Active' <=> Active) /\ (Running' <=> Running)
    BY <1>1, <1>2, <2>1, <2>3, WorkerMove
  <2>5. Types'
    BY <1>2, <2>2, <2>4 DEF Types, caller, locals, counters, queues, ghosts
  <2>6. Holders' = Holders
    BY <1>2, <2>4, HoldersMove
  <2>7. Pushed' = Pushed
    BY <2>2, <2>4 DEF Pushed, caller, locals
  <2>8. PoolInv'
    BY <1>1, <1>2, <2>2, <2>4, <2>6, <2>7 DEF PoolInv, QueuedInv, Consecutive, caller, queues
  <2>9. Handed' = Handed
    BY <1>1, <2>2, <2>4, <2>7 DEF Handed, caller, queues, counters
  <2>10. \A u \in Threads : Still(u)
    BY <1>1, <2>1, <2>2, <2>4 DEF Still, HoldPcs, locals
  <2>11. Once => \A u \in Threads : Keeps(u)
    BY <2>2, <2>10, StillKeeps DEF caller, counters
  <2> QED
    BY <1>2, <2>2, <2>4, <2>5, <2>8, <2>9, <2>11, QuietStep DEF caller, ghosts
<1>4. CASE tasks # <<>>
  <2>1. /\ pc' = [pc EXCEPT ![t] = "begin"] /\ job' = [job EXCEPT ![t] = Head(tasks)[1]]
        /\ at' = [at EXCEPT ![t] = Head(tasks)[2]] /\ tasks' = Tail(tasks)
        /\ tasks_running' = tasks_running + 1
    BY <1>4 DEF TakeTask, Goto
  <2>2. "begin" \in WorkerPcs(strategy)
    BY <1>1 DEF WorkerPcs
  <2>3. /\ Pcs' /\ pc'[t] = "begin" /\ pc'[Main] = pc[Main]
        /\ \A u \in Threads : u # t => pc'[u] = pc[u]
        /\ (Active' <=> Active) /\ (Running' <=> Running)
    BY <1>1, <1>2, <2>1, <2>2, WorkerMove
  <2>4. Running /\ Active /\ Pushed \in Nat /\ Pushed <= n /\ Consecutive(Pushed)
    BY <1>2, <1>4 DEF QueuedInv, Running, Pushed
  <2>5. PICK U \in Nat : U = Pushed
    BY <2>4
  <2>6. /\ Head(tasks)[1] = call /\ Head(tasks)[2] = U - Len(tasks)
        /\ tasks' \in Seq(Nat \X Nat) /\ Len(tasks') = Len(tasks) - 1
        /\ Len(tasks) >= 1 /\ Len(tasks) <= U /\ Len(tasks') <= U
        /\ \A j \in 1 .. Len(tasks') : tasks'[j] = <<call', U - Len(tasks') + j - 1>>
    BY <1>1, <1>2, <1>4, <2>1, <2>4, <2>5, TailConsecutive DEF caller
  <2>7. /\ at'[t] = U - Len(tasks) /\ at' \in [Threads -> 0 .. MaxIterations + NumCpus]
        /\ \A u \in Threads : u # t => at'[u] = at[u]
    <3>1. at \in [Threads -> 0 .. MaxIterations + NumCpus]
      BY <1>2 DEF Types
    <3>2. U - Len(tasks) \in 0 .. MaxIterations + NumCpus
      BY <1>2, <2>4, <2>5, <2>6, Sizes
    <3> QED
      BY <2>1, <2>6, <3>1, <3>2
  <2>8. /\ job'[t] = call /\ job' \in [Threads -> 0 .. call]
        /\ \A u \in Threads : u # t => job'[u] = job[u]
    <3>1. job \in [Threads -> 0 .. call] /\ call \in 0 .. call
      BY <1>2 DEF Types
    <3> QED
      BY <2>1, <2>6, <3>1
  <2>9. Types'
    <3>1. tasks_running' \in Int
      BY <1>2, <2>1 DEF Types
    <3>2. UNCHANGED <<strategy, call, n, points, task_, num_iterations_, iteration_, complete_,
                      complete_queue_, stop, raced, begun, ended>>
      BY <1>1 DEF caller, counters, ghosts
    <3> QED
      BY <1>2, <2>3, <2>6, <2>7, <2>8, <3>1, <3>2 DEF Types
  <2>10. Cardinality(Holders') = Cardinality(Holders) + 1
    BY <1>2, <2>3, HoldersMove
  <2>11. Pushed' = U
    BY <1>1, <1>2, <2>3, <2>5, <2>7 DEF Pushed, caller
  <2>12. PoolInv'
    <3>1. Consecutive(Pushed)'
      BY <2>6, <2>11 DEF Consecutive
    <3>2. tasks_running' = Cardinality(Holders')
      BY <1>2, <2>1, <2>10 DEF QueuedInv
    <3>3. QueuedInv'
      BY <1>1, <2>3, <2>4, <2>5, <2>11, <3>1, <3>2 DEF QueuedInv, caller
    <3> QED
      BY <1>1, <3>3 DEF PoolInv
  <2>13. Handed < n /\ Handed = U - Len(tasks) /\ Handed' = Handed + 1
    <3>1. Handed = Pushed - Len(tasks) /\ Handed' = Pushed' - Len(tasks')
      BY <1>1, <2>3, <2>4 DEF Handed
    <3> QED
      BY <1>2, <2>4, <2>5, <2>6, <2>11, <3>1
  <2>14. ~Holds(t) /\ Holds(t)' /\ Entered(t)' = 0 /\ OwnJob(t)'
    BY <1>1, <2>3, <2>8 DEF Holds, Entered, OwnJob, caller
  <2>15. \A u \in Threads : u # t => Still(u)
    BY <2>3, <2>7, <2>8 DEF Still
  <2>16. Once => \A u \in Threads : u # t => Keeps(u)
    BY <1>1, <2>15, StillKeeps DEF caller, counters
  <2> QED
    BY <1>1, <2>3, <2>4, <2>7, <2>9, <2>12, <2>13, <2>14, <2>16, HandStep DEF caller, ghosts
<1> QED
  BY <1>3, <1>4

\* A worker accounts for the task it has run.
LEMMA CountQueuedOK ==
    ASSUME IInv, NEW t \in Threads, CountQueued(t)
    PROVE  StepOK
<1>1. /\ strategy = "queued" /\ pc[t] = "count" /\ strategy' = strategy
      /\ tasks_running' = tasks_running - 1
      /\ UNCHANGED <<caller, locals, counters, tasks, complete_queue_, stop, ghosts>>
  BY DEF CountQueued, caller
<1>2. /\ Types /\ Pcs /\ QueuedInv /\ pc[Main] # "crashed" /\ Main \in Threads
      /\ t \in Holders /\ t # Main /\ t \in Pool
  BY <1>1, QueuedFacts DEF Holders, Pcs
<1>3. Running /\ Active
  BY <1>2 DEF QueuedInv, Running
<1>4. PICK y : /\ y = pc[Main] \/ (pc[Main] = "awaiting" /\ y = "await")
               /\ pc' = [pc EXCEPT ![t] = "wait", ![Main] = y]
  <2>1. PICK y : pc' = [pc EXCEPT ![t] = "wait", ![Main] = y]
                 /\ y = IF tasks = <<>> /\ tasks_running' = 0
                        THEN CASE pc[Main] = "starting" -> "start"
                               [] pc[Main] = "awaiting" -> "await"
                               [] OTHER -> pc[Main]
                        ELSE pc[Main]
    BY <1>2 DEF CountQueued
  <2>2. pc[Main] # "starting"
    BY <1>3 DEF Running
  <2> QED
    BY <2>1, <2>2
<1>5. /\ pc'[t] = "wait" /\ pc'[Main] = y /\ pc' = [u \in Threads |-> pc'[u]]
      /\ \A u \in Threads : u # t /\ u # Main => pc'[u] = pc[u]
  <2>1. pc = [u \in Threads |-> pc[u]]
    BY <1>2 DEF Pcs
  <2> QED
    BY <1>2, <1>4, <2>1
<1>6. Active' /\ Running' /\ pc'[Main] \notin InlinePcs
  BY <1>3, <1>4, <1>5 DEF Active, Running, InlinePcs
<1>7. Pcs'
  <2>1. \A u \in Threads : Allowed(u, pc'[u])
    <3> SUFFICES ASSUME NEW u \in Threads
                 PROVE  Allowed(u, pc'[u])
      OBVIOUS
    <3>0. Allowed(u, pc[u])
      BY <1>2, PcsAllowed
    <3>1. CASE u = t
      BY <1>1, <1>2, <1>5, <3>1 DEF Allowed, WorkerPcs
    <3>2. CASE u = Main
      BY <1>1, <1>4, <1>5, <3>0, <3>2 DEF Allowed, MainPcs
    <3>3. CASE u # t /\ u # Main
      BY <1>5, <3>0, <3>3
    <3> QED
      BY <3>1, <3>2, <3>3
  <2> QED
    BY <1>1, <1>5, <2>1, PcsAllowedNext
<1>8. Types'
  BY <1>1, <1>2, <1>3, <1>6 DEF Types, caller, locals, counters, ghosts
<1>9. Cardinality(Holders') = Cardinality(Holders) - 1
  <2>1. \A u \in Threads : u # t =>
            (pc'[u] \in {"begin", "end", "count"} <=> pc[u] \in {"begin", "end", "count"})
    BY <1>4, <1>5
  <2> QED
    BY <1>2, <1>5, <2>1, HoldersMove
<1>10. Pushed' = Pushed
  BY <1>1, <1>4, <1>5 DEF Pushed, locals, caller
<1>11. PoolInv'
  <2>1. tasks_running' = Cardinality(Holders')
    BY <1>1, <1>2, <1>9 DEF QueuedInv
  <2>2. QueuedInv'
    BY <1>1, <1>2, <1>3, <1>6, <1>10, <2>1 DEF QueuedInv, Consecutive, caller
  <2> QED
    BY <1>1, <2>2 DEF PoolInv
<1>12. Handed' = Handed
  BY <1>1, <1>3, <1>6, <1>10 DEF Handed
<1>13. \A u \in Threads : Still(u)
  BY <1>1, <1>4, <1>5 DEF Still, HoldPcs, locals
<1>14. Once => \A u \in Threads : Keeps(u)
  BY <1>1, <1>13, StillKeeps DEF caller, counters
<1> QED
  BY <1>1, <1>2, <1>3, <1>6, <1>7, <1>8, <1>11, <1>12, <1>14, QuietStep DEF caller, ghosts

-----------------------------------------------------------------------------
(* The atomic pool. *)

\* The size of a set of threads in which one thread changed.
LEMMA Changed ==
    ASSUME NEW S \in SUBSET Threads, NEW T \in SUBSET Threads, NEW t \in Threads,
           \A u \in Threads : u # t => (u \in T <=> u \in S)
    PROVE  /\ (t \in T <=> t \in S) => T = S
           /\ t \in T /\ t \notin S => Cardinality(T) = Cardinality(S) + 1
           /\ t \notin T /\ t \in S => Cardinality(T) = Cardinality(S) - 1
<1>1. (t \in T <=> t \in S) => T = S
  OBVIOUS
<1>2. t \in T /\ t \notin S => T = S \cup {t}
  OBVIOUS
<1>3. t \notin T /\ t \in S => T = S \ {t}
  OBVIOUS
<1> QED
  BY <1>1, <1>2, <1>3, OneMore, OneLess

\* The size of a set of threads and of one that contains it.
LEMMA Grows ==
    ASSUME NEW S \in SUBSET Threads, NEW T \in SUBSET Threads, S \subseteq T
    PROVE  /\ Cardinality(S) \in Nat /\ Cardinality(T) \in Nat
           /\ Cardinality(S) <= Cardinality(T)
           /\ \A t \in T \ S : Cardinality(S) + 1 <= Cardinality(T)
<1>1. IsFiniteSet(T) /\ Cardinality(S) \in Nat /\ Cardinality(T) \in Nat
  BY SubsetSize
<1>2. Cardinality(S) <= Cardinality(T)
  BY <1>1, FS_Subset
<1>3. ASSUME NEW t \in T \ S
      PROVE  Cardinality(S) + 1 <= Cardinality(T)
  <2>1. Cardinality(S \cup {t}) = Cardinality(S) + 1 /\ S \cup {t} \subseteq T
    BY OneMore
  <2> QED
    BY <1>1, <2>1, FS_Subset
<1> QED
  BY <1>1, <1>2, <1>3

\* The threads that will not fetch again can be counted.
LEMMA SpentSize ==
    /\ Spent \in SUBSET Threads /\ Cardinality(Spent) \in Nat
    /\ \A t \in Threads : t \notin Spent => Cardinality(Spent) <= NumCpus
<1>1. Spent \in SUBSET Threads
  BY DEF Spent
<1> QED
  BY <1>1, SubsetSize

\* The threads with an iteration of the job can be counted.
LEMMA FlightSize ==
    /\ Flight \in SUBSET Threads /\ Cardinality(Flight) \in Nat
    /\ (Cardinality(Flight) = 0 <=> Flight = {})
<1>1. Flight \in SUBSET Threads
  BY DEF Flight
<1> QED
  BY <1>1, SubsetSize

\* What the invariant says of an atomic pool.
LEMMA AtomicFacts ==
    ASSUME IInv, strategy = "atomic"
    PROVE  /\ Types /\ Pcs /\ AtomicInv /\ Shared /\ pc[Main] # "crashed" /\ Main \in Threads
           /\ iteration_ \in Nat /\ complete_ \in Nat /\ num_iterations_ \in Nat /\ n \in Nat
           /\ num_iterations_ <= MaxIterations /\ n <= MaxIterations
           /\ \A u \in Threads : at[u] \in Nat
<1>1. Types /\ Pcs /\ AtomicInv /\ pc[Main] # "crashed"
  BY DEF IInv, PoolInv, Pcs, MainPcs, InlinePcs, StopPcs
<1>2. /\ iteration_ \in Nat /\ complete_ \in Nat /\ num_iterations_ \in Nat /\ n \in Nat
      /\ num_iterations_ <= MaxIterations /\ n <= MaxIterations
  BY <1>1, Sizes DEF Types
<1>3. \A u \in Threads : at[u] \in Nat
  BY <1>1, HandedInt
<1> QED
  BY <1>1, <1>2, <1>3, PoolThreads DEF Shared

\* A step that touches no counter.
LEMMA AtomicKept ==
    ASSUME IInv, strategy = "atomic", strategy' = strategy,
           UNCHANGED <<iteration_, complete_, num_iterations_, task_, n, call>>,
           raced' = raced, Running' <=> Running, Flight' = Flight,
           Resetting' <=> Resetting, pc'[Main] = "resetComplete" => pc[Main] = "resetComplete",
           Spent \subseteq Spent' \/ iteration_ <= MaxIterations,
           ~raced /\ Resetting => \A u \in Pool : ~InIterations(u)'
    PROVE  PoolInv'
<1>1. AtomicInv /\ iteration_ \in Nat /\ MaxIterations \in Nat
  BY AtomicFacts, Sizes
<1>2. Spent' \in SUBSET Threads
  BY DEF Spent
<1>3. Cardinality(Spent') \in Nat
  BY <1>2, SubsetSize
<1>4. iteration_' <= MaxIterations + Cardinality(Spent')
  <2>1. CASE iteration_ <= MaxIterations
    BY <1>1, <1>3, <2>1
  <2>2. CASE Spent \subseteq Spent'
    <3>1. Cardinality(Spent) <= Cardinality(Spent') /\ Cardinality(Spent) \in Nat
      BY <1>2, <2>2, SpentSize, Grows
    <3>2. iteration_ <= MaxIterations + Cardinality(Spent)
      BY <1>1 DEF AtomicInv
    <3> QED
      BY <1>1, <1>3, <3>1, <3>2
  <2> QED
    BY <2>1, <2>2
<1>5. Pool' = Pool
  BY DEF Pool
<1>6. AtomicInv'
  BY <1>1, <1>4, <1>5 DEF AtomicInv
<1> QED
  BY <1>6 DEF PoolInv

\* notify_all wakes workers, which hold nothing.
LEMMA AtomicNotifyAllOK ==
    ASSUME IInv, strategy = "atomic", NotifyAll
    PROVE  StepOK
<1>1. pc[Main] = "notify"
  BY DEF NotifyAll
<1>2. Types /\ Pcs /\ AtomicInv /\ Main \in Threads /\ Active /\ Running /\ ~Resetting
  BY <1>1, AtomicFacts DEF Running, Active, InlinePcs, Resetting
<1>3. /\ pc' = [Woken(Pool) EXCEPT ![Main] = "fetch"]
      /\ UNCHANGED <<caller, locals, counters, queues, ghosts>>
  BY DEF NotifyAll
<1>4. /\ Pcs' /\ pc'[Main] = "fetch"
      /\ \A u \in Threads : u # Main =>
             pc'[u] = pc[u] \/ (pc[u] = "asleep" /\ pc'[u] = "wait")
  <2>1. /\ "fetch" \in MainPcs(strategy)
        /\ pc[Main] \notin HoldPcs \cup {"count"} /\ "fetch" \notin HoldPcs \cup {"count"}
        /\ strategy' = strategy
    BY <1>1, <1>3 DEF MainPcs, HoldPcs, caller
  <2> HIDE DEF Woken
  <2> QED
    BY <1>2, <1>3, <2>1, WokenMove
<1>5. Active' /\ Running' /\ ~Resetting' /\ pc'[Main] \notin InlinePcs
  BY <1>4 DEF Active, Running, InlinePcs, Resetting
<1>6. Types'
  BY <1>2, <1>3, <1>5 DEF Types, caller, locals, counters, queues, ghosts
<1>7. Flight' = Flight /\ Spent \subseteq Spent'
  <2>1. at' = at /\ num_iterations_' = num_iterations_
    BY <1>3 DEF locals, counters
  <2>2. Flight' = Flight
    BY <1>1, <1>4, <2>1 DEF Flight
  <2> QED
    BY <1>1, <1>4, <2>1, <2>2 DEF Spent
<1>8. PoolInv'
  BY <1>2, <1>3, <1>4, <1>5, <1>7, AtomicKept DEF caller, counters, ghosts
<1>9. Handed' = Handed
  BY <1>1, <1>2, <1>3, <1>4, <1>5 DEF Handed, caller, counters
<1>10. \A u \in Threads : Still(u)
  BY <1>1, <1>3, <1>4 DEF Still, HoldPcs, locals
<1>11. Once => \A u \in Threads : Keeps(u)
  BY <1>3, <1>10, StillKeeps DEF caller, counters
<1> QED
  BY <1>1, <1>2, <1>3, <1>4, <1>5, <1>6, <1>8, <1>9, <1>11, QuietStep DEF caller, ghosts

\* A worker's wait hands out nothing.
LEMMA AtomicWorkerWaitOK ==
    ASSUME IInv, strategy = "atomic", NEW t \in Threads, WorkerWait(t)
    PROVE  StepOK
<1>1. /\ t \in Pool /\ pc[t] = "wait" /\ strategy' = strategy /\ ~Resetting
      /\ UNCHANGED <<caller, locals, counters, queues, ghosts>>
  BY DEF WorkerWait, caller, Resetting
<1>2. /\ Types /\ Pcs /\ AtomicInv /\ pc[Main] # "crashed"
      /\ iteration_ \in Nat /\ num_iterations_ \in Nat /\ num_iterations_ <= MaxIterations
  BY AtomicFacts
<1>3. PICK x \in {"exited", "asleep", "fetch"} :
          /\ pc' = [pc EXCEPT ![t] = x]
          /\ x = "fetch" => ~(iteration_ >= num_iterations_)
  BY DEF WorkerWait, Goto
<1>4. x \in WorkerPcs(strategy)
  BY DEF WorkerPcs
<1>5. /\ Pcs' /\ pc'[t] = x /\ t # Main /\ pc'[Main] = pc[Main]
      /\ \A u \in Threads : u # t => pc'[u] = pc[u]
      /\ (Active' <=> Active) /\ (Running' <=> Running) /\ (Resetting' <=> Resetting)
  BY <1>1, <1>2, <1>3, <1>4, WorkerMove
<1>6. Types'
  BY <1>1, <1>2, <1>5 DEF Types, caller, locals, counters, queues, ghosts
<1>7. at' = at /\ num_iterations_' = num_iterations_
  BY <1>1 DEF locals, counters
<1>8. Flight' = Flight
  BY <1>1, <1>5, <1>7 DEF Flight
<1>9. Spent \subseteq Spent' \/ iteration_ <= MaxIterations
  <2>1. CASE x = "fetch"
    BY <1>2, <1>3, <2>1, Sizes
  <2>2. CASE x # "fetch"
    BY <1>1, <1>5, <1>7, <2>2 DEF Spent
  <2> QED
    BY <2>1, <2>2
<1>10. PoolInv'
  BY <1>1, <1>5, <1>8, <1>9, AtomicKept DEF caller, counters, ghosts
<1>11. Handed' = Handed
  BY <1>1, <1>5 DEF Handed, caller, counters
<1>12. \A u \in Threads : Still(u)
  BY <1>1, <1>5 DEF Still, HoldPcs, locals
<1>13. Once => \A u \in Threads : Keeps(u)
  BY <1>1, <1>12, StillKeeps DEF caller, counters
<1> QED
  BY <1>1, <1>2, <1>5, <1>6, <1>10, <1>11, <1>13, QuietStep DEF caller, ghosts

\* The spin ends when all iterations are counted: without a race all have ended.
LEMMA AtomicAwaitOK ==
    ASSUME IInv, strategy = "atomic", Await
    PROVE  StepOK
<1>1. /\ pc[Main] = "await" /\ strategy' = strategy /\ complete_ = num_iterations_
      /\ pc' = [pc EXCEPT ![Main] = "idle"]
      /\ UNCHANGED <<caller, locals, counters, queues, ghosts>>
  BY DEF Await, Goto, caller
<1>2. /\ Types /\ Pcs /\ AtomicInv /\ pc[Main] # "crashed" /\ Main \in Threads
      /\ iteration_ \in Nat /\ complete_ \in Nat /\ num_iterations_ \in Nat /\ n \in Nat
      /\ Active /\ Running /\ ~Resetting
  BY <1>1, AtomicFacts DEF Active, Running, InlinePcs, Resetting
<1>3. /\ pc'[Main] = "idle" /\ \A u \in Threads : u # Main => pc'[u] = pc[u]
  BY <1>1, <1>2, Moved
<1>4. Pcs'
  <2>1. Allowed(Main, "idle")
    BY DEF Allowed, MainPcs
  <2> QED
    BY <1>1, <1>2, <2>1, PcsMove
<1>5. ~Active' /\ ~Running' /\ ~Resetting' /\ pc'[Main] \notin InlinePcs
  BY <1>3 DEF Active, Running, InlinePcs, Resetting
<1>6. Types'
  BY <1>1, <1>2, <1>5 DEF Types, caller, locals, counters, queues, ghosts
<1>7. ~raced => iteration_ >= n /\ Flight = {} /\ num_iterations_ = n
  <2> SUFFICES ASSUME ~raced
               PROVE  iteration_ >= n /\ Flight = {} /\ num_iterations_ = n
    OBVIOUS
  <2>1. /\ num_iterations_ = n
        /\ iteration_ <= n => complete_ + Cardinality(Flight) = iteration_
        /\ iteration_ >= n => complete_ + Cardinality(Flight) = n
    BY <1>2 DEF AtomicInv
  <2>2. iteration_ >= n /\ Cardinality(Flight) = 0
    BY <1>1, <1>2, <2>1, FlightSize
  <2> QED
    BY <2>1, <2>2, FlightSize
<1>8. at' = at /\ num_iterations_' = num_iterations_
  BY <1>1 DEF locals, counters
<1>9. Flight' = Flight /\ Spent' = Spent
  BY <1>1, <1>3, <1>8 DEF Flight, Spent
<1>10. PoolInv'
  <2>1. AtomicInv'
    BY <1>1, <1>2, <1>3, <1>5, <1>7, <1>9 DEF AtomicInv, counters, ghosts
  <2> QED
    BY <1>1, <2>1 DEF PoolInv
<1>11. ~raced => Handed >= n
  <2>1. Handed = iteration_
    BY <1>1, <1>2 DEF Handed
  <2> QED
    BY <1>7, <2>1
<1>12. ~raced => \A u \in Threads : ~Holds(u) /\ ~Holds(u)'
  <2> SUFFICES ASSUME ~raced, NEW u \in Threads
               PROVE  ~Holds(u) /\ ~Holds(u)'
    OBVIOUS
  <2>1. u \notin Flight /\ u \notin Flight'
    BY <1>7, <1>9
  <2>2. pc[u] \notin {"beginInline", "endInline"} /\ pc'[u] \notin {"beginInline", "endInline"}
    BY <1>1, <1>2, <1>3 DEF Pcs, WorkerPcs
  <2> QED
    BY <1>1, <2>1, <2>2 DEF Holds, Flight
<1> QED
  BY <1>1, <1>2, <1>4, <1>5, <1>6, <1>10, <1>11, <1>12, ReturnStep DEF caller, ghosts

\* start_tasks publishes the job; a worker still in do_iterations is a race.
LEMMA PublishOK ==
    ASSUME IInv, Publish
    PROVE  StepOK
<1>1. /\ strategy = "atomic" /\ pc[Main] = "publish" /\ strategy' = strategy
      /\ pc' = [pc EXCEPT ![Main] = "resetIteration"] /\ task_' = call /\ num_iterations_' = n
      /\ raced' = (raced \/ \E t \in Pool : InIterations(t))
      /\ UNCHANGED <<caller, locals, iteration_, complete_, queues, begun, ended>>
  BY DEF Publish, Goto, caller
<1>2. /\ Types /\ Pcs /\ AtomicInv /\ pc[Main] # "crashed" /\ Main \in Threads
      /\ iteration_ \in Nat /\ complete_ \in Nat /\ num_iterations_ \in Nat /\ n \in Nat
      /\ n <= MaxIterations /\ Active /\ ~Running
  BY <1>1, AtomicFacts DEF Active, Running, InlinePcs
<1>3. /\ pc'[Main] = "resetIteration" /\ \A u \in Threads : u # Main => pc'[u] = pc[u]
  BY <1>1, <1>2, Moved
<1>4. Pcs'
  <2>1. Allowed(Main, "resetIteration")
    BY <1>1 DEF Allowed, MainPcs
  <2> QED
    BY <1>1, <1>2, <2>1, PcsMove
<1>5. Active' /\ Running' /\ Resetting' /\ pc'[Main] \notin InlinePcs
  BY <1>3 DEF Active, Running, InlinePcs, Resetting
<1>6. Types'
  <2>1. raced' \in BOOLEAN
    BY <1>1, <1>2 DEF Types
  <2>2. num_iterations_' \in 0 .. MaxIterations /\ task_' \in 0 .. call
    BY <1>1, <1>2 DEF Types
  <2>3. UNCHANGED <<strategy, at, job, call, n, points, iteration_, complete_, tasks,
                    tasks_running, complete_queue_, stop, begun, ended>>
    BY <1>1 DEF caller, locals, queues
  <2> QED
    BY <1>2, <1>5, <2>1, <2>2, <2>3 DEF Types
<1>7. Spent' = Spent
  BY <1>1, <1>3 DEF Spent, locals
<1>8. ~raced' => \A u \in Pool : ~InIterations(u) /\ ~InIterations(u)'
  <2> SUFFICES ASSUME ~raced', NEW u \in Pool
               PROVE  ~InIterations(u) /\ ~InIterations(u)'
    OBVIOUS
  <2>1. ~InIterations(u) /\ u \in Threads /\ u # Main
    BY <1>1, PoolThreads
  <2> QED
    BY <1>3, <2>1 DEF InIterations
<1>9. PoolInv'
  <2>1. Pool' = Pool
    BY <1>1 DEF Pool
  <2>2. AtomicInv'
    BY <1>1, <1>2, <1>3, <1>5, <1>7, <1>8, <2>1 DEF AtomicInv, caller
  <2> QED
    BY <1>1, <2>2 DEF PoolInv
<1>10. Handed = 0 /\ Handed' = 0
  BY <1>1, <1>2, <1>3, <1>5 DEF Handed, InlinePcs
<1>11. \A u \in Threads : Still(u)
  BY <1>1, <1>3 DEF Still, HoldPcs, locals
<1>12. ~raced' => \A u \in Threads : pc[u] # "compare"
  BY <1>1, <1>2, <1>8 DEF InIterations, Pcs
<1>13. Once /\ ~raced' => \A u \in Threads : Keeps(u)
  BY <1>1, <1>11, <1>12, StillKeeps DEF caller
<1> QED
  BY <1>1, <1>2, <1>3, <1>4, <1>5, <1>6, <1>9, <1>10, <1>13, QuietStep DEF caller

\* iteration_ = 0, seen by no worker in do_iterations unless there is a race.
LEMMA ResetIterationOK ==
    ASSUME IInv, ResetIteration
    PROVE  StepOK
<1>1. /\ strategy = "atomic" /\ pc[Main] = "resetIteration" /\ strategy' = strategy
      /\ pc' = [pc EXCEPT ![Main] = "resetComplete"] /\ iteration_' = 0
      /\ UNCHANGED <<caller, locals, num_iterations_, complete_, task_, queues, ghosts>>
  BY DEF ResetIteration, Goto, caller
<1>2. /\ Types /\ Pcs /\ AtomicInv /\ pc[Main] # "crashed" /\ Main \in Threads
      /\ Active /\ Running /\ Resetting
  BY <1>1, AtomicFacts DEF Active, Running, InlinePcs, Resetting
<1>3. /\ pc'[Main] = "resetComplete" /\ \A u \in Threads : u # Main => pc'[u] = pc[u]
  BY <1>1, <1>2, Moved
<1>4. Pcs'
  <2>1. Allowed(Main, "resetComplete")
    BY <1>1 DEF Allowed, MainPcs
  <2> QED
    BY <1>1, <1>2, <2>1, PcsMove
<1>5. Active' /\ Running' /\ Resetting' /\ pc'[Main] \notin InlinePcs
  BY <1>3 DEF Active, Running, InlinePcs, Resetting
<1>6. Types'
  BY <1>1, <1>2, <1>5 DEF Types, caller, locals, queues, ghosts
<1>7. iteration_' <= MaxIterations + Cardinality(Spent')
  <2>1. Spent' \in SUBSET Threads
    BY DEF Spent
  <2>2. Cardinality(Spent') \in Nat
    BY <2>1, SubsetSize
  <2> QED
    BY <1>1, <2>2, Sizes
<1>8. PoolInv'
  <2>1. ~raced => \A u \in Pool : ~InIterations(u)'
    <3>1. ~raced => \A u \in Pool : ~InIterations(u)
      BY <1>2 DEF AtomicInv
    <3> QED
      BY <1>3, <3>1, PoolThreads DEF InIterations
  <2>2. Pool' = Pool
    BY <1>1 DEF Pool
  <2>3. AtomicInv'
    BY <1>1, <1>2, <1>3, <1>5, <1>7, <2>1, <2>2 DEF AtomicInv, caller, ghosts
  <2> QED
    BY <1>1, <2>3 DEF PoolInv
<1>9. Handed = 0 /\ Handed' = 0
  BY <1>1, <1>2, <1>3, <1>5 DEF Handed
<1>10. \A u \in Threads : Still(u)
  BY <1>1, <1>3 DEF Still, HoldPcs, locals
<1>11. Once => \A u \in Threads : Keeps(u)
  BY <1>1, <1>10, StillKeeps DEF caller
<1> QED
  BY <1>1, <1>2, <1>3, <1>4, <1>5, <1>6, <1>8, <1>9, <1>11, QuietStep DEF caller, ghosts

\* iterations_completed_ = 0, likewise.
LEMMA ResetCompleteOK ==
    ASSUME IInv, ResetComplete
    PROVE  StepOK
<1>1. /\ strategy = "atomic" /\ pc[Main] = "resetComplete" /\ strategy' = strategy
      /\ pc' = [pc EXCEPT ![Main] = "notify"] /\ complete_' = 0
      /\ UNCHANGED <<caller, locals, num_iterations_, iteration_, task_, queues, ghosts>>
  BY DEF ResetComplete, Goto, caller
<1>2. /\ Types /\ Pcs /\ AtomicInv /\ pc[Main] # "crashed" /\ Main \in Threads
      /\ Active /\ Running /\ Resetting /\ n \in Nat
  BY <1>1, AtomicFacts DEF Active, Running, InlinePcs, Resetting
<1>3. /\ pc'[Main] = "notify" /\ \A u \in Threads : u # Main => pc'[u] = pc[u]
  BY <1>1, <1>2, Moved
<1>4. Pcs'
  <2>1. Allowed(Main, "notify")
    BY <1>1 DEF Allowed, MainPcs
  <2> QED
    BY <1>1, <1>2, <2>1, PcsMove
<1>5. Active' /\ Running' /\ ~Resetting' /\ pc'[Main] \notin InlinePcs
  BY <1>3 DEF Active, Running, InlinePcs, Resetting
<1>6. Types'
  BY <1>1, <1>2, <1>5 DEF Types, caller, locals, queues, ghosts
<1>7. Spent' = Spent
  BY <1>1, <1>3 DEF Spent, locals
<1>8. ~raced => iteration_ = 0 /\ Cardinality(Flight') = 0
  <2> SUFFICES ASSUME ~raced
               PROVE  iteration_ = 0 /\ Cardinality(Flight') = 0
    OBVIOUS
  <2>1. iteration_ = 0 /\ \A u \in Pool : ~InIterations(u)
    BY <1>1, <1>2 DEF AtomicInv
  <2>2. Flight' = {}
    BY <1>2, <1>3, <2>1 DEF Flight, InIterations, Pcs
  <2> QED
    BY <2>1, <2>2, FS_EmptySet
<1>9. PoolInv'
  <2>1. AtomicInv'
    BY <1>1, <1>2, <1>3, <1>5, <1>7, <1>8 DEF AtomicInv, caller, ghosts
  <2> QED
    BY <1>1, <2>1 DEF PoolInv
<1>10. Handed' = Handed
  BY <1>1, <1>2, <1>3, <1>5 DEF Handed
<1>11. \A u \in Threads : Still(u)
  BY <1>1, <1>3 DEF Still, HoldPcs, locals
<1>12. Once => \A u \in Threads : Keeps(u)
  BY <1>1, <1>11, StillKeeps DEF caller
<1> QED
  BY <1>1, <1>2, <1>3, <1>4, <1>5, <1>6, <1>9, <1>10, <1>12, QuietStep DEF caller, ghosts

\* iterations_completed_++ counts an iteration that has ended.
LEMMA CountAtomicOK ==
    ASSUME IInv, NEW t \in Threads, CountAtomic(t)
    PROVE  StepOK
<1>1. /\ strategy = "atomic" /\ pc[t] = "count" /\ strategy' = strategy
      /\ pc' = [pc EXCEPT ![t] = "fetch"] /\ complete_' = complete_ + 1
      /\ UNCHANGED <<caller, locals, num_iterations_, iteration_, task_, queues, ghosts>>
  BY DEF CountAtomic, Goto, caller
<1>2. /\ Types /\ Pcs /\ AtomicInv /\ pc[Main] # "crashed" /\ Main \in Threads
      /\ iteration_ \in Nat /\ complete_ \in Nat /\ n \in Nat
      /\ (t # Main => t \in Pool)
  BY <1>1, AtomicFacts DEF Pcs
<1>3. /\ pc'[t] = "fetch" /\ \A u \in Threads : u # t => pc'[u] = pc[u]
  BY <1>1, <1>2, Moved
<1>4. Pcs'
  <2>1. Allowed(t, "fetch")
    BY <1>1, <1>2 DEF Allowed, MainPcs, WorkerPcs
  <2> QED
    BY <1>1, <1>2, <2>1, PcsMove
<1>5. /\ (Active' <=> Active) /\ (Running' <=> Running) /\ (Resetting' <=> Resetting)
      /\ (pc'[Main] \in InlinePcs <=> pc[Main] \in InlinePcs)
      /\ pc'[Main] = pc[Main] \/ (pc[Main] = "count" /\ pc'[Main] = "fetch")
  <2>1. CASE t = Main
    BY <1>1, <1>3, <2>1 DEF Active, Running, InlinePcs, Resetting
  <2>2. CASE t # Main
    BY <1>2, <1>3, <2>2, MainStays
  <2> QED
    BY <2>1, <2>2
<1>6. Types'
  BY <1>1, <1>2, <1>5 DEF Types, caller, locals, queues, ghosts
<1>7. Spent' = Spent
  BY <1>1, <1>3 DEF Spent, locals
<1>8. Cardinality(Flight') = Cardinality(Flight) - 1
  <2>1. Flight' \in SUBSET Threads /\ t \in Flight /\ t \notin Flight'
    BY <1>1, <1>3 DEF Flight
  <2>2. \A u \in Threads : u # t => (u \in Flight' <=> u \in Flight)
    BY <1>1, <1>3 DEF Flight, locals
  <2> QED
    BY <2>1, <2>2, FlightSize, Changed
<1>9. ~raced => Running /\ ~Resetting
  <2>1. t \in Flight /\ InIterations(t)
    BY <1>1 DEF Flight, InIterations
  <2>2. t = Main => ~Resetting
    BY <1>1 DEF Resetting
  <2> QED
    BY <1>2, <2>1, <2>2 DEF AtomicInv
<1>10. PoolInv'
  <2>1. ~raced => /\ iteration_ <= n => complete_' + Cardinality(Flight') = iteration_
                  /\ iteration_ >= n => complete_' + Cardinality(Flight') = n
    BY <1>1, <1>2, <1>8, <1>9, FlightSize DEF AtomicInv
  <2>2. AtomicInv'
    BY <1>1, <1>2, <1>5, <1>7, <1>9, <2>1 DEF AtomicInv, caller, ghosts, Resetting
  <2> QED
    BY <1>1, <2>2 DEF PoolInv
<1>11. Handed' = Handed
  BY <1>1, <1>5 DEF Handed, caller
<1>12. \A u \in Threads : Still(u)
  BY <1>1, <1>3 DEF Still, HoldPcs, locals
<1>13. Once => \A u \in Threads : Keeps(u)
  BY <1>1, <1>12, StillKeeps DEF caller
<1> QED
  BY <1>1, <1>2, <1>4, <1>5, <1>6, <1>10, <1>11, <1>13, QuietStep DEF caller, ghosts

-----------------------------------------------------------------------------
(* fetch_add and the comparison, of the atomic pool and of spawning. *)

\* What the invariant says of spawning.
LEMMA SpawnFacts ==
    ASSUME IInv, strategy = "spawning"
    PROVE  /\ Types /\ Pcs /\ SpawnInv /\ ~Shared /\ Main \in Threads
           /\ iteration_ \in Nat /\ n \in Nat /\ n <= MaxIterations
           /\ \A u \in Threads : at[u] \in Nat
<1>1. Types /\ Pcs /\ SpawnInv
  BY DEF IInv, PoolInv
<1>2. iteration_ \in Nat /\ n \in Nat /\ n <= MaxIterations
  BY <1>1, Sizes DEF Types
<1>3. \A u \in Threads : at[u] \in Nat
  BY <1>1, HandedInt
<1> QED
  BY <1>1, <1>2, <1>3, PoolThreads DEF Shared

\* A thread fetches a number past the last iteration at most once.
LEMMA FetchSpent ==
    ASSUME NEW t \in Threads, pc[t] = "fetch", pc'[t] = "compare", at'[t] = iteration_,
           \A u \in Threads : u # t => pc'[u] = pc[u] /\ at'[u] = at[u],
           iteration_ \in Nat, iteration_ <= MaxIterations + Cardinality(Spent)
    PROVE  /\ iteration_ + 1 <= MaxIterations + Cardinality(Spent')
           /\ iteration_ \in 0 .. MaxIterations + NumCpus
<1>1. t \notin Spent
  BY DEF Spent
<1>2. Cardinality(Spent) \in Nat /\ Cardinality(Spent) <= NumCpus /\ Spent \in SUBSET Threads
  BY <1>1, SpentSize
<1>3. Spent' \in SUBSET Threads /\ Spent \subseteq Spent'
  BY <1>1 DEF Spent
<1>4. /\ Cardinality(Spent') \in Nat /\ Cardinality(Spent) <= Cardinality(Spent')
      /\ t \in Spent' => Cardinality(Spent) + 1 <= Cardinality(Spent')
  BY <1>1, <1>2, <1>3, Grows
<1>5. iteration_ >= MaxIterations => t \in Spent'
  BY DEF Spent
<1> QED
  BY <1>2, <1>4, <1>5, Sizes

\* fetch_add of the atomic pool hands out the next number.
LEMMA AtomicFetchOK ==
    ASSUME IInv, strategy = "atomic", NEW t \in Threads, Fetch(t)
    PROVE  StepOK
<1>1. /\ pc[t] = "fetch" /\ strategy' = strategy
      /\ pc' = [pc EXCEPT ![t] = "compare"] /\ at' = [at EXCEPT ![t] = iteration_]
      /\ iteration_' = iteration_ + 1
      /\ UNCHANGED <<caller, job, num_iterations_, complete_, task_, queues, ghosts>>
  BY DEF Fetch, Goto, caller
<1>2. /\ Types /\ Pcs /\ AtomicInv /\ pc[Main] # "crashed" /\ Main \in Threads
      /\ iteration_ \in Nat /\ complete_ \in Nat /\ n \in Nat /\ num_iterations_ \in Nat
      /\ (t # Main => t \in Pool)
  BY <1>1, AtomicFacts DEF Pcs
<1>3. /\ pc'[t] = "compare" /\ \A u \in Threads : u # t => pc'[u] = pc[u]
  BY <1>1, <1>2, Moved
<1>4. Pcs'
  <2>1. Allowed(t, "compare")
    BY <1>1, <1>2 DEF Allowed, MainPcs, WorkerPcs
  <2> QED
    BY <1>1, <1>2, <2>1, PcsMove
<1>5. /\ (Active' <=> Active) /\ (Running' <=> Running) /\ (Resetting' <=> Resetting)
      /\ (pc'[Main] \in InlinePcs <=> pc[Main] \in InlinePcs)
      /\ pc'[Main] = pc[Main] \/ (pc[Main] = "fetch" /\ pc'[Main] = "compare")
  <2>1. CASE t = Main
    BY <1>1, <1>3, <2>1 DEF Active, Running, InlinePcs, Resetting
  <2>2. CASE t # Main
    BY <1>2, <1>3, <2>2, MainStays
  <2> QED
    BY <2>1, <2>2
<1>6. /\ at'[t] = iteration_ /\ \A u \in Threads : u # t => at'[u] = at[u]
  BY <1>1, <1>2 DEF Types
<1>7. /\ iteration_ + 1 <= MaxIterations + Cardinality(Spent')
      /\ iteration_ \in 0 .. MaxIterations + NumCpus
  <2>1. iteration_ <= MaxIterations + Cardinality(Spent)
    BY <1>2 DEF AtomicInv
  <2> QED
    BY <1>1, <1>2, <1>3, <1>6, <2>1, FetchSpent
<1>8. Types'
  <2>1. at' \in [Threads -> 0 .. MaxIterations + NumCpus] /\ iteration_' \in Nat
    BY <1>1, <1>2, <1>7 DEF Types
  <2>2. UNCHANGED <<strategy, job, call, n, points, task_, num_iterations_, complete_, tasks,
                    tasks_running, complete_queue_, stop, raced, begun, ended>>
    BY <1>1 DEF caller, queues, ghosts
  <2> QED
    BY <1>2, <1>5, <2>1, <2>2 DEF Types
<1>9. ~raced => ~Resetting
  <2>1. InIterations(t)
    BY <1>1 DEF InIterations
  <2>2. t = Main => ~Resetting
    BY <1>1 DEF Resetting
  <2> QED
    BY <1>2, <2>1, <2>2 DEF AtomicInv
<1>10. /\ iteration_ < num_iterations_ => Cardinality(Flight') = Cardinality(Flight) + 1
       /\ ~(iteration_ < num_iterations_) => Flight' = Flight
  <2>1. /\ Flight' \in SUBSET Threads /\ t \notin Flight
        /\ (t \in Flight' <=> iteration_ < num_iterations_)
    BY <1>1, <1>3, <1>6 DEF Flight
  <2>2. \A u \in Threads : u # t => (u \in Flight' <=> u \in Flight)
    BY <1>1, <1>3, <1>6 DEF Flight
  <2> QED
    BY <2>1, <2>2, FlightSize, Changed
<1>11. ~raced /\ Running => num_iterations_ = n
  BY <1>2 DEF AtomicInv
<1>12. ~raced /\ ~Running => iteration_ >= num_iterations_ /\ Flight = {} /\ Flight' = {}
                             /\ iteration_' >= num_iterations_
  BY <1>1, <1>2, <1>10 DEF AtomicInv
<1>13. PoolInv'
  <2>1. ~raced /\ Running =>
            /\ iteration_ <= n => complete_ + Cardinality(Flight) = iteration_
            /\ iteration_ >= n => complete_ + Cardinality(Flight) = n
    BY <1>2, <1>9 DEF AtomicInv
  <2>2. ~raced /\ Running =>
            /\ iteration_' <= n => complete_ + Cardinality(Flight') = iteration_'
            /\ iteration_' >= n => complete_ + Cardinality(Flight') = n
    BY <1>1, <1>2, <1>10, <1>11, <2>1, FlightSize
  <2>3. pc'[Main] = "resetComplete" => Resetting
    BY <1>5 DEF Resetting
  <2>4. AtomicInv'
    BY <1>1, <1>2, <1>5, <1>7, <1>9, <1>12, <2>2, <2>3 DEF AtomicInv, caller, ghosts
  <2> QED
    BY <1>1, <2>4 DEF PoolInv
<1>14. \A u \in Threads : u # t => Still(u)
  BY <1>1, <1>3, <1>6 DEF Still
<1>15. Once => \A u \in Threads : u # t => Keeps(u)
  BY <1>1, <1>14, StillKeeps DEF caller
<1>16. ~Holds(t) /\ (Holds(t)' <=> iteration_ < num_iterations_) /\ Entered(t)' = 0 /\ OwnJob(t)'
  BY <1>1, <1>3, <1>6 DEF Holds, Entered, OwnJob
<1>17. ~raced /\ Running => Handed = iteration_ /\ Handed' = iteration_ + 1
  BY <1>1, <1>5, <1>9 DEF Handed, Resetting, Running
<1>18. CASE ~raced /\ Running /\ iteration_ < n
  <2>1. Active /\ Active'
    BY <1>5, <1>18 DEF Running
  <2> QED
    BY <1>1, <1>4, <1>6, <1>8, <1>11, <1>13, <1>15, <1>16, <1>17, <1>18, <2>1, HandStep
    DEF caller, ghosts
<1>19. CASE ~(~raced /\ Running /\ iteration_ < n)
  <2>1. ~raced => ~(iteration_ < num_iterations_)
    BY <1>2, <1>11, <1>12, <1>19
  <2>2. ~raced => Handed' = Handed \/ (Handed >= n /\ Handed' >= n)
    <3>1. CASE Running
      BY <1>2, <1>17, <1>19, <3>1
    <3>2. CASE ~Running
      BY <1>1, <1>5, <3>2 DEF Handed, caller, InlinePcs
    <3> QED
      BY <3>1, <3>2
  <2>3. ~raced /\ Once => \A u \in Threads : Keeps(u)
    BY <1>15, <1>16, <2>1 DEF Keeps
  <2> QED
    BY <1>1, <1>2, <1>4, <1>5, <1>8, <1>13, <2>2, <2>3, QuietStep DEF caller, ghosts
<1> QED
  BY <1>18, <1>19

\* fetch_add of spawning hands out the next number.
LEMMA SpawnFetchOK ==
    ASSUME IInv, strategy = "spawning", NEW t \in Threads, Fetch(t)
    PROVE  StepOK
<1>1. /\ pc[t] = "fetch" /\ strategy' = strategy
      /\ pc' = [pc EXCEPT ![t] = "compare"] /\ at' = [at EXCEPT ![t] = iteration_]
      /\ iteration_' = iteration_ + 1
      /\ UNCHANGED <<caller, job, num_iterations_, complete_, task_, queues, ghosts>>
  BY DEF Fetch, Goto, caller
<1>2. /\ Types /\ Pcs /\ SpawnInv /\ Main \in Threads /\ iteration_ \in Nat /\ n \in Nat
      /\ (t # Main => t \in Pool) /\ \A u \in Threads : at[u] \in Nat
  BY <1>1, SpawnFacts DEF Pcs
<1>3. Running /\ Active /\ pc[Main] # "crashed"
  <2>1. t = Main => Running
    BY <1>1 DEF Running, Active, InlinePcs
  <2>2. t # Main => Running
    BY <1>1, <1>2 DEF SpawnInv
  <2> QED
    BY <2>1, <2>2 DEF Running, Active
<1>4. /\ pc'[t] = "compare" /\ \A u \in Threads : u # t => pc'[u] = pc[u]
  BY <1>1, <1>2, Moved
<1>5. Pcs'
  <2>1. Allowed(t, "compare")
    BY <1>1, <1>2 DEF Allowed, MainPcs, WorkerPcs
  <2> QED
    BY <1>1, <1>2, <2>1, PcsMove
<1>6. /\ Active' /\ Running' /\ pc'[Main] \notin InlinePcs
      /\ pc'[Main] = pc[Main] \/ (pc[Main] = "fetch" /\ pc'[Main] = "compare" /\ t = Main)
  <2>1. CASE t = Main
    BY <1>1, <1>4, <2>1 DEF Active, Running, InlinePcs
  <2>2. CASE t # Main
    BY <1>2, <1>3, <1>4, <2>2, MainStays DEF Running
  <2> QED
    BY <2>1, <2>2
<1>7. /\ at'[t] = iteration_ /\ \A u \in Threads : u # t => at'[u] = at[u]
  BY <1>1, <1>2 DEF Types
<1>8. /\ iteration_ + 1 <= MaxIterations + Cardinality(Spent')
      /\ iteration_ \in 0 .. MaxIterations + NumCpus
  <2>1. iteration_ <= MaxIterations + Cardinality(Spent)
    BY <1>2, <1>3 DEF SpawnInv
  <2> QED
    BY <1>1, <1>2, <1>4, <1>7, <2>1, FetchSpent
<1>9. Types'
  <2>1. at' \in [Threads -> 0 .. MaxIterations + NumCpus] /\ iteration_' \in Nat
    BY <1>1, <1>2, <1>8 DEF Types
  <2>2. UNCHANGED <<strategy, job, call, n, points, task_, num_iterations_, complete_, tasks,
                    tasks_running, complete_queue_, stop, raced, begun, ended>>
    BY <1>1 DEF caller, queues, ghosts
  <2> QED
    BY <1>2, <1>3, <1>6, <2>1, <2>2 DEF Types
<1>10. PoolInv'
  <2>1. Pool' = Pool
    BY <1>1 DEF Pool
  <2>2. \A u \in Threads : pc'[u] = "compare" => at'[u] < iteration_'
    <3> SUFFICES ASSUME NEW u \in Threads, pc'[u] = "compare"
                 PROVE  at'[u] < iteration_'
      OBVIOUS
    <3>1. CASE u = t
      BY <1>1, <1>2, <1>7, <3>1
    <3>2. CASE u # t
      <4>1. at[u] < iteration_ /\ at[u] \in Nat
        BY <1>2, <1>3, <1>4, <3>2 DEF SpawnInv
      <4> QED
        BY <1>1, <1>2, <1>7, <3>2, <4>1
    <3> QED
      BY <3>1, <3>2
  <2>3. pc'[Main] = "spawn" => /\ at'[Main] <= NumCpus - 1
                               /\ \A u \in Pool : u > at'[Main] => pc'[u] = "none"
    <3> SUFFICES ASSUME pc'[Main] = "spawn"
                 PROVE  /\ at'[Main] <= NumCpus - 1
                        /\ \A u \in Pool : u > at'[Main] => pc'[u] = "none"
      OBVIOUS
    <3>1. t # Main /\ pc[Main] = "spawn" /\ at'[Main] = at[Main]
      BY <1>2, <1>4, <1>7
    <3>2. at[Main] <= NumCpus - 1 /\ \A u \in Pool : u > at[Main] => pc[u] = "none"
      BY <1>2, <3>1 DEF SpawnInv
    <3> QED
      BY <1>1, <1>4, <3>1, <3>2, PoolThreads
  <2>4. pc'[Main] = "await" => iteration_' >= n
    BY <1>1, <1>2, <1>6 DEF SpawnInv
  <2>5. SpawnInv'
    BY <1>1, <1>6, <1>8, <2>1, <2>2, <2>3, <2>4 DEF SpawnInv, caller
  <2> QED
    BY <1>1, <2>5 DEF PoolInv
<1>11. Once => \A u \in Threads : u # t => Keeps(u)
  <2>1. \A u \in Threads : u # t => Still(u)
    BY <1>1, <1>4, <1>7 DEF Still
  <2> QED
    BY <1>1, <2>1, StillKeeps DEF caller
<1>12. ~Holds(t) /\ (Holds(t)' <=> iteration_ < n) /\ Entered(t)' = 0 /\ OwnJob(t)'
  BY <1>1, <1>4, <1>7 DEF Holds, Entered, OwnJob, caller
<1>13. Handed = iteration_ /\ Handed' = iteration_ + 1
  BY <1>1, <1>3, <1>6 DEF Handed
<1>14. CASE iteration_ < n
  BY <1>1, <1>3, <1>5, <1>6, <1>7, <1>9, <1>10, <1>11, <1>12, <1>13, <1>14, HandStep
  DEF caller, ghosts
<1>15. CASE ~(iteration_ < n)
  <2>1. Handed >= n /\ Handed' >= n
    BY <1>2, <1>13, <1>15
  <2>2. Once => \A u \in Threads : Keeps(u)
    BY <1>11, <1>12, <1>15 DEF Keeps
  <2> QED
    BY <1>1, <1>3, <1>5, <1>6, <1>9, <1>10, <2>1, <2>2, QuietStep DEF caller, ghosts
<1> QED
  BY <1>14, <1>15

\* A thread whose number is an iteration begins it, another one leaves.
LEMMA CompareEffect ==
    ASSUME IInv, NEW t \in Threads, NEW m \in Nat, Compare(t),
           m = IF strategy = "atomic" THEN num_iterations_ ELSE n
    PROVE  \E x \in {"begin", "await", "wait", "exited"} :
               /\ pc' = [pc EXCEPT ![t] = x] /\ pc'[t] = x
               /\ \A u \in Threads : u # t => pc'[u] = pc[u]
               /\ (x = "begin" <=> at[t] < m) /\ (x = "await" => t = Main)
               /\ (x \in {"wait", "exited"} => t # Main)
               /\ (x = "wait" => strategy # "spawning") /\ (x = "exited" => strategy = "spawning")
               /\ x = "begin" => at' = at /\ job' = [job EXCEPT ![t] = call]
               /\ x # "begin" => at' = [at EXCEPT ![t] = 0] /\ job' = job
<1>1. Pcs
  BY DEF IInv
<1>2. PICK x : /\ x = (IF at[t] < m THEN "begin" ELSE Leave(t))
               /\ pc' = [pc EXCEPT ![t] = x]
  BY DEF Compare, Goto
<1>3. pc'[t] = x /\ \A u \in Threads : u # t => pc'[u] = pc[u]
  BY <1>1, <1>2, Moved
<1>4. /\ x = "begin" => at' = at /\ job' = [job EXCEPT ![t] = call]
      /\ x # "begin" => at' = [at EXCEPT ![t] = 0] /\ job' = job
  BY <1>3 DEF Compare
<1> QED
  BY <1>2, <1>3, <1>4 DEF Leave

\* The comparison of the atomic pool hands out nothing more.
LEMMA AtomicCompareOK ==
    ASSUME IInv, strategy = "atomic", NEW t \in Threads, Compare(t)
    PROVE  StepOK
<1>1. /\ pc[t] = "compare" /\ strategy' = strategy
      /\ UNCHANGED <<caller, counters, queues, ghosts>>
  BY DEF Compare, caller
<1>2. /\ Types /\ Pcs /\ AtomicInv /\ pc[Main] # "crashed" /\ Main \in Threads /\ Shared
      /\ num_iterations_ \in Nat /\ num_iterations_ <= MaxIterations /\ at[t] \in Nat
      /\ (t # Main => t \in Pool)
  BY <1>1, AtomicFacts DEF Pcs
<1>3. PICK x \in {"begin", "await", "wait", "exited"} :
               /\ pc' = [pc EXCEPT ![t] = x] /\ pc'[t] = x
               /\ \A u \in Threads : u # t => pc'[u] = pc[u]
               /\ (x = "begin" <=> at[t] < num_iterations_) /\ (x = "await" => t = Main)
               /\ (x \in {"wait", "exited"} => t # Main)
               /\ (x = "wait" => strategy # "spawning") /\ (x = "exited" => strategy = "spawning")
               /\ x = "begin" => at' = at /\ job' = [job EXCEPT ![t] = call]
               /\ x # "begin" => at' = [at EXCEPT ![t] = 0] /\ job' = job
  BY <1>2, CompareEffect
<1>4. Pcs'
  <2>1. Allowed(t, x)
    BY <1>2, <1>3 DEF Allowed, MainPcs, WorkerPcs
  <2> QED
    BY <1>1, <1>2, <1>3, <2>1, PcsMove
<1>5. /\ (Active' <=> Active) /\ (Running' <=> Running) /\ (Resetting' <=> Resetting)
      /\ (pc'[Main] \in InlinePcs <=> pc[Main] \in InlinePcs)
      /\ pc'[Main] = pc[Main] \/ pc'[Main] \in {"begin", "await"}
  <2>1. CASE t = Main
    BY <1>1, <1>3, <2>1 DEF Active, Running, InlinePcs, Resetting
  <2>2. CASE t # Main
    BY <1>2, <1>3, <2>2, MainStays
  <2> QED
    BY <2>1, <2>2
<1>6. /\ at' \in [Threads -> 0 .. MaxIterations + NumCpus] /\ job' \in [Threads -> 0 .. call]
      /\ \A u \in Threads : u # t => at'[u] = at[u] /\ job'[u] = job[u]
      /\ x = "begin" => at'[t] = at[t]
  <2>1. /\ at \in [Threads -> 0 .. MaxIterations + NumCpus] /\ job \in [Threads -> 0 .. call]
        /\ call \in 0 .. call /\ 0 \in 0 .. MaxIterations + NumCpus
    BY <1>2, Sizes DEF Types
  <2>2. CASE x = "begin"
    BY <1>3, <2>1, <2>2
  <2>3. CASE x # "begin"
    BY <1>3, <2>1, <2>3
  <2> QED
    BY <2>2, <2>3
<1>7. Types'
  <2>1. UNCHANGED <<strategy, call, n, points, task_, num_iterations_, iteration_, complete_,
                    tasks, tasks_running, complete_queue_, stop, raced, begun, ended>>
    BY <1>1 DEF caller, counters, queues, ghosts
  <2> QED
    BY <1>2, <1>5, <1>6, <2>1 DEF Types
<1>8. num_iterations_' = num_iterations_
  BY <1>1 DEF counters
<1>9. Flight' = Flight
  <2>1. Flight' \in SUBSET Threads /\ (t \in Flight' <=> t \in Flight)
    BY <1>1, <1>3 DEF Flight
  <2>2. \A u \in Threads : u # t => (u \in Flight' <=> u \in Flight)
    BY <1>3, <1>6, <1>8 DEF Flight
  <2> QED
    BY <2>1, <2>2, FlightSize, Changed
<1>10. Spent \subseteq Spent'
  <2>1. x = "begin" => t \notin Spent
    BY <1>1, <1>2, <1>3, Sizes DEF Spent
  <2>2. x # "begin" => t \in Spent'
    BY <1>3 DEF Spent
  <2>3. \A u \in Threads : u # t => (u \in Spent' <=> u \in Spent)
    BY <1>3, <1>6 DEF Spent
  <2>4. Spent \in SUBSET Threads
    BY SpentSize
  <2> QED
    BY <2>1, <2>2, <2>3, <2>4
<1>11. ~raced => ~Resetting
  <2>1. InIterations(t)
    BY <1>1 DEF InIterations
  <2>2. t = Main => ~Resetting
    BY <1>1 DEF Resetting
  <2> QED
    BY <1>2, <2>1, <2>2 DEF AtomicInv
<1>12. PoolInv'
  BY <1>1, <1>5, <1>9, <1>10, <1>11, AtomicKept DEF caller, counters, ghosts
<1>13. Handed' = Handed
  BY <1>1, <1>5 DEF Handed, caller, counters, InlinePcs, Running, Resetting
<1>14. Keeps(t)
  <2>1. (Holds(t) <=> x = "begin") /\ Entered(t) = 0
    BY <1>1, <1>3 DEF Holds, Entered
  <2>2. Holds(t)' <=> x = "begin"
    BY <1>1, <1>3 DEF Holds
  <2>3. Entered(t)' = 0 /\ OwnJob(t)'
    BY <1>1, <1>2, <1>3 DEF Entered, OwnJob, Shared
  <2> QED
    BY <1>6, <2>1, <2>2, <2>3 DEF Keeps
<1>15. Once => \A u \in Threads : Keeps(u)
  <2>1. \A u \in Threads : u # t => Still(u)
    BY <1>3, <1>6 DEF Still
  <2> QED
    BY <1>1, <1>8, <1>14, <2>1, StillKeeps DEF caller
<1> QED
  BY <1>1, <1>2, <1>4, <1>5, <1>7, <1>12, <1>13, <1>15, QuietStep DEF caller, ghosts

\* The comparison of spawning hands out nothing more.
LEMMA SpawnCompareOK ==
    ASSUME IInv, strategy = "spawning", NEW t \in Threads, Compare(t)
    PROVE  StepOK
<1>1. /\ pc[t] = "compare" /\ strategy' = strategy
      /\ UNCHANGED <<caller, counters, queues, ghosts>>
  BY DEF Compare, caller
<1>2. /\ Types /\ Pcs /\ SpawnInv /\ Main \in Threads /\ iteration_ \in Nat
      /\ n \in Nat /\ n <= MaxIterations /\ at[t] \in Nat
      /\ (t # Main => t \in Pool)
  BY <1>1, SpawnFacts DEF Pcs
<1>3. PICK x \in {"begin", "await", "wait", "exited"} :
               /\ pc' = [pc EXCEPT ![t] = x] /\ pc'[t] = x
               /\ \A u \in Threads : u # t => pc'[u] = pc[u]
               /\ (x = "begin" <=> at[t] < n) /\ (x = "await" => t = Main)
               /\ (x \in {"wait", "exited"} => t # Main)
               /\ (x = "wait" => strategy # "spawning") /\ (x = "exited" => strategy = "spawning")
               /\ x = "begin" => at' = at /\ job' = [job EXCEPT ![t] = call]
               /\ x # "begin" => at' = [at EXCEPT ![t] = 0] /\ job' = job
  BY <1>2, CompareEffect
<1>4. Running /\ Active /\ pc[Main] # "crashed"
  <2>1. t = Main => Running
    BY <1>1 DEF Running, Active, InlinePcs
  <2>2. t # Main => Running
    BY <1>1, <1>2 DEF SpawnInv
  <2> QED
    BY <2>1, <2>2 DEF Running, Active
<1>5. Pcs'
  <2>1. Allowed(t, x)
    BY <1>2, <1>3 DEF Allowed, MainPcs, WorkerPcs
  <2> QED
    BY <1>1, <1>2, <1>3, <2>1, PcsMove
<1>6. /\ Active' /\ Running' /\ pc'[Main] \notin InlinePcs
      /\ pc'[Main] = pc[Main] \/ (pc'[Main] \in {"begin", "await"} /\ t = Main)
  <2>1. CASE t = Main
    BY <1>1, <1>3, <2>1 DEF Active, Running, InlinePcs
  <2>2. CASE t # Main
    BY <1>2, <1>3, <1>4, <2>2, MainStays DEF Running
  <2> QED
    BY <2>1, <2>2
<1>7. /\ at' \in [Threads -> 0 .. MaxIterations + NumCpus] /\ job' \in [Threads -> 0 .. call]
      /\ \A u \in Threads : u # t => at'[u] = at[u] /\ job'[u] = job[u]
      /\ x = "begin" => at'[t] = at[t] /\ job'[t] = call
  <2>1. /\ at \in [Threads -> 0 .. MaxIterations + NumCpus] /\ job \in [Threads -> 0 .. call]
        /\ call \in 0 .. call /\ 0 \in 0 .. MaxIterations + NumCpus
    BY <1>2, Sizes DEF Types
  <2>2. CASE x = "begin"
    BY <1>3, <2>1, <2>2
  <2>3. CASE x # "begin"
    BY <1>3, <2>1, <2>3
  <2> QED
    BY <2>2, <2>3
<1>8. Types'
  <2>1. UNCHANGED <<strategy, call, n, points, task_, num_iterations_, iteration_, complete_,
                    tasks, tasks_running, complete_queue_, stop, raced, begun, ended>>
    BY <1>1 DEF caller, counters, queues, ghosts
  <2> QED
    BY <1>2, <1>4, <1>6, <1>7, <2>1 DEF Types
<1>9. iteration_ <= MaxIterations + Cardinality(Spent')
  <2>1. x = "begin" => t \notin Spent
    BY <1>1, <1>2, <1>3, Sizes DEF Spent
  <2>2. x # "begin" => t \in Spent'
    BY <1>3 DEF Spent
  <2>3. \A u \in Threads : u # t => (u \in Spent' <=> u \in Spent)
    BY <1>3, <1>7 DEF Spent
  <2>4. Spent \in SUBSET Threads
    BY SpentSize
  <2>5. Spent' \in SUBSET Threads
    BY DEF Spent
  <2>6. Spent \subseteq Spent'
    BY <2>1, <2>2, <2>3, <2>4
  <2>7. /\ Cardinality(Spent) \in Nat /\ Cardinality(Spent') \in Nat
        /\ Cardinality(Spent) <= Cardinality(Spent')
    BY <2>4, <2>5, <2>6, Grows
  <2>8. iteration_ <= MaxIterations + Cardinality(Spent)
    BY <1>2, <1>4 DEF SpawnInv
  <2> QED
    BY <1>2, <2>7, <2>8, Sizes
<1>10. at[t] < iteration_
  BY <1>1, <1>2, <1>4 DEF SpawnInv
<1>11. PoolInv'
  <2>1. Pool' = Pool /\ iteration_' = iteration_ /\ n' = n
    BY <1>1 DEF Pool, counters, caller
  <2>2. \A u \in Threads : pc'[u] = "compare" => at'[u] < iteration_'
    BY <1>2, <1>3, <1>4, <1>7, <2>1 DEF SpawnInv
  <2>3. pc'[Main] = "spawn" => /\ at'[Main] <= NumCpus - 1
                               /\ \A u \in Pool : u > at'[Main] => pc'[u] = "none"
    <3> SUFFICES ASSUME pc'[Main] = "spawn"
                 PROVE  /\ at'[Main] <= NumCpus - 1
                        /\ \A u \in Pool : u > at'[Main] => pc'[u] = "none"
      OBVIOUS
    <3>1. t # Main /\ pc[Main] = "spawn" /\ at'[Main] = at[Main]
      BY <1>2, <1>3, <1>6, <1>7
    <3>2. at[Main] <= NumCpus - 1 /\ \A u \in Pool : u > at[Main] => pc[u] = "none"
      BY <1>2, <3>1 DEF SpawnInv
    <3> QED
      BY <1>1, <1>3, <3>1, <3>2, PoolThreads
  <2>4. pc'[Main] = "await" => iteration_' >= n
    <3>1. CASE t = Main
      BY <1>2, <1>3, <1>10, <2>1, <3>1
    <3>2. CASE t # Main
      BY <1>2, <1>3, <2>1, <3>2 DEF SpawnInv
    <3> QED
      BY <3>1, <3>2
  <2>5. SpawnInv'
    BY <1>6, <1>9, <2>1, <2>2, <2>3, <2>4 DEF SpawnInv
  <2> QED
    BY <1>1, <2>5 DEF PoolInv
<1>12. Handed' = Handed
  BY <1>1, <1>4, <1>6 DEF Handed, counters
<1>13. Keeps(t)
  <2>1. (Holds(t) <=> x = "begin") /\ Entered(t) = 0
    BY <1>1, <1>3 DEF Holds, Entered
  <2>2. Holds(t)' <=> x = "begin"
    BY <1>1, <1>3 DEF Holds
  <2>3. Entered(t)' = 0 /\ (x = "begin" => OwnJob(t)')
    BY <1>1, <1>2, <1>3, <1>7 DEF Entered, OwnJob, caller
  <2> QED
    BY <1>7, <2>1, <2>2, <2>3 DEF Keeps
<1>14. Once => \A u \in Threads : Keeps(u)
  <2>1. \A u \in Threads : u # t => Still(u)
    BY <1>3, <1>7 DEF Still
  <2> QED
    BY <1>1, <1>13, <2>1, StillKeeps DEF caller, counters
<1> QED
  BY <1>1, <1>4, <1>5, <1>6, <1>8, <1>11, <1>12, <1>14, QuietStep DEF caller, ghosts

-----------------------------------------------------------------------------
(* Spawning. *)

\* Spawning starts at iteration 0, or throws when there is none.
LEMMA StartSpawningOK ==
    ASSUME IInv, StartSpawning
    PROVE  StepOK
<1>1. /\ strategy = "spawning" /\ pc[Main] = "start" /\ strategy' = strategy
      /\ iteration_' = 0 /\ at' = [at EXCEPT ![Main] = 0]
      /\ UNCHANGED <<caller, job, num_iterations_, complete_, task_, queues, ghosts>>
  BY DEF StartSpawning, caller
<1>2. /\ Types /\ Pcs /\ SpawnInv /\ Fresh /\ Main \in Threads /\ n \in Nat /\ Active /\ ~Running
      /\ pc[Main] # "crashed"
  BY <1>1, SpawnFacts DEF IInv, Active, Running, InlinePcs
<1>3. PICK x \in {"crashed", "spawn"} : pc' = [pc EXCEPT ![Main] = x]
  BY DEF StartSpawning, Goto
<1>4. pc'[Main] = x /\ \A u \in Threads : u # Main => pc'[u] = pc[u]
  BY <1>2, <1>3, Moved
<1>5. Pcs'
  <2>1. Allowed(Main, x)
    BY <1>1 DEF Allowed, MainPcs
  <2> QED
    BY <1>1, <1>2, <1>3, <2>1, PcsMove
<1>6. /\ x = "crashed" => ~Active' /\ ~Running'
      /\ x = "spawn" => Active' /\ Running'
      /\ pc'[Main] \notin InlinePcs
  BY <1>4 DEF Active, Running, InlinePcs
<1>7. /\ at' \in [Threads -> 0 .. MaxIterations + NumCpus] /\ at'[Main] = 0
      /\ \A u \in Threads : u # Main => at'[u] = at[u]
  <2>1. at \in [Threads -> 0 .. MaxIterations + NumCpus] /\ 0 \in 0 .. MaxIterations + NumCpus
    BY <1>2, Sizes DEF Types
  <2> QED
    BY <1>1, <1>2, <2>1
<1>8. Types'
  <2>1. UNCHANGED <<strategy, job, call, n, points, task_, num_iterations_, complete_,
                    tasks, tasks_running, complete_queue_, stop, raced, begun, ended>>
    BY <1>1 DEF caller, queues, ghosts
  <2> QED
    BY <1>1, <1>2, <1>6, <1>7, <2>1 DEF Types
<1>9. \A u \in Pool : pc'[u] = "none"
  BY <1>2, <1>4, PoolThreads DEF SpawnInv
<1>10. PoolInv'
  <2>1. Pool' = Pool
    BY <1>1 DEF Pool
  <2>2. iteration_' <= MaxIterations + Cardinality(Spent')
    <3>1. Spent' \in SUBSET Threads
      BY DEF Spent
    <3>2. Cardinality(Spent') \in Nat
      BY <3>1, SubsetSize
    <3> QED
      BY <1>1, <3>2, Sizes
  <2>3. \A u \in Threads : pc'[u] # "compare"
    BY <1>2, <1>4, <1>9 DEF Pcs
  <2>4. SpawnInv'
    BY <1>4, <1>7, <1>9, <2>1, <2>2, <2>3, Sizes DEF SpawnInv
  <2> QED
    BY <1>1, <2>4 DEF PoolInv
<1>11. CASE x = "crashed"
  <2>1. Fresh'
    BY <1>1, <1>2, <1>8, FreshKept DEF caller, ghosts
  <2> QED
    BY <1>4, <1>5, <1>8, <1>10, <1>11, <2>1 DEF StepOK, IInv, Refines
<1>12. CASE x = "spawn"
  <2>1. Handed = 0 /\ Handed' = 0
    BY <1>1, <1>2, <1>6, <1>12 DEF Handed, InlinePcs
  <2>2. \A u \in Threads : Still(u)
    BY <1>1, <1>4, <1>7 DEF Still, HoldPcs
  <2>3. Once => \A u \in Threads : Keeps(u)
    BY <1>1, <2>2, StillKeeps DEF caller
  <2> QED
    BY <1>1, <1>2, <1>5, <1>6, <1>8, <1>10, <1>12, <2>1, <2>3, QuietStep DEF caller, ghosts
<1> QED
  BY <1>11, <1>12

\* A new thread holds nothing yet.
LEMMA SpawnOK ==
    ASSUME IInv, Spawn
    PROVE  StepOK
<1>1. /\ strategy = "spawning" /\ pc[Main] = "spawn" /\ strategy' = strategy
      /\ UNCHANGED <<caller, job, counters, queues, ghosts>>
  BY DEF Spawn, caller
<1>2. /\ Types /\ Pcs /\ SpawnInv /\ Main \in Threads /\ n \in Nat /\ at[Main] \in Nat
      /\ Active /\ Running /\ pc[Main] # "crashed" /\ iteration_ \in Nat
  BY <1>1, SpawnFacts DEF Active, Running, InlinePcs
<1>3. at[Main] <= NumCpus - 1 /\ \A u \in Pool : u > at[Main] => pc[u] = "none"
  BY <1>1, <1>2 DEF SpawnInv
\* Either one more thread is started, or main becomes one of the workers.
<1>4. PICK t \in Threads :
          /\ pc' = [pc EXCEPT ![t] = "fetch"] /\ pc[t] \in {"none", "spawn"}
          /\ t = Main => at' = at
          /\ t # Main => /\ t \in Pool /\ t = at[Main] + 1 /\ at[Main] + 1 <= NumCpus - 1
                         /\ at' = [at EXCEPT ![Main] = @ + 1]
  <2>2. CASE at[Main] < (IF n < NumCpus THEN n ELSE NumCpus) - 1
    <3>1. /\ at' = [at EXCEPT ![Main] = @ + 1] /\ pc' = [pc EXCEPT ![at[Main] + 1] = "fetch"]
      BY <2>2 DEF Spawn, Goto
    <3>2. at[Main] + 1 \in Pool /\ at[Main] + 1 <= NumCpus - 1 /\ at[Main] + 1 # Main
          /\ at[Main] + 1 > at[Main]
      BY <1>1, <1>2, <2>2, Sizes DEF Pool, Main
    <3>3. at[Main] + 1 \in Threads /\ pc[at[Main] + 1] = "none"
      BY <1>3, <3>2, PoolThreads
    <3> QED
      BY <3>1, <3>2, <3>3
  <2>3. CASE ~(at[Main] < (IF n < NumCpus THEN n ELSE NumCpus) - 1)
    BY <1>1, <1>2, <2>3 DEF Spawn, Goto
  <2> QED
    BY <2>2, <2>3
<1>5. pc'[t] = "fetch" /\ \A u \in Threads : u # t => pc'[u] = pc[u]
  BY <1>2, <1>4, Moved
<1>6. Pcs'
  <2>1. Allowed(t, "fetch")
    BY <1>1, <1>4 DEF Allowed, MainPcs, WorkerPcs
  <2> QED
    BY <1>1, <1>2, <1>4, <2>1, PcsMove
<1>7. /\ Active' /\ Running' /\ pc'[Main] \notin InlinePcs
      /\ pc'[Main] \in {"spawn", "fetch"} /\ (pc'[Main] = "spawn" <=> t # Main)
  BY <1>1, <1>2, <1>5 DEF Active, Running, InlinePcs
<1>8. /\ at' \in [Threads -> 0 .. MaxIterations + NumCpus]
      /\ \A u \in Threads : u # Main => at'[u] = at[u]
      /\ t # Main => at'[Main] = at[Main] + 1
  <2>1. at \in [Threads -> 0 .. MaxIterations + NumCpus]
    BY <1>2 DEF Types
  <2>2. CASE t = Main
    BY <1>4, <2>1, <2>2
  <2>3. CASE t # Main
    <3>1. at[Main] + 1 \in 0 .. MaxIterations + NumCpus
      BY <1>2, <1>4, <2>3, Sizes
    <3> QED
      BY <1>2, <1>4, <2>1, <2>3, <3>1
  <2> QED
    BY <2>2, <2>3
<1>9. Types'
  <2>1. UNCHANGED <<strategy, job, call, n, points, task_, num_iterations_, iteration_, complete_,
                    tasks, tasks_running, complete_queue_, stop, raced, begun, ended>>
    BY <1>1 DEF caller, counters, queues, ghosts
  <2> QED
    BY <1>2, <1>7, <1>8, <2>1 DEF Types
<1>10. PoolInv'
  <2>1. Pool' = Pool /\ iteration_' = iteration_
    BY <1>1 DEF Pool, counters
  <2>2. Spent' = Spent
    <3>1. \A u \in Threads : u \in Spent' <=> u \in Spent
      <4> SUFFICES ASSUME NEW u \in Threads
                   PROVE  u \in Spent' <=> u \in Spent
        OBVIOUS
      <4>1. CASE u = t
        BY <1>4, <1>5, <4>1 DEF Spent
      <4>2. CASE u # t /\ u # Main
        BY <1>5, <1>8, <4>2 DEF Spent
      <4>3. CASE u # t /\ u = Main
        BY <1>1, <1>5, <4>3 DEF Spent
      <4> QED
        BY <4>1, <4>2, <4>3
    <3>2. Spent' \in SUBSET Threads /\ Spent \in SUBSET Threads
      BY DEF Spent
    <3> QED
      BY <3>1, <3>2
  <2>3. \A u \in Threads : pc'[u] = "compare" => at'[u] < iteration_
    <3>1. \A u \in Threads : pc'[u] = "compare" => u # Main /\ pc[u] = "compare"
      BY <1>5, <1>7
    <3> QED
      BY <1>2, <1>8, <3>1 DEF SpawnInv
  <2>4. pc'[Main] = "spawn" => /\ at'[Main] <= NumCpus - 1
                               /\ \A u \in Pool : u > at'[Main] => pc'[u] = "none"
    <3> SUFFICES ASSUME pc'[Main] = "spawn"
                 PROVE  /\ at'[Main] <= NumCpus - 1
                        /\ \A u \in Pool : u > at'[Main] => pc'[u] = "none"
      OBVIOUS
    <3>1. t # Main /\ at'[Main] = at[Main] + 1 /\ t = at[Main] + 1 /\ at[Main] + 1 <= NumCpus - 1
      BY <1>4, <1>7, <1>8
    <3>2. ASSUME NEW u \in Pool, u > at[Main] + 1
          PROVE  pc'[u] = "none"
      <4>1. u \in Nat
        BY Sizes DEF Pool
      <4>2. u > at[Main] /\ u # t /\ u \in Threads
        BY <1>2, <3>1, <3>2, <4>1, PoolThreads
      <4> QED
        BY <1>3, <1>5, <4>2
    <3> QED
      BY <3>1, <3>2
  <2>5. SpawnInv'
    BY <1>2, <1>7, <2>1, <2>2, <2>3, <2>4 DEF SpawnInv
  <2> QED
    BY <1>1, <2>5 DEF PoolInv
<1>11. Handed' = Handed
  BY <1>1, <1>2, <1>7 DEF Handed, counters
<1>12. \A u \in Threads : Still(u)
  BY <1>1, <1>4, <1>5, <1>8 DEF Still, HoldPcs
<1>13. Once => \A u \in Threads : Keeps(u)
  BY <1>1, <1>12, StillKeeps DEF caller, counters
<1> QED
  BY <1>1, <1>2, <1>6, <1>7, <1>9, <1>10, <1>11, <1>13, QuietStep DEF caller, ghosts

\* All threads have left the loop when they are joined: all iterations have ended.
LEMMA JoinThreadsOK ==
    ASSUME IInv, JoinThreads
    PROVE  StepOK
<1>1. /\ strategy = "spawning" /\ pc[Main] = "await" /\ strategy' = strategy
      /\ \A t \in Pool : pc[t] \in {"none", "exited"}
      /\ pc' = [t \in Threads |-> IF t = Main THEN "idle" ELSE "none"]
      /\ UNCHANGED <<caller, locals, counters, queues, ghosts>>
  BY DEF JoinThreads, caller
<1>2. /\ Types /\ Pcs /\ SpawnInv /\ Main \in Threads /\ n \in Nat
      /\ Active /\ Running /\ pc[Main] # "crashed" /\ iteration_ >= n
  BY <1>1, SpawnFacts DEF Active, Running, InlinePcs, SpawnInv
<1>3. pc'[Main] = "idle" /\ \A u \in Threads : u # Main => pc'[u] = "none"
  BY <1>1, <1>2
<1>4. Pcs'
  <2>1. \A u \in Threads : Allowed(u, pc'[u])
    BY <1>1, <1>3 DEF Allowed, MainPcs, WorkerPcs
  <2>2. pc' = [u \in Threads |-> pc'[u]]
    BY <1>1
  <2> QED
    BY <1>1, <2>1, <2>2, PcsAllowedNext
<1>5. ~Active' /\ ~Running' /\ pc'[Main] \notin InlinePcs
  BY <1>3 DEF Active, Running, InlinePcs
<1>6. Types'
  BY <1>1, <1>2, <1>5 DEF Types, caller, locals, counters, queues, ghosts
<1>7. PoolInv'
  <2>1. Pool' = Pool
    BY <1>1 DEF Pool
  <2>2. SpawnInv'
    BY <1>3, <1>5, <2>1, PoolThreads DEF SpawnInv
  <2> QED
    BY <1>1, <2>2 DEF PoolInv
<1>8. Handed >= n
  BY <1>1, <1>2 DEF Handed
<1>9. \A u \in Threads : ~Holds(u) /\ ~Holds(u)'
  <2>1. \A u \in Threads : pc[u] \in {"await", "none", "exited"} /\ pc'[u] \in {"idle", "none"}
    BY <1>1, <1>2, <1>3 DEF Pcs
  <2> QED
    BY <2>1 DEF Holds
<1> QED
  BY <1>1, <1>2, <1>4, <1>5, <1>6, <1>7, <1>8, <1>9, ReturnStep DEF caller, ghosts

-----------------------------------------------------------------------------
(* The moody pool. *)

\* Adding the same task several times, or those of a call, to an empty queue.
LEMMA Filled ==
    ASSUME NEW m \in Nat, NEW f(_), \A i \in 1 .. m : f(i) \in Nat \X Nat
    PROVE  LET s == <<>> \o [i \in 1 .. m |-> f(i)]
           IN  /\ s \in Seq(Nat \X Nat) /\ Len(s) = m
               /\ \A i \in 1 .. m : s[i] = f(i)
<1> DEFINE g == [i \in 1 .. m |-> f(i)]
<1>1. g \in Seq(Nat \X Nat) /\ Len(g) = m /\ \A i \in 1 .. m : g[i] = f(i)
  OBVIOUS
<1>2. <<>> \o g = g
  BY <1>1
<1> QED
  BY <1>1, <1>2

\* What the invariant says of a moody pool.
LEMMA MoodyFacts ==
    ASSUME IInv, strategy = "moody"
    PROVE  /\ Types /\ Pcs /\ MoodyInv /\ ~Shared /\ pc[Main] # "crashed" /\ Main \in Threads
           /\ tasks \in Seq(Nat \X Nat) /\ Len(tasks) \in Nat /\ complete_ \in Nat
           /\ complete_queue_ \in Nat /\ n \in Nat /\ n <= MaxIterations /\ call \in Nat
<1>1. Types /\ Pcs /\ MoodyInv /\ pc[Main] # "crashed"
  BY DEF IInv, PoolInv, Pcs, MainPcs, InlinePcs, StopPcs
<1>2. tasks \in Seq(Nat \X Nat) /\ Len(tasks) \in Nat
  BY <1>1 DEF Types
<1>3. complete_ \in Nat /\ complete_queue_ \in Nat /\ n \in Nat /\ n <= MaxIterations /\ call \in Nat
  BY <1>1, Sizes DEF Types
<1> QED
  BY <1>1, <1>2, <1>3, PoolThreads DEF Shared

\* enqueue_bulk puts all iterations of the call into the empty queue.
LEMMA StartMoodyOK ==
    ASSUME IInv, StartMoody
    PROVE  StepOK
<1>1. /\ strategy = "moody" /\ pc[Main] = "start" /\ strategy' = strategy
      /\ pc' = [pc EXCEPT ![Main] = "drain"] /\ complete_' = 0
      /\ UNCHANGED <<caller, locals, num_iterations_, iteration_, task_, tasks_running,
                     complete_queue_, stop, ghosts>>
  BY DEF StartMoody, Goto, caller
<1>2. /\ Types /\ Pcs /\ MoodyInv /\ pc[Main] # "crashed" /\ Main \in Threads
      /\ n \in Nat /\ n <= MaxIterations /\ call \in Nat
      /\ Active /\ ~Running /\ ~Draining /\ Main \notin Holders
  BY <1>1, MoodyFacts DEF Active, Running, Draining, InlinePcs, Holders
<1>3. tasks = <<>>
  BY <1>1, <1>2 DEF MoodyInv
<1>4. PICK m \in Nat : m = n
  BY <1>2
<1>5. /\ tasks' \in Seq(Nat \X Nat) /\ Len(tasks') = m
      /\ \A i \in 1 .. m : tasks'[i] = <<call, i - 1>>
  <2> DEFINE f(i) == <<call, i - 1>>
  <2>1. \A i \in 1 .. m : f(i) \in Nat \X Nat
    BY <1>2
  <2>2. tasks' = <<>> \o [i \in 1 .. m |-> f(i)]
    BY <1>3, <1>4 DEF StartMoody
  <2> HIDE DEF f
  <2>3. /\ tasks' \in Seq(Nat \X Nat) /\ Len(tasks') = m
        /\ \A i \in 1 .. m : tasks'[i] = f(i)
    BY <2>1, <2>2, Filled
  <2> USE DEF f
  <2> QED
    BY <2>3
<1>6. pc'[Main] = "drain" /\ \A u \in Threads : u # Main => pc'[u] = pc[u]
  BY <1>1, <1>2, Moved
<1>7. Pcs'
  <2>1. Allowed(Main, "drain")
    BY <1>1 DEF Allowed, MainPcs
  <2> QED
    BY <1>1, <1>2, <2>1, PcsMove
<1>8. Active' /\ Running' /\ Draining' /\ pc'[Main] \notin InlinePcs
  BY <1>6 DEF Active, Running, Draining, InlinePcs
<1>9. Types'
  <2>1. UNCHANGED <<strategy, at, job, call, n, points, task_, num_iterations_, iteration_,
                    tasks_running, complete_queue_, stop, raced, begun, ended>>
    BY <1>1 DEF caller, locals, ghosts
  <2> QED
    BY <1>1, <1>2, <1>5, <1>8, <2>1 DEF Types
<1>10. Holders' = Holders
  BY <1>2, <1>6, HoldersMove
<1>11. Cardinality(Holders) \in Nat /\ Cardinality(Holders) <= NumCpus
  <2>1. Main \in Threads \ Holders
    BY <1>2
  <2> QED
    BY <2>1, HoldersSize, SubsetSize
<1>12. PoolInv'
  <2>1. /\ Len(tasks') + complete_' + Cardinality(Holders') <= MaxIterations + NumCpus
        /\ complete_' + Cardinality(Holders') <= MaxIterations + NumCpus
    BY <1>1, <1>2, <1>4, <1>5, <1>10, <1>11, Sizes
  <2>2. Consecutive(n)'
    <3>1. \A i \in 1 .. m : tasks'[i] = <<call', n' - m + i - 1>>
      <4> TAKE i \in 1 .. m
      <4>1. n' - m + i - 1 = i - 1 /\ call' = call
        BY <1>1, <1>4 DEF caller
      <4> QED
        BY <1>5, <4>1
    <3> QED
      BY <1>1, <1>4, <1>5, <3>1 DEF Consecutive, caller
  <2>3. ~raced' => /\ complete_queue_' \in {0, 1}
                   /\ complete_' + Len(tasks') + Cardinality(Holders') = n'
                   /\ \A t \in Holders' : job'[t] = call'
    <3>1. ~raced' => Holders = {} /\ complete_queue_ = 0
      BY <1>1, <1>2 DEF MoodyInv, ghosts
    <3>2. ~raced' => Cardinality(Holders') = 0 /\ Holders' = {} /\ complete_queue_' = 0
      BY <1>1, <1>10, <3>1, FS_EmptySet
    <3> QED
      BY <1>1, <1>4, <1>5, <3>2 DEF caller
  <2>4. ~raced' => \A t \in Threads : ~(pc'[t] = "compare" /\ job'[t] = call')
    <3>1. ~raced' => \A t \in Threads : pc[t] = "compare" => job[t] # call
      BY <1>1, <1>2 DEF MoodyInv, ghosts
    <3>2. \A t \in Threads : pc'[t] = "compare" => pc[t] = "compare"
      BY <1>1, <1>6
    <3> QED
      BY <1>1, <3>1, <3>2 DEF locals, caller
  <2>5. ~raced' => complete_queue_' = 0
    BY <1>1, <1>2 DEF MoodyInv, ghosts
  <2>6. MoodyInv'
    BY <1>6, <1>8, <2>1, <2>2, <2>3, <2>4, <2>5 DEF MoodyInv
  <2> QED
    BY <1>1, <2>6 DEF PoolInv
<1>13. Handed = 0 /\ Handed' = 0
  <2>1. Handed = 0 /\ Handed' = n' - Len(tasks')
    BY <1>1, <1>2, <1>8 DEF Handed, InlinePcs
  <2> QED
    BY <1>1, <1>4, <1>5, <2>1 DEF caller
<1>14. \A u \in Threads : Still(u)
  BY <1>1, <1>6 DEF Still, HoldPcs, locals
<1>15. Once => \A u \in Threads : Keeps(u)
  BY <1>1, <1>14, StillKeeps DEF caller
<1> QED
  BY <1>1, <1>2, <1>7, <1>8, <1>9, <1>12, <1>13, <1>15, QuietStep DEF caller, ghosts

\* while (!stop) hands out nothing.
LEMMA LoopMoodyOK ==
    ASSUME IInv, NEW t \in Threads, LoopMoody(t)
    PROVE  StepOK
<1>1. /\ strategy = "moody" /\ pc[t] = "loop" /\ strategy' = strategy
      /\ UNCHANGED <<caller, locals, counters, queues, ghosts>>
  BY DEF LoopMoody, caller
<1>2. Types /\ Pcs /\ MoodyInv /\ pc[Main] # "crashed" /\ t \in Pool
  BY <1>1, MoodyFacts DEF Pcs, MainPcs, InlinePcs, StopPcs
<1>3. PICK x \in {"exited", "dequeue"} : pc' = [pc EXCEPT ![t] = x]
  BY DEF LoopMoody, Goto
<1>4. x \in WorkerPcs(strategy)
  BY <1>1 DEF WorkerPcs
<1>5. /\ Pcs' /\ pc'[t] = x /\ t # Main /\ pc'[Main] = pc[Main]
      /\ \A u \in Threads : u # t => pc'[u] = pc[u]
      /\ (Active' <=> Active) /\ (Running' <=> Running) /\ (Draining' <=> Draining)
  BY <1>1, <1>2, <1>3, <1>4, WorkerMove
<1>6. Types'
  BY <1>1, <1>2, <1>5 DEF Types, caller, locals, counters, queues, ghosts
<1>7. Holders' = Holders
  <2>1. t \notin Holders
    BY <1>1 DEF Holders
  <2> QED
    BY <1>2, <1>5, <2>1, HoldersMove
<1>8. PoolInv'
  <2>1. \A u \in Threads : pc'[u] = "compare" <=> pc[u] = "compare"
    BY <1>1, <1>5
  <2>2. UNCHANGED <<call, n, at, job, complete_, tasks, complete_queue_, raced>>
    BY <1>1 DEF caller, locals, counters, queues, ghosts
  <2>3. MoodyInv'
    BY <1>2, <1>5, <1>7, <2>1, <2>2 DEF MoodyInv, Consecutive
  <2> QED
    BY <1>1, <2>3 DEF PoolInv
<1>9. Handed' = Handed
  BY <1>1, <1>5 DEF Handed, caller, queues
<1>10. \A u \in Threads : Still(u)
  BY <1>1, <1>5 DEF Still, HoldPcs, locals
<1>11. Once => \A u \in Threads : Keeps(u)
  BY <1>1, <1>10, StillKeeps DEF caller
<1> QED
  BY <1>1, <1>2, <1>5, <1>6, <1>8, <1>9, <1>11, QuietStep DEF caller, ghosts

\* A message of completion is in the queue: without a race all have ended.
LEMMA AwaitMoodyOK ==
    ASSUME IInv, AwaitMoody
    PROVE  StepOK
<1>1. /\ strategy = "moody" /\ pc[Main] = "await" /\ strategy' = strategy
      /\ pc' = [pc EXCEPT ![Main] = "idle"]
      /\ complete_queue_ > 0 /\ complete_queue_' = complete_queue_ - 1
      /\ UNCHANGED <<caller, locals, counters, tasks, tasks_running, stop, ghosts>>
  BY DEF AwaitMoody, Goto, caller
<1>2. /\ Types /\ Pcs /\ MoodyInv /\ pc[Main] # "crashed" /\ Main \in Threads
      /\ n \in Nat /\ complete_queue_ \in Nat /\ complete_ \in Nat /\ Main \notin Holders
      /\ Active /\ Running /\ ~Draining
  BY <1>1, MoodyFacts DEF Active, Running, Draining, InlinePcs, Holders
<1>3. pc'[Main] = "idle" /\ \A u \in Threads : u # Main => pc'[u] = pc[u]
  BY <1>1, <1>2, Moved
<1>4. Pcs'
  <2>1. Allowed(Main, "idle")
    BY <1>1 DEF Allowed, MainPcs
  <2> QED
    BY <1>1, <1>2, <2>1, PcsMove
<1>5. ~Active' /\ ~Running' /\ ~Draining' /\ pc'[Main] \notin InlinePcs
  BY <1>3 DEF Active, Running, Draining, InlinePcs
<1>6. Types'
  <2>1. complete_queue_' \in Nat
    BY <1>1, <1>2
  <2>2. UNCHANGED <<strategy, at, job, call, n, points, task_, num_iterations_, iteration_,
                    complete_, tasks, tasks_running, stop, raced, begun, ended>>
    BY <1>1 DEF caller, locals, counters, ghosts
  <2> QED
    BY <1>2, <1>5, <2>1, <2>2 DEF Types
<1>7. Holders' = Holders
  BY <1>2, <1>3, HoldersMove
<1>8. tasks = <<>> /\ Len(tasks) = 0
  BY <1>1, <1>2 DEF MoodyInv
<1>9. ~raced => Holders = {} /\ complete_queue_' = 0
  <2> SUFFICES ASSUME ~raced
               PROVE  Holders = {} /\ complete_queue_' = 0
    OBVIOUS
  <2>1. /\ complete_ = n /\ complete_queue_ \in {0, 1}
        /\ complete_ + Len(tasks) + Cardinality(Holders) = n
    BY <1>1, <1>2 DEF MoodyInv
  <2>2. Cardinality(Holders) = 0 /\ complete_queue_' = 0
    BY <1>1, <1>2, <1>8, <2>1, HoldersSize
  <2> QED
    BY <2>2, HoldersSize
<1>10. PoolInv'
  <2>1. UNCHANGED <<complete_, tasks, raced>>
    BY <1>1 DEF counters, ghosts
  <2>2. MoodyInv'
    BY <1>1, <1>2, <1>3, <1>5, <1>7, <1>8, <1>9, <2>1 DEF MoodyInv
  <2> QED
    BY <1>1, <2>2 DEF PoolInv
<1>11. Handed >= n
  <2>1. Handed = n - Len(tasks)
    BY <1>1, <1>2 DEF Handed
  <2> QED
    BY <1>2, <1>8, <2>1
<1>12. ~raced => \A u \in Threads : ~Holds(u) /\ ~Holds(u)'
  <2> SUFFICES ASSUME ~raced
               PROVE  \A u \in Threads : ~Holds(u) /\ ~Holds(u)'
    OBVIOUS
  <2>1. \A u \in Threads : pc[u] \notin {"begin", "end", "beginInline", "endInline"}
    BY <1>1, <1>2, <1>9 DEF Holders, Pcs, WorkerPcs
  <2>2. \A u \in Threads : pc'[u] \notin {"begin", "end", "beginInline", "endInline"}
    BY <1>3, <2>1
  <2> QED
    BY <1>1, <2>1, <2>2 DEF Holds
<1> QED
  BY <1>1, <1>2, <1>4, <1>5, <1>6, <1>10, <1>11, <1>12, ReturnStep DEF caller, ghosts

\* A thread takes the first task, or main finds the queue empty.
LEMMA DequeueOK ==
    ASSUME IInv, NEW t \in Threads, Dequeue(t)
    PROVE  StepOK
<1>1. /\ strategy = "moody" /\ pc[t] \in {"drain", "dequeue"} /\ strategy' = strategy
      /\ UNCHANGED <<caller, counters, tasks_running, complete_queue_, stop, ghosts>>
  BY DEF Dequeue, caller
<1>2. /\ Types /\ Pcs /\ MoodyInv /\ pc[Main] # "crashed" /\ Main \in Threads /\ ~Shared
      /\ tasks \in Seq(Nat \X Nat) /\ Len(tasks) \in Nat /\ n \in Nat /\ n <= MaxIterations
      /\ complete_ \in Nat /\ call \in Nat /\ t \notin Holders
      /\ (t = Main => pc[t] = "drain") /\ (t # Main => t \in Pool)
  BY <1>1, MoodyFacts DEF Holders, Pcs, MainPcs, InlinePcs, StopPcs
<1>3. t = Main => Running /\ Active /\ Draining
  BY <1>2 DEF Running, Active, Draining, InlinePcs
<1>4. CASE tasks = <<>>
  <2>1. /\ t = Main /\ pc' = [pc EXCEPT ![Main] = "await"] /\ Len(tasks) = 0
        /\ UNCHANGED <<caller, locals, counters, queues, ghosts>>
    BY <1>1, <1>4 DEF Dequeue, Goto, queues, locals
  <2>2. pc'[Main] = "await" /\ \A u \in Threads : u # Main => pc'[u] = pc[u]
    BY <1>2, <2>1, Moved
  <2>3. Pcs'
    <3>1. Allowed(Main, "await")
      BY <1>1 DEF Allowed, MainPcs
    <3> QED
      BY <1>1, <1>2, <2>1, <3>1, PcsMove
  <2>4. Active' /\ Running' /\ ~Draining' /\ pc'[Main] \notin InlinePcs
    BY <2>2 DEF Active, Running, Draining, InlinePcs
  <2>5. Types'
    BY <1>2, <1>3, <2>1, <2>4 DEF Types, caller, locals, counters, queues, ghosts
  <2>6. Holders' = Holders
    BY <1>2, <2>1, <2>2, HoldersMove
  <2>7. PoolInv'
    <3>1. \A u \in Threads : pc'[u] = "compare" <=> pc[u] = "compare"
      BY <1>2, <2>1, <2>2
    <3>2. UNCHANGED <<call, n, at, job, complete_, tasks, complete_queue_, raced>>
      BY <2>1 DEF caller, locals, counters, queues, ghosts
    <3>3. pc[Main] = "drain"
      BY <1>2, <2>1
    <3>4. MoodyInv'
      BY <1>2, <1>3, <1>4, <2>1, <2>2, <2>4, <2>6, <3>1, <3>2, <3>3 DEF MoodyInv
    <3> QED
      BY <1>1, <3>4 DEF PoolInv
  <2>8. Handed' = Handed
    BY <1>1, <1>3, <2>1, <2>4 DEF Handed, caller, queues
  <2>9. \A u \in Threads : Still(u)
    BY <1>1, <2>1, <2>2 DEF Still, HoldPcs, locals
  <2>10. Once => \A u \in Threads : Keeps(u)
    BY <1>1, <2>1, <2>9, StillKeeps DEF caller
  <2> QED
    BY <1>2, <1>3, <2>1, <2>3, <2>4, <2>5, <2>7, <2>8, <2>10, QuietStep DEF caller, ghosts
<1>5. CASE tasks # <<>>
  <2>1. PICK x, c, i : /\ job' = [job EXCEPT ![t] = c] /\ at' = [at EXCEPT ![t] = i]
                       /\ pc' = [pc EXCEPT ![t] = x] /\ c = Head(tasks)[1] /\ i = Head(tasks)[2]
                       /\ x = IF c = 0 THEN "loop" ELSE "begin"
                       /\ tasks' = Tail(tasks)
    BY <1>5 DEF Dequeue, Goto
  <2>2. CASE pc[Main] \in {"join", "gone"}
    <3>1. /\ Len(tasks) <= NumCpus /\ \A j \in 1 .. Len(tasks) : tasks[j] = <<0, 0>>
          /\ ~Active /\ ~Running /\ ~Draining /\ t \in Pool
      BY <1>2, <1>3, <2>2 DEF MoodyInv, Active, Running, Draining
    <3>2. Len(tasks) >= 1 /\ Head(tasks) = <<0, 0>>
      BY <1>2, <1>5, <3>1
    <3>3. /\ job' = [job EXCEPT ![t] = 0] /\ at' = [at EXCEPT ![t] = 0]
          /\ pc' = [pc EXCEPT ![t] = "loop"]
      <4>1. c = 0 /\ i = 0 /\ x = "loop"
        BY <2>1, <3>2
      <4> QED
        BY <2>1, <4>1
    <3>4. "loop" \in WorkerPcs(strategy)
      BY <1>1 DEF WorkerPcs
    <3>5. /\ Pcs' /\ pc'[t] = "loop" /\ pc'[Main] = pc[Main]
          /\ \A u \in Threads : u # t => pc'[u] = pc[u]
          /\ ~Active' /\ ~Running' /\ ~Draining'
      BY <1>1, <1>2, <3>1, <3>3, <3>4, WorkerMove
    <3>6. /\ tasks' \in Seq(Nat \X Nat) /\ Len(tasks') = Len(tasks) - 1
          /\ \A j \in 1 .. Len(tasks) - 1 : tasks'[j] = tasks[j + 1]
      BY <1>2, <1>5, <2>1, <3>2
    <3>7. Len(tasks') <= NumCpus /\ \A j \in 1 .. Len(tasks') : tasks'[j] = <<0, 0>>
      <4>1. Len(tasks) - 1 \in Nat
        BY <1>2, <3>2
      <4>2. PICK m \in Nat : m = Len(tasks') /\ m = Len(tasks) - 1
        BY <3>6, <4>1
      <4>3. \A j \in 1 .. m : tasks'[j] = <<0, 0>>
        <5> TAKE j \in 1 .. m
        <5>1. j \in 1 .. Len(tasks) - 1 /\ j + 1 \in 1 .. Len(tasks)
          BY <1>2, <4>2
        <5> QED
          BY <3>1, <3>6, <5>1
      <4> QED
        BY <1>2, <3>1, <4>2, <4>3, Sizes
    <3>8. /\ at' \in [Threads -> 0 .. MaxIterations + NumCpus] /\ job' \in [Threads -> 0 .. call]
          /\ \A u \in Threads : u # t => at'[u] = at[u] /\ job'[u] = job[u]
      <4>1. /\ at \in [Threads -> 0 .. MaxIterations + NumCpus] /\ job \in [Threads -> 0 .. call]
            /\ 0 \in 0 .. MaxIterations + NumCpus /\ 0 \in 0 .. call
        BY <1>2, Sizes DEF Types
      <4> QED
        BY <3>3, <4>1
    <3>9. UNCHANGED <<strategy, call, n, points, task_, num_iterations_, iteration_, complete_,
                      tasks_running, complete_queue_, stop, raced, begun, ended>>
      BY <1>1 DEF caller, counters, ghosts
    <3>10. Types'
      BY <1>2, <3>5, <3>6, <3>8, <3>9 DEF Types
    <3>11. Holders' = Holders
      BY <1>2, <3>5, HoldersMove
    <3>12. PoolInv'
      <4>1. MoodyInv'
        BY <1>2, <2>2, <3>1, <3>5, <3>7, <3>9, <3>11 DEF MoodyInv
      <4> QED
        BY <1>1, <4>1 DEF PoolInv
    <3>13. Handed' = Handed
      BY <3>1, <3>5, <3>9 DEF Handed
    <3>14. \A u \in Threads : Still(u)
      BY <1>1, <3>5, <3>8 DEF Still, HoldPcs
    <3>15. Once => \A u \in Threads : Keeps(u)
      BY <1>1, <3>9, <3>14, StillKeeps
    <3> QED
      BY <1>2, <3>1, <3>5, <3>9, <3>10, <3>12, <3>13, <3>15, QuietStep
  <2>3. CASE pc[Main] \notin {"join", "gone"}
    <3>1. Draining /\ Running /\ Active /\ Consecutive(n) /\ call >= 1
      BY <1>2, <1>5, <2>3 DEF MoodyInv, Draining, Running, Types
    <3>2. PICK U \in Nat : U = n
      BY <1>2
    <3>3. /\ Head(tasks)[1] = call /\ Head(tasks)[2] = U - Len(tasks)
          /\ tasks' \in Seq(Nat \X Nat) /\ Len(tasks') = Len(tasks) - 1
          /\ Len(tasks) >= 1 /\ Len(tasks) <= U /\ Len(tasks') <= U
          /\ \A j \in 1 .. Len(tasks') : tasks'[j] = <<call', U - Len(tasks') + j - 1>>
      BY <1>1, <1>2, <1>5, <2>1, <3>1, <3>2, TailConsecutive DEF caller
    <3>4. pc' = [pc EXCEPT ![t] = "begin"]
      <4>1. x = "begin"
        BY <1>2, <2>1, <3>1, <3>3
      <4> QED
        BY <2>1, <4>1
    <3>5. pc'[t] = "begin" /\ \A u \in Threads : u # t => pc'[u] = pc[u]
      BY <1>2, <3>4, Moved
    <3>6. Pcs'
      <4>1. Allowed(t, "begin")
        BY <1>1, <1>2 DEF Allowed, MainPcs, WorkerPcs
      <4> QED
        BY <1>1, <1>2, <3>4, <4>1, PcsMove
    <3>7. /\ Active' /\ Running' /\ Draining' /\ pc'[Main] \notin InlinePcs
          /\ pc'[Main] \notin {"join", "gone"}
      <4>1. CASE t = Main
        BY <3>5, <4>1 DEF Active, Running, Draining, InlinePcs
      <4>2. CASE t # Main
        BY <1>2, <2>3, <3>1, <3>5, <4>2, MainStays DEF Running
      <4> QED
        BY <4>1, <4>2
    <3>8. /\ at' \in [Threads -> 0 .. MaxIterations + NumCpus] /\ job' \in [Threads -> 0 .. call]
          /\ at'[t] = U - Len(tasks) /\ job'[t] = call
          /\ \A u \in Threads : u # t => at'[u] = at[u] /\ job'[u] = job[u]
      <4>1. /\ at \in [Threads -> 0 .. MaxIterations + NumCpus] /\ job \in [Threads -> 0 .. call]
            /\ call \in 0 .. call
        BY <1>2, Sizes DEF Types
      <4>2. U - Len(tasks) \in 0 .. MaxIterations + NumCpus
        BY <1>2, <3>2, <3>3, Sizes
      <4> QED
        BY <2>1, <3>3, <4>1, <4>2
    <3>9. UNCHANGED <<strategy, call, n, points, task_, num_iterations_, iteration_, complete_,
                      tasks_running, complete_queue_, stop, raced, begun, ended>>
      BY <1>1 DEF caller, counters, ghosts
    <3>10. Types'
      BY <1>2, <3>1, <3>3, <3>7, <3>8, <3>9 DEF Types
    <3>11. Cardinality(Holders') = Cardinality(Holders) + 1
      BY <1>2, <3>5, HoldersMove
    <3>12. PoolInv'
      <4>0. Cardinality(Holders) \in Nat
        BY HoldersSize
      <4>1. Len(tasks) + complete_ + Cardinality(Holders) <= MaxIterations + NumCpus
        BY <1>2, <2>3 DEF MoodyInv
      <4>2. /\ Len(tasks') + complete_' + Cardinality(Holders') <= MaxIterations + NumCpus
            /\ complete_' + Cardinality(Holders') <= MaxIterations + NumCpus
        <5>1. complete_' = complete_ /\ Len(tasks') = Len(tasks) - 1
          BY <3>3, <3>9
        <5>2. Len(tasks) \in Nat /\ complete_ \in Nat
          BY <1>2
        <5> QED
          BY <3>11, <4>0, <4>1, <5>1, <5>2, Sizes
      <4>3. Consecutive(n)'
        BY <3>2, <3>3, <3>9 DEF Consecutive
      <4>4. ~raced => /\ complete_queue_ \in {0, 1}
                      /\ complete_ + Len(tasks) + Cardinality(Holders) = n
                      /\ \A u \in Holders : job[u] = call
                      /\ complete_queue_ > 0 => complete_ = n
        BY <1>2, <3>1 DEF MoodyInv
      <4>5. ~raced => /\ complete_queue_ = 0
                      /\ complete_' + Len(tasks') + Cardinality(Holders') = n
        <5>1. complete_' = complete_ /\ Len(tasks') = Len(tasks) - 1 /\ Len(tasks) >= 1
          BY <3>3, <3>9
        <5>2. Len(tasks) \in Nat /\ complete_ \in Nat /\ n \in Nat
          BY <1>2
        <5> QED
          BY <3>11, <4>0, <4>4, <5>1, <5>2
      <4>6. \A u \in Threads : u # t => (u \in Holders' <=> u \in Holders)
        BY <3>5 DEF Holders
      <4>7. ~raced => \A u \in Holders' : job'[u] = call
        <5>1. \A u \in Holders' : u \in Threads
          BY DEF Holders
        <5> QED
          BY <3>8, <4>4, <4>6, <5>1
      <4>8. \A u \in Threads : pc'[u] = "compare" => u # t /\ pc[u] = "compare"
        BY <3>5
      <4>9. ~raced => /\ \A u \in Threads : pc[u] = "compare" /\ job[u] = call => at[u] < complete_
                      /\ \A v, u \in Threads :
                            v # u /\ pc[v] = "compare" /\ job[v] = call
                                  /\ pc[u] = "compare" /\ job[u] = call => at[v] # at[u]
        BY <1>2, <3>1 DEF MoodyInv
      <4>10. ~raced => /\ \A u \in Threads : pc'[u] = "compare" /\ job'[u] = call => at'[u] < complete_
                       /\ \A v, u \in Threads :
                            v # u /\ pc'[v] = "compare" /\ job'[v] = call
                                  /\ pc'[u] = "compare" /\ job'[u] = call => at'[v] # at'[u]
        BY <3>8, <4>8, <4>9
      <4>11. MoodyInv'
        BY <3>7, <3>9, <4>2, <4>3, <4>5, <4>7, <4>10 DEF MoodyInv
      <4> QED
        BY <1>1, <4>11 DEF PoolInv
    <3>13. Handed < n /\ Handed = U - Len(tasks) /\ Handed' = Handed + 1
      <4>1. Handed = n - Len(tasks) /\ Handed' = n' - Len(tasks')
        BY <1>1, <3>1, <3>7 DEF Handed
      <4> QED
        BY <1>2, <3>2, <3>3, <3>9, <4>1
    <3>14. ~Holds(t) /\ Holds(t)' /\ Entered(t)' = 0 /\ OwnJob(t)'
      BY <1>1, <3>5, <3>8, <3>9 DEF Holds, Entered, OwnJob
    <3>15. Once => \A u \in Threads : u # t => Keeps(u)
      <4>1. \A u \in Threads : u # t => Still(u)
        BY <3>5, <3>8 DEF Still
      <4> QED
        BY <1>1, <3>9, <4>1, StillKeeps
    <3> QED
      BY <3>1, <3>6, <3>7, <3>8, <3>9, <3>10, <3>12, <3>13, <3>14, <3>15, HandStep
  <2> QED
    BY <2>2, <2>3
<1> QED
  BY <1>4, <1>5

\* complete_counter.fetch_add(1) counts an iteration that has ended.
LEMMA CountMoodyOK ==
    ASSUME IInv, NEW t \in Threads, CountMoody(t)
    PROVE  StepOK
<1>1. /\ strategy = "moody" /\ pc[t] = "count" /\ strategy' = strategy
      /\ pc' = [pc EXCEPT ![t] = "compare"] /\ at' = [at EXCEPT ![t] = complete_]
      /\ complete_' = complete_ + 1
      /\ UNCHANGED <<caller, job, num_iterations_, iteration_, task_, queues, ghosts>>
  BY DEF CountMoody, Goto, caller
<1>2. /\ Types /\ Pcs /\ MoodyInv /\ pc[Main] # "crashed" /\ Main \in Threads
      /\ Len(tasks) \in Nat /\ n \in Nat /\ complete_ \in Nat /\ t \in Holders
      /\ (t # Main => t \in Pool)
  BY <1>1, MoodyFacts DEF Holders, Pcs
<1>3. pc'[t] = "compare" /\ \A u \in Threads : u # t => pc'[u] = pc[u]
  BY <1>1, <1>2, Moved
<1>4. Pcs'
  <2>1. Allowed(t, "compare")
    BY <1>1, <1>2 DEF Allowed, MainPcs, WorkerPcs
  <2> QED
    BY <1>1, <1>2, <2>1, PcsMove
<1>5. /\ (Active' <=> Active) /\ (Running' <=> Running) /\ (Draining' <=> Draining)
      /\ (pc'[Main] \in InlinePcs <=> pc[Main] \in InlinePcs)
      /\ pc'[Main] = pc[Main] \/ (pc'[Main] = "compare" /\ pc[Main] = "count")
  <2>1. CASE t = Main
    BY <1>1, <1>3, <2>1 DEF Active, Running, Draining, InlinePcs
  <2>2. CASE t # Main
    BY <1>2, <1>3, <2>2, MainStays
  <2> QED
    BY <2>1, <2>2
<1>6. Cardinality(Holders') = Cardinality(Holders) - 1 /\ Cardinality(Holders) \in Nat
  BY <1>2, <1>3, HoldersMove, HoldersSize
<1>7. Cardinality(Holders) >= 1
  <2>1. Holders # {}
    BY <1>2
  <2> QED
    BY <2>1, HoldersSize
<1>8. complete_ + Cardinality(Holders) <= MaxIterations + NumCpus
  BY <1>2 DEF MoodyInv
<1>9. /\ at' \in [Threads -> 0 .. MaxIterations + NumCpus] /\ at'[t] = complete_
      /\ \A u \in Threads : u # t => at'[u] = at[u]
  <2>1. at \in [Threads -> 0 .. MaxIterations + NumCpus]
    BY <1>2 DEF Types
  <2>2. complete_ \in 0 .. MaxIterations + NumCpus
    BY <1>2, <1>6, <1>7, <1>8, Sizes
  <2> QED
    BY <1>1, <2>1, <2>2
<1>10. UNCHANGED <<strategy, job, call, n, points, task_, num_iterations_, iteration_,
                   tasks, tasks_running, complete_queue_, stop, raced, begun, ended>>
  BY <1>1 DEF caller, queues, ghosts
<1>11. Types'
  <2>1. complete_' \in Nat
    BY <1>1, <1>2
  <2> QED
    BY <1>2, <1>5, <1>9, <1>10, <2>1 DEF Types
<1>12. PoolInv'
  <2>1. ~raced => Running
    BY <1>2 DEF MoodyInv
  <2>2. ~raced => /\ complete_queue_ \in {0, 1}
                  /\ complete_ + Len(tasks) + Cardinality(Holders) = n
                  /\ \A u \in Holders : job[u] = call
                  /\ complete_queue_ > 0 => complete_ = n
                  /\ \A u \in Threads : pc[u] = "compare" /\ job[u] = call => at[u] < complete_
                  /\ \A v, u \in Threads :
                         v # u /\ pc[v] = "compare" /\ job[v] = call
                               /\ pc[u] = "compare" /\ job[u] = call => at[v] # at[u]
    BY <1>2, <2>1 DEF MoodyInv
  <2>3. ~raced => complete_queue_ = 0 /\ complete_' + Len(tasks) + Cardinality(Holders') = n
    BY <1>1, <1>2, <1>6, <1>7, <2>2
  <2>4. ~raced => \A u \in Holders' : job[u] = call
    <3>1. \A u \in Holders' : u \in Holders
      BY <1>3 DEF Holders
    <3> QED
      BY <2>2, <3>1
  <2>5. ~raced => \A u \in Threads : pc'[u] = "compare" /\ job[u] = call => at'[u] < complete_'
    <3> SUFFICES ASSUME ~raced, NEW u \in Threads, pc'[u] = "compare", job[u] = call
                 PROVE  at'[u] < complete_'
      OBVIOUS
    <3>1. CASE u = t
      BY <1>1, <1>2, <1>9, <3>1
    <3>2. CASE u # t
      <4>1. at[u] < complete_ /\ at[u] \in Nat /\ at'[u] = at[u]
        BY <1>2, <1>3, <1>9, <2>2, <3>2, HandedInt
      <4> QED
        BY <1>1, <1>2, <4>1
    <3> QED
      BY <3>1, <3>2
  <2>6. ~raced => \A v, u \in Threads :
                      v # u /\ pc'[v] = "compare" /\ job[v] = call
                            /\ pc'[u] = "compare" /\ job[u] = call => at'[v] # at'[u]
    <3> SUFFICES ASSUME ~raced, NEW v \in Threads, NEW u \in Threads, v # u,
                        pc'[v] = "compare", job[v] = call, pc'[u] = "compare", job[u] = call
                 PROVE  at'[v] # at'[u]
      OBVIOUS
    <3>0. at[u] \in Nat /\ at[v] \in Nat
      BY <1>2, HandedInt
    <3>1. CASE u # t /\ v # t
      BY <1>3, <1>9, <2>2, <3>1
    <3>2. CASE u = t
      <4>1. at[v] < complete_ /\ at'[v] = at[v] /\ at'[u] = complete_
        BY <1>3, <1>9, <2>2, <3>2
      <4> QED
        BY <1>2, <3>0, <4>1
    <3>3. CASE v = t
      <4>1. at[u] < complete_ /\ at'[u] = at[u] /\ at'[v] = complete_
        BY <1>3, <1>9, <2>2, <3>3
      <4> QED
        BY <1>2, <3>0, <4>1
    <3> QED
      BY <3>1, <3>2, <3>3
  <2>7. /\ complete_' + Cardinality(Holders') <= MaxIterations + NumCpus
        /\ pc'[Main] \notin {"join", "gone"} =>
               Len(tasks) + complete_' + Cardinality(Holders') <= MaxIterations + NumCpus
    <3>1. pc'[Main] \notin {"join", "gone"} =>
              Len(tasks) + complete_ + Cardinality(Holders) <= MaxIterations + NumCpus
      BY <1>2, <1>5 DEF MoodyInv
    <3> QED
      BY <1>1, <1>2, <1>6, <1>8, <3>1, Sizes
  <2>8. IF pc'[Main] \in {"join", "gone"}
        THEN Len(tasks) <= NumCpus /\ \A j \in 1 .. Len(tasks) : tasks[j] = <<0, 0>>
        ELSE IF Draining' THEN Consecutive(n) ELSE tasks = <<>>
    BY <1>2, <1>5 DEF MoodyInv
  <2>9. Consecutive(n)' <=> Consecutive(n)
    BY <1>10 DEF Consecutive
  <2>10. MoodyInv'
    BY <1>5, <1>10, <2>1, <2>3, <2>4, <2>5, <2>6, <2>7, <2>8, <2>9 DEF MoodyInv
  <2> QED
    BY <1>1, <2>10 DEF PoolInv
<1>13. Handed' = Handed
  BY <1>1, <1>5, <1>10 DEF Handed, InlinePcs
<1>14. Keeps(t)
  BY <1>1, <1>3 DEF Keeps, Holds
<1>15. Once => \A u \in Threads : Keeps(u)
  <2>1. \A u \in Threads : u # t => Still(u)
    BY <1>1, <1>3, <1>9 DEF Still
  <2> QED
    BY <1>1, <1>10, <1>14, <2>1, StillKeeps
<1> QED
  BY <1>2, <1>4, <1>5, <1>10, <1>11, <1>12, <1>13, <1>15, QuietStep

\* The thread that counted the last iteration sends the message of completion.
LEMMA CompareMoodyOK ==
    ASSUME IInv, NEW t \in Threads, CompareMoody(t)
    PROVE  StepOK
<1>1. /\ strategy = "moody" /\ pc[t] = "compare" /\ strategy' = strategy
      /\ pc' = [pc EXCEPT ![t] = IF t = Main THEN "drain" ELSE "loop"]
      /\ at' = [at EXCEPT ![t] = 0] /\ job' = [job EXCEPT ![t] = 0]
      /\ UNCHANGED <<caller, counters, tasks, tasks_running, stop, begun, ended>>
  BY DEF CompareMoody, Goto, caller
<1>2. /\ Types /\ Pcs /\ MoodyInv /\ pc[Main] # "crashed" /\ Main \in Threads
      /\ Len(tasks) \in Nat /\ n \in Nat /\ complete_ \in Nat /\ t \notin Holders
      /\ complete_queue_ \in Nat /\ call \in Nat /\ at[t] \in Nat
      /\ (t # Main => t \in Pool)
  BY <1>1, MoodyFacts, HandedInt DEF Holders, Pcs
<1>3. PICK alive, last :
          /\ alive = (job[t] = call /\ pc[Main] \notin {"idle", "stopNotify", "join", "gone"})
          /\ last \in BOOLEAN /\ (alive => (last <=> at[t] = n - 1))
          /\ complete_queue_' = complete_queue_ + (IF last THEN 1 ELSE 0)
          /\ raced' = (raced \/ ~alive)
  BY DEF CompareMoody
<1>4. PICK x \in {"drain", "loop"} : pc' = [pc EXCEPT ![t] = x] /\ (x = "drain" <=> t = Main)
  BY <1>1
<1>5. pc'[t] = x /\ \A u \in Threads : u # t => pc'[u] = pc[u]
  BY <1>2, <1>4, Moved
<1>6. Pcs'
  <2>1. Allowed(t, x)
    BY <1>1, <1>2, <1>4 DEF Allowed, MainPcs, WorkerPcs
  <2> QED
    BY <1>1, <1>2, <1>4, <2>1, PcsMove
<1>7. /\ (Active' <=> Active) /\ (Running' <=> Running) /\ (Draining' <=> Draining)
      /\ (pc'[Main] \in InlinePcs <=> pc[Main] \in InlinePcs)
      /\ pc'[Main] = pc[Main] \/ (pc'[Main] = "drain" /\ pc[Main] = "compare")
  <2>1. CASE t = Main
    BY <1>1, <1>4, <1>5, <2>1 DEF Active, Running, Draining, InlinePcs
  <2>2. CASE t # Main
    BY <1>2, <1>5, <2>2, MainStays
  <2> QED
    BY <2>1, <2>2
<1>8. /\ at' \in [Threads -> 0 .. MaxIterations + NumCpus] /\ job' \in [Threads -> 0 .. call]
      /\ \A u \in Threads : u # t => at'[u] = at[u] /\ job'[u] = job[u]
  <2>1. /\ at \in [Threads -> 0 .. MaxIterations + NumCpus] /\ job \in [Threads -> 0 .. call]
        /\ 0 \in 0 .. MaxIterations + NumCpus /\ 0 \in 0 .. call
    BY <1>2, Sizes DEF Types
  <2> QED
    BY <1>1, <2>1
<1>9. UNCHANGED <<strategy, call, n, points, task_, num_iterations_, iteration_, complete_,
                  tasks, tasks_running, stop, begun, ended>>
  BY <1>1 DEF caller, counters
<1>10. complete_queue_' \in Nat /\ raced' \in BOOLEAN /\ (raced => raced')
  BY <1>2, <1>3 DEF Types
<1>11. Types'
  BY <1>2, <1>7, <1>8, <1>9, <1>10 DEF Types
<1>12. Holders' = Holders
  BY <1>2, <1>5, HoldersMove
<1>13. ~raced' => ~raced /\ Running /\ job[t] = call /\ (last <=> at[t] = n - 1)
  <2> SUFFICES ASSUME ~raced'
               PROVE  ~raced /\ Running /\ job[t] = call /\ (last <=> at[t] = n - 1)
    OBVIOUS
  <2>1. ~raced /\ alive
    BY <1>3
  <2>2. /\ job[t] = call /\ (last <=> at[t] = n - 1)
        /\ pc[Main] \notin {"idle", "stopNotify", "join", "gone"}
    BY <1>3, <2>1
  <2>3. Active
    BY <1>2, <2>2 DEF Active
  <2>4. Running
    BY <1>1, <1>2, <2>1, <2>2, <2>3 DEF MoodyInv
  <2> QED
    BY <2>1, <2>2, <2>4
<1>14. PoolInv'
  <2>1. ~raced' =>
          /\ complete_queue_ \in {0, 1}
          /\ complete_ + Len(tasks) + Cardinality(Holders) = n
          /\ \A u \in Holders : job[u] = call
          /\ \A u \in Threads : pc[u] = "compare" /\ job[u] = call => at[u] < complete_
          /\ \A v, u \in Threads :
                 v # u /\ pc[v] = "compare" /\ job[v] = call
                       /\ pc[u] = "compare" /\ job[u] = call => at[v] # at[u]
          /\ complete_queue_ > 0 =>
                 /\ complete_ = n
                 /\ \A u \in Threads : pc[u] = "compare" /\ job[u] = call => at[u] # n - 1
    BY <1>2, <1>13 DEF MoodyInv
  <2>2. ~raced' => \A u \in Holders : job'[u] = call
    <3>1. \A u \in Holders : u \in Threads /\ u # t
      BY <1>2 DEF Holders
    <3> QED
      BY <1>8, <2>1, <3>1
  <2>3. \A u \in Threads : pc'[u] = "compare" => u # t /\ pc[u] = "compare"
    BY <1>5
  <2>4. ~raced' =>
          /\ \A u \in Threads : pc'[u] = "compare" /\ job'[u] = call => at'[u] < complete_
          /\ \A v, u \in Threads :
                 v # u /\ pc'[v] = "compare" /\ job'[v] = call
                       /\ pc'[u] = "compare" /\ job'[u] = call => at'[v] # at'[u]
    BY <1>8, <2>1, <2>3
  <2>5. ~raced' => /\ complete_queue_' \in {0, 1}
                   /\ complete_queue_' > 0 =>
                        /\ complete_ = n
                        /\ \A u \in Threads : pc'[u] = "compare" /\ job'[u] = call => at'[u] # n - 1
    <3> SUFFICES ASSUME ~raced'
                 PROVE  /\ complete_queue_' \in {0, 1}
                        /\ complete_queue_' > 0 =>
                             /\ complete_ = n
                             /\ \A u \in Threads :
                                   pc'[u] = "compare" /\ job'[u] = call => at'[u] # n - 1
      OBVIOUS
    <3>1. CASE last
      <4>1. at[t] = n - 1 /\ job[t] = call /\ at[t] < complete_ /\ ~(complete_queue_ > 0)
        BY <1>1, <1>13, <2>1, <3>1
      <4>2. complete_queue_ = 0 /\ complete_queue_' = 1
        BY <1>2, <1>3, <3>1, <4>1
      <4>3. complete_ = n
        BY <1>2, <2>1, <4>1, HoldersSize
      <4>4. \A u \in Threads : pc'[u] = "compare" /\ job'[u] = call => at'[u] # n - 1
        BY <1>1, <1>8, <2>1, <2>3, <4>1
      <4> QED
        BY <4>2, <4>3, <4>4
    <3>2. CASE ~last
      <4>1. complete_queue_' = complete_queue_
        BY <1>2, <1>3, <3>2
      <4> QED
        BY <1>8, <2>1, <2>3, <4>1
    <3> QED
      BY <3>1, <3>2
  <2>6. Consecutive(n)' <=> Consecutive(n)
    BY <1>9 DEF Consecutive
  <2>7. /\ complete_ + Cardinality(Holders) <= MaxIterations + NumCpus
        /\ pc'[Main] \notin {"join", "gone"} =>
               Len(tasks) + complete_ + Cardinality(Holders) <= MaxIterations + NumCpus
        /\ IF pc'[Main] \in {"join", "gone"}
           THEN Len(tasks) <= NumCpus /\ \A j \in 1 .. Len(tasks) : tasks[j] = <<0, 0>>
           ELSE IF Draining' THEN Consecutive(n) ELSE tasks = <<>>
    BY <1>2, <1>7 DEF MoodyInv
  <2>8. MoodyInv'
    BY <1>7, <1>9, <1>12, <1>13, <2>1, <2>2, <2>4, <2>5, <2>6, <2>7 DEF MoodyInv
  <2> QED
    BY <1>1, <2>8 DEF PoolInv
<1>15. Handed' = Handed
  BY <1>1, <1>7, <1>9 DEF Handed, InlinePcs
<1>16. Keeps(t)
  BY <1>1, <1>4, <1>5 DEF Keeps, Holds
<1>17. Once => \A u \in Threads : Keeps(u)
  <2>1. \A u \in Threads : u # t => Still(u)
    BY <1>5, <1>8 DEF Still
  <2> QED
    BY <1>1, <1>9, <1>16, <2>1, StillKeeps
<1> QED
  BY <1>2, <1>6, <1>7, <1>9, <1>10, <1>11, <1>14, <1>15, <1>17, QuietStep

-----------------------------------------------------------------------------
(* The callers and the destructor: steps of main while no pool is at work. *)

OffPcs == {"idle", "start", "publish"} \cup InlinePcs \cup StopPcs

\* No worker holds an iteration while main is outside the pool.
LEMMA OffHolds ==
    ASSUME IInv, ~raced, ~Running
    PROVE  \A u \in Threads : u # Main => ~Holds(u)
<1>1. Pcs /\ PoolInv
  BY DEF IInv
<1>2. strategy \in {"mutex", "atomic", "queued", "moody", "spawning"}
  BY PoolAssumption DEF IInv, Types
<1> SUFFICES ASSUME NEW u \in Threads, u # Main
             PROVE  ~Holds(u)
  OBVIOUS
<1>3. pc[u] \notin {"beginInline", "endInline"}
  BY <1>1 DEF Pcs, WorkerPcs
<1>4. CASE strategy = "mutex"
  <2>1. Holders = {}
    BY <1>4, MutexFacts
  <2> QED
    BY <1>3, <1>4, <2>1 DEF Holds, Holders
<1>5. CASE strategy = "atomic"
  <2>1. Flight = {}
    BY <1>1, <1>5 DEF PoolInv, AtomicInv
  <2> QED
    BY <1>3, <1>5, <2>1 DEF Holds, Flight
<1>6. CASE strategy = "queued"
  <2>1. Holders = {}
    BY <1>1, <1>6 DEF PoolInv, QueuedInv
  <2> QED
    BY <1>3, <1>6, <2>1 DEF Holds, Holders
<1>7. CASE strategy = "moody"
  <2>1. Holders = {}
    BY <1>1, <1>7 DEF PoolInv, MoodyInv
  <2> QED
    BY <1>3, <1>7, <2>1 DEF Holds, Holders
<1>8. CASE strategy = "spawning"
  <2>1. pc[u] = "none"
    BY <1>1, <1>8 DEF PoolInv, SpawnInv, Pcs
  <2> QED
    BY <2>1 DEF Holds
<1> QED
  BY <1>2, <1>4, <1>5, <1>6, <1>7, <1>8

\* Main goes between places outside the pool: the pool's invariant stays.
LEMMA OffStep ==
    ASSUME IInv, strategy' = strategy, pc[Main] \in OffPcs, NEW x \in OffPcs,
           x \in MainPcs(strategy), pc' = [pc EXCEPT ![Main] = x],
           pc[Main] \in {"join", "gone"} <=> x \in {"join", "gone"},
           UNCHANGED <<counters, tasks, tasks_running, complete_queue_, raced>>,
           call' = call \/ call' = call + 1, Active \/ x \in {"idle"} \cup StopPcs \/ call' = call + 1,
           \A u \in Threads : u # Main => at'[u] = at[u] /\ job'[u] = job[u]
    PROVE  /\ PoolInv' /\ Pcs' /\ pc'[Main] = x /\ \A u \in Threads : u # Main => pc'[u] = pc[u]
           /\ ~Running /\ ~Running' /\ (Active <=> pc[Main] \notin {"idle"} \cup StopPcs)
           /\ (Active' <=> x \notin {"idle"} \cup StopPcs) /\ Main \in Threads
<1>1. Types /\ Pcs /\ PoolInv /\ Main \in Threads /\ Allowed(Main, x)
  BY PoolThreads DEF IInv, Allowed
<1>2. pc'[Main] = x /\ \A u \in Threads : u # Main => pc'[u] = pc[u]
  BY <1>1, Moved
<1>3. Pcs'
  BY <1>1, PcsMove
<1>4. /\ ~Running /\ ~Running' /\ (Active <=> pc[Main] \notin {"idle"} \cup StopPcs)
      /\ (Active' <=> x \notin {"idle"} \cup StopPcs) /\ ~Draining /\ ~Draining' /\ ~Resetting'
  BY <1>2 DEF OffPcs, StopPcs, InlinePcs, Running, Active, Draining, Resetting
<1>5. Main \notin Holders /\ x \notin {"begin", "end", "count", "compare"}
      /\ pc[Main] \notin {"begin", "end", "count", "compare"}
  BY DEF Holders, OffPcs, InlinePcs, StopPcs
<1>6. Holders' = Holders
  BY <1>1, <1>2, <1>5, HoldersMove
<1>7. UNCHANGED <<num_iterations_, iteration_, complete_, task_>>
  BY DEF counters
<1>8. Flight' = Flight
  <2>1. \A u \in Threads : u \in Flight' <=> u \in Flight
    BY <1>2, <1>5, <1>7 DEF Flight
  <2> QED
    BY <2>1 DEF Flight
<1>9. Spent' = Spent
  <2>1. Main \in Spent /\ Main \in Spent'
    BY <1>1, <1>2 DEF Spent, OffPcs, InlinePcs, StopPcs
  <2>2. \A u \in Threads : u \in Spent' <=> u \in Spent
    BY <1>2, <2>1 DEF Spent
  <2> QED
    BY <2>2 DEF Spent
<1>10. strategy = "mutex" => MutexInv'
  BY <1>1, <1>4, <1>6, <1>7 DEF PoolInv, MutexInv
<1>11. strategy = "atomic" => AtomicInv'
  <2>1. x # "resetComplete"
    BY DEF OffPcs, InlinePcs, StopPcs
  <2> QED
    BY <1>1, <1>2, <1>4, <1>7, <1>8, <1>9, <2>1 DEF PoolInv, AtomicInv
<1>12. strategy = "queued" => QueuedInv'
  BY <1>1, <1>4, <1>6 DEF PoolInv, QueuedInv
<1>13. strategy = "moody" => MoodyInv'
  <2> SUFFICES ASSUME strategy = "moody"
               PROVE  MoodyInv'
    OBVIOUS
  <2>1. MoodyInv
    BY <1>1 DEF PoolInv
  <2>2. ~raced' /\ Active' => \A u \in Threads : pc'[u] = "compare" => job'[u] # call'
    <3> SUFFICES ASSUME ~raced', Active', NEW u \in Threads, pc'[u] = "compare"
                 PROVE  job'[u] # call'
      OBVIOUS
    <3>1. u # Main /\ pc[u] = "compare" /\ job'[u] = job[u]
      BY <1>2, <1>5
    <3>2. CASE call' = call + 1
      <4>1. job[u] \in 0 .. call /\ call \in Nat
        BY <1>1, Sizes DEF Types
      <4> QED
        BY <3>1, <3>2, <4>1
    <3>3. CASE call' = call /\ Active
      BY <1>4, <2>1, <3>1, <3>3 DEF MoodyInv
    <3>4. call \in Nat
      BY <1>1, Sizes DEF Types
    <3> QED
      BY <1>4, <3>2, <3>3, <3>4
  <2>3. pc[Main] \in {"join", "gone"} <=> pc'[Main] \in {"join", "gone"}
    BY <1>2
  <2>4. UNCHANGED <<complete_, tasks, complete_queue_, raced>>
    BY <1>7
  <2> QED
    BY <1>4, <1>6, <2>1, <2>2, <2>3, <2>4 DEF MoodyInv
<1>14. strategy = "spawning" => SpawnInv'
  <2>1. Pool' = Pool /\ x # "spawn" /\ x # "await"
    BY DEF Pool, OffPcs, InlinePcs, StopPcs
  <2> QED
    BY <1>1, <1>2, <1>4, <2>1, PoolThreads DEF PoolInv, SpawnInv
<1>15. PoolInv'
  BY <1>10, <1>11, <1>12, <1>13, <1>14 DEF PoolInv
<1> QED
  BY <1>1, <1>2, <1>3, <1>4, <1>15

\* A call of parallel_for is a call of ParallelFor.
LEMMA CalledOK ==
    ASSUME IInv, NEW k \in 0 .. MaxIterations, NEW p \in LoopSizes \cup {-1},
           NEW w \in {"start", "publish", "inline"}, w \in MainPcs(strategy),
           w = "inline" => k = 1, Called(k, p, w)
    PROVE  StepOK
<1>1. /\ pc[Main] = "idle" /\ call < MaxCalls /\ call' = call + 1 /\ n' = k /\ points' = p
      /\ pc' = [pc EXCEPT ![Main] = w]
      /\ UNCHANGED <<strategy, locals, counters, queues, ghosts>>
  BY DEF Called, Goto
<1>2. Types /\ Fresh /\ (~raced => Once)
  BY <1>1 DEF IInv
<1>3. /\ PoolInv' /\ Pcs' /\ pc'[Main] = w /\ \A u \in Threads : u # Main => pc'[u] = pc[u]
      /\ ~Running /\ ~Running' /\ ~Active /\ Active' /\ Main \in Threads
  BY <1>1, OffStep DEF OffPcs, StopPcs, InlinePcs, locals, queues, ghosts
<1>4. UNCHANGED <<strategy, at, job, task_, num_iterations_, iteration_, complete_, tasks,
                  tasks_running, complete_queue_, stop, raced, begun, ended>>
  BY <1>1 DEF locals, counters, queues, ghosts
<1>5. Types'
  <2>1. /\ call \in Nat /\ MaxCalls \in Nat /\ job \in [Threads -> 0 .. call] /\ task_ \in 0 .. call
    BY <1>2, Sizes DEF Types
  <2>2. PICK c \in Nat : c = call + 1 /\ c <= MaxCalls /\ c >= 1
    BY <1>1, <2>1
  <2>3. /\ job \in [Threads -> 0 .. c] /\ task_ \in 0 .. c /\ c \in 0 .. MaxCalls
    <3>1. \A i \in 0 .. call : i \in 0 .. c
      BY <2>1, <2>2
    <3> QED
      BY <2>1, <2>2, <3>1
  <2>4. call' = c
    BY <1>1, <2>2
  <2>5. pc'[Main] \in InlinePcs => n' = 1
    BY <1>1, <1>3 DEF InlinePcs
  <2> QED
    BY <1>1, <1>2, <1>4, <2>2, <2>3, <2>4, <2>5 DEF Types
<1>6. ~raced => \A u \in Threads : ~Holds(u)'
  <2> SUFFICES ASSUME ~raced, NEW u \in Threads
               PROVE  ~Holds(u)'
    OBVIOUS
  <2>1. CASE u = Main
    BY <1>3, <2>1 DEF Holds
  <2>2. CASE u # Main
    <3>1. ~Holds(u) /\ pc'[u] = pc[u]
      BY <1>3, <2>2, OffHolds
    <3>2. strategy = "spawning" => pc[u] # "compare"
      <4>1. strategy = "spawning" => pc[u] = "none"
        BY <1>3, <2>2 DEF IInv, PoolInv, SpawnInv, Pcs
      <4> QED
        BY <4>1
    <3> QED
      BY <1>4, <3>1, <3>2 DEF Holds
  <2> QED
    BY <2>1, <2>2
<1>7. Handed' = 0
  BY <1>3 DEF Handed, InlinePcs
<1>8. Fresh'
  BY <1>1, <1>2, <1>4, <1>5, FreshKept
<1>9. ~raced => Once' /\ Promise!Next
  BY <1>1, <1>2, <1>3, <1>4, <1>5, <1>6, <1>7, OnceCall
<1> QED
  BY <1>3, <1>4, <1>5, <1>8, <1>9 DEF StepOK, IInv, Refines

\* A direct call.
LEMMA ParallelForDirectOK ==
    ASSUME IInv, NEW k \in DirectSizes, ParallelForDirect(k)
    PROVE  StepOK
<1>1. k \in 0 .. MaxIterations /\ -1 \in LoopSizes \cup {-1}
  BY PoolAssumption
<1>2. strategy \in {"mutex", "atomic", "queued", "moody", "spawning"}
  BY PoolAssumption DEF IInv, Types
<1>3. PICK w \in {"start", "publish"} : w = Entry /\ w \in MainPcs(strategy)
  BY <1>2 DEF Entry, MainPcs
<1>4. Called(k, -1, w)
  BY <1>3 DEF ParallelForDirect
<1> QED
  BY <1>1, <1>3, <1>4, CalledOK

\* A loop, in chunks or inline.
LEMMA RunLoopInParallelOK ==
    ASSUME IInv, NEW p \in LoopSizes, RunLoopInParallel(p)
    PROVE  StepOK
<1>1. 1 \in 0 .. MaxIterations /\ NumCpus \in 0 .. MaxIterations /\ p \in LoopSizes \cup {-1}
  BY Sizes
<1>2. strategy \in {"mutex", "atomic", "queued", "moody", "spawning"}
  BY PoolAssumption DEF IInv, Types
<1>3. CASE p <= InlineUpTo
  <2>1. Called(1, p, "inline") /\ "inline" \in MainPcs(strategy)
    BY <1>3 DEF RunLoopInParallel, MainPcs, InlinePcs
  <2> QED
    BY <1>1, <2>1, CalledOK
<1>4. CASE ~(p <= InlineUpTo)
  <2>1. PICK w \in {"start", "publish"} : w = Entry /\ w \in MainPcs(strategy)
    BY <1>2 DEF Entry, MainPcs
  <2>2. Called(NumCpus, p, w)
    BY <1>4, <2>1 DEF RunLoopInParallel
  <2> QED
    BY <1>1, <2>1, <2>2, CalledOK
<1> QED
  BY <1>3, <1>4

\* The single block of a small loop is handed to main.
LEMMA InlineOK ==
    ASSUME IInv, Inline
    PROVE  StepOK
<1>1. /\ pc[Main] = "inline" /\ pc' = [pc EXCEPT ![Main] = "beginInline"]
      /\ at' = [at EXCEPT ![Main] = 0] /\ job' = [job EXCEPT ![Main] = call]
      /\ UNCHANGED <<caller, counters, queues, ghosts>>
  BY DEF Inline, Goto
<1>2. Types /\ Main \in Threads /\ n = 1
  BY <1>1, PoolThreads DEF IInv, Types, InlinePcs
<1>3. /\ at' \in [Threads -> 0 .. MaxIterations + NumCpus] /\ job' \in [Threads -> 0 .. call]
      /\ at'[Main] = 0 /\ job'[Main] = call
      /\ \A u \in Threads : u # Main => at'[u] = at[u] /\ job'[u] = job[u]
  <2>1. /\ at \in [Threads -> 0 .. MaxIterations + NumCpus] /\ job \in [Threads -> 0 .. call]
        /\ 0 \in 0 .. MaxIterations + NumCpus /\ call \in 0 .. call
    BY <1>2, Sizes DEF Types
  <2> QED
    BY <1>1, <1>2, <2>1
<1>4. /\ PoolInv' /\ Pcs' /\ pc'[Main] = "beginInline"
      /\ \A u \in Threads : u # Main => pc'[u] = pc[u]
      /\ ~Running /\ ~Running' /\ Active /\ Active'
  <2>1. /\ "beginInline" \in OffPcs /\ "beginInline" \in MainPcs(strategy) /\ pc[Main] \in OffPcs
        /\ "beginInline" \notin {"idle"} \cup StopPcs /\ pc[Main] \notin {"idle"} \cup StopPcs
        /\ pc[Main] \notin {"join", "gone"} /\ "beginInline" \notin {"join", "gone"}
    BY <1>1 DEF OffPcs, StopPcs, InlinePcs, MainPcs
  <2>2. Active
    BY <1>1 DEF Active
  <2>3. /\ strategy' = strategy /\ call' = call
        /\ UNCHANGED <<counters, tasks, tasks_running, complete_queue_, raced>>
    BY <1>1 DEF caller, queues, ghosts
  <2> QED
    BY <1>1, <1>3, <2>1, <2>2, <2>3, OffStep
<1>5. UNCHANGED <<strategy, call, n, points, task_, num_iterations_, iteration_, complete_,
                  tasks, tasks_running, complete_queue_, stop, raced, begun, ended>>
  BY <1>1 DEF caller, counters, queues, ghosts
<1>6. Types'
  BY <1>2, <1>3, <1>4, <1>5 DEF Types
<1>7. Handed = 0 /\ Handed' = 1
  BY <1>1, <1>4 DEF Handed, InlinePcs
<1>8. ~Holds(Main) /\ Holds(Main)' /\ Entered(Main)' = 0 /\ OwnJob(Main)'
  BY <1>1, <1>3, <1>4, <1>5 DEF Holds, Entered, OwnJob
<1>9. Once => \A u \in Threads : u # Main => Keeps(u)
  <2>1. \A u \in Threads : u # Main => Still(u)
    BY <1>3, <1>4 DEF Still
  <2> QED
    BY <1>5, <2>1, StillKeeps
<1>10. Handed < n /\ Handed' = Handed + 1 /\ at'[Main] = Handed
  BY <1>2, <1>3, <1>7
<1> QED
  BY <1>2, <1>4, <1>5, <1>6, <1>8, <1>9, <1>10, HandStep

\* A small loop returns after its block.
LEMMA InlineReturnOK ==
    ASSUME IInv, InlineReturn
    PROVE  StepOK
<1>1. /\ pc[Main] = "inlineDone" /\ pc' = [pc EXCEPT ![Main] = "idle"]
      /\ UNCHANGED <<caller, locals, counters, queues, ghosts>>
  BY DEF InlineReturn, Goto
<1>2. Types /\ Main \in Threads /\ n = 1
  BY <1>1, PoolThreads DEF IInv, Types, InlinePcs
<1>3. /\ PoolInv' /\ Pcs' /\ pc'[Main] = "idle"
      /\ \A u \in Threads : u # Main => pc'[u] = pc[u]
      /\ ~Running /\ ~Running' /\ Active /\ ~Active'
  BY <1>1, OffStep DEF OffPcs, StopPcs, InlinePcs, MainPcs, caller, locals, queues, ghosts
<1>4. UNCHANGED <<strategy, at, job, call, n, points, task_, num_iterations_, iteration_, complete_,
                  tasks, tasks_running, complete_queue_, stop, raced, begun, ended>>
  BY <1>1 DEF caller, locals, counters, queues, ghosts
<1>5. Types'
  BY <1>2, <1>3, <1>4 DEF Types, InlinePcs
<1>6. Handed = 1 /\ Handed >= n
  <2>1. Handed = 1
    BY <1>1, <1>3 DEF Handed, InlinePcs
  <2> QED
    BY <1>2, <2>1
<1>7. ~raced => \A u \in Threads : ~Holds(u) /\ ~Holds(u)'
  <2> SUFFICES ASSUME ~raced, NEW u \in Threads
               PROVE  ~Holds(u) /\ ~Holds(u)'
    OBVIOUS
  <2>1. CASE u = Main
    BY <1>1, <1>3, <2>1 DEF Holds
  <2>2. CASE u # Main
    <3>1. ~Holds(u) /\ pc'[u] = pc[u]
      BY <1>3, <2>2, OffHolds
    <3> QED
      BY <1>4, <3>1 DEF Holds
  <2> QED
    BY <2>1, <2>2
<1> QED
  BY <1>3, <1>4, <1>5, <1>6, <1>7, ReturnStep

\* stop = true.
LEMMA DestroyOK ==
    ASSUME IInv, Destroy
    PROVE  StepOK
<1>1. /\ strategy # "spawning" /\ pc[Main] = "idle" /\ pc' = [pc EXCEPT ![Main] = "stopNotify"]
      /\ stop' = TRUE
      /\ UNCHANGED <<caller, locals, counters, tasks, tasks_running, complete_queue_, ghosts>>
  BY DEF Destroy, Goto
<1>2. Types
  BY DEF IInv
<1>3. /\ PoolInv' /\ Pcs' /\ pc'[Main] = "stopNotify"
      /\ \A u \in Threads : u # Main => pc'[u] = pc[u]
      /\ ~Running /\ ~Running' /\ ~Active /\ ~Active'
  BY <1>1, OffStep DEF OffPcs, StopPcs, InlinePcs, MainPcs, caller, locals, ghosts
<1>4. UNCHANGED <<strategy, at, job, call, n, points, task_, num_iterations_, iteration_, complete_,
                  tasks, tasks_running, complete_queue_, raced, begun, ended>>
  BY <1>1 DEF caller, locals, counters, ghosts
<1>5. Types'
  BY <1>1, <1>2, <1>3, <1>4 DEF Types, InlinePcs
<1>6. Handed' = Handed
  BY <1>3, <1>4 DEF Handed
<1>7. Once => \A u \in Threads : Keeps(u)
  <2>1. \A u \in Threads : Still(u)
    BY <1>1, <1>3, <1>4 DEF Still, HoldPcs
  <2> QED
    BY <1>4, <2>1, StillKeeps
<1> QED
  BY <1>1, <1>3, <1>4, <1>5, <1>6, <1>7, QuietStep

\* The joins of the destructor.
LEMMA DestroyJoinOK ==
    ASSUME IInv, DestroyJoin
    PROVE  StepOK
<1>1. /\ pc[Main] = "join" /\ pc' = [pc EXCEPT ![Main] = "gone"]
      /\ UNCHANGED <<caller, locals, counters, queues, ghosts>>
  BY DEF DestroyJoin, Goto
<1>2. Types /\ strategy # "spawning"
  BY <1>1 DEF IInv, Pcs, MainPcs, InlinePcs
<1>3. /\ PoolInv' /\ Pcs' /\ pc'[Main] = "gone"
      /\ \A u \in Threads : u # Main => pc'[u] = pc[u]
      /\ ~Running /\ ~Running' /\ ~Active /\ ~Active'
  BY <1>1, <1>2, OffStep DEF OffPcs, StopPcs, InlinePcs, MainPcs, caller, locals, queues, ghosts
<1>4. UNCHANGED <<strategy, at, job, call, n, points, task_, num_iterations_, iteration_, complete_,
                  tasks, tasks_running, complete_queue_, stop, raced, begun, ended>>
  BY <1>1 DEF caller, locals, counters, queues, ghosts
<1>5. Types'
  BY <1>2, <1>3, <1>4 DEF Types, InlinePcs
<1>6. Handed' = Handed
  BY <1>3, <1>4 DEF Handed
<1>7. Once => \A u \in Threads : Keeps(u)
  <2>1. \A u \in Threads : Still(u)
    BY <1>1, <1>3, <1>4 DEF Still, HoldPcs
  <2> QED
    BY <1>4, <2>1, StillKeeps
<1> QED
  BY <1>1, <1>3, <1>4, <1>5, <1>6, <1>7, QuietStep

\* The destructor wakes the workers, or queues an empty task for each.
LEMMA DestroyNotifyOK ==
    ASSUME IInv, DestroyNotify
    PROVE  StepOK
<1>1. /\ pc[Main] = "stopNotify" /\ pc' = [Woken(Pool) EXCEPT ![Main] = "join"]
      /\ strategy # "moody" => tasks' = tasks
      /\ UNCHANGED <<caller, locals, counters, tasks_running, complete_queue_, stop, ghosts>>
  BY DEF DestroyNotify
<1>2. /\ Types /\ Pcs /\ PoolInv /\ strategy # "spawning" /\ strategy \in Strategies
      /\ ~Active /\ ~Running /\ ~Draining /\ Main \in Threads
  BY <1>1, PoolThreads
  DEF IInv, Pcs, MainPcs, InlinePcs, Active, Running, Draining, Types
<1>3. /\ Pcs' /\ pc'[Main] = "join" /\ Holders' = Holders
      /\ \A u \in Threads : u # Main =>
             pc'[u] = pc[u] \/ (pc[u] = "asleep" /\ pc'[u] = "wait")
  <2>1. /\ "join" \in MainPcs(strategy)
        /\ pc[Main] \notin HoldPcs \cup {"count"} /\ "join" \notin HoldPcs \cup {"count"}
        /\ strategy' = strategy
    BY <1>1, <1>2 DEF MainPcs, HoldPcs, StopPcs, caller
  <2> HIDE DEF Woken
  <2> QED
    BY <1>1, <1>2, <2>1, WokenMove
<1>4. ~Active' /\ ~Running' /\ ~Draining' /\ ~Resetting' /\ pc'[Main] \notin InlinePcs
  BY <1>3 DEF Active, Running, Draining, Resetting, InlinePcs
<1>5. UNCHANGED <<strategy, at, job, call, n, points, task_, num_iterations_, iteration_, complete_,
                  tasks_running, complete_queue_, stop, raced, begun, ended>>
  BY <1>1 DEF caller, locals, counters, ghosts
<1>6. strategy = "moody" =>
          /\ tasks' \in Seq(Nat \X Nat) /\ Len(tasks') <= NumCpus
          /\ \A j \in 1 .. Len(tasks') : tasks'[j] = <<0, 0>>
  <2> SUFFICES ASSUME strategy = "moody"
               PROVE  /\ tasks' \in Seq(Nat \X Nat) /\ Len(tasks') <= NumCpus
                      /\ \A j \in 1 .. Len(tasks') : tasks'[j] = <<0, 0>>
    OBVIOUS
  <2>1. tasks = <<>>
    BY <1>1, <1>2 DEF PoolInv, MoodyInv
  <2>2. NumCpus - 1 \in Nat
    BY Sizes
  <2>3. PICK m \in Nat : m = NumCpus - 1
    BY <2>2
  <2> DEFINE f(i) == <<0, 0>>
  <2>4. \A i \in 1 .. m : f(i) \in Nat \X Nat
    OBVIOUS
  <2>5. tasks' = <<>> \o [i \in 1 .. m |-> f(i)]
    BY <2>1, <2>3 DEF DestroyNotify
  <2> HIDE DEF f
  <2>6. tasks' \in Seq(Nat \X Nat) /\ Len(tasks') = m /\ \A i \in 1 .. m : tasks'[i] = f(i)
    BY <2>4, <2>5, Filled
  <2>7. \A i \in 1 .. m : tasks'[i] = <<0, 0>>
    BY <2>6 DEF f
  <2>8. m <= NumCpus
    BY <2>3, Sizes
  <2> QED
    BY <2>6, <2>7, <2>8
<1>7. tasks' \in Seq(Nat \X Nat)
  BY <1>1, <1>2, <1>6 DEF Types
<1>8. Types'
  BY <1>2, <1>4, <1>5, <1>7 DEF Types
<1>9. PoolInv'
  <2>1. Flight' = Flight
    BY <1>1, <1>3, <1>5 DEF Flight
  <2>2. Spent' = Spent
    BY <1>1, <1>3, <1>5 DEF Spent
  <2>3. strategy = "mutex" => MutexInv'
    BY <1>2, <1>3, <1>4, <1>5 DEF PoolInv, MutexInv
  <2>4. strategy = "atomic" => AtomicInv'
    BY <1>2, <1>3, <1>4, <1>5, <2>1, <2>2 DEF PoolInv, AtomicInv
  <2>5. strategy = "queued" => QueuedInv'
    BY <1>1, <1>2, <1>3, <1>4, <1>5 DEF PoolInv, QueuedInv
  <2>6. strategy = "moody" => MoodyInv'
    BY <1>2, <1>3, <1>4, <1>5, <1>6 DEF PoolInv, MoodyInv
  <2> QED
    BY <1>2, <1>5, <2>3, <2>4, <2>5, <2>6 DEF PoolInv
<1>10. Handed' = Handed
  BY <1>2, <1>4, <1>5 DEF Handed
<1>11. Once => \A u \in Threads : Keeps(u)
  <2>1. \A u \in Threads : Still(u)
    BY <1>1, <1>3, <1>5 DEF Still, HoldPcs
  <2> QED
    BY <1>5, <2>1, StillKeeps
<1> QED
  BY <1>1, <1>2, <1>3, <1>4, <1>5, <1>8, <1>9, <1>10, <1>11, QuietStep

-----------------------------------------------------------------------------
(* func is entered and returns. *)

\* A thread that holds an iteration enters func or comes back from it.
LEMMA WorkStep ==
    ASSUME IInv, strategy' = strategy, NEW t \in Threads, pc[t] \in {"begin", "end"},
           NEW x, pc' = [pc EXCEPT ![t] = x],
           x = IF pc[t] = "begin" THEN "end" ELSE IF strategy = "spawning" THEN "fetch" ELSE "count",
           UNCHANGED <<call, n, counters, tasks, tasks_running, complete_queue_, raced>>,
           \A u \in Threads : u # t => at'[u] = at[u] /\ job'[u] = job[u],
           strategy = "moody" => job'[t] = job[t]
    PROVE  /\ PoolInv' /\ Pcs' /\ pc'[t] = x /\ \A u \in Threads : u # t => pc'[u] = pc[u]
           /\ (Active' <=> Active) /\ Handed' = Handed /\ pc[Main] # "crashed"
           /\ (pc'[Main] \in InlinePcs <=> pc[Main] \in InlinePcs)
           /\ ~raced => Running /\ Active
<1>1. /\ Types /\ Pcs /\ PoolInv /\ Main \in Threads /\ (t # Main => t \in Pool)
      /\ strategy \in {"mutex", "atomic", "queued", "moody", "spawning"}
  BY PoolThreads, PoolAssumption DEF IInv, Types, Pcs
<1>2. pc'[t] = x /\ \A u \in Threads : u # t => pc'[u] = pc[u]
  BY <1>1, Moved
<1>3. x \in {"end", "count", "fetch"} /\ (x = "fetch" <=> strategy = "spawning" /\ pc[t] = "end")
  OBVIOUS
<1>4. t = Main => strategy # "queued"
  BY <1>1 DEF Pcs, MainPcs, InlinePcs, StopPcs
<1>5. Pcs'
  <2>1. Allowed(t, x)
    BY <1>1, <1>3, <1>4 DEF Allowed, MainPcs, WorkerPcs
  <2> QED
    BY <1>1, <2>1, PcsMove
<1>6. /\ (Active' <=> Active) /\ (Running' <=> Running) /\ (Resetting' <=> Resetting)
      /\ (Draining' <=> Draining) /\ pc[Main] # "crashed"
      /\ (pc'[Main] \in InlinePcs <=> pc[Main] \in InlinePcs)
      /\ pc'[Main] = pc[Main] \/ (pc[Main] \in {"begin", "end"} /\ pc'[Main] \in {"end", "count", "fetch"})
  <2>1. CASE t = Main
    BY <1>2, <1>3, <2>1 DEF Active, Running, Resetting, Draining, InlinePcs
  <2>2. CASE t # Main
    <3>1. pc'[Main] = pc[Main]
      BY <1>1, <1>2, <2>2
    <3>2. pc[Main] = "crashed" => strategy = "spawning"
      BY <1>1 DEF Pcs, MainPcs, InlinePcs, StopPcs
    <3>3. pc[Main] = "crashed" => ~Running
      BY DEF Running, Active
    <3>4. strategy = "spawning" => Running
      BY <1>1, <2>2 DEF PoolInv, SpawnInv
    <3> QED
      BY <3>1, <3>2, <3>3, <3>4, MainStays
  <2> QED
    BY <2>1, <2>2
<1>7. ~raced => Running /\ Active
  <2>1. Holds(t)
    BY DEF Holds
  <2>2. t = Main => Running
    BY DEF Running, Active, InlinePcs
  <2>3. ~raced => Running
    BY <2>1, <2>2, OffHolds
  <2> QED
    BY <2>3 DEF Running
<1>8. UNCHANGED <<num_iterations_, iteration_, complete_, task_>>
  BY DEF counters
<1>9. strategy # "spawning" => Holders' = Holders
  <2>1. t \in Holders
    BY DEF Holders
  <2> QED
    BY <1>1, <1>2, <1>3, <2>1, HoldersMove
<1>10. Spent' = Spent
  BY <1>2, <1>3 DEF Spent
<1>11. strategy = "mutex" => MutexInv'
  BY <1>1, <1>6, <1>8, <1>9 DEF PoolInv, MutexInv
<1>12. strategy = "atomic" => PoolInv'
  <2> SUFFICES ASSUME strategy = "atomic"
               PROVE  PoolInv'
    OBVIOUS
  <2>1. Flight' = Flight
    BY <1>2, <1>3, <1>8 DEF Flight
  <2>2. ~raced => ~Resetting
    <3>1. InIterations(t)
      BY DEF InIterations
    <3>2. t = Main => ~Resetting
      BY DEF Resetting
    <3> QED
      BY <1>1, <3>1, <3>2 DEF PoolInv, AtomicInv
  <2>3. pc'[Main] = "resetComplete" => pc[Main] = "resetComplete"
    BY <1>6
  <2> QED
    BY <1>6, <1>8, <1>10, <2>1, <2>2, <2>3, AtomicKept
<1>13. strategy = "queued" => QueuedInv' /\ Pushed' = Pushed
  <2> SUFFICES ASSUME strategy = "queued"
               PROVE  QueuedInv' /\ Pushed' = Pushed
    OBVIOUS
  <2>1. pc'[Main] = pc[Main] /\ at'[Main] = at[Main]
    BY <1>1, <1>2, <1>4
  <2>2. Pushed' = Pushed
    BY <2>1 DEF Pushed
  <2> QED
    BY <1>1, <1>6, <1>9, <2>2 DEF PoolInv, QueuedInv, Consecutive
<1>14. strategy = "moody" => MoodyInv'
  <2> SUFFICES ASSUME strategy = "moody"
               PROVE  MoodyInv'
    OBVIOUS
  <2>1. MoodyInv /\ (Consecutive(n)' <=> Consecutive(n))
    BY <1>1 DEF PoolInv, Consecutive
  <2>2. \A u \in Threads : job'[u] = job[u]
    OBVIOUS
  <2>3. \A u \in Threads : pc'[u] = "compare" => u # t
    BY <1>2, <1>3
  <2>4. \A u \in Threads : pc'[u] = "compare" => pc[u] = "compare" /\ at'[u] = at[u]
    BY <1>2, <2>3
  <2>5. \A u \in Holders : job'[u] = job[u]
    BY <2>2 DEF Holders
  <2>6. UNCHANGED <<complete_, tasks, complete_queue_, raced>>
    BY <1>8
  <2>7. pc'[Main] \in {"join", "gone"} <=> pc[Main] \in {"join", "gone"}
    BY <1>6
  <2>8. /\ pc'[Main] \notin {"join", "gone"} =>
               Len(tasks) + complete_ + Cardinality(Holders) <= MaxIterations + NumCpus
        /\ complete_ + Cardinality(Holders) <= MaxIterations + NumCpus
        /\ IF pc'[Main] \in {"join", "gone"}
           THEN Len(tasks) <= NumCpus /\ \A j \in 1 .. Len(tasks) : tasks[j] = <<0, 0>>
           ELSE IF Draining' THEN Consecutive(n) ELSE tasks = <<>>
    BY <1>6, <2>1, <2>7 DEF MoodyInv
  <2>9. ~raced =>
           /\ complete_queue_ \in {0, 1}
           /\ complete_ + Len(tasks) + Cardinality(Holders) = n
           /\ \A u \in Holders : job'[u] = call
           /\ \A u \in Threads : pc'[u] = "compare" /\ job'[u] = call => at'[u] < complete_
           /\ \A v, u \in Threads :
                  v # u /\ pc'[v] = "compare" /\ job'[v] = call /\ pc'[u] = "compare" /\ job'[u] = call
                      => at'[v] # at'[u]
           /\ complete_queue_ > 0 =>
                  /\ complete_ = n
                  /\ \A u \in Threads : pc'[u] = "compare" /\ job'[u] = call => at'[u] # n - 1
    BY <1>7, <2>1, <2>2, <2>4, <2>5 DEF MoodyInv
  <2> QED
    BY <1>6, <1>7, <1>9, <2>1, <2>6, <2>8, <2>9 DEF MoodyInv
<1>15. strategy = "spawning" => SpawnInv'
  <2> SUFFICES ASSUME strategy = "spawning"
               PROVE  SpawnInv'
    OBVIOUS
  <2>1. SpawnInv /\ Pool' = Pool
    BY <1>1 DEF PoolInv, Pool
  <2>2. Running
    <3>1. t = Main => Running
      BY DEF Running, Active, InlinePcs
    <3> QED
      BY <1>1, <2>1, <3>1 DEF SpawnInv
  <2>3. \A u \in Threads : pc'[u] = "compare" => at'[u] < iteration_
    <3>1. \A u \in Threads : pc'[u] = "compare" => u # t
      BY <1>2, <1>3
    <3> QED
      BY <1>2, <2>1, <2>2, <3>1 DEF SpawnInv
  <2>4. pc'[Main] = "spawn" => /\ at'[Main] <= NumCpus - 1
                               /\ \A u \in Pool : u > at'[Main] => pc'[u] = "none"
    <3> SUFFICES ASSUME pc'[Main] = "spawn"
                 PROVE  /\ at'[Main] <= NumCpus - 1
                        /\ \A u \in Pool : u > at'[Main] => pc'[u] = "none"
      OBVIOUS
    <3>1. t # Main /\ pc[Main] = "spawn" /\ at'[Main] = at[Main]
      BY <1>1, <1>2, <1>6
    <3>2. at[Main] <= NumCpus - 1 /\ \A u \in Pool : u > at[Main] => pc[u] = "none"
      BY <2>1, <3>1 DEF SpawnInv
    <3> QED
      BY <1>2, <3>1, <3>2, PoolThreads
  <2>5. pc'[Main] = "await" => iteration_ >= n
    BY <1>6, <2>1 DEF SpawnInv
  <2> QED
    BY <1>6, <1>8, <1>10, <2>1, <2>2, <2>3, <2>4, <2>5 DEF SpawnInv
<1>16. PoolInv'
  BY <1>1, <1>11, <1>12, <1>13, <1>14, <1>15 DEF PoolInv
<1>17. Handed' = Handed
  <2>1. CASE t = Main
    <3>1. Running /\ Active
      BY <2>1 DEF Running, Active, InlinePcs
    <3>2. pc[Main] # "resetIteration" /\ pc'[Main] # "resetIteration"
      BY <1>2, <1>3, <2>1
    <3> QED
      BY <1>4, <1>6, <1>8, <2>1, <3>1, <3>2 DEF Handed
  <2>2. CASE t # Main
    <3>1. pc'[Main] = pc[Main]
      BY <1>1, <1>2, <2>2
    <3> QED
      BY <1>6, <1>8, <1>13, <3>1 DEF Handed
  <2> QED
    BY <2>1, <2>2
<1> QED
  BY <1>2, <1>5, <1>6, <1>7, <1>16, <1>17

\* A counter of invocations goes up by one.
LEMMA Bump ==
    ASSUME NEW f \in [Invocations -> Nat], NEW key, NEW g, g = [f EXCEPT ![key] = @ + 1]
    PROVE  g \in [Invocations -> Nat] /\ \A x \in Invocations : x # key => g[x] = f[x]
<1>1. \A x \in Invocations : x # key => g[x] = f[x]
  OBVIOUS
<1>2. \A x \in Invocations : g[x] \in Nat
  <2> SUFFICES ASSUME NEW x \in Invocations
               PROVE  g[x] \in Nat
    OBVIOUS
  <2>1. CASE x = key
    BY <2>1
  <2>2. CASE x # key
    BY <1>1, <2>2
  <2> QED
    BY <2>1, <2>2
<1> QED
  BY <1>1, <1>2

\* The thread that holds an iteration enters it: Begin of ParallelFor.
LEMMA BeginStep ==
    ASSUME IInv, Types', Pcs', PoolInv', UNCHANGED <<call, n, ended, raced>>, Active' <=> Active,
           pc[Main] # "crashed", NEW t \in Threads, NEW c \in 0 .. call,
           begun' = [begun EXCEPT ![<<c, at[t]>>] = @ + 1],
           ~raced /\ Once =>
               /\ Active /\ Handed' = Handed /\ Holds(t) /\ Holds(t)' /\ at'[t] = at[t]
               /\ Entered(t) = 0 /\ Entered(t)' = 1 /\ OwnJob(t)' /\ c = call
               /\ \A u \in Threads : u # t => Keeps(u)
    PROVE  StepOK
<1>0. Types /\ Fresh /\ (~raced => Once)
  BY DEF IInv
<1>1. Types /\ Fresh /\ (~raced => Once) /\ call \in Nat /\ begun \in [Invocations -> Nat]
  <2>1. call \in Nat /\ begun \in [Invocations -> Nat]
    BY <1>0, Sizes DEF Types
  <2> QED
    BY <1>0, <2>1
<1>2. Fresh'
  <2>1. \A x \in Invocations : x # <<c, at[t]>> => begun'[x] = begun[x]
    BY <1>1, Bump
  <2>2. \A x \in Invocations : x[1] > call => x # <<c, at[t]>>
    BY <1>1
  <2> QED
    BY <1>1, <2>1, <2>2, FreshKept
<1>3. ~raced => Once' /\ Promise!Next
  BY <1>1, OnceBegin
<1> QED
  BY <1>2, <1>3 DEF StepOK, IInv, Refines

\* The thread that entered an iteration ends it: End of ParallelFor.
LEMMA EndStep ==
    ASSUME IInv, Types', Pcs', PoolInv', UNCHANGED <<call, n, begun, raced>>, Active' <=> Active,
           pc[Main] # "crashed", NEW t \in Threads, NEW c \in 0 .. call,
           ended' = [ended EXCEPT ![<<c, at[t]>>] = @ + 1],
           ~raced /\ Once =>
               /\ Active /\ Handed' = Handed /\ Holds(t) /\ ~Holds(t)'
               /\ Entered(t) = 1 /\ c = call
               /\ \A u \in Threads : u # t => Keeps(u)
    PROVE  StepOK
<1>0. Types /\ Fresh /\ (~raced => Once)
  BY DEF IInv
<1>1. Types /\ Fresh /\ (~raced => Once) /\ call \in Nat /\ ended \in [Invocations -> Nat]
  <2>1. call \in Nat /\ ended \in [Invocations -> Nat]
    BY <1>0, Sizes DEF Types
  <2> QED
    BY <1>0, <2>1
<1>2. Fresh'
  <2>1. \A x \in Invocations : x # <<c, at[t]>> => ended'[x] = ended[x]
    BY <1>1, Bump
  <2>2. \A x \in Invocations : x[1] > call => x # <<c, at[t]>>
    BY <1>1
  <2> QED
    BY <1>1, <2>1, <2>2, FreshKept
<1>3. ~raced => Once' /\ Promise!Next
  BY <1>1, OnceEnd
<1> QED
  BY <1>2, <1>3 DEF StepOK, IInv, Refines

\* func is entered once for an iteration of the call under way.
LEMMA BeginOK ==
    ASSUME IInv, NEW t \in Threads, Begin(t)
    PROVE  StepOK
<1>1. /\ pc[t] \in {"begin", "beginInline"} /\ strategy' = strategy
      /\ pc' = [pc EXCEPT ![t] = IF pc[t] = "begin" THEN "end" ELSE "endInline"]
      /\ UNCHANGED <<caller, at, counters, queues, ended, raced>>
  BY DEF Begin, Goto, caller
<1>2. Types /\ Pcs /\ PoolInv /\ Main \in Threads /\ (~raced /\ pc[Main] # "crashed" => Once)
  BY PoolThreads DEF IInv
<1>3. PICK c : /\ c = IF Shared /\ pc[t] = "begin" THEN task_ ELSE job[t]
               /\ job' = [job EXCEPT ![t] = c]
               /\ begun' = [begun EXCEPT ![<<c, at[t]>>] = @ + 1]
  BY DEF Begin
<1>4. c \in 0 .. call
  BY <1>2, <1>3 DEF Types
<1>5. /\ job' \in [Threads -> 0 .. call] /\ job'[t] = c
      /\ \A u \in Threads : u # t => job'[u] = job[u]
  <2>1. job \in [Threads -> 0 .. call]
    BY <1>2 DEF Types
  <2> QED
    BY <1>3, <1>4, <2>1
<1>6. begun' \in [Invocations -> Nat]
  <2>1. begun \in [Invocations -> Nat]
    BY <1>2 DEF Types
  <2>2. PICK key : key = <<c, at[t]>>
    OBVIOUS
  <2>3. begun' = [begun EXCEPT ![key] = @ + 1]
    BY <1>3, <2>2
  <2> QED
    BY <2>1, <2>3, Bump
<1>7. UNCHANGED <<strategy, at, call, n, points, task_, num_iterations_, iteration_, complete_,
                  tasks, tasks_running, complete_queue_, stop, raced, ended>>
  BY <1>1 DEF caller, counters, queues
<1>8. CASE pc[t] = "begin"
  <2>1. pc' = [pc EXCEPT ![t] = "end"]
    BY <1>1, <1>8
  <2>2. /\ PoolInv' /\ Pcs' /\ pc'[t] = "end" /\ \A u \in Threads : u # t => pc'[u] = pc[u]
        /\ (Active' <=> Active) /\ Handed' = Handed /\ pc[Main] # "crashed"
        /\ (pc'[Main] \in InlinePcs <=> pc[Main] \in InlinePcs)
        /\ ~raced => Running /\ Active
    <3>1. strategy = "moody" => job'[t] = job[t]
      BY <1>3, <1>5 DEF Shared
    <3> QED
      BY <1>1, <1>5, <1>7, <1>8, <2>1, <3>1, WorkStep
  <2>3. Types'
    BY <1>2, <1>5, <1>6, <1>7, <2>2 DEF Types
  <2>4. ~raced /\ Once => c = call
    <3> SUFFICES ASSUME ~raced, Once
                 PROVE  c = call
      OBVIOUS
    <3>1. CASE ~Shared
      <4>1. OwnJob(t)
        BY <1>8 DEF Once, Holds, Held
      <4> QED
        BY <1>3, <1>8, <3>1, <4>1 DEF OwnJob
    <3>2. CASE Shared
      <4>1. task_ = call
        BY <1>2, <2>2, <3>2 DEF Shared, PoolInv, MutexInv, AtomicInv
      <4> QED
        BY <1>3, <1>8, <3>2, <4>1
    <3> QED
      BY <3>1, <3>2
  <2>5. /\ Holds(t) /\ Holds(t)' /\ Entered(t) = 0 /\ Entered(t)' = 1
        /\ c = call => OwnJob(t)'
    BY <1>5, <1>7, <1>8, <2>2 DEF Holds, Entered, OwnJob
  <2>6. Once => \A u \in Threads : u # t => Keeps(u)
    <3>1. \A u \in Threads : u # t => Still(u)
      BY <1>5, <1>7, <2>2 DEF Still
    <3> QED
      BY <1>7, <3>1, StillKeeps
  <2> QED
    BY <1>3, <1>4, <1>7, <2>2, <2>3, <2>4, <2>5, <2>6, BeginStep
<1>9. CASE pc[t] = "beginInline"
  <2>0. t = Main
    BY <1>2, <1>9 DEF Pcs, WorkerPcs
  <2>1. pc' = [pc EXCEPT ![Main] = "endInline"]
    BY <1>1, <1>9, <2>0
  <2>2. /\ PoolInv' /\ Pcs' /\ pc'[Main] = "endInline"
        /\ \A u \in Threads : u # Main => pc'[u] = pc[u]
        /\ ~Running /\ ~Running' /\ Active /\ Active'
    <3>1. /\ "endInline" \in OffPcs /\ "endInline" \in MainPcs(strategy) /\ pc[Main] \in OffPcs
          /\ "endInline" \notin {"idle"} \cup StopPcs /\ pc[Main] \notin {"idle"} \cup StopPcs
          /\ pc[Main] \notin {"join", "gone"} /\ "endInline" \notin {"join", "gone"}
      BY <1>9, <2>0 DEF OffPcs, StopPcs, InlinePcs, MainPcs
    <3>2. Active
      BY <1>9, <2>0 DEF Active
    <3>3. \A u \in Threads : u # Main => at'[u] = at[u] /\ job'[u] = job[u]
      BY <1>5, <1>7, <2>0
    <3> QED
      BY <1>1, <1>7, <2>1, <3>1, <3>2, <3>3, OffStep
  <2>3. Types'
    BY <1>2, <1>5, <1>6, <1>7, <1>9, <2>0, <2>2 DEF Types, InlinePcs
  <2>4. Handed' = Handed
    BY <1>9, <2>0, <2>2 DEF Handed, InlinePcs
  <2>5. Once => c = call
    <3>1. Once => OwnJob(t)
      BY <1>9 DEF Once, Holds, Held
    <3> QED
      BY <1>3, <1>9, <3>1 DEF OwnJob
  <2>6. /\ Holds(t) /\ Holds(t)' /\ Entered(t) = 0 /\ Entered(t)' = 1
        /\ c = call => OwnJob(t)'
    BY <1>5, <1>7, <1>9, <2>0, <2>2 DEF Holds, Entered, OwnJob
  <2>7. Once => \A u \in Threads : u # t => Keeps(u)
    <3>1. \A u \in Threads : u # t => Still(u)
      BY <1>5, <1>7, <2>0, <2>2 DEF Still
    <3> QED
      BY <1>7, <3>1, StillKeeps
  <2>8. pc[Main] # "crashed"
    BY <1>9, <2>0
  <2> QED
    BY <1>3, <1>4, <1>7, <2>2, <2>3, <2>4, <2>5, <2>6, <2>7, <2>8, BeginStep
<1> QED
  BY <1>1, <1>8, <1>9

\* func returns to the thread that entered it.
LEMMA EndOK ==
    ASSUME IInv, NEW t \in Threads, End(t)
    PROVE  StepOK
<1>1. /\ pc[t] \in {"end", "endInline"} /\ strategy' = strategy
      /\ pc' = [pc EXCEPT ![t] = AfterTask(t)]
      /\ ended' = [ended EXCEPT ![<<job[t], at[t]>>] = @ + 1]
      /\ at' = [at EXCEPT ![t] = 0]
      /\ job' = IF strategy = "moody" THEN job ELSE [job EXCEPT ![t] = 0]
      /\ UNCHANGED <<caller, counters, queues, begun, raced>>
  BY DEF End, Goto, caller
<1>2. Types /\ Pcs /\ Main \in Threads /\ (~raced /\ pc[Main] # "crashed" => Once)
  BY PoolThreads DEF IInv
<1>3. PICK c \in 0 .. call : c = job[t]
  BY <1>2 DEF Types
<1>4. /\ at' \in [Threads -> 0 .. MaxIterations + NumCpus] /\ job' \in [Threads -> 0 .. call]
      /\ \A u \in Threads : u # t => at'[u] = at[u] /\ job'[u] = job[u]
      /\ strategy = "moody" => job'[t] = job[t]
  <2>1. /\ at \in [Threads -> 0 .. MaxIterations + NumCpus] /\ job \in [Threads -> 0 .. call]
        /\ 0 \in 0 .. MaxIterations + NumCpus /\ 0 \in 0 .. call
    BY <1>2, Sizes DEF Types
  <2>2. CASE strategy = "moody"
    BY <1>1, <2>1, <2>2
  <2>3. CASE strategy # "moody"
    BY <1>1, <2>1, <2>3
  <2> QED
    BY <2>2, <2>3
<1>5. ended' \in [Invocations -> Nat]
  <2>1. ended \in [Invocations -> Nat]
    BY <1>2 DEF Types
  <2> QED
    BY <1>1, <2>1, Bump
<1>6. UNCHANGED <<strategy, call, n, points, task_, num_iterations_, iteration_, complete_,
                  tasks, tasks_running, complete_queue_, stop, raced, begun>>
  BY <1>1 DEF caller, counters, queues
<1>7. ended' = [ended EXCEPT ![<<c, at[t]>>] = @ + 1]
  BY <1>1, <1>3
<1>8. Holds(t) /\ Entered(t) = 1
  BY <1>1 DEF Holds, Entered
<1>9. Once => c = call
  <2>1. Once => OwnJob(t)
    BY <1>8 DEF Once, Held
  <2> QED
    BY <1>1, <1>3, <2>1 DEF OwnJob
<1>10. CASE pc[t] = "end"
  <2>1. PICK x : /\ x = (IF strategy = "spawning" THEN "fetch" ELSE "count")
                 /\ pc' = [pc EXCEPT ![t] = x]
    BY <1>1, <1>10 DEF AfterTask
  <2>2. /\ PoolInv' /\ Pcs' /\ pc'[t] = x /\ \A u \in Threads : u # t => pc'[u] = pc[u]
        /\ (Active' <=> Active) /\ Handed' = Handed /\ pc[Main] # "crashed"
        /\ (pc'[Main] \in InlinePcs <=> pc[Main] \in InlinePcs)
        /\ ~raced => Running /\ Active
    <3>1. /\ x = IF pc[t] = "begin" THEN "end" ELSE IF strategy = "spawning" THEN "fetch" ELSE "count"
          /\ pc[t] \in {"begin", "end"}
      BY <1>10, <2>1
    <3> QED
      BY <1>1, <1>4, <1>6, <2>1, <3>1, WorkStep
  <2>3. Types'
    BY <1>2, <1>4, <1>5, <1>6, <2>2 DEF Types
  <2>4. ~Holds(t)'
    BY <2>1, <2>2 DEF Holds
  <2>5. Once => \A u \in Threads : u # t => Keeps(u)
    <3>1. \A u \in Threads : u # t => Still(u)
      BY <1>4, <2>2 DEF Still
    <3> QED
      BY <1>6, <3>1, StillKeeps
  <2> QED
    BY <1>6, <1>7, <1>8, <1>9, <2>2, <2>3, <2>4, <2>5, EndStep
<1>11. CASE pc[t] = "endInline"
  <2>0. t = Main
    BY <1>2, <1>11 DEF Pcs, WorkerPcs
  <2>1. pc' = [pc EXCEPT ![Main] = "inlineDone"]
    <3>1. AfterTask(t) = "inlineDone"
      BY <1>11 DEF AfterTask
    <3> QED
      BY <1>1, <2>0, <3>1
  <2>2. /\ PoolInv' /\ Pcs' /\ pc'[Main] = "inlineDone"
        /\ \A u \in Threads : u # Main => pc'[u] = pc[u]
        /\ ~Running /\ ~Running' /\ Active /\ Active'
    <3>1. /\ "inlineDone" \in OffPcs /\ "inlineDone" \in MainPcs(strategy) /\ pc[Main] \in OffPcs
          /\ "inlineDone" \notin {"idle"} \cup StopPcs /\ pc[Main] \notin {"idle"} \cup StopPcs
          /\ pc[Main] \notin {"join", "gone"} /\ "inlineDone" \notin {"join", "gone"}
      BY <1>11, <2>0 DEF OffPcs, StopPcs, InlinePcs, MainPcs
    <3>2. Active
      BY <1>11, <2>0 DEF Active
    <3>3. \A u \in Threads : u # Main => at'[u] = at[u] /\ job'[u] = job[u]
      BY <1>4, <2>0
    <3> QED
      BY <1>1, <1>6, <2>1, <3>1, <3>2, <3>3, OffStep
  <2>3. Types'
    BY <1>2, <1>4, <1>5, <1>6, <1>11, <2>0, <2>2 DEF Types, InlinePcs
  <2>4. Handed' = Handed
    BY <1>11, <2>0, <2>2 DEF Handed, InlinePcs
  <2>5. ~Holds(t)'
    BY <2>0, <2>2 DEF Holds
  <2>6. Once => \A u \in Threads : u # t => Keeps(u)
    <3>1. \A u \in Threads : u # t => Still(u)
      BY <1>4, <2>0, <2>2 DEF Still
    <3> QED
      BY <1>6, <3>1, StillKeeps
  <2>7. pc[Main] # "crashed"
    BY <1>11, <2>0
  <2> QED
    BY <1>6, <1>7, <1>8, <1>9, <2>2, <2>3, <2>4, <2>5, <2>6, <2>7, EndStep
<1> QED
  BY <1>1, <1>10, <1>11

-----------------------------------------------------------------------------
(* The specification. *)

\* Nothing is called yet.
LEMMA InitOK ==
    ASSUME Init
    PROVE  IInv
<1>1. /\ strategy \in Strategies /\ pc[Main] = "idle" /\ Main \in Threads
      /\ pc = [t \in Threads |-> pc[t]] /\ at = [t \in Threads |-> 0] /\ job = [t \in Threads |-> 0]
      /\ \A t \in Threads : t # Main =>
             pc[t] = IF strategy = "spawning" \/ t \notin Pool THEN "none"
                     ELSE IF strategy = "moody" THEN "loop" ELSE "wait"
      /\ call = 0 /\ n = 0 /\ points = -1 /\ num_iterations_ = 0 /\ iteration_ = 0 /\ complete_ = 0
      /\ task_ = 0 /\ tasks = <<>> /\ tasks_running = 0 /\ complete_queue_ = 0
      /\ stop = FALSE /\ raced = FALSE
      /\ begun = [x \in Invocations |-> 0] /\ ended = [x \in Invocations |-> 0]
  BY PoolThreads DEF Init
<1>2. ~Active /\ ~Running /\ pc[Main] \notin InlinePcs
  BY <1>1 DEF Active, Running, InlinePcs
<1>3. Types
  <2>1. at \in [Threads -> 0 .. MaxIterations + NumCpus] /\ job \in [Threads -> 0 .. call]
    BY <1>1, Sizes
  <2>2. begun \in [Invocations -> Nat] /\ ended \in [Invocations -> Nat]
    BY <1>1
  <2>3. tasks \in Seq(Nat \X Nat)
    BY <1>1
  <2>4. task_ \in 0 .. call /\ call \in 0 .. MaxCalls /\ n \in 0 .. MaxIterations
    BY <1>1, Sizes
  <2>5. num_iterations_ \in 0 .. MaxIterations /\ iteration_ \in Nat /\ complete_ \in Nat
    BY <1>1, Sizes
  <2>6. complete_queue_ \in Nat /\ tasks_running \in Int /\ points \in LoopSizes \cup {-1}
    BY <1>1
  <2>7. stop \in BOOLEAN /\ raced \in BOOLEAN
    BY <1>1
  <2>8. strategy \in Strategies /\ pc[Main] \notin InlinePcs /\ ~Active
    BY <1>1, <1>2
  <2> QED
    BY <2>1, <2>2, <2>3, <2>4, <2>5, <2>6, <2>7, <2>8 DEF Types
<1>4. Pcs
  <2>1. pc[Main] \in MainPcs(strategy)
    BY <1>1 DEF MainPcs
  <2>2. strategy \in {"mutex", "atomic", "queued", "moody", "spawning"}
    BY <1>1, PoolAssumption
  <2>3. \A t \in Pool : pc[t] \in WorkerPcs(strategy)
    <3> SUFFICES ASSUME NEW t \in Pool
                 PROVE  pc[t] \in WorkerPcs(strategy)
      OBVIOUS
    <3>1. pc[t] = IF strategy = "spawning" THEN "none"
                  ELSE IF strategy = "moody" THEN "loop" ELSE "wait"
      BY <1>1, PoolThreads
    <3> QED
      BY <2>2, <3>1 DEF WorkerPcs
  <2>4. \A t \in Threads : t # Main /\ t \notin Pool => pc[t] = "none"
    BY <1>1
  <2> QED
    BY <1>1, <2>1, <2>3, <2>4 DEF Pcs
<1>5. Holders = {}
  BY <1>1 DEF Holders
<1>6. Cardinality(Holders) = 0
  BY <1>5, FS_EmptySet
<1>7. Flight = {} /\ Cardinality(Spent) \in Nat
  <2>1. Flight = {} /\ Spent \in SUBSET Threads
    BY <1>1 DEF Flight, Spent
  <2> QED
    BY <2>1, SubsetSize
<1>8. PoolInv
  <2>1. MutexInv
    BY <1>1, <1>2, <1>6 DEF MutexInv
  <2>2. AtomicInv
    BY <1>1, <1>2, <1>7, Sizes DEF AtomicInv, Resetting
  <2>3. QueuedInv
    BY <1>1, <1>2, <1>5, <1>6 DEF QueuedInv
  <2>4. MoodyInv
    BY <1>1, <1>2, <1>5, <1>6, Sizes DEF MoodyInv, Draining
  <2>5. strategy = "spawning" => SpawnInv
    BY <1>1, <1>2, PoolThreads DEF SpawnInv
  <2> QED
    BY <2>1, <2>2, <2>3, <2>4, <2>5 DEF PoolInv
<1>9. Fresh
  BY <1>1 DEF Fresh
<1>10. Once
  <2>1. \A t \in Threads : ~Holds(t)
    BY <1>1 DEF Holds
  <2> QED
    BY <1>1, <1>2, <2>1 DEF Once
<1> QED
  BY <1>3, <1>4, <1>8, <1>9, <1>10 DEF IInv

\* Every step of a thread keeps the invariant and is a step of ParallelFor.
LEMMA StepHolds ==
    ASSUME IInv, NEW t \in Threads, Step(t)
    PROVE  StepOK
<1>1. CASE WorkerWait(t)
  BY <1>1, MutexWorkerWaitOK, AtomicWorkerWaitOK DEF WorkerWait, Shared
<1>2. CASE Fetch(t)
  BY <1>2, AtomicFetchOK, SpawnFetchOK DEF Fetch
<1>3. CASE Compare(t)
  BY <1>3, AtomicCompareOK, SpawnCompareOK DEF Compare
<1> QED
  BY <1>1, <1>2, <1>3, BeginOK, EndOK, TakeOK, CountOK, CountAtomicOK, TakeTaskOK, CountQueuedOK,
     DequeueOK, CountMoodyOK, CompareMoodyOK, LoopMoodyOK DEF Step

\* ... and every step of main.
LEMMA MainStepHolds ==
    ASSUME IInv, MainStep
    PROVE  StepOK
<1>1. CASE NotifyAll
  BY <1>1, MutexNotifyAllOK, AtomicNotifyAllOK DEF NotifyAll, Shared
<1>2. CASE Await
  BY <1>2, MutexAwaitOK, AtomicAwaitOK DEF Await, Shared
<1> QED
  BY <1>1, <1>2, InlineOK, InlineReturnOK, StartTasksOK, PublishOK, ResetIterationOK,
     ResetCompleteOK, PoolWaitOK, EnqueueOK, NotifyOneOK, StartMoodyOK, AwaitMoodyOK,
     StartSpawningOK, SpawnOK, JoinThreadsOK, DestroyNotifyOK, DestroyJoinOK DEF MainStep

\* ... and every step of the system.
LEMMA NextOK ==
    ASSUME IInv, Next
    PROVE  StepOK
BY StepHolds, MainStepHolds, DestroyOK, ParallelForDirectOK, RunLoopInParallelOK DEF Next

\* Nothing happens.
LEMMA Stutter ==
    ASSUME IInv, UNCHANGED vars
    PROVE  IInv' /\ UNCHANGED (Promise!vars)
<1>1. UNCHANGED <<strategy, pc, at, job, call, n, points, num_iterations_, iteration_, complete_,
                  task_, tasks, tasks_running, complete_queue_, stop, begun, ended, raced>>
  BY DEF vars, caller, locals, counters, queues, ghosts
<1>2. /\ (Active' <=> Active) /\ Holders' = Holders /\ Spent' = Spent /\ Flight' = Flight
      /\ Pushed' = Pushed /\ Pool' = Pool /\ (Shared' <=> Shared)
  BY <1>1 DEF Active, Holders, Spent, Flight, Pushed, Pool, Shared
<1>3. (Running' <=> Running) /\ (Resetting' <=> Resetting)
  BY <1>1, <1>2 DEF Running, Resetting
<1>4. Handed' = Handed /\ (Draining' <=> Draining)
  BY <1>1, <1>2, <1>3 DEF Handed, Draining
<1>5. Types'
  BY <1>1, <1>2 DEF IInv, Types
<1>6. Pcs' /\ Fresh'
  BY <1>1, <1>2 DEF IInv, Pcs, Fresh
<1>7. PoolInv'
  BY <1>1, <1>2, <1>3, <1>4 DEF IInv, PoolInv, MutexInv, AtomicInv, QueuedInv, MoodyInv, SpawnInv,
     Consecutive, InIterations
<1>8. ~raced /\ pc[Main] # "crashed" => Once'
  BY <1>1, <1>2, <1>4 DEF IInv, Once, Holds, Held, OwnJob, Entered
<1>9. UNCHANGED (Promise!vars)
  BY <1>1, <1>2 DEF Promise!vars, Active
<1> QED
  BY <1>1, <1>5, <1>6, <1>7, <1>8, <1>9 DEF IInv

(***************************************************************************)
(* What each strategy's shared state says of the threads (PoolInv), and    *)
(* that an iteration is handed out once and has ended when nobody holds it *)
(* (Once), in every state that no race was reached before.                 *)
(***************************************************************************)
THEOREM PoolsInvariant == Spec => []IInv
<1>1. Init => IInv
  BY InitOK
<1>2. IInv /\ [Next]_vars => IInv'
  BY NextOK, Stutter DEF StepOK
<1> QED
  BY <1>1, <1>2, PTL DEF Spec

(***************************************************************************)
(* Every strategy of parallel_for implements ParallelFor, except where a   *)
(* call returned into a race or spawning threw.                            *)
(***************************************************************************)
THEOREM EveryStrategyImplements == Spec => ImplementsParallelFor
<1>1. Init => Promise!Init
  <2> SUFFICES ASSUME Init
               PROVE  Promise!Init
    OBVIOUS
  <2>1. pc[Main] = "idle"
    BY PoolThreads DEF Init
  <2> QED
    BY <2>1 DEF Init, Promise!Init, Active, Invocations, Promise!Invocations
<1>2. IInv /\ [Next]_vars => [raced' \/ pc'[Main] = "crashed" \/ Promise!Next]_(Promise!vars)
  BY NextOK, Stutter DEF StepOK, Refines
<1> QED
  BY <1>1, <1>2, PoolsInvariant, PTL DEF Spec, ImplementsParallelFor

-----------------------------------------------------------------------------
(* What the calls leave alone. *)

\* State that a strategy does not use, and the iterations that a loop asks for.
Unused ==
    /\ strategy \notin {"queued", "moody"} => tasks = <<>>
    /\ strategy # "queued" => tasks_running = 0
    /\ points >= 0 => n = IF points <= InlineUpTo THEN 1 ELSE NumCpus

\* A loop asks for NumCpus iterations, a small one for its single block.
LEMMA UnusedCalled ==
    ASSUME Unused, NEW k, NEW p \in Int, NEW w, Called(k, p, w),
           p >= 0 => k = IF p <= InlineUpTo THEN 1 ELSE NumCpus
    PROVE  Unused'
BY DEF Unused, Called, queues

\* A step that touches neither the call nor the queue.
LEMMA UnusedKept ==
    ASSUME Unused, UNCHANGED <<caller, tasks, tasks_running>>
    PROVE  Unused'
BY DEF Unused, caller

\* The steps of a thread.
LEMMA UnusedStep ==
    ASSUME Unused, NEW t \in Threads, Step(t)
    PROVE  Unused'
<1>1. CASE TakeTask(t)
  <2>1. strategy = "queued" /\ UNCHANGED caller
    BY <1>1 DEF TakeTask
  <2> QED
    BY <2>1 DEF Unused, caller
<1>2. CASE CountQueued(t)
  <2>1. strategy = "queued" /\ UNCHANGED caller
    BY <1>2 DEF CountQueued
  <2> QED
    BY <2>1 DEF Unused, caller
<1>3. CASE Dequeue(t)
  <2>1. strategy = "moody" /\ UNCHANGED <<caller, tasks_running>>
    BY <1>3 DEF Dequeue
  <2> QED
    BY <2>1 DEF Unused, caller
<1>4. CASE Begin(t) \/ End(t)
  BY <1>4, UnusedKept DEF Begin, End, queues
<1>5. CASE Take(t) \/ Count(t) \/ WorkerWait(t)
  BY <1>5, UnusedKept DEF Take, Count, WorkerWait, queues
<1>6. CASE Fetch(t) \/ Compare(t) \/ CountAtomic(t)
  BY <1>6, UnusedKept DEF Fetch, Compare, CountAtomic, queues
<1>7. CASE CountMoody(t) \/ CompareMoody(t) \/ LoopMoody(t)
  BY <1>7, UnusedKept DEF CountMoody, CompareMoody, LoopMoody, queues
<1> QED
  BY <1>1, <1>2, <1>3, <1>4, <1>5, <1>6, <1>7 DEF Step

\* The steps of main.
LEMMA UnusedMainStep ==
    ASSUME Unused, MainStep
    PROVE  Unused'
<1>1. CASE Enqueue
  <2>1. strategy = "queued" /\ UNCHANGED caller
    BY <1>1 DEF Enqueue
  <2> QED
    BY <2>1 DEF Unused, caller
<1>2. CASE StartMoody
  <2>1. strategy = "moody" /\ UNCHANGED <<caller, tasks_running>>
    BY <1>2 DEF StartMoody
  <2> QED
    BY <2>1 DEF Unused, caller
<1>3. CASE DestroyNotify
  <2>1. UNCHANGED <<caller, tasks_running>> /\ (strategy # "moody" => tasks' = tasks)
    BY <1>3 DEF DestroyNotify
  <2> QED
    BY <2>1 DEF Unused, caller
<1>4. CASE Inline \/ InlineReturn \/ StartTasks \/ NotifyAll \/ Await
  BY <1>4, UnusedKept DEF Inline, InlineReturn, StartTasks, NotifyAll, Await, queues
<1>5. CASE Publish \/ ResetIteration \/ ResetComplete \/ PoolWait \/ NotifyOne
  BY <1>5, UnusedKept DEF Publish, ResetIteration, ResetComplete, PoolWait, NotifyOne, queues
<1>6. CASE AwaitMoody \/ StartSpawning \/ Spawn \/ JoinThreads \/ DestroyJoin
  BY <1>6, UnusedKept DEF AwaitMoody, StartSpawning, Spawn, JoinThreads, DestroyJoin, queues
<1> QED
  BY <1>1, <1>2, <1>3, <1>4, <1>5, <1>6 DEF MainStep

\* What a strategy does not use stays as it was.
LEMMA UnusedInvariant == Spec => []Unused
<1>1. Init => Unused
  BY DEF Init, Unused
<1>2. Unused /\ [Next]_vars => Unused'
  <2> SUFFICES ASSUME Unused, [Next]_vars
               PROVE  Unused'
    OBVIOUS
  <2>1. CASE UNCHANGED vars
    BY <2>1, UnusedKept DEF vars, queues
  <2>2. CASE Destroy
    BY <2>2, UnusedKept DEF Destroy
  <2>3. ASSUME NEW k \in DirectSizes, ParallelForDirect(k)
        PROVE  Unused'
    <3>1. Called(k, -1, Entry) /\ -1 \in Int /\ ~(-1 >= 0)
      BY <2>3 DEF ParallelForDirect
    <3> QED
      BY <3>1, UnusedCalled
  <2>4. ASSUME NEW p \in LoopSizes, RunLoopInParallel(p)
        PROVE  Unused'
    <3>0. p \in Int
      BY Sizes
    <3>1. CASE p <= InlineUpTo
      <4>1. Called(1, p, "inline")
        BY <2>4, <3>1 DEF RunLoopInParallel
      <4> QED
        BY <3>0, <3>1, <4>1, UnusedCalled
    <3>2. CASE ~(p <= InlineUpTo)
      <4>1. Called(NumCpus, p, Entry)
        BY <2>4, <3>2 DEF RunLoopInParallel
      <4> QED
        BY <3>0, <3>2, <4>1, UnusedCalled
    <3> QED
      BY <3>1, <3>2
  <2> QED
    BY <2>1, <2>2, <2>3, <2>4, UnusedStep, UnusedMainStep DEF Next
<1> QED
  BY <1>1, <1>2, PTL DEF Spec

(***************************************************************************)
(* The counters of every pool stay in their bounds and account for the     *)
(* iterations handed out (thread_pool::do_iterations, worker_loop).        *)
(***************************************************************************)
THEOREM CountersAlwaysSound == Spec => []CountersSound
<1>1. IInv /\ Unused => CountersSound
  <2> SUFFICES ASSUME IInv, Unused
               PROVE  CountersSound
    OBVIOUS
  <2>1. Types /\ Pcs /\ PoolInv /\ strategy \in {"mutex", "atomic", "queued", "moody", "spawning"}
    BY PoolAssumption DEF IInv, Types
  <2>2. /\ Holders \in SUBSET Threads /\ Cardinality(Holders) \in Nat
        /\ strategy = "queued" => Cardinality(Holders) <= NumCpus
    <3>1. Holders \in SUBSET Threads /\ (strategy = "queued" => Main \in Threads \ Holders)
      BY <2>1, PoolThreads DEF Holders, Pcs, MainPcs, InlinePcs, StopPcs
    <3> QED
      BY <3>1, SubsetSize
  <2>3. /\ n \in 0 .. MaxIterations /\ call \in 0 .. MaxCalls /\ complete_ \in Nat
        /\ iteration_ \in Nat /\ Len(tasks) \in Nat
    BY <2>1, Sizes DEF Types
  <2>4. Len(tasks) <= MaxIterations + NumCpus
    <3>1. CASE strategy = "queued"
      <4>1. CASE Running
        <5>1. Pushed <= n /\ Len(tasks) <= Pushed
          BY <2>1, <3>1, <4>1 DEF PoolInv, QueuedInv, Consecutive
        <5>2. Pushed \in Int
          BY <2>1, <2>3, PoolThreads, Sizes DEF Pushed, Types
        <5> QED
          BY <2>3, <5>1, <5>2, Sizes
      <4>2. CASE ~Running
        BY <2>1, <3>1, <4>2, Sizes DEF PoolInv, QueuedInv
      <4> QED
        BY <4>1, <4>2
    <3>2. CASE strategy = "moody"
      <4>1. MoodyInv
        BY <2>1, <3>2 DEF PoolInv
      <4>2. CASE pc[Main] \in {"join", "gone"}
        <5>1. Len(tasks) <= NumCpus
          BY <4>1, <4>2 DEF MoodyInv
        <5> QED
          BY <2>3, <5>1, Sizes
      <4>3. CASE pc[Main] \notin {"join", "gone"}
        <5>1. Len(tasks) + complete_ + Cardinality(Holders) <= MaxIterations + NumCpus
          BY <4>1, <4>3 DEF MoodyInv
        <5> QED
          BY <2>2, <2>3, <5>1, Sizes
      <4> QED
        BY <4>2, <4>3
    <3>3. CASE strategy \notin {"queued", "moody"}
      BY <3>3, Sizes DEF Unused
    <3> QED
      BY <3>1, <3>2, <3>3
  <2>5. tasks_running \in 0 .. NumCpus
    <3>1. CASE strategy = "queued"
      BY <2>1, <2>2, <3>1, Sizes DEF PoolInv, QueuedInv
    <3>2. CASE strategy # "queued"
      BY <3>2, Sizes DEF Unused
    <3> QED
      BY <3>1, <3>2
  <2>6. at \in [Threads -> 0 .. 2 * MaxIterations + NumCpus] /\ job \in [Threads -> 0 .. MaxCalls]
    <3>1. at \in [Threads -> 0 .. MaxIterations + NumCpus] /\ job \in [Threads -> 0 .. call]
      BY <2>1 DEF Types
    <3>2. /\ 0 .. MaxIterations + NumCpus \subseteq 0 .. 2 * MaxIterations + NumCpus
          /\ 0 .. call \subseteq 0 .. MaxCalls
      BY <2>3, Sizes
    <3> QED
      BY <3>1, <3>2
  <2>7. TypeOK
    BY <2>1, <2>3, <2>4, <2>5, <2>6, Sizes DEF Types, TypeOK
  <2>8. Accounted
    BY <2>1, <2>2, <2>3 DEF Accounted, PoolInv, MutexInv, QueuedInv
  <2> QED
    BY <2>7, <2>8 DEF CountersSound
<1> QED
  BY <1>1, PoolsInvariant, UnusedInvariant, PTL

-----------------------------------------------------------------------------
(* The chunks of run_loop_in_parallel. *)

\* Quotient and remainder.
LEMMA DivMod ==
    ASSUME NEW a \in Nat, NEW b \in Nat, b > 0
    PROVE  \E q \in Nat, m \in Nat :
               q = a \div b /\ m = a % b /\ m < b /\ a = b * q + m
<1>1. PICK q \in Nat : q = a \div b
  OBVIOUS
<1>2. PICK m \in Nat : m = a % b /\ m < b
  OBVIOUS
<1>3. a % b = a - b * (a \div b)
  OBVIOUS
<1>4. m = a - b * q
  BY <1>1, <1>2, <1>3
<1>5. b * q \in Nat
  OBVIOUS
<1>6. a = b * q + m
  BY <1>4, <1>5
<1> QED
  BY <1>1, <1>2, <1>6

\* Multiplication keeps the order.
LEMMA TimesMonotone ==
    ASSUME NEW a \in Nat, NEW x \in Nat, NEW y \in Nat, x <= y
    PROVE  a * x \in Nat /\ a * y \in Nat /\ a * x <= a * y
OBVIOUS

\* The chunks of the rounded-up size reach the last point.
LEMMA ChunksReach ==
    ASSUME NEW p \in Nat, p > 0
    PROVE  ChunkSize(p) \in Nat /\ ChunkSize(p) > 0 /\ ChunkSize(p) * NumCpus >= p
<1>1. NumCpus \in Nat /\ NumCpus > 0
  BY Sizes
<1>2. PICK q \in Nat, m \in Nat :
          q = p \div NumCpus /\ m = p % NumCpus /\ m < NumCpus /\ p = NumCpus * q + m
  BY <1>1, DivMod
<1>3. CASE m = 0
  <2>1. ChunkSize(p) = q
    BY <1>2, <1>3 DEF ChunkSize
  <2>2. q > 0
    BY <1>1, <1>2, <1>3
  <2>3. NumCpus * q = q * NumCpus
    BY <1>1
  <2> QED
    BY <1>1, <1>2, <1>3, <2>1, <2>2, <2>3
<1>4. CASE m # 0
  <2>1. ChunkSize(p) = q + 1
    BY <1>2, <1>4 DEF ChunkSize
  <2>2. (q + 1) * NumCpus = NumCpus * q + NumCpus
    BY <1>1
  <2>3. NumCpus * q \in Nat
    BY <1>1
  <2> QED
    BY <1>1, <1>2, <2>1, <2>2, <2>3
<1> QED
  BY <1>3, <1>4

\* A point is in one chunk.
LEMMA OneChunk ==
    ASSUME NEW p \in Nat, NEW x \in 0 .. p - 1
    PROVE  \E i \in 0 .. NumCpus - 1 :
               x \in Chunk(p, i) /\ \A j \in (0 .. NumCpus - 1) \ {i} : x \notin Chunk(p, j)
<1>1. NumCpus \in Nat /\ NumCpus > 0 /\ x \in Nat /\ x < p /\ p > 0
  BY Sizes
<1>2. PICK s \in Nat : s = ChunkSize(p) /\ s > 0 /\ s * NumCpus >= p
  BY <1>1, ChunksReach
<1>3. PICK i \in Nat, r \in Nat : i = x \div s /\ r = x % s /\ r < s /\ x = s * i + r
  BY <1>1, <1>2, DivMod
<1>4. s * i \in Nat /\ s * NumCpus \in Nat
  BY <1>1, <1>2
<1>5. i < NumCpus
  <2> SUFFICES ASSUME NumCpus <= i
               PROVE  FALSE
    BY <1>1
  <2>1. s * NumCpus <= s * i
    BY <1>1, TimesMonotone
  <2> QED
    BY <1>1, <1>2, <1>3, <1>4, <2>1
<1>6. x \in Chunk(p, i)
  <2>1. ~(s * i > p) /\ x \in s * i .. s * i + (IF p - s * i < s THEN p - s * i ELSE s) - 1
    BY <1>1, <1>3, <1>4
  <2> QED
    BY <1>2, <2>1 DEF Chunk
<1>7. ASSUME NEW j \in Nat, j # i, x \in Chunk(p, j)
      PROVE  FALSE
  <2>1. s * j \in Nat
    OBVIOUS
  <2>2. s * j <= x /\ x <= s * j + s - 1
    <3>1. PICK y \in Nat : y = s * j
      BY <2>1
    <3>2. ~(y > p) /\ x \in y .. y + (IF p - y < s THEN p - y ELSE s) - 1
      BY <1>2, <1>7, <3>1 DEF Chunk
    <3> QED
      BY <1>1, <3>1, <3>2
  <2>3. CASE j < i
    <3>1. s * (j + 1) <= s * i
      BY <2>3, TimesMonotone
    <3>2. s * (j + 1) = s * j + s
      OBVIOUS
    <3> QED
      BY <1>3, <1>4, <2>1, <2>2, <3>1, <3>2
  <2>4. CASE i < j
    <3>1. s * (i + 1) <= s * j
      BY <2>4, TimesMonotone
    <3>2. s * (i + 1) = s * i + s
      OBVIOUS
    <3> QED
      BY <1>3, <1>4, <2>1, <2>2, <3>1, <3>2
  <2> QED
    BY <1>7, <2>3, <2>4
<1>8. i \in 0 .. NumCpus - 1
  BY <1>1, <1>5
<1>9. \A j \in (0 .. NumCpus - 1) \ {i} : x \notin Chunk(p, j)
  BY <1>1, <1>7
<1> QED
  BY <1>6, <1>8, <1>9

\* When a call has returned without a race, all its iterations have ended.
LEMMA AllEnded ==
    ASSUME IInv, pc[Main] = "idle", call > 0, ~raced
    PROVE  \A i \in 0 .. n - 1 : ended[<<call, i>>] = 1
<1>1. Once /\ Types /\ ~Active
  BY DEF IInv, Active
<1>2. \A t \in Threads : ~Holds(t)
  BY <1>1 DEF Once, Held
<1>3. Handed = n /\ n \in Nat
  BY <1>1, Sizes DEF Handed, Types
<1> QED
  BY <1>1, <1>2, <1>3 DEF Once

(***************************************************************************)
(* run_loop_in_parallel hands every point of the loop to func exactly      *)
(* once, whatever the number of points and of cpus.                        *)
(***************************************************************************)
THEOREM EveryPointOnce == Spec => []PointsOnce
<1>1. IInv /\ Unused => PointsOnce
  <2> SUFFICES ASSUME IInv, Unused, pc[Main] = "idle", call > 0, points >= 0, ~raced,
                      NEW p \in 0 .. points - 1
               PROVE  \E i \in 0 .. n - 1 :
                          /\ p \in Handled(points, i) /\ ended[<<call, i>>] = 1
                          /\ \A j \in (0 .. n - 1) \ {i} : p \notin Handled(points, j)
    BY DEF PointsOnce
  <2>1. points \in Nat
    BY Sizes DEF IInv, Types
  <2>2. \A i \in 0 .. n - 1 : ended[<<call, i>>] = 1
    BY AllEnded
  <2>3. CASE points <= InlineUpTo
    <3>1. n = 1 /\ 0 \in 0 .. n - 1 /\ (0 .. n - 1) \ {0} = {}
      BY <2>1, <2>3 DEF Unused
    <3>2. p \in Handled(points, 0)
      BY <2>3 DEF Handled
    <3> QED
      BY <2>2, <3>1, <3>2
  <2>4. CASE ~(points <= InlineUpTo)
    <3>1. n = NumCpus /\ \A i : Handled(points, i) = Chunk(points, i)
      BY <2>1, <2>4 DEF Unused, Handled
    <3>2. PICK i \in 0 .. n - 1 :
              p \in Chunk(points, i) /\ \A j \in (0 .. n - 1) \ {i} : p \notin Chunk(points, j)
      BY <2>1, <3>1, OneChunk
    <3> QED
      BY <2>2, <3>1, <3>2
  <2> QED
    BY <2>3, <2>4
<1> QED
  BY <1>1, PoolsInvariant, UnusedInvariant, PTL

=============================================================================
