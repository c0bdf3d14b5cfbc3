------------------------ MODULE BlockDownloaderProofs ------------------------
(***************************************************************************)
(* Proofs about BlockDownloader, for every number of callers and blocks    *)
(* and every size of the queue and of a batch: the client handles every    *)
(* block once and in order, and the semaphore bounds the queue exactly.    *)
(***************************************************************************)
EXTENDS BlockDownloader, SequenceTheorems, TLAPS

\* A batch: its first and its last block.
Batches == Nat \X Nat

\* The shape of the state that the argument is about.
Types ==
    /\ source \in Nat
    /\ from \in Nat
    /\ jobs \in Seq(Owners)
    /\ active \in SUBSET Owners
    /\ batch \in [Owners -> Batches \cup {<<>>}]
    /\ tokens \in Int
    /\ queue \in Seq(Batches)
    /\ synced \in Nat
    /\ handling \in Batches \cup {<<>>}

\* SerialQueue: at most one job is active, and exactly while the loop is busy.
OneJob ==
    IF runner = "busy" THEN \E o \in Owners : active = {o} ELSE active = {}

\* A batch that waits for a token is the active job's and begins at "from".
BatchFromHere ==
    \A o \in Owners : batch[o] # <<>> =>
        o \in active /\ batch[o][1] = from /\ batch[o][2] >= from

\* The last block that the client has, or is about to have, handled.
Reached == IF client = "handling" THEN handling[2] ELSE synced

\* What the client handles continues what it has handled, the queue continues
\* that, and the next download continues the queue.
Continues ==
    /\ client = "handling" => handling # <<>> /\ handling[1] = synced + 1
    /\ \A n \in 1..Len(queue) :
           queue[n][1] = (IF n = 1 THEN Reached ELSE queue[n - 1][2]) + 1
    /\ ~ queueEnded =>
           from = (IF queue = <<>> THEN Reached ELSE queue[Len(queue)][2]) + 1

\* The client waits only on an empty queue, and a queue that has ended is
\* empty and gets no batch any more.
QueueEnds ==
    /\ client = "waiting" => queue = <<>>
    /\ queueEnded => queue = <<>> /\ runner = "ended" /\ stop # "no"

(* The inductive invariant.  BlocksInOrder is not inductive: that a batch    *)
(* about to be enqueued continues the queue rests on there being one job at  *)
(* a time (OneJob), on "from" having stayed where the job read it            *)
(* (BatchFromHere), and, when the batch goes past the queue to a waiting     *)
(* client, on the queue being empty (QueueEnds).                             *)
IInv == Types /\ OneJob /\ BatchFromHere /\ Continues /\ QueueEnds /\ QueueBounded

-----------------------------------------------------------------------------

(* The downloader before its first request satisfies the invariant. *)
LEMMA InitInv == Init => IInv
<1> SUFFICES ASSUME Init PROVE IInv
  OBVIOUS
<1>1. Types
  BY EmptySeq, DownloaderAssumption DEF Init, Types
<1>2. OneJob /\ BatchFromHere /\ Continues /\ QueueEnds
  BY DEF Init, OneJob, BatchFromHere, Continues, QueueEnds, Reached
<1>3. QueueBounded
  BY DownloaderAssumption DEF Init, QueueBounded
<1> QED
  BY <1>1, <1>2, <1>3 DEF IInv

(* A step that leaves the queue, the client and "from" alone keeps their     *)
(* part of the invariant, if it does not revive a queue that has ended.      *)
LEMMA QueueFrame ==
    ASSUME IInv, UNCHANGED from, UNCHANGED queueVars, UNCHANGED clientVars,
           queueEnded => runner' = "ended" /\ stop' # "no"
    PROVE  Continues' /\ QueueEnds' /\ QueueBounded'
<1>1. /\ from' = from /\ tokens' = tokens /\ queue' = queue /\ queueEnded' = queueEnded
      /\ client' = client /\ handling' = handling /\ synced' = synced
  BY DEF queueVars, clientVars
<1>2. Continues'
  BY <1>1 DEF IInv, Continues, Reached
<1>3. QueueEnds' /\ QueueBounded'
  BY <1>1 DEF IInv, QueueEnds, QueueBounded
<1> QED
  BY <1>2, <1>3

(* A step that leaves the jobs and "from" alone keeps theirs. *)
LEMMA JobFrame ==
    ASSUME IInv, UNCHANGED jobVars, UNCHANGED from
    PROVE  OneJob' /\ BatchFromHere'
<1>1. /\ from' = from /\ jobs' = jobs /\ active' = active /\ runner' = runner
      /\ batch' = batch
  BY DEF jobVars
<1> QED
  BY <1>1 DEF IInv, OneJob, BatchFromHere

(* The steps that touch neither the jobs nor the queue, those of the client's *)
(* own job queue among them.                                                 *)
LEMMA OutsideInv ==
    ASSUME IInv,
           \/ NewBlock \/ Wake \/ BlockProcess \/ NextSync \/ SyncPointDone
           \/ StopSyncQueue \/ StopReturns
           \/ \E c \in Callers : SyncImmediate(c) \/ SyncReturns(c) \/ Collect(c)
    PROVE  IInv'
<1>1. /\ UNCHANGED from /\ UNCHANGED jobVars /\ UNCHANGED queueVars /\ UNCHANGED clientVars
      /\ runner' = runner
      /\ stop # "no" => stop' # "no"
      /\ source' = source \/ source' = source + 1
  BY DEF NewBlock, Wake, BlockProcess, NextSync, SyncPointDone, StopSyncQueue, StopReturns,
     SyncImmediate, SyncReturns, Collect, jobVars
<1>2. Types'
  BY <1>1 DEF IInv, Types, jobVars, queueVars, clientVars
<1>3. queueEnded => runner' = "ended" /\ stop' # "no"
  BY <1>1 DEF IInv, QueueEnds
<1> QED
  BY <1>1, <1>2, <1>3, QueueFrame, JobFrame DEF IInv

(* Putting a job keeps one job at a time. *)
LEMMA PutJobInv ==
    ASSUME IInv, NEW o \in Owners, PutJob(o), UNCHANGED batch, UNCHANGED from
    PROVE  /\ jobs' \in Seq(Owners) /\ active' \in SUBSET Owners
           /\ OneJob' /\ BatchFromHere'
           /\ runner = "ended" => runner' = "ended"
<1>1. Types /\ OneJob /\ BatchFromHere
  BY DEF IInv
<1>2. CASE runner = "waiting"
  <2>1. runner' = "busy" /\ active = {} /\ active' = active \cup {o} /\ jobs' = jobs
    BY <1>1, <1>2 DEF PutJob, OneJob
  <2>2. active' = {o}
    BY <2>1
  <2> QED
    BY <1>1, <1>2, <2>1, <2>2 DEF Types, OneJob, BatchFromHere
<1>3. CASE runner # "waiting"
  <2>1. runner' = runner /\ active' = active /\ jobs' = Append(jobs, o)
    BY <1>3 DEF PutJob
  <2>2. jobs' \in Seq(Owners)
    BY <1>1, <2>1, AppendProperties DEF Types
  <2> QED
    BY <1>1, <2>1, <2>2 DEF Types, OneJob, BatchFromHere
<1> QED
  BY <1>2, <1>3

(* The poll loop and the callers of pollImmediate keep the invariant. *)
LEMMA PollInv ==
    ASSUME IInv, Poll \/ \E c \in Callers : PollImmediate(c)
    PROVE  IInv'
<1>1. /\ UNCHANGED <<source, from, batch, stop>> /\ UNCHANGED queueVars
      /\ UNCHANGED clientVars
  BY DEF Poll, PollImmediate
<1>2. (\E o \in Owners : PutJob(o)) \/ UNCHANGED <<runner, active, jobs>>
  BY DEF Poll, PollImmediate, Owners
<1>3. /\ jobs' \in Seq(Owners) /\ active' \in SUBSET Owners
      /\ OneJob' /\ BatchFromHere'
      /\ runner = "ended" => runner' = "ended"
  <2>1. CASE \E o \in Owners : PutJob(o)
    BY <1>1, <2>1, PutJobInv
  <2>2. CASE UNCHANGED <<runner, active, jobs>>
    BY <1>1, <2>2 DEF IInv, Types, OneJob, BatchFromHere
  <2> QED
    BY <1>2, <2>1, <2>2
<1>4. Types'
  BY <1>1, <1>3 DEF IInv, Types, queueVars, clientVars
<1>5. queueEnded => runner' = "ended" /\ stop' # "no"
  BY <1>1, <1>3 DEF IInv, QueueEnds
<1> QED
  BY <1>1, <1>3, <1>4, <1>5, QueueFrame DEF IInv

(* The loop of the job queue keeps it: it takes a job when none is active. *)
LEMMA NextJobInv ==
    ASSUME IInv, NextJob
    PROVE  IInv'
<1>1. /\ UNCHANGED <<source, from, batch, stop>> /\ UNCHANGED queueVars
      /\ UNCHANGED clientVars /\ runner = "ready"
  BY DEF NextJob, RunsNext
<1>2. Types /\ active = {} /\ BatchFromHere
  BY <1>1 DEF IInv, OneJob
<1>3. \A o \in Owners : batch[o] = <<>>
  BY <1>2 DEF BatchFromHere
<1>4. jobs' \in Seq(Owners) /\ active' \in SUBSET Owners /\ OneJob'
  <2>1. CASE jobs # <<>>
    <3>1. Head(jobs) \in Owners /\ Tail(jobs) \in Seq(Owners)
      BY <1>2, <2>1, HeadTailProperties DEF Types
    <3>2. runner' = "busy" /\ active' = {Head(jobs)} /\ jobs' = Tail(jobs)
      BY <1>2, <2>1 DEF NextJob
    <3> QED
      BY <3>1, <3>2 DEF OneJob
  <2>2. CASE jobs = <<>>
    <3>1. runner' # "busy" /\ active' = active /\ jobs' = jobs
      BY <2>2 DEF NextJob
    <3> QED
      BY <1>2, <3>1 DEF OneJob, Types
  <2> QED
    BY <2>1, <2>2
<1>5. BatchFromHere'
  BY <1>1, <1>3 DEF BatchFromHere
<1>6. Types'
  BY <1>1, <1>2, <1>4 DEF Types, queueVars, clientVars
<1>7. queueEnded => runner' = "ended" /\ stop' # "no"
  BY <1>1 DEF IInv, QueueEnds
<1> QED
  BY <1>1, <1>4, <1>5, <1>6, <1>7, QueueFrame DEF IInv

(* The end of the active job keeps it. *)
LEMMA JobEndInv ==
    ASSUME IInv, NEW o \in Owners, o \in active, batch[o] = <<>>,
           UNCHANGED <<source, from, jobs, batch, stop>>, UNCHANGED queueVars,
           UNCHANGED clientVars, active' = active \ {o}, runner' = "ready"
    PROVE  IInv'
<1>1. Types /\ BatchFromHere /\ runner = "busy" /\ active = {o}
  BY DEF IInv, OneJob
<1>2. active' = {}
  BY <1>1
<1>3. Types' /\ OneJob'
  BY <1>1, <1>2 DEF Types, OneJob, queueVars, clientVars
<1>4. BatchFromHere'
  BY <1>1 DEF BatchFromHere
<1>5. queueEnded => runner' = "ended" /\ stop' # "no"
  BY <1>1 DEF IInv, QueueEnds
<1> QED
  BY <1>3, <1>4, <1>5, QueueFrame DEF IInv

(* A request that fails ends the job. *)
LEMMA FetchFailsInv ==
    ASSUME IInv, NEW o \in Owners, FetchFails(o)
    PROVE  IInv'
BY JobEndInv DEF FetchFails

(* collectBlocks up to its answer keeps it: the batch begins where the next  *)
(* one has to.                                                               *)
LEMMA FetchInv ==
    ASSUME IInv, NEW o \in Owners, Fetch(o)
    PROVE  IInv'
<1>1. /\ UNCHANGED <<source, from, jobs, stop>> /\ UNCHANGED queueVars
      /\ UNCHANGED clientVars /\ o \in active /\ batch[o] = <<>>
  BY DEF Fetch
<1>2. Types /\ BatchFromHere /\ runner = "busy" /\ active = {o}
  BY <1>1 DEF IInv, OneJob
<1>3. CASE from <= Newest
  <2> DEFINE last == Min({Newest, from + BatchSize - 1})
  <2>1. batch' = [batch EXCEPT ![o] = <<from, last>>] /\ active' = active /\ runner' = runner
    BY <1>3 DEF Fetch
  <2>2. last \in Nat /\ last >= from
    <3>1. Newest \in Nat /\ from + BatchSize - 1 \in Nat /\ from + BatchSize - 1 >= from
      BY <1>2, DownloaderAssumption DEF Types, Newest
    <3>2. \E x \in {Newest, from + BatchSize - 1} : \A y \in {Newest, from + BatchSize - 1} : x <= y
      BY <3>1
    <3>3. last \in {Newest, from + BatchSize - 1}
      BY <3>2 DEF Min
    <3> QED
      BY <1>3, <3>1, <3>3
  <2> HIDE DEF last
  <2>3. <<from, last>> \in Batches
    BY <1>2, <2>2 DEF Types, Batches
  <2>4. Types'
    BY <1>1, <1>2, <2>1, <2>3 DEF Types, queueVars, clientVars
  <2>5. OneJob'
    BY <1>2, <2>1 DEF OneJob
  <2>6. BatchFromHere'
    BY <1>1, <1>2, <2>1, <2>2 DEF Types, BatchFromHere
  <2>7. queueEnded => runner' = "ended" /\ stop' # "no"
    BY <1>1, <1>2 DEF IInv, QueueEnds
  <2> QED
    BY <1>1, <2>4, <2>5, <2>6, <2>7, QueueFrame DEF IInv
<1>4. CASE ~ (from <= Newest)
  <2>1. batch' = batch /\ active' = active \ {o} /\ runner' = "ready"
    BY <1>4 DEF Fetch, JobDone
  <2> QED
    BY <1>1, <2>1, JobEndInv
<1> QED
  BY <1>3, <1>4

(* collectBlocks with a token keeps it: the batch continues the queue, or    *)
(* what the waiting client has handled.                                      *)
LEMMA EnqueueInv ==
    ASSUME IInv, NEW o \in Owners, Enqueue(o)
    PROVE  IInv'
<1>1. /\ o \in active /\ batch[o] # <<>> /\ tokens > 0
      /\ batch' = [batch EXCEPT ![o] = <<>>]
      /\ from' = from + (batch[o][2] - batch[o][1] + 1)
      /\ source' = source /\ jobs' = jobs /\ active' = active /\ runner' = runner
      /\ queueEnded' = queueEnded /\ synced' = synced /\ stop' = stop
  BY DEF Enqueue
<1>2. Types /\ Continues /\ runner = "busy" /\ active = {o} /\ ~ queueEnded
      /\ QueueEnds /\ QueueBounded /\ BatchFromHere
  BY <1>1 DEF IInv, OneJob, QueueEnds
<1>3. batch[o] \in Batches /\ batch[o][1] = from /\ batch[o][1] \in Nat
      /\ batch[o][2] \in Nat /\ batch[o][2] >= from /\ from \in Nat
  BY <1>1, <1>2 DEF BatchFromHere, Types, Batches
<1>4. from' = batch[o][2] + 1
  BY <1>1, <1>3
<1>5. OneJob'
  BY <1>1, <1>2 DEF OneJob
<1>6. BatchFromHere'
  BY <1>1, <1>2 DEF BatchFromHere, Types
<1>7. CASE client = "waiting"
  <2>1. client' = "handling" /\ handling' = batch[o] /\ queue' = queue /\ tokens' = tokens
    BY <1>7 DEF Enqueue
  <2>2. queue = <<>> /\ Len(queue) = 0 /\ from = synced + 1
    BY <1>2, <1>7 DEF QueueEnds, Continues, Reached
  <2>3. Types'
    BY <1>1, <1>2, <1>3, <1>4, <2>1 DEF Types
  <2>4. Continues'
    BY <1>1, <1>3, <1>4, <2>1, <2>2 DEF Continues, Reached
  <2>5. QueueEnds' /\ QueueBounded'
    BY <1>1, <1>2, <2>1 DEF QueueEnds, QueueBounded
  <2> QED
    BY <1>5, <1>6, <2>3, <2>4, <2>5 DEF IInv
<1>8. CASE client # "waiting"
  <2>1. client' = client /\ handling' = handling /\ queue' = Append(queue, batch[o])
        /\ tokens' = tokens - 1
    BY <1>2, <1>8 DEF Enqueue
  <2>2. /\ Append(queue, batch[o]) \in Seq(Batches) /\ Len(queue) \in Nat
        /\ Len(Append(queue, batch[o])) = Len(queue) + 1
        /\ \A n \in 1..Len(queue) : Append(queue, batch[o])[n] = queue[n]
        /\ Append(queue, batch[o])[Len(queue) + 1] = batch[o]
    BY <1>2, <1>3, AppendProperties, LenProperties DEF Types
  <2>3. Types'
    BY <1>1, <1>2, <1>3, <1>4, <2>1, <2>2, SMTT(20) DEF Types
  <2>4. Reached' = Reached /\ (queue = <<>> <=> Len(queue) = 0) /\ queue' # <<>>
    BY <1>1, <1>2, <2>1, <2>2, EmptySeq DEF Reached, Types
  <2>5. Continues'
    <3>1. client' = "handling" => handling' # <<>> /\ handling'[1] = synced' + 1
      BY <1>1, <1>2, <2>1 DEF Continues
    <3>2. from' = (IF queue' = <<>> THEN Reached' ELSE queue'[Len(queue')][2]) + 1
      BY <1>4, <2>1, <2>2, <2>4
    <3>3. ASSUME NEW n \in 1..Len(queue')
          PROVE  queue'[n][1] = (IF n = 1 THEN Reached' ELSE queue'[n - 1][2]) + 1
      <4>1. CASE n \in 1..Len(queue)
        <5>1. queue[n][1] = (IF n = 1 THEN Reached ELSE queue[n - 1][2]) + 1
          BY <1>2, <4>1 DEF Continues
        <5>2. queue'[n] = queue[n] /\ (n # 1 => n - 1 \in 1..Len(queue))
          BY <2>1, <2>2, <4>1
        <5> QED
          BY <2>1, <2>2, <2>4, <5>1, <5>2
      <4>2. CASE n = Len(queue) + 1
        <5>1. queue'[n][1] = (IF queue = <<>> THEN Reached ELSE queue[Len(queue)][2]) + 1
          BY <1>2, <1>3, <2>1, <2>2, <4>2 DEF Continues
        <5>2. CASE Len(queue) = 0
          BY <2>4, <4>2, <5>1, <5>2
        <5>3. CASE Len(queue) # 0
          <6>1. n # 1 /\ n - 1 = Len(queue) /\ Len(queue) \in 1..Len(queue)
            BY <2>2, <4>2, <5>3
          <6> QED
            BY <2>1, <2>2, <2>4, <5>1, <5>3, <6>1
        <5> QED
          BY <5>2, <5>3
      <4> QED
        BY <2>1, <2>2, <4>1, <4>2
    <3> QED
      BY <3>1, <3>2, <3>3 DEF Continues
  <2>6. QueueEnds'
    BY <1>1, <1>2, <1>8, <2>1 DEF QueueEnds
  <2>7. QueueBounded'
    <3>1. tokens \in Int /\ Len(queue) \in Nat /\ tokens + Len(queue) = QueueSize
      BY <1>2, <2>2 DEF QueueBounded, Types
    <3>2. tokens' = tokens - 1 /\ Len(queue') = Len(queue) + 1
      BY <2>1, <2>2
    <3>3. tokens' + Len(queue') = QueueSize
      BY <3>1, <3>2
    <3> QED
      BY <3>3 DEF QueueBounded
  <2> QED
    BY <1>5, <1>6, <2>3, <2>5, <2>6, <2>7 DEF IInv
<1> QED
  BY <1>7, <1>8

(* getBlocks keeps it: the client takes the head of the queue, with its      *)
(* token, or waits on an empty one.                                          *)
LEMMA GetBlocksInv ==
    ASSUME IInv, GetBlocks
    PROVE  IInv'
<1>1. /\ client = "idle" /\ UNCHANGED <<source, from, queueEnded, synced, stop>>
      /\ UNCHANGED jobVars
  BY DEF GetBlocks
<1>2. Types /\ Continues /\ QueueEnds /\ QueueBounded /\ Reached = synced
  BY <1>1 DEF IInv, Reached
<1>3. OneJob' /\ BatchFromHere' /\ runner' = runner
  BY <1>1, JobFrame DEF jobVars
<1>4. CASE handling' = handling /\ queue' = queue /\ tokens' = tokens
           /\ client' \in {"idle", "waiting"}
           /\ (client' = "waiting" => queue = <<>>)
  <2>1. Types'
    BY <1>1, <1>2, <1>4 DEF Types, jobVars
  <2>2. Continues'
    BY <1>1, <1>2, <1>4 DEF Continues, Reached
  <2>3. QueueEnds' /\ QueueBounded'
    BY <1>1, <1>2, <1>3, <1>4 DEF QueueEnds, QueueBounded
  <2> QED
    BY <1>3, <2>1, <2>2, <2>3 DEF IInv
<1>5. CASE /\ queue # <<>> /\ client' = "handling" /\ handling' = Head(queue)
           /\ queue' = Tail(queue) /\ tokens' = tokens + 1
  <2>1. /\ Head(queue) \in Batches /\ Tail(queue) \in Seq(Batches)
        /\ Len(Tail(queue)) = Len(queue) - 1
        /\ \A n \in 1..Len(Tail(queue)) : Tail(queue)[n] = queue[n + 1]
    BY <1>2, <1>5, HeadTailProperties DEF Types
  <2>2. Len(queue) \in Nat \ {0} /\ Head(queue) = queue[1] /\ 1 \in 1..Len(queue)
    BY <1>2, <1>5, LenProperties, EmptySeq DEF Types
  <2>3. Types'
    BY <1>1, <1>2, <1>5, <2>1 DEF Types, jobVars
  <2>4. Reached' = queue[1][2] /\ handling'[1] = synced + 1 /\ handling' # <<>>
    BY <1>2, <1>5, <2>1, <2>2 DEF Continues, Reached, Batches
  <2>5. (queue' = <<>> <=> Len(queue) = 1)
    <3>1. queue' \in Seq(Batches) /\ Len(queue') = Len(queue) - 1
      BY <1>5, <2>1
    <3>2. queue' = <<>> <=> Len(queue') = 0
      BY <3>1, EmptySeq
    <3> QED
      BY <2>2, <3>1, <3>2
  <2>6. Continues'
    <3>1. ASSUME NEW n \in 1..Len(queue')
          PROVE  queue'[n][1] = (IF n = 1 THEN Reached' ELSE queue'[n - 1][2]) + 1
      <4>1. /\ n + 1 \in 1..Len(queue) /\ n + 1 # 1 /\ (n + 1) - 1 = n
            /\ queue'[n] = queue[n + 1]
        BY <1>5, <2>1, <2>2
      <4>2. queue[n + 1][1] = queue[n][2] + 1
        BY <1>2, <4>1 DEF Continues
      <4>3. n # 1 => queue'[n - 1] = queue[n]
        BY <1>5, <2>1, <2>2
      <4> QED
        BY <2>4, <4>1, <4>2, <4>3
    <3>2. from = queue[Len(queue)][2] + 1 \/ queueEnded
      BY <1>2, <1>5 DEF Continues
    <3>3. queue' # <<>> => queue'[Len(queue')] = queue[Len(queue)]
      <4> SUFFICES ASSUME queue' # <<>> PROVE queue'[Len(queue')] = queue[Len(queue)]
        OBVIOUS
      <4>1. Len(queue') \in 1..Len(queue') /\ Len(queue') + 1 = Len(queue)
        BY <1>5, <2>1, <2>2, <2>5
      <4> QED
        BY <1>5, <2>1, <4>1
    <3>4. ~ queueEnded' =>
             from' = (IF queue' = <<>> THEN Reached' ELSE queue'[Len(queue')][2]) + 1
      BY <1>1, <2>4, <2>5, <3>2, <3>3
    <3> QED
      BY <1>1, <2>4, <3>1, <3>4 DEF Continues
  <2>7. QueueEnds'
    BY <1>1, <1>2, <1>5 DEF QueueEnds
  <2>8. QueueBounded'
    BY <1>1, <1>2, <1>5, <2>1, <2>2, DownloaderAssumption DEF QueueBounded, Types
  <2> QED
    BY <1>3, <2>3, <2>6, <2>7, <2>8 DEF IInv
<1> QED
  BY <1>4, <1>5 DEF GetBlocks

(* A get that times out and the end of the handler keep it. *)
LEMMA ClientInv ==
    ASSUME IInv, GetTimesOut \/ HandleBlocks
    PROVE  IInv'
<1>1. /\ UNCHANGED <<source, from, queueEnded, stop>> /\ UNCHANGED jobVars
      /\ queue' = queue /\ tokens' = tokens /\ client' = "idle"
  BY DEF GetTimesOut, HandleBlocks, queueVars, TokensAfterTimeout
<1>2. Types /\ Continues /\ QueueEnds /\ QueueBounded
  BY DEF IInv
<1>3. OneJob' /\ BatchFromHere' /\ runner' = runner
  BY <1>1, JobFrame DEF jobVars
<1>4. Types' /\ Reached' = Reached
  <2>1. CASE GetTimesOut
    BY <1>1, <1>2, <2>1 DEF GetTimesOut, Types, Reached, jobVars
  <2>2. CASE HandleBlocks
    <3>1. client = "handling" /\ handling \in Batches /\ handling[2] \in Nat
      BY <1>2, <2>2 DEF HandleBlocks, Continues, Types, Batches
    <3> QED
      BY <1>1, <1>2, <2>2, <3>1 DEF HandleBlocks, Types, Reached, jobVars
  <2> QED
    BY <2>1, <2>2
<1>5. Continues'
  BY <1>1, <1>2, <1>4 DEF Continues
<1>6. QueueEnds' /\ QueueBounded'
  BY <1>1, <1>2, <1>3 DEF QueueEnds, QueueBounded
<1> QED
  BY <1>3, <1>4, <1>5, <1>6 DEF IInv

(* The stop of the downloader keeps it: the active job stays the only one. *)
LEMMA StopInv ==
    ASSUME IInv, Stop
    PROVE  IInv'
<1>1. /\ UNCHANGED <<source, from, active, batch>> /\ UNCHANGED queueVars
      /\ UNCHANGED clientVars /\ jobs' = <<>> /\ stop' = "jobs"
      /\ runner' = IF runner = "waiting" THEN "ended" ELSE runner
  BY DEF Stop
<1>2. Types'
  BY <1>1, EmptySeq DEF IInv, Types, queueVars, clientVars
<1>3. OneJob' /\ BatchFromHere'
  BY <1>1 DEF IInv, OneJob, BatchFromHere
<1>4. queueEnded => runner' = "ended" /\ stop' # "no"
  BY <1>1 DEF IInv, QueueEnds
<1> QED
  BY <1>1, <1>2, <1>3, <1>4, QueueFrame DEF IInv

(* The end of the block queue keeps it. *)
LEMMA StopQueueInv ==
    ASSUME IInv, StopQueue
    PROVE  IInv'
<1>1. /\ runner = "ended" /\ stop' = "poller" /\ queueEnded' = TRUE /\ queue' = <<>>
      /\ client' = (IF client = "waiting" THEN "idle" ELSE client)
      /\ UNCHANGED <<source, from, tokens, handling, synced>> /\ UNCHANGED jobVars
  BY DEF StopQueue
<1>2. OneJob' /\ BatchFromHere' /\ runner' = runner
  BY <1>1, JobFrame DEF jobVars
<1>3. Types'
  BY <1>1, EmptySeq DEF IInv, Types, jobVars
<1>4. Continues'
  <2>1. Len(queue') = 0
    BY <1>1
  <2> QED
    BY <1>1, <2>1 DEF IInv, Continues
<1>5. QueueEnds' /\ QueueBounded'
  BY <1>1, <1>2 DEF QueueEnds, QueueBounded
<1> QED
  BY <1>2, <1>3, <1>4, <1>5 DEF IInv

-----------------------------------------------------------------------------

(* The inductive invariant holds throughout. *)
THEOREM DownloaderInvariant == Spec => []IInv
<1>1. IInv /\ [Next]_vars => IInv'
  <2> SUFFICES ASSUME IInv, [Next]_vars PROVE IInv'
    OBVIOUS
  <2>1. CASE UNCHANGED vars
    <3>1. /\ UNCHANGED <<source, from, stop>> /\ UNCHANGED jobVars /\ UNCHANGED queueVars
          /\ UNCHANGED clientVars /\ UNCHANGED runner
      BY <2>1 DEF vars, jobVars
    <3>2. Types'
      BY <3>1 DEF IInv, Types, jobVars, queueVars, clientVars
    <3>3. queueEnded => runner' = "ended" /\ stop' # "no"
      BY <3>1 DEF IInv, QueueEnds
    <3> QED
      BY <3>1, <3>2, <3>3, QueueFrame, JobFrame DEF IInv
  <2>2. CASE Next
    BY <2>2, OutsideInv, PollInv, NextJobInv, FetchInv, FetchFailsInv, EnqueueInv, GetBlocksInv,
       ClientInv, StopInv, StopQueueInv DEF Next
  <2> QED
    BY <2>1, <2>2
<1> QED
  BY InitInv, <1>1, PTL DEF Spec

(* The client handles every block once and in order, however its loop, the   *)
(* poll loop, the callers of syncImmediate, failing requests, time-outs and  *)
(* a stop interleave.                                                        *)
THEOREM HandledInOrder == Spec => []BlocksInOrder
<1>1. IInv => BlocksInOrder
  <2> SUFFICES ASSUME IInv PROVE BlocksInOrder
    OBVIOUS
  <2>1. Types /\ Continues /\ queue \in Seq(Batches) /\ Len(queue) \in Nat
    BY LenProperties DEF IInv, Types
  <2>2. CASE client # "handling"
    <3> DEFINE bs == <<>> \o queue
    <3>1. bs = queue /\ DOMAIN queue = 1..Len(queue)
      BY <2>1, ConcatEmptySeq, LenProperties
    <3> HIDE DEF bs
    <3>2. \A n \in DOMAIN bs : bs[n][1] = (IF n = 1 THEN synced ELSE bs[n - 1][2]) + 1
      BY <2>1, <2>2, <3>1 DEF Continues, Reached
    <3> QED
      BY <2>2, <3>2 DEF BlocksInOrder, bs
  <2>3. CASE client = "handling"
    <3> DEFINE bs == <<handling>> \o queue
    <3>1. handling \in Batches /\ handling[1] = synced + 1
      BY <2>1, <2>3 DEF Types, Continues
    <3>2. <<handling>> \in Seq(Batches) /\ Len(<<handling>>) = 1 /\ <<handling>>[1] = handling
      BY <3>1
    <3>3. /\ bs \in Seq(Batches) /\ Len(bs) = 1 + Len(queue)
          /\ \A n \in 1..(1 + Len(queue)) : bs[n] = IF n <= 1 THEN <<handling>>[n] ELSE queue[n - 1]
      BY <2>1, <3>2, ConcatProperties
    <3> HIDE DEF bs
    <3>4. DOMAIN bs = 1..(1 + Len(queue)) /\ bs[1] = handling
          /\ \A n \in 1..Len(queue) : bs[n + 1] = queue[n]
      BY <2>1, <3>2, <3>3, LenProperties
    <3>5. ASSUME NEW n \in DOMAIN bs
          PROVE  bs[n][1] = (IF n = 1 THEN synced ELSE bs[n - 1][2]) + 1
      <4>1. CASE n = 1
        BY <3>1, <3>4, <4>1
      <4>2. CASE n # 1
        <5>1. n - 1 \in 1..Len(queue) /\ (n - 1) + 1 = n
          BY <2>1, <3>4, <4>2
        <5>2. bs[n] = queue[n - 1]
          BY <3>4, <5>1
        <5>3. queue[n - 1][1] = (IF n - 1 = 1 THEN handling[2] ELSE queue[n - 1 - 1][2]) + 1
          BY <2>1, <2>3, <5>1 DEF Continues, Reached
        <5>4. bs[n - 1] = IF n - 1 = 1 THEN handling ELSE queue[n - 1 - 1]
          <6>1. n - 1 # 1 => n - 1 - 1 \in 1..Len(queue) /\ (n - 1 - 1) + 1 = n - 1
            BY <2>1, <5>1
          <6> QED
            BY <3>4, <5>1, <6>1
        <5> QED
          BY <4>2, <5>2, <5>3, <5>4
      <4> QED
        BY <4>1, <4>2
    <3> QED
      BY <2>3, <3>5 DEF BlocksInOrder, bs
  <2> QED
    BY <2>2, <2>3
<1> QED
  BY <1>1, DownloaderInvariant, PTL

(* The tokens of the semaphore and the batches in the queue always add up to *)
(* the size of the queue, until it ends.                                     *)
THEOREM QueueAlwaysBounded == Spec => []QueueBounded
<1>1. IInv => QueueBounded
  BY DEF IInv
<1> QED
  BY <1>1, DownloaderInvariant, PTL
-----------------------------------------------------------------------------
=============================================================================
