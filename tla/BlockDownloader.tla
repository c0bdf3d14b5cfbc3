--------------------------- MODULE BlockDownloader ---------------------------
(***************************************************************************)
(* L2BlockDownloader (yarn-project/circuit-types/src/l2_block_downloader)  *)
(* with its SerialQueue of jobs, its Semaphore and its queue of blocks     *)
(* (foundation/src/fifo), between a source of L2 blocks (the archiver) and *)
(* the client that consumes them, ServerWorldStateSynchronizer, with its   *)
(* loop, its syncImmediate, its own SerialQueue and its stop.              *)
(*                                                                         *)
(* The poll loop and every pollImmediate enqueue the same job of the       *)
(* downloader, collectBlocks; the client's loop and syncImmediate enqueue  *)
(* the same job of the client, collectAndProcessBlocks.  All of it runs in *)
(* one event loop; the actions are the pieces between two awaits.          *)
(***************************************************************************)
EXTENDS Integers, SequencesExt

CONSTANTS
    Poller,       \* the downloader's poll loop
    Loop,         \* the client's loop (blockProcess)
    Callers,      \* callers of syncImmediate, which calls pollImmediate
    QueueSize,    \* maxQueueSize, in batches
    BatchSize,    \* blocks fetched by one request (10)
    MaxBlocks     \* bound: L2 blocks

ASSUME DownloaderAssumption ==
    /\ Poller # Loop
    /\ {Poller, Loop} \cap Callers = {}
    /\ QueueSize \in Nat \ {0}
    /\ BatchSize \in Nat \ {0}
    /\ MaxBlocks \in Nat

VARIABLES
    source,       \* the newest L2 block of the source
    from,         \* the next block to download
    running,      \* the downloader runs
    jobs,         \* jobQueue: owners of the jobs waiting, in order
    active,       \* jobQueue: owners of the jobs being executed
    runner,       \* jobQueue: its loop is "waiting" for a job, "busy" with one,
                  \* "ready" to ask for the next, or has "ended"
    flushing,     \* jobQueue was cancelled
    batch,        \* batch a job has fetched and waits to enqueue; <<>> if none
    found,        \* callers whose job has enqueued blocks
    tokens,       \* semaphore
    queue,        \* blockQueue: batches, each <<first, last>>
    queueEnded,   \* blockQueue is flushing
    owner,        \* where the two loops and the callers are
    syncJobs,     \* the client's jobQueue: owners of the jobs waiting
    serving,      \* the client's jobQueue: owners of the jobs being executed
    syncRunner,   \* the client's jobQueue: its loop, like runner
    syncFlushing, \* the client's jobQueue was cancelled
    client,       \* where the client's collectAndProcessBlocks is
    handling,     \* the batch the client handles
    synced,       \* the last block the client has handled
    stop          \* how far the client's stop has come

jobVars == <<jobs, active, runner, flushing, batch, found>>
queueVars == <<tokens, queue, queueEnded>>
syncVars == <<syncJobs, serving, syncRunner, syncFlushing>>
clientVars == <<client, handling, synced>>
vars == <<source, from, running, jobVars, queueVars, owner, syncVars, clientVars, stop>>

Owners == Callers \cup {Poller}
SyncOwners == Callers \cup {Loop}

Init ==
    /\ source = 0
    /\ from = 1
    /\ running = TRUE
    /\ jobs = <<>>
    /\ active = {}
    /\ runner = "waiting"
    /\ flushing = FALSE
    /\ batch = [o \in Owners |-> <<>>]
    /\ found = {}
    /\ tokens = QueueSize
    /\ queue = <<>>
    /\ queueEnded = FALSE
    /\ owner = [o \in Owners \cup SyncOwners |-> IF o \in Callers THEN "idle" ELSE "loop"]
    /\ syncJobs = <<>>
    /\ serving = {}
    /\ syncRunner = "waiting"
    /\ syncFlushing = FALSE
    /\ client = "idle"
    /\ handling = <<>>
    /\ synced = 0
    /\ stop = "no"

NewBlock ==
    /\ source < MaxBlocks
    /\ source' = source + 1
    /\ UNCHANGED <<from, running, jobVars, queueVars, owner, syncVars, clientVars, stop>>

-----------------------------------------------------------------------------
(* The poll loop, pollImmediate, and the jobs *)

\* Fault: the loop does not look at the flag again.
PollForever == TRUE

\* while (this.running)
KeepPolling == running

\* put of the job queue: a job goes to the loop that waits for one, or behind
\* the jobs that are waiting.
PutJob(o) ==
    /\ owner' = [owner EXCEPT ![o] = "await"]
    /\ IF runner = "waiting"
       THEN runner' = "busy" /\ active' = active \cup {o} /\ UNCHANGED jobs
       ELSE jobs' = Append(jobs, o) /\ UNCHANGED <<runner, active>>

\* The poll loop enqueues a job; if that is refused it sleeps as after a job.
Poll ==
    /\ owner[Poller] = "loop"
    /\ IF KeepPolling /\ ~ flushing THEN PutJob(Poller)
       ELSE /\ owner' = [owner EXCEPT ![Poller] = IF KeepPolling THEN "sleep" ELSE "done"]
            /\ UNCHANGED <<runner, active, jobs>>
    /\ UNCHANGED <<source, from, running, flushing, batch, found, queueVars, syncVars,
                   clientVars, stop>>

\* The sleep is over.  A timer fires when no continuation is left to run, so
\* the job queue's loop has asked for its next job by then.
Wake ==
    /\ owner[Poller] = "sleep"
    /\ runner # "ready"
    /\ owner' = [owner EXCEPT ![Poller] = "loop"]
    /\ UNCHANGED <<source, from, running, jobVars, queueVars, syncVars, clientVars, stop>>

\* syncImmediate, the minimum not being reached: pollImmediate, which is
\* rejected once the job queue is flushing, and syncImmediate with it.
PollImmediate(c) ==
    /\ owner[c] = "check"
    /\ found' = found \ {c}
    /\ IF flushing
       THEN owner' = [owner EXCEPT ![c] = "idle"] /\ UNCHANGED <<runner, active, jobs>>
       ELSE PutJob(c)
    /\ UNCHANGED <<source, from, running, flushing, batch, queueVars, syncVars,
                   clientVars, stop>>

\* Fault: jobs are not executed one after the other.
RunsAtOnce == runner \in {"ready", "busy"}

\* The loop of the job queue asks for a job when the previous one is done.
RunsNext == runner = "ready"

\* The loop of the job queue (process): the next job, the end of the loop if the
\* queue is flushing, or a wait.
NextJob ==
    /\ RunsNext
    /\ IF jobs # <<>>
       THEN runner' = "busy" /\ active' = active \cup {Head(jobs)} /\ jobs' = Tail(jobs)
       ELSE /\ runner' = IF flushing THEN "ended" ELSE "waiting"
            /\ UNCHANGED <<active, jobs>>
    /\ UNCHANGED <<source, from, running, flushing, batch, found, queueVars, owner,
                   syncVars, clientVars, stop>>

\* Fault: the newest block is left out.
AllButNewest == source - 1

\* The newest block that getBlocks of the source can return.
Newest == source

\* The job of o is done and o resumes: the poll loop sleeps, a syncImmediate
\* goes on if blocks were received and is over otherwise.
JobDone(o) ==
    /\ active' = active \ {o}
    /\ runner' = "ready"
    /\ owner' = [owner EXCEPT ![o] = IF o = Poller THEN "sleep"
                                     ELSE IF o \in found THEN "more" ELSE "idle"]

\* collectBlocks: a request for the blocks from "from" on.  Without any the job
\* is done.
Fetch(o) ==
    /\ o \in active
    /\ batch[o] = <<>>
    /\ IF from <= Newest
       THEN /\ batch' = [batch EXCEPT ![o] = <<from, Min({Newest, from + BatchSize - 1})>>]
            /\ UNCHANGED <<active, runner, owner>>
       ELSE JobDone(o) /\ UNCHANGED batch
    /\ UNCHANGED <<source, from, running, jobs, flushing, found, queueVars, syncVars,
                   clientVars, stop>>

\* The request fails, and the job with it: the poll loop logs the error and
\* sleeps, a syncImmediate throws.  The blocks enqueued before stay enqueued.
FetchFails(o) ==
    /\ o \in active
    /\ batch[o] = <<>>
    /\ active' = active \ {o}
    /\ runner' = "ready"
    /\ owner' = [owner EXCEPT ![o] = IF o = Poller THEN "sleep" ELSE "idle"]
    /\ UNCHANGED <<source, from, running, jobs, flushing, batch, found, queueVars,
                   syncVars, clientVars, stop>>

\* collectBlocks: with a token of the semaphore the batch is put into the block
\* queue, or handed to the client that waits, which gives the token back.
Enqueue(o) ==
    /\ o \in active
    /\ batch[o] # <<>>
    /\ tokens > 0
    /\ batch' = [batch EXCEPT ![o] = <<>>]
    /\ from' = from + (batch[o][2] - batch[o][1] + 1)
    /\ found' = found \cup ({o} \cap Callers)
    /\ IF client = "waiting"
       THEN /\ client' = "handling"
            /\ handling' = batch[o]
            /\ UNCHANGED <<queue, tokens>>
       ELSE /\ queue' = IF queueEnded THEN queue ELSE Append(queue, batch[o])
            /\ tokens' = tokens - 1
            /\ UNCHANGED <<client, handling>>
    /\ UNCHANGED <<source, running, jobs, active, runner, flushing, queueEnded, owner,
                   syncVars, synced, stop>>

-----------------------------------------------------------------------------
(* The client's jobs: its loop, syncImmediate and the serial queue *)

\* put of the client's job queue.
PutSync(o) ==
    IF syncRunner = "waiting"
    THEN syncRunner' = "busy" /\ serving' = {o} /\ UNCHANGED syncJobs
    ELSE syncJobs' = Append(syncJobs, o) /\ UNCHANGED <<syncRunner, serving>>

\* blockProcess: while (!this.stopping) a collectAndProcessBlocks is enqueued
\* and awaited.
BlockProcess ==
    /\ owner[Loop] = "loop"
    /\ IF stop = "no"
       THEN owner' = [owner EXCEPT ![Loop] = "await"] /\ PutSync(Loop)
       ELSE /\ owner' = [owner EXCEPT ![Loop] = "done"]
            /\ UNCHANGED <<syncJobs, serving, syncRunner>>
    /\ UNCHANGED <<source, from, running, jobVars, queueVars, syncFlushing, clientVars, stop>>

\* syncImmediate begins with a syncPoint, an empty job.
SyncImmediate(c) ==
    /\ owner[c] = "idle"
    /\ ~ syncFlushing
    /\ owner' = [owner EXCEPT ![c] = "syncPoint"]
    /\ PutSync(c)
    /\ UNCHANGED <<source, from, running, jobVars, queueVars, syncFlushing, clientVars, stop>>

\* The minimum block number of this syncImmediate, which is not modelled, is
\* reached.
SyncReturns(c) ==
    /\ owner[c] = "check"
    /\ owner' = [owner EXCEPT ![c] = "idle"]
    /\ UNCHANGED <<source, from, running, jobVars, queueVars, syncVars, clientVars, stop>>

\* The poll has received blocks: a collectAndProcessBlocks is enqueued, or
\* rejected and syncImmediate with it.
Collect(c) ==
    /\ owner[c] = "more"
    /\ IF syncFlushing
       THEN /\ owner' = [owner EXCEPT ![c] = "idle"]
            /\ UNCHANGED <<syncJobs, serving, syncRunner>>
       ELSE owner' = [owner EXCEPT ![c] = "collect"] /\ PutSync(c)
    /\ UNCHANGED <<source, from, running, jobVars, queueVars, syncFlushing, clientVars, stop>>

\* The loop of the client's job queue, like NextJob.
NextSync ==
    /\ syncRunner = "ready"
    /\ IF syncJobs # <<>>
       THEN /\ syncRunner' = "busy"
            /\ serving' = {Head(syncJobs)}
            /\ syncJobs' = Tail(syncJobs)
       ELSE /\ syncRunner' = IF syncFlushing THEN "ended" ELSE "waiting"
            /\ UNCHANGED <<serving, syncJobs>>
    /\ UNCHANGED <<source, from, running, jobVars, queueVars, owner, syncFlushing,
                   clientVars, stop>>

\* The client's job is done: its loop goes round, a syncImmediate checks the
\* block number again.
SyncJobDone ==
    /\ serving' = {}
    /\ syncRunner' = "ready"
    /\ owner' = [o \in DOMAIN owner |->
           IF o \notin serving THEN owner[o] ELSE IF o = Loop THEN "loop" ELSE "check"]

SyncPointDone ==
    /\ \E c \in serving : owner[c] = "syncPoint"
    /\ SyncJobDone
    /\ UNCHANGED <<source, from, running, jobVars, queueVars, syncJobs, syncFlushing,
                   clientVars, stop>>

-----------------------------------------------------------------------------
(* collectAndProcessBlocks *)

\* getBlocks: a batch of the queue, or nothing if the queue is flushing, or a
\* wait.
GetBlocks ==
    /\ \E o \in serving : owner[o] # "syncPoint"
    /\ client = "idle"
    /\ IF queue # <<>>
       THEN /\ client' = "handling"
            /\ handling' = Head(queue)
            /\ queue' = Tail(queue)
            /\ tokens' = tokens + 1
            /\ UNCHANGED <<owner, serving, syncRunner>>
       ELSE /\ UNCHANGED <<handling, queue, tokens>>
            /\ IF queueEnded
               THEN SyncJobDone /\ UNCHANGED client
               ELSE client' = "waiting" /\ UNCHANGED <<owner, serving, syncRunner>>
    /\ UNCHANGED <<source, from, running, jobVars, queueEnded, syncJobs, syncFlushing,
                   synced, stop>>

\* Fault: the token is released whatever getBlocks received.
ReleaseAlways == tokens + 1

\* A get that times out has not received a batch and releases no token.
TokensAfterTimeout == tokens

\* The get times out after its second; there are no blocks to handle.
GetTimesOut ==
    /\ client = "waiting"
    /\ client' = "idle"
    /\ SyncJobDone
    /\ tokens' = TokensAfterTimeout
    /\ UNCHANGED <<source, from, running, jobVars, queue, queueEnded, syncJobs, syncFlushing,
                   handling, synced, stop>>

\* handleL2Blocks
HandleBlocks ==
    /\ client = "handling"
    /\ synced' = handling[2]
    /\ handling' = <<>>
    /\ client' = "idle"
    /\ SyncJobDone
    /\ UNCHANGED <<source, from, running, jobVars, queueVars, syncJobs, syncFlushing, stop>>

-----------------------------------------------------------------------------
(* The client's stop *)

\* The client's loop is told to end and the downloader is stopped: the sleep is
\* interrupted and the job queue is cancelled, which discards the jobs it has
\* not begun.
Stop ==
    /\ stop = "no"
    /\ stop' = "jobs"
    /\ running' = FALSE
    /\ flushing' = TRUE
    /\ jobs' = <<>>
    /\ runner' = IF runner = "waiting" THEN "ended" ELSE runner
    /\ owner' = [owner EXCEPT ![Poller] = IF @ = "sleep" THEN "loop" ELSE @]
    /\ UNCHANGED <<source, from, active, batch, found, queueVars, syncVars, clientVars>>

\* The job queue has ended: the block queue is cancelled, and a client that
\* waits receives nothing.
StopQueue ==
    /\ stop = "jobs"
    /\ runner = "ended"
    /\ stop' = "poller"
    /\ queueEnded' = TRUE
    /\ queue' = <<>>
    /\ IF client = "waiting"
       THEN client' = "idle" /\ SyncJobDone
       ELSE UNCHANGED <<client, owner, serving, syncRunner>>
    /\ UNCHANGED <<source, from, running, jobVars, tokens, syncJobs, syncFlushing,
                   handling, synced>>

\* The poll loop has ended, and stop of the downloader returns: the client's
\* job queue is cancelled.
StopSyncQueue ==
    /\ stop = "poller"
    /\ owner[Poller] = "done"
    /\ stop' = "sync"
    /\ syncFlushing' = TRUE
    /\ syncJobs' = <<>>
    /\ syncRunner' = IF syncRunner = "waiting" THEN "ended" ELSE syncRunner
    /\ UNCHANGED <<source, from, running, jobVars, queueVars, owner, serving, clientVars>>

\* The client's job queue has ended, and its loop.
StopReturns ==
    /\ stop = "sync"
    /\ syncRunner = "ended"
    /\ owner[Loop] = "done"
    /\ stop' = "stopped"
    /\ UNCHANGED <<source, from, running, jobVars, queueVars, owner, syncVars, clientVars>>

Next ==
    \/ NewBlock
    \/ Poll
    \/ Wake
    \/ NextJob
    \/ \E o \in Owners : Fetch(o) \/ FetchFails(o) \/ Enqueue(o)
    \/ BlockProcess
    \/ \E c \in Callers :
           SyncImmediate(c) \/ SyncReturns(c) \/ PollImmediate(c) \/ Collect(c)
    \/ NextSync
    \/ SyncPointDone
    \/ GetBlocks
    \/ GetTimesOut
    \/ HandleBlocks
    \/ Stop
    \/ StopQueue
    \/ StopSyncQueue
    \/ StopReturns

\* Whatever can run does so eventually: the event loop resumes every promise
\* that is settled, timers fire, and the handlers of the client come to an end.
\* Strong fairness says so of the sleep's timer, which fires between two jobs of
\* others however often they come, and of the source: asked again and again by
\* the poll loop, it does not fail every time.
\* Nobody has to produce a block, sync immediately or stop the client.
Fairness ==
    /\ WF_vars(Poll)
    /\ SF_vars(Wake)
    /\ WF_vars(NextJob)
    /\ SF_vars(Fetch(Poller))
    /\ \A c \in Callers : WF_vars(Fetch(c)) /\ WF_vars(Collect(c))
    /\ \A o \in Owners : WF_vars(Enqueue(o))
    /\ WF_vars(BlockProcess)
    /\ WF_vars(NextSync)
    /\ WF_vars(SyncPointDone)
    /\ WF_vars(GetBlocks)
    /\ WF_vars(HandleBlocks)
    /\ WF_vars(StopQueue)
    /\ WF_vars(StopSyncQueue)
    /\ WF_vars(StopReturns)

Spec == Init /\ [][Next]_vars /\ Fairness

-----------------------------------------------------------------------------
(* Properties *)

(* The client handles every block once and in order, although the poll loop  *)
(* and callers of pollImmediate download concurrently and a get may time out *)
(* just before its batch arrives: a batch begins where the client is, and    *)
(* the queue continues it (collectBlocks, SerialQueue, getBlocks).           *)
BlocksInOrder ==
    LET batches == (IF client = "handling" THEN <<handling>> ELSE <<>>) \o queue
    IN  \A n \in DOMAIN batches :
            batches[n][1] = (IF n = 1 THEN synced ELSE batches[n - 1][2]) + 1

(* "The queue size is limited by the maxQueueSize parameter": the tokens of  *)
(* the semaphore and the batches in the queue always add up to it, so the    *)
(* bound neither drifts upwards nor chokes the downloader over time.         *)
QueueBounded ==
    ~ queueEnded => tokens + Len(queue) = QueueSize

(* Every block of the source reaches the client unless the client stops,     *)
(* also when the queue is full for a while.                                  *)
EveryBlockHandled ==
    \A n \in 1..MaxBlocks : source >= n ~> (synced >= n \/ stop # "no")

(* What a stop can wait for in vain: one of the two loops awaits a job that  *)
(* its cancelled job queue has discarded, or a job awaits a token for its    *)
(* batch and the client takes no more batches.                               *)
Blocked ==
    \/ owner[Poller] = "await" /\ Poller \notin active \cup ToSet(jobs)
    \/ \E o \in active : batch[o] # <<>> /\ tokens = 0
    \/ owner[Loop] = "await" /\ Loop \notin serving \cup ToSet(syncJobs)

(* A stop returns from wherever the two loops, the two job queues and the    *)
(* callers of syncImmediate are when it is asked for, unless one of the      *)
(* three above blocks it for good (stop of the world state synchronizer and  *)
(* of the downloader).                                                       *)
StopsUnlessBlocked == stop # "no" ~> (stop = "stopped" \/ []Blocked)

=============================================================================
