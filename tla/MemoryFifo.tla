----------------------------- MODULE MemoryFifo -----------------------------
(***************************************************************************)
(* MemoryFifo (yarn-project/foundation/src/fifo/memory_fifo.ts), the queue *)
(* under SerialQueue, Semaphore and L2BlockDownloader: put, get with and   *)
(* without a timeout, end, cancel, and the process loop.  Code between two *)
(* awaits is not interrupted, so each call is one action; a get that waits *)
(* is resumed by a later call or by its timer.                             *)
(***************************************************************************)
EXTENDS Integers, SequencesExt

CONSTANTS
    Getters,      \* callers of get, with a timeout
    Loop,         \* the process loop, which calls get without a timeout
    MaxItems      \* bound: items put

ASSUME FifoAssumption ==
    /\ Loop \notin Getters
    /\ MaxItems \in Nat

VARIABLES
    items,      \* items nobody has taken
    waiting,    \* consumers whose get found no item, in order
    flushing,   \* end or cancel was called
    consumer,   \* where each consumer is
    accepted,   \* history: items that put accepted; the n-th item is n
    delivered,  \* history: items handed to a consumer, in order
    cancelled   \* history: cancel was called

vars == <<items, waiting, flushing, consumer, accepted, delivered, cancelled>>

Consumers == Getters \cup {Loop}

Init ==
    /\ items = <<>>
    /\ waiting = <<>>
    /\ flushing = FALSE
    /\ consumer = [c \in Consumers |-> "idle"]
    /\ accepted = <<>>
    /\ delivered = <<>>
    /\ cancelled = FALSE

\* What a consumer does with an item: the loop calls its handler.
WithItem(c) == IF c = Loop THEN "busy" ELSE "idle"

\* What a consumer does with null: the loop ends.
WithNull(c) == IF c = Loop THEN "ended" ELSE "idle"

\* get: an item, null if the queue is flushing, or a place among the waiting.
Get(c) ==
    /\ consumer[c] = "idle"
    /\ \/ /\ items # <<>>
          /\ items' = Tail(items)
          /\ delivered' = Append(delivered, Head(items))
          /\ consumer' = [consumer EXCEPT ![c] = WithItem(c)]
          /\ UNCHANGED waiting
       \/ /\ items = <<>> /\ flushing
          /\ consumer' = [consumer EXCEPT ![c] = WithNull(c)]
          /\ UNCHANGED <<items, waiting, delivered>>
       \/ /\ items = <<>> /\ ~ flushing
          /\ waiting' = Append(waiting, c)
          /\ consumer' = [consumer EXCEPT ![c] = "waiting"]
          /\ UNCHANGED <<items, delivered>>
    /\ UNCHANGED <<flushing, accepted, cancelled>>

\* Fault: a get that has timed out stays among the waiting.
KeepWaiter(w, g) == w

\* The waiting without a get that has timed out: findIndex and splice.
WithoutWaiter(w, g) == RemoveFirst(w, g)

\* The timer of a get fires while the get is among the waiting: it is rejected,
\* unless end or cancel has answered it already.
Timeout(g) ==
    /\ g \in ToSet(waiting)
    /\ consumer[g] = "waiting" \/ flushing
    /\ waiting' = WithoutWaiter(waiting, g)
    /\ consumer' = [consumer EXCEPT ![g] = "idle"]
    /\ UNCHANGED <<items, flushing, accepted, delivered, cancelled>>

\* Fault: put does not look for a waiting consumer.
NobodyWaits == TRUE

\* put queues the item only if no consumer waits.
NoneWaiting == waiting = <<>>

\* put, when not flushing (else the item is discarded and nothing changes).
Put ==
    /\ ~ flushing
    /\ Len(accepted) < MaxItems
    /\ LET item == Len(accepted) + 1
       IN  /\ accepted' = Append(accepted, item)
           /\ IF NoneWaiting
              THEN /\ items' = Append(items, item)
                   /\ UNCHANGED <<waiting, consumer, delivered>>
              ELSE LET c == Head(waiting)
                   IN  /\ waiting' = Tail(waiting)
                       \* resolving a promise that is settled has no effect
                       /\ delivered' = IF consumer[c] = "waiting"
                                       THEN Append(delivered, item) ELSE delivered
                       /\ consumer' = IF consumer[c] = "waiting"
                                      THEN [consumer EXCEPT ![c] = WithItem(c)]
                                      ELSE consumer
                       /\ UNCHANGED items
    /\ UNCHANGED <<flushing, cancelled>>

\* Every waiting consumer receives null; the list itself is not cleared.
AnswerWaiting ==
    consumer' = [c \in Consumers |->
                    IF consumer[c] = "waiting" THEN WithNull(c) ELSE consumer[c]]

End ==
    /\ ~ flushing
    /\ flushing' = TRUE
    /\ AnswerWaiting
    /\ UNCHANGED <<items, waiting, accepted, delivered, cancelled>>

Cancel ==
    /\ ~ cancelled
    /\ flushing' = TRUE
    /\ cancelled' = TRUE
    /\ items' = <<>>
    /\ AnswerWaiting
    /\ UNCHANGED <<waiting, accepted, delivered>>

\* process: the handler is done and the loop asks for the next item.
HandlerReturns ==
    /\ consumer[Loop] = "busy"
    /\ consumer' = [consumer EXCEPT ![Loop] = "idle"]
    /\ UNCHANGED <<items, waiting, flushing, accepted, delivered, cancelled>>

\* process: the catch clause is outside the loop.
HandlerThrows ==
    /\ consumer[Loop] = "busy"
    /\ consumer' = [consumer EXCEPT ![Loop] = "ended"]
    /\ UNCHANGED <<items, waiting, flushing, accepted, delivered, cancelled>>

Next ==
    \/ \E c \in Consumers : Get(c)
    \/ \E g \in Getters : Timeout(g)
    \/ Put
    \/ End
    \/ Cancel
    \/ HandlerReturns
    \/ HandlerThrows

\* The event loop resumes the process loop, and the handler comes to an end.
Fairness == WF_vars(Get(Loop)) /\ WF_vars(HandlerReturns \/ HandlerThrows)

Spec == Init /\ [][Next]_vars /\ Fairness

-----------------------------------------------------------------------------
(* Properties *)

(* First in, first out, with nothing lost or handed out twice: the items     *)
(* delivered and those still queued are the items accepted, in order, until  *)
(* cancel drops the rest.  In particular no item goes to a get whose timer   *)
(* has fired (get, put, cancel).                                             *)
FifoOrder ==
    IF cancelled THEN IsPrefix(delivered, accepted)
    ELSE delivered \o items = accepted

(* No consumer sleeps while there is an item for it, nor after end or        *)
(* cancel, when nobody would wake it (put, end, cancel).                     *)
NobodyStranded ==
    \A c \in Consumers : consumer[c] = "waiting" => items = <<>> /\ ~ flushing

(* Every item that was accepted is handed to a consumer, unless the queue is *)
(* cancelled or the loop has ended on an exception of its handler: the loop  *)
(* is never left waiting by a put or a timer (process, get, put).            *)
DrainsUntilThrown ==
    \A n \in 1..MaxItems :
        Len(accepted) >= n ~>
            (Len(delivered) >= n \/ cancelled \/ consumer[Loop] = "ended")

=============================================================================
