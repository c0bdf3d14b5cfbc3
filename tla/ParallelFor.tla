---------------------------- MODULE ParallelFor ----------------------------
(***************************************************************************)
(* What parallel_for (common/thread.cpp) promises its callers, whichever   *)
(* strategy was compiled in: the function is entered once for every        *)
(* iteration of the call, never after the call returned, and the call      *)
(* returns only when every invocation has ended.                           *)
(***************************************************************************)
EXTENDS Naturals

CONSTANTS MaxCalls,        \* calls are numbered 1 .. MaxCalls
          MaxIterations    \* the largest num_iterations of a call

VARIABLES call,     \* the number of the last call made
          active,   \* has that call not returned yet?
          n,        \* its num_iterations
          begun,    \* begun[<<c, i>>]: how often func(i) of call c was entered
          ended     \* ... and how often it came back

vars == <<call, active, n, begun, ended>>

Invocations == (1 .. MaxCalls) \X (0 .. MaxIterations - 1)

Init ==
    /\ call = 0 /\ active = FALSE /\ n = 0
    /\ begun = [x \in Invocations |-> 0]
    /\ ended = [x \in Invocations |-> 0]

Call(k) ==
    /\ ~active /\ call < MaxCalls
    /\ call' = call + 1 /\ active' = TRUE /\ n' = k
    /\ UNCHANGED <<begun, ended>>

Begin(i) ==
    /\ active /\ i < n
    /\ begun[<<call, i>>] = 0
    /\ begun' = [begun EXCEPT ![<<call, i>>] = 1]
    /\ UNCHANGED <<call, active, n, ended>>

End(i) ==
    /\ active /\ begun[<<call, i>>] = 1 /\ ended[<<call, i>>] = 0
    /\ ended' = [ended EXCEPT ![<<call, i>>] = 1]
    /\ UNCHANGED <<call, active, n, begun>>

Return ==
    /\ active /\ \A i \in 0 .. n - 1 : ended[<<call, i>>] = 1
    /\ active' = FALSE
    /\ UNCHANGED <<call, n, begun, ended>>

Next ==
    \/ \E k \in 0 .. MaxIterations : Call(k)
    \/ \E i \in 0 .. MaxIterations - 1 : Begin(i) \/ End(i)
    \/ Return

Spec == Init /\ [][Next]_vars
=============================================================================
