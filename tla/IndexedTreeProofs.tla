-------------------------- MODULE IndexedTreeProofs --------------------------
(***************************************************************************)
(* Proofs about IndexedTree, for every depth, every number of threads and  *)
(* every batch: the level signals alone keep the workers of a batch from   *)
(* touching a node that another one is writing, and every batch leaves the *)
(* leaves one ascending list.                                              *)
(***************************************************************************)
EXTENDS IndexedTree, FiniteSetTheorems, WellFoundedInduction, TLAPS

Fields == {"pc", "level", "index", "hash", "path"}

\* The shape of the state that the argument is about.
Types ==
    /\ Len(worker) \in Nat /\ DOMAIN worker = 1 .. Len(worker)
    /\ worker = [i \in 1 .. Len(worker) |-> worker[i]]
    /\ \A i \in 1 .. Len(worker) :
           /\ worker[i] = [f \in Fields |-> worker[i][f]]
           /\ worker[i].level \in 0 .. Depth
    /\ worker # <<>> => /\ signals \in [1 .. Len(worker) + 1 -> 0 .. Depth + 1]
                        /\ signals[1] = 0

\* The levels at which a worker is at each of its steps.
LevelsOK ==
    \A i \in 1 .. Len(worker) : LET w == worker[i] IN
        /\ w.pc \in {"ready", "waitLeaf", "readLeaf", "write", "signal", "waitAbove",
                     "readAbove", "readSibling", "waitWrite", "done"}
        /\ w.pc \in {"ready", "waitLeaf", "readLeaf"} => w.level = Depth
        /\ w.pc \in {"waitAbove", "readAbove"} => w.level >= 2
        /\ w.pc \in {"readSibling", "waitWrite"} => w.level >= 1

\* A worker has signalled every level it has written, and no other.
SignalsOK ==
    \A i \in 1 .. Len(worker) :
        signals[i + 1] = IF worker[i].pc \in {"waitAbove", "readAbove", "readSibling", "done"}
                         THEN worker[i].level ELSE worker[i].level + 1

\* A worker is at a level only when its leader is past it.
FollowsLeader ==
    \A i \in 1 .. Len(worker) : LET w == worker[i] IN
        /\ w.pc \in {"readLeaf", "waitAbove", "readAbove", "readSibling"} => signals[i] <= w.level - 1
        /\ w.pc \in {"write", "signal"} => signals[i] <= w.level - 1 \/ signals[i] = 0
        /\ w.pc = "waitWrite" => signals[i] <= w.level
        /\ w.pc = "done" => signals[i] = 0

\* No worker is ahead of any of its leaders.
Ascending ==
    \A i, j \in 1 .. Len(worker) + 1 : i <= j /\ worker # <<>> => signals[i] <= signals[j]

(* The inductive invariant.  NoDataRace is not inductive: it says nothing of *)
(* the signals that keep two workers apart.  A worker's place gives its      *)
(* signal (SignalsOK), its leader's signal bounds its place (FollowsLeader), *)
(* and a chain of leaders bounds it too (Ascending).                         *)
IInv == Types /\ LevelsOK /\ SignalsOK /\ FollowsLeader /\ Ascending

-----------------------------------------------------------------------------

(* No batch has begun. *)
LEMMA InitInv == Init => IInv
<1> SUFFICES ASSUME Init
             PROVE  IInv
  OBVIOUS
<1>1. worker = <<>> /\ Len(worker) = 0
  BY DEF Init
<1> QED
  BY <1>1, TreeAssumption DEF IInv, Types, LevelsOK, SignalsOK, FollowsLeader, Ascending

(* A batch begins: all workers are above their leaves, and the first has no  *)
(* leader to wait for.                                                       *)
LEMMA BatchInv ==
    ASSUME IInv, NEW b \in Batches, AddOrUpdateValues(b)
    PROVE  IInv'
<1> DEFINE k == Len(b)
           w0 == [pc |-> "ready", level |-> Depth, index |-> 0, hash |-> <<>>, path |-> <<>>]
<1>1. k \in Nat /\ k >= 1 /\ Depth \in Nat
  BY TreeAssumption
<1>2. /\ signals' = [i \in 1 .. k + 1 |-> IF i = 1 THEN 0 ELSE 1 + Depth]
      /\ worker' = [i \in 1 .. k |-> w0]
  BY DEF AddOrUpdateValues, InitialSignals
<1>3. Len(worker') = k /\ DOMAIN worker' = 1 .. k
  BY <1>1, <1>2
<1>4. w0 = [f \in Fields |-> w0[f]] /\ w0.pc = "ready" /\ w0.level = Depth
  BY DEF Fields
<1> HIDE DEF w0
<1>5. \A i \in 1 .. k : worker'[i] = w0
  BY <1>2
<1>6. signals' \in [1 .. k + 1 -> 0 .. Depth + 1] /\ signals'[1] = 0
  BY <1>1, <1>2
<1>7. \A i \in 1 .. k : signals'[i + 1] = Depth + 1
  BY <1>1, <1>2
<1>8. Types'
  BY <1>1, <1>2, <1>3, <1>4, <1>5, <1>6 DEF Types
<1>9. LevelsOK' /\ FollowsLeader' /\ SignalsOK'
  BY <1>1, <1>3, <1>4, <1>5, <1>7 DEF LevelsOK, FollowsLeader, SignalsOK
<1>10. Ascending'
  BY <1>1, <1>2, <1>3 DEF Ascending
<1> QED
  BY <1>8, <1>9, <1>10 DEF IInv

(* A worker's step that changes its own locals and perhaps lowers the signal *)
(* of its follower.                                                          *)
LEMMA WorkerFrame ==
    ASSUME IInv, NEW i \in 1 .. Len(worker), NEW w,
           worker' = [worker EXCEPT ![i] = w],
           w = [f \in Fields |-> w[f]], w.level \in 0 .. Depth,
           w.pc \in {"ready", "waitLeaf", "readLeaf", "write", "signal", "waitAbove",
                     "readAbove", "readSibling", "waitWrite", "done"},
           w.pc \in {"ready", "waitLeaf", "readLeaf"} => w.level = Depth,
           w.pc \in {"waitAbove", "readAbove"} => w.level >= 2,
           w.pc \in {"readSibling", "waitWrite"} => w.level >= 1,
           NEW s \in 0 .. Depth + 1,
           signals' = [signals EXCEPT ![i + 1] = s], s <= signals[i + 1], signals[i] <= s,
           s = IF w.pc \in {"waitAbove", "readAbove", "readSibling", "done"}
               THEN w.level ELSE w.level + 1,
           w.pc \in {"readLeaf", "waitAbove", "readAbove", "readSibling"} =>
               signals[i] <= w.level - 1,
           w.pc \in {"write", "signal"} => signals[i] <= w.level - 1 \/ signals[i] = 0,
           w.pc = "waitWrite" => signals[i] <= w.level,
           w.pc = "done" => signals[i] = 0
    PROVE  IInv'
<1>1. Depth \in Nat /\ Types /\ Ascending /\ LevelsOK /\ SignalsOK /\ FollowsLeader
  BY TreeAssumption DEF IInv
<1>2. /\ Len(worker) \in Nat /\ DOMAIN worker = 1 .. Len(worker) /\ worker # <<>>
      /\ worker = [j \in 1 .. Len(worker) |-> worker[j]]
      /\ signals \in [1 .. Len(worker) + 1 -> 0 .. Depth + 1] /\ signals[1] = 0
  <2>1. Len(worker) \in Nat /\ DOMAIN worker = 1 .. Len(worker)
    BY <1>1 DEF Types
  <2>2. worker # <<>>
    BY <2>1
  <2> QED
    BY <1>1, <2>1, <2>2 DEF Types
<1>3. PICK k \in Nat : k = Len(worker)
  BY <1>2
<1>4. /\ DOMAIN worker' = 1 .. k /\ worker'[i] = w
      /\ worker' = [j \in 1 .. k |-> worker'[j]]
      /\ \A j \in 1 .. k : j # i => worker'[j] = worker[j]
  BY <1>2, <1>3
<1>5. Len(worker') = k /\ worker' # <<>>
  BY <1>3, <1>4
<1>6. /\ signals' \in [1 .. k + 1 -> 0 .. Depth + 1] /\ signals'[i + 1] = s
      /\ \A j \in 1 .. k + 1 : j # i + 1 => signals'[j] = signals[j]
      /\ \A j \in 1 .. k + 1 : signals[j] \in Nat /\ signals'[j] \in Nat /\ signals'[j] <= signals[j]
      /\ signals'[1] = 0
  BY <1>1, <1>2, <1>3, SMTT(20)
<1>7. Types'
  <2>1. \A j \in 1 .. k : worker'[j] = [f \in Fields |-> worker'[j][f]] /\ worker'[j].level \in 0 .. Depth
    BY <1>1, <1>3, <1>4 DEF Types
  <2> QED
    BY <1>3, <1>4, <1>5, <1>6, <2>1 DEF Types
<1>8. LevelsOK'
  BY <1>1, <1>3, <1>4, <1>5 DEF LevelsOK
<1>9. SignalsOK'
  <2>1. \A j \in 1 .. k : j # i => j + 1 # i + 1 /\ j + 1 \in 1 .. k + 1
    BY <1>3
  <2> QED
    BY <1>1, <1>3, <1>4, <1>5, <1>6, <2>1 DEF SignalsOK
<1>10. FollowsLeader'
  <2> SUFFICES ASSUME NEW j \in 1 .. k
               PROVE  LET v == worker'[j] IN
                      /\ v.pc \in {"readLeaf", "waitAbove", "readAbove", "readSibling"} =>
                             signals'[j] <= v.level - 1
                      /\ v.pc \in {"write", "signal"} => signals'[j] <= v.level - 1 \/ signals'[j] = 0
                      /\ v.pc = "waitWrite" => signals'[j] <= v.level
                      /\ v.pc = "done" => signals'[j] = 0
    BY <1>5 DEF FollowsLeader
  <2>1. CASE j = i
    <3>1. signals'[i] = signals[i]
      BY <1>3, <1>6
    <3> QED
      BY <1>4, <2>1, <3>1
  <2>2. CASE j # i
    <3>1. /\ worker'[j] = worker[j] /\ signals'[j] <= signals[j]
          /\ signals'[j] \in Nat /\ signals[j] \in Nat /\ worker[j].level \in Nat
      BY <1>1, <1>3, <1>4, <1>6, <2>2, SMTT(20) DEF Types
    <3>2. /\ worker[j].pc \in {"readLeaf", "waitAbove", "readAbove", "readSibling"} =>
                 signals[j] <= worker[j].level - 1
          /\ worker[j].pc \in {"write", "signal"} =>
                 signals[j] <= worker[j].level - 1 \/ signals[j] = 0
          /\ worker[j].pc = "waitWrite" => signals[j] <= worker[j].level
          /\ worker[j].pc = "done" => signals[j] = 0
      BY <1>1, <1>3 DEF FollowsLeader
    <3> QED
      BY <3>1, <3>2, SMTT(20)
  <2> QED
    BY <2>1, <2>2
<1>11. Ascending'
  <2> SUFFICES ASSUME NEW a \in 1 .. k + 1, NEW c \in 1 .. k + 1, a <= c
               PROVE  signals'[a] <= signals'[c]
    BY <1>5 DEF Ascending
  <2>1. \A x, y \in 1 .. k + 1 : x <= y => signals[x] <= signals[y]
    BY <1>1, <1>2, <1>3 DEF Ascending
  <2>2. CASE c # i + 1
    <3>1. signals'[c] = signals[c] /\ signals'[a] <= signals[a] /\ signals[a] <= signals[c]
      BY <1>6, <2>1, <2>2
    <3>2. signals'[a] \in Nat /\ signals[a] \in Nat /\ signals[c] \in Nat
      BY <1>6
    <3> QED
      BY <3>1, <3>2
  <2>3. CASE c = i + 1 /\ a = i + 1
    BY <1>6, <2>3
  <2>4. CASE c = i + 1 /\ a # i + 1
    <3>1. a \in 1 .. k + 1 /\ i \in 1 .. k + 1 /\ a <= i
      BY <1>3, <2>4
    <3>2. signals'[a] = signals[a] /\ signals[a] <= signals[i] /\ signals[a] \in Nat /\ signals[i] \in Nat
      BY <1>6, <2>1, <2>4, <3>1
    <3> QED
      BY <1>1, <1>6, <2>4, <3>2
  <2> QED
    BY <2>2, <2>3, <2>4
<1> QED
  BY <1>7, <1>8, <1>9, <1>10, <1>11 DEF IInv

-----------------------------------------------------------------------------

\* What the steps of a worker know of it.
WorkerFacts(i) ==
    /\ worker[i] = [f \in Fields |-> worker[i][f]]
    /\ worker[i].level \in 0 .. Depth /\ Depth \in Nat
    /\ signals[i] \in Nat /\ signals[i + 1] \in 0 .. Depth + 1 /\ signals[i] <= signals[i + 1]
    /\ [signals EXCEPT ![i + 1] = signals[i + 1]] = signals
    /\ signals[i + 1] = IF worker[i].pc \in {"waitAbove", "readAbove", "readSibling", "done"}
                        THEN worker[i].level ELSE worker[i].level + 1

LEMMA WorkerKnows ==
    ASSUME IInv, NEW i \in 1 .. Len(worker)
    PROVE  WorkerFacts(i)
<1>1. Types /\ Ascending /\ SignalsOK /\ Depth \in Nat
  BY TreeAssumption DEF IInv
<1>2. Len(worker) \in Nat /\ DOMAIN worker = 1 .. Len(worker)
  BY <1>1 DEF Types
<1>3. worker # <<>>
  BY <1>2
<1>4. signals \in [1 .. Len(worker) + 1 -> 0 .. Depth + 1]
  BY <1>1, <1>3 DEF Types
<1>5. i \in 1 .. Len(worker) + 1 /\ i + 1 \in 1 .. Len(worker) + 1 /\ i <= i + 1
  BY <1>2
<1>6. signals[i] <= signals[i + 1]
  BY <1>1, <1>3, <1>5 DEF Ascending
<1>7. signals[i] \in Nat /\ signals[i + 1] \in 0 .. Depth + 1
  BY <1>1, <1>4, <1>5
<1>8. [signals EXCEPT ![i + 1] = signals[i + 1]] = signals
  BY <1>4, <1>5
<1>9. worker[i] = [f \in Fields |-> worker[i][f]] /\ worker[i].level \in 0 .. Depth
  BY <1>1 DEF Types
<1> QED
  BY <1>1, <1>6, <1>7, <1>8, <1>9 DEF WorkerFacts, SignalsOK

(* A step that leaves the signals alone. *)
LEMMA QuietStep ==
    ASSUME IInv, NEW i \in 1 .. Len(worker), NEW w,
           worker' = [worker EXCEPT ![i] = w], signals' = signals,
           w = [f \in Fields |-> w[f]], w.level \in 0 .. Depth,
           w.pc \in {"ready", "waitLeaf", "readLeaf", "write", "signal", "waitAbove",
                     "readAbove", "readSibling", "waitWrite", "done"},
           w.pc \in {"ready", "waitLeaf", "readLeaf"} => w.level = Depth,
           w.pc \in {"waitAbove", "readAbove"} => w.level >= 2,
           w.pc \in {"readSibling", "waitWrite"} => w.level >= 1,
           signals[i + 1] = IF w.pc \in {"waitAbove", "readAbove", "readSibling", "done"}
                            THEN w.level ELSE w.level + 1,
           w.pc \in {"readLeaf", "waitAbove", "readAbove", "readSibling"} =>
               signals[i] <= w.level - 1,
           w.pc \in {"write", "signal"} => signals[i] <= w.level - 1 \/ signals[i] = 0,
           w.pc = "waitWrite" => signals[i] <= w.level,
           w.pc = "done" => signals[i] = 0
    PROVE  IInv'
<1>1. WorkerFacts(i)
  BY WorkerKnows
<1>2. PICK s \in 0 .. Depth + 1 : s = signals[i + 1]
  BY <1>1 DEF WorkerFacts
<1>3. /\ signals' = [signals EXCEPT ![i + 1] = s] /\ s <= signals[i + 1] /\ signals[i] <= s
      /\ s = IF w.pc \in {"waitAbove", "readAbove", "readSibling", "done"}
             THEN w.level ELSE w.level + 1
  BY <1>1, <1>2 DEF WorkerFacts
<1> QED
  BY <1>3, WorkerFrame

-----------------------------------------------------------------------------
(* One lemma per step of a worker. *)

LEMMA StartInv ==
    ASSUME IInv, NEW i \in 1 .. Len(worker), Start(i)
    PROVE  IInv'
<1> DEFINE w == [worker[i] EXCEPT !.pc = "waitLeaf", !.index = insertions[i].index,
                                  !.hash = hash(insertions[i].leaf)]
<1>1. WorkerFacts(i) /\ LevelsOK
  BY WorkerKnows DEF IInv
<1>2. worker[i].pc = "ready" /\ worker' = [worker EXCEPT ![i] = w] /\ signals' = signals
  BY DEF Start, Become
<1>3. w = [f \in Fields |-> w[f]] /\ w.pc = "waitLeaf" /\ w.level = worker[i].level
  BY <1>1 DEF WorkerFacts, Fields
<1>4. worker[i].level = Depth
  BY <1>1, <1>2 DEF LevelsOK
<1>5. w.level \in 0 .. Depth /\ signals[i + 1] = w.level + 1
  BY <1>1, <1>2, <1>3 DEF WorkerFacts
<1> HIDE DEF w
<1> QED
  BY <1>2, <1>3, <1>4, <1>5, QuietStep

LEMMA WaitLeafInv ==
    ASSUME IInv, NEW i \in 1 .. Len(worker), WaitLeaf(i)
    PROVE  IInv'
<1> DEFINE w == [worker[i] EXCEPT !.pc = "readLeaf"]
<1>1. WorkerFacts(i) /\ LevelsOK
  BY WorkerKnows DEF IInv
<1>2. /\ worker[i].pc = "waitLeaf" /\ worker' = [worker EXCEPT ![i] = w] /\ signals' = signals
      /\ signals[i] <= Depth - 1
  BY DEF WaitLeaf, WaitForLevel, Leader, Become
<1>3. w = [f \in Fields |-> w[f]] /\ w.pc = "readLeaf" /\ w.level = worker[i].level
  BY <1>1 DEF WorkerFacts, Fields
<1>4. worker[i].level = Depth
  BY <1>1, <1>2 DEF LevelsOK
<1>5. w.level \in 0 .. Depth /\ signals[i + 1] = w.level + 1
  BY <1>1, <1>2, <1>3 DEF WorkerFacts
<1> HIDE DEF w
<1> QED
  BY <1>2, <1>3, <1>4, <1>5, QuietStep

LEMMA WaitAboveInv ==
    ASSUME IInv, NEW i \in 1 .. Len(worker), WaitAbove(i)
    PROVE  IInv'
<1> DEFINE w == [worker[i] EXCEPT !.pc = "readAbove"]
<1>1. WorkerFacts(i) /\ LevelsOK
  BY WorkerKnows DEF IInv
<1>2. /\ worker[i].pc = "waitAbove" /\ worker' = [worker EXCEPT ![i] = w] /\ signals' = signals
      /\ signals[i] <= worker[i].level - 1
  BY DEF WaitAbove, WaitForLevel, Leader, Become
<1>3. w = [f \in Fields |-> w[f]] /\ w.pc = "readAbove" /\ w.level = worker[i].level
  BY <1>1 DEF WorkerFacts, Fields
<1>4. worker[i].level >= 2
  BY <1>1, <1>2 DEF LevelsOK
<1>5. w.level \in 0 .. Depth /\ signals[i + 1] = w.level
  BY <1>1, <1>2, <1>3 DEF WorkerFacts
<1> HIDE DEF w
<1> QED
  BY <1>2, <1>3, <1>4, <1>5, QuietStep

LEMMA WaitWriteInv ==
    ASSUME IInv, NEW i \in 1 .. Len(worker), WaitWrite(i)
    PROVE  IInv'
<1> DEFINE w == [worker[i] EXCEPT !.pc = "write"]
<1>1. WorkerFacts(i)
  BY WorkerKnows
<1>2. /\ worker[i].pc = "waitWrite" /\ worker' = [worker EXCEPT ![i] = w] /\ signals' = signals
      /\ signals[i] <= worker[i].level - 1
  BY DEF WaitWrite, WaitForLevel, Leader, Become
<1>3. w = [f \in Fields |-> w[f]] /\ w.pc = "write" /\ w.level = worker[i].level
  BY <1>1 DEF WorkerFacts, Fields
<1>4. w.level \in 0 .. Depth /\ signals[i + 1] = w.level + 1
  BY <1>1, <1>2, <1>3 DEF WorkerFacts
<1> HIDE DEF w
<1> QED
  BY <1>2, <1>3, <1>4, QuietStep

LEMMA ReadPairInv ==
    ASSUME IInv, NEW i \in 1 .. Len(worker), ReadPair(i)
    PROVE  IInv'
<1>1. WorkerFacts(i) /\ LevelsOK /\ FollowsLeader
  BY WorkerKnows DEF IInv
<1>2. signals' = signals /\ signals[i] <= worker[i].level - 1
  BY <1>1 DEF ReadPair, FollowsLeader
<1>3. CASE worker[i].pc = "readLeaf"
  <2> DEFINE w == [worker[i] EXCEPT !.pc = "write",
                                    !.path = <<PairAt(nodes, Depth, worker[i].index)>>]
  <2>1. worker' = [worker EXCEPT ![i] = w]
    BY <1>3 DEF ReadPair, Become
  <2>2. w = [f \in Fields |-> w[f]] /\ w.pc = "write" /\ w.level = worker[i].level
    BY <1>1 DEF WorkerFacts, Fields
  <2>3. w.level \in 0 .. Depth /\ signals[i + 1] = w.level + 1
    BY <1>1, <1>3, <2>2 DEF WorkerFacts
  <2> HIDE DEF w
  <2> QED
    BY <1>2, <2>1, <2>2, <2>3, QuietStep
<1>4. CASE worker[i].pc = "readAbove"
  <2> DEFINE w == [worker[i] EXCEPT !.pc = "readSibling",
                      !.path = Append(@, PairAt(nodes, worker[i].level - 1, worker[i].index \div 2))]
  <2>1. worker' = [worker EXCEPT ![i] = w]
    BY <1>4 DEF ReadPair, Become
  <2>2. w = [f \in Fields |-> w[f]] /\ w.pc = "readSibling" /\ w.level = worker[i].level
    BY <1>1 DEF WorkerFacts, Fields
  <2>3. w.level \in 0 .. Depth /\ signals[i + 1] = w.level /\ w.level >= 2
    BY <1>1, <1>4, <2>2 DEF WorkerFacts, LevelsOK
  <2>4. w.level >= 1
    BY <1>1, <2>3 DEF WorkerFacts
  <2> HIDE DEF w
  <2> QED
    BY <1>2, <2>1, <2>2, <2>3, <2>4, QuietStep
<1> QED
  BY <1>3, <1>4 DEF ReadPair

LEMMA ReadSiblingInv ==
    ASSUME IInv, NEW i \in 1 .. Len(worker), ReadSibling(i)
    PROVE  IInv'
<1> DEFINE p == IF worker[i].level = 1 THEN "write" ELSE "waitWrite"
           w == [worker[i] EXCEPT !.pc = p,
                    !.hash = Parent(nodes, worker[i].level, worker[i].index, worker[i].hash),
                    !.index = worker[i].index \div 2, !.level = worker[i].level - 1]
<1>1. WorkerFacts(i) /\ LevelsOK /\ FollowsLeader
  BY WorkerKnows DEF IInv
<1>2. /\ worker[i].pc = "readSibling" /\ worker' = [worker EXCEPT ![i] = w] /\ signals' = signals
  BY DEF ReadSibling, Become
<1>3. w = [f \in Fields |-> w[f]] /\ w.pc = p /\ w.level = worker[i].level - 1
  BY <1>1 DEF WorkerFacts, Fields
<1>4. signals[i] <= worker[i].level - 1 /\ worker[i].level >= 1
  BY <1>1, <1>2 DEF LevelsOK, FollowsLeader
<1> HIDE DEF w
<1>5. /\ w.level \in 0 .. Depth /\ signals[i + 1] = w.level + 1 /\ signals[i] <= w.level
      /\ signals[i] \in Nat
  BY <1>1, <1>2, <1>3, <1>4 DEF WorkerFacts
<1>6. p = "write" => signals[i] = 0
  BY <1>3, <1>5
<1>7. p = "waitWrite" => w.level >= 1
  BY <1>1, <1>3, <1>4 DEF WorkerFacts
<1>8. p \in {"write", "waitWrite"}
  OBVIOUS
<1> HIDE DEF p
<1>9. CASE p = "write"
  BY <1>2, <1>3, <1>5, <1>6, <1>9, QuietStep
<1>10. CASE p = "waitWrite"
  BY <1>2, <1>3, <1>5, <1>7, <1>10, QuietStep
<1> QED
  BY <1>8, <1>9, <1>10

LEMMA WriteNodeInv ==
    ASSUME IInv, NEW i \in 1 .. Len(worker), WriteNode(i)
    PROVE  IInv'
<1> DEFINE w == [worker[i] EXCEPT !.pc = "signal"]
<1>1. WorkerFacts(i) /\ FollowsLeader
  BY WorkerKnows DEF IInv
<1>2. worker[i].pc = "write" /\ worker' = [worker EXCEPT ![i] = w] /\ signals' = signals
  BY DEF WriteNode, Become
<1>3. w = [f \in Fields |-> w[f]] /\ w.pc = "signal" /\ w.level = worker[i].level
  BY <1>1 DEF WorkerFacts, Fields
<1>4. w.level \in 0 .. Depth /\ signals[i + 1] = w.level + 1
  BY <1>1, <1>2, <1>3 DEF WorkerFacts
<1>5. signals[i] <= w.level - 1 \/ signals[i] = 0
  BY <1>1, <1>2, <1>3 DEF FollowsLeader
<1> HIDE DEF w
<1> QED
  BY <1>2, <1>3, <1>4, <1>5, QuietStep

(* The only step that changes a signal: it lowers it by one. *)
LEMMA SignalLevelInv ==
    ASSUME IInv, NEW i \in 1 .. Len(worker), SignalLevel(i)
    PROVE  IInv'
<1> DEFINE p == CASE worker[i].level = 0 -> "done"
                  [] worker[i].level = 1 -> "readSibling"
                  [] OTHER -> "waitAbove"
           w == [worker[i] EXCEPT !.pc = p]
<1>1. WorkerFacts(i) /\ FollowsLeader
  BY WorkerKnows DEF IInv
<1>2. PICK s \in 0 .. Depth : s = worker[i].level
  BY <1>1 DEF WorkerFacts
<1>3. /\ worker[i].pc = "signal" /\ worker' = [worker EXCEPT ![i] = w]
      /\ signals' = [signals EXCEPT ![i + 1] = s]
  BY <1>2 DEF SignalLevel, Become
<1>4. w = [f \in Fields |-> w[f]] /\ w.pc = p /\ w.level = s
  BY <1>1, <1>2 DEF WorkerFacts, Fields
<1> HIDE DEF w
<1>5. signals[i + 1] = s + 1 /\ signals[i] \in Nat /\ Depth \in Nat
  BY <1>1, <1>2, <1>3 DEF WorkerFacts
<1>6. signals[i] <= s - 1 \/ signals[i] = 0
  BY <1>1, <1>2, <1>3 DEF FollowsLeader
<1>7. s \in 0 .. Depth + 1 /\ s <= signals[i + 1] /\ signals[i] <= s
  BY <1>5, <1>6
<1>8. /\ s = 0 => p = "done" /\ signals[i] = 0
      /\ s = 1 => p = "readSibling" /\ signals[i] <= s - 1
      /\ s # 0 /\ s # 1 => p = "waitAbove" /\ s >= 2 /\ signals[i] <= s - 1
  BY <1>2, <1>5, <1>6
<1> HIDE DEF p
<1>9. CASE s = 0
  BY <1>3, <1>4, <1>7, <1>8, <1>9, WorkerFrame
<1>10. CASE s = 1
  <2>1. w.pc = "readSibling" /\ w.level >= 1 /\ signals[i] <= w.level - 1 /\ w.level \in 0 .. Depth
    BY <1>2, <1>4, <1>8, <1>10
  <2> QED
    BY <1>3, <1>4, <1>7, <2>1, WorkerFrame
<1>11. CASE s # 0 /\ s # 1
  BY <1>3, <1>4, <1>7, <1>8, <1>11, WorkerFrame
<1> QED
  BY <1>9, <1>10, <1>11

(* Nothing of the argument changes when the subtree is appended. *)
LEMMA QuietInv ==
    ASSUME IInv, UNCHANGED <<worker, signals>>
    PROVE  IInv'
BY DEF IInv, Types, LevelsOK, SignalsOK, FollowsLeader, Ascending

-----------------------------------------------------------------------------

(***************************************************************************)
(* The level signals of add_or_update_values keep the workers in a line:   *)
(* each has signalled exactly the levels it wrote, is at a level only when *)
(* its leader is past it, and no worker is ahead of any leader.            *)
(***************************************************************************)
THEOREM LevelsInvariant == Spec => []IInv
<1>1. IInv /\ [Next]_vars => IInv'
  <2> SUFFICES ASSUME IInv, [Next]_vars
               PROVE  IInv'
    OBVIOUS
  <2>1. ASSUME NEW b \in Batches, AddOrUpdateValues(b)
        PROVE  IInv'
    BY <2>1, BatchInv
  <2>2. ASSUME NEW i \in Workers, WorkerStep(i)
        PROVE  IInv'
    <3>1. i \in 1 .. Len(worker)
      BY DEF Workers, IInv, Types
    <3> QED
      BY <2>2, <3>1, StartInv, WaitLeafInv, WaitAboveInv, WaitWriteInv, ReadPairInv,
         ReadSiblingInv, WriteNodeInv, SignalLevelInv DEF WorkerStep
  <2>3. CASE AppendSubtree
    BY <2>3, QuietInv DEF AppendSubtree
  <2>4. CASE UNCHANGED vars
    BY <2>4, QuietInv DEF vars
  <2> QED
    BY <2>1, <2>2, <2>3, <2>4 DEF Next
<1> QED
  BY <1>1, InitInv, PTL DEF Spec

(* The level of every slot a worker reads or writes next. *)
LEMMA TouchedLevels ==
    ASSUME NEW w, w.level \in Nat
    PROVE  /\ \A x \in Writes(w) : w.pc = "write" /\ x[1] = w.level
           /\ \A x \in Reads(w) : \/ w.pc = "readLeaf" /\ x[1] = Depth
                                  \/ w.pc = "readAbove" /\ x[1] = w.level - 1
                                  \/ w.pc = "readSibling" /\ x[1] = w.level
<1>1. \A x \in Writes(w) : w.pc = "write" /\ x[1] = w.level
  BY DEF Writes
<1>2. w.pc = "readLeaf" => \A x \in Reads(w) : x[1] = Depth
  BY DEF Reads
<1>3. w.pc = "readAbove" => \A x \in Reads(w) : x[1] = w.level - 1
  BY DEF Reads
<1>4. w.pc = "readSibling" => \A x \in Reads(w) : x[1] = w.level
  BY DEF Reads
<1>5. w.pc \notin {"readLeaf", "readAbove", "readSibling"} => Reads(w) = {}
  BY DEF Reads
<1> QED
  BY <1>1, <1>2, <1>3, <1>4, <1>5

(* Two workers: the one behind in the line is at a deeper level. *)
LEMMA LevelsDiffer ==
    ASSUME IInv, NEW i \in 1 .. Len(worker), NEW j \in 1 .. Len(worker), i # j,
           worker[i].pc = "write",
           NEW x \in Writes(worker[i]), NEW y \in Writes(worker[j]) \cup Reads(worker[j])
    PROVE  x[1] # y[1]
<1>1. /\ LevelsOK /\ FollowsLeader /\ Ascending /\ Types
      /\ WorkerFacts(i) /\ WorkerFacts(j)
  BY WorkerKnows DEF IInv
<1>2. /\ worker[i].level \in Nat /\ worker[j].level \in Nat
      /\ signals[i] \in Nat /\ signals[i + 1] \in Nat
      /\ signals[j] \in Nat /\ signals[j + 1] \in Nat
      /\ signals[i + 1] = worker[i].level + 1 /\ Depth \in Nat
  BY <1>1, SMTT(20) DEF WorkerFacts
<1>3. x[1] = worker[i].level
  BY <1>2, TouchedLevels
<1>4. \/ worker[j].pc = "write" /\ y[1] = worker[j].level
      \/ worker[j].pc = "readLeaf" /\ y[1] = worker[j].level
      \/ worker[j].pc = "readAbove" /\ y[1] = worker[j].level - 1
      \/ worker[j].pc = "readSibling" /\ y[1] = worker[j].level
  <2>1. worker[j].pc = "readLeaf" => worker[j].level = Depth
    BY <1>1 DEF LevelsOK
  <2> QED
    BY <1>2, <2>1, TouchedLevels
<1>5. Len(worker) \in Nat /\ worker # <<>>
  BY <1>1 DEF Types
<1>6. CASE i < j
  <2>1. i + 1 <= j /\ i + 1 \in 1 .. Len(worker) + 1 /\ j \in 1 .. Len(worker) + 1
    BY <1>5, <1>6
  <2>2. signals[i + 1] <= signals[j]
    BY <1>1, <1>5, <2>1 DEF Ascending
  <2>3. signals[j] # 0
    BY <1>2, <2>2
  <2>4. signals[j] <= worker[j].level - 1
    BY <1>1, <1>4, <2>3 DEF FollowsLeader
  <2> QED
    BY <1>2, <1>3, <1>4, <2>2, <2>4
<1>7. CASE j < i
  <2>1. j + 1 <= i /\ j + 1 \in 1 .. Len(worker) + 1 /\ i \in 1 .. Len(worker) + 1
    BY <1>5, <1>7
  <2>2. signals[j + 1] <= signals[i]
    BY <1>1, <1>5, <2>1 DEF Ascending
  <2>3. signals[i] <= worker[i].level - 1 \/ signals[i] = 0
    BY <1>1 DEF FollowsLeader
  <2>4. \/ worker[j].pc \in {"write", "readLeaf"} /\ signals[j + 1] = worker[j].level + 1
        \/ worker[j].pc \in {"readAbove", "readSibling"} /\ signals[j + 1] = worker[j].level
    BY <1>1, <1>4 DEF WorkerFacts
  <2>5. /\ worker[j].pc = "readAbove" => worker[j].level >= 2
        /\ worker[j].pc = "readSibling" => worker[j].level >= 1
    BY <1>1 DEF LevelsOK
  <2>6. signals[i] # 0
    BY <1>2, <2>2, <2>4, <2>5
  <2>7. signals[j + 1] <= worker[i].level - 1
    BY <1>2, <2>2, <2>3, <2>6, SMTT(20)
  <2>8. y[1] = worker[j].level \/ y[1] = worker[j].level - 1
    BY <1>4
  <2>9. worker[j].level <= signals[j + 1]
    BY <1>2, <2>4
  <2> QED
    BY <1>2, <1>3, <2>7, <2>8, <2>9, SMTT(20)
<1> QED
  BY <1>6, <1>7

(***************************************************************************)
(* Whatever the depth, the number of threads, the batch and the schedule,  *)
(* no worker of update_leaf_and_hash_to_root writes a node of the store    *)
(* while another reads or writes it.                                       *)
(***************************************************************************)
THEOREM RaceFree == Spec => []NoDataRace
<1>1. IInv => NoDataRace
  <2> SUFFICES ASSUME IInv, NEW i \in Workers, NEW j \in Workers, i # j,
                      NEW x \in Writes(worker[i]),
                      x \in Writes(worker[j]) \cup Reads(worker[j])
               PROVE  FALSE
    BY DEF NoDataRace
  <2>1. i \in 1 .. Len(worker) /\ j \in 1 .. Len(worker) /\ worker[i].level \in Nat
    BY TreeAssumption DEF IInv, Types, Workers
  <2>2. worker[i].pc = "write"
    BY <2>1, TouchedLevels
  <2> QED
    BY <2>1, <2>2, LevelsDiffer
<1> QED
  BY <1>1, LevelsInvariant, PTL

-----------------------------------------------------------------------------
(* The list of leaves *)

\* Leaf and index of value v are those of an ascending list through all values.
InList(ls, ix, v) ==
    LET leaf == ls[ix[v]]
    IN  /\ leaf[1] = v
        /\ \/ /\ \A w \in DOMAIN ix : w <= v
              /\ leaf[2] = 0 /\ leaf[3] = 0
           \/ /\ leaf[3] \in DOMAIN ix /\ leaf[3] > v
              /\ \A w \in DOMAIN ix : w > v => leaf[3] <= w
              /\ leaf[2] = ix[leaf[3]]

\* SortedList, with the types of leaves and indices.  Value 0 is never absent, so
\* that every new value has a low leaf.
ListOK(ls, ix) ==
    /\ DOMAIN ix \in SUBSET Nat /\ 0 \in DOMAIN ix
    /\ \E k \in Nat : DOMAIN ls = 0 .. k - 1
    /\ \A v \in DOMAIN ix : ix[v] \in DOMAIN ls
    /\ \A v \in DOMAIN ix : InList(ls, ix, v)

(* Every nonempty set of natural numbers has a least element. *)
LEMMA NatMin ==
    ASSUME NEW D \in SUBSET Nat, D # {}
    PROVE  \E x \in D : \A y \in D : x <= y
<1> DEFINE R == {ss \in Nat \X Nat : ss[1] < ss[2]}
<1>1. OpToRel(<, Nat) = R
  BY DEF OpToRel
<1>2. IsWellFoundedOn(OpToRel(<, Nat), Nat)
  BY NatLessThanWellFounded
<1>3. \E x \in D : \A y \in D : ~ (<<y, x>> \in OpToRel(<, Nat))
  BY <1>2, WFMin
<1> HIDE DEF R
<1>4. PICK x \in D : \A y \in D : ~ (<<y, x>> \in R)
  BY <1>1, <1>3, Zenon
<1>5. ASSUME NEW y \in D
      PROVE  x <= y
  <2>1. x \in Nat /\ y \in Nat
    OBVIOUS
  <2>2. <<y, x>> \in R <=> y < x
    BY <2>1 DEF R
  <2> QED
    BY <1>4, <2>1, <2>2
<1> QED
  BY <1>5

(* A value that is not in the tree has a low value. *)
LEMMA LowExists ==
    ASSUME NEW D \in SUBSET Nat, 0 \in D, NEW value \in Nat, value \notin D
    PROVE  \E v \in D : v < value /\ \A w \in D : w < value => w <= v
<1> DEFINE E == {value - v : v \in {w \in D : w < value}}
<1>1. E \in SUBSET Nat /\ E # {}
  <2>1. value - 0 \in E /\ 0 < value
    OBVIOUS
  <2> QED
    BY <2>1
<1>2. PICK x \in E : \A y \in E : x <= y
  BY <1>1, NatMin
<1>3. PICK v \in D : v < value /\ x = value - v
  BY <1>2
<1>4. ASSUME NEW w \in D, w < value
      PROVE  w <= v
  <2>1. value - w \in E
    BY <1>4
  <2>2. x <= value - w
    BY <1>2, <2>1
  <2> QED
    BY <1>3, <2>2
<1> QED
  BY <1>3, <1>4

(* find_low_value of a value that is not in the tree. *)
LEMMA FindLowValueIs ==
    ASSUME NEW ix, DOMAIN ix \in SUBSET Nat, 0 \in DOMAIN ix,
           NEW value \in Nat, value \notin DOMAIN ix
    PROVE  \E low \in DOMAIN ix :
               /\ low < value /\ \A w \in DOMAIN ix : w < value => w <= low
               /\ FindLowValue(ix, value) = <<FALSE, ix[low]>>
<1> DEFINE P(v) == v < value /\ \A w \in DOMAIN ix : w < value => w <= v
           low == CHOOSE v \in DOMAIN ix : P(v)
<1>1. \E v \in DOMAIN ix : P(v)
  BY LowExists
<1>2. low \in DOMAIN ix /\ P(low)
  BY <1>1
<1>3. FindLowValue(ix, value) = <<FALSE, ix[low]>>
  BY DEF FindLowValue
<1> QED
  BY <1>2, <1>3

(* The number of leaves. *)
LEMMA SizeIs ==
    ASSUME NEW ls, NEW k \in Nat, DOMAIN ls = 0 .. k - 1
    PROVE  Size(ls) = k
<1>1. 0 \in Int /\ k - 1 \in Int
  OBVIOUS
<1>2. Cardinality(0 .. k - 1) = IF 0 > k - 1 THEN 0 ELSE (k - 1) - 0 + 1
  BY <1>1, FS_Interval
<1> QED
  BY <1>2 DEF Size

(* set_at_index writes one leaf, and grows the vector up to it. *)
LEMMA SetAtIndexIs ==
    ASSUME NEW ls, NEW k \in Nat, DOMAIN ls = 0 .. k - 1, NEW index \in Nat, NEW leaf
    PROVE  LET r == SetAtIndex(ls, index, leaf)
           IN  /\ \E n \in Nat : DOMAIN r = 0 .. n - 1 /\ k <= n /\ index < n
               /\ r[index] = leaf
               /\ \A i \in 0 .. k - 1 : i # index => r[i] = ls[i]
<1> DEFINE n == IF index >= k THEN index + 1 ELSE k
           r == [i \in 0 .. n - 1 |-> IF i = index THEN leaf ELSE IF i < k THEN ls[i] ELSE ZeroLeaf]
<1>1. SetAtIndex(ls, index, leaf) = r
  BY SizeIs DEF SetAtIndex
<1>2. n \in Nat /\ k <= n /\ index < n
  OBVIOUS
<1> HIDE DEF n
<1>3. DOMAIN r = 0 .. n - 1 /\ index \in 0 .. n - 1 /\ r[index] = leaf
  BY <1>2
<1>4. ASSUME NEW i \in 0 .. k - 1, i # index
      PROVE  r[i] = ls[i]
  BY <1>2, <1>4
<1> HIDE DEF r
<1> QED
  BY <1>1, <1>2, <1>3, <1>4

(* One round of the loop over the values keeps the list, whether the value   *)
(* is new or not: the index of the new leaf belongs to no value.             *)
LEMMA LinkKeepsList ==
    ASSUME NEW st, ListOK(st.ls, st.ix), NEW value \in Nat, NEW index \in Nat,
           \A v \in DOMAIN st.ix : st.ix[v] # index
    PROVE  LET e == Link(st, value, index)
           IN  /\ ListOK(e.ls, e.ix)
               /\ \A v \in DOMAIN e.ix : \/ v \in DOMAIN st.ix /\ e.ix[v] = st.ix[v]
                                         \/ e.ix[v] = index
<1> DEFINE e == Link(st, value, index)
           ls == st.ls
           ix == st.ix
           find == FindLowValue(st.ix, value)
<1>0. ListOK(ls, ix) /\ \A v \in DOMAIN ix : ix[v] # index
  OBVIOUS
<1>1. CASE value \in DOMAIN ix
  <2>1. find[1] = TRUE
    BY <1>1 DEF FindLowValue
  <2>2. PICK x : e = [st EXCEPT !.ins = x]
    BY <2>1 DEF Link
  <2>3. e.ls = st.ls /\ e.ix = st.ix
    BY <2>2
  <2> QED
    BY <2>3
<1>2. CASE value \notin DOMAIN ix
  <2>1. DOMAIN ix \in SUBSET Nat /\ 0 \in DOMAIN ix
    BY <1>0 DEF ListOK
  <2>2. PICK low \in DOMAIN ix :
            /\ low < value /\ \A w \in DOMAIN ix : w < value => w <= low
            /\ find = <<FALSE, ix[low]>>
    BY <1>2, <2>1, FindLowValueIs
  <2> DEFINE current == ls[ix[low]]
             linked == <<current[1], index, value>>
             l1 == SetAtIndex(ls, ix[low], linked)
             l2 == SetAtIndex(l1, index, <<value, current[2], current[3]>>)
             i2 == [v \in DOMAIN ix \cup {value} |-> IF v = value THEN index ELSE ix[v]]
  <2>3. e.ls = l2 /\ e.ix = i2
    <3>1. find[1] = FALSE /\ find[2] = ix[low]
      BY <2>2
    <3>2. e = [ls |-> l2, ix |-> i2, ins |-> Append(st.ins, [index |-> ix[low], leaf |-> linked])]
      BY <3>1 DEF Link
    <3> HIDE DEF l2, i2, linked
    <3> QED
      BY <3>2
  <2>4. PICK k \in Nat : DOMAIN ls = 0 .. k - 1
    BY <1>0 DEF ListOK
  <2>5. /\ \A v \in DOMAIN ix : ix[v] \in 0 .. k - 1 /\ ix[v] # index
        /\ \A v \in DOMAIN ix : InList(ls, ix, v)
    BY <1>0, <2>4 DEF ListOK
  <2>6. ix[low] \in Nat
    BY <2>5
  <2> HIDE DEF linked, current
  <2>7. PICK k1 \in Nat : DOMAIN l1 = 0 .. k1 - 1 /\ k <= k1
    BY <2>4, <2>6, SetAtIndexIs
  <2>8. l1[ix[low]] = linked /\ \A i \in 0 .. k - 1 : i # ix[low] => l1[i] = ls[i]
    BY <2>4, <2>6, SetAtIndexIs
  <2> HIDE DEF l1
  <2>9. PICK k2 \in Nat : DOMAIN l2 = 0 .. k2 - 1 /\ k1 <= k2 /\ index < k2
    BY <2>7, SetAtIndexIs, SMTT(20)
  <2>10. /\ l2[index] = <<value, current[2], current[3]>>
         /\ \A i \in 0 .. k1 - 1 : i # index => l2[i] = l1[i]
    BY <2>7, SetAtIndexIs
  <2> HIDE DEF l2
  <2>11. ASSUME NEW v \in DOMAIN ix
         PROVE  /\ ix[v] \in DOMAIN l2
                /\ v # low => l2[ix[v]] = ls[ix[v]]
                /\ v = low => l2[ix[v]] = linked
    <3>1. ix[v] \in 0 .. k - 1 /\ ix[v] # index /\ ix[v] \in 0 .. k1 - 1 /\ ix[v] \in 0 .. k2 - 1
      BY <2>5, <2>7, <2>9
    <3>2. l2[ix[v]] = l1[ix[v]]
      BY <2>10, <3>1
    <3>3. v # low => ix[v] # ix[low]
      BY <2>5 DEF InList
    <3> QED
      BY <2>8, <2>9, <3>1, <3>2, <3>3
  <2>12. /\ DOMAIN i2 = DOMAIN ix \cup {value} /\ i2[value] = index
         /\ \A v \in DOMAIN ix : i2[v] = ix[v]
    BY <1>2
  <2> HIDE DEF i2
  <2>13. current[1] = low /\ InList(ls, ix, low)
    BY <2>5 DEF InList, current
  <2>14. InList(l2, i2, low)
    <3>1. l2[i2[low]] = <<low, index, value>>
      BY <2>11, <2>12, <2>13 DEF linked
    <3>2. \A w \in DOMAIN i2 : w > low => value <= w
      BY <2>1, <2>2, <2>12
    <3> QED
      BY <2>2, <2>12, <3>1, <3>2 DEF InList
  <2>15. InList(l2, i2, value)
    <3>1. l2[i2[value]] = <<value, current[2], current[3]>>
      BY <2>10, <2>12
    <3>2. \A w \in DOMAIN ix : w > low <=> w > value
      BY <1>2, <2>1, <2>2
    <3>3. CASE /\ \A w \in DOMAIN ix : w <= low
               /\ current[2] = 0 /\ current[3] = 0
      <4>1. \A w \in DOMAIN i2 : w <= value
        BY <2>1, <2>2, <2>12, <3>3
      <4> QED
        BY <3>1, <3>3, <4>1 DEF InList
    <3>4. CASE /\ current[3] \in DOMAIN ix /\ current[3] > low
               /\ \A w \in DOMAIN ix : w > low => current[3] <= w
               /\ current[2] = ix[current[3]]
      <4>1. current[3] > value /\ current[3] \in DOMAIN i2 /\ current[2] = i2[current[3]]
        BY <2>12, <3>2, <3>4
      <4>2. \A w \in DOMAIN i2 : w > value => current[3] <= w
        BY <2>12, <3>2, <3>4
      <4> QED
        BY <3>1, <4>1, <4>2 DEF InList
    <3> QED
      BY <2>13, <3>3, <3>4 DEF InList, current
  <2>16. ASSUME NEW v \in DOMAIN ix, v # low
         PROVE  InList(l2, i2, v)
    <3> DEFINE leaf == ls[ix[v]]
    <3>1. l2[i2[v]] = leaf
      BY <2>11, <2>12, <2>16
    <3>2. /\ leaf[1] = v
          /\ \/ (\A w \in DOMAIN ix : w <= v) /\ leaf[2] = 0 /\ leaf[3] = 0
             \/ /\ leaf[3] \in DOMAIN ix /\ leaf[3] > v
                /\ \A w \in DOMAIN ix : w > v => leaf[3] <= w
                /\ leaf[2] = ix[leaf[3]]
      BY <2>5 DEF InList
    <3> HIDE DEF leaf
    <3>3. CASE (\A w \in DOMAIN ix : w <= v) /\ leaf[2] = 0 /\ leaf[3] = 0
      <4>1. value <= v
        BY <2>1, <2>2, <2>16, <3>3
      <4> QED
        BY <2>12, <3>1, <3>2, <3>3, <4>1 DEF InList
    <3>4. CASE /\ leaf[3] \in DOMAIN ix /\ leaf[3] > v
               /\ \A w \in DOMAIN ix : w > v => leaf[3] <= w
               /\ leaf[2] = ix[leaf[3]]
      <4>1. value > v => leaf[3] <= value
        BY <2>1, <2>2, <2>16, <3>4
      <4> QED
        BY <2>12, <3>1, <3>2, <3>4, <4>1 DEF InList
    <3> QED
      BY <3>2, <3>3, <3>4
  <2>17. ListOK(l2, i2)
    <3>1. DOMAIN i2 \in SUBSET Nat /\ 0 \in DOMAIN i2
      BY <2>1, <2>12
    <3>2. \A v \in DOMAIN i2 : i2[v] \in DOMAIN l2
      BY <2>9, <2>11, <2>12
    <3>3. \A v \in DOMAIN i2 : InList(l2, i2, v)
      BY <2>12, <2>14, <2>15, <2>16
    <3> QED
      BY <2>9, <3>1, <3>2, <3>3 DEF ListOK
  <2> QED
    BY <2>3, <2>12, <2>17
<1> QED
  BY <1>1, <1>2

\* One unfolding of the recursion in LinkAll, up to round n.
IsLinking(f, values, order, n) ==
    f = [i \in 0 .. n |->
            IF i = 0 THEN [ls |-> leaves, ix |-> indices, ins |-> <<>>]
            ELSE Link(f[i - 1], values[order[i]], Size(leaves) + order[i] - 1)]

(* The rounds of the loop exist. *)
LEMMA LinkingExists ==
    ASSUME NEW values, NEW order, NEW n \in Nat
    PROVE  \E f : IsLinking(f, values, order, n)
<1> DEFINE start == [ls |-> leaves, ix |-> indices, ins |-> <<>>]
           Round(s, i) == Link(s, values[order[i]], Size(leaves) + order[i] - 1)
           D == {k \in Nat : ~ \E f : IsLinking(f, values, order, k)}
<1>1. \A f, k : IsLinking(f, values, order, k) <=>
          f = [i \in 0 .. k |-> IF i = 0 THEN start ELSE Round(f[i - 1], i)]
  BY DEF IsLinking
<1> HIDE DEF start, Round
<1> SUFFICES ASSUME D # {} PROVE FALSE
  OBVIOUS
<1>2. PICK k \in D : \A y \in D : k <= y
  BY NatMin
<1>3. k # 0
  <2> DEFINE f == [i \in 0 .. 0 |-> start]
  <2>1. f = [i \in 0 .. 0 |-> IF i = 0 THEN start ELSE Round(f[i - 1], i)]
    <3>1. \A i \in 0 .. 0 : i = 0
      OBVIOUS
    <3> QED
      BY <3>1
  <2> HIDE DEF f
  <2>2. IsLinking(f, values, order, 0)
    BY <1>1, <2>1
  <2> QED
    BY <2>2
<1>4. k - 1 \in Nat /\ k - 1 \notin D
  BY <1>2, <1>3
<1>5. PICK g : IsLinking(g, values, order, k - 1)
  BY <1>4
<1> DEFINE f == [i \in 0 .. k |-> IF i = k THEN Round(g[k - 1], k) ELSE g[i]]
<1>6. /\ k - 1 \in 0 .. k - 1
      /\ \A i \in 0 .. k - 1 : g[i] = IF i = 0 THEN start ELSE Round(g[i - 1], i)
  BY <1>1, <1>4, <1>5
<1>7. ASSUME NEW i \in 0 .. k
      PROVE  f[i] = IF i = 0 THEN start ELSE Round(f[i - 1], i)
  <2>1. CASE i = k
    <3>1. f[i - 1] = g[k - 1] /\ f[i] = Round(g[k - 1], k)
      BY <1>3, <1>4, <2>1
    <3> QED
      BY <1>3, <2>1, <3>1
  <2>2. CASE i # k
    <3>1. i \in 0 .. k - 1 /\ f[i] = g[i]
      BY <2>2
    <3>2. i # 0 => i - 1 \in 0 .. k /\ i - 1 # k /\ f[i - 1] = g[i - 1]
      BY <3>1
    <3> HIDE DEF f
    <3> QED
      BY <1>6, <3>1, <3>2
  <2> QED
    BY <2>1, <2>2
<1>8. f = [i \in 0 .. k |-> f[i]]
  OBVIOUS
<1> HIDE DEF f
<1>9. [i \in 0 .. k |-> f[i]] = [i \in 0 .. k |-> IF i = 0 THEN start ELSE Round(f[i - 1], i)]
  BY <1>7
<1>10. IsLinking(f, values, order, k)
  BY <1>1, <1>8, <1>9
<1> QED
  BY <1>10

(* A whole batch keeps the list. *)
LEMMA BatchKeepsList ==
    ASSUME ListOK(leaves, indices), NEW values \in Seq(Nat), NEW order \in SortedOrders(values)
    PROVE  ListOK(LinkAll(values, order).ls, LinkAll(values, order).ix)
<1> DEFINE N == Len(values)
           st == CHOOSE f : IsLinking(f, values, order, N)
           Round(s, i) == Link(s, values[order[i]], Size(leaves) + order[i] - 1)
<1>1. LinkAll(values, order) = st[N]
  BY DEF LinkAll, IsLinking
<1>2. N \in Nat /\ \A i \in 1 .. N : values[i] \in Nat
  OBVIOUS
<1>3. IsLinking(st, values, order, N)
  BY <1>2, LinkingExists
<1> HIDE DEF st
<1>4. /\ order \in [1 .. N -> 1 .. N]
      /\ \A i, j \in 1 .. N : i # j => order[i] # order[j]
  BY DEF SortedOrders
<1>5. PICK k \in Nat : DOMAIN leaves = 0 .. k - 1 /\ Size(leaves) = k
  BY SizeIs DEF ListOK
<1>6. /\ st[0].ls = leaves /\ st[0].ix = indices
      /\ \A i \in 1 .. N : st[i] = Round(st[i - 1], i)
  BY <1>2, <1>3 DEF IsLinking
<1> HIDE DEF Round
\* After round i the list is sorted, and a value is at an index of before the batch
\* or at one that an earlier round filled.
<1> DEFINE OK(i) == /\ ListOK(st[i].ls, st[i].ix)
                    /\ \A v \in DOMAIN st[i].ix :
                          \/ st[i].ix[v] < k
                          \/ \E j \in 1 .. i : st[i].ix[v] = k + order[j] - 1
           D == {i \in 0 .. N : ~ OK(i)}
<1>7. OK(0)
  <2>1. \A v \in DOMAIN indices : indices[v] \in 0 .. k - 1
    BY <1>5 DEF ListOK
  <2> QED
    BY <1>5, <1>6, <2>1
<1>8. ASSUME NEW i \in 1 .. N, OK(i - 1)
      PROVE  OK(i)
  <2> DEFINE value == values[order[i]]
             index == k + order[i] - 1
  <2>1. order[i] \in 1 .. N /\ value \in Nat /\ index \in Nat /\ index >= k
    BY <1>2, <1>4
  <2>2. st[i] = Link(st[i - 1], value, index)
    BY <1>5, <1>6 DEF Round
  <2>3. ListOK(st[i - 1].ls, st[i - 1].ix)
    BY <1>8
  <2>4. ASSUME NEW v \in DOMAIN st[i - 1].ix
        PROVE  st[i - 1].ix[v] # index
    <3>1. CASE st[i - 1].ix[v] < k
      BY <2>1, <3>1
    <3>2. CASE \E j \in 1 .. i - 1 : st[i - 1].ix[v] = k + order[j] - 1
      <4>1. PICK j \in 1 .. i - 1 : st[i - 1].ix[v] = k + order[j] - 1
        BY <3>2
      <4>2. j \in 1 .. N /\ j # i
        BY <1>2
      <4>3. order[j] \in Nat /\ order[i] \in Nat /\ order[j] # order[i]
        <5>1. \A x \in 1 .. N : order[x] \in 1 .. N
          BY <1>4
        <5>2. \A x \in 1 .. N : x \in Nat
          BY <1>2
        <5> QED
          BY <1>4, <4>2, <5>1, <5>2
      <4>4. k + order[j] - 1 # k + order[i] - 1
        BY <4>3
      <4> QED
        BY <4>1, <4>4
    <3> QED
      BY <1>8, <3>1, <3>2
  <2> HIDE DEF value, index
  <2>5. /\ ListOK(st[i].ls, st[i].ix)
        /\ \A v \in DOMAIN st[i].ix :
              \/ v \in DOMAIN st[i - 1].ix /\ st[i].ix[v] = st[i - 1].ix[v]
              \/ st[i].ix[v] = index
    <3> DEFINE p == st[i - 1]
               e == Link(p, value, index)
    <3>1. /\ ListOK(p.ls, p.ix) /\ value \in Nat /\ index \in Nat
          /\ \A v \in DOMAIN p.ix : p.ix[v] # index
      BY <2>1, <2>3, <2>4
    <3> HIDE DEF p
    <3>2. /\ ListOK(e.ls, e.ix)
          /\ \A v \in DOMAIN e.ix : \/ v \in DOMAIN p.ix /\ e.ix[v] = p.ix[v]
                                    \/ e.ix[v] = index
      BY <3>1, LinkKeepsList
    <3>3. st[i] = e
      BY <2>2 DEF p
    <3> HIDE DEF e
    <3> QED
      BY <3>2, <3>3 DEF p
  <2>6. ASSUME NEW v \in DOMAIN st[i].ix
        PROVE  \/ st[i].ix[v] < k
               \/ \E j \in 1 .. i : st[i].ix[v] = k + order[j] - 1
    <3>1. CASE st[i].ix[v] = index
      <4>1. i \in 1 .. i
        BY <1>2
      <4> QED
        BY <3>1, <4>1 DEF index
    <3>2. CASE v \in DOMAIN st[i - 1].ix /\ st[i].ix[v] = st[i - 1].ix[v]
      <4>1. \A j \in 1 .. i - 1 : j \in 1 .. i
        BY <1>2
      <4> QED
        BY <1>8, <3>2, <4>1
    <3> QED
      BY <2>5, <3>1, <3>2
  <2> QED
    BY <2>5, <2>6
<1> HIDE DEF OK
<1>9. D = {}
  <2> SUFFICES ASSUME D # {} PROVE FALSE
    OBVIOUS
  <2>1. PICK i \in D : \A y \in D : i <= y
    <3>1. D \in SUBSET Nat
      BY <1>2
    <3> QED
      BY <3>1, NatMin
  <2>2. i \in 1 .. N
    BY <1>2, <1>7, <2>1
  <2>3. i - 1 \in 0 .. N /\ i - 1 \notin D
    BY <1>2, <2>1, <2>2
  <2> QED
    BY <1>8, <2>1, <2>2, <2>3
<1>10. OK(N)
  BY <1>2, <1>9
<1> QED
  BY <1>1, <1>10 DEF OK

(* The list invariant is inductive. *)
LEMMA ListInvariant == Spec => []ListOK(leaves, indices)
<1>1. Init => ListOK(leaves, indices)
  <2> SUFFICES ASSUME Init PROVE ListOK(leaves, indices)
    OBVIOUS
  <2> DEFINE n == InitialSize
  <2>1. n \in Nat /\ n >= 1
    BY TreeAssumption
  <2>2. /\ leaves = [i \in 0 .. n - 1 |-> IF i = n - 1 THEN <<i, 0, 0>> ELSE <<i, i + 1, i + 1>>]
        /\ indices = [v \in 0 .. n - 1 |-> v]
    BY DEF Init, InitialLeaves
  <2> HIDE DEF n
  <2>3. /\ DOMAIN leaves = 0 .. n - 1 /\ DOMAIN indices = 0 .. n - 1
        /\ \A v \in 0 .. n - 1 :
              /\ indices[v] = v
              /\ leaves[v] = IF v = n - 1 THEN <<v, 0, 0>> ELSE <<v, v + 1, v + 1>>
    BY <2>2
  <2>4. ASSUME NEW v \in 0 .. n - 1
        PROVE  InList(leaves, indices, v)
    <3>1. CASE v = n - 1
      <4>1. leaves[indices[v]] = <<v, 0, 0>> /\ \A w \in DOMAIN indices : w <= v
        BY <2>1, <2>3, <3>1
      <4> QED
        BY <4>1 DEF InList
    <3>2. CASE v # n - 1
      <4>1. /\ leaves[indices[v]] = <<v, v + 1, v + 1>> /\ v + 1 \in DOMAIN indices
            /\ indices[v + 1] = v + 1 /\ v + 1 > v
            /\ \A w \in DOMAIN indices : w > v => v + 1 <= w
        BY <2>1, <2>3, <3>2
      <4> QED
        BY <4>1 DEF InList
    <3> QED
      BY <3>1, <3>2
  <2> QED
    BY <2>1, <2>3, <2>4 DEF ListOK
<1>2. ListOK(leaves, indices) /\ [Next]_vars => ListOK(leaves, indices)'
  <2> SUFFICES ASSUME ListOK(leaves, indices), [Next]_vars PROVE ListOK(leaves', indices')
    BY DEF ListOK, InList
  <2>1. ASSUME NEW b \in Batches, AddOrUpdateValues(b)
        PROVE  ListOK(leaves', indices')
    <3>1. PICK order \in SortedOrders(b) :
              leaves' = LinkAll(b, order).ls /\ indices' = LinkAll(b, order).ix
      BY <2>1 DEF AddOrUpdateValues
    <3>2. b \in Seq(Nat)
      BY TreeAssumption
    <3> QED
      BY <3>1, <3>2, BatchKeepsList
  <2>2. CASE UNCHANGED <<leaves, indices>>
    BY <2>2
  <2>3. ASSUME NEW i \in Workers, WorkerStep(i)
        PROVE  UNCHANGED <<leaves, indices>>
    BY <2>3 DEF WorkerStep, Start, WaitLeaf, WaitAbove, WaitWrite, WaitForLevel, ReadPair,
           ReadSibling, WriteNode, SignalLevel, same
  <2>4. AppendSubtree \/ UNCHANGED vars => UNCHANGED <<leaves, indices>>
    BY DEF AppendSubtree, vars
  <2> QED
    BY <2>1, <2>2, <2>3, <2>4 DEF Next
<1> QED
  BY <1>1, <1>2, PTL DEF Spec

(* The leaves are one ascending list through every value inserted            *)
(* (add_or_update_values, LeavesCache), whatever the batches contain: for    *)
(* every depth, every initial size and every batch, with values repeated or  *)
(* already present, and during the updates of the tree as well.              *)
THEOREM LeavesSorted == Spec => []SortedList
<1>1. ListOK(leaves, indices) => SortedList
  <2> SUFFICES ASSUME ListOK(leaves, indices), NEW v \in DOMAIN indices
               PROVE  LET leaf   == leaves[indices[v]]
                          larger == {w \in DOMAIN indices : w > v}
                      IN  /\ leaf[1] = v
                          /\ IF larger = {} THEN leaf[2] = 0 /\ leaf[3] = 0
                             ELSE /\ leaf[3] \in larger /\ \A w \in larger : leaf[3] <= w
                                  /\ leaf[2] = indices[leaf[3]]
    BY DEF SortedList
  <2>1. InList(leaves, indices, v) /\ DOMAIN indices \in SUBSET Nat
    BY DEF ListOK
  <2> QED
    BY <2>1 DEF InList
<1> QED
  BY <1>1, ListInvariant, PTL

=============================================================================
