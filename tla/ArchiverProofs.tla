--------------------------- MODULE ArchiverProofs ---------------------------
(***************************************************************************)
(* Proofs about the archiver, for every set of messages and every bound.   *)
(* With any number of crashes and a provider that lags: the store is sane, *)
(* the blocks it serves are complete and it offers no message that is gone *)
(* from L1.  With a provider that does not lag: data is read exactly once, *)
(* and sync throws only where a crash left messages confirmed ahead of     *)
(* their block.                                                            *)
(***************************************************************************)
EXTENDS Archiver, FiniteSetTheorems, SequenceTheorems, WellFoundedInduction, TLAPS

-----------------------------------------------------------------------------
(* The invariant *)

\* What the rollup contract records of an L2 block, what sync keeps in its local
\* variables and what the message store holds.
RollupBlock == [l1 : Nat, ins : Copies]
Locals == [added : Nat, cancelled : Nat, block : Nat, current : Nat,
           addedTo : Nat, cancelledTo : Nat, blockTo : Nat, contractTo : Nat,
           heights : SUBSET Nat, last : Nat, next : Nat, contracts : SUBSET Nat]
Store == [known : SUBSET Messages, confirmed : SUBSET Messages,
          pending : [Messages -> Nat], lastAdding : Nat, lastCancelling : Nat]

\* Where sync is: reading and applying messages, or on its way with L2 blocks.
MessageSteps == {"pending", "cancelled", "messages", "cancel"}
BlockSteps == {"contracts", "logs", "extend", "confirm", "store"}
Running == pc \in MessageSteps \cup BlockSteps

\* The types of L1 and that its L2 blocks come in the order of their L1 blocks,
\* each after the contract data of its number and before that of the next.
L1OK ==
    /\ added \in Seq(Copies)
    /\ cancelled \in Seq(Copies)
    /\ Len(cancelled) = Height
    /\ rollup \in Seq(RollupBlock)
    /\ Len(rollup) <= MaxBlocks
    /\ \A n \in 1..Len(rollup) : rollup[n].l1 \in 1..Height
    /\ \A n, k \in 1..Len(rollup) : n < k => rollup[n].l1 < rollup[k].l1
    /\ \A e \in emitter :
           /\ e.n \in 1..MaxBlocks
           /\ e.n <= Len(rollup) + 1
           /\ e.l1 \in 1..Height
           /\ \A n \in 1..Len(rollup) :
                  /\ n < e.n => rollup[n].l1 < e.l1
                  /\ e.n <= n => e.l1 <= rollup[n].l1
    /\ indexed \in 0..Height
    /\ ~ Lags => indexed = Height

\* At the end of every L1 block, no message was cancelled and consumed more often
\* than sent.
Conserved ==
    \A h \in 0..Height, n \in 0..Len(rollup), m \in Messages :
        (n > 0 => rollup[n].l1 <= h) =>
            Total(cancelled, h, m) + Consumed(n, m) <= Total(added, h, m)

\* The store and its pointers.
StoreOK ==
    /\ db \in Store
    /\ db.confirmed \subseteq db.known
    /\ db.lastAdding <= Height
    /\ db.lastCancelling <= Height
    /\ blocks \in Seq(RollupBlock)
    /\ Len(blocks) <= Len(rollup)
    /\ \A n \in 1..Len(blocks) : blocks[n] = rollup[n]
    /\ 1..Len(blocks) \subseteq logs
    /\ logs \subseteq 1..Len(rollup)
    /\ extended \in [1..MaxBlocks -> 0..MaxExtended]
    /\ \A e \in emitter : e.n <= Len(blocks) => extended[e.n] >= 1
    /\ initial \in BOOLEAN

\* Where sync is, and that it keeps no local variables between two runs.
ControlOK ==
    /\ pc \in {"stopped", "failed", "idle"} \cup MessageSteps \cup BlockSteps
    /\ sync \in Locals
    /\ ~ Running => sync = NoSync

\* The messages read by the running sync: up to where, and which L1 blocks are
\* left to apply.  Every cancellation read and not applied is in an L1 block of
\* sync.heights, and so is every addition.
MessagesOK ==
    Running =>
        /\ sync.current <= Height
        /\ sync.added <= db.lastAdding /\ db.lastAdding <= sync.current
        /\ sync.cancelled <= db.lastCancelling /\ db.lastCancelling <= sync.current
        /\ sync.added <= sync.addedTo /\ sync.addedTo <= sync.current
        /\ sync.cancelled <= sync.cancelledTo /\ sync.cancelledTo <= sync.current
        /\ sync.added < sync.addedTo => sync.addedTo <= indexed
        /\ pc \in {"pending", "cancelled"} =>
               sync.added = db.lastAdding /\ sync.cancelled = db.lastCancelling
        /\ pc = "pending" => sync.cancelledTo = sync.cancelled
        /\ pc \notin {"pending", "cancelled"} =>
               /\ sync.added < sync.addedTo => sync.addedTo <= sync.cancelledTo
               /\ sync.heights \subseteq 1..sync.cancelledTo
               /\ \A h \in 1..Height :
                      db.lastCancelling < h /\ h <= sync.cancelledTo =>
                          h \in sync.heights \/ Keys(cancelled[h]) = {}
               /\ \A h \in 1..Height :
                      db.lastAdding < h /\ h <= sync.addedTo =>
                          h \in sync.heights \/ Keys(added[h]) = {}
        /\ pc = "cancel" => \E h \in sync.heights : h <= db.lastAdding
        /\ pc \in BlockSteps => sync.heights = {}

\* The L2 blocks read by the running sync: those up to blockTo, and only those.
BlocksOK ==
    Running =>
        /\ LastL1Block <= sync.blockTo /\ sync.blockTo <= sync.current
        /\ LastL1Block < sync.blockTo => sync.blockTo <= indexed
        /\ sync.last <= Len(rollup)
        /\ \A n \in 1..Len(rollup) :
               rollup[n].l1 <= sync.blockTo <=> n <= Len(blocks) \/ n <= sync.last
        /\ pc \in BlockSteps => Len(blocks) < sync.last
        /\ pc \in MessageSteps => sync.contracts = {} /\ sync.contractTo = LastL1Block

\* What of these blocks is stored: the logs of those before next, and the contract
\* data of those no longer in contracts.
DataOK ==
    pc \in BlockSteps =>
        /\ LastL1Block <= sync.contractTo /\ sync.contractTo <= sync.current
        /\ sync.contracts \subseteq (Len(blocks) + 1)..sync.last
        /\ \A e \in emitter :
               Len(blocks) < e.n /\ e.n <= sync.last =>
                   \/ e.n \in sync.contracts
                   \/ pc = "contracts" /\ sync.contractTo < e.l1
                   \/ pc # "contracts" /\ extended[e.n] >= 1
        /\ pc \in {"confirm", "store"} => sync.contracts = {}
        /\ pc \in {"contracts", "extend"} => sync.next = Len(blocks) + 1
        /\ pc \in {"logs", "confirm"} => sync.next \in (Len(blocks) + 1)..sync.last
        /\ pc = "store" => sync.next = sync.last + 1
        /\ \A n \in (Len(blocks) + 1)..sync.last :
               pc \in {"extend", "confirm", "store"} \/ (pc = "logs" /\ n < sync.next) =>
                   n \in logs

\* NoGhostPending, with the messages of the blocks already confirmed.
NoGhost == \A m \in Messages : db.pending[m] <= PendingOnL1(ConfirmedTo, m)

(* The inductive invariant of the first two theorems.  StoreSane says nothing *)
(* of what sync holds in its local variables when it writes a block: that the *)
(* logs and the contract data of every block up to last are stored by then    *)
(* needs BlocksOK and DataOK.  NoGhostPending fails to carry over a step that *)
(* cancels when an earlier cancellation was skipped (MessagesOK), and while   *)
(* blocks are confirmed one by one it has to count those already confirmed.   *)
IInv ==
    L1OK /\ Conserved /\ StoreOK /\ ControlOK /\ MessagesOK /\ BlocksOK /\ DataOK /\ NoGhost

\* Without a lag, sync reads everything up to the newest L1 block.
ReadsAll ==
    Running => /\ pc # "pending" => sync.addedTo = sync.current
               /\ pc \notin {"pending", "cancelled"} => sync.cancelledTo = sync.current

\* The events up to the L1 block of the last L2 block are applied.
Applied ==
    \A h \in 1..LastL1Block :
        /\ db.lastAdding < h => Keys(added[h]) = {}
        /\ db.lastCancelling < h => Keys(cancelled[h]) = {}

\* The entries of the store are the messages added up to the pointer.
KnownExact == db.known = {m \in Messages : Total(added, db.lastAdding, m) > 0}

\* The counters are what the events up to the pointers give: for every message
\* before a first crash, and for a message no block has consumed always.
PendingExact ==
    \A m \in Messages :
        crashes = 0 \/ Consumed(Len(rollup), m) = 0 =>
            db.pending[m] = PendingOnL1(ConfirmedTo, m)

\* Before a first crash, confirmed are the messages of the blocks confirmed.
ConfirmedExact ==
    crashes = 0 => db.confirmed = {m \in Messages : Consumed(ConfirmedTo, m) > 0}

\* sync has yet to store the contract data of L2 block n.
Untouched(n) ==
    IF pc \in {"extend", "confirm", "store"} THEN sync.last < n \/ n \in sync.contracts
    ELSE Len(blocks) < n

\* Before a first crash, no contract data is stored twice.
ExtendedOnce ==
    crashes = 0 => \A n \in 1..MaxBlocks : extended[n] <= 1 /\ (Untouched(n) => extended[n] = 0)

(* What a provider that does not lag adds to the invariant.  ReadOnce needs  *)
(* that no event is skipped (ReadsAll); that sync does not throw needs that   *)
(* every event before a stored L2 block was applied (Applied, KnownExact),    *)
(* since only then a copy consumed or cancelled on L1 has a copy in the store.*)
Exactly ==
    /\ crashes \in Nat
    /\ ReadsAll
    /\ Applied
    /\ KnownExact
    /\ PendingExact
    /\ ConfirmedExact
    /\ ExtendedOnce
    /\ FailsOnlyAhead

-----------------------------------------------------------------------------
(* Least and greatest elements *)

(* Every nonempty set of natural numbers has a least element. *)
LEMMA NatMin ==
    ASSUME NEW D \in SUBSET Nat, D # {}
    PROVE  \E x \in D : \A y \in D : x <= y
<1> DEFINE R == {ss \in Nat \X Nat : ss[1] < ss[2]}
<1>1. OpToRel(<, Nat) = R
  BY DEF OpToRel
<1>2. IsWellFoundedOn(OpToRel(<, Nat), Nat)
  BY NatLessThanWellFounded
<1>3. \E x \in D : \A y \in D : ~ (<<y, x>> \in OpToRel(<, Nat))
  BY <1>2, WFMin
<1> HIDE DEF R
<1>4. PICK x \in D : \A y \in D : ~ (<<y, x>> \in R)
  BY <1>1, <1>3, Zenon
<1>5. ASSUME NEW y \in D
      PROVE  x <= y
  <2>1. x \in Nat /\ y \in Nat
    OBVIOUS
  <2>2. <<y, x>> \in R <=> y < x
    BY <2>1 DEF R
  <2> QED
    BY <1>4, <2>1, <2>2
<1> QED
  BY <1>5

(* The smaller of two numbers. *)
LEMMA MinOfTwo ==
    ASSUME NEW a \in Nat, NEW b \in Nat
    PROVE  /\ Min({a, b}) \in Nat
           /\ Min({a, b}) = a \/ Min({a, b}) = b
           /\ Min({a, b}) <= a /\ Min({a, b}) <= b
<1>1. \E x \in {a, b} : \A y \in {a, b} : x <= y
  <2>1. CASE a <= b
    BY <2>1
  <2>2. CASE b <= a
    BY <2>2
  <2> QED
    BY <2>1, <2>2
<1> QED
  BY <1>1 DEF Min

(* The larger of two numbers. *)
LEMMA MaxOfTwo ==
    ASSUME NEW a \in Nat, NEW b \in Nat
    PROVE  /\ Max({a, b}) \in Nat
           /\ Max({a, b}) = a \/ Max({a, b}) = b
           /\ Max({a, b}) >= a /\ Max({a, b}) >= b
<1>1. \E x \in {a, b} : \A y \in {a, b} : x >= y
  <2>1. CASE a >= b
    BY <2>1
  <2>2. CASE b >= a
    BY <2>2
  <2> QED
    BY <2>1, <2>2
<1> QED
  BY <1>1 DEF Max

(* The least of a set of naturals. *)
LEMMA MinOfNats ==
    ASSUME NEW S \in SUBSET Nat, S # {}
    PROVE  Min(S) \in S /\ \A x \in S : Min(S) <= x
<1>1. \E x \in S : \A y \in S : x <= y
  BY NatMin
<1> QED
  BY <1>1 DEF Min

-----------------------------------------------------------------------------
(* Totals *)

\* One unfolding of the recursion in Total.
IsTotal(g, s, n, m) ==
    g = [i \in 0..n |-> IF i = 0 THEN 0 ELSE g[i - 1] + s[i][m]]
TotalTable(s, n, m) == CHOOSE g : IsTotal(g, s, n, m)

(* There are partial sums of every length. *)
LEMMA TotalExists ==
    ASSUME NEW s, NEW m, NEW n \in Nat
    PROVE  \E g : IsTotal(g, s, n, m)
<1> DEFINE D == {k \in Nat : ~ \E g : IsTotal(g, s, k, m)}
<1> SUFFICES ASSUME D # {} PROVE FALSE
  OBVIOUS
<1>1. PICK k \in D : \A y \in D : k <= y
  BY NatMin
<1>2. k # 0
  <2>1. IsTotal([i \in 0..0 |-> 0], s, 0, m)
    BY DEF IsTotal
  <2> QED
    BY <2>1
<1>3. k - 1 \in Nat /\ k - 1 \notin D
  BY <1>1, <1>2
<1>4. PICK g : IsTotal(g, s, k - 1, m)
  BY <1>3
<1> DEFINE f == [i \in 0..k |-> IF i = k THEN g[k - 1] + s[k][m] ELSE g[i]]
<1>5. /\ k - 1 \in 0..(k - 1)
      /\ \A i \in 0..(k - 1) : g[i] = IF i = 0 THEN 0 ELSE g[i - 1] + s[i][m]
  BY <1>3, <1>4 DEF IsTotal
<1>6. IsTotal(f, s, k, m)
  <2>1. ASSUME NEW i \in 0..k
        PROVE  f[i] = IF i = 0 THEN 0 ELSE f[i - 1] + s[i][m]
    <3>1. CASE i = k
      BY <1>2, <1>3, <3>1
    <3>2. CASE i # k
      <4>1. i \in 0..(k - 1) /\ f[i] = g[i]
        BY <3>2
      <4>2. i # 0 => i - 1 \in 0..k /\ i - 1 # k /\ f[i - 1] = g[i - 1]
        BY <4>1
      <4> HIDE DEF f
      <4> QED
        BY <1>5, <4>1, <4>2
    <3> QED
      BY <3>1, <3>2
  <2>2. f = [i \in 0..k |-> f[i]]
    OBVIOUS
  <2> HIDE DEF f
  <2>3. [i \in 0..k |-> f[i]] = [i \in 0..k |-> IF i = 0 THEN 0 ELSE f[i - 1] + s[i][m]]
    BY <2>1
  <2> QED
    BY <2>2, <2>3 DEF IsTotal
<1> HIDE DEF f
<1> QED
  BY <1>6

(* Partial sums, one after the other. *)
LEMMA TotalTableStep ==
    ASSUME NEW s, NEW m, NEW n \in Nat
    PROVE  /\ TotalTable(s, n, m)[0] = 0
           /\ \A i \in 1..n :
                 TotalTable(s, n, m)[i] = TotalTable(s, n, m)[i - 1] + s[i][m]
<1> DEFINE g == TotalTable(s, n, m)
<1>1. IsTotal(g, s, n, m)
  BY TotalExists DEF TotalTable
<1> HIDE DEF g
<1>2. g = [i \in 0..n |-> IF i = 0 THEN 0 ELSE g[i - 1] + s[i][m]]
  BY <1>1 DEF IsTotal
<1>3. g[0] = 0 /\ \A i \in 1..n : g[i] = g[i - 1] + s[i][m]
  BY <1>2
<1> QED
  BY <1>3 DEF g

(* Total reads the last partial sum. *)
LEMMA TotalIsTable ==
    ASSUME NEW s, NEW m, NEW n
    PROVE  Total(s, n, m) = TotalTable(s, n, m)[n]
BY DEF Total, TotalTable, IsTotal

(* Partial sums of sequences that agree are the same. *)
LEMMA TotalTableAgree ==
    ASSUME NEW s, NEW t, NEW m, NEW n \in Nat, NEW k \in Nat, NEW j \in Nat,
           j <= n, j <= k, \A i \in 1..j : s[i][m] = t[i][m]
    PROVE  TotalTable(s, n, m)[j] = TotalTable(t, k, m)[j]
<1> DEFINE g == TotalTable(s, n, m)
           f == TotalTable(t, k, m)
           D == {i \in 0..j : g[i] # f[i]}
<1>1. /\ g[0] = 0 /\ f[0] = 0
      /\ \A i \in 1..n : g[i] = g[i - 1] + s[i][m]
      /\ \A i \in 1..k : f[i] = f[i - 1] + t[i][m]
  <2>1. g[0] = 0 /\ \A i \in 1..n : g[i] = g[i - 1] + s[i][m]
    BY TotalTableStep, Zenon
  <2>2. f[0] = 0 /\ \A i \in 1..k : f[i] = f[i - 1] + t[i][m]
    BY TotalTableStep, Zenon
  <2> QED
    BY <2>1, <2>2, Zenon
<1> HIDE DEF g, f
<1> SUFFICES ASSUME D # {} PROVE FALSE
  BY DEF g, f
<1>2. D \in SUBSET Nat
  OBVIOUS
<1>3. PICK i \in D : \A y \in D : i <= y
  BY <1>2, NatMin
<1>4. i # 0 /\ i \in 1..n /\ i \in 1..k /\ i \in 1..j
  BY <1>1
<1>5. i - 1 \notin D /\ i - 1 \in 0..j
  BY <1>3, <1>4
<1>6. g[i - 1] = f[i - 1]
  BY <1>5
<1>7. g[i] = f[i]
  BY <1>1, <1>4, <1>6
<1> QED
  BY <1>3, <1>7

(* The total of sequences that agree is the same. *)
LEMMA TotalAgree ==
    ASSUME NEW s, NEW t, NEW m, NEW n \in Nat, \A i \in 1..n : s[i][m] = t[i][m]
    PROVE  Total(s, n, m) = Total(t, n, m)
<1>1. TotalTable(s, n, m)[n] = TotalTable(t, n, m)[n]
  BY TotalTableAgree
<1> QED
  BY <1>1, TotalIsTable, Zenon

(* The total of nothing, and of one element more. *)
LEMMA TotalStep ==
    ASSUME NEW s, NEW m
    PROVE  /\ Total(s, 0, m) = 0
           /\ \A n \in Nat : Total(s, n + 1, m) = Total(s, n, m) + s[n + 1][m]
<1>1. Total(s, 0, m) = 0
  BY TotalIsTable, TotalTableStep
<1>2. ASSUME NEW n \in Nat
      PROVE  Total(s, n + 1, m) = Total(s, n, m) + s[n + 1][m]
  <2> DEFINE k == n + 1
  <2>1. k \in Nat /\ k \in 1..k /\ k - 1 = n /\ n <= k /\ n <= n
    OBVIOUS
  <2> HIDE DEF k
  <2>2. TotalTable(s, k, m)[k] = TotalTable(s, k, m)[k - 1] + s[k][m]
    BY <2>1, TotalTableStep
  <2>3. TotalTable(s, k, m)[n] = TotalTable(s, n, m)[n]
    BY <2>1, TotalTableAgree
  <2>4. Total(s, k, m) = TotalTable(s, k, m)[k] /\ Total(s, n, m) = TotalTable(s, n, m)[n]
    BY TotalIsTable, Zenon
  <2> QED
    BY <2>1, <2>2, <2>3, <2>4 DEF k
<1> QED
  BY <1>1, <1>2

(* Totals of natural numbers are natural and grow. *)
LEMMA TotalMono ==
    ASSUME NEW s, NEW m, NEW N \in Nat, \A i \in 1..N : s[i][m] \in Nat
    PROVE  \A k \in 0..N : /\ Total(s, k, m) \in Nat
                           /\ \A j \in 0..k : Total(s, j, m) <= Total(s, k, m)
<1> DEFINE T(k) == Total(s, k, m)
           D == {k \in 0..N : ~ (T(k) \in Nat /\ \A j \in 0..k : T(j) <= T(k))}
<1>1. T(0) = 0 /\ \A k \in Nat : T(k + 1) = T(k) + s[k + 1][m]
  BY TotalStep, Zenon
<1> SUFFICES ASSUME D # {} PROVE FALSE
  OBVIOUS
<1> HIDE DEF T
<1>2. D \in SUBSET Nat
  OBVIOUS
<1>3. PICK k \in D : \A y \in D : k <= y
  BY <1>2, NatMin
<1>4. k # 0
  BY <1>1
<1>5. PICK l \in Nat : k = l + 1 /\ l \in 0..N
  <2>1. k - 1 \in Nat /\ k = (k - 1) + 1 /\ k - 1 \in 0..N
    BY <1>4
  <2> QED
    BY <2>1
<1>6. l \notin D
  BY <1>3, <1>5
<1>7. T(l) \in Nat /\ \A j \in 0..l : T(j) <= T(l)
  BY <1>5, <1>6
<1>8. s[k][m] \in Nat /\ T(k) = T(l) + s[k][m]
  BY <1>1, <1>5
<1>9. T(k) \in Nat /\ T(l) <= T(k)
  BY <1>7, <1>8
<1>10. ASSUME NEW j \in 0..k PROVE T(j) <= T(k)
  <2>1. CASE j = k
    BY <1>9, <2>1
  <2>2. CASE j # k
    <3>1. j \in 0..l
      BY <1>5, <2>2
    <3>2. T(j) <= T(l) /\ T(j) \in Int
      <4>1. j \notin D \/ j = l
        BY <1>3, <1>5, <3>1
      <4> QED
        BY <1>5, <1>7, <3>1, <4>1
    <3> QED
      BY <1>7, <1>9, <3>2
  <2> QED
    BY <2>1, <2>2
<1> QED
  BY <1>3, <1>9, <1>10

(* A stretch without copies adds nothing to the total. *)
LEMMA TotalGap ==
    ASSUME NEW s, NEW m, NEW N \in Nat, \A i \in 1..N : s[i][m] \in Nat,
           NEW j \in 0..N, NEW k \in 0..N, j <= k,
           \A i \in 1..N : j < i /\ i <= k => s[i][m] = 0
    PROVE  Total(s, j, m) = Total(s, k, m)
<1> DEFINE T(i) == Total(s, i, m)
           D == {i \in j..k : T(i) # T(j)}
<1>1. /\ \A i \in Nat : T(i + 1) = T(i) + s[i + 1][m]
      /\ \A i \in 0..N : T(i) \in Nat
  BY TotalStep, TotalMono, Zenon
<1> SUFFICES ASSUME D # {} PROVE FALSE
  OBVIOUS
<1> HIDE DEF T
<1>2. D \in SUBSET Nat
  OBVIOUS
<1>3. PICK i \in D : \A y \in D : i <= y
  BY <1>2, NatMin
<1>4. i # j /\ i > j
  OBVIOUS
<1>5. PICK l \in Nat : i = l + 1 /\ l \in j..k
  <2>1. i - 1 \in Nat /\ i = (i - 1) + 1 /\ i - 1 \in j..k
    BY <1>4
  <2> QED
    BY <2>1
<1>6. l \notin D
  BY <1>3, <1>5
<1>7. T(l) = T(j) /\ T(l) \in Nat
  BY <1>1, <1>5, <1>6
<1>8. s[i][m] = 0 /\ T(i) = T(l) + s[i][m]
  BY <1>1, <1>4, <1>5
<1> QED
  BY <1>3, <1>7, <1>8

(* The elements of a sequence of copies are counts. *)
LEMMA CopiesCount ==
    ASSUME NEW s \in Seq(Copies), NEW i \in 1..Len(s), NEW m \in Messages
    PROVE  s[i][m] \in Nat /\ s[i] \in Copies
<1>1. s[i] \in Copies
  BY ElementOfSeq
<1> QED
  BY <1>1, ArchiverAssumption DEF Copies

(* TotalMono for a sequence of copies. *)
LEMMA EventsMono ==
    ASSUME NEW s \in Seq(Copies), NEW m \in Messages
    PROVE  \A k \in 0..Len(s) : /\ Total(s, k, m) \in Nat
                                /\ \A j \in 0..k : Total(s, j, m) <= Total(s, k, m)
<1>1. Len(s) \in Nat /\ \A i \in 1..Len(s) : s[i][m] \in Nat
  BY CopiesCount, LenProperties
<1> QED
  BY <1>1, TotalMono

(* One L1 block more. *)
LEMMA EventsStep ==
    ASSUME NEW s \in Seq(Copies), NEW m \in Messages, NEW j \in Nat, NEW h \in 1..Len(s),
           j < h
    PROVE  /\ Total(s, h, m) \in Nat /\ Total(s, j, m) \in Nat /\ s[h][m] \in Nat
           /\ Total(s, h, m) >= Total(s, j, m) + s[h][m]
           /\ (\A i \in 1..Len(s) : j < i /\ i < h => s[i][m] = 0) =>
                  Total(s, h, m) = Total(s, j, m) + s[h][m]
<1>1. Len(s) \in Nat /\ \A i \in 1..Len(s) : s[i][m] \in Nat
  BY CopiesCount, LenProperties
<1>2. PICK l \in Nat : h = l + 1
  <2>1. h - 1 \in Nat /\ h = (h - 1) + 1
    BY <1>1
  <2> QED
    BY <2>1
<1>3. Total(s, h, m) = Total(s, l, m) + s[h][m]
  BY <1>2, TotalStep
<1>4. j \in 0..l /\ l \in 0..Len(s) /\ h \in 0..Len(s) /\ j \in 0..Len(s)
  BY <1>1, <1>2
<1>5. /\ Total(s, l, m) \in Nat /\ Total(s, j, m) \in Nat /\ Total(s, h, m) \in Nat
      /\ Total(s, j, m) <= Total(s, l, m)
  BY <1>4, EventsMono
<1>6. ASSUME \A i \in 1..Len(s) : j < i /\ i < h => s[i][m] = 0
      PROVE  Total(s, j, m) = Total(s, l, m)
  <2>1. \A i \in 1..Len(s) : j < i /\ i <= l => s[i][m] = 0
    BY <1>1, <1>2, <1>6
  <2>2. j <= l
    BY <1>4
  <2> QED
    BY <1>1, <1>4, <2>1, <2>2, TotalGap
<1> QED
  BY <1>1, <1>3, <1>5, <1>6

(* No copies in between. *)
LEMMA EventsGap ==
    ASSUME NEW s \in Seq(Copies), NEW m \in Messages, NEW j \in Nat, NEW k \in Nat,
           j <= k, k <= Len(s),
           \A i \in 1..Len(s) : j < i /\ i <= k => Keys(s[i]) = {}
    PROVE  Total(s, j, m) = Total(s, k, m)
<1>1. Len(s) \in Nat /\ \A i \in 1..Len(s) : s[i][m] \in Nat
  BY CopiesCount, LenProperties
<1>2. \A i \in 1..Len(s) : j < i /\ i <= k => s[i][m] = 0
  BY <1>1 DEF Keys
<1>3. j \in 0..Len(s) /\ k \in 0..Len(s)
  BY <1>1
<1> QED
  BY <1>1, <1>2, <1>3, TotalGap

(* The total of what was there before an event was appended. *)
LEMMA EventsAppend ==
    ASSUME NEW s \in Seq(Copies), NEW c \in Copies, NEW m \in Messages
    PROVE  /\ \A n \in 0..Len(s) : Total(Append(s, c), n, m) = Total(s, n, m)
           /\ Total(Append(s, c), Len(s) + 1, m) = Total(s, Len(s), m) + c[m]
<1> DEFINE t == Append(s, c)
<1>1. Len(s) \in Nat /\ t[Len(s) + 1] = c /\ \A i \in 1..Len(s) : t[i] = s[i]
  BY AppendProperties, LenProperties
<1> HIDE DEF t
<1>2. ASSUME NEW n \in 0..Len(s) PROVE Total(t, n, m) = Total(s, n, m)
  <2>1. n \in Nat /\ \A i \in 1..n : t[i][m] = s[i][m]
    BY <1>1
  <2> QED
    BY <2>1, TotalAgree
<1>3. Total(t, Len(s) + 1, m) = Total(t, Len(s), m) + t[Len(s) + 1][m]
  BY <1>1, TotalStep
<1> QED
  BY <1>1, <1>2, <1>3 DEF t

\* Consumed, of any sequence of L2 blocks.
ConsumedBy(r, n, m) == Total([i \in 1..n |-> r[i].ins], n, m)

(* What the L2 blocks consumed, block by block. *)
LEMMA ConsumedBySteps ==
    ASSUME NEW r \in Seq(RollupBlock), NEW m \in Messages
    PROVE  /\ ConsumedBy(r, 0, m) = 0
           /\ \A n \in 0..Len(r) : ConsumedBy(r, n, m) \in Nat
           /\ \A n \in 0..Len(r), k \in 0..Len(r) :
                 k <= n => ConsumedBy(r, k, m) <= ConsumedBy(r, n, m)
           /\ \A n \in 1..Len(r) :
                 /\ r[n].ins[m] \in Nat
                 /\ ConsumedBy(r, n, m) = ConsumedBy(r, n - 1, m) + r[n].ins[m]
<1> DEFINE s == [i \in 1..Len(r) |-> r[i].ins]
<1>1. Len(r) \in Nat /\ \A i \in 1..Len(r) : r[i] \in RollupBlock
  BY LenProperties, ElementOfSeq
<1>2. \A i \in 1..Len(r) : s[i][m] \in Nat /\ s[i][m] = r[i].ins[m]
  BY <1>1, ArchiverAssumption DEF RollupBlock, Copies
<1>3. ASSUME NEW n \in 0..Len(r) PROVE ConsumedBy(r, n, m) = Total(s, n, m)
  <2> DEFINE t == [i \in 1..n |-> r[i].ins]
  <2>1. n \in Nat /\ \A i \in 1..n : t[i][m] = s[i][m]
    BY <1>1
  <2> HIDE DEF s, t
  <2>2. Total(t, n, m) = Total(s, n, m)
    BY <2>1, TotalAgree
  <2> QED
    BY <2>2 DEF ConsumedBy, t
<1> HIDE DEF s
<1>4. \A n \in 0..Len(r) : /\ Total(s, n, m) \in Nat
                           /\ \A k \in 0..n : Total(s, k, m) <= Total(s, n, m)
  BY <1>1, <1>2, TotalMono
<1>5. ASSUME NEW n \in 1..Len(r)
      PROVE  ConsumedBy(r, n, m) = ConsumedBy(r, n - 1, m) + r[n].ins[m]
  <2>1. n - 1 \in Nat /\ n - 1 \in 0..Len(r) /\ n \in 0..Len(r) /\ (n - 1) + 1 = n
    BY <1>1
  <2>2. Total(s, (n - 1) + 1, m) = Total(s, n - 1, m) + s[(n - 1) + 1][m]
    BY <2>1, TotalStep
  <2> QED
    BY <1>2, <1>3, <2>1, <2>2
<1>6. ConsumedBy(r, 0, m) = 0
  BY <1>1, <1>3, TotalStep
<1>7. \A n \in 0..Len(r), k \in 0..Len(r) :
          k <= n => ConsumedBy(r, k, m) <= ConsumedBy(r, n, m)
  BY <1>1, <1>3, <1>4
<1> QED
  BY <1>2, <1>3, <1>4, <1>5, <1>6, <1>7

(* ConsumedBySteps for the blocks of the rollup. *)
LEMMA ConsumedSteps ==
    ASSUME rollup \in Seq(RollupBlock), NEW m \in Messages
    PROVE  /\ Consumed(0, m) = 0
           /\ \A n \in 0..Len(rollup) : Consumed(n, m) \in Nat
           /\ \A n \in 0..Len(rollup), k \in 0..Len(rollup) :
                 k <= n => Consumed(k, m) <= Consumed(n, m)
           /\ \A n \in 1..Len(rollup) :
                 /\ rollup[n].ins[m] \in Nat
                 /\ Consumed(n, m) = Consumed(n - 1, m) + rollup[n].ins[m]
<1>1. \A n : Consumed(n, m) = ConsumedBy(rollup, n, m)
  BY DEF Consumed, ConsumedBy
<1> QED
  BY <1>1, ConsumedBySteps

(* A new L2 block does not change what those before it consumed. *)
LEMMA ConsumedAppend ==
    ASSUME rollup \in Seq(RollupBlock), rollup' \in Seq(RollupBlock),
           NEW m \in Messages, NEW n \in Nat,
           n <= Len(rollup), n <= Len(rollup'), \A i \in 1..n : rollup'[i] = rollup[i]
    PROVE  Consumed(n, m)' = Consumed(n, m)
<1> DEFINE s == [i \in 1..n |-> rollup[i].ins]
           t == [i \in 1..n |-> rollup'[i].ins]
<1>1. t = s
  OBVIOUS
<1> HIDE DEF s, t
<1>2. Total(t, n, m) = Total(s, n, m)
  BY <1>1
<1> QED
  BY <1>2 DEF Consumed, s, t

-----------------------------------------------------------------------------
(* The parts of the invariant that a step leaves alone *)

(* A step that is not of L1 keeps what is said of L1. *)
LEMMA L1Frame ==
    ASSUME L1OK, Conserved, UNCHANGED l1Vars
    PROVE  L1OK' /\ Conserved'
<1>1. /\ added' = added /\ cancelled' = cancelled /\ rollup' = rollup
      /\ emitter' = emitter /\ indexed' = indexed
  BY DEF l1Vars
<1>2. L1OK'
  BY <1>1 DEF L1OK, Height
<1>3. Conserved'
  BY <1>1 DEF Conserved, Height, Consumed
<1> QED
  BY <1>2, <1>3

(* A step that writes nothing keeps what is said of the store. *)
LEMMA StoreFrame ==
    ASSUME StoreOK, UNCHANGED l1Vars, UNCHANGED storeVars, initial' \in BOOLEAN
    PROVE  StoreOK' /\ LastL1Block' = LastL1Block /\ Height' = Height
BY DEF StoreOK, l1Vars, storeVars, Height, LastL1Block

(* So does a step that confirms nothing with the counters. *)
LEMMA GhostFrame ==
    ASSUME NoGhost, UNCHANGED l1Vars, UNCHANGED db, ConfirmedTo' = ConfirmedTo
    PROVE  NoGhost'
BY DEF NoGhost, PendingOnL1, Consumed, l1Vars

(* The counts of L1 within range. *)
LEMMA L1Types ==
    ASSUME L1OK
    PROVE  /\ Height \in Nat /\ Len(rollup) \in Nat /\ indexed \in Nat
           /\ Len(added) = Height /\ Len(cancelled) = Height
BY LenProperties DEF L1OK, Height

(* The pointer of the block store. *)
LEMMA LastL1BlockIs ==
    ASSUME L1OK, StoreOK
    PROVE  /\ Len(blocks) \in Nat
           /\ Len(blocks) = 0 => LastL1Block = 0
           /\ Len(blocks) > 0 => LastL1Block = rollup[Len(blocks)].l1
           /\ LastL1Block \in 0..Height
           /\ \A n \in 1..Len(rollup) : rollup[n].l1 <= LastL1Block <=> n <= Len(blocks)
<1>1. Len(blocks) \in Nat /\ (blocks = <<>> <=> Len(blocks) = 0)
  BY EmptySeq, LenProperties DEF StoreOK
<1>2. Height \in Nat /\ Len(rollup) \in Nat /\ Len(blocks) <= Len(rollup)
  BY L1Types DEF StoreOK
<1>3. CASE Len(blocks) = 0
  <2>1. LastL1Block = 0
    BY <1>1, <1>3 DEF LastL1Block
  <2>2. \A n \in 1..Len(rollup) : rollup[n].l1 \in 1..Height
    BY DEF L1OK
  <2> QED
    BY <1>2, <1>3, <2>1, <2>2
<1>4. CASE Len(blocks) > 0
  <2>1. Len(blocks) \in 1..Len(blocks) /\ Len(blocks) \in 1..Len(rollup)
    BY <1>1, <1>2, <1>4
  <2>2. LastL1Block = rollup[Len(blocks)].l1
    BY <1>1, <1>4, <2>1 DEF LastL1Block, StoreOK
  <2>3. LastL1Block \in 1..Height
    BY <2>1, <2>2 DEF L1OK
  <2>4. ASSUME NEW n \in 1..Len(rollup)
        PROVE  rollup[n].l1 <= LastL1Block <=> n <= Len(blocks)
    <3>1. rollup[n].l1 \in 1..Height
      BY DEF L1OK
    <3>2. /\ n < Len(blocks) => rollup[n].l1 < rollup[Len(blocks)].l1
          /\ Len(blocks) < n => rollup[Len(blocks)].l1 < rollup[n].l1
      BY <2>1 DEF L1OK
    <3> QED
      BY <1>1, <1>2, <2>2, <2>3, <3>1, <3>2
  <2> QED
    BY <1>1, <1>4, <2>2, <2>3, <2>4
<1> QED
  BY <1>1, <1>3, <1>4

(* What a query returns is up to current, and no more than is indexed. *)
LEMMA VisibleIs ==
    ASSUME L1OK, NEW current \in Nat, current <= Height
    PROVE  /\ Visible(current) \in Nat
           /\ Visible(current) <= current /\ Visible(current) <= indexed
           /\ Visible(current) = current \/ Visible(current) = indexed
           /\ ~ Lags => Visible(current) = current
<1>1. indexed \in Nat /\ Height \in Nat /\ (~ Lags => indexed = Height)
  BY L1Types DEF L1OK
<1> QED
  BY <1>1, MinOfTwo DEF Visible

-----------------------------------------------------------------------------
(* The initial state *)

(* The archiver starts with an empty store and an L1 without blocks. *)
LEMMA InitInv == Init => IInv
<1> SUFFICES ASSUME Init PROVE IInv
  OBVIOUS
<1>1. /\ Height = 0 /\ Len(added) = 0 /\ Len(cancelled) = 0 /\ Len(rollup) = 0 /\ Len(blocks) = 0
      /\ added \in Seq(Copies) /\ cancelled \in Seq(Copies)
      /\ rollup \in Seq(RollupBlock) /\ blocks \in Seq(RollupBlock)
  BY EmptySeq DEF Init, Height
<1>2. L1OK
  BY <1>1, ArchiverAssumption DEF Init, L1OK
<1>3. \A m \in Messages : /\ Total(added, 0, m) = 0 /\ Total(cancelled, 0, m) = 0
                          /\ Consumed(0, m) = 0
  BY <1>1, TotalStep, ConsumedSteps
<1>4. Conserved
  BY <1>1, <1>3 DEF Conserved
<1>5. db \in Store /\ db.confirmed = {} /\ db.lastAdding = 0 /\ db.lastCancelling = 0
      /\ \A m \in Messages : db.pending[m] = 0
  BY DEF Init, EmptyStore, Store, NoCopies
<1>6. StoreOK
  <2>1. logs = {} /\ emitter = {} /\ initial \in BOOLEAN
    BY DEF Init
  <2>2. extended \in [1..MaxBlocks -> 0..MaxExtended]
    BY ArchiverAssumption DEF Init
  <2> QED
    BY <1>1, <1>5, <2>1, <2>2 DEF StoreOK
<1>7. ControlOK /\ MessagesOK /\ BlocksOK /\ DataOK
  BY DEF Init, ControlOK, MessagesOK, BlocksOK, DataOK, Running, MessageSteps, BlockSteps,
         Locals, NoSync
<1>8. ConfirmedTo = 0
  BY <1>1 DEF Init, ConfirmedTo
<1>9. NoGhost
  BY <1>3, <1>5, <1>8 DEF NoGhost, PendingOnL1
<1> QED
  BY <1>2, <1>4, <1>6, <1>7, <1>9 DEF IInv

-----------------------------------------------------------------------------
(* The steps around sync *)

(* The provider indexes a block. *)
LEMMA IndexBlockInv ==
    ASSUME IInv, IndexBlock
    PROVE  IInv'
<1>1. /\ UNCHANGED <<added, cancelled, rollup, emitter>> /\ UNCHANGED storeVars
      /\ UNCHANGED <<pc, initial, sync, crashes>>
      /\ indexed < Height /\ indexed' = indexed + 1
  BY DEF IndexBlock
<1>2. /\ Height' = Height /\ LastL1Block' = LastL1Block /\ ConfirmedTo' = ConfirmedTo
      /\ indexed \in Nat /\ Height \in Nat
  BY <1>1, L1Types DEF Height, LastL1Block, ConfirmedTo, storeVars, IInv
<1>3. L1OK'
  BY <1>1, <1>2 DEF IInv, L1OK
<1>4. Conserved' /\ StoreOK' /\ ControlOK' /\ DataOK' /\ NoGhost'
  BY <1>1, <1>2 DEF IInv, Conserved, StoreOK, ControlOK, DataOK, NoGhost, Consumed, Running,
                    PendingOnL1, storeVars
<1>5. MessagesOK'
  BY <1>1, <1>2 DEF IInv, MessagesOK, Running, ControlOK, Locals, storeVars
<1>6. BlocksOK'
  BY <1>1, <1>2 DEF IInv, BlocksOK, Running, ControlOK, Locals, storeVars
<1> QED
  BY <1>3, <1>4, <1>5, <1>6 DEF IInv

(* The blocks whose messages are confirmed: those stored, and maybe more. *)
LEMMA ConfirmedToIs ==
    ASSUME IInv
    PROVE  ConfirmedTo \in 0..Len(rollup) /\ Len(blocks) \in 0..Len(rollup)
           /\ Len(blocks) <= ConfirmedTo
<1>1. Len(blocks) \in Nat /\ Len(rollup) \in Nat /\ Len(blocks) <= Len(rollup)
  BY LastL1BlockIs, L1Types DEF IInv, StoreOK
<1>2. CASE pc \in {"confirm", "store"}
  <2>1. /\ sync.next \in (Len(blocks) + 1)..(sync.last + 1)
        /\ sync.last \in Nat /\ sync.last <= Len(rollup)
    BY <1>1, <1>2 DEF IInv, DataOK, BlocksOK, Running, BlockSteps, ControlOK, Locals
  <2> QED
    BY <1>1, <1>2, <2>1 DEF ConfirmedTo
<1> QED
  BY <1>1, <1>2 DEF ConfirmedTo

(* The counts that the pending messages are compared with. *)
LEMMA CountTypes ==
    ASSUME IInv, NEW m \in Messages
    PROVE  /\ Total(added, db.lastAdding, m) \in Nat
           /\ Total(cancelled, db.lastCancelling, m) \in Nat
           /\ \A n \in 0..Len(rollup) : Consumed(n, m) \in Nat
           /\ db.pending[m] \in Nat
<1>1. db.lastAdding \in 0..Len(added) /\ db.lastCancelling \in 0..Len(cancelled)
  BY L1Types DEF IInv, StoreOK, Store
<1>2. db.pending[m] \in Nat
  BY DEF IInv, StoreOK, Store
<1> QED
  BY <1>1, <1>2, EventsMono, ConsumedSteps DEF IInv, L1OK

(* Nothing is pending that the L1 events up to the pointers say is gone. *)
LEMMA GhostFree ==
    ASSUME IInv
    PROVE  NoGhostPending
<1> SUFFICES ASSUME NEW m \in Messages
             PROVE  db.pending[m] <= PendingOnL1(Len(blocks), m)
  BY DEF NoGhostPending
<1>1. db.pending[m] <= PendingOnL1(ConfirmedTo, m)
  BY DEF IInv, NoGhost
<1>2. /\ ConfirmedTo \in 0..Len(rollup) /\ Len(blocks) \in 0..Len(rollup)
      /\ Len(blocks) <= ConfirmedTo
  BY ConfirmedToIs
<1>3. Consumed(Len(blocks), m) <= Consumed(ConfirmedTo, m)
      /\ Consumed(Len(blocks), m) \in Nat /\ Consumed(ConfirmedTo, m) \in Nat
  BY <1>2, ConsumedSteps DEF IInv, L1OK
<1>4. /\ Total(added, db.lastAdding, m) \in Nat
      /\ Total(cancelled, db.lastCancelling, m) \in Nat
      /\ db.pending[m] \in Nat
  BY CountTypes
<1> QED
  BY <1>1, <1>3, <1>4 DEF PendingOnL1

(* A step that ends sync, or starts the loop, and writes nothing. *)
LEMMA NotRunningInv ==
    ASSUME IInv, UNCHANGED l1Vars, UNCHANGED storeVars, initial' \in BOOLEAN,
           pc' \in {"stopped", "failed", "idle"}, sync' = NoSync
    PROVE  IInv'
<1>1. L1OK' /\ Conserved'
  BY L1Frame DEF IInv
<1>2. StoreOK'
  BY StoreFrame DEF IInv
<1>3. ControlOK' /\ MessagesOK' /\ BlocksOK' /\ DataOK'
  BY DEF ControlOK, MessagesOK, BlocksOK, DataOK, Running, MessageSteps, BlockSteps,
         Locals, NoSync
<1>4. ConfirmedTo' = Len(blocks)
  BY DEF ConfirmedTo, storeVars
<1>5. /\ db' = db /\ added' = added /\ cancelled' = cancelled /\ rollup' = rollup
  BY DEF l1Vars, storeVars
<1>6. \A m \in Messages : db.pending[m] <= PendingOnL1(Len(blocks), m)
  BY GhostFree DEF NoGhostPending
<1>7. NoGhost'
  BY <1>4, <1>5, <1>6 DEF NoGhost, PendingOnL1, Consumed
<1> QED
  BY <1>1, <1>2, <1>3, <1>7 DEF IInv

(* A new L1 block, with what it means for each part of L1. *)
LEMMA MineFacts ==
    ASSUME L1OK, NEW a \in Copies, NEW c \in Copies,
           NEW l2 \in {<<>>} \cup {<<i>> : i \in Copies}, NEW deploy \in BOOLEAN,
           Mine(a, c, l2, deploy)
    PROVE  /\ added' = Append(added, a) /\ added' \in Seq(Copies)
           /\ cancelled' = Append(cancelled, c) /\ cancelled' \in Seq(Copies)
           /\ Height' = Height + 1 /\ Len(cancelled') = Height + 1
           /\ \A n \in 1..Height : added'[n] = added[n] /\ cancelled'[n] = cancelled[n]
           /\ rollup' \in Seq(RollupBlock)
           /\ Len(rollup') \in {Len(rollup), Len(rollup) + 1}
           /\ Len(rollup') <= MaxBlocks
           /\ \A n \in 1..Len(rollup) : rollup'[n] = rollup[n]
           /\ Len(rollup') = Len(rollup) + 1 => rollup'[Len(rollup')].l1 = Height + 1
           /\ emitter \subseteq emitter'
           /\ \A e \in emitter' : e \in emitter \/
                 (e.n = Len(rollup) + 1 /\ e.n <= MaxBlocks /\ e.l1 = Height + 1)
           /\ indexed' \in {indexed, Height + 1}
           /\ ~ Lags => indexed' = Height + 1
           /\ UNCHANGED storeVars /\ UNCHANGED <<pc, initial, sync, crashes>>
           /\ \A m \in Messages :
                 c[m] + (Consumed(Len(rollup), m)' - Consumed(Len(rollup), m)) <= Open(m) + a[m]
<1>1. Height \in Nat /\ Len(rollup) \in Nat /\ Len(added) = Height /\ Len(cancelled) = Height
  BY L1Types
<1>2. /\ added' = Append(added, a)
      /\ cancelled' = Append(cancelled, c)
      /\ rollup' = IF l2 = <<>> THEN rollup
                   ELSE Append(rollup, [l1 |-> Height + 1, ins |-> l2[1]])
      /\ emitter' = IF deploy THEN emitter \cup {[n |-> Len(rollup) + 1, l1 |-> Height + 1]}
                    ELSE emitter
      /\ indexed' = IF Lags THEN indexed ELSE Height + 1
      /\ UNCHANGED storeVars /\ UNCHANGED <<pc, initial, sync, crashes>>
      /\ Len(rollup) + Len(l2) <= MaxBlocks
      /\ deploy => Len(rollup) < MaxBlocks
  BY DEF Mine
<1>3. \A m \in Messages :
         c[m] + (IF l2 = <<>> THEN 0 ELSE l2[1][m]) <= Open(m) + a[m]
  BY DEF Mine
<1>4. /\ added' \in Seq(Copies) /\ cancelled' \in Seq(Copies)
      /\ Height' = Height + 1 /\ Len(cancelled') = Height + 1
      /\ \A n \in 1..Height : added'[n] = added[n] /\ cancelled'[n] = cancelled[n]
  BY <1>1, <1>2, AppendProperties DEF L1OK, Height
<1>5. /\ rollup' \in Seq(RollupBlock)
      /\ Len(rollup') \in {Len(rollup), Len(rollup) + 1}
      /\ Len(rollup') <= MaxBlocks
      /\ \A n \in 1..Len(rollup) : rollup'[n] = rollup[n]
      /\ Len(rollup') = Len(rollup) + 1 => rollup'[Len(rollup')].l1 = Height + 1
      /\ \A m \in Messages :
            c[m] + (Consumed(Len(rollup), m)' - Consumed(Len(rollup), m)) <= Open(m) + a[m]
  <2>1. rollup \in Seq(RollupBlock) /\ Len(rollup) <= MaxBlocks
    BY DEF L1OK
  <2>2. CASE l2 = <<>>
    <3>1. rollup' = rollup
      BY <1>2, <2>2
    <3>2. \A m \in Messages : Consumed(Len(rollup), m)' = Consumed(Len(rollup), m)
      BY <3>1 DEF Consumed
    <3>3. \A m \in Messages : Consumed(Len(rollup), m) \in Nat
      BY <1>1, <2>1, ConsumedSteps
    <3>4. \A m \in Messages : c[m] <= Open(m) + a[m] /\ c[m] \in Nat
      <4>1. \A m \in Messages : c[m] \in Nat
        BY ArchiverAssumption DEF Copies
      <4> QED
        BY <1>3, <2>2, <4>1
    <3>5. \A m \in Messages :
            c[m] + (Consumed(Len(rollup), m)' - Consumed(Len(rollup), m)) <= Open(m) + a[m]
      BY <3>2, <3>3, <3>4
    <3> QED
      BY <1>1, <2>1, <3>1, <3>5
  <2>3. CASE l2 # <<>>
    <3>1. PICK i \in Copies : l2 = <<i>>
      BY <2>3
    <3> DEFINE b == [l1 |-> Height + 1, ins |-> i]
    <3>2. rollup' = Append(rollup, b) /\ b \in RollupBlock /\ Len(l2) = 1
      BY <1>1, <1>2, <2>3, <3>1 DEF RollupBlock
    <3>3. /\ rollup' \in Seq(RollupBlock) /\ Len(rollup') = Len(rollup) + 1
          /\ \A n \in 1..Len(rollup) : rollup'[n] = rollup[n]
          /\ rollup'[Len(rollup) + 1] = b
      BY <2>1, <3>2, AppendProperties
    <3>4. b.l1 = Height + 1 /\ b.ins = i
      OBVIOUS
    <3> HIDE DEF b
    <3>5. ASSUME NEW m \in Messages
          PROVE  c[m] + (Consumed(Len(rollup), m)' - Consumed(Len(rollup), m)) <= Open(m) + a[m]
      <4> DEFINE k == Len(rollup)
      <4>1. k \in Nat /\ k + 1 = Len(rollup') /\ k <= k /\ k <= Len(rollup')
        BY <1>1, <3>3
      <4>2. Consumed(k, m) \in Nat
        BY <1>1, <2>1, ConsumedSteps
      <4> HIDE DEF k
      <4>3. \A j \in Nat : k = j => Consumed(j, m)' = Consumed(j, m)
        BY <1>1, <2>1, <3>3, <4>1, ConsumedAppend DEF k
      <4>4. PICK j \in Nat : j = k
        BY <4>1
      <4>5. \A n : Consumed(n, m)' = ConsumedBy(rollup', n, m)
        BY DEF Consumed, ConsumedBy
      <4>6. Consumed(j + 1, m)' = Consumed(j, m)' + i[m]
        <5>1. j + 1 \in 1..Len(rollup') /\ (j + 1) - 1 = j
          BY <4>1, <4>4
        <5>2. \A n \in 1..Len(rollup') :
                 ConsumedBy(rollup', n, m) = ConsumedBy(rollup', n - 1, m) + rollup'[n].ins[m]
          BY <3>3, ConsumedBySteps
        <5>3. rollup'[j + 1].ins[m] = i[m]
          BY <3>3, <3>4, <4>4 DEF k
        <5>4. ConsumedBy(rollup', j + 1, m) = ConsumedBy(rollup', j, m) + i[m]
          BY <5>1, <5>2, <5>3
        <5> QED
          BY <4>5, <5>4
      <4>7. Consumed(j, m)' = Consumed(j, m)
        BY <4>3, <4>4
      <4>8. Consumed(Len(rollup), m)' = Consumed(j + 1, m)'
        BY <4>1, <4>4 DEF Consumed
      <4>9. i[m] \in Nat /\ c[m] + i[m] <= Open(m) + a[m] /\ Consumed(j, m) = Consumed(Len(rollup), m)
        <5>1. i[m] \in Nat
          BY ArchiverAssumption DEF Copies
        <5>2. l2[1] = i
          BY <3>1
        <5> QED
          BY <1>3, <2>3, <4>4, <5>1, <5>2 DEF k
      <4> QED
        BY <4>2, <4>4, <4>6, <4>7, <4>8, <4>9
    <3> QED
      BY <1>1, <1>2, <3>2, <3>3, <3>4, <3>5
  <2> QED
    BY <2>2, <2>3
<1>6. /\ emitter \subseteq emitter'
      /\ \A e \in emitter' : e \in emitter \/
            (e.n = Len(rollup) + 1 /\ e.n <= MaxBlocks /\ e.l1 = Height + 1)
  BY <1>1, <1>2, ArchiverAssumption
<1> QED
  BY <1>2, <1>4, <1>5, <1>6

(* A new L1 block changes no count of the blocks before it. *)
LEMMA MineCounts ==
    ASSUME L1OK, StoreOK, NEW a \in Copies, NEW c \in Copies,
           NEW l2 \in {<<>>} \cup {<<i>> : i \in Copies}, NEW deploy \in BOOLEAN,
           Mine(a, c, l2, deploy), NEW m \in Messages
    PROVE  /\ \A h \in 0..Height : /\ Total(added', h, m) = Total(added, h, m)
                                   /\ Total(cancelled', h, m) = Total(cancelled, h, m)
           /\ Total(added', Height + 1, m) = Total(added, Height, m) + a[m]
           /\ Total(cancelled', Height + 1, m) = Total(cancelled, Height, m) + c[m]
           /\ \A n \in 0..Len(rollup) : Consumed(n, m)' = Consumed(n, m)
           /\ \A n \in 0..Len(rollup) : PendingOnL1(n, m)' = PendingOnL1(n, m)
<1>1. /\ added \in Seq(Copies) /\ cancelled \in Seq(Copies) /\ rollup \in Seq(RollupBlock)
      /\ Height \in Nat /\ Len(added) = Height /\ Len(cancelled) = Height
      /\ Len(rollup) \in Nat
  BY L1Types DEF L1OK
<1>2. /\ added' = Append(added, a) /\ cancelled' = Append(cancelled, c)
      /\ Height' = Height + 1 /\ db' = db
      /\ rollup' \in Seq(RollupBlock) /\ Len(rollup') >= Len(rollup)
      /\ \A n \in 1..Len(rollup) : rollup'[n] = rollup[n]
  <2>1. /\ added' = Append(added, a) /\ cancelled' = Append(cancelled, c)
        /\ Height' = Height + 1 /\ UNCHANGED storeVars
        /\ rollup' \in Seq(RollupBlock) /\ Len(rollup') \in {Len(rollup), Len(rollup) + 1}
        /\ \A n \in 1..Len(rollup) : rollup'[n] = rollup[n]
    BY MineFacts, Zenon
  <2> QED
    BY <1>1, <2>1 DEF storeVars
<1>3. /\ \A h \in 0..Height : /\ Total(added', h, m) = Total(added, h, m)
                              /\ Total(cancelled', h, m) = Total(cancelled, h, m)
      /\ Total(added', Height + 1, m) = Total(added, Height, m) + a[m]
      /\ Total(cancelled', Height + 1, m) = Total(cancelled, Height, m) + c[m]
  BY <1>1, <1>2, EventsAppend
<1>6. ASSUME NEW n \in Nat, n <= Len(rollup)
      PROVE  Consumed(n, m)' = Consumed(n, m)
  <2>1. n <= Len(rollup') /\ \A i \in 1..n : rollup'[i] = rollup[i]
    <3>1. Len(rollup') \in Nat
      BY <1>2, LenProperties
    <3> QED
      BY <1>1, <1>2, <1>6, <3>1
  <2> QED
    BY <1>1, <1>2, <1>6, <2>1, ConsumedAppend
<1>7. /\ db.lastAdding \in Nat /\ db.lastAdding <= Height
      /\ db.lastCancelling \in Nat /\ db.lastCancelling <= Height
  BY DEF StoreOK, Store
<1>8. ASSUME NEW n \in Nat, n <= Len(rollup)
      PROVE  PendingOnL1(n, m)' = PendingOnL1(n, m)
  <2>1. Consumed(n, m)' = Consumed(n, m)
    BY <1>6, <1>8
  <2>2. /\ Total(added', db.lastAdding, m) = Total(added, db.lastAdding, m)
        /\ Total(cancelled', db.lastCancelling, m) = Total(cancelled, db.lastCancelling, m)
    BY <1>1, <1>3, <1>7
  <2> QED
    BY <1>2, <2>1, <2>2 DEF PendingOnL1
<1> QED
  BY <1>1, <1>3, <1>6, <1>8

(* A new L1 block keeps the invariant: what sync has read is of blocks before. *)
LEMMA MineInv ==
    ASSUME IInv, NEW a \in Copies, NEW c \in Copies,
           NEW l2 \in {<<>>} \cup {<<i>> : i \in Copies}, NEW deploy \in BOOLEAN,
           Mine(a, c, l2, deploy)
    PROVE  IInv'
<1>1. /\ L1OK /\ Conserved /\ StoreOK /\ ControlOK /\ MessagesOK /\ BlocksOK /\ DataOK /\ NoGhost
      /\ Height \in Nat /\ Len(rollup) \in Nat /\ indexed \in Nat
  BY L1Types DEF IInv
<1>2. /\ added' \in Seq(Copies) /\ cancelled' \in Seq(Copies)
      /\ Height' = Height + 1 /\ Len(cancelled') = Height + 1
      /\ \A n \in 1..Height : added'[n] = added[n] /\ cancelled'[n] = cancelled[n]
      /\ rollup' \in Seq(RollupBlock)
      /\ Len(rollup') \in {Len(rollup), Len(rollup) + 1}
      /\ Len(rollup') <= MaxBlocks
      /\ \A n \in 1..Len(rollup) : rollup'[n] = rollup[n]
      /\ Len(rollup') = Len(rollup) + 1 => rollup'[Len(rollup')].l1 = Height + 1
      /\ \A e \in emitter' : e \in emitter \/
            (e.n = Len(rollup) + 1 /\ e.n <= MaxBlocks /\ e.l1 = Height + 1)
      /\ indexed' \in {indexed, Height + 1}
      /\ ~ Lags => indexed' = Height + 1
      /\ UNCHANGED storeVars /\ UNCHANGED <<pc, initial, sync, crashes>>
      /\ \A m \in Messages :
            c[m] + (Consumed(Len(rollup), m)' - Consumed(Len(rollup), m)) <= Open(m) + a[m]
  BY <1>1, MineFacts, Zenon
<1>3. \A m \in Messages :
         /\ \A h \in 0..Height : /\ Total(added', h, m) = Total(added, h, m)
                                 /\ Total(cancelled', h, m) = Total(cancelled, h, m)
         /\ Total(added', Height + 1, m) = Total(added, Height, m) + a[m]
         /\ Total(cancelled', Height + 1, m) = Total(cancelled, Height, m) + c[m]
         /\ \A n \in 0..Len(rollup) : Consumed(n, m)' = Consumed(n, m)
         /\ \A n \in 0..Len(rollup) : PendingOnL1(n, m)' = PendingOnL1(n, m)
  BY <1>1, MineCounts, Zenon
<1>4. /\ db' = db /\ blocks' = blocks /\ logs' = logs /\ extended' = extended
      /\ pc' = pc /\ initial' = initial /\ sync' = sync /\ crashes' = crashes
      /\ LastL1Block' = LastL1Block /\ ConfirmedTo' = ConfirmedTo
  BY <1>2 DEF storeVars, LastL1Block, ConfirmedTo
<1>5. \A n \in 1..Len(rollup') : n \in 1..Len(rollup) \/
          (n = Len(rollup) + 1 /\ rollup'[n].l1 = Height + 1)
  BY <1>1, <1>2
<1>6. \A n \in 1..Len(rollup) : rollup[n].l1 \in 1..Height /\ rollup'[n].l1 = rollup[n].l1
  BY <1>1, <1>2 DEF L1OK
<1>7. L1OK'
  <2>1. \A n \in 1..Len(rollup') : rollup'[n].l1 \in 1..(Height + 1)
    BY <1>1, <1>5, <1>6
  <2>2. ASSUME NEW n \in 1..Len(rollup'), NEW k \in 1..Len(rollup'), n < k
        PROVE  rollup'[n].l1 < rollup'[k].l1
    <3>1. n \in 1..Len(rollup)
      BY <1>1, <1>2, <2>2
    <3>2. CASE k \in 1..Len(rollup)
      BY <1>1, <1>6, <2>2, <3>1, <3>2 DEF L1OK
    <3>3. CASE k = Len(rollup) + 1 /\ rollup'[k].l1 = Height + 1
      BY <1>1, <1>6, <3>1, <3>3
    <3> QED
      BY <1>5, <3>2, <3>3
  <2>3. ASSUME NEW e \in emitter'
        PROVE  /\ e.n \in 1..MaxBlocks
               /\ e.n <= Len(rollup') + 1
               /\ e.l1 \in 1..(Height + 1)
               /\ \A n \in 1..Len(rollup') :
                      /\ n < e.n => rollup'[n].l1 < e.l1
                      /\ e.n <= n => e.l1 <= rollup'[n].l1
    <3>1. CASE e \in emitter
      <4>1. /\ e.n \in 1..MaxBlocks
            /\ e.n <= Len(rollup) + 1
            /\ e.l1 \in 1..Height
            /\ \A n \in 1..Len(rollup) :
                   /\ n < e.n => rollup[n].l1 < e.l1
                   /\ e.n <= n => e.l1 <= rollup[n].l1
        BY <1>1, <3>1 DEF L1OK
      <4>2. e.n <= Len(rollup') + 1 /\ e.l1 \in 1..(Height + 1)
        BY <1>1, <1>2, <4>1, ArchiverAssumption
      <4>3. ASSUME NEW n \in 1..Len(rollup')
            PROVE  /\ n < e.n => rollup'[n].l1 < e.l1
                   /\ e.n <= n => e.l1 <= rollup'[n].l1
        <5>1. CASE n \in 1..Len(rollup)
          BY <1>6, <4>1, <5>1
        <5>2. CASE n = Len(rollup) + 1 /\ rollup'[n].l1 = Height + 1
          BY <1>1, <4>1, <5>2, ArchiverAssumption
        <5> QED
          BY <1>5, <5>1, <5>2
      <4> QED
        BY <4>1, <4>2, <4>3
    <3>2. CASE e.n = Len(rollup) + 1 /\ e.n <= MaxBlocks /\ e.l1 = Height + 1
      BY <1>1, <1>2, <1>5, <1>6, <3>2, ArchiverAssumption
    <3> QED
      BY <1>2, <3>1, <3>2
  <2>4. indexed' \in 0..(Height + 1)
    BY <1>1, <1>2 DEF L1OK
  <2> QED
    BY <1>2, <2>1, <2>2, <2>3, <2>4 DEF L1OK
<1>8. Conserved'
  <2> SUFFICES ASSUME NEW h \in 0..(Height + 1), NEW n \in 0..Len(rollup'), NEW m \in Messages,
                      n > 0 => rollup'[n].l1 <= h
               PROVE  Total(cancelled', h, m) + Consumed(n, m)' <= Total(added', h, m)
    BY <1>2 DEF Conserved
  <2>1. CASE h \in 0..Height
    <3>1. n \in 0..Len(rollup)
      <4>1. n # 0 => n \in 1..Len(rollup')
        OBVIOUS
      <4> QED
        BY <1>1, <1>5, <2>1, <4>1
    <3>2. n > 0 => rollup[n].l1 <= h
      BY <1>1, <1>6, <3>1
    <3>3. Total(cancelled, h, m) + Consumed(n, m) <= Total(added, h, m)
      BY <1>1, <2>1, <3>1, <3>2 DEF Conserved
    <3> QED
      BY <1>3, <2>1, <3>1, <3>3
  <2>2. CASE h = Height + 1
    <3>1. \A k : Consumed(k, m)' = ConsumedBy(rollup', k, m)
      BY DEF Consumed, ConsumedBy
    <3>2. Consumed(Len(rollup), m)' = ConsumedBy(rollup', Len(rollup'), m)
      BY DEF Consumed, ConsumedBy
    <3>3. /\ ConsumedBy(rollup', n, m) <= ConsumedBy(rollup', Len(rollup'), m)
          /\ ConsumedBy(rollup', n, m) \in Nat
          /\ ConsumedBy(rollup', Len(rollup'), m) \in Nat
      <4>1. Len(rollup') \in Nat /\ Len(rollup') \in 0..Len(rollup') /\ n <= Len(rollup')
        BY <1>1, <1>2
      <4> QED
        BY <1>2, <4>1, ConsumedBySteps
    <3>4. /\ Total(added, Height, m) \in Nat /\ Total(cancelled, Height, m) \in Nat
          /\ Consumed(Len(rollup), m) \in Nat
      <4>1. Height \in 0..Len(added) /\ Height \in 0..Len(cancelled) /\ Len(rollup) \in 0..Len(rollup)
        BY <1>1, L1Types
      <4> QED
        BY <1>1, <4>1, EventsMono, ConsumedSteps DEF L1OK
    <3>5. a[m] \in Nat /\ c[m] \in Nat
      BY ArchiverAssumption DEF Copies
    <3>6. c[m] + (ConsumedBy(rollup', Len(rollup'), m) - Consumed(Len(rollup), m)) <=
            (Total(added, Height, m) - Total(cancelled, Height, m) - Consumed(Len(rollup), m)) + a[m]
      BY <1>2, <3>2 DEF Open
    <3>7. Total(cancelled', h, m) + ConsumedBy(rollup', n, m) <= Total(added', h, m)
      <4>1. /\ Total(added', h, m) = Total(added, Height, m) + a[m]
            /\ Total(cancelled', h, m) = Total(cancelled, Height, m) + c[m]
        BY <1>3, <2>2
      <4>2. \A ta, tc, c0, c1, cn, x, y \in Nat :
               cn <= c1 /\ x + (c1 - c0) <= (ta - tc - c0) + y => (tc + x) + cn <= ta + y
        OBVIOUS
      <4>3. (Total(cancelled, Height, m) + c[m]) + ConsumedBy(rollup', n, m) <=
                Total(added, Height, m) + a[m]
        BY <3>3, <3>4, <3>5, <3>6, <4>2
      <4> QED
        BY <4>1, <4>3, Zenon
    <3> QED
      BY <3>1, <3>7
  <2> QED
    BY <1>1, <2>1, <2>2
<1>9. Len(blocks) \in Nat /\ Len(blocks) <= Len(rollup) /\ Len(rollup') >= Len(rollup)
  BY <1>1, <1>2, LastL1BlockIs DEF StoreOK
<1>10. StoreOK'
  <2>1. \A n \in 1..Len(blocks) : blocks[n] = rollup'[n]
    BY <1>1, <1>2, <1>9 DEF StoreOK
  <2>2. 1..Len(rollup) \subseteq 1..Len(rollup')
    BY <1>1, <1>2
  <2>3. \A e \in emitter' : e.n <= Len(blocks) => extended[e.n] >= 1
    BY <1>1, <1>2, <1>9 DEF StoreOK
  <2>4. db.lastAdding <= Height + 1 /\ db.lastCancelling <= Height + 1 /\ Len(blocks) <= Len(rollup')
    <3>1. Len(rollup') \in Nat
      BY <1>1, <1>2
    <3> QED
      BY <1>1, <1>9, <3>1 DEF StoreOK, Store
  <2> QED
    BY <1>1, <1>2, <1>4, <2>1, <2>2, <2>3, <2>4 DEF StoreOK
<1>11. ControlOK'
  BY <1>1, <1>4 DEF ControlOK, Running
<1>12. MessagesOK'
  <2>1. SUFFICES ASSUME Running
                 PROVE  MessagesOK'
    BY <1>4 DEF MessagesOK, Running
  <2>2. /\ sync \in Locals /\ sync.current \in Nat /\ sync.current <= Height
        /\ sync.addedTo \in Nat /\ sync.addedTo <= sync.current
        /\ sync.cancelledTo \in Nat /\ sync.cancelledTo <= sync.current
    BY <1>1, <2>1 DEF ControlOK, MessagesOK, Locals
  <2>3. indexed <= indexed'
    BY <1>1, <1>2 DEF L1OK
  <2>4. \A h \in 1..(Height + 1) :
            /\ h <= sync.cancelledTo => h \in 1..Height /\ cancelled'[h] = cancelled[h]
            /\ h <= sync.addedTo => h \in 1..Height /\ added'[h] = added[h]
    BY <1>1, <1>2, <2>2
  <2>5. sync.current <= Height + 1
    BY <1>1, <2>2
  <2>6. sync.added < sync.addedTo => sync.addedTo <= indexed'
    <3>1. sync.added < sync.addedTo => sync.addedTo <= indexed
      BY <1>1, <2>1 DEF MessagesOK
    <3> QED
      BY <1>1, <1>2, <2>2, <2>3, <3>1
  <2>7. pc \notin {"pending", "cancelled"} =>
            /\ \A h \in 1..(Height + 1) :
                   db.lastCancelling < h /\ h <= sync.cancelledTo =>
                       h \in sync.heights \/ Keys(cancelled'[h]) = {}
            /\ \A h \in 1..(Height + 1) :
                   db.lastAdding < h /\ h <= sync.addedTo =>
                       h \in sync.heights \/ Keys(added'[h]) = {}
    BY <1>1, <2>1, <2>4 DEF MessagesOK
  <2> QED
    BY <1>1, <1>2, <1>4, <2>1, <2>5, <2>6, <2>7 DEF MessagesOK
<1>13. BlocksOK'
  <2>1. SUFFICES ASSUME Running
                 PROVE  BlocksOK'
    BY <1>4 DEF BlocksOK, Running
  <2>2. /\ sync.current \in Nat /\ sync.current <= Height /\ sync.last \in Nat
        /\ sync.blockTo \in Nat /\ sync.blockTo <= sync.current
        /\ sync.last <= Len(rollup)
    BY <1>1, <2>1 DEF ControlOK, MessagesOK, BlocksOK, Locals
  <2>3. LastL1Block < sync.blockTo => sync.blockTo <= indexed'
    BY <1>1, <1>2, <2>1, <2>2 DEF BlocksOK
  <2>4. \A n \in 1..Len(rollup') :
            rollup'[n].l1 <= sync.blockTo <=> n <= Len(blocks) \/ n <= sync.last
    <3> SUFFICES ASSUME NEW n \in 1..Len(rollup')
                 PROVE  rollup'[n].l1 <= sync.blockTo <=> n <= Len(blocks) \/ n <= sync.last
      OBVIOUS
    <3>1. CASE n \in 1..Len(rollup)
      BY <1>1, <1>6, <2>1, <3>1 DEF BlocksOK
    <3>2. CASE n = Len(rollup) + 1 /\ rollup'[n].l1 = Height + 1
      BY <1>1, <1>9, <2>2, <3>2
    <3> QED
      BY <1>5, <3>1, <3>2
  <2>5. sync.last <= Len(rollup')
    BY <1>1, <1>2, <2>2
  <2> QED
    BY <1>1, <1>4, <2>1, <2>3, <2>4, <2>5 DEF BlocksOK
<1>14. DataOK'
  <2>1. SUFFICES ASSUME pc \in BlockSteps
                 PROVE  DataOK'
    BY <1>4 DEF DataOK
  <2>2. sync.last \in Nat /\ sync.last <= Len(rollup)
    BY <1>1, <2>1 DEF ControlOK, BlocksOK, Running, Locals
  <2>3. \A e \in emitter' : e.n <= sync.last => e \in emitter
    BY <1>1, <1>2, <2>2
  <2> QED
    BY <1>1, <1>4, <2>1, <2>3 DEF DataOK
<1>15. ConfirmedTo \in 0..Len(rollup)
  BY ConfirmedToIs
<1>16. NoGhost'
  <2>1. PICK k \in 0..Len(rollup) : k = ConfirmedTo
    BY <1>15
  <2>2. \A m \in Messages : db.pending[m] <= PendingOnL1(k, m)'
    BY <1>1, <1>3, <2>1 DEF NoGhost
  <2>3. ConfirmedTo' = k
    BY <1>4, <2>1
  <2>4. \A m : PendingOnL1(ConfirmedTo, m)' = PendingOnL1(k, m)'
    BY <2>3 DEF PendingOnL1, Consumed
  <2> QED
    BY <1>4, <2>2, <2>4 DEF NoGhost
<1> QED
  BY <1>7, <1>8, <1>10, <1>11, <1>12, <1>13, <1>14, <1>16 DEF IInv

(* The loop starts. *)
LEMMA StartInv ==
    ASSUME IInv, Start
    PROVE  IInv'
<1>1. /\ UNCHANGED l1Vars /\ UNCHANGED storeVars /\ initial' \in BOOLEAN
      /\ pc' = "idle" /\ sync' = sync
  BY DEF Start
<1>2. sync = NoSync
  BY DEF Start, IInv, ControlOK, Running, MessageSteps, BlockSteps
<1> QED
  BY <1>1, <1>2, NotRunningInv

(* The process ends. *)
LEMMA CrashInv ==
    ASSUME IInv, Crash
    PROVE  IInv'
<1>1. /\ UNCHANGED l1Vars /\ UNCHANGED storeVars /\ initial' \in BOOLEAN
      /\ pc' = "stopped" /\ sync' = NoSync
  BY DEF Crash, IInv, StoreOK
<1> QED
  BY <1>1, NotRunningInv

-----------------------------------------------------------------------------
(* The steps of sync that read *)

(* The pointers are read, or sync returns at once. *)
LEMMA BeginInv ==
    ASSUME IInv, Begin
    PROVE  IInv'
<1>1. UNCHANGED l1Vars /\ UNCHANGED storeVars /\ crashes' = crashes /\ initial \in BOOLEAN
  BY DEF Begin, IInv, StoreOK
<1>2. CASE ~ ChainMoved(Height)
  <2>1. pc' = "idle" /\ sync' = NoSync /\ initial' \in BOOLEAN
    BY <1>2 DEF Begin, Return
  <2> QED
    BY <1>1, <2>1, NotRunningInv
<1>3. CASE ChainMoved(Height)
  <2> DEFINE s == [NoSync EXCEPT !.added = db.lastAdding, !.addedTo = db.lastAdding,
                                 !.cancelled = db.lastCancelling,
                                 !.cancelledTo = db.lastCancelling,
                                 !.block = LastL1Block, !.blockTo = LastL1Block,
                                 !.contractTo = LastL1Block,
                                 !.current = Height]
  <2>1. pc = "idle" /\ pc' = "pending" /\ sync' = s /\ initial' = initial
    BY <1>3 DEF Begin, Goto
  <2>2. L1OK' /\ Conserved'
    BY <1>1, L1Frame DEF IInv
  <2>3. StoreOK' /\ LastL1Block' = LastL1Block /\ Height' = Height
    BY <1>1, <2>1, StoreFrame DEF IInv
  <2>4. /\ db.lastAdding \in Nat /\ db.lastAdding <= Height
        /\ db.lastCancelling \in Nat /\ db.lastCancelling <= Height
        /\ LastL1Block \in Nat /\ LastL1Block <= Height /\ Height \in Nat
        /\ Len(blocks) \in Nat /\ Len(rollup) \in Nat
        /\ \A n \in 1..Len(rollup) : rollup[n].l1 <= LastL1Block <=> n <= Len(blocks)
    BY L1Types, LastL1BlockIs DEF IInv, StoreOK, Store
  <2>5. /\ s \in Locals /\ s.current = Height
        /\ s.added = db.lastAdding /\ s.addedTo = db.lastAdding
        /\ s.cancelled = db.lastCancelling /\ s.cancelledTo = db.lastCancelling
        /\ s.blockTo = LastL1Block /\ s.contractTo = LastL1Block /\ s.last = 0
        /\ s.contracts = {}
    BY <2>4 DEF Locals, NoSync
  <2> HIDE DEF s
  <2>6. /\ db' = db /\ blocks' = blocks /\ rollup' = rollup /\ indexed' = indexed
    BY <1>1 DEF storeVars, l1Vars
  <2>7. ControlOK'
    BY <2>1, <2>5 DEF ControlOK, Running, MessageSteps, BlockSteps
  <2>8. MessagesOK'
    BY <2>1, <2>3, <2>4, <2>5, <2>6 DEF MessagesOK, BlockSteps
  <2>9. BlocksOK'
    BY <2>1, <2>3, <2>4, <2>5, <2>6 DEF BlocksOK, BlockSteps
  <2>10. DataOK'
    BY <2>1 DEF DataOK, BlockSteps
  <2>11. ConfirmedTo' = ConfirmedTo
    BY <2>1, <2>6 DEF ConfirmedTo
  <2>12. NoGhost'
    BY <1>1, <2>6, <2>11, GhostFrame DEF IInv
  <2> QED
    BY <2>2, <2>3, <2>7, <2>8, <2>9, <2>10, <2>12 DEF IInv
<1> QED
  BY <1>2, <1>3

(* Additions are read: up to what is indexed now. *)
LEMMA RetrievePendingInv ==
    ASSUME IInv, RetrievePending
    PROVE  IInv'
<1> DEFINE to == Visible(sync.current)
           s == [sync EXCEPT !.addedTo = Max({sync.addedTo, to})]
<1>1. /\ UNCHANGED l1Vars /\ UNCHANGED storeVars /\ crashes' = crashes
      /\ initial' = initial /\ initial \in BOOLEAN
      /\ pc = "pending" /\ pc' \in {"pending", "cancelled"} /\ sync' = s
  BY DEF RetrievePending, Goto, IInv, StoreOK
<1>2. L1OK' /\ Conserved'
  BY <1>1, L1Frame DEF IInv
<1>3. StoreOK' /\ LastL1Block' = LastL1Block /\ Height' = Height
  BY <1>1, StoreFrame DEF IInv
<1>4. /\ sync \in Locals /\ Running /\ sync.current <= Height /\ sync.current \in Nat
      /\ sync.addedTo \in Nat
  BY <1>1 DEF IInv, ControlOK, MessagesOK, Running, MessageSteps, Locals
<1>5. to \in Nat /\ to <= sync.current /\ to <= indexed /\ indexed \in Nat
  BY <1>4, VisibleIs, L1Types DEF IInv
<1> HIDE DEF to
<1>6. PICK x \in Nat : /\ x = Max({sync.addedTo, to})
                       /\ x >= sync.addedTo
                       /\ x = sync.addedTo \/ x = to
  <2>1. /\ Max({sync.addedTo, to}) \in Nat
        /\ Max({sync.addedTo, to}) = sync.addedTo \/ Max({sync.addedTo, to}) = to
        /\ Max({sync.addedTo, to}) >= sync.addedTo
    BY <1>4, <1>5, MaxOfTwo, Zenon
  <2> QED
    BY <2>1
<1>7. /\ s \in Locals /\ s.addedTo = x
  BY <1>4, <1>6 DEF Locals
<1>8. /\ s.added = sync.added /\ s.cancelled = sync.cancelled /\ s.current = sync.current
      /\ s.cancelledTo = sync.cancelledTo /\ s.blockTo = sync.blockTo
      /\ s.contractTo = sync.contractTo /\ s.heights = sync.heights
      /\ s.last = sync.last /\ s.contracts = sync.contracts
  BY <1>4 DEF Locals
<1> HIDE DEF s
<1>9. /\ db' = db /\ blocks' = blocks /\ rollup' = rollup /\ indexed' = indexed
  BY <1>1 DEF storeVars, l1Vars
<1>10. ControlOK'
  BY <1>1, <1>7 DEF ControlOK, Running, MessageSteps, BlockSteps
<1>11. MessagesOK'
  <2>1. /\ sync.added \in Nat /\ sync.cancelled \in Nat /\ sync.cancelledTo \in Nat
        /\ sync.added <= sync.addedTo /\ sync.addedTo <= sync.current
        /\ sync.added < sync.addedTo => sync.addedTo <= indexed
    BY <1>4 DEF IInv, MessagesOK, Locals
  <2>2. /\ sync.added <= x /\ x <= sync.current
        /\ sync.added < x => x <= indexed
    BY <1>4, <1>5, <1>6, <2>1
  <2> QED
    BY <1>1, <1>3, <1>4, <1>7, <1>8, <1>9, <2>2 DEF IInv, MessagesOK, BlockSteps
<1>12. BlocksOK'
  BY <1>1, <1>3, <1>4, <1>8, <1>9 DEF IInv, BlocksOK, BlockSteps, MessageSteps
<1>13. DataOK'
  BY <1>1 DEF DataOK, BlockSteps
<1>14. ConfirmedTo' = ConfirmedTo
  BY <1>1, <1>9 DEF ConfirmedTo
<1>15. NoGhost'
  BY <1>1, <1>9, <1>14, GhostFrame DEF IInv
<1> QED
  BY <1>2, <1>3, <1>10, <1>11, <1>12, <1>13, <1>15 DEF IInv

(* Cancellations are read, at least as far as additions were. *)
LEMMA RetrieveCancelledInv ==
    ASSUME IInv, RetrieveCancelled
    PROVE  IInv'
<1> DEFINE to == Max({sync.cancelledTo, Visible(sync.current)})
           hs == WithCopies(added, sync.added, sync.addedTo)
                     \cup WithCopies(cancelled, sync.cancelled, to)
           s == [sync EXCEPT !.cancelledTo = to, !.heights = hs]
<1>1. /\ UNCHANGED l1Vars /\ UNCHANGED storeVars /\ crashes' = crashes
      /\ initial' = initial /\ initial \in BOOLEAN
      /\ pc = "cancelled" /\ pc' \in {"cancelled", "messages"} /\ sync' = s
  BY DEF RetrieveCancelled, Goto, IInv, StoreOK
<1>2. L1OK' /\ Conserved'
  BY <1>1, L1Frame DEF IInv
<1>3. StoreOK' /\ LastL1Block' = LastL1Block /\ Height' = Height
  BY <1>1, StoreFrame DEF IInv
<1>4. /\ sync \in Locals /\ Running /\ sync.current <= Height /\ sync.current \in Nat
      /\ sync.cancelledTo \in Nat
  BY <1>1 DEF IInv, ControlOK, MessagesOK, Running, MessageSteps, Locals
<1>5. PICK v \in Nat : /\ v = Visible(sync.current)
                       /\ v <= sync.current /\ v <= indexed
                       /\ v = sync.current \/ v = indexed
  BY <1>4, VisibleIs DEF IInv
<1>6. /\ to \in Nat /\ to >= sync.cancelledTo /\ to >= v
      /\ to = sync.cancelledTo \/ to = v
  BY <1>4, <1>5, MaxOfTwo, Zenon
<1> HIDE DEF to
<1>7. /\ sync.added \in Nat /\ sync.addedTo \in Nat /\ sync.cancelled \in Nat
      /\ sync.added <= sync.addedTo /\ sync.addedTo <= sync.current
      /\ sync.added < sync.addedTo => sync.addedTo <= indexed
      /\ sync.cancelled <= sync.cancelledTo /\ sync.cancelledTo <= sync.current
      /\ sync.added = db.lastAdding /\ sync.cancelled = db.lastCancelling
  BY <1>1, <1>4 DEF IInv, MessagesOK, Locals
<1>8. /\ sync.cancelled <= to /\ to <= sync.current
      /\ sync.added < sync.addedTo => sync.addedTo <= to
  BY <1>4, <1>5, <1>6, <1>7, L1Types DEF IInv
<1>9. /\ hs \subseteq 1..to
      /\ \A h \in 1..Height :
            /\ db.lastCancelling < h /\ h <= to => h \in hs \/ Keys(cancelled[h]) = {}
            /\ db.lastAdding < h /\ h <= sync.addedTo => h \in hs \/ Keys(added[h]) = {}
  <2>1. WithCopies(added, sync.added, sync.addedTo) \subseteq 1..to
    BY <1>6, <1>7, <1>8 DEF WithCopies
  <2>2. WithCopies(cancelled, sync.cancelled, to) \subseteq 1..to
    BY <1>6, <1>7 DEF WithCopies
  <2>3. ASSUME NEW h \in 1..Height
        PROVE  /\ db.lastCancelling < h /\ h <= to => h \in hs \/ Keys(cancelled[h]) = {}
               /\ db.lastAdding < h /\ h <= sync.addedTo => h \in hs \/ Keys(added[h]) = {}
    BY <1>6, <1>7 DEF WithCopies
  <2> QED
    BY <2>1, <2>2, <2>3
<1> HIDE DEF hs
<1>10. /\ s \in Locals /\ s.cancelledTo = to /\ s.heights = hs
  <2>1. hs \in SUBSET Nat
    BY <1>9
  <2> QED
    BY <1>4, <1>6, <2>1 DEF Locals
<1>11. /\ s.added = sync.added /\ s.cancelled = sync.cancelled /\ s.current = sync.current
       /\ s.addedTo = sync.addedTo /\ s.blockTo = sync.blockTo
       /\ s.contractTo = sync.contractTo
       /\ s.last = sync.last /\ s.contracts = sync.contracts
  BY <1>4 DEF Locals
<1> HIDE DEF s
<1>12. /\ db' = db /\ blocks' = blocks /\ rollup' = rollup /\ indexed' = indexed
       /\ added' = added /\ cancelled' = cancelled
  BY <1>1 DEF storeVars, l1Vars
<1>13. ControlOK'
  BY <1>1, <1>10 DEF ControlOK, Running, MessageSteps, BlockSteps
<1>14. MessagesOK'
  <2>1. /\ sync.added <= db.lastAdding /\ db.lastAdding <= sync.current
        /\ sync.cancelled <= db.lastCancelling /\ db.lastCancelling <= sync.current
    BY <1>1, <1>4 DEF IInv, MessagesOK
  <2> QED
    BY <1>1, <1>3, <1>4, <1>7, <1>8, <1>9, <1>10, <1>11, <1>12, <2>1 DEF MessagesOK, BlockSteps
<1>15. BlocksOK'
  BY <1>1, <1>3, <1>4, <1>11, <1>12 DEF IInv, BlocksOK, BlockSteps, MessageSteps
<1>16. DataOK'
  BY <1>1 DEF DataOK, BlockSteps
<1>17. ConfirmedTo' = ConfirmedTo
  BY <1>1, <1>12 DEF ConfirmedTo
<1>18. NoGhost'
  BY <1>1, <1>12, <1>17, GhostFrame DEF IInv
<1> QED
  BY <1>2, <1>3, <1>13, <1>14, <1>15, <1>16, <1>18 DEF IInv

-----------------------------------------------------------------------------
(* The steps of sync that write messages *)

(* What was read of an L1 block are counts, and the block's if it was read. *)
LEMMA CopiesReadIs ==
    ASSUME NEW s \in Seq(Copies), NEW from \in Nat, NEW to \in Nat, to <= Len(s),
           NEW h \in Nat
    PROVE  /\ CopiesRead(s, from, to, h) \in Copies
           /\ from < h /\ h <= to => CopiesRead(s, from, to, h) = s[h]
           /\ ~ (from < h /\ h <= to) =>
                 \A m \in Messages : CopiesRead(s, from, to, h)[m] = 0
<1>1. Len(s) \in Nat
  BY LenProperties
<1>2. CASE from < h /\ h <= to
  <2>1. s[h] \in Copies
    BY <1>1, <1>2, ElementOfSeq
  <2> QED
    BY <1>2, <2>1 DEF CopiesRead
<1>3. CASE ~ (from < h /\ h <= to)
  BY <1>3, ArchiverAssumption DEF CopiesRead, NoCopies, Copies
<1> QED
  BY <1>2, <1>3

(* addPendingMessages on the fields of the store. *)
LEMMA AddPendingIs ==
    ASSUME NEW d \in Store, NEW c \in Copies, NEW h \in Nat
    PROVE  LET e == AddPendingMessages(d, c, h)
           IN  /\ e \in Store
               /\ e.confirmed = d.confirmed /\ e.lastCancelling = d.lastCancelling
               /\ d.known \subseteq e.known
               /\ d.lastAdding >= h => e = d
               /\ d.lastAdding < h => /\ e.lastAdding = h
                                      /\ e.known = d.known \cup Keys(c)
                                      /\ \A m \in Messages : e.pending[m] = d.pending[m] + c[m]
<1>1. /\ d.lastAdding \in Nat /\ Keys(c) \subseteq Messages
      /\ \A m \in Messages : c[m] \in Nat
  BY ArchiverAssumption DEF Store, Keys, Copies
<1>2. CASE d.lastAdding >= h
  BY <1>1, <1>2 DEF AddPendingMessages
<1>3. CASE d.lastAdding < h
  <2> DEFINE p == Plus(d.pending, c)
             e == [d EXCEPT !.lastAdding = h, !.known = d.known \cup Keys(c), !.pending = p]
  <2>1. p \in [Messages -> Nat] /\ \A m \in Messages : p[m] = d.pending[m] + c[m]
    BY <1>1 DEF Plus, Store
  <2> HIDE DEF p
  <2>2. AddPendingMessages(d, c, h) = e
    BY <1>1, <1>3 DEF AddPendingMessages, p
  <2>3. /\ e \in Store
        /\ e.confirmed = d.confirmed /\ e.lastCancelling = d.lastCancelling
        /\ e.lastAdding = h /\ e.known = d.known \cup Keys(c) /\ e.pending = p
    BY <1>1, <2>1 DEF Store
  <2> HIDE DEF e
  <2> QED
    BY <1>1, <1>3, <2>1, <2>2, <2>3
<1> QED
  BY <1>1, <1>2, <1>3

(* Copies that can be removed leave counters that are not negative. *)
LEMMA MinusIs ==
    ASSUME NEW d \in Store, NEW c \in Copies, CanRemove(d, c)
    PROVE  /\ Minus(d.pending, c) \in [Messages -> Nat]
           /\ \A m \in Messages : Minus(d.pending, c)[m] = d.pending[m] - c[m]
           /\ Keys(c) \subseteq d.known
<1>1. \A m \in Messages : c[m] \in Nat /\ d.pending[m] \in Nat /\ c[m] <= d.pending[m]
  BY ArchiverAssumption DEF Store, Copies, CanRemove
<1> QED
  BY <1>1 DEF Minus, CanRemove

(* cancelPendingMessages on the fields of the store. *)
LEMMA CancelPendingIs ==
    ASSUME NEW d \in Store, NEW c \in Copies, NEW h \in Nat, CanCancelMessages(d, c, h)
    PROVE  LET e == CancelPendingMessages(d, c, h)
           IN  /\ e \in Store
               /\ e.confirmed = d.confirmed /\ e.lastAdding = d.lastAdding
               /\ e.known = d.known
               /\ d.lastCancelling >= h => e = d
               /\ d.lastCancelling < h =>
                      /\ e.lastCancelling = h
                      /\ \A m \in Messages : e.pending[m] = d.pending[m] - c[m]
<1>1. d.lastCancelling \in Nat
  BY DEF Store
<1>2. CASE d.lastCancelling >= h
  BY <1>1, <1>2 DEF CancelPendingMessages
<1>3. CASE d.lastCancelling < h
  <2> DEFINE p == Minus(d.pending, c)
             e == [d EXCEPT !.lastCancelling = h, !.pending = p]
  <2>1. p \in [Messages -> Nat] /\ \A m \in Messages : p[m] = d.pending[m] - c[m]
    <3>1. CanRemove(d, c)
      BY <1>1, <1>3 DEF CanCancelMessages
    <3> QED
      BY <3>1, MinusIs
  <2> HIDE DEF p
  <2>2. CancelPendingMessages(d, c, h) = e
    BY <1>1, <1>3 DEF CancelPendingMessages, p
  <2>3. /\ e \in Store
        /\ e.confirmed = d.confirmed /\ e.lastAdding = d.lastAdding
        /\ e.lastCancelling = h /\ e.known = d.known /\ e.pending = p
    BY <2>1 DEF Store
  <2> HIDE DEF e
  <2> QED
    BY <1>1, <1>3, <2>1, <2>2, <2>3
<1> QED
  BY <1>1, <1>2, <1>3

(* The next L1 block to apply is one that was read and has not been applied. *)
LEMMA NextHeightIs ==
    ASSUME IInv, pc \in {"messages", "cancel"}, sync.heights # {}
    PROVE  /\ NextHeight(sync.heights) \in sync.heights
           /\ NextHeight(sync.heights) \in 1..Height
           /\ NextHeight(sync.heights) <= sync.cancelledTo
           /\ NextHeight(sync.heights) <= sync.current
           /\ \A x \in sync.heights : x \in Nat /\ NextHeight(sync.heights) <= x
<1>1. /\ sync.heights \in SUBSET Nat /\ sync.heights \subseteq 1..sync.cancelledTo
      /\ sync.cancelledTo \in Nat /\ sync.cancelledTo <= sync.current
      /\ sync.current \in Nat /\ sync.current <= Height
  BY DEF IInv, ControlOK, MessagesOK, Running, MessageSteps, Locals
<1>2. /\ NextHeight(sync.heights) \in sync.heights
      /\ \A x \in sync.heights : NextHeight(sync.heights) <= x
  BY <1>1, MinOfNats DEF NextHeight
<1> QED
  BY <1>1, <1>2, L1Types DEF IInv

\* The copies c of L1 block h, the first one left, are added to the store.
Adds(h, c) ==
    /\ h \in sync.heights /\ h \in 1..Height /\ h <= sync.cancelledTo /\ h <= sync.current
    /\ \A x \in sync.heights : x \in Nat /\ h <= x
    /\ c \in Copies
    /\ sync.added < h /\ h <= sync.addedTo => c = added[h]
    /\ ~ (sync.added < h /\ h <= sync.addedTo) => \A m \in Messages : c[m] = 0
    /\ db' \in Store
    /\ db'.confirmed = db.confirmed /\ db'.lastCancelling = db.lastCancelling
    /\ db.known \subseteq db'.known
    /\ db.lastAdding >= h => db' = db
    /\ db.lastAdding < h => /\ db'.lastAdding = h
                            /\ db'.known = db.known \cup Keys(c)
                            /\ \A m \in Messages : db'.pending[m] = db.pending[m] + c[m]

(* What the step that adds messages does. *)
LEMMA AddPendingAdds ==
    ASSUME IInv, AddPending
    PROVE  /\ UNCHANGED l1Vars /\ UNCHANGED <<blocks, logs, extended>> /\ crashes' = crashes
           /\ initial' = initial /\ pc = "messages" /\ pc' = "cancel" /\ sync' = sync
           /\ sync.heights # {}
           /\ \E h, c : Adds(h, c)
<1> DEFINE h == NextHeight(sync.heights)
           c == CopiesRead(added, sync.added, sync.addedTo, h)
<1>1. /\ UNCHANGED l1Vars /\ UNCHANGED <<blocks, logs, extended>> /\ crashes' = crashes
      /\ initial' = initial /\ pc = "messages" /\ pc' = "cancel" /\ sync' = sync
      /\ sync.heights # {}
      /\ db' = AddPendingMessages(db, c, h)
  BY DEF AddPending, Goto
<1>2. /\ h \in sync.heights /\ h \in 1..Height /\ h <= sync.cancelledTo /\ h <= sync.current
      /\ \A x \in sync.heights : x \in Nat /\ h <= x
  BY <1>1, NextHeightIs
<1> HIDE DEF h
<1>3. /\ sync.current <= Height /\ sync.current \in Nat /\ Len(added) = Height
      /\ sync.addedTo \in Nat /\ sync.addedTo <= sync.current /\ sync.added \in Nat
      /\ added \in Seq(Copies) /\ db \in Store /\ Height \in Nat
  BY <1>1, L1Types DEF IInv, ControlOK, MessagesOK, Running, MessageSteps, Locals, L1OK,
                       StoreOK
<1>4. /\ c \in Copies
      /\ sync.added < h /\ h <= sync.addedTo => c = added[h]
      /\ ~ (sync.added < h /\ h <= sync.addedTo) => \A m \in Messages : c[m] = 0
  <2>1. sync.addedTo <= Len(added) /\ h \in Nat
    BY <1>2, <1>3
  <2> QED
    BY <1>3, <2>1, CopiesReadIs
<1> HIDE DEF c
<1>5. /\ db' \in Store
      /\ db'.confirmed = db.confirmed /\ db'.lastCancelling = db.lastCancelling
      /\ db.known \subseteq db'.known
      /\ db.lastAdding >= h => db' = db
      /\ db.lastAdding < h => /\ db'.lastAdding = h
                              /\ db'.known = db.known \cup Keys(c)
                              /\ \A m \in Messages : db'.pending[m] = db.pending[m] + c[m]
  <2>1. h \in Nat /\ db \in Store /\ c \in Copies
    BY <1>2, <1>3, <1>4
  <2> DEFINE e == AddPendingMessages(db, c, h)
  <2>2. /\ e \in Store
        /\ e.confirmed = db.confirmed /\ e.lastCancelling = db.lastCancelling
        /\ db.known \subseteq e.known
        /\ db.lastAdding >= h => e = db
        /\ db.lastAdding < h => /\ e.lastAdding = h
                                /\ e.known = db.known \cup Keys(c)
                                /\ \A m \in Messages : e.pending[m] = db.pending[m] + c[m]
    BY <2>1, AddPendingIs
  <2> HIDE DEF e
  <2>3. db' = e
    BY <1>1 DEF e
  <2> QED
    BY <2>2, <2>3
<1>6. Adds(h, c)
  BY <1>2, <1>4, <1>5 DEF Adds
<1> QED
  BY <1>1, <1>6

(* Messages are added: the pointer of additions goes up to this L1 block. *)
LEMMA AddPendingInv ==
    ASSUME IInv, AddPending
    PROVE  IInv'
<1>1. /\ UNCHANGED l1Vars /\ UNCHANGED <<blocks, logs, extended>> /\ crashes' = crashes
      /\ initial' = initial /\ pc = "messages" /\ pc' = "cancel" /\ sync' = sync
      /\ sync.heights # {}
  BY AddPendingAdds
<1>2. L1OK' /\ Conserved'
  BY <1>1, L1Frame DEF IInv
<1>3. PICK h, c : Adds(h, c)
  BY AddPendingAdds
<1>4. /\ sync \in Locals /\ Running /\ sync.current <= Height /\ sync.current \in Nat
      /\ sync.addedTo \in Nat /\ sync.addedTo <= sync.current /\ sync.added \in Nat
      /\ sync.added <= db.lastAdding /\ db.lastAdding <= sync.current
      /\ added \in Seq(Copies) /\ cancelled \in Seq(Copies)
      /\ Len(added) = Height /\ Len(cancelled) = Height /\ Height \in Nat
      /\ db \in Store /\ db.lastAdding \in Nat /\ db.lastCancelling \in Nat
      /\ db.lastCancelling <= Height
  BY <1>1, L1Types DEF IInv, ControlOK, MessagesOK, Running, MessageSteps, Locals, L1OK,
                       StoreOK, Store
<1>5. /\ h \in sync.heights /\ h \in 1..Height /\ h <= sync.cancelledTo /\ h <= sync.current
      /\ \A x \in sync.heights : x \in Nat /\ h <= x
  BY <1>3 DEF Adds
<1>6. /\ c \in Copies
      /\ sync.added < h /\ h <= sync.addedTo => c = added[h]
      /\ ~ (sync.added < h /\ h <= sync.addedTo) => \A m \in Messages : c[m] = 0
      /\ db' \in Store
      /\ db'.confirmed = db.confirmed /\ db'.lastCancelling = db.lastCancelling
      /\ db.known \subseteq db'.known
      /\ db.lastAdding >= h => db' = db
      /\ db.lastAdding < h => /\ db'.lastAdding = h
                              /\ \A m \in Messages : db'.pending[m] = db.pending[m] + c[m]
  BY <1>3 DEF Adds
<1>7. /\ db'.lastAdding \in Nat /\ db'.lastAdding >= h /\ db'.lastAdding >= db.lastAdding
      /\ db'.lastAdding <= sync.current
  BY <1>5, <1>4, <1>6
<1>8. /\ added' = added /\ cancelled' = cancelled /\ rollup' = rollup /\ emitter' = emitter
      /\ indexed' = indexed /\ Height' = Height /\ LastL1Block' = LastL1Block
  BY <1>1 DEF l1Vars, Height, LastL1Block
<1>9. StoreOK'
  <2>1. db'.confirmed \subseteq db'.known /\ db'.lastAdding <= Height /\ db'.lastCancelling <= Height
    BY <1>4, <1>6, <1>7 DEF IInv, StoreOK
  <2> QED
    BY <1>1, <1>6, <1>8, <2>1 DEF IInv, StoreOK
<1>10. ControlOK'
  BY <1>1, <1>4 DEF ControlOK, Running, MessageSteps
<1>11. MessagesOK'
  <2>1. \E x \in sync.heights : x <= db'.lastAdding
    BY <1>5, <1>7
  <2>2. sync.added <= db'.lastAdding
    BY <1>4, <1>7
  <2>3. /\ sync.cancelled <= db.lastCancelling /\ db.lastCancelling <= sync.current
        /\ sync.added <= sync.addedTo
        /\ sync.cancelled <= sync.cancelledTo /\ sync.cancelledTo <= sync.current
        /\ sync.added < sync.addedTo => sync.addedTo <= indexed
        /\ sync.added < sync.addedTo => sync.addedTo <= sync.cancelledTo
        /\ sync.heights \subseteq 1..sync.cancelledTo
        /\ \A x \in 1..Height :
               db.lastCancelling < x /\ x <= sync.cancelledTo =>
                   x \in sync.heights \/ Keys(cancelled[x]) = {}
        /\ \A x \in 1..Height :
               db.lastAdding < x /\ x <= sync.addedTo =>
                   x \in sync.heights \/ Keys(added[x]) = {}
    BY <1>1, <1>4 DEF IInv, MessagesOK
  <2>4. \A x \in 1..Height :
            db'.lastAdding < x /\ x <= sync.addedTo =>
                x \in sync.heights \/ Keys(added[x]) = {}
    BY <1>4, <1>7, <2>3
  <2> QED
    BY <1>1, <1>4, <1>6, <1>7, <1>8, <2>1, <2>2, <2>3, <2>4 DEF MessagesOK, BlockSteps
<1>12. BlocksOK'
  BY <1>1, <1>4, <1>8 DEF IInv, BlocksOK, BlockSteps, MessageSteps
<1>13. DataOK'
  BY <1>1 DEF DataOK, BlockSteps
<1>14. ConfirmedTo' = Len(blocks) /\ ConfirmedTo = Len(blocks)
  BY <1>1 DEF ConfirmedTo
<1>15. NoGhost'
  <2> SUFFICES ASSUME NEW m \in Messages
               PROVE  db'.pending[m] <= PendingOnL1(ConfirmedTo, m)'
    BY DEF NoGhost
  <2>1. PendingOnL1(ConfirmedTo, m)' = Total(added, db'.lastAdding, m)
            - Total(cancelled, db.lastCancelling, m) - Consumed(Len(blocks), m)
    BY <1>6, <1>8, <1>14 DEF PendingOnL1, Consumed
  <2>2. db.pending[m] <= Total(added, db.lastAdding, m)
            - Total(cancelled, db.lastCancelling, m) - Consumed(Len(blocks), m)
    BY <1>14 DEF IInv, NoGhost, PendingOnL1
  <2>3. CASE db.lastAdding >= h
    BY <1>6, <2>1, <2>2, <2>3
  <2>4. CASE db.lastAdding < h
    <3>1. /\ Total(added, h, m) \in Nat /\ Total(added, db.lastAdding, m) \in Nat
          /\ added[h][m] \in Nat
          /\ Total(added, h, m) >= Total(added, db.lastAdding, m) + added[h][m]
      BY <1>5, <1>4, <2>4, EventsStep
    <3>2. c[m] \in Nat /\ c[m] <= added[h][m]
      BY <1>6, <3>1, ArchiverAssumption DEF Copies
    <3>3. Total(cancelled, db.lastCancelling, m) \in Nat /\ Consumed(Len(blocks), m) \in Nat
      <4>1. db.lastCancelling \in 0..Len(cancelled) /\ Len(blocks) \in 0..Len(rollup)
        BY <1>4, LastL1BlockIs, L1Types DEF IInv, StoreOK
      <4> QED
        BY <1>4, <4>1, EventsMono, ConsumedSteps DEF IInv, L1OK
    <3>4. db.pending[m] \in Nat /\ db'.pending[m] = db.pending[m] + c[m] /\ db'.lastAdding = h
      BY <1>4, <1>6, <2>4 DEF Store
    <3> QED
      BY <2>1, <2>2, <3>1, <3>2, <3>3, <3>4, SMTT(20)
  <2> QED
    BY <1>5, <1>4, <2>3, <2>4
<1> QED
  BY <1>2, <1>9, <1>10, <1>11, <1>12, <1>13, <1>15 DEF IInv

\* The copies c of L1 block h, the first one left, are taken from the store.
Cancels(h, c) ==
    /\ h \in sync.heights /\ h \in 1..Height /\ h <= sync.cancelledTo /\ h <= sync.current
    /\ \A x \in sync.heights : x \in Nat /\ h <= x
    /\ h <= db.lastAdding
    /\ c \in Copies
    /\ db.lastCancelling < h => c = cancelled[h]

\* They could be taken.
Taken(h, c) ==
    /\ pc' = "messages"
    /\ sync' = [sync EXCEPT !.heights = sync.heights \ {h}]
    /\ db' \in Store
    /\ db'.confirmed = db.confirmed /\ db'.lastAdding = db.lastAdding
    /\ db'.known = db.known
    /\ db.lastCancelling >= h => db' = db
    /\ db.lastCancelling < h =>
           /\ db'.lastCancelling = h
           /\ \A m \in Messages : db'.pending[m] = db.pending[m] - c[m]

\* They could not be taken.
NotTaken(h, c) ==
    /\ db.lastCancelling < h
    /\ ~ CanRemove(db, c)
    /\ pc' = "failed"
    /\ sync' = NoSync
    /\ UNCHANGED db

(* What the step that cancels messages does. *)
LEMMA CancelPendingCancels ==
    ASSUME IInv, CancelPending
    PROVE  /\ UNCHANGED l1Vars /\ UNCHANGED <<blocks, logs, extended>> /\ crashes' = crashes
           /\ initial' = initial /\ initial \in BOOLEAN /\ pc = "cancel"
           /\ \E h, c : Cancels(h, c) /\ (Taken(h, c) \/ NotTaken(h, c))
<1> DEFINE h == NextHeight(sync.heights)
           c == CopiesRead(cancelled, sync.cancelled, sync.cancelledTo, h)
<1>1. /\ UNCHANGED l1Vars /\ UNCHANGED <<blocks, logs, extended>> /\ crashes' = crashes
      /\ initial' = initial /\ initial \in BOOLEAN /\ pc = "cancel"
  BY DEF CancelPending, Goto, Fail, IInv, StoreOK
<1>2. /\ sync \in Locals /\ Running /\ sync.cancelledTo \in Nat /\ sync.cancelled \in Nat
      /\ sync.cancelledTo <= sync.current /\ sync.current <= Height /\ sync.current \in Nat
      /\ sync.cancelled <= db.lastCancelling /\ db.lastCancelling \in Nat
      /\ cancelled \in Seq(Copies) /\ Len(cancelled) = Height /\ Height \in Nat
      /\ db \in Store /\ db.lastAdding \in Nat
  BY <1>1, L1Types DEF IInv, ControlOK, MessagesOK, Running, MessageSteps, Locals, L1OK,
                       StoreOK, Store
<1>3. \E x \in sync.heights : x <= db.lastAdding
  BY <1>1, <1>2 DEF IInv, MessagesOK
<1>4. /\ h \in sync.heights /\ h \in 1..Height /\ h <= sync.cancelledTo /\ h <= sync.current
      /\ \A x \in sync.heights : x \in Nat /\ h <= x
  BY <1>1, <1>3, NextHeightIs
<1>5. IF CanCancelMessages(db, c, h)
      THEN /\ db' = CancelPendingMessages(db, c, h)
           /\ pc' = "messages" /\ sync' = [sync EXCEPT !.heights = sync.heights \ {h}]
      ELSE pc' = "failed" /\ sync' = NoSync /\ UNCHANGED db
  BY DEF CancelPending, Goto, Fail
<1> HIDE DEF h
<1>6. h <= db.lastAdding /\ h \in Nat
  BY <1>2, <1>3, <1>4
<1>7. c \in Copies /\ (sync.cancelled < h => c = cancelled[h])
  <2>1. sync.cancelledTo <= Len(cancelled)
    BY <1>2
  <2> QED
    BY <1>2, <1>4, <1>6, <2>1, CopiesReadIs
<1> HIDE DEF c
<1>8. Cancels(h, c)
  <2>1. db.lastCancelling < h => sync.cancelled < h
    BY <1>2, <1>6
  <2> QED
    BY <1>4, <1>6, <1>7, <2>1 DEF Cancels
<1>9. CASE ~ CanCancelMessages(db, c, h)
  <2>1. NotTaken(h, c)
    BY <1>2, <1>5, <1>6, <1>9 DEF NotTaken, CanCancelMessages
  <2> QED
    BY <1>1, <1>8, <2>1
<1>10. CASE CanCancelMessages(db, c, h)
  <2>1. /\ db' \in Store
        /\ db'.confirmed = db.confirmed /\ db'.lastAdding = db.lastAdding
        /\ db'.known = db.known
        /\ db.lastCancelling >= h => db' = db
        /\ db.lastCancelling < h =>
               /\ db'.lastCancelling = h
               /\ \A m \in Messages : db'.pending[m] = db.pending[m] - c[m]
    <3>1. h \in Nat /\ db \in Store /\ c \in Copies
      BY <1>2, <1>6, <1>7
    <3>2. db' = CancelPendingMessages(db, c, h)
      BY <1>5, <1>10
    <3> QED
      BY <1>10, <3>1, <3>2, CancelPendingIs, Zenon
  <2>2. Taken(h, c)
    BY <1>5, <1>10, <2>1 DEF Taken
  <2> QED
    BY <1>1, <1>8, <2>2
<1> QED
  BY <1>9, <1>10

(* Every cancellation before the L1 block that is applied next is applied:   *)
(* the pointer may go there.                                                 *)
LEMMA CancelledUpTo ==
    ASSUME IInv, pc = "cancel", NEW h, NEW c, Cancels(h, c), db.lastCancelling < h,
           NEW m \in Messages
    PROVE  /\ Total(cancelled, h, m) \in Nat /\ Total(cancelled, db.lastCancelling, m) \in Nat
           /\ c[m] \in Nat
           /\ Total(cancelled, h, m) = Total(cancelled, db.lastCancelling, m) + c[m]
<1>1. /\ cancelled \in Seq(Copies) /\ Len(cancelled) = Height /\ Height \in Nat
      /\ db.lastCancelling \in Nat /\ sync.cancelledTo \in Nat /\ Running
  BY L1Types DEF IInv, ControlOK, Running, MessageSteps, Locals, L1OK, StoreOK, Store
<1>2. \A x \in 1..Height :
          db.lastCancelling < x /\ x <= sync.cancelledTo =>
              x \in sync.heights \/ Keys(cancelled[x]) = {}
  BY <1>1 DEF IInv, MessagesOK
<1>3. /\ h \in 1..Height /\ h <= sync.cancelledTo
      /\ \A x \in sync.heights : x \in Nat /\ h <= x
      /\ c = cancelled[h]
  BY DEF Cancels
<1>4. ASSUME NEW i \in 1..Height, db.lastCancelling < i, i < h
      PROVE  cancelled[i][m] = 0
  <2>1. i \notin sync.heights /\ i <= sync.cancelledTo
    BY <1>1, <1>3, <1>4
  <2>2. Keys(cancelled[i]) = {}
    BY <1>2, <1>4, <2>1
  <2>3. cancelled[i][m] \in Nat
    BY <1>1, CopiesCount
  <2> QED
    BY <2>2, <2>3 DEF Keys
<1>5. h \in 1..Len(cancelled)
      /\ \A i \in 1..Len(cancelled) : db.lastCancelling < i /\ i < h => cancelled[i][m] = 0
  BY <1>1, <1>3, <1>4
<1> QED
  BY <1>1, <1>3, <1>5, EventsStep

(* Messages are cancelled: the pointer of cancellations goes up to this L1   *)
(* block, past no cancellation that was not applied.                         *)
LEMMA CancelPendingInv ==
    ASSUME IInv, CancelPending
    PROVE  IInv'
<1>1. /\ UNCHANGED l1Vars /\ UNCHANGED <<blocks, logs, extended>> /\ crashes' = crashes
      /\ initial' = initial /\ initial \in BOOLEAN /\ pc = "cancel"
  BY CancelPendingCancels
<1>2. PICK h, c : Cancels(h, c) /\ (Taken(h, c) \/ NotTaken(h, c))
  BY CancelPendingCancels
<1>3. CASE NotTaken(h, c)
  <2>1. UNCHANGED storeVars /\ pc' = "failed" /\ sync' = NoSync
    BY <1>1, <1>3 DEF storeVars, NotTaken
  <2> QED
    BY <1>1, <2>1, NotRunningInv
<1>4. CASE Taken(h, c)
  <2> DEFINE s == [sync EXCEPT !.heights = sync.heights \ {h}]
  <2>1. pc' = "messages" /\ sync' = s
    BY <1>4 DEF Taken
  <2>2. L1OK' /\ Conserved'
    BY <1>1, L1Frame DEF IInv
  <2>3. /\ sync \in Locals /\ Running /\ sync.current <= Height /\ sync.current \in Nat
        /\ sync.cancelledTo \in Nat /\ sync.cancelledTo <= sync.current /\ sync.cancelled \in Nat
        /\ sync.cancelled <= db.lastCancelling /\ db.lastCancelling <= sync.current
        /\ added \in Seq(Copies) /\ cancelled \in Seq(Copies)
        /\ Len(added) = Height /\ Len(cancelled) = Height /\ Height \in Nat
        /\ db \in Store /\ db.lastAdding \in Nat /\ db.lastCancelling \in Nat
        /\ db.lastAdding <= Height
    BY <1>1, L1Types DEF IInv, ControlOK, MessagesOK, Running, MessageSteps, Locals, L1OK,
                         StoreOK, Store
  <2>4. /\ sync.added <= db.lastAdding /\ db.lastAdding <= sync.current
        /\ sync.added <= sync.addedTo /\ sync.addedTo <= sync.current
        /\ sync.cancelled <= sync.cancelledTo
        /\ sync.added < sync.addedTo => sync.addedTo <= indexed
        /\ sync.added < sync.addedTo => sync.addedTo <= sync.cancelledTo
        /\ sync.heights \subseteq 1..sync.cancelledTo
        /\ \A x \in 1..Height :
               db.lastCancelling < x /\ x <= sync.cancelledTo =>
                   x \in sync.heights \/ Keys(cancelled[x]) = {}
        /\ \A x \in 1..Height :
               db.lastAdding < x /\ x <= sync.addedTo =>
                   x \in sync.heights \/ Keys(added[x]) = {}
    BY <1>1, <2>3 DEF IInv, MessagesOK
  <2>5. /\ h \in sync.heights /\ h \in 1..Height /\ h <= sync.cancelledTo /\ h <= sync.current
        /\ \A x \in sync.heights : x \in Nat /\ h <= x
        /\ h <= db.lastAdding
    BY <1>2 DEF Cancels
  <2>6. /\ db' \in Store
        /\ db'.confirmed = db.confirmed /\ db'.lastAdding = db.lastAdding
        /\ db'.known = db.known
        /\ db.lastCancelling >= h => db' = db
        /\ db.lastCancelling < h =>
               /\ db'.lastCancelling = h
               /\ \A m \in Messages : db'.pending[m] = db.pending[m] - c[m]
    BY <1>4 DEF Taken
  <2>7. /\ db'.lastCancelling \in Nat /\ db'.lastCancelling >= h
        /\ db'.lastCancelling >= db.lastCancelling /\ db'.lastCancelling <= sync.current
    BY <2>3, <2>5, <2>6
  <2>8. /\ added' = added /\ cancelled' = cancelled /\ rollup' = rollup /\ emitter' = emitter
         /\ indexed' = indexed /\ Height' = Height /\ LastL1Block' = LastL1Block
    BY <1>1 DEF l1Vars, Height, LastL1Block
  <2>9. StoreOK'
    <3>1. /\ db'.confirmed \subseteq db'.known /\ db'.lastAdding <= Height
          /\ db'.lastCancelling <= Height
      BY <2>3, <2>6, <2>7 DEF IInv, StoreOK
    <3> QED
      BY <1>1, <2>6, <2>8, <3>1 DEF IInv, StoreOK
  <2>10. /\ s \in Locals /\ s.heights = sync.heights \ {h}
         /\ s.added = sync.added /\ s.cancelled = sync.cancelled /\ s.current = sync.current
         /\ s.addedTo = sync.addedTo /\ s.cancelledTo = sync.cancelledTo
         /\ s.blockTo = sync.blockTo /\ s.contractTo = sync.contractTo
         /\ s.last = sync.last /\ s.contracts = sync.contracts
    BY <2>3 DEF Locals
  <2> HIDE DEF s
  <2>11. ControlOK'
    BY <2>1, <2>10 DEF ControlOK, Running, MessageSteps
  <2>12. MessagesOK'
    <3>1. \A x \in 1..Height :
              db'.lastCancelling < x /\ x <= sync.cancelledTo =>
                  x \in sync.heights \ {h} \/ Keys(cancelled[x]) = {}
      BY <2>3, <2>4, <2>5, <2>7
    <3>2. \A x \in 1..Height :
              db.lastAdding < x /\ x <= sync.addedTo =>
                  x \in sync.heights \ {h} \/ Keys(added[x]) = {}
      BY <2>3, <2>4, <2>5
    <3>3. sync.cancelled <= db'.lastCancelling /\ sync.heights \ {h} \subseteq 1..sync.cancelledTo
      BY <2>3, <2>4, <2>7
    <3> QED
      BY <2>1, <2>3, <2>4, <2>6, <2>7, <2>8, <2>10, <3>1, <3>2, <3>3 DEF MessagesOK, BlockSteps
  <2>13. BlocksOK'
    BY <1>1, <2>1, <2>3, <2>8, <2>10 DEF IInv, BlocksOK, BlockSteps, MessageSteps
  <2>14. DataOK'
    BY <2>1 DEF DataOK, BlockSteps
  <2>15. ConfirmedTo' = Len(blocks) /\ ConfirmedTo = Len(blocks)
    BY <1>1, <2>1 DEF ConfirmedTo
  <2>16. NoGhost'
    <3> SUFFICES ASSUME NEW m \in Messages
                 PROVE  db'.pending[m] <= PendingOnL1(ConfirmedTo, m)'
      BY DEF NoGhost
    <3>1. PendingOnL1(ConfirmedTo, m)' = Total(added, db.lastAdding, m)
              - Total(cancelled, db'.lastCancelling, m) - Consumed(Len(blocks), m)
      BY <2>6, <2>8, <2>15 DEF PendingOnL1, Consumed
    <3>2. db.pending[m] <= Total(added, db.lastAdding, m)
              - Total(cancelled, db.lastCancelling, m) - Consumed(Len(blocks), m)
      BY <2>15 DEF IInv, NoGhost, PendingOnL1
    <3>3. CASE db.lastCancelling >= h
      BY <2>6, <3>1, <3>2, <3>3
    <3>4. CASE db.lastCancelling < h
      <4>1. /\ Total(cancelled, h, m) \in Nat /\ Total(cancelled, db.lastCancelling, m) \in Nat
            /\ c[m] \in Nat
            /\ Total(cancelled, h, m) = Total(cancelled, db.lastCancelling, m) + c[m]
        BY <1>1, <1>2, <3>4, CancelledUpTo
      <4>2. Total(added, db.lastAdding, m) \in Nat /\ Consumed(Len(blocks), m) \in Nat
        <5>1. db.lastAdding \in 0..Len(added) /\ Len(blocks) \in 0..Len(rollup)
          BY <2>3, LastL1BlockIs, L1Types DEF IInv, StoreOK
        <5> QED
          BY <2>3, <5>1, EventsMono, ConsumedSteps DEF IInv, L1OK
      <4>3. db.pending[m] \in Nat /\ db'.pending[m] = db.pending[m] - c[m] /\ db'.lastCancelling = h
        BY <2>3, <2>6, <3>4 DEF Store
      <4> QED
        BY <3>1, <3>2, <4>1, <4>2, <4>3, SMTT(20)
    <3> QED
      BY <2>3, <2>5, <3>3, <3>4
  <2> QED
    BY <2>2, <2>9, <2>11, <2>12, <2>13, <2>14, <2>16 DEF IInv
<1> QED
  BY <1>2, <1>3, <1>4

-----------------------------------------------------------------------------
(* The steps of sync for L2 blocks *)

(* The L2 blocks of the range searched follow those already read, without a  *)
(* gap: k is then the last block read.                                       *)
LEMMA NewBlocksFollow ==
    ASSUME L1OK, NEW from \in Nat, NEW to \in Nat, NEW last \in 0..Len(rollup),
           \A n \in 1..Len(rollup) : rollup[n].l1 <= from <=> n <= last
    PROVE  LET new == {n \in DOMAIN rollup : from < rollup[n].l1 /\ rollup[n].l1 <= to}
           IN  \E k \in last..Len(rollup) :
                   /\ new = (last + 1)..k
                   /\ Cardinality(new) = k - last
                   /\ \A n \in 1..Len(rollup) : rollup[n].l1 <= Max({from, to}) <=> n <= k
<1> DEFINE N == Len(rollup)
           l1(n) == rollup[n].l1
           new == {n \in DOMAIN rollup : from < rollup[n].l1 /\ rollup[n].l1 <= to}
           D == {n \in last..N : \A i \in 1..N : n < i => l1(i) > to}
<1>1. /\ N \in Nat /\ DOMAIN rollup = 1..N
      /\ \A n \in 1..N : l1(n) \in Nat
      /\ \A n, k \in 1..N : n < k => l1(n) < l1(k)
      /\ \A n \in 1..N : l1(n) <= from <=> n <= last
  BY LenProperties DEF L1OK, Height
<1>2. new = {n \in 1..N : from < l1(n) /\ l1(n) <= to}
  BY <1>1
<1> HIDE DEF N, l1, new
<1>3. last \in 0..N
  BY DEF N
<1>4. D \in SUBSET Nat /\ N \in D
  BY <1>1, <1>3
<1>5. PICK k \in D : \A y \in D : k <= y
  BY <1>4, NatMin
<1>6. k \in last..N /\ \A i \in 1..N : k < i => l1(i) > to
  OBVIOUS
<1>7. k > last => l1(k) <= to /\ k \in 1..N
  <2> SUFFICES ASSUME k > last PROVE l1(k) <= to /\ k \in 1..N
    OBVIOUS
  <2>1. k - 1 \in last..N /\ k - 1 \notin D /\ k \in 1..N
    <3>1. k - 1 \in last..N /\ k \in 1..N /\ k \in Nat
      BY <1>1, <1>3, <1>6
    <3> HIDE DEF D
    <3>2. k - 1 \notin D
      BY <1>5, <3>1
    <3> QED
      BY <3>1, <3>2
  <2>2. PICK i \in 1..N : k - 1 < i /\ ~ (l1(i) > to)
    BY <2>1
  <2>3. i = k
    BY <1>1, <1>6, <2>1, <2>2
  <2> QED
    BY <1>1, <2>1, <2>2, <2>3
<1>8. ASSUME NEW n \in 1..N, last < n
      PROVE  l1(n) <= to <=> n <= k
  <2>1. CASE n <= k
    <3>1. l1(k) <= to /\ k \in 1..N /\ l1(k) \in Nat /\ l1(n) \in Nat
      BY <1>1, <1>3, <1>6, <1>7, <1>8, <2>1
    <3>2. n = k \/ l1(n) < l1(k)
      BY <1>1, <2>1, <3>1
    <3> QED
      BY <2>1, <3>1, <3>2
  <2>2. CASE ~ (n <= k)
    BY <1>1, <1>3, <1>6, <2>2
  <2> QED
    BY <2>1, <2>2
<1>9. new = (last + 1)..k
  <2>1. ASSUME NEW n \in new PROVE n \in (last + 1)..k
    BY <1>1, <1>2, <1>3, <1>6, <1>8
  <2>2. ASSUME NEW n \in (last + 1)..k PROVE n \in new
    <3>1. n \in 1..N /\ last < n /\ n <= k
      BY <1>1, <1>3, <1>6
    <3> QED
      BY <1>1, <1>2, <1>3, <1>8, <3>1
  <2> QED
    BY <2>1, <2>2
<1>10. Cardinality((last + 1)..k) = k - last
  <2>1. last + 1 \in Int /\ k \in Int /\ k >= last
    BY <1>1, <1>3, <1>6
  <2>2. Cardinality((last + 1)..k) = IF last + 1 > k THEN 0 ELSE k - (last + 1) + 1
    BY <2>1, FS_Interval
  <2> QED
    BY <1>3, <2>1, <2>2
<1>11. ASSUME NEW n \in 1..N
       PROVE  l1(n) <= Max({from, to}) <=> n <= k
  <2>1. PICK x \in Nat : /\ x = Max({from, to})
                         /\ x >= from /\ x >= to
                         /\ x = from \/ x = to
    BY MaxOfTwo, Zenon
  <2>2. CASE n <= last
    BY <1>1, <1>3, <1>6, <2>1, <2>2
  <2>3. CASE last < n
    BY <1>1, <1>3, <1>8, <2>1, <2>3
  <2> QED
    BY <1>3, <2>2, <2>3
<1> QED
  BY <1>6, <1>9, <1>10, <1>11 DEF N, l1, new

(* L2 blocks are read: they carry the numbers expected, so sync goes on. *)
LEMMA RetrieveBlocksInv ==
    ASSUME IInv, RetrieveBlocks
    PROVE  IInv' /\ pc' # "failed"
<1> DEFINE to == Visible(sync.current)
           last == Max({Len(blocks), sync.last})
           new == {n \in DOMAIN rollup : sync.blockTo < rollup[n].l1 /\ rollup[n].l1 <= to}
           upTo == last + Cardinality(new)
           x == Max({sync.blockTo, to})
           s == [sync EXCEPT !.blockTo = x, !.last = upTo, !.next = Len(blocks) + 1]
<1>1. /\ UNCHANGED l1Vars /\ UNCHANGED storeVars /\ crashes' = crashes
      /\ initial \in BOOLEAN /\ pc = "messages" /\ sync.heights = {}
  BY DEF RetrieveBlocks, IInv, StoreOK
<1>2. \/ new # (last + 1)..upTo /\ Fail
      \/ Goto("messages", s)
      \/ upTo = Len(blocks) /\ Return
      \/ upTo # Len(blocks) /\ Goto("contracts", s)
  BY DEF RetrieveBlocks
<1>3. /\ sync \in Locals /\ Running /\ sync.current <= Height /\ sync.current \in Nat
      /\ sync.last \in Nat /\ sync.last <= Len(rollup) /\ sync.blockTo \in Nat
      /\ Len(blocks) \in Nat /\ Len(rollup) \in Nat /\ Len(blocks) <= Len(rollup)
      /\ indexed \in Nat
  BY <1>1, L1Types, LastL1BlockIs
     DEF IInv, ControlOK, MessagesOK, BlocksOK, Running, MessageSteps, Locals, StoreOK
<1>4. /\ sync.contracts = {} /\ sync.contractTo = LastL1Block
      /\ LastL1Block <= sync.blockTo /\ sync.blockTo <= sync.current
      /\ LastL1Block < sync.blockTo => sync.blockTo <= indexed
      /\ \A n \in 1..Len(rollup) :
            rollup[n].l1 <= sync.blockTo <=> n <= Len(blocks) \/ n <= sync.last
  BY <1>1, <1>3 DEF IInv, BlocksOK, MessageSteps
<1>5. to \in Nat /\ to <= sync.current /\ to <= indexed
  BY <1>3, VisibleIs DEF IInv
<1> HIDE DEF to
<1>6. /\ last \in Nat /\ last >= Len(blocks) /\ last >= sync.last
      /\ last = Len(blocks) \/ last = sync.last
  BY <1>3, MaxOfTwo, Zenon
<1>7. /\ x \in Nat /\ x >= sync.blockTo /\ x >= to
      /\ x = sync.blockTo \/ x = to
  BY <1>3, <1>5, MaxOfTwo, Zenon
<1> HIDE DEF last
<1>8. PICK k \in last..Len(rollup) :
          /\ new = (last + 1)..k
          /\ Cardinality(new) = k - last
          /\ \A n \in 1..Len(rollup) : rollup[n].l1 <= x <=> n <= k
  <2>1. last \in 0..Len(rollup)
    BY <1>3, <1>6
  <2>2. \A n \in 1..Len(rollup) : rollup[n].l1 <= sync.blockTo <=> n <= last
    BY <1>3, <1>4, <1>6
  <2> QED
    BY <1>3, <1>5, <2>1, <2>2, NewBlocksFollow DEF IInv
<1> HIDE DEF x, new
<1>9. upTo = k
  BY <1>3, <1>6, <1>8
<1> HIDE DEF upTo
<1>10. \/ Goto("messages", s)
       \/ Return
       \/ k # Len(blocks) /\ Goto("contracts", s)
  BY <1>2, <1>8, <1>9
<1>11. /\ s \in Locals /\ s.blockTo = x /\ s.last = k /\ s.next = Len(blocks) + 1
       /\ s.added = sync.added /\ s.cancelled = sync.cancelled /\ s.current = sync.current
       /\ s.addedTo = sync.addedTo /\ s.cancelledTo = sync.cancelledTo
       /\ s.contractTo = sync.contractTo /\ s.heights = sync.heights
       /\ s.contracts = sync.contracts
  <2>1. k \in Nat /\ upTo \in Nat /\ Len(blocks) + 1 \in Nat
    BY <1>3, <1>6, <1>8, <1>9
  <2> QED
    BY <1>3, <1>7, <1>9, <2>1 DEF Locals
<1> HIDE DEF s
<1>12. CASE Return
  <2>1. pc' = "idle" /\ sync' = NoSync /\ initial' \in BOOLEAN
    BY <1>12 DEF Return
  <2> QED
    BY <1>1, <2>1, NotRunningInv
<1>13. ASSUME pc' = "messages" \/ (pc' = "contracts" /\ k # Len(blocks)),
              sync' = s, initial' = initial
       PROVE  IInv'
  <2>1. L1OK' /\ Conserved'
    BY <1>1, L1Frame DEF IInv
  <2>2. StoreOK' /\ LastL1Block' = LastL1Block /\ Height' = Height
    BY <1>1, <1>13, StoreFrame DEF IInv
  <2>3. /\ db' = db /\ blocks' = blocks /\ rollup' = rollup /\ indexed' = indexed
        /\ added' = added /\ cancelled' = cancelled /\ emitter' = emitter /\ extended' = extended
        /\ logs' = logs
    BY <1>1 DEF storeVars, l1Vars
  <2>4. ControlOK' /\ Running'
    BY <1>11, <1>13 DEF ControlOK, Running, MessageSteps, BlockSteps
  <2>5. MessagesOK'
    BY <1>1, <1>3, <1>11, <1>13, <2>2, <2>3 DEF IInv, MessagesOK
  <2>6. pc' \in BlockSteps => Len(blocks) < k
    BY <1>3, <1>6, <1>8, <1>13 DEF BlockSteps
  <2>7. BlocksOK'
    <3>1. /\ LastL1Block <= x /\ x <= sync.current
          /\ LastL1Block < x => x <= indexed
          /\ k <= Len(rollup)
      <4>1. LastL1Block \in Nat
        BY LastL1BlockIs, L1Types DEF IInv
      <4> QED
        BY <1>3, <1>4, <1>5, <1>7, <1>8, <4>1
    <3>2. \A n \in 1..Len(rollup) : rollup[n].l1 <= x <=> n <= Len(blocks) \/ n <= k
      BY <1>3, <1>6, <1>8
    <3> QED
      BY <1>4, <1>11, <1>13, <2>2, <2>3, <2>6, <3>1, <3>2 DEF BlocksOK
  <2>8. DataOK'
    <3>1. SUFFICES ASSUME pc' = "contracts"
                   PROVE  DataOK'
      BY <1>13 DEF DataOK, BlockSteps
    <3>2. ASSUME NEW e \in emitter, Len(blocks) < e.n
          PROVE  LastL1Block < e.l1
      <4>1. /\ e.n \in Nat /\ e.l1 \in 1..Height
            /\ \A n \in 1..Len(rollup) : n < e.n => rollup[n].l1 < e.l1
        BY DEF IInv, L1OK
      <4>2. CASE Len(blocks) = 0
        BY <4>1, <4>2, LastL1BlockIs, L1Types DEF IInv
      <4>3. CASE Len(blocks) > 0
        <5>1. LastL1Block = rollup[Len(blocks)].l1 /\ Len(blocks) \in 1..Len(rollup)
          BY <1>3, <4>3, LastL1BlockIs DEF IInv
        <5> QED
          BY <3>2, <4>1, <5>1
      <4> QED
        BY <1>3, <4>2, <4>3
    <3>3. LastL1Block <= sync.current /\ LastL1Block <= LastL1Block
      <4>1. LastL1Block \in Nat
        BY LastL1BlockIs, L1Types DEF IInv
      <4> QED
        BY <1>3, <1>4, <4>1
    <3>4. \A e \in emitter : Len(blocks) < e.n /\ e.n <= k => LastL1Block < e.l1
      BY <3>2
    <3> QED
      BY <1>4, <1>11, <1>13, <2>2, <2>3, <3>1, <3>3, <3>4 DEF DataOK
  <2>9. ConfirmedTo' = ConfirmedTo
    BY <1>1, <1>13, <2>3 DEF ConfirmedTo
  <2>10. NoGhost'
    BY <1>1, <2>3, <2>9, GhostFrame DEF IInv
  <2> QED
    BY <2>1, <2>2, <2>4, <2>5, <2>7, <2>8, <2>10 DEF IInv
<1> QED
  BY <1>10, <1>12, <1>13 DEF Goto, Return

(* Contract data is read as far as L2 blocks were, which the provider has    *)
(* indexed with everything before them.                                      *)
LEMMA RetrieveContractsInv ==
    ASSUME IInv, RetrieveContracts
    PROVE  IInv'
<1> DEFINE to == Visible(sync.current)
           found == {e \in emitter : sync.contractTo < e.l1 /\ e.l1 <= to}
           x == Max({sync.contractTo, to})
           cs == sync.contracts \cup ({e.n : e \in found} \cap (Len(blocks) + 1)..sync.last)
           s == [sync EXCEPT !.contractTo = x, !.contracts = cs]
<1>1. /\ UNCHANGED l1Vars /\ UNCHANGED storeVars /\ crashes' = crashes
      /\ initial' = initial /\ initial \in BOOLEAN /\ pc = "contracts"
      /\ pc' \in {"contracts", "logs"} /\ sync' = s
  BY DEF RetrieveContracts, Goto, ContractsFrom, IInv, StoreOK
<1>2. L1OK' /\ Conserved'
  BY <1>1, L1Frame DEF IInv
<1>3. StoreOK' /\ LastL1Block' = LastL1Block /\ Height' = Height
  BY <1>1, StoreFrame DEF IInv
<1>4. /\ sync \in Locals /\ Running /\ sync.current <= Height /\ sync.current \in Nat
      /\ sync.last \in Nat /\ sync.last <= Len(rollup) /\ sync.blockTo \in Nat
      /\ sync.blockTo <= sync.current /\ sync.contractTo \in Nat
      /\ Len(blocks) \in Nat /\ Len(rollup) \in Nat /\ indexed \in Nat
      /\ LastL1Block \in Nat /\ Height \in Nat
  BY <1>1, L1Types, LastL1BlockIs, SMTT(20)
     DEF IInv, ControlOK, MessagesOK, BlocksOK, Running, BlockSteps, Locals, StoreOK
<1>5. /\ Len(blocks) < sync.last
      /\ LastL1Block < sync.blockTo => sync.blockTo <= indexed
      /\ \A n \in 1..Len(rollup) :
            rollup[n].l1 <= sync.blockTo <=> n <= Len(blocks) \/ n <= sync.last
      /\ LastL1Block <= sync.contractTo /\ sync.contractTo <= sync.current
      /\ sync.contracts \subseteq (Len(blocks) + 1)..sync.last
      /\ sync.next = Len(blocks) + 1
      /\ \A e \in emitter :
             Len(blocks) < e.n /\ e.n <= sync.last =>
                 e.n \in sync.contracts \/ sync.contractTo < e.l1
  BY <1>1, <1>4 DEF IInv, BlocksOK, DataOK, BlockSteps
<1>6. to \in Nat /\ to <= sync.current /\ (to = sync.current \/ to = indexed)
  BY <1>4, VisibleIs DEF IInv
<1> HIDE DEF to
<1>7. /\ x \in Nat /\ x >= sync.contractTo /\ x >= to
      /\ x = sync.contractTo \/ x = to
  BY <1>4, <1>6, MaxOfTwo, Zenon
<1> HIDE DEF x
<1>8. cs \subseteq (Len(blocks) + 1)..sync.last /\ cs \in SUBSET Nat
  <2>1. cs \subseteq (Len(blocks) + 1)..sync.last
    BY <1>5
  <2>2. (Len(blocks) + 1)..sync.last \subseteq Nat
    BY <1>4
  <2> HIDE DEF cs
  <2> QED
    BY <2>1, <2>2
<1>9. ASSUME NEW e \in emitter, Len(blocks) < e.n, e.n <= sync.last
      PROVE  e.n \in cs
  <2>1. /\ e.n \in Nat /\ e.l1 \in Nat
        /\ \A n \in 1..Len(rollup) : e.n <= n => e.l1 <= rollup[n].l1
    <3>1. e.n \in 1..MaxBlocks /\ e.l1 \in 1..Height
          /\ \A n \in 1..Len(rollup) : e.n <= n => e.l1 <= rollup[n].l1
      BY DEF IInv, L1OK
    <3> QED
      BY <1>4, <3>1
  <2>2. CASE e.n \in sync.contracts
    BY <2>2
  <2>3. CASE sync.contractTo < e.l1
    <3>1. e.n \in 1..Len(rollup)
      BY <1>4, <1>9, <2>1
    <3>2. rollup[e.n].l1 \in Nat /\ rollup[e.n].l1 <= sync.blockTo /\ e.l1 <= rollup[e.n].l1
      <4>1. rollup[e.n].l1 \in 1..Height
        BY <3>1 DEF IInv, L1OK
      <4> QED
        BY <1>4, <1>5, <1>9, <2>1, <3>1, <4>1, SMTT(20)
    <3>3. sync.blockTo <= to
      BY <1>4, <1>5, <1>6, <2>1, <2>3, <3>2, SMTT(20)
    <3>4. e \in found
      BY <1>4, <1>6, <2>1, <2>3, <3>2, <3>3
    <3>5. e.n \in (Len(blocks) + 1)..sync.last
      BY <1>4, <1>9, <2>1
    <3> QED
      BY <3>4, <3>5
  <2> QED
    BY <1>5, <1>9, <2>2, <2>3
<1> HIDE DEF cs
<1>10. /\ s \in Locals /\ s.contractTo = x /\ s.contracts = cs
       /\ s.added = sync.added /\ s.cancelled = sync.cancelled /\ s.current = sync.current
       /\ s.addedTo = sync.addedTo /\ s.cancelledTo = sync.cancelledTo
       /\ s.blockTo = sync.blockTo /\ s.heights = sync.heights
       /\ s.last = sync.last /\ s.next = sync.next
  BY <1>4, <1>7, <1>8 DEF Locals
<1> HIDE DEF s
<1>11. /\ db' = db /\ blocks' = blocks /\ rollup' = rollup /\ indexed' = indexed
       /\ added' = added /\ cancelled' = cancelled /\ emitter' = emitter /\ extended' = extended
       /\ logs' = logs
  BY <1>1 DEF storeVars, l1Vars
<1>12. ControlOK' /\ Running'
  BY <1>1, <1>10 DEF ControlOK, Running, MessageSteps, BlockSteps
<1>13. MessagesOK'
  BY <1>1, <1>3, <1>4, <1>10, <1>11 DEF IInv, MessagesOK, BlockSteps
<1>14. BlocksOK'
  BY <1>1, <1>3, <1>4, <1>10, <1>11 DEF IInv, BlocksOK, BlockSteps, MessageSteps
<1>15. DataOK'
  <2>1. LastL1Block <= x /\ x <= sync.current
    BY <1>4, <1>5, <1>6, <1>7
  <2>2. sync.next \in (Len(blocks) + 1)..sync.last
    BY <1>4, <1>5
  <2>3. \A n \in (Len(blocks) + 1)..sync.last : ~ (n < sync.next)
    BY <1>4, <1>5
  <2> QED
    BY <1>1, <1>3, <1>5, <1>8, <1>9, <1>10, <1>11, <2>1, <2>2, <2>3 DEF DataOK
<1>16. ConfirmedTo' = ConfirmedTo
  BY <1>1, <1>11 DEF ConfirmedTo
<1>17. NoGhost'
  BY <1>1, <1>11, <1>16, GhostFrame DEF IInv
<1> QED
  BY <1>2, <1>3, <1>12, <1>13, <1>14, <1>15, <1>17 DEF IInv

(* The facts about L2 blocks that the writing steps use. *)
LEMMA BlockStepFacts ==
    ASSUME IInv, pc \in BlockSteps
    PROVE  /\ sync \in Locals /\ Running /\ sync.current <= Height /\ sync.current \in Nat
           /\ sync.last \in Nat /\ sync.last <= Len(rollup) /\ sync.next \in Nat
           /\ sync.contractTo \in Nat /\ sync.contracts \in SUBSET Nat
           /\ Len(blocks) \in Nat /\ Len(rollup) \in Nat /\ Len(blocks) < sync.last
           /\ Len(rollup) <= MaxBlocks /\ MaxBlocks \in Nat
           /\ sync.heights = {}
           /\ db \in Store /\ initial \in BOOLEAN
           /\ extended \in [1..MaxBlocks -> 0..MaxExtended]
BY L1Types, LastL1BlockIs, ArchiverAssumption
   DEF IInv, ControlOK, MessagesOK, BlocksOK, Running, Locals, StoreOK, L1OK

(* The logs of a block are stored. *)
LEMMA StoreLogsInv ==
    ASSUME IInv, StoreLogs
    PROVE  IInv'
<1>1. /\ UNCHANGED l1Vars /\ UNCHANGED <<db, blocks, extended>> /\ crashes' = crashes
      /\ initial' = initial /\ pc = "logs" /\ logs' = logs \cup {sync.next}
  BY DEF StoreLogs, Goto
<1>2. PICK k : /\ sync' = [sync EXCEPT !.next = k]
               /\ \/ sync.next < sync.last /\ pc' = "logs" /\ k = sync.next + 1
                  \/ /\ ~ (sync.next < sync.last)
                     /\ k = Len(blocks) + 1
                     /\ \/ pc' = "confirm" /\ sync.contracts = {}
                        \/ pc' = "extend"
  BY DEF StoreLogs, Goto
<1>3. L1OK' /\ Conserved'
  BY <1>1, L1Frame DEF IInv
<1>4. pc \in BlockSteps
  BY <1>1 DEF BlockSteps
<1>5. /\ sync \in Locals /\ Running /\ sync.current <= Height /\ sync.current \in Nat
      /\ sync.last \in Nat /\ sync.last <= Len(rollup) /\ sync.next \in Nat
      /\ Len(blocks) \in Nat /\ Len(rollup) \in Nat /\ Len(blocks) < sync.last
      /\ sync.heights = {} /\ sync.contracts \in SUBSET Nat
  BY <1>4, BlockStepFacts
<1>6. /\ sync.next \in (Len(blocks) + 1)..sync.last
      /\ \A n \in (Len(blocks) + 1)..sync.last : n < sync.next => n \in logs
  BY <1>1, <1>4 DEF IInv, DataOK
<1>7. k \in Nat
  BY <1>2, <1>5
<1> DEFINE s == [sync EXCEPT !.next = k]
<1>8. /\ s \in Locals /\ s.contractTo = sync.contractTo /\ s.contracts = sync.contracts
      /\ s.added = sync.added /\ s.cancelled = sync.cancelled /\ s.current = sync.current
      /\ s.addedTo = sync.addedTo /\ s.cancelledTo = sync.cancelledTo
      /\ s.blockTo = sync.blockTo /\ s.heights = sync.heights
      /\ s.last = sync.last /\ s.next = k /\ sync' = s
  BY <1>2, <1>5, <1>7 DEF Locals
<1> HIDE DEF s
<1>9. /\ rollup' = rollup /\ indexed' = indexed
      /\ added' = added /\ cancelled' = cancelled /\ emitter' = emitter
      /\ LastL1Block' = LastL1Block /\ Height' = Height
  BY <1>1 DEF l1Vars, LastL1Block, Height
<1>10. StoreOK'
  <2>1. logs' \subseteq 1..Len(rollup) /\ 1..Len(blocks) \subseteq logs'
    <3>1. sync.next \in 1..Len(rollup)
      BY <1>5, <1>6
    <3>2. logs \subseteq 1..Len(rollup) /\ 1..Len(blocks) \subseteq logs
      BY DEF IInv, StoreOK
    <3> QED
      BY <1>1, <3>1, <3>2
  <2> QED
    BY <1>1, <1>9, <2>1 DEF IInv, StoreOK
<1>11. ControlOK' /\ Running' /\ pc' \in {"logs", "extend", "confirm"}
  BY <1>2, <1>8 DEF ControlOK, Running, MessageSteps, BlockSteps
<1>12. MessagesOK'
  BY <1>1, <1>5, <1>8, <1>9, <1>11 DEF IInv, MessagesOK, BlockSteps
<1>13. BlocksOK'
  BY <1>1, <1>5, <1>8, <1>9, <1>11 DEF IInv, BlocksOK, BlockSteps, MessageSteps
<1>14. DataOK'
  <2>1. /\ LastL1Block <= sync.contractTo /\ sync.contractTo <= sync.current
        /\ sync.contracts \subseteq (Len(blocks) + 1)..sync.last
        /\ \A e \in emitter :
               Len(blocks) < e.n /\ e.n <= sync.last =>
                   e.n \in sync.contracts \/ extended[e.n] >= 1
    BY <1>1, <1>4 DEF IInv, DataOK
  <2>2. pc' = "confirm" => sync.contracts = {}
    BY <1>2
  <2>3. /\ pc' = "extend" => k = Len(blocks) + 1
        /\ pc' \in {"logs", "confirm"} => k \in (Len(blocks) + 1)..sync.last
    BY <1>2, <1>5, <1>6
  <2>4. ASSUME NEW n \in (Len(blocks) + 1)..sync.last,
               pc' \in {"extend", "confirm"} \/ n < k
        PROVE  n \in logs'
    BY <1>1, <1>2, <1>5, <1>6, <2>4
  <2> QED
    BY <1>1, <1>8, <1>9, <1>11, <2>1, <2>2, <2>3, <2>4 DEF DataOK
<1>15. ConfirmedTo' = ConfirmedTo
  BY <1>1, <1>2, <1>5, <1>8 DEF ConfirmedTo
<1>16. NoGhost'
  BY <1>1, <1>15, GhostFrame DEF IInv
<1> QED
  BY <1>3, <1>10, <1>11, <1>12, <1>13, <1>14, <1>16 DEF IInv

(* The contract data of a block is stored. *)
LEMMA AddContractDataInv ==
    ASSUME IInv, NEW n \in 1..MaxBlocks, AddContractData(n)
    PROVE  IInv'
<1> DEFINE v == Min({extended[n] + 1, MaxExtended})
           s == [sync EXCEPT !.contracts = sync.contracts \ {n}]
<1>1. /\ UNCHANGED l1Vars /\ UNCHANGED <<db, blocks, logs>> /\ crashes' = crashes
      /\ initial' = initial /\ pc = "extend" /\ n \in sync.contracts
      /\ extended' = [extended EXCEPT ![n] = v]
      /\ sync' = s
      /\ \/ pc' = "confirm" /\ sync.contracts = {n}
         \/ pc' = "extend"
  BY DEF AddContractData, Goto
<1>2. L1OK' /\ Conserved'
  BY <1>1, L1Frame DEF IInv
<1>3. pc \in BlockSteps
  BY <1>1 DEF BlockSteps
<1>4. /\ sync \in Locals /\ Running /\ sync.current <= Height /\ sync.current \in Nat
      /\ sync.last \in Nat /\ sync.last <= Len(rollup) /\ sync.next \in Nat
      /\ Len(blocks) \in Nat /\ Len(rollup) \in Nat /\ Len(blocks) < sync.last
      /\ sync.heights = {} /\ sync.contracts \in SUBSET Nat
      /\ extended \in [1..MaxBlocks -> 0..MaxExtended]
  BY <1>3, BlockStepFacts
<1>5. v \in 1..MaxExtended
  <2>1. extended[n] + 1 \in Nat /\ MaxExtended \in Nat /\ MaxExtended >= 1 /\ extended[n] + 1 >= 1
    BY <1>4, ArchiverAssumption
  <2>2. /\ v \in Nat /\ v <= MaxExtended
        /\ v = extended[n] + 1 \/ v = MaxExtended
    BY <2>1, MinOfTwo
  <2> QED
    BY <2>1, <2>2
<1> HIDE DEF v
<1>6. /\ extended' \in [1..MaxBlocks -> 0..MaxExtended]
      /\ extended'[n] >= 1
      /\ \A i \in 1..MaxBlocks : i # n => extended'[i] = extended[i]
  BY <1>1, <1>4, <1>5, ArchiverAssumption
<1>7. /\ s \in Locals /\ s.contractTo = sync.contractTo /\ s.contracts = sync.contracts \ {n}
      /\ s.added = sync.added /\ s.cancelled = sync.cancelled /\ s.current = sync.current
      /\ s.addedTo = sync.addedTo /\ s.cancelledTo = sync.cancelledTo
      /\ s.blockTo = sync.blockTo /\ s.heights = sync.heights
      /\ s.last = sync.last /\ s.next = sync.next
  BY <1>4 DEF Locals
<1> HIDE DEF s
<1>8. /\ rollup' = rollup /\ indexed' = indexed
      /\ added' = added /\ cancelled' = cancelled /\ emitter' = emitter
      /\ LastL1Block' = LastL1Block /\ Height' = Height
  BY <1>1 DEF l1Vars, LastL1Block, Height
<1>9. \A e \in emitter : e.n \in 1..MaxBlocks
  BY DEF IInv, L1OK
<1>10. StoreOK'
  <2>1. \A e \in emitter : e.n <= Len(blocks) => extended'[e.n] >= 1
    BY <1>6, <1>9 DEF IInv, StoreOK
  <2> QED
    BY <1>1, <1>6, <1>8, <2>1 DEF IInv, StoreOK
<1>11. ControlOK' /\ Running' /\ pc' \in {"extend", "confirm"}
  BY <1>1, <1>7 DEF ControlOK, Running, MessageSteps, BlockSteps
<1>12. MessagesOK'
  BY <1>1, <1>4, <1>7, <1>8, <1>11 DEF IInv, MessagesOK, BlockSteps
<1>13. BlocksOK'
  BY <1>1, <1>4, <1>7, <1>8, <1>11 DEF IInv, BlocksOK, BlockSteps, MessageSteps
<1>14. DataOK'
  <2>1. /\ LastL1Block <= sync.contractTo /\ sync.contractTo <= sync.current
        /\ sync.contracts \subseteq (Len(blocks) + 1)..sync.last
        /\ \A e \in emitter :
               Len(blocks) < e.n /\ e.n <= sync.last =>
                   e.n \in sync.contracts \/ extended[e.n] >= 1
        /\ sync.next = Len(blocks) + 1
        /\ \A i \in (Len(blocks) + 1)..sync.last : i \in logs
    BY <1>1, <1>3 DEF IInv, DataOK
  <2>2. \A e \in emitter :
            Len(blocks) < e.n /\ e.n <= sync.last =>
                e.n \in sync.contracts \ {n} \/ extended'[e.n] >= 1
    BY <1>6, <1>9, <2>1
  <2>3. sync.next \in (Len(blocks) + 1)..sync.last
    BY <1>4, <2>1
  <2> QED
    BY <1>1, <1>7, <1>8, <1>11, <2>1, <2>2, <2>3 DEF DataOK
<1>15. ConfirmedTo' = ConfirmedTo
  <2>1. sync.next = Len(blocks) + 1
    BY <1>1, <1>3 DEF IInv, DataOK
  <2> QED
    BY <1>1, <1>4, <1>7, <1>11, <2>1 DEF ConfirmedTo
<1>16. NoGhost'
  BY <1>1, <1>15, GhostFrame DEF IInv
<1> QED
  BY <1>2, <1>10, <1>11, <1>12, <1>13, <1>14, <1>16 DEF IInv

(* confirmPendingMessages on the fields of the store. *)
LEMMA ConfirmPendingIs ==
    ASSUME NEW d \in Store, NEW c \in Copies, CanRemove(d, c)
    PROVE  LET e == ConfirmPendingMessages(d, c)
           IN  /\ e \in Store
               /\ e.lastAdding = d.lastAdding /\ e.lastCancelling = d.lastCancelling
               /\ e.known = d.known
               /\ e.confirmed = d.confirmed \cup Keys(c)
               /\ Keys(c) \subseteq d.known
               /\ \A m \in Messages : e.pending[m] = d.pending[m] - c[m]
<1> DEFINE p == Minus(d.pending, c)
           e == [d EXCEPT !.confirmed = d.confirmed \cup Keys(c), !.pending = p]
<1>1. /\ p \in [Messages -> Nat] /\ \A m \in Messages : p[m] = d.pending[m] - c[m]
      /\ Keys(c) \subseteq d.known
  BY MinusIs
<1>2. ConfirmPendingMessages(d, c) = e
  BY DEF ConfirmPendingMessages
<1> HIDE DEF p
<1>3. /\ e \in Store
      /\ e.lastAdding = d.lastAdding /\ e.lastCancelling = d.lastCancelling
      /\ e.known = d.known /\ e.confirmed = d.confirmed \cup Keys(c) /\ e.pending = p
  BY <1>1 DEF Store, Keys
<1> HIDE DEF e
<1> QED
  BY <1>1, <1>2, <1>3

(* The messages of an L2 block are confirmed. *)
LEMMA ConfirmInv ==
    ASSUME IInv, Confirm
    PROVE  IInv'
<1> DEFINE c == rollup[sync.next].ins
           k == sync.next + 1
           s == [sync EXCEPT !.next = k]
<1>1. /\ UNCHANGED l1Vars /\ UNCHANGED <<blocks, logs, extended>> /\ crashes' = crashes
      /\ initial' = initial /\ initial \in BOOLEAN /\ pc = "confirm"
  BY DEF Confirm, Goto, Fail, IInv, StoreOK
<1>2. CASE ~ CanRemove(db, c)
  <2>1. UNCHANGED db /\ pc' = "failed" /\ sync' = NoSync
    BY <1>2 DEF Confirm, Fail
  <2>2. UNCHANGED storeVars
    BY <1>1, <2>1 DEF storeVars
  <2> QED
    BY <1>1, <2>1, <2>2, NotRunningInv
<1>3. CASE CanRemove(db, c)
  <2>1. /\ db' = ConfirmPendingMessages(db, c) /\ sync' = s
        /\ \/ sync.next < sync.last /\ pc' = "confirm"
           \/ ~ (sync.next < sync.last) /\ pc' = "store"
    BY <1>3 DEF Confirm, Goto
  <2>2. L1OK' /\ Conserved'
    BY <1>1, L1Frame DEF IInv
  <2>3. pc \in BlockSteps
    BY <1>1 DEF BlockSteps
  <2>4. /\ sync \in Locals /\ Running /\ sync.current <= Height /\ sync.current \in Nat
        /\ sync.last \in Nat /\ sync.last <= Len(rollup) /\ sync.next \in Nat
        /\ Len(blocks) \in Nat /\ Len(rollup) \in Nat /\ Len(blocks) < sync.last
        /\ sync.heights = {} /\ db \in Store
    BY <2>3, BlockStepFacts
  <2>5. /\ LastL1Block <= sync.contractTo /\ sync.contractTo <= sync.current
        /\ sync.contracts = {}
        /\ \A e \in emitter :
               Len(blocks) < e.n /\ e.n <= sync.last => extended[e.n] >= 1
        /\ sync.next \in (Len(blocks) + 1)..sync.last
        /\ \A i \in (Len(blocks) + 1)..sync.last : i \in logs
    BY <1>1, <2>3 DEF IInv, DataOK
  <2>6. sync.next \in 1..Len(rollup) /\ rollup \in Seq(RollupBlock)
    BY <2>4, <2>5 DEF IInv, L1OK
  <2>7. c \in Copies
    <3>1. rollup[sync.next] \in RollupBlock
      BY <2>6, ElementOfSeq
    <3> QED
      BY <3>1 DEF RollupBlock
  <2> HIDE DEF c
  <2>8. /\ db' \in Store
        /\ db'.lastAdding = db.lastAdding /\ db'.lastCancelling = db.lastCancelling
        /\ db'.known = db.known
        /\ db'.confirmed = db.confirmed \cup Keys(c)
        /\ Keys(c) \subseteq db.known
        /\ \A m \in Messages : db'.pending[m] = db.pending[m] - c[m]
    BY <1>3, <2>1, <2>4, <2>7, ConfirmPendingIs
  <2>9. /\ s \in Locals /\ s.contractTo = sync.contractTo /\ s.contracts = sync.contracts
        /\ s.added = sync.added /\ s.cancelled = sync.cancelled /\ s.current = sync.current
        /\ s.addedTo = sync.addedTo /\ s.cancelledTo = sync.cancelledTo
        /\ s.blockTo = sync.blockTo /\ s.heights = sync.heights
        /\ s.last = sync.last /\ s.next = k
    <3>1. k \in Nat
      BY <2>4
    <3> HIDE DEF k
    <3> QED
      BY <2>4, <3>1 DEF Locals
  <2> HIDE DEF s
  <2>10. /\ rollup' = rollup /\ indexed' = indexed
         /\ added' = added /\ cancelled' = cancelled /\ emitter' = emitter
         /\ LastL1Block' = LastL1Block /\ Height' = Height
    BY <1>1 DEF l1Vars, LastL1Block, Height
  <2>11. StoreOK'
    <3>1. db'.confirmed \subseteq db'.known
      BY <2>8 DEF IInv, StoreOK
    <3> QED
      BY <1>1, <2>8, <2>10, <3>1 DEF IInv, StoreOK
  <2>12. ControlOK' /\ Running' /\ pc' \in {"confirm", "store"}
    BY <2>1, <2>9 DEF ControlOK, Running, MessageSteps, BlockSteps
  <2>13. MessagesOK'
    BY <1>1, <2>1, <2>4, <2>8, <2>9, <2>10, <2>12 DEF IInv, MessagesOK, BlockSteps
  <2>14. BlocksOK'
    BY <1>1, <2>1, <2>4, <2>9, <2>10, <2>12 DEF IInv, BlocksOK, BlockSteps, MessageSteps
  <2>15. DataOK'
    <3>1. /\ pc' = "confirm" => k \in (Len(blocks) + 1)..sync.last
          /\ pc' = "store" => k = sync.last + 1
      BY <2>1, <2>4, <2>5
    <3> HIDE DEF k
    <3> QED
      BY <1>1, <2>1, <2>5, <2>9, <2>10, <2>12, <3>1 DEF DataOK
  <2>16. PICK j \in 0..Len(rollup) : j = sync.next - 1
    BY <2>6
  <2>17. ConfirmedTo = j /\ ConfirmedTo' = j + 1 /\ j + 1 = sync.next
    BY <1>1, <2>1, <2>4, <2>9, <2>12, <2>16 DEF ConfirmedTo
  <2>18. NoGhost'
    <3> SUFFICES ASSUME NEW m \in Messages
                 PROVE  db'.pending[m] <= PendingOnL1(ConfirmedTo, m)'
      BY DEF NoGhost
    <3>1. PendingOnL1(ConfirmedTo, m)' = Total(added, db.lastAdding, m)
              - Total(cancelled, db.lastCancelling, m) - Consumed(j + 1, m)
      BY <2>8, <2>10, <2>17 DEF PendingOnL1, Consumed
    <3>2. db.pending[m] <= Total(added, db.lastAdding, m)
              - Total(cancelled, db.lastCancelling, m) - Consumed(j, m)
      BY <2>17 DEF IInv, NoGhost, PendingOnL1
    <3>3. /\ Consumed(j + 1, m) = Consumed(j, m) + c[m] /\ Consumed(j, m) \in Nat
          /\ c[m] \in Nat
      <4>1. j + 1 \in 1..Len(rollup) /\ (j + 1) - 1 = j
        BY <2>6, <2>16
      <4>2. /\ Consumed(j + 1, m) = Consumed((j + 1) - 1, m) + rollup[j + 1].ins[m]
            /\ rollup[j + 1].ins[m] \in Nat
        BY <2>6, <4>1, ConsumedSteps
      <4> QED
        BY <2>6, <2>16, <2>17, <4>1, <4>2, ConsumedSteps DEF c
    <3>4. /\ Total(added, db.lastAdding, m) \in Nat
          /\ Total(cancelled, db.lastCancelling, m) \in Nat
      <4>1. db.lastAdding \in 0..Len(added) /\ db.lastCancelling \in 0..Len(cancelled)
        BY L1Types DEF IInv, StoreOK, Store
      <4> QED
        BY <4>1, EventsMono DEF IInv, L1OK
    <3>5. db.pending[m] \in Nat /\ db'.pending[m] = db.pending[m] - c[m]
      BY <2>4, <2>8 DEF Store
    <3> QED
      BY <3>1, <3>2, <3>3, <3>4, <3>5
  <2> QED
    BY <2>2, <2>11, <2>12, <2>13, <2>14, <2>15, <2>18 DEF IInv
<1> QED
  BY <1>2, <1>3

(* The stored blocks grow by those of the rollup up to the last one read. *)
LEMMA BlocksGrow ==
    ASSUME IInv, AddBlocks
    PROVE  /\ blocks' \in Seq(RollupBlock)
           /\ Len(blocks') = sync.last
           /\ \A n \in 1..sync.last : blocks'[n] = rollup[n]
<1> DEFINE t == SubSeq(rollup, Len(blocks) + 1, sync.last)
           b == Len(blocks)
<1>1. pc \in BlockSteps /\ blocks' = blocks \o t
  BY DEF AddBlocks, BlockSteps
<1>2. /\ sync.last \in Nat /\ sync.last <= Len(rollup)
      /\ b \in Nat /\ Len(rollup) \in Nat /\ b < sync.last
  BY <1>1, BlockStepFacts
<1>3. /\ blocks \in Seq(RollupBlock) /\ rollup \in Seq(RollupBlock)
      /\ \A n \in 1..b : blocks[n] = rollup[n]
  BY DEF IInv, StoreOK, L1OK
<1>4. /\ b + 1 \in 1..(Len(rollup) + 1)
      /\ sync.last \in b..Len(rollup)
  BY <1>2
<1>5. /\ t \in Seq(RollupBlock) /\ Len(t) = sync.last - b
      /\ \A i \in 1..(sync.last - b) : t[i] = rollup[b + i]
  BY <1>2, <1>3, <1>4
<1> HIDE DEF t, b
<1>6. /\ blocks \o t \in Seq(RollupBlock)
      /\ Len(blocks \o t) = b + Len(t)
      /\ \A i \in 1..(b + Len(t)) :
            (blocks \o t)[i] = IF i <= b THEN blocks[i] ELSE t[i - b]
  BY <1>3, <1>5, ConcatProperties DEF b
<1>7. ASSUME NEW n \in 1..sync.last PROVE (blocks \o t)[n] = rollup[n]
  <2>1. CASE n <= b
    BY <1>2, <1>3, <1>5, <1>6, <2>1
  <2>2. CASE ~ (n <= b)
    <3>1. n - b \in 1..(sync.last - b) /\ b + (n - b) = n /\ n \in 1..(b + Len(t))
      BY <1>2, <1>5, <2>2
    <3> QED
      BY <1>5, <1>6, <2>2, <3>1
  <2> QED
    BY <2>1, <2>2
<1> QED
  BY <1>1, <1>2, <1>5, <1>6, <1>7, SMTT(20)

(* Blocks are stored last, all at once. *)
LEMMA AddBlocksInv ==
    ASSUME IInv, AddBlocks
    PROVE  IInv'
<1>1. /\ UNCHANGED l1Vars /\ UNCHANGED <<db, logs, extended>> /\ crashes' = crashes
      /\ pc = "store" /\ pc' = "idle" /\ sync' = NoSync /\ initial' = FALSE
  BY DEF AddBlocks, Return
<1>2. L1OK' /\ Conserved'
  BY <1>1, L1Frame DEF IInv
<1>3. pc \in BlockSteps
  BY <1>1 DEF BlockSteps
<1>4. /\ sync \in Locals /\ Running
      /\ sync.last \in Nat /\ sync.last <= Len(rollup)
      /\ Len(blocks) \in Nat /\ Len(rollup) \in Nat /\ Len(blocks) < sync.last
  BY <1>3, BlockStepFacts
<1>5. /\ sync.contracts = {} /\ sync.next = sync.last + 1
      /\ \A e \in emitter :
             Len(blocks) < e.n /\ e.n <= sync.last => extended[e.n] >= 1
      /\ \A i \in (Len(blocks) + 1)..sync.last : i \in logs
  BY <1>1, <1>3 DEF IInv, DataOK
<1>6. /\ blocks' \in Seq(RollupBlock)
      /\ Len(blocks') = sync.last
      /\ \A n \in 1..sync.last : blocks'[n] = rollup[n]
  BY BlocksGrow
<1>7. /\ rollup' = rollup /\ indexed' = indexed
      /\ added' = added /\ cancelled' = cancelled /\ emitter' = emitter /\ Height' = Height
  BY <1>1 DEF l1Vars, Height
<1>8. StoreOK'
  <2>1. 1..sync.last \subseteq logs
    <3>1. \A i \in 1..Len(blocks) : i \in logs
      BY DEF IInv, StoreOK
    <3> QED
      BY <1>4, <1>5, <3>1
  <2>2. ASSUME NEW e \in emitter, e.n <= sync.last
        PROVE  extended[e.n] >= 1
    <3>1. e.n \in Nat /\ (e.n <= Len(blocks) => extended[e.n] >= 1)
      BY DEF IInv, L1OK, StoreOK
    <3> QED
      BY <1>4, <1>5, <2>2, <3>1
  <2> QED
    BY <1>1, <1>4, <1>6, <1>7, <2>1, <2>2 DEF IInv, StoreOK
<1>9. ControlOK' /\ MessagesOK' /\ BlocksOK' /\ DataOK'
  BY <1>1 DEF ControlOK, MessagesOK, BlocksOK, DataOK, Running, MessageSteps, BlockSteps,
         Locals, NoSync
<1>10. ConfirmedTo' = ConfirmedTo
  BY <1>1, <1>4, <1>5, <1>6 DEF ConfirmedTo
<1>11. NoGhost'
  BY <1>1, <1>10, GhostFrame DEF IInv
<1> QED
  BY <1>2, <1>8, <1>9, <1>11 DEF IInv

-----------------------------------------------------------------------------
(* Every step keeps the invariant *)

(* A step in which nothing happens. *)
LEMMA StutterInv ==
    ASSUME IInv, UNCHANGED vars
    PROVE  IInv'
<1>1. /\ UNCHANGED l1Vars /\ UNCHANGED storeVars
      /\ pc' = pc /\ sync' = sync /\ initial' = initial
  BY DEF vars
<1>2. L1OK' /\ Conserved'
  BY <1>1, L1Frame DEF IInv
<1>3. StoreOK' /\ LastL1Block' = LastL1Block /\ Height' = Height
  BY <1>1, StoreFrame DEF IInv, StoreOK
<1>4. /\ db' = db /\ blocks' = blocks /\ rollup' = rollup /\ indexed' = indexed
      /\ added' = added /\ cancelled' = cancelled /\ emitter' = emitter /\ extended' = extended
      /\ logs' = logs
  BY <1>1 DEF storeVars, l1Vars
<1>5. ControlOK'
  BY <1>1 DEF IInv, ControlOK, Running
<1>6. MessagesOK'
  BY <1>1, <1>3, <1>4 DEF IInv, MessagesOK, Running
<1>7. BlocksOK'
  BY <1>1, <1>3, <1>4 DEF IInv, BlocksOK, Running
<1>8. DataOK'
  BY <1>1, <1>3, <1>4 DEF IInv, DataOK
<1>9. ConfirmedTo' = ConfirmedTo
  BY <1>1, <1>4 DEF ConfirmedTo
<1>10. NoGhost'
  BY <1>1, <1>4, <1>9, GhostFrame DEF IInv
<1> QED
  BY <1>2, <1>3, <1>5, <1>6, <1>7, <1>8, <1>10 DEF IInv

(* The invariant is inductive. *)
LEMMA NextInv ==
    ASSUME IInv, [Next]_vars
    PROVE  IInv'
<1>1. CASE UNCHANGED vars
  BY <1>1, StutterInv
<1>2. ASSUME NEW a \in Copies, NEW c \in Copies,
             NEW l2 \in {<<>>} \cup {<<i>> : i \in Copies}, NEW deploy \in BOOLEAN,
             Mine(a, c, l2, deploy)
      PROVE  IInv'
  BY <1>2, MineInv
<1>3. CASE IndexBlock
  BY <1>3, IndexBlockInv
<1>4. CASE Start
  BY <1>4, StartInv
<1>5. CASE Crash
  BY <1>5, CrashInv
<1>6. CASE SyncStep
  BY <1>6, BeginInv, RetrievePendingInv, RetrieveCancelledInv, AddPendingInv, CancelPendingInv,
     RetrieveBlocksInv, RetrieveContractsInv, StoreLogsInv, AddContractDataInv, ConfirmInv,
     AddBlocksInv DEF SyncStep
<1> QED
  BY <1>1, <1>2, <1>3, <1>4, <1>5, <1>6 DEF Next

(* The store is sane and what it serves complete (sync stores the blocks     *)
(* last): for every provider, lagging or not, and any number of crashes.     *)
THEOREM StoreIsSane == Spec => []StoreSane
<1>1. IInv => StoreSane
  <2> SUFFICES ASSUME IInv PROVE StoreSane
    OBVIOUS
  <2>1. TypeOK
    <3>1. DOMAIN rollup = 1..Len(rollup)
      BY LenProperties DEF IInv, L1OK
    <3>2. db.lastAdding \in 0..Height /\ db.lastCancelling \in 0..Height
      BY L1Types DEF IInv, StoreOK, Store
    <3> QED
      BY <3>1, <3>2 DEF TypeOK, IInv, StoreOK, Store, L1OK
  <2>2. BlocksComplete
    <3> DEFINE b == Len(blocks)
               t == SubSeq(rollup, 1, b)
    <3>1. /\ blocks \in Seq(RollupBlock) /\ rollup \in Seq(RollupBlock)
          /\ b \in Nat /\ Len(rollup) \in Nat /\ b <= Len(rollup)
          /\ \A n \in 1..b : blocks[n] = rollup[n]
      BY LastL1BlockIs, L1Types DEF IInv, StoreOK, L1OK
    <3>2. /\ t \in Seq(RollupBlock) /\ Len(t) = b
          /\ \A i \in 1..b : t[i] = rollup[i]
      BY <3>1
    <3> HIDE DEF t
    <3>3. blocks = t
      BY <3>1, <3>2, SeqEqual
    <3> QED
      BY <3>3 DEF BlocksComplete, IInv, StoreOK, t
  <2> QED
    BY <2>1, <2>2 DEF StoreSane
<1> QED
  BY <1>1, InitInv, NextInv, PTL DEF Spec

(* The sequencer is never offered a message that the events read say is gone *)
(* (message_store.ts, pointers and counters in one transaction): for every   *)
(* provider, lagging or not, and any number of crashes.                      *)
THEOREM NothingGhostly == Spec => []NoGhostPending
BY InitInv, NextInv, GhostFree, PTL DEF Spec

-----------------------------------------------------------------------------
(* A provider that does not lag *)

(* The archiver starts with nothing read and nothing to read. *)
LEMMA InitExact == Init => Exactly
<1> SUFFICES ASSUME Init PROVE Exactly
  OBVIOUS
<1>1. /\ Len(rollup) = 0 /\ Len(blocks) = 0 /\ added \in Seq(Copies)
      /\ rollup \in Seq(RollupBlock)
      /\ crashes = 0 /\ pc = "stopped" /\ LastL1Block = 0 /\ ConfirmedTo = 0
  BY EmptySeq DEF Init, LastL1Block, ConfirmedTo
<1>2. \A m \in Messages : /\ Total(added, 0, m) = 0 /\ Total(cancelled, 0, m) = 0
                          /\ Consumed(0, m) = 0
  BY <1>1, TotalStep, ConsumedSteps
<1>3. /\ db.known = {} /\ db.confirmed = {} /\ db.lastAdding = 0 /\ db.lastCancelling = 0
      /\ \A m \in Messages : db.pending[m] = 0
  BY DEF Init, EmptyStore, NoCopies
<1>4. KnownExact /\ ConfirmedExact
  BY <1>1, <1>2, <1>3 DEF KnownExact, ConfirmedExact
<1>5. PendingExact
  BY <1>1, <1>2, <1>3 DEF PendingExact, PendingOnL1
<1>6. ExtendedOnce
  BY DEF Init, ExtendedOnce
<1>7. ReadsAll /\ Applied /\ FailsOnlyAhead
  BY <1>1 DEF ReadsAll, Applied, FailsOnlyAhead, Running, MessageSteps, BlockSteps
<1> QED
  BY <1>1, <1>4, <1>5, <1>6, <1>7 DEF Exactly

(* A step that writes neither messages, blocks nor contract data.  After a   *)
(* crash it may forget which blocks were confirmed.                          *)
LEMMA ExactFrame ==
    ASSUME IInv, Exactly, UNCHANGED l1Vars, UNCHANGED <<db, blocks, extended>>,
           crashes' \in Nat, ReadsAll', ConfirmedTo' \in 0..Len(rollup),
           crashes' = 0 => /\ crashes = 0 /\ ConfirmedTo' = ConfirmedTo
                           /\ \A n \in 1..MaxBlocks : Untouched(n)' => Untouched(n),
           pc' = "failed" => crashes' > 0 /\ ConfirmedAhead
    PROVE  Exactly'
<1>1. /\ added' = added /\ cancelled' = cancelled /\ rollup' = rollup
      /\ db' = db /\ blocks' = blocks /\ extended' = extended /\ LastL1Block' = LastL1Block
  BY DEF l1Vars, LastL1Block
<1>2. Applied' /\ KnownExact'
  BY <1>1 DEF Exactly, Applied, KnownExact
<1>3. ConfirmedAhead' <=> ConfirmedAhead
  BY <1>1 DEF ConfirmedAhead, PendingOnL1, Consumed
<1>4. FailsOnlyAhead'
  BY <1>3 DEF FailsOnlyAhead
<1>5. PICK k \in 0..Len(rollup) : k = ConfirmedTo'
  OBVIOUS
<1>6. PICK j \in 0..Len(rollup) : j = ConfirmedTo
  BY ConfirmedToIs
<1>7. PendingExact'
  <2> SUFFICES ASSUME NEW m \in Messages, crashes' = 0 \/ Consumed(Len(rollup), m)' = 0
               PROVE  db.pending[m] = PendingOnL1(k, m)
    BY <1>1, <1>5 DEF PendingExact, PendingOnL1, Consumed
  <2>1. CASE crashes' = 0
    BY <1>5, <1>6, <2>1 DEF Exactly, PendingExact
  <2>2. CASE Consumed(Len(rollup), m)' = 0
    <3>1. Consumed(Len(rollup), m) = 0
      BY <1>1, <2>2 DEF Consumed
    <3>2. /\ Consumed(k, m) \in Nat /\ Consumed(k, m) <= Consumed(Len(rollup), m)
          /\ Consumed(j, m) \in Nat /\ Consumed(j, m) <= Consumed(Len(rollup), m)
      <4>1. Len(rollup) \in 0..Len(rollup) /\ k <= Len(rollup) /\ j <= Len(rollup)
        BY L1Types DEF IInv
      <4> QED
        BY <4>1, ConsumedSteps DEF IInv, L1OK
    <3>3. Consumed(k, m) = Consumed(j, m)
      BY <3>1, <3>2
    <3>4. db.pending[m] = PendingOnL1(j, m)
      BY <1>6, <3>1 DEF Exactly, PendingExact
    <3> QED
      BY <3>3, <3>4 DEF PendingOnL1
  <2> QED
    BY <2>1, <2>2
<1>8. ConfirmedExact'
  <2> SUFFICES ASSUME crashes' = 0
               PROVE  db.confirmed = {m \in Messages : Consumed(k, m) > 0}
    BY <1>1, <1>5 DEF ConfirmedExact, Consumed
  <2> QED
    BY <1>5, <1>6 DEF Exactly, ConfirmedExact
<1>9. ExtendedOnce'
  BY <1>1 DEF Exactly, ExtendedOnce
<1> QED
  BY <1>2, <1>4, <1>7, <1>8, <1>9 DEF Exactly

(* sync ends, and writes nothing. *)
LEMMA ExactEnd ==
    ASSUME IInv, Exactly, UNCHANGED l1Vars, UNCHANGED <<db, blocks, extended>>,
           crashes' \in Nat, pc' \in {"stopped", "failed", "idle"},
           crashes' = 0 => crashes = 0 /\ pc \notin {"extend", "confirm", "store"},
           pc' = "failed" => crashes' > 0 /\ ConfirmedAhead
    PROVE  Exactly'
<1>1. ReadsAll'
  BY DEF ReadsAll, Running, MessageSteps, BlockSteps
<1>2. ConfirmedTo' = Len(blocks) /\ Len(blocks) \in 0..Len(rollup)
  BY ConfirmedToIs DEF ConfirmedTo
<1>3. crashes' = 0 => ConfirmedTo = Len(blocks)
  BY DEF ConfirmedTo
<1>4. crashes' = 0 => \A n \in 1..MaxBlocks : Untouched(n)' => Untouched(n)
  BY DEF Untouched
<1> QED
  BY <1>1, <1>2, <1>3, <1>4, ExactFrame

(* sync goes on, and writes nothing yet. *)
LEMMA ExactRead ==
    ASSUME IInv, Exactly, UNCHANGED l1Vars, UNCHANGED <<db, blocks, extended>>,
           crashes' = crashes, ReadsAll',
           pc \in {"idle"} \cup MessageSteps \cup {"contracts"},
           pc' \in {"idle"} \cup MessageSteps \cup {"contracts", "logs"}
    PROVE  Exactly'
<1>1. /\ ConfirmedTo' = Len(blocks) /\ Len(blocks) \in 0..Len(rollup)
      /\ ConfirmedTo = Len(blocks)
  BY ConfirmedToIs DEF ConfirmedTo, MessageSteps
<1>2. \A n \in 1..MaxBlocks : Untouched(n)' => Untouched(n)
  BY DEF Untouched, MessageSteps
<1>3. crashes' \in Nat /\ pc' # "failed"
  BY DEF Exactly, MessageSteps
<1> QED
  BY <1>1, <1>2, <1>3, ExactFrame

(* The steps before messages are applied. *)
LEMMA ReadingExact ==
    ASSUME IInv, Exactly, ~ Lags, Begin \/ RetrievePending \/ RetrieveCancelled
    PROVE  Exactly'
<1>1. CASE Begin
  <2>1. UNCHANGED l1Vars /\ UNCHANGED storeVars /\ crashes' = crashes /\ pc = "idle"
        /\ pc' \in {"idle", "pending"}
    BY <1>1 DEF Begin, Goto, Return
  <2>2. ReadsAll'
    BY <2>1 DEF ReadsAll, Running, MessageSteps, BlockSteps
  <2> QED
    BY <2>1, <2>2, ExactRead DEF storeVars, MessageSteps
<1>2. CASE RetrievePending
  <2> DEFINE to == Visible(sync.current)
             x == Max({sync.addedTo, to})
  <2>1. /\ UNCHANGED l1Vars /\ UNCHANGED storeVars /\ crashes' = crashes
        /\ pc = "pending" /\ pc' \in {"pending", "cancelled"}
        /\ sync' = [sync EXCEPT !.addedTo = x]
    BY <1>2 DEF RetrievePending, Goto
  <2>2. /\ sync \in Locals /\ sync.current <= Height /\ sync.current \in Nat
        /\ sync.addedTo \in Nat /\ sync.addedTo <= sync.current
    BY <2>1 DEF IInv, ControlOK, MessagesOK, Running, MessageSteps, Locals
  <2>3. to = sync.current
    BY <2>2, VisibleIs DEF IInv
  <2> HIDE DEF to
  <2>4. x \in Nat /\ x >= to /\ (x = sync.addedTo \/ x = to)
    BY <2>2, <2>3, MaxOfTwo, Zenon
  <2>5. x = sync.current
    BY <2>2, <2>3, <2>4
  <2> HIDE DEF x
  <2>6. sync'.addedTo = sync.current /\ sync'.current = sync.current
    BY <2>1, <2>2, <2>5 DEF Locals
  <2>7. ReadsAll'
    BY <2>1, <2>6 DEF ReadsAll
  <2> QED
    BY <2>1, <2>7, ExactRead DEF storeVars, MessageSteps
<1>3. CASE RetrieveCancelled
  <2> DEFINE v == Visible(sync.current)
             to == Max({sync.cancelledTo, v})
             hs == WithCopies(added, sync.added, sync.addedTo)
                       \cup WithCopies(cancelled, sync.cancelled, to)
  <2>1. /\ UNCHANGED l1Vars /\ UNCHANGED storeVars /\ crashes' = crashes
        /\ pc = "cancelled" /\ pc' \in {"cancelled", "messages"}
        /\ sync' = [sync EXCEPT !.cancelledTo = to, !.heights = hs]
    BY <1>3 DEF RetrieveCancelled, Goto
  <2>2. /\ sync \in Locals /\ sync.current <= Height /\ sync.current \in Nat /\ Running
        /\ sync.cancelledTo \in Nat /\ sync.cancelledTo <= sync.current
    BY <2>1 DEF IInv, ControlOK, MessagesOK, Running, MessageSteps, Locals
  <2>3. v = sync.current
    BY <2>2, VisibleIs DEF IInv
  <2> HIDE DEF v
  <2>4. to \in Nat /\ to >= v /\ (to = sync.cancelledTo \/ to = v)
    BY <2>2, <2>3, MaxOfTwo, Zenon
  <2>5. to = sync.current
    BY <2>2, <2>3, <2>4
  <2> HIDE DEF to, hs
  <2>6. /\ sync'.addedTo = sync.addedTo /\ sync'.cancelledTo = sync.current
        /\ sync'.current = sync.current
    BY <2>1, <2>2, <2>5 DEF Locals
  <2>7. sync.addedTo = sync.current
    BY <2>1, <2>2 DEF Exactly, ReadsAll
  <2>8. ReadsAll'
    BY <2>6, <2>7 DEF ReadsAll
  <2> QED
    BY <2>1, <2>8, ExactRead DEF storeVars, MessageSteps
<1> QED
  BY <1>1, <1>2, <1>3

(* The loop starts, the process ends, or nothing happens. *)
LEMMA AroundExact ==
    ASSUME IInv, Exactly, Start \/ Crash \/ UNCHANGED vars
    PROVE  Exactly'
<1>1. CASE Start
  <2>1. /\ UNCHANGED l1Vars /\ UNCHANGED storeVars /\ crashes' = crashes
        /\ pc \in {"stopped", "failed"} /\ pc' = "idle"
    BY <1>1 DEF Start
  <2>2. crashes' \in Nat
    BY <2>1 DEF Exactly
  <2> QED
    BY <2>1, <2>2, ExactEnd DEF storeVars
<1>2. CASE Crash
  <2>1. /\ UNCHANGED l1Vars /\ UNCHANGED storeVars /\ crashes' = crashes + 1
        /\ pc' = "stopped"
    BY <1>2 DEF Crash
  <2>2. crashes' \in Nat /\ crashes' # 0
    BY <2>1 DEF Exactly
  <2> QED
    BY <2>1, <2>2, ExactEnd DEF storeVars
<1>3. CASE UNCHANGED vars
  <2>1. /\ UNCHANGED l1Vars /\ UNCHANGED <<db, blocks, extended>> /\ crashes' = crashes
        /\ pc' = pc /\ sync' = sync
    BY <1>3 DEF vars, storeVars
  <2>2. ReadsAll'
    BY <2>1 DEF Exactly, ReadsAll, Running
  <2>3. ConfirmedTo' = ConfirmedTo /\ ConfirmedTo \in 0..Len(rollup)
    BY <2>1, ConfirmedToIs DEF ConfirmedTo
  <2>4. \A n \in 1..MaxBlocks : Untouched(n)' => Untouched(n)
    BY <2>1 DEF Untouched
  <2>5. crashes' \in Nat /\ (pc' = "failed" => crashes' > 0 /\ ConfirmedAhead)
    BY <2>1 DEF Exactly, FailsOnlyAhead
  <2> QED
    BY <2>1, <2>2, <2>3, <2>4, <2>5, ExactFrame
<1> QED
  BY <1>1, <1>2, <1>3

(* The steps that read and write L2 blocks and their logs. *)
LEMMA BlockStepsExact ==
    ASSUME IInv, Exactly, RetrieveBlocks \/ RetrieveContracts \/ StoreLogs
    PROVE  Exactly'
<1>1. CASE RetrieveBlocks
  <2>1. /\ UNCHANGED l1Vars /\ UNCHANGED storeVars /\ crashes' = crashes /\ pc = "messages"
    BY <1>1 DEF RetrieveBlocks
  <2>2. \/ pc' = "failed"
        \/ pc' = "idle"
        \/ /\ pc' \in {"messages", "contracts"}
           /\ \E x, y, z : sync' = [sync EXCEPT !.blockTo = x, !.last = y, !.next = z]
    <3> DEFINE to == Visible(sync.current)
               last == Max({Len(blocks), sync.last})
               new == {n \in DOMAIN rollup : sync.blockTo < rollup[n].l1 /\ rollup[n].l1 <= to}
               upTo == last + Cardinality(new)
               x == Max({sync.blockTo, to})
               k == Len(blocks) + 1
               s == [sync EXCEPT !.blockTo = x, !.last = upTo, !.next = k]
    <3>1. Fail \/ Goto("messages", s) \/ Return \/ Goto("contracts", s)
      BY <1>1 DEF RetrieveBlocks
    <3> HIDE DEF x, upTo, k
    <3>2. \/ pc' = "failed"
          \/ pc' = "idle"
          \/ pc' \in {"messages", "contracts"} /\ sync' = s
      BY <3>1 DEF Fail, Return, Goto
    <3> QED
      BY <3>2
  <2>3. pc' # "failed"
    BY <1>1, RetrieveBlocksInv
  <2>4. CASE pc' = "idle"
    <3>1. ReadsAll'
      BY <2>4 DEF ReadsAll, Running, MessageSteps, BlockSteps
    <3> QED
      BY <2>1, <2>4, <3>1, ExactRead DEF storeVars, MessageSteps
  <2>5. CASE pc' \in {"messages", "contracts"} /\ pc' # "idle"
    <3>1. PICK x, y, z : sync' = [sync EXCEPT !.blockTo = x, !.last = y, !.next = z]
      BY <2>2, <2>3, <2>5
    <3>2. sync \in Locals /\ Running
      BY <2>1 DEF IInv, ControlOK, Running, MessageSteps
    <3>3. /\ sync'.addedTo = sync.addedTo /\ sync'.cancelledTo = sync.cancelledTo
          /\ sync'.current = sync.current
      BY <3>1, <3>2 DEF Locals
    <3>4. ReadsAll'
      BY <2>1, <3>2, <3>3 DEF Exactly, ReadsAll
    <3> QED
      BY <2>1, <2>5, <3>4, ExactRead DEF storeVars, MessageSteps
  <2> QED
    BY <2>2, <2>3, <2>4, <2>5
<1>2. CASE RetrieveContracts
  <2>1. /\ UNCHANGED l1Vars /\ UNCHANGED storeVars /\ crashes' = crashes /\ pc = "contracts"
        /\ pc' \in {"contracts", "logs"}
        /\ \E x, y : sync' = [sync EXCEPT !.contractTo = x, !.contracts = y]
    BY <1>2 DEF RetrieveContracts, Goto
  <2>2. PICK x, y : sync' = [sync EXCEPT !.contractTo = x, !.contracts = y]
    BY <2>1
  <2>3. sync \in Locals /\ Running
    BY <2>1 DEF IInv, ControlOK, Running, BlockSteps
  <2>4. /\ sync'.addedTo = sync.addedTo /\ sync'.cancelledTo = sync.cancelledTo
        /\ sync'.current = sync.current
    BY <2>2, <2>3 DEF Locals
  <2>5. ReadsAll'
    BY <2>1, <2>3, <2>4 DEF Exactly, ReadsAll
  <2> QED
    BY <2>1, <2>5, ExactRead DEF storeVars, MessageSteps
<1>3. CASE StoreLogs
  <2>1. /\ UNCHANGED l1Vars /\ UNCHANGED <<db, blocks, extended>> /\ crashes' = crashes
        /\ pc = "logs" /\ pc' \in {"logs", "extend", "confirm"}
    BY <1>3 DEF StoreLogs, Goto
  <2>2. PICK k : /\ sync' = [sync EXCEPT !.next = k]
                 /\ pc' = "confirm" => k = Len(blocks) + 1
    BY <1>3 DEF StoreLogs, Goto
  <2>3. pc \in BlockSteps
    BY <2>1 DEF BlockSteps
  <2>4. /\ sync \in Locals /\ Running /\ sync.last \in Nat
        /\ Len(blocks) \in Nat /\ Len(blocks) < sync.last
    BY <2>3, BlockStepFacts
  <2>5. /\ sync'.addedTo = sync.addedTo /\ sync'.cancelledTo = sync.cancelledTo
        /\ sync'.current = sync.current /\ sync'.next = k /\ sync'.last = sync.last
        /\ sync'.contracts = sync.contracts
    BY <2>2, <2>4 DEF Locals
  <2>6. ReadsAll'
    BY <2>1, <2>4, <2>5 DEF Exactly, ReadsAll
  <2>7. ConfirmedTo' = ConfirmedTo /\ ConfirmedTo \in 0..Len(rollup)
    BY <2>1, <2>2, <2>4, <2>5, ConfirmedToIs DEF ConfirmedTo
  <2>8. ASSUME NEW n \in 1..MaxBlocks, Untouched(n)'
        PROVE  Untouched(n)
    <3>1. sync.contracts \subseteq (Len(blocks) + 1)..sync.last
      BY <2>3 DEF IInv, DataOK
    <3> QED
      BY <2>1, <2>4, <2>5, <2>8, <3>1, ArchiverAssumption DEF Untouched
  <2>9. crashes' \in Nat /\ pc' # "failed"
    BY <2>1 DEF Exactly
  <2> QED
    BY <2>1, <2>6, <2>7, <2>8, <2>9, ExactFrame
<1> QED
  BY <1>1, <1>2, <1>3

(* A new L1 block. *)
LEMMA MineExact ==
    ASSUME IInv, Exactly, NEW a \in Copies, NEW c \in Copies,
           NEW l2 \in {<<>>} \cup {<<i>> : i \in Copies}, NEW deploy \in BOOLEAN,
           Mine(a, c, l2, deploy)
    PROVE  Exactly'
<1>1. L1OK /\ StoreOK /\ Height \in Nat /\ Len(rollup) \in Nat
  BY L1Types DEF IInv
<1>2. /\ \A n \in 1..Height : added'[n] = added[n] /\ cancelled'[n] = cancelled[n]
      /\ rollup' \in Seq(RollupBlock)
      /\ Len(rollup') \in {Len(rollup), Len(rollup) + 1}
      /\ UNCHANGED storeVars /\ UNCHANGED <<pc, initial, sync, crashes>>
  BY <1>1, MineFacts, Zenon
<1>3. \A m \in Messages :
         /\ \A h \in 0..Height : /\ Total(added', h, m) = Total(added, h, m)
                                 /\ Total(cancelled', h, m) = Total(cancelled, h, m)
         /\ \A n \in 0..Len(rollup) : Consumed(n, m)' = Consumed(n, m)
         /\ \A n \in 0..Len(rollup) : PendingOnL1(n, m)' = PendingOnL1(n, m)
  BY <1>1, MineCounts, Zenon
<1>4. /\ db' = db /\ blocks' = blocks /\ extended' = extended
      /\ pc' = pc /\ sync' = sync /\ crashes' = crashes
      /\ LastL1Block' = LastL1Block /\ ConfirmedTo' = ConfirmedTo
  BY <1>2 DEF storeVars, LastL1Block, ConfirmedTo
<1>5. PICK k \in 0..Len(rollup) : k = ConfirmedTo
  BY ConfirmedToIs
<1>6. PICK b \in 0..Len(rollup) : b = Len(blocks)
  BY ConfirmedToIs
<1>7. crashes' \in Nat /\ ReadsAll' /\ ExtendedOnce'
  BY <1>4 DEF Exactly, ReadsAll, ExtendedOnce, Untouched, Running
<1>8. Applied'
  <2>1. 1..LastL1Block \subseteq 1..Height
    BY <1>1, LastL1BlockIs
  <2> QED
    BY <1>2, <1>4, <2>1 DEF Exactly, Applied
<1>9. KnownExact'
  <2>1. db.lastAdding \in 0..Height
    BY <1>1 DEF StoreOK, Store
  <2>2. \A m \in Messages : Total(added', db.lastAdding, m) = Total(added, db.lastAdding, m)
    BY <1>3, <2>1
  <2> QED
    BY <1>4, <2>2 DEF Exactly, KnownExact
<1>10. PendingExact'
  <2> SUFFICES ASSUME NEW m \in Messages, crashes' = 0 \/ Consumed(Len(rollup), m)' = 0
               PROVE  db'.pending[m] = PendingOnL1(ConfirmedTo, m)'
    BY DEF PendingExact
  <2>1. PendingOnL1(ConfirmedTo, m)' = PendingOnL1(k, m)'
    BY <1>4, <1>5 DEF PendingOnL1, Consumed
  <2>2. Consumed(Len(rollup), m)' = 0 => Consumed(Len(rollup), m) = 0
    <3>1. PICK j \in Nat : j = Len(rollup)
      BY <1>1
    <3>2. Consumed(j, m)' = ConsumedBy(rollup', j, m)
      BY DEF Consumed, ConsumedBy
    <3>3. Consumed(Len(rollup), m)' = ConsumedBy(rollup', Len(rollup'), m)
      BY DEF Consumed, ConsumedBy
    <3>4. /\ ConsumedBy(rollup', j, m) <= ConsumedBy(rollup', Len(rollup'), m)
          /\ ConsumedBy(rollup', j, m) \in Nat
          /\ ConsumedBy(rollup', Len(rollup'), m) \in Nat
      <4>1. Len(rollup') \in 0..Len(rollup') /\ j \in 0..Len(rollup') /\ j <= Len(rollup')
        BY <1>2, <3>1
      <4> QED
        BY <1>2, <4>1, ConsumedBySteps
    <3>5. Consumed(j, m)' = Consumed(j, m)
      BY <1>3, <3>1
    <3>6. Consumed(j, m) = Consumed(Len(rollup), m)
      BY <3>1
    <3>7. ConsumedBy(rollup', Len(rollup'), m) = 0 => ConsumedBy(rollup', j, m) = 0
      BY <3>4
    <3> QED
      BY <3>2, <3>3, <3>5, <3>6, <3>7
  <2>3. db.pending[m] = PendingOnL1(k, m)
    BY <1>4, <1>5, <2>2 DEF Exactly, PendingExact
  <2> QED
    BY <1>3, <1>4, <2>1, <2>3
<1>11. ConfirmedExact'
  <2> SUFFICES ASSUME crashes' = 0
               PROVE  db'.confirmed = {m \in Messages : Consumed(ConfirmedTo, m)' > 0}
    BY DEF ConfirmedExact
  <2>1. db.confirmed = {m \in Messages : Consumed(k, m) > 0}
    BY <1>4, <1>5 DEF Exactly, ConfirmedExact
  <2>2. \A m \in Messages : Consumed(ConfirmedTo, m)' = Consumed(k, m)'
    BY <1>4, <1>5 DEF Consumed
  <2> QED
    BY <1>3, <1>4, <2>1, <2>2
<1>12. FailsOnlyAhead'
  <2> SUFFICES ASSUME pc' = "failed"
               PROVE  crashes' > 0 /\ ConfirmedAhead'
    BY DEF FailsOnlyAhead
  <2>1. PICK m \in Messages : crashes > 0 /\ db.pending[m] < PendingOnL1(b, m)
    BY <1>4, <1>6 DEF Exactly, FailsOnlyAhead, ConfirmedAhead
  <2>2. PendingOnL1(Len(blocks), m)' = PendingOnL1(b, m)'
    BY <1>4, <1>6 DEF PendingOnL1, Consumed
  <2> QED
    BY <1>3, <1>4, <2>1, <2>2 DEF ConfirmedAhead
<1> QED
  BY <1>7, <1>8, <1>9, <1>10, <1>11, <1>12 DEF Exactly

(* A step that writes messages, and keeps the difference between the counts  *)
(* of the store and those of L1.                                             *)
LEMMA ExactWrite ==
    ASSUME IInv, Exactly, UNCHANGED l1Vars, UNCHANGED <<blocks, extended>>, crashes' = crashes,
           pc' # "failed", ReadsAll', KnownExact', ConfirmedExact',
           db'.lastAdding \in Nat, db.lastAdding <= db'.lastAdding,
           db'.lastCancelling \in Nat, db.lastCancelling <= db'.lastCancelling,
           \A m \in Messages :
               db.pending[m] = PendingOnL1(ConfirmedTo, m) =>
                   db'.pending[m] = PendingOnL1(ConfirmedTo, m)',
           \A n \in 1..MaxBlocks : Untouched(n)' => Untouched(n)
    PROVE  Exactly'
<1>1. /\ added' = added /\ cancelled' = cancelled /\ rollup' = rollup
      /\ blocks' = blocks /\ extended' = extended /\ LastL1Block' = LastL1Block
  BY DEF l1Vars, LastL1Block
<1>2. Applied'
  <2>1. db.lastAdding \in Nat /\ db.lastCancelling \in Nat /\ LastL1Block \in Nat
    BY L1Types, LastL1BlockIs DEF IInv, StoreOK, Store
  <2>2. \A h \in 1..LastL1Block :
            /\ db'.lastAdding < h => db.lastAdding < h
            /\ db'.lastCancelling < h => db.lastCancelling < h
    BY <2>1
  <2> QED
    BY <1>1, <2>2 DEF Exactly, Applied
<1>3. PendingExact'
  <2> SUFFICES ASSUME NEW m \in Messages, crashes' = 0 \/ Consumed(Len(rollup), m)' = 0
               PROVE  db'.pending[m] = PendingOnL1(ConfirmedTo, m)'
    BY DEF PendingExact
  <2>1. crashes = 0 \/ Consumed(Len(rollup), m) = 0
    BY <1>1 DEF Consumed
  <2> QED
    BY <2>1 DEF Exactly, PendingExact
<1>4. ExtendedOnce'
  BY <1>1 DEF Exactly, ExtendedOnce
<1> QED
  BY <1>2, <1>3, <1>4 DEF Exactly, FailsOnlyAhead

(* Every addition before the L1 block that is applied next is applied. *)
LEMMA AddedUpTo ==
    ASSUME IInv, Exactly, pc = "messages", NEW h, NEW c, Adds(h, c), db.lastAdding < h,
           NEW m \in Messages
    PROVE  /\ Total(added, h, m) \in Nat /\ Total(added, db.lastAdding, m) \in Nat
           /\ c[m] \in Nat
           /\ Total(added, h, m) = Total(added, db.lastAdding, m) + c[m]
<1>1. /\ added \in Seq(Copies) /\ Len(added) = Height /\ Height \in Nat
      /\ db.lastAdding \in Nat /\ sync.addedTo \in Nat /\ sync.added \in Nat /\ Running
  BY L1Types DEF IInv, ControlOK, Running, MessageSteps, Locals, L1OK, StoreOK, Store
<1>2. /\ sync.addedTo = sync.current /\ sync.added <= db.lastAdding
      /\ \A x \in 1..Height :
             db.lastAdding < x /\ x <= sync.addedTo =>
                 x \in sync.heights \/ Keys(added[x]) = {}
  BY <1>1 DEF IInv, MessagesOK, Exactly, ReadsAll
<1>3. /\ h \in 1..Height /\ h <= sync.addedTo
      /\ \A x \in sync.heights : x \in Nat /\ h <= x
      /\ sync.added < h /\ h <= sync.addedTo => c = added[h]
  BY <1>2 DEF Adds
<1>4. c = added[h]
  BY <1>1, <1>2, <1>3
<1>5. ASSUME NEW i \in 1..Height, db.lastAdding < i, i < h
      PROVE  added[i][m] = 0
  <2>1. i \notin sync.heights /\ i <= sync.addedTo
    BY <1>1, <1>3, <1>5
  <2>2. Keys(added[i]) = {}
    BY <1>2, <1>5, <2>1
  <2>3. added[i][m] \in Nat
    BY <1>1, CopiesCount
  <2> QED
    BY <2>2, <2>3 DEF Keys
<1>6. h \in 1..Len(added)
      /\ \A i \in 1..Len(added) : db.lastAdding < i /\ i < h => added[i][m] = 0
  BY <1>1, <1>3, <1>5
<1> QED
  BY <1>1, <1>4, <1>6, EventsStep

(* Messages are added: each of them once. *)
LEMMA AddPendingExact ==
    ASSUME IInv, Exactly, AddPending
    PROVE  Exactly'
<1>1. /\ UNCHANGED l1Vars /\ UNCHANGED <<blocks, extended>> /\ crashes' = crashes
      /\ pc = "messages" /\ pc' = "cancel" /\ sync' = sync
  BY AddPendingAdds
<1>2. PICK h, c : Adds(h, c)
  BY AddPendingAdds
<1>3. /\ h \in 1..Height
      /\ db' \in Store
      /\ db'.confirmed = db.confirmed /\ db'.lastCancelling = db.lastCancelling
      /\ db.lastAdding >= h => db' = db
      /\ db.lastAdding < h => /\ db'.lastAdding = h
                              /\ db'.known = db.known \cup Keys(c)
                              /\ \A m \in Messages : db'.pending[m] = db.pending[m] + c[m]
  BY <1>2 DEF Adds
<1>4. /\ Running /\ db \in Store /\ db.lastAdding \in Nat /\ db.lastCancelling \in Nat
      /\ Height \in Nat
  BY <1>1, L1Types DEF IInv, Running, MessageSteps, StoreOK, Store
<1>5. /\ db'.lastAdding \in Nat /\ db.lastAdding <= db'.lastAdding
      /\ db'.lastCancelling \in Nat /\ db.lastCancelling <= db'.lastCancelling
  BY <1>3, <1>4
<1>6. added' = added /\ cancelled' = cancelled /\ rollup' = rollup /\ blocks' = blocks
  BY <1>1 DEF l1Vars
<1>7. ReadsAll'
  BY <1>1, <1>4 DEF Exactly, ReadsAll
<1>8. ConfirmedTo' = ConfirmedTo /\ ConfirmedTo = Len(blocks)
  BY <1>1, <1>6 DEF ConfirmedTo
<1>9. ConfirmedExact'
  BY <1>1, <1>3, <1>6, <1>8 DEF Exactly, ConfirmedExact, Consumed
<1>10. \A n \in 1..MaxBlocks : Untouched(n)' => Untouched(n)
  BY <1>1 DEF Untouched
<1>11. CASE db.lastAdding >= h
  <2>1. db' = db
    BY <1>3, <1>11
  <2>2. KnownExact'
    BY <1>6, <2>1 DEF Exactly, KnownExact
  <2>3. \A m \in Messages : PendingOnL1(ConfirmedTo, m)' = PendingOnL1(ConfirmedTo, m)
    BY <1>6, <1>8, <2>1 DEF PendingOnL1, Consumed
  <2> QED
    BY <1>1, <1>5, <1>7, <1>9, <1>10, <2>1, <2>2, <2>3, ExactWrite
<1>12. CASE db.lastAdding < h
  <2>1. /\ db'.lastAdding = h /\ db'.known = db.known \cup Keys(c)
        /\ \A m \in Messages : db'.pending[m] = db.pending[m] + c[m]
    BY <1>3, <1>12
  <2>2. \A m \in Messages :
            /\ Total(added, h, m) \in Nat /\ Total(added, db.lastAdding, m) \in Nat
            /\ c[m] \in Nat
            /\ Total(added, h, m) = Total(added, db.lastAdding, m) + c[m]
    BY <1>1, <1>2, <1>12, AddedUpTo
  <2>3. KnownExact'
    <3>1. db.known = {m \in Messages : Total(added, db.lastAdding, m) > 0}
      BY DEF Exactly, KnownExact
    <3>2. db.known \cup Keys(c) = {m \in Messages : Total(added, h, m) > 0}
      BY <2>2, <3>1 DEF Keys
    <3> QED
      BY <1>6, <2>1, <3>2 DEF KnownExact
  <2>4. ASSUME NEW m \in Messages, db.pending[m] = PendingOnL1(ConfirmedTo, m)
        PROVE  db'.pending[m] = PendingOnL1(ConfirmedTo, m)'
    <3>1. PendingOnL1(ConfirmedTo, m)' = Total(added, h, m)
              - Total(cancelled, db.lastCancelling, m) - Consumed(ConfirmedTo, m)
      BY <1>3, <1>6, <1>8, <2>1 DEF PendingOnL1, Consumed
    <3>2. db.pending[m] = Total(added, db.lastAdding, m)
              - Total(cancelled, db.lastCancelling, m) - Consumed(ConfirmedTo, m)
      BY <2>4 DEF PendingOnL1
    <3>3. /\ Total(cancelled, db.lastCancelling, m) \in Nat /\ Consumed(ConfirmedTo, m) \in Nat
          /\ db.pending[m] \in Nat
      BY CountTypes, ConfirmedToIs
    <3> QED
      BY <2>1, <2>2, <3>1, <3>2, <3>3
  <2> QED
    BY <1>1, <1>5, <1>7, <1>9, <1>10, <2>3, <2>4, ExactWrite
<1> QED
  BY <1>3, <1>4, <1>11, <1>12

(* Copies that L1 says are pending can be taken from the store, unless a     *)
(* crash left messages confirmed ahead of their block.                       *)
LEMMA NotRemovable ==
    ASSUME IInv, Exactly, NEW c \in Copies, ~ CanRemove(db, c),
           \A m \in Messages : c[m] <= PendingOnL1(ConfirmedTo, m)
    PROVE  crashes \in Nat /\ crashes > 0 /\ ConfirmedAhead
<1>1. PICK j \in 0..Len(rollup) : j = ConfirmedTo
  BY ConfirmedToIs
<1>2. PICK b \in 0..Len(rollup) : b = Len(blocks) /\ b <= j
  BY <1>1, ConfirmedToIs
<1>3. \A m \in Messages : c[m] \in Nat
  BY ArchiverAssumption DEF Copies
<1>4. Keys(c) \subseteq db.known
  <2> SUFFICES ASSUME NEW m \in Messages, c[m] > 0
               PROVE  m \in db.known
    BY DEF Keys
  <2>1. /\ Total(added, db.lastAdding, m) \in Nat
        /\ Total(cancelled, db.lastCancelling, m) \in Nat
        /\ Consumed(j, m) \in Nat
    BY CountTypes
  <2>2. c[m] <= Total(added, db.lastAdding, m)
            - Total(cancelled, db.lastCancelling, m) - Consumed(j, m)
    BY <1>1 DEF PendingOnL1
  <2>3. Total(added, db.lastAdding, m) > 0
    BY <1>3, <2>1, <2>2
  <2> QED
    BY <2>3 DEF Exactly, KnownExact
<1>5. PICK m \in Messages : ~ (c[m] <= db.pending[m])
  BY <1>4 DEF CanRemove
<1>6. /\ Total(added, db.lastAdding, m) \in Nat
      /\ Total(cancelled, db.lastCancelling, m) \in Nat
      /\ Consumed(j, m) \in Nat /\ Consumed(b, m) \in Nat /\ Consumed(b, m) <= Consumed(j, m)
      /\ db.pending[m] \in Nat
  <2>1. rollup \in Seq(RollupBlock)
    BY DEF IInv, L1OK
  <2> QED
    BY <1>2, <2>1, CountTypes, ConsumedSteps
<1>7. /\ c[m] <= PendingOnL1(j, m) /\ PendingOnL1(j, m) \in Int
      /\ PendingOnL1(j, m) <= PendingOnL1(b, m) /\ PendingOnL1(b, m) \in Int
  BY <1>1, <1>6 DEF PendingOnL1
<1>8. db.pending[m] < PendingOnL1(j, m) /\ db.pending[m] < PendingOnL1(b, m)
  BY <1>3, <1>5, <1>6, <1>7
<1>9. crashes # 0
  <2>1. db.pending[m] # PendingOnL1(j, m)
    BY <1>6, <1>7, <1>8
  <2> QED
    BY <1>1, <2>1 DEF Exactly, PendingExact
<1>10. ConfirmedAhead
  BY <1>2, <1>8 DEF ConfirmedAhead
<1> QED
  BY <1>9, <1>10 DEF Exactly

(* A cancelled message is in the store, since it was sent before, and no L2  *)
(* block that is stored consumed it.                                         *)
LEMMA CancelledIsPending ==
    ASSUME IInv, Exactly, pc = "cancel", NEW h, NEW c, Cancels(h, c), db.lastCancelling < h,
           NEW m \in Messages
    PROVE  c[m] <= PendingOnL1(ConfirmedTo, m)
<1>1. /\ Total(cancelled, h, m) \in Nat /\ Total(cancelled, db.lastCancelling, m) \in Nat
      /\ c[m] \in Nat
      /\ Total(cancelled, h, m) = Total(cancelled, db.lastCancelling, m) + c[m]
  BY CancelledUpTo
<1>2. PICK b \in 0..Len(rollup) : b = Len(blocks) /\ b = ConfirmedTo
  BY ConfirmedToIs DEF ConfirmedTo
<1>3. /\ Total(added, db.lastAdding, m) \in Nat /\ Consumed(b, m) \in Nat
      /\ db.pending[m] \in Nat
  BY CountTypes
<1>4. CASE c[m] = 0
  <2>1. db.pending[m] <= PendingOnL1(b, m)
    BY <1>2 DEF IInv, NoGhost
  <2> QED
    BY <1>1, <1>2, <1>3, <1>4, <2>1 DEF PendingOnL1
<1>5. CASE c[m] > 0
  <2>1. h \in 1..Height /\ h <= db.lastAdding /\ c = cancelled[h]
    BY DEF Cancels
  <2>2. /\ LastL1Block \in Nat /\ Height \in Nat /\ db.lastAdding \in Nat
        /\ db.lastAdding <= Height
        /\ Len(blocks) > 0 => LastL1Block = rollup[Len(blocks)].l1
        /\ added \in Seq(Copies) /\ Len(added) = Height
    BY L1Types, LastL1BlockIs DEF IInv, StoreOK, Store, L1OK
  <2>3. ~ (h <= LastL1Block)
    <3>1. Keys(cancelled[h]) # {}
      BY <1>5, <2>1 DEF Keys
    <3>2. h <= LastL1Block => h \in 1..LastL1Block
      BY <2>1, <2>2
    <3>3. \A x \in 1..LastL1Block : db.lastCancelling < x => Keys(cancelled[x]) = {}
      BY DEF Exactly, Applied
    <3> QED
      BY <3>1, <3>2, <3>3
  <2>4. h \in 0..Height /\ (b > 0 => rollup[b].l1 <= h)
    BY <1>2, <2>1, <2>2, <2>3
  <2>5. Total(cancelled, h, m) + Consumed(b, m) <= Total(added, h, m)
    BY <2>4 DEF IInv, Conserved
  <2>6. Total(added, h, m) <= Total(added, db.lastAdding, m) /\ Total(added, h, m) \in Nat
    <3>1. db.lastAdding \in 0..Len(added) /\ h \in 0..db.lastAdding /\ h \in 0..Len(added)
      BY <2>1, <2>2
    <3> QED
      BY <2>2, <3>1, EventsMono
  <2> QED
    BY <1>1, <1>2, <1>3, <2>5, <2>6 DEF PendingOnL1
<1> QED
  BY <1>1, <1>4, <1>5

(* Messages are cancelled: each of them once. *)
LEMMA CancelPendingExact ==
    ASSUME IInv, Exactly, CancelPending
    PROVE  Exactly'
<1>1. /\ UNCHANGED l1Vars /\ UNCHANGED <<blocks, extended>> /\ crashes' = crashes
      /\ pc = "cancel"
  BY CancelPendingCancels
<1>2. PICK h, c : Cancels(h, c) /\ (Taken(h, c) \/ NotTaken(h, c))
  BY CancelPendingCancels
<1>3. h \in 1..Height /\ c \in Copies
  BY <1>2 DEF Cancels
<1>4. CASE NotTaken(h, c)
  <2>1. /\ db.lastCancelling < h /\ ~ CanRemove(db, c) /\ pc' = "failed" /\ db' = db
    BY <1>4 DEF NotTaken
  <2>2. \A m \in Messages : c[m] <= PendingOnL1(ConfirmedTo, m)
    BY <1>1, <1>2, <2>1, CancelledIsPending
  <2>3. crashes \in Nat /\ crashes > 0 /\ ConfirmedAhead
    BY <1>3, <2>1, <2>2, NotRemovable
  <2> QED
    BY <1>1, <2>1, <2>3, ExactEnd
<1>5. CASE Taken(h, c)
  <2>1. /\ pc' = "messages" /\ sync' = [sync EXCEPT !.heights = sync.heights \ {h}]
        /\ db' \in Store
        /\ db'.confirmed = db.confirmed /\ db'.lastAdding = db.lastAdding
        /\ db'.known = db.known
        /\ db.lastCancelling >= h => db' = db
        /\ db.lastCancelling < h =>
               /\ db'.lastCancelling = h
               /\ \A m \in Messages : db'.pending[m] = db.pending[m] - c[m]
    BY <1>5 DEF Taken
  <2>2. /\ Running /\ db \in Store /\ db.lastAdding \in Nat /\ db.lastCancelling \in Nat
        /\ Height \in Nat /\ sync \in Locals
    BY <1>1, L1Types DEF IInv, Running, MessageSteps, StoreOK, Store, ControlOK
  <2>3. /\ db'.lastAdding \in Nat /\ db.lastAdding <= db'.lastAdding
        /\ db'.lastCancelling \in Nat /\ db.lastCancelling <= db'.lastCancelling
    BY <1>3, <2>1, <2>2
  <2>4. added' = added /\ cancelled' = cancelled /\ rollup' = rollup /\ blocks' = blocks
    BY <1>1 DEF l1Vars
  <2>5. /\ sync'.addedTo = sync.addedTo /\ sync'.cancelledTo = sync.cancelledTo
        /\ sync'.current = sync.current
    BY <2>1, <2>2 DEF Locals
  <2>6. ReadsAll'
    BY <1>1, <2>1, <2>2, <2>5 DEF Exactly, ReadsAll
  <2>7. ConfirmedTo' = ConfirmedTo /\ ConfirmedTo = Len(blocks)
    BY <1>1, <2>1, <2>4 DEF ConfirmedTo
  <2>8. ConfirmedExact' /\ KnownExact'
    BY <1>1, <2>1, <2>4, <2>7 DEF Exactly, ConfirmedExact, KnownExact, Consumed
  <2>9. \A n \in 1..MaxBlocks : Untouched(n)' => Untouched(n)
    BY <1>1, <2>1 DEF Untouched
  <2>10. ASSUME NEW m \in Messages, db.pending[m] = PendingOnL1(ConfirmedTo, m)
         PROVE  db'.pending[m] = PendingOnL1(ConfirmedTo, m)'
    <3>1. PendingOnL1(ConfirmedTo, m)' = Total(added, db.lastAdding, m)
              - Total(cancelled, db'.lastCancelling, m) - Consumed(ConfirmedTo, m)
      BY <2>1, <2>4, <2>7 DEF PendingOnL1, Consumed
    <3>2. db.pending[m] = Total(added, db.lastAdding, m)
              - Total(cancelled, db.lastCancelling, m) - Consumed(ConfirmedTo, m)
      BY <2>10 DEF PendingOnL1
    <3>3. CASE db.lastCancelling >= h
      BY <2>1, <3>1, <3>2, <3>3
    <3>4. CASE db.lastCancelling < h
      <4>1. /\ Total(cancelled, h, m) \in Nat /\ Total(cancelled, db.lastCancelling, m) \in Nat
            /\ c[m] \in Nat
            /\ Total(cancelled, h, m) = Total(cancelled, db.lastCancelling, m) + c[m]
        BY <1>1, <1>2, <3>4, CancelledUpTo
      <4>2. /\ Total(added, db.lastAdding, m) \in Nat /\ Consumed(ConfirmedTo, m) \in Nat
            /\ db.pending[m] \in Nat
        BY CountTypes, ConfirmedToIs
      <4> QED
        BY <2>1, <3>1, <3>2, <3>4, <4>1, <4>2
    <3> QED
      BY <1>3, <2>2, <3>3, <3>4
  <2> QED
    BY <1>1, <2>1, <2>3, <2>6, <2>8, <2>9, <2>10, ExactWrite
<1> QED
  BY <1>2, <1>4, <1>5

(* The contract data of a block is stored: once, unless sync ended before. *)
LEMMA AddContractDataExact ==
    ASSUME IInv, Exactly, NEW n \in 1..MaxBlocks, AddContractData(n)
    PROVE  Exactly'
<1> DEFINE v == Min({extended[n] + 1, MaxExtended})
<1>1. /\ UNCHANGED l1Vars /\ UNCHANGED <<db, blocks>> /\ crashes' = crashes
      /\ pc = "extend" /\ n \in sync.contracts
      /\ extended' = [extended EXCEPT ![n] = v]
      /\ sync' = [sync EXCEPT !.contracts = sync.contracts \ {n}]
      /\ pc' \in {"extend", "confirm"}
  BY DEF AddContractData, Goto
<1>2. pc \in BlockSteps
  BY <1>1 DEF BlockSteps
<1>3. /\ sync \in Locals /\ Running /\ sync.next \in Nat /\ sync.last \in Nat
      /\ Len(blocks) \in Nat /\ sync.contracts \in SUBSET Nat
      /\ extended \in [1..MaxBlocks -> 0..MaxExtended]
  BY <1>2, BlockStepFacts
<1>4. sync.next = Len(blocks) + 1 /\ sync.contracts \subseteq (Len(blocks) + 1)..sync.last
  BY <1>1, <1>2 DEF IInv, DataOK
<1>5. v \in Nat /\ v <= extended[n] + 1
  <2>1. extended[n] + 1 \in Nat /\ MaxExtended \in Nat
    BY <1>3, ArchiverAssumption
  <2> QED
    BY <2>1, MinOfTwo
<1> HIDE DEF v
<1>6. /\ extended'[n] = v
      /\ \A i \in 1..MaxBlocks : i # n => extended'[i] = extended[i]
  BY <1>1, <1>3
<1>7. /\ sync'.contracts = sync.contracts \ {n} /\ sync'.last = sync.last
      /\ sync'.next = sync.next /\ sync'.current = sync.current
      /\ sync'.addedTo = sync.addedTo /\ sync'.cancelledTo = sync.cancelledTo
  BY <1>1, <1>3 DEF Locals
<1>8. /\ added' = added /\ cancelled' = cancelled /\ rollup' = rollup /\ db' = db
      /\ blocks' = blocks /\ LastL1Block' = LastL1Block
  BY <1>1 DEF l1Vars, LastL1Block
<1>9. ReadsAll'
  BY <1>1, <1>3, <1>7 DEF Exactly, ReadsAll
<1>10. Applied' /\ KnownExact' /\ FailsOnlyAhead'
  BY <1>1, <1>8 DEF Exactly, Applied, KnownExact, FailsOnlyAhead
<1>11. ConfirmedTo' = ConfirmedTo
  BY <1>1, <1>3, <1>4, <1>7, <1>8 DEF ConfirmedTo
<1>12. PendingExact' /\ ConfirmedExact'
  BY <1>1, <1>8, <1>11 DEF Exactly, PendingExact, ConfirmedExact, PendingOnL1, Consumed
<1>13. ExtendedOnce'
  <2> SUFFICES ASSUME crashes = 0, NEW i \in 1..MaxBlocks
               PROVE  extended'[i] <= 1 /\ (Untouched(i)' => extended'[i] = 0)
    BY <1>1 DEF ExtendedOnce
  <2>1. Untouched(i) <=> sync.last < i \/ i \in sync.contracts
    BY <1>1 DEF Untouched
  <2>2. Untouched(i)' <=> sync.last < i \/ i \in sync.contracts \ {n}
    BY <1>1, <1>7 DEF Untouched
  <2>3. extended[i] <= 1 /\ (Untouched(i) => extended[i] = 0)
    BY DEF Exactly, ExtendedOnce
  <2>4. CASE i # n
    BY <1>6, <2>1, <2>2, <2>3, <2>4
  <2>5. CASE i = n
    <3>1. extended[n] = 0
      BY <1>1, <2>1, <2>3, <2>5
    <3>2. ~ (sync.last < n)
      BY <1>1, <1>3, <1>4
    <3> QED
      BY <1>5, <1>6, <2>2, <2>5, <3>1, <3>2
  <2> QED
    BY <2>4, <2>5
<1> QED
  BY <1>1, <1>9, <1>10, <1>12, <1>13 DEF Exactly

(* On its way with L2 blocks, sync has applied every event it has read. *)
LEMMA AllApplied ==
    ASSUME IInv, Exactly, pc \in BlockSteps
    PROVE  /\ \A h \in 1..sync.current :
                 /\ db.lastAdding < h => Keys(added[h]) = {}
                 /\ db.lastCancelling < h => Keys(cancelled[h]) = {}
           /\ \A m \in Messages :
                 /\ Total(added, db.lastAdding, m) = Total(added, sync.current, m)
                 /\ Total(cancelled, db.lastCancelling, m) = Total(cancelled, sync.current, m)
<1>1. /\ Running /\ sync.current \in Nat /\ sync.current <= Height /\ sync.heights = {}
      /\ pc \notin {"pending", "cancelled"}
  BY BlockStepFacts DEF BlockSteps
<1>2. sync.addedTo = sync.current /\ sync.cancelledTo = sync.current
  BY <1>1 DEF Exactly, ReadsAll
<1>3. /\ db.lastAdding \in Nat /\ db.lastCancelling \in Nat /\ Height \in Nat
      /\ added \in Seq(Copies) /\ cancelled \in Seq(Copies)
      /\ Len(added) = Height /\ Len(cancelled) = Height
  BY L1Types DEF IInv, L1OK, StoreOK, Store
<1>4. /\ db.lastAdding <= sync.current /\ db.lastCancelling <= sync.current
      /\ \A h \in 1..Height :
             db.lastCancelling < h /\ h <= sync.current => Keys(cancelled[h]) = {}
      /\ \A h \in 1..Height :
             db.lastAdding < h /\ h <= sync.current => Keys(added[h]) = {}
  BY <1>1, <1>2 DEF IInv, MessagesOK
<1>5. \A h \in 1..sync.current : h \in 1..Height /\ h <= sync.current
  BY <1>1, <1>3
<1>6. ASSUME NEW m \in Messages
      PROVE  /\ Total(added, db.lastAdding, m) = Total(added, sync.current, m)
             /\ Total(cancelled, db.lastCancelling, m) = Total(cancelled, sync.current, m)
  <2>1. /\ sync.current <= Len(added)
        /\ \A h \in 1..Len(added) :
               db.lastAdding < h /\ h <= sync.current => Keys(added[h]) = {}
    BY <1>1, <1>3, <1>4
  <2>2. /\ sync.current <= Len(cancelled)
        /\ \A h \in 1..Len(cancelled) :
               db.lastCancelling < h /\ h <= sync.current => Keys(cancelled[h]) = {}
    BY <1>1, <1>3, <1>4
  <2>3. Total(added, db.lastAdding, m) = Total(added, sync.current, m)
    BY <1>1, <1>3, <1>4, <2>1, EventsGap, Zenon
  <2>4. Total(cancelled, db.lastCancelling, m) = Total(cancelled, sync.current, m)
    BY <1>1, <1>3, <1>4, <2>2, EventsGap
  <2> QED
    BY <2>3, <2>4
<1> QED
  BY <1>4, <1>5, <1>6

(* A message that an L2 block consumes is in the store. *)
LEMMA ConsumedIsPending ==
    ASSUME IInv, Exactly, pc = "confirm", NEW j \in 0..Len(rollup), j = sync.next - 1,
           j + 1 \in 1..Len(rollup), NEW m \in Messages
    PROVE  /\ rollup[j + 1].ins[m] <= PendingOnL1(j, m)
           /\ rollup[j + 1].ins[m] \in Nat
           /\ Consumed(j + 1, m) = Consumed(j, m) + rollup[j + 1].ins[m]
<1>1. pc \in BlockSteps
  BY DEF BlockSteps
<1>2. /\ Running /\ sync.current \in Nat /\ sync.current <= Height
      /\ sync.last \in Nat /\ sync.next \in Nat /\ Len(blocks) \in Nat
  BY <1>1, BlockStepFacts
<1>3. sync.next \in (Len(blocks) + 1)..sync.last
  BY <1>1 DEF IInv, DataOK
<1>4. /\ Total(added, db.lastAdding, m) = Total(added, sync.current, m)
      /\ Total(cancelled, db.lastCancelling, m) = Total(cancelled, sync.current, m)
  BY <1>1, AllApplied
<1>5. /\ Total(added, db.lastAdding, m) \in Nat
      /\ Total(cancelled, db.lastCancelling, m) \in Nat
      /\ Consumed(j, m) \in Nat
  BY CountTypes
<1>6. /\ Consumed(j + 1, m) = Consumed(j, m) + rollup[j + 1].ins[m]
      /\ rollup[j + 1].ins[m] \in Nat
  <2>1. (j + 1) - 1 = j /\ rollup \in Seq(RollupBlock)
    BY DEF IInv, L1OK
  <2> QED
    BY <2>1, ConsumedSteps
<1>7. rollup[j + 1].l1 <= sync.current
  <2>1. /\ sync.blockTo <= sync.current /\ sync.blockTo \in Nat
        /\ \A n \in 1..Len(rollup) :
               n <= Len(blocks) \/ n <= sync.last => rollup[n].l1 <= sync.blockTo
    BY <1>2 DEF IInv, BlocksOK, ControlOK, Locals
  <2>2. j + 1 <= sync.last
    BY <1>2, <1>3
  <2>3. rollup[j + 1].l1 <= sync.blockTo /\ rollup[j + 1].l1 \in Nat
    BY <2>1, <2>2 DEF IInv, L1OK
  <2> QED
    BY <1>2, <2>1, <2>3, SMTT(20)
<1>8. Total(cancelled, sync.current, m) + Consumed(j + 1, m) <= Total(added, sync.current, m)
  <2>1. sync.current \in 0..Height /\ j + 1 \in 0..Len(rollup)
    BY <1>2, L1Types DEF IInv
  <2> QED
    BY <1>7, <2>1 DEF IInv, Conserved
<1> QED
  BY <1>4, <1>5, <1>6, <1>8 DEF PendingOnL1

(* The messages of an L2 block are confirmed: each of them once. *)
LEMMA ConfirmExact ==
    ASSUME IInv, Exactly, Confirm
    PROVE  Exactly'
<1>1. /\ UNCHANGED l1Vars /\ UNCHANGED <<blocks, extended>> /\ crashes' = crashes
      /\ pc = "confirm" /\ pc \in BlockSteps
  BY DEF Confirm, BlockSteps
<1>2. /\ sync \in Locals /\ Running /\ sync.next \in Nat /\ sync.last \in Nat
      /\ sync.last <= Len(rollup) /\ Len(rollup) \in Nat /\ Len(blocks) \in Nat
      /\ db \in Store
  BY <1>1, BlockStepFacts
<1>3. /\ sync.next \in (Len(blocks) + 1)..sync.last
      /\ sync.contracts = {}
  BY <1>1 DEF IInv, DataOK
<1>4. PICK j \in 0..Len(rollup) : j = sync.next - 1 /\ j + 1 = sync.next /\ j + 1 \in 1..Len(rollup)
  BY <1>2, <1>3
<1>5. ConfirmedTo = j
  BY <1>1, <1>4 DEF ConfirmedTo
<1> DEFINE c == rollup[j + 1].ins
<1>6. c \in Copies
  <2>1. rollup[j + 1] \in RollupBlock
    BY <1>4, ElementOfSeq DEF IInv, L1OK
  <2> QED
    BY <2>1 DEF RollupBlock
<1>7. \A m \in Messages : /\ c[m] <= PendingOnL1(j, m) /\ c[m] \in Nat
                          /\ Consumed(j + 1, m) = Consumed(j, m) + c[m]
  BY <1>1, <1>4, ConsumedIsPending
<1>8. IF CanRemove(db, c)
      THEN /\ db' = ConfirmPendingMessages(db, c)
           /\ pc' \in {"confirm", "store"}
           /\ sync' = [sync EXCEPT !.next = sync.next + 1]
      ELSE pc' = "failed" /\ UNCHANGED db
  BY <1>4 DEF Confirm, Goto, Fail
<1> HIDE DEF c
<1>9. CASE ~ CanRemove(db, c)
  <2>1. crashes \in Nat /\ crashes > 0 /\ ConfirmedAhead
    BY <1>5, <1>6, <1>7, <1>9, NotRemovable
  <2> QED
    BY <1>1, <1>8, <1>9, <2>1, ExactEnd
<1>10. CASE CanRemove(db, c)
  <2>1. /\ db'.lastAdding = db.lastAdding /\ db'.lastCancelling = db.lastCancelling
        /\ db'.known = db.known
        /\ db'.confirmed = db.confirmed \cup Keys(c)
        /\ \A m \in Messages : db'.pending[m] = db.pending[m] - c[m]
    <3>1. db' = ConfirmPendingMessages(db, c)
      BY <1>8, <1>10
    <3> QED
      BY <1>2, <1>6, <1>10, <3>1, ConfirmPendingIs
  <2>2. pc' \in {"confirm", "store"} /\ sync' = [sync EXCEPT !.next = sync.next + 1]
    BY <1>8, <1>10
  <2>3. /\ sync'.next = j + 2 /\ sync'.last = sync.last /\ sync'.contracts = sync.contracts
        /\ sync'.addedTo = sync.addedTo /\ sync'.cancelledTo = sync.cancelledTo
        /\ sync'.current = sync.current
    BY <1>2, <1>4, <2>2 DEF Locals
  <2>4. added' = added /\ cancelled' = cancelled /\ rollup' = rollup /\ blocks' = blocks
    BY <1>1 DEF l1Vars
  <2>5. ConfirmedTo' = j + 1
    BY <2>2, <2>3 DEF ConfirmedTo
  <2>6. ReadsAll'
    BY <1>1, <1>2, <2>2, <2>3 DEF Exactly, ReadsAll
  <2>7. KnownExact'
    BY <2>1, <2>4 DEF Exactly, KnownExact
  <2>8. ConfirmedExact'
    <3> SUFFICES ASSUME crashes = 0
                 PROVE  db'.confirmed = {m \in Messages : Consumed(j + 1, m) > 0}
      BY <1>1, <2>4, <2>5 DEF ConfirmedExact, Consumed
    <3>1. db.confirmed = {m \in Messages : Consumed(j, m) > 0}
      BY <1>5 DEF Exactly, ConfirmedExact
    <3>2. \A m \in Messages : Consumed(j, m) \in Nat
      BY CountTypes
    <3> QED
      BY <1>7, <2>1, <3>1, <3>2 DEF Keys
  <2>9. \A n \in 1..MaxBlocks : Untouched(n)' => Untouched(n)
    BY <1>1, <2>2, <2>3 DEF Untouched
  <2>10. ASSUME NEW m \in Messages, db.pending[m] = PendingOnL1(ConfirmedTo, m)
         PROVE  db'.pending[m] = PendingOnL1(ConfirmedTo, m)'
    <3>1. PendingOnL1(ConfirmedTo, m)' = Total(added, db.lastAdding, m)
              - Total(cancelled, db.lastCancelling, m) - Consumed(j + 1, m)
      BY <2>1, <2>4, <2>5 DEF PendingOnL1, Consumed
    <3>2. db.pending[m] = Total(added, db.lastAdding, m)
              - Total(cancelled, db.lastCancelling, m) - Consumed(j, m)
      BY <1>5, <2>10 DEF PendingOnL1
    <3>3. /\ Total(added, db.lastAdding, m) \in Nat
          /\ Total(cancelled, db.lastCancelling, m) \in Nat
          /\ Consumed(j, m) \in Nat /\ db.pending[m] \in Nat
      BY CountTypes
    <3> QED
      BY <1>7, <2>1, <3>1, <3>2, <3>3
  <2>11. /\ db'.lastAdding \in Nat /\ db.lastAdding <= db'.lastAdding
         /\ db'.lastCancelling \in Nat /\ db.lastCancelling <= db'.lastCancelling
    BY <1>2, <2>1 DEF Store
  <2> QED
    BY <1>1, <2>2, <2>6, <2>7, <2>8, <2>9, <2>10, <2>11, ExactWrite
<1> QED
  BY <1>9, <1>10

(* The blocks are stored, with every event up to their L1 block applied. *)
LEMMA AddBlocksExact ==
    ASSUME IInv, Exactly, AddBlocks
    PROVE  Exactly'
<1>1. /\ UNCHANGED l1Vars /\ UNCHANGED <<db, extended>> /\ crashes' = crashes
      /\ pc = "store" /\ pc' = "idle" /\ pc \in BlockSteps
  BY DEF AddBlocks, Return, BlockSteps
<1>2. /\ Running /\ sync.last \in Nat /\ sync.last <= Len(rollup) /\ Len(rollup) \in Nat
      /\ Len(blocks) \in Nat /\ Len(blocks) < sync.last /\ sync.current \in Nat
      /\ sync.next = sync.last + 1 /\ sync.contracts = {}
  BY <1>1, BlockStepFacts DEF IInv, DataOK
<1>3. /\ blocks' \in Seq(RollupBlock)
      /\ Len(blocks') = sync.last
      /\ \A n \in 1..sync.last : blocks'[n] = rollup[n]
  BY BlocksGrow
<1>4. /\ added' = added /\ cancelled' = cancelled /\ rollup' = rollup /\ db' = db
      /\ extended' = extended
  BY <1>1 DEF l1Vars
<1>5. PICK k \in 1..Len(rollup) : k = sync.last
  BY <1>2
<1>6. ConfirmedTo = k /\ ConfirmedTo' = k
  BY <1>1, <1>2, <1>3, <1>5 DEF ConfirmedTo
<1>7. LastL1Block' \in Nat /\ LastL1Block' <= sync.current
  <2>1. blocks' # <<>>
    BY <1>2, <1>3, EmptySeq
  <2>2. LastL1Block' = rollup[k].l1
    BY <1>3, <1>5, <2>1 DEF LastL1Block
  <2>3. /\ sync.blockTo <= sync.current /\ sync.blockTo \in Nat
        /\ \A n \in 1..Len(rollup) :
               n <= Len(blocks) \/ n <= sync.last => rollup[n].l1 <= sync.blockTo
    BY <1>2 DEF IInv, BlocksOK, ControlOK, Locals
  <2>4. k <= sync.last
    BY <1>2, <1>5
  <2>5. rollup[k].l1 <= sync.blockTo /\ rollup[k].l1 \in Nat
    BY <2>3, <2>4 DEF IInv, L1OK
  <2> QED
    BY <1>2, <2>2, <2>3, <2>5
<1>8. Applied'
  <2>1. \A h \in 1..LastL1Block' : h \in 1..sync.current
    BY <1>2, <1>7
  <2>2. \A h \in 1..sync.current : /\ db.lastAdding < h => Keys(added[h]) = {}
                                   /\ db.lastCancelling < h => Keys(cancelled[h]) = {}
    BY <1>1, AllApplied
  <2> QED
    BY <1>4, <2>1, <2>2 DEF Applied
<1>9. ReadsAll' /\ KnownExact' /\ FailsOnlyAhead'
  BY <1>1, <1>4 DEF Exactly, ReadsAll, KnownExact, FailsOnlyAhead, Running, MessageSteps, BlockSteps
<1>10. PendingExact' /\ ConfirmedExact'
  BY <1>1, <1>4, <1>6 DEF Exactly, PendingExact, ConfirmedExact, PendingOnL1, Consumed
<1>11. ExtendedOnce'
  <2>1. \A n \in 1..MaxBlocks : Untouched(n)' => Untouched(n)
    BY <1>1, <1>3 DEF Untouched
  <2> QED
    BY <1>1, <1>4, <2>1 DEF Exactly, ExtendedOnce
<1> QED
  BY <1>1, <1>8, <1>9, <1>10, <1>11 DEF Exactly

(* Without a lag, every step keeps what the store says exact. *)
LEMMA NextExact ==
    ASSUME IInv, Exactly, ~ Lags, [Next]_vars
    PROVE  Exactly'
<1>1. CASE UNCHANGED vars \/ Start \/ Crash
  BY <1>1, AroundExact
<1>2. ASSUME NEW a \in Copies, NEW c \in Copies,
             NEW l2 \in {<<>>} \cup {<<i>> : i \in Copies}, NEW deploy \in BOOLEAN,
             Mine(a, c, l2, deploy)
      PROVE  Exactly'
  BY <1>2, MineExact
<1>3. CASE IndexBlock
  <2>1. indexed < Height /\ indexed = Height /\ Height \in Nat
    BY <1>3, L1Types DEF IndexBlock, IInv, L1OK
  <2> QED
    BY <2>1
<1>4. CASE Begin \/ RetrievePending \/ RetrieveCancelled
  BY <1>4, ReadingExact
<1>5. CASE RetrieveBlocks \/ RetrieveContracts \/ StoreLogs
  BY <1>5, BlockStepsExact
<1>6. CASE \E n \in 1..MaxBlocks : AddContractData(n)
  BY <1>6, AddContractDataExact
<1>7. CASE AddPending \/ CancelPending \/ Confirm \/ AddBlocks
  BY <1>7, AddPendingExact, CancelPendingExact, ConfirmExact, AddBlocksExact
<1> QED
  BY <1>1, <1>2, <1>3, <1>4, <1>5, <1>6, <1>7 DEF Next, SyncStep

(* "data is read exactly once" (archiver.ts), in every state of sync and     *)
(* until a first crash, if the provider returns the events of every L1 block *)
(* it announces.                                                             *)
THEOREM DataIsReadOnce ==
    ASSUME ~ Lags
    PROVE  Spec => []ReadOnce
<1>1. Init => IInv /\ Exactly
  BY InitInv, InitExact
<1>2. (IInv /\ Exactly) /\ [Next]_vars => (IInv /\ Exactly)'
  BY NextInv, NextExact
<1>3. IInv /\ Exactly => ReadOnce
  BY DEF Exactly, PendingExact, ConfirmedExact, ExtendedOnce, ReadOnce
<1> QED
  BY <1>1, <1>2, <1>3, PTL DEF Spec

(* With a provider that returns the events of every L1 block it announces,   *)
(* any number of crashes, at any await, loses and repeats no message that no *)
(* L2 block has consumed, and sync throws only when messages were confirmed  *)
(* and a crash came before their L2 block was stored (sync,                  *)
(* message_store.ts).                                                        *)
THEOREM CrashesAreSafe ==
    ASSUME ~ Lags
    PROVE  Spec => []CrashSafe
<1>1. Init => IInv /\ Exactly
  BY InitInv, InitExact
<1>2. (IInv /\ Exactly) /\ [Next]_vars => (IInv /\ Exactly)'
  BY NextInv, NextExact
<1>3. IInv /\ Exactly => CrashSafe
  <2> SUFFICES ASSUME IInv, Exactly, NEW m \in Messages, Consumed(Len(rollup), m) = 0
               PROVE  db.pending[m] = PendingOnL1(0, m)
    BY DEF CrashSafe, UnconsumedExact, Exactly
  <2>1. PICK j \in 0..Len(rollup) : j = ConfirmedTo
    BY ConfirmedToIs
  <2>2. Consumed(j, m) = 0 /\ Consumed(0, m) = 0
    <3>1. Len(rollup) \in 0..Len(rollup) /\ j <= Len(rollup) /\ rollup \in Seq(RollupBlock)
      BY L1Types DEF IInv, L1OK
    <3>2. /\ Consumed(j, m) \in Nat /\ Consumed(j, m) <= Consumed(Len(rollup), m)
          /\ Consumed(0, m) = 0
      BY <3>1, ConsumedSteps
    <3> QED
      BY <3>2
  <2>3. db.pending[m] = PendingOnL1(j, m)
    BY <2>1 DEF Exactly, PendingExact
  <2> QED
    BY <2>2, <2>3 DEF PendingOnL1
<1> QED
  BY <1>1, <1>2, <1>3, PTL DEF Spec

=============================================================================
