---------------------------- MODULE InboxProofs ----------------------------
(***************************************************************************)
(* Proofs about the Inbox, for every set of accounts and messages and      *)
(* every width of its integers.                                            *)
(***************************************************************************)
EXTENDS Inbox, FiniteSetTheorems, SequenceTheorems, WellFoundedInduction, TLAPS

(***************************************************************************)
(* Sums.  The ether that the Inbox owes is a SumFunction of the community  *)
(* module Functions: a fold, a function defined by recursion over the      *)
(* subsets of its domain, so every fact about it is an induction.  The     *)
(* induction principle used is that a nonempty set of naturals has a least *)
(* element, and that a nonempty set of subsets of a finite set has a       *)
(* minimal element: the counterexamples to a claim form such a set.        *)
(***************************************************************************)

\* One unfolding of the recursion that defines the sum of f over subsets of S.
Pick(T) == CHOOSE x \in T : TRUE
IsSum(g, f, S) ==
    g = [T \in SUBSET S |-> IF T = {} THEN 0 ELSE f[Pick(T)] + g[T \ {Pick(T)}]]
SumTable(f, S) == CHOOSE g : IsSum(g, f, S)

-----------------------------------------------------------------------------

(* Every nonempty set of natural numbers has a least element. *)
LEMMA NatMin ==
    ASSUME NEW D \in SUBSET Nat, D # {}
    PROVE  \E x \in D : \A y \in D : x <= y
<1> DEFINE R == {ss \in Nat \X Nat : ss[1] < ss[2]}
<1>1. OpToRel(<, Nat) = R
  BY DEF OpToRel
<1>2. IsWellFoundedOn(OpToRel(<, Nat), Nat)
  BY NatLessThanWellFounded
<1>3. \E x \in D : \A y \in D : ~ (<<y, x>> \in OpToRel(<, Nat))
  BY <1>2, WFMin
<1> HIDE DEF R
<1>4. PICK x \in D : \A y \in D : ~ (<<y, x>> \in R)
  BY <1>1, <1>3, Zenon
<1>5. ASSUME NEW y \in D
      PROVE  x <= y
  <2>1. x \in Nat /\ y \in Nat
    OBVIOUS
  <2>2. <<y, x>> \in R <=> y < x
    BY <2>1 DEF R
  <2> QED
    BY <1>4, <2>1, <2>2
<1> QED
  BY <1>5

(* Every nonempty set of subsets of a finite set has a minimal element. *)
LEMMA SubsetMin ==
    ASSUME NEW S, IsFiniteSet(S), NEW D \in SUBSET (SUBSET S), D # {}
    PROVE  \E T \in D : \A U \in D : U \subseteq T => U = T
<1> DEFINE C == {Cardinality(T) : T \in D}
<1>1. ASSUME NEW T \in D
      PROVE  IsFiniteSet(T) /\ Cardinality(T) \in Nat
  BY FS_Subset, FS_CardinalityType
<1>2. PICK n \in C : \A m \in C : n <= m
  <2>1. C \in SUBSET Nat /\ C # {}
    BY <1>1
  <2> QED
    BY <2>1, NatMin
<1>3. PICK T \in D : Cardinality(T) = n
  BY <1>2
<1>4. ASSUME NEW U \in D, U \subseteq T
      PROVE  U = T
  <2>1. Cardinality(T) <= Cardinality(U)
    BY <1>2, <1>3
  <2>2. Cardinality(U) <= Cardinality(T) /\ (Cardinality(T) = Cardinality(U) => T = U)
    BY <1>1, <1>4, FS_Subset
  <2> QED
    BY <1>1, <2>1, <2>2
<1> QED
  BY <1>4

-----------------------------------------------------------------------------

(* The recursion that defines the sum over a finite set has a solution. *)
LEMMA SumExists ==
    ASSUME NEW S, IsFiniteSet(S), NEW f
    PROVE  IsSum(SumTable(f, S), f, S)
<1> DEFINE D(n) == {T \in SUBSET S : Cardinality(T) <= n}
           Body(g, T) == IF T = {} THEN 0 ELSE f[Pick(T)] + g[T \ {Pick(T)}]
           Solved(n) == \E g : \A T \in D(n) : g[T] = Body(g, T)
           Bad == {n \in Nat : ~ Solved(n)}
<1>1. ASSUME NEW T \in SUBSET S
      PROVE  IsFiniteSet(T) /\ Cardinality(T) \in Nat
  BY FS_Subset, FS_CardinalityType
<1>2. ASSUME NEW T \in SUBSET S, T # {}
      PROVE  /\ Pick(T) \in T
             /\ T \ {Pick(T)} \in SUBSET S
             /\ Cardinality(T \ {Pick(T)}) = Cardinality(T) - 1
  <2>1. Pick(T) \in T
    BY <1>2 DEF Pick
  <2> QED
    BY <1>1, <2>1, FS_RemoveElement
<1>3. Solved(0)
  <2> DEFINE g == [T \in D(0) |-> 0]
  <2>1. ASSUME NEW T \in D(0)
        PROVE  T = {}
    BY <1>1, FS_EmptySet
  <2>2. \A T \in D(0) : g[T] = Body(g, T)
    BY <2>1
  <2> QED
    BY <2>2
<1>4. ASSUME NEW n \in Nat, Solved(n)
      PROVE  Solved(n + 1)
  <2>1. PICK g : \A T \in D(n) : g[T] = Body(g, T)
    BY <1>4
  <2> DEFINE h == [T \in D(n + 1) |-> IF T \in D(n) THEN g[T] ELSE Body(g, T)]
  <2>2. ASSUME NEW T \in D(n + 1)
        PROVE  h[T] = Body(h, T)
    <3>1. h[T] = Body(g, T)
      BY <2>1
    <3>2. CASE T = {}
      BY <3>1, <3>2
    <3>3. CASE T # {}
      <4>1. T \ {Pick(T)} \in D(n) /\ T \ {Pick(T)} \in D(n + 1)
        BY <1>1, <1>2, <3>3
      <4>2. h[T \ {Pick(T)}] = g[T \ {Pick(T)}]
        BY <4>1
      <4> HIDE DEF h
      <4> QED
        BY <3>1, <3>3, <4>2
    <3> QED
      BY <3>2, <3>3
  <2> HIDE DEF h
  <2> QED
    BY <2>2
<1> HIDE DEF Solved
<1>5. Bad = {}
  <2> SUFFICES ASSUME Bad # {}
               PROVE  FALSE
    OBVIOUS
  <2>1. PICK n \in Bad : \A m \in Bad : n <= m
    BY NatMin
  <2>2. n # 0 /\ n - 1 \in Nat /\ n - 1 \notin Bad
    BY <1>3, <2>1
  <2> QED
    BY <1>4, <2>1, <2>2
<1>6. Solved(Cardinality(S))
  BY <1>1, <1>5
<1>7. PICK g : \A T \in D(Cardinality(S)) : g[T] = Body(g, T)
  BY <1>6 DEF Solved
<1>8. D(Cardinality(S)) = SUBSET S
  BY FS_Subset
<1> DEFINE h == [T \in SUBSET S |-> g[T]]
<1>9. ASSUME NEW T \in SUBSET S
      PROVE  h[T] = Body(h, T)
  BY <1>2, <1>7, <1>8
<1>10. IsSum(h, f, S)
  <2>1. h = [T \in SUBSET S |-> h[T]]
    OBVIOUS
  <2> HIDE DEF h
  <2> QED
    BY <1>9, <2>1 DEF IsSum
<1> QED
  BY <1>10 DEF SumTable

(* The table of partial sums: what it holds for a subset of S. *)
LEMMA SumTableStep ==
    ASSUME NEW S, IsFiniteSet(S), NEW f, NEW T \in SUBSET S
    PROVE  SumTable(f, S)[T] =
               IF T = {} THEN 0 ELSE f[Pick(T)] + SumTable(f, S)[T \ {Pick(T)}]
<1> DEFINE g == SumTable(f, S)
<1>1. IsSum(g, f, S)
  BY SumExists
<1> HIDE DEF g
<1>2. g[T] = IF T = {} THEN 0 ELSE f[Pick(T)] + g[T \ {Pick(T)}]
  BY <1>1 DEF IsSum
<1> QED
  BY <1>2 DEF g

(* The empty sum. *)
LEMMA SumTableEmpty ==
    ASSUME NEW S, IsFiniteSet(S), NEW f
    PROVE  SumTable(f, S)[{}] = 0
<1>1. {} \in SUBSET S
  OBVIOUS
<1> QED
  BY <1>1, SumTableStep

(* SumFunction is the last entry of that table. *)
LEMMA SumFunctionTable ==
    ASSUME NEW f
    PROVE  SumFunction(f) = SumTable(f, DOMAIN f)[DOMAIN f]
BY DEF SumFunction, SumFunctionOnSet, FoldFunctionOnSet, MapThenFoldSet,
       SumTable, IsSum, Pick

(* Sums of integers are integers, sums of naturals are naturals. *)
LEMMA SumTableType ==
    ASSUME NEW S, IsFiniteSet(S), NEW V \in {Nat, Int}, NEW f \in [S -> V],
           NEW T \in SUBSET S
    PROVE  SumTable(f, S)[T] \in V
<1> DEFINE g == SumTable(f, S)
           Bad == {U \in SUBSET S : g[U] \notin V}
<1>1. \A U \in SUBSET S :
         g[U] = IF U = {} THEN 0 ELSE f[Pick(U)] + g[U \ {Pick(U)}]
  BY SumTableStep
<1> HIDE DEF g
<1>2. Bad = {}
  <2> SUFFICES ASSUME Bad # {}
               PROVE  FALSE
    OBVIOUS
  <2>0. Bad \in SUBSET (SUBSET S)
    OBVIOUS
  <2>1. PICK U \in Bad : \A W \in Bad : W \subseteq U => W = U
    <3> HIDE DEF Bad
    <3> QED
      BY <2>0, SubsetMin
  <2>2. U # {}
    <3>1. g[{}] = 0
      BY SumTableEmpty DEF g
    <3>2. 0 \in V
      <4>1. CASE V = Nat
        BY <4>1
      <4>2. CASE V = Int
        BY <4>2
      <4> QED
        BY <4>1, <4>2
    <3> QED
      BY <3>1, <3>2, <2>1
  <2>3. Pick(U) \in U
    BY <2>2 DEF Pick
  <2>4. U \ {Pick(U)} \in SUBSET S /\ U \ {Pick(U)} \notin Bad
    BY <2>1, <2>3
  <2>5. f[Pick(U)] \in V /\ g[U \ {Pick(U)}] \in V
    BY <2>3, <2>4
  <2>6. g[U] = f[Pick(U)] + g[U \ {Pick(U)}]
    BY <1>1, <2>2
  <2> QED
    BY <2>1, <2>5, <2>6
<1> QED
  BY <1>2 DEF g

(* The order of summation does not matter: any element may be taken out. *)
LEMMA SumTableRemove ==
    ASSUME NEW S, IsFiniteSet(S), NEW f \in [S -> Int],
           NEW T \in SUBSET S, NEW x \in T
    PROVE  SumTable(f, S)[T] = f[x] + SumTable(f, S)[T \ {x}]
<1> DEFINE g == SumTable(f, S)
           Good(U) == \A y \in U : g[U] = f[y] + g[U \ {y}]
           Bad == {U \in SUBSET S : ~ Good(U)}
<1>1. \A U \in SUBSET S :
         g[U] = IF U = {} THEN 0 ELSE f[Pick(U)] + g[U \ {Pick(U)}]
  BY SumTableStep
<1>2. \A U \in SUBSET S : g[U] \in Int
  BY SumTableType
<1> HIDE DEF g
<1>3. Bad = {}
  <2> SUFFICES ASSUME Bad # {}
               PROVE  FALSE
    OBVIOUS
  <2>0. Bad \in SUBSET (SUBSET S)
    OBVIOUS
  <2>1. PICK U \in Bad : \A W \in Bad : W \subseteq U => W = U
    <3> HIDE DEF Bad
    <3> QED
      BY <2>0, SubsetMin
  <2>2. PICK y \in U : g[U] # f[y] + g[U \ {y}]
    BY <2>1
  <2> DEFINE p == Pick(U)
  <2>3. p \in U
    BY <2>2 DEF Pick
  <2>4. g[U] = f[p] + g[U \ {p}]
    BY <1>1, <2>3
  <2> HIDE DEF p
  <2>5. y # p
    BY <2>2, <2>4
  <2>6. U \ {p} \in SUBSET S /\ U \ {y} \in SUBSET S
    OBVIOUS
  <2>7. Good(U \ {p}) /\ Good(U \ {y})
    <3>1. U \ {p} # U /\ U \ {y} # U
      BY <2>2, <2>3
    <3>2. U \ {p} \notin Bad /\ U \ {y} \notin Bad
      <4> HIDE DEF Bad
      <4> QED
        BY <2>1, <3>1
    <3> HIDE DEF Good
    <3> QED
      BY <2>6, <3>2
  <2>8. y \in U \ {p} /\ p \in U \ {y} /\ (U \ {p}) \ {y} = (U \ {y}) \ {p}
    BY <2>2, <2>3, <2>5
  <2>9. g[U \ {p}] = f[y] + g[(U \ {p}) \ {y}]
    BY <2>7, <2>8
  <2>10. g[U \ {y}] = f[p] + g[(U \ {p}) \ {y}]
    BY <2>7, <2>8
  <2>11. f[y] \in Int /\ f[p] \in Int /\ g[(U \ {p}) \ {y}] \in Int
    BY <1>2, <2>2, <2>3
  <2> QED
    BY <2>2, <2>4, <2>9, <2>10, <2>11
<1> QED
  BY <1>3 DEF g

-----------------------------------------------------------------------------

(* The sum of a function of naturals with a finite domain is a natural. *)
THEOREM SumType ==
    ASSUME NEW S, IsFiniteSet(S), NEW V \in {Nat, Int}, NEW f \in [S -> V]
    PROVE  SumFunction(f) \in V
<1>1. DOMAIN f = S /\ S \in SUBSET S
  OBVIOUS
<1> QED
  BY <1>1, SumFunctionTable, SumTableType

(* Sums are additive: they follow a pointwise sum of two functions. *)
THEOREM SumAdd ==
    ASSUME NEW S, IsFiniteSet(S),
           NEW f \in [S -> Int], NEW g \in [S -> Int], NEW h \in [S -> Int],
           \A x \in S : f[x] = g[x] + h[x]
    PROVE  SumFunction(f) = SumFunction(g) + SumFunction(h)
<1> DEFINE F == SumTable(f, S)
           G == SumTable(g, S)
           H == SumTable(h, S)
           Bad == {T \in SUBSET S : F[T] # G[T] + H[T]}
<1>0. IsSum(F, f, S) /\ IsSum(G, g, S) /\ IsSum(H, h, S)
  BY SumExists
<1>2. \A T \in SUBSET S : F[T] \in Int /\ G[T] \in Int /\ H[T] \in Int
  BY SumTableType
<1>3. /\ SumFunction(f) = F[S]
      /\ SumFunction(g) = G[S]
      /\ SumFunction(h) = H[S]
  <2>1. DOMAIN f = S /\ DOMAIN g = S /\ DOMAIN h = S
    OBVIOUS
  <2> QED
    BY <2>1, SumFunctionTable
<1> HIDE DEF F, G, H
<1>1. ASSUME NEW T \in SUBSET S, T # {}
      PROVE  /\ F[T] = f[Pick(T)] + F[T \ {Pick(T)}]
             /\ G[T] = g[Pick(T)] + G[T \ {Pick(T)}]
             /\ H[T] = h[Pick(T)] + H[T \ {Pick(T)}]
  BY <1>0, <1>1 DEF IsSum
<1>4. Bad = {}
  <2> SUFFICES ASSUME Bad # {}
               PROVE  FALSE
    OBVIOUS
  <2>0. Bad \in SUBSET (SUBSET S)
    OBVIOUS
  <2>1. PICK T \in Bad : \A W \in Bad : W \subseteq T => W = T
    <3> HIDE DEF Bad
    <3> QED
      BY <2>0, SubsetMin
  <2>2. T # {}
    <3>1. F[{}] = 0 /\ G[{}] = 0 /\ H[{}] = 0
      BY <1>0 DEF IsSum
    <3>2. {} \notin Bad
      BY <3>1
    <3> QED
      BY <3>2
  <2> DEFINE p == Pick(T)
  <2>3. p \in T
    BY <2>2 DEF Pick
  <2>4. F[T] = f[p] + F[T \ {p}] /\ G[T] = g[p] + G[T \ {p}] /\ H[T] = h[p] + H[T \ {p}]
    BY <1>1, <2>2
  <2> HIDE DEF p
  <2>5. T \ {p} \in SUBSET S /\ T \ {p} \notin Bad
    BY <2>1, <2>3
  <2>6. F[T \ {p}] = G[T \ {p}] + H[T \ {p}]
    BY <2>5
  <2>7. f[p] \in Int /\ g[p] \in Int /\ h[p] \in Int /\ f[p] = g[p] + h[p]
    BY <2>3
  <2> QED
    BY <1>2, <2>1, <2>4, <2>5, <2>6, <2>7
<1> QED
  BY <1>3, <1>4

(* A sum of zeros is zero. *)
THEOREM SumZero ==
    ASSUME NEW S, IsFiniteSet(S)
    PROVE  SumFunction([x \in S |-> 0]) = 0
<1> DEFINE z == [x \in S |-> 0]
<1>1. z \in [S -> Int] /\ \A x \in S : z[x] = z[x] + z[x]
  OBVIOUS
<1> HIDE DEF z
<1>2. SumFunction(z) \in Int /\ SumFunction(z) = SumFunction(z) + SumFunction(z)
  BY <1>1, SumAdd, SumType
<1>3. \A s \in Int : s = s + s => s = 0
  OBVIOUS
<1>4. SumFunction(z) = 0
  BY <1>2, <1>3, Zenon
<1> QED
  BY <1>4 DEF z

(* Changing one summand changes the sum by the same amount. *)
THEOREM SumExcept ==
    ASSUME NEW S, IsFiniteSet(S), NEW f \in [S -> Int],
           NEW x \in S, NEW v \in Int
    PROVE  SumFunction([f EXCEPT ![x] = v]) = SumFunction(f) - f[x] + v
<1> DEFINE d == [y \in S |-> IF y = x THEN v - f[x] ELSE 0]
           D == SumTable(d, S)
           e == [f EXCEPT ![x] = v]
<1>1. d \in [S -> Int] /\ e \in [S -> Int] /\ \A y \in S : e[y] = f[y] + d[y]
  OBVIOUS
<1>2. d[x] = v - f[x] /\ \A y \in S : y # x => d[y] = 0
  OBVIOUS
<1> HIDE DEF d, e
<1>3. \A T \in SUBSET S : D[T] \in Int
  BY <1>1, SumTableType
<1>4. \A T \in SUBSET S : D[T] = IF T = {} THEN 0 ELSE d[Pick(T)] + D[T \ {Pick(T)}]
  BY SumTableStep
<1>5. D[S] = d[x] + D[S \ {x}]
  <2>1. d \in [S -> Int]
    BY <1>1
  <2>2. \A T \in SUBSET S : \A y \in T :
            SumTable(d, S)[T] = d[y] + SumTable(d, S)[T \ {y}]
    BY <2>1, SumTableRemove
  <2>3. S \in SUBSET S
    OBVIOUS
  <2> QED
    BY <2>2, <2>3, Zenon
<1>6. SumFunction(d) = D[S]
  <2>1. DOMAIN d = S
    BY <1>1
  <2> QED
    BY <2>1, SumFunctionTable
<1> HIDE DEF D
<1> DEFINE Bad == {T \in SUBSET S : x \notin T /\ D[T] # 0}
<1>7. Bad = {}
  <2> SUFFICES ASSUME Bad # {}
               PROVE  FALSE
    OBVIOUS
  <2>0. Bad \in SUBSET (SUBSET S)
    OBVIOUS
  <2>1. PICK T \in Bad : \A W \in Bad : W \subseteq T => W = T
    <3> HIDE DEF Bad
    <3> QED
      BY <2>0, SubsetMin
  <2>2. T # {}
    BY <1>4, <2>1
  <2>3. Pick(T) \in T
    BY <2>2 DEF Pick
  <2>4. d[Pick(T)] = 0
    BY <1>2, <2>1, <2>3
  <2>5. T \ {Pick(T)} \in SUBSET S /\ T \ {Pick(T)} \notin Bad
    BY <2>1, <2>3
  <2>6. D[T \ {Pick(T)}] = 0
    BY <2>1, <2>5
  <2>7. D[T] = d[Pick(T)] + D[T \ {Pick(T)}]
    BY <1>4, <2>1, <2>2
  <2>8. D[T] = 0
    BY <2>4, <2>6, <2>7
  <2> QED
    BY <2>1, <2>8
<1>8. D[S \ {x}] = 0
  BY <1>7
<1>9. SumFunction(e) = SumFunction(f) + SumFunction(d)
  BY <1>1, SumAdd
<1>10. SumFunction(f) \in Int /\ f[x] \in Int
  BY SumType
<1>11. SumFunction(e) = SumFunction(f) - f[x] + v
  BY <1>2, <1>5, <1>6, <1>8, <1>9, <1>10
<1> QED
  BY <1>11 DEF e

-----------------------------------------------------------------------------
(* The invariant *)

\* What holds of one message m at time t, given the box and the counts of
\* its copies that were sent, consumed and cancelled.
SoundMessage(t, box, s, c, x, m) ==
    /\ s[m] = box[m].count + c[m] + x[m]
    /\ box[m].count > 0 => /\ box[m].fee = m.fee
                           /\ box[m].version = StoredVersion(m)
                           /\ box[m].deadline = m.deadline
    /\ x[m] > 0 => t > m.deadline

\* What holds of a contract state at time t: the current one and the ones that
\* the frames of withdrawals in progress would restore.
Sound(t, box, fees, eth, s, c, x) ==
    /\ box \in [Messages -> Entry]
    /\ fees \in [Accounts -> Nat]
    /\ eth \in Nat
    /\ s \in [Messages -> Nat]
    /\ c \in [Messages -> Nat]
    /\ x \in [Messages -> Nat]
    /\ eth = Liabilities(fees, box)
    /\ \A m \in Messages : SoundMessage(t, box, s, c, x, m)

SoundFrame(t, f) ==
    Sound(t, f.entries, f.feesAccrued, f.balance, f.sent, f.consumed, f.cancelled)

(* The inductive invariant: the current state and all frames are sound.      *)
(* Frames must be sound too because a failing withdrawal makes one current.  *)
IInv ==
    /\ now \in Nat
    /\ calls \in Seq(Storage)
    /\ Sound(now, entries, feesAccrued, balance, sent, consumed, cancelled)
    /\ \A i \in 1..Len(calls) : SoundFrame(now, calls[i])

-----------------------------------------------------------------------------

(* A key occurs a natural number of times in a batch, and not more often     *)
(* than CanConsumeAll has found copies of it.                                *)
LEMMA OccurrencesNat ==
    ASSUME NEW keys \in Batch, NEW m \in Messages
    PROVE  Occurrences(keys, m) \in Nat
<1>1. DOMAIN keys = 1..BatchSize
  BY DEF Batch
<1>2. IsFiniteSet(1..BatchSize)
  <2>1. 1 \in Int /\ BatchSize \in Int
    BY InboxAssumption
  <2> QED
    BY <2>1, FS_Interval, Zenon
<1>3. {i \in DOMAIN keys : keys[i] = m} \in SUBSET (1..BatchSize)
  BY <1>1
<1> QED
  BY <1>2, <1>3, FS_Subset, FS_CardinalityType DEF Occurrences

LEMMA OccurrencesBound ==
    ASSUME NEW keys \in Batch, NEW box \in [Messages -> Entry], CanConsumeAll(box, keys),
           NEW m \in Messages
    PROVE  Occurrences(keys, m) <= box[m].count
<1>1. CASE \E i \in DOMAIN keys : keys[i] = m
  BY <1>1, InboxAssumption DEF CanConsumeAll
<1>2. CASE ~ \E i \in DOMAIN keys : keys[i] = m
  <2>1. {i \in DOMAIN keys : keys[i] = m} = {}
    BY <1>2
  <2>2. Occurrences(keys, m) = 0
    BY <2>1, FS_EmptySet DEF Occurrences
  <2> QED
    BY <2>2, MaxCountAssumption DEF Entry
<1> QED
  BY <1>1, <1>2

(* A fee that passes the check of sendL2Message is not truncated. *)
LEMMA StoredFeeExact ==
    ASSUME NEW m \in Messages, m.fee <= MaxFee
    PROVE  StoredFee(m) = m.fee
BY InboxAssumption, RulesAssumption DEF StoredFee

LEMMA StoredVersionNat ==
    ASSUME NEW m \in Messages
    PROVE  StoredVersion(m) \in Nat
BY InboxAssumption, RulesAssumption DEF StoredVersion

(* The two sums of Liabilities are naturals. *)
LEMMA LiabilitiesNat ==
    ASSUME NEW fees \in [Accounts -> Nat], NEW box \in [Messages -> Entry]
    PROVE  /\ SumFunction(fees) \in Nat
           /\ SumFunction([m \in Messages |-> box[m].count * m.fee]) \in Nat
           /\ [m \in Messages |-> box[m].count * m.fee] \in [Messages -> Int]
<1>1. IsFiniteSet(Accounts) /\ IsFiniteSet(Messages)
  BY InboxAssumption
<1>2. \A a, b \in Nat : a * b \in Nat
  OBVIOUS
<1>3. ASSUME NEW m \in Messages
      PROVE  box[m].count * m.fee \in Nat
  <2>1. box[m].count \in Nat /\ m.fee \in Nat
    BY InboxAssumption, MaxCountAssumption DEF Entry
  <2> QED
    BY <1>2, <2>1
<1>4. [m \in Messages |-> box[m].count * m.fee] \in [Messages -> Nat]
  BY <1>3
<1>5. SumFunction(fees) \in Nat
  BY <1>1, SumType
<1>6. SumFunction([m \in Messages |-> box[m].count * m.fee]) \in Nat
  BY <1>1, <1>4, SumType
<1> QED
  BY <1>4, <1>5, <1>6

-----------------------------------------------------------------------------

(* The initial state is sound. *)
LEMMA InitSound == Init => IInv
<1> SUFFICES ASSUME Init
             PROVE  IInv
  OBVIOUS
<1> USE DEF Init
<1>1. entries \in [Messages -> Entry] /\ feesAccrued \in [Accounts -> Nat]
  BY MaxCountAssumption DEF EmptyEntry, Entry
<1>2. [m \in Messages |-> entries[m].count * m.fee] = [m \in Messages |-> 0]
  BY InboxAssumption DEF EmptyEntry
<1>3. balance = Liabilities(feesAccrued, entries)
  <2>1. SumFunction(feesAccrued) = 0
    BY InboxAssumption, SumZero
  <2>2. SumFunction([m \in Messages |-> 0]) = 0
    BY InboxAssumption, SumZero
  <2> QED
    BY <1>2, <2>1, <2>2 DEF Liabilities
<1>4. Sound(now, entries, feesAccrued, balance, sent, consumed, cancelled)
  BY <1>1, <1>3 DEF Sound, SoundMessage, EmptyEntry
<1> QED
  BY <1>4 DEF IInv

(* sendL2Message preserves soundness: the deposit matches the new copy. *)
LEMMA SendSound ==
    ASSUME NEW m \in Messages, IInv, SendL2Message(m)
    PROVE  IInv'
<1> DEFINE due(box) == [k \in Messages |-> box[k].count * k.fee]
<1>1. /\ now' = now /\ calls' = calls /\ feesAccrued' = feesAccrued
      /\ consumed' = consumed /\ cancelled' = cancelled
      /\ balance' = balance + m.fee
      /\ sent' = [sent EXCEPT ![m] = @ + 1]
      /\ m.fee <= MaxFee /\ m.deadline > now
      /\ entries[m].count + 1 <= MaxCount
      /\ entries' = [entries EXCEPT ![m] = [fee |-> m.fee, count |-> entries[m].count + 1,
                         version |-> StoredVersion(m), deadline |-> m.deadline]]
  BY StoredFeeExact DEF SendL2Message, CanSend, CanInsert, Deposit, Insert
<1>2. entries \in [Messages -> Entry] /\ feesAccrued \in [Accounts -> Nat]
  BY DEF IInv, Sound
<1>3. entries' \in [Messages -> Entry]
  <2>1. entries[m].count \in Nat /\ m.fee \in Nat /\ m.deadline \in Nat
    BY <1>2, InboxAssumption, MaxCountAssumption DEF Entry
  <2> QED
    BY <1>1, <1>2, <2>1, StoredVersionNat, MaxCountAssumption DEF Entry
<1>4. SumFunction(due(entries')) = SumFunction(due(entries)) + m.fee
  <2>1. due(entries') = [due(entries) EXCEPT ![m] = (entries[m].count + 1) * m.fee]
    BY <1>1, <1>2
  <2>2. entries[m].count \in Int /\ m.fee \in Int
    BY <1>2, InboxAssumption, MaxCountAssumption DEF Entry
  <2>3. \A a, b \in Int : (a + 1) * b = a * b + b /\ a * b \in Int
    OBVIOUS
  <2>4. (entries[m].count + 1) * m.fee = entries[m].count * m.fee + m.fee
        /\ entries[m].count * m.fee \in Int
    BY <2>2, <2>3
  <2>5. due(entries)[m] = entries[m].count * m.fee
    OBVIOUS
  <2>6. IsFiniteSet(Messages) /\ due(entries) \in [Messages -> Int]
        /\ SumFunction(due(entries)) \in Int
    BY <1>2, InboxAssumption, LiabilitiesNat
  <2> HIDE DEF due
  <2> DEFINE v == (entries[m].count + 1) * m.fee
  <2>7. v \in Int
    BY <2>2, <2>4
  <2> HIDE DEF v
  <2>8. SumFunction([due(entries) EXCEPT ![m] = v]) = SumFunction(due(entries)) - due(entries)[m] + v
    BY <2>6, <2>7, SumExcept
  <2> QED
    BY <2>1, <2>2, <2>4, <2>5, <2>6, <2>8 DEF v
<1>5. balance' = Liabilities(feesAccrued', entries') /\ balance' \in Nat
  <2>1. balance \in Nat /\ balance = Liabilities(feesAccrued, entries) /\ m.fee \in Nat
    BY InboxAssumption DEF IInv, Sound
  <2>2. SumFunction(feesAccrued) \in Nat /\ SumFunction(due(entries)) \in Nat
    BY <1>2, LiabilitiesNat
  <2> HIDE DEF due
  <2>3. /\ Liabilities(feesAccrued, entries) = SumFunction(feesAccrued) + SumFunction(due(entries))
        /\ Liabilities(feesAccrued', entries') = SumFunction(feesAccrued') + SumFunction(due(entries'))
    BY DEF Liabilities, due
  <2> QED
    BY <1>1, <1>4, <2>1, <2>2, <2>3
<1>6. ASSUME NEW k \in Messages
      PROVE  SoundMessage(now, entries, sent, consumed, cancelled, k)'
  <2>1. SoundMessage(now, entries, sent, consumed, cancelled, k)
    BY DEF IInv, Sound
  <2>2. CASE k = m
    <3>1. /\ entries'[m] = [fee |-> m.fee, count |-> entries[m].count + 1,
                            version |-> StoredVersion(m), deadline |-> m.deadline]
          /\ sent'[m] = sent[m] + 1
      BY <1>1, <1>2 DEF IInv, Sound
    <3>2. entries[m].count \in Nat /\ sent[m] \in Nat /\ consumed[m] \in Nat /\ cancelled[m] \in Nat
      BY <1>2, MaxCountAssumption DEF IInv, Sound, Entry
    <3> QED
      BY <1>1, <2>1, <2>2, <3>1, <3>2 DEF SoundMessage
  <2>3. CASE k # m
    <3>1. entries'[k] = entries[k] /\ sent'[k] = sent[k]
      BY <1>1, <1>2, <2>3 DEF IInv, Sound
    <3> QED
      BY <1>1, <2>1, <3>1 DEF SoundMessage
  <2> QED
    BY <2>2, <2>3
<1>7. Sound(now, entries, feesAccrued, balance, sent, consumed, cancelled)'
  <2>1. /\ feesAccrued' \in [Accounts -> Nat] /\ sent' \in [Messages -> Nat]
        /\ consumed' \in [Messages -> Nat] /\ cancelled' \in [Messages -> Nat]
    BY <1>1 DEF IInv, Sound
  <2> QED
    BY <1>3, <1>5, <1>6, <2>1 DEF Sound
<1> QED
  BY <1>1, <1>7 DEF IInv

(* cancelL2Message preserves soundness: the fee of the copy that leaves the  *)
(* box is credited, so the liabilities do not change.                        *)
LEMMA CancelSound ==
    ASSUME NEW m \in Messages, NEW a \in Accounts, IInv, CancelL2Message(m, a)
    PROVE  IInv'
<1> DEFINE due(box) == [k \in Messages |-> box[k].count * k.fee]
<1>1. /\ now' = now /\ calls' = calls /\ balance' = balance
      /\ sent' = sent /\ consumed' = consumed
      /\ now > m.deadline /\ entries[m].count > 0
      /\ entries' = [entries EXCEPT ![m].count = @ - 1]
      /\ feesAccrued' = [feesAccrued EXCEPT ![a] = @ + m.fee]
      /\ cancelled' = [cancelled EXCEPT ![m] = @ + 1]
  BY DEF CancelL2Message, PastDeadline, Contains
<1>2. /\ entries \in [Messages -> Entry] /\ feesAccrued \in [Accounts -> Nat]
      /\ SoundMessage(now, entries, sent, consumed, cancelled, m)
  BY DEF IInv, Sound
<1>3. /\ entries[m].count \in Nat /\ entries[m].count - 1 \in 0..MaxCount
      /\ m.fee \in Nat
  BY <1>1, <1>2, InboxAssumption, MaxCountAssumption DEF Entry
<1>5. entries' \in [Messages -> Entry] /\ feesAccrued' \in [Accounts -> Nat]
  BY <1>1, <1>2, <1>3 DEF Entry
<1>6. SumFunction(due(entries')) = SumFunction(due(entries)) - m.fee
  <2>1. due(entries') = [due(entries) EXCEPT ![m] = (entries[m].count - 1) * m.fee]
    BY <1>1, <1>2 DEF Entry
  <2>2. \A p, q \in Int : (p - 1) * q = p * q - q /\ p * q \in Int
    OBVIOUS
  <2>3. (entries[m].count - 1) * m.fee = entries[m].count * m.fee - m.fee
        /\ entries[m].count * m.fee \in Int
    BY <1>3, <2>2
  <2>4. due(entries)[m] = entries[m].count * m.fee
    OBVIOUS
  <2>5. IsFiniteSet(Messages) /\ due(entries) \in [Messages -> Int]
        /\ SumFunction(due(entries)) \in Int
    BY <1>2, InboxAssumption, LiabilitiesNat
  <2> HIDE DEF due
  <2> DEFINE v == (entries[m].count - 1) * m.fee
  <2>6. v \in Int
    BY <1>3, <2>3
  <2> HIDE DEF v
  <2>7. SumFunction([due(entries) EXCEPT ![m] = v]) = SumFunction(due(entries)) - due(entries)[m] + v
    BY <2>5, <2>6, SumExcept
  <2> QED
    BY <1>3, <2>1, <2>3, <2>4, <2>5, <2>7 DEF v
<1>7. SumFunction(feesAccrued') = SumFunction(feesAccrued) + m.fee
  <2> DEFINE v == feesAccrued[a] + m.fee
  <2>1. /\ feesAccrued \in [Accounts -> Int] /\ feesAccrued[a] \in Int
        /\ v \in Int /\ IsFiniteSet(Accounts)
    BY <1>2, <1>3, InboxAssumption
  <2>5. SumFunction(feesAccrued) \in Int
    BY <2>1, SumType
  <2>2. feesAccrued' = [feesAccrued EXCEPT ![a] = v]
    BY <1>1
  <2>3. v - feesAccrued[a] = m.fee
    BY <1>3, <2>1
  <2> HIDE DEF v
  <2>4. SumFunction([feesAccrued EXCEPT ![a] = v]) = SumFunction(feesAccrued) - feesAccrued[a] + v
    BY <2>1, SumExcept
  <2> QED
    BY <1>3, <2>1, <2>2, <2>3, <2>4, <2>5
<1>8. balance' = Liabilities(feesAccrued', entries')
  <2>1. balance = Liabilities(feesAccrued, entries)
    BY DEF IInv, Sound
  <2>2. SumFunction(feesAccrued) \in Nat /\ SumFunction(due(entries)) \in Nat
    BY <1>2, LiabilitiesNat
  <2> HIDE DEF due
  <2>3. /\ Liabilities(feesAccrued, entries) = SumFunction(feesAccrued) + SumFunction(due(entries))
        /\ Liabilities(feesAccrued', entries') = SumFunction(feesAccrued') + SumFunction(due(entries'))
    BY DEF Liabilities, due
  <2> QED
    BY <1>1, <1>3, <1>6, <1>7, <2>1, <2>2, <2>3
<1>9. ASSUME NEW k \in Messages
      PROVE  SoundMessage(now, entries, sent, consumed, cancelled, k)'
  <2>1. SoundMessage(now, entries, sent, consumed, cancelled, k)
    BY DEF IInv, Sound
  <2>2. CASE k = m
    <3>1. /\ entries'[m] = [entries[m] EXCEPT !.count = @ - 1]
          /\ cancelled'[m] = cancelled[m] + 1
      BY <1>1, <1>2 DEF IInv, Sound
    <3>2. sent[m] \in Nat /\ consumed[m] \in Nat /\ cancelled[m] \in Nat
      BY DEF IInv, Sound
    <3> QED
      BY <1>1, <1>2, <1>3, <2>1, <2>2, <3>1, <3>2 DEF SoundMessage, Entry
  <2>3. CASE k # m
    <3>1. entries'[k] = entries[k] /\ cancelled'[k] = cancelled[k]
      BY <1>1, <1>2, <2>3 DEF IInv, Sound
    <3> QED
      BY <1>1, <2>1, <3>1 DEF SoundMessage
  <2> QED
    BY <2>2, <2>3
<1>10. Sound(now, entries, feesAccrued, balance, sent, consumed, cancelled)'
  <2>1. /\ balance' \in Nat /\ sent' \in [Messages -> Nat]
        /\ consumed' \in [Messages -> Nat] /\ cancelled' \in [Messages -> Nat]
    BY <1>1 DEF IInv, Sound
  <2> QED
    BY <1>5, <1>8, <1>9, <2>1 DEF Sound
<1> QED
  BY <1>1, <1>10 DEF IInv

(* batchConsume preserves soundness: what the consumed copies were worth is  *)
(* the total fee credited to the collector.                                  *)
LEMMA BatchSound ==
    ASSUME NEW keys \in Batch, NEW version \in Versions, NEW a \in Accounts,
           IInv, BatchConsume(keys, version, a)
    PROVE  IInv'
<1> DEFINE due(box) == [k \in Messages |-> box[k].count * k.fee]
           paid == [k \in Messages |-> Occurrences(keys, k) * entries[k].fee]
<1>1. /\ now' = now /\ calls' = calls /\ balance' = balance
      /\ sent' = sent /\ cancelled' = cancelled
      /\ CanConsumeAll(entries, keys)
      /\ entries' = ConsumeAll(entries, keys)
      /\ feesAccrued' = [feesAccrued EXCEPT ![a] = @ + SumFunction(paid)]
      /\ consumed' = [k \in Messages |-> consumed[k] + Occurrences(keys, k)]
  BY DEF BatchConsume, CanBatchConsume, TotalFee
<1>2. /\ entries \in [Messages -> Entry] /\ feesAccrued \in [Accounts -> Nat]
      /\ \A k \in Messages : SoundMessage(now, entries, sent, consumed, cancelled, k)
  BY DEF IInv, Sound
<1>3. ASSUME NEW k \in Messages
      PROVE  /\ Occurrences(keys, k) \in Nat
             /\ Occurrences(keys, k) <= entries[k].count
             /\ entries[k].count \in Nat /\ entries[k].fee \in Nat /\ k.fee \in Nat
  <2>1. entries[k].count \in Nat /\ entries[k].fee \in Nat /\ k.fee \in Nat
    BY <1>2, InboxAssumption, MaxCountAssumption DEF Entry
  <2> QED
    BY <1>1, <1>2, <2>1, OccurrencesNat, OccurrencesBound
<1>4. ASSUME NEW k \in Messages
      PROVE  /\ entries'[k].fee = entries[k].fee
             /\ entries'[k].version = entries[k].version
             /\ entries'[k].deadline = entries[k].deadline
             /\ entries'[k].count = entries[k].count - Occurrences(keys, k)
             /\ entries'[k] \in Entry
  <2>1. entries'[k] = [entries[k] EXCEPT !.count = entries[k].count - Occurrences(keys, k)]
    BY <1>1, <1>2 DEF ConsumeAll
  <2>2. entries[k] \in Entry
    BY <1>2
  <2>3. entries[k].count - Occurrences(keys, k) \in 0..MaxCount
    BY <1>3, <2>2, MaxCountAssumption DEF Entry
  <2> DEFINE n == entries[k].count - Occurrences(keys, k)
  <2> HIDE DEF n
  <2>4. entries'[k] = [entries[k] EXCEPT !.count = n]
    BY <2>1 DEF n
  <2>5. /\ entries'[k].fee = entries[k].fee
        /\ entries'[k].version = entries[k].version
        /\ entries'[k].deadline = entries[k].deadline
        /\ entries'[k].count = n
        /\ entries'[k] \in Entry
    BY <2>2, <2>3, <2>4 DEF Entry, n
  <2> QED
    BY <2>5 DEF n
<1>5. entries' \in [Messages -> Entry]
  <2>1. entries' = [k \in Messages |-> entries'[k]]
    BY <1>1, <1>2 DEF ConsumeAll
  <2> QED
    BY <1>4, <2>1
<1>6. paid \in [Messages -> Nat]
  <2>1. \A p, q \in Nat : p * q \in Nat
    OBVIOUS
  <2> QED
    BY <1>3, <2>1
<1>7. SumFunction(paid) \in Nat
  BY <1>6, InboxAssumption, SumType
<1>8. feesAccrued' \in [Accounts -> Nat]
  BY <1>1, <1>2, <1>7
<1>9. SumFunction(due(entries)) = SumFunction(due(entries')) + SumFunction(paid)
  <2>1. ASSUME NEW k \in Messages
        PROVE  due(entries)[k] = due(entries')[k] + paid[k]
    <3>1. due(entries')[k] = (entries[k].count - Occurrences(keys, k)) * k.fee
      BY <1>4
    <3>2. \A p, q, r \in Int : p * r = (p - q) * r + q * r
      OBVIOUS
    <3>3. CASE Occurrences(keys, k) = 0
      <4>1. \A p, r \in Int : p * r = (p - 0) * r + 0 * 1 /\ 0 * p = 0
        OBVIOUS
      <4> QED
        BY <1>3, <3>1, <3>3, <4>1
    <3>4. CASE Occurrences(keys, k) # 0
      <4>1. entries[k].count > 0
        BY <1>3, <3>4
      <4>2. entries[k].fee = k.fee
        BY <1>2, <4>1 DEF SoundMessage
      <4> QED
        BY <1>3, <3>1, <3>2, <4>2
    <3> QED
      BY <3>3, <3>4
  <2>2. /\ IsFiniteSet(Messages) /\ due(entries) \in [Messages -> Int]
        /\ due(entries') \in [Messages -> Int] /\ paid \in [Messages -> Int]
    <3>1. due(entries) \in [Messages -> Int]
      BY <1>2, LiabilitiesNat
    <3>2. due(entries') \in [Messages -> Int]
      BY <1>2, <1>5, LiabilitiesNat
    <3>3. paid \in [Messages -> Int]
      BY <1>6
    <3> QED
      BY <3>1, <3>2, <3>3, InboxAssumption
  <2> HIDE DEF due, paid
  <2> QED
    BY <2>1, <2>2, SumAdd
<1>10. SumFunction(feesAccrued') = SumFunction(feesAccrued) + SumFunction(paid)
  <2> DEFINE v == feesAccrued[a] + SumFunction(paid)
  <2> HIDE DEF paid
  <2>1. /\ feesAccrued \in [Accounts -> Int] /\ feesAccrued[a] \in Int
        /\ v \in Int /\ IsFiniteSet(Accounts) /\ SumFunction(paid) \in Int
    BY <1>2, <1>7, InboxAssumption
  <2>2. SumFunction(feesAccrued) \in Int
    BY <2>1, SumType
  <2>3. feesAccrued' = [feesAccrued EXCEPT ![a] = v]
    BY <1>1 DEF paid
  <2>4. v - feesAccrued[a] = SumFunction(paid)
    BY <2>1
  <2> HIDE DEF v
  <2>5. SumFunction([feesAccrued EXCEPT ![a] = v]) = SumFunction(feesAccrued) - feesAccrued[a] + v
    BY <2>1, SumExcept
  <2> QED
    BY <2>1, <2>2, <2>3, <2>4, <2>5
<1>11. balance' = Liabilities(feesAccrued', entries')
  <2>1. balance = Liabilities(feesAccrued, entries)
    BY DEF IInv, Sound
  <2>2. /\ SumFunction(feesAccrued) \in Nat /\ SumFunction(due(entries)) \in Nat
        /\ SumFunction(due(entries')) \in Nat
    BY <1>2, <1>5, LiabilitiesNat
  <2> HIDE DEF due, paid
  <2>3. /\ Liabilities(feesAccrued, entries) = SumFunction(feesAccrued) + SumFunction(due(entries))
        /\ Liabilities(feesAccrued', entries') = SumFunction(feesAccrued') + SumFunction(due(entries'))
    BY DEF Liabilities, due
  <2> QED
    BY <1>1, <1>7, <1>9, <1>10, <2>1, <2>2, <2>3
<1>12. ASSUME NEW k \in Messages
       PROVE  SoundMessage(now, entries, sent, consumed, cancelled, k)'
  <2>1. SoundMessage(now, entries, sent, consumed, cancelled, k)
    BY <1>2
  <2>2. consumed'[k] = consumed[k] + Occurrences(keys, k)
    BY <1>1
  <2>3. sent[k] \in Nat /\ consumed[k] \in Nat /\ cancelled[k] \in Nat
    BY DEF IInv, Sound
  <2>4. now' = now /\ sent' = sent /\ cancelled' = cancelled
    BY <1>1
  <2>5. /\ sent[k] = entries'[k].count + consumed'[k] + cancelled[k]
        /\ entries'[k].count > 0 => entries[k].count > 0
    <3>1. /\ entries'[k].count = entries[k].count - Occurrences(keys, k)
          /\ Occurrences(keys, k) \in Nat /\ entries[k].count \in Nat
      BY <1>3, <1>4
    <3>2. sent[k] = entries[k].count + consumed[k] + cancelled[k]
      BY <2>1 DEF SoundMessage
    <3>3. \A n, c, x, o \in Nat :
              n + c + x = (n - o) + (c + o) + x /\ (n - o > 0 => n > 0)
      OBVIOUS
    <3> QED
      BY <2>2, <2>3, <3>1, <3>2, <3>3
  <2> QED
    BY <1>4, <2>1, <2>4, <2>5 DEF SoundMessage
<1>13. Sound(now, entries, feesAccrued, balance, sent, consumed, cancelled)'
  <2>1. consumed' \in [Messages -> Nat]
    <3>1. \A k \in Messages : consumed[k] \in Nat
      BY DEF IInv, Sound
    <3> QED
      BY <1>1, <1>3, <3>1
  <2>2. /\ balance' \in Nat /\ sent' \in [Messages -> Nat] /\ cancelled' \in [Messages -> Nat]
    BY <1>1 DEF IInv, Sound
  <2> QED
    BY <1>5, <1>8, <1>11, <1>12, <2>1, <2>2 DEF Sound
<1> QED
  BY <1>1, <1>13 DEF IInv

(* withdrawFees up to the external call: the credit is gone before the       *)
(* ether leaves, so the state the recipient can call back into is sound, and *)
(* the frame pushed is the sound state before.                               *)
LEMMA WithdrawSound ==
    ASSUME NEW a \in Accounts, IInv, WithdrawFees(a)
    PROVE  IInv'
<1> DEFINE due(box) == [k \in Messages |-> box[k].count * k.fee]
<1>1. /\ now' = now /\ entries' = entries /\ sent' = sent
      /\ consumed' = consumed /\ cancelled' = cancelled
      /\ feesAccrued[a] <= balance
      /\ calls' = Append(calls, Snapshot)
      /\ feesAccrued' = [feesAccrued EXCEPT ![a] = 0]
      /\ balance' = balance - feesAccrued[a]
  BY DEF WithdrawFees
<1>2. /\ entries \in [Messages -> Entry] /\ feesAccrued \in [Accounts -> Nat]
      /\ balance \in Nat /\ feesAccrued[a] \in Nat
      /\ \A k \in Messages : SoundMessage(now, entries, sent, consumed, cancelled, k)
  BY DEF IInv, Sound
<1>3. feesAccrued' \in [Accounts -> Nat] /\ balance' \in Nat
  BY <1>1, <1>2
<1>4. SumFunction(feesAccrued') = SumFunction(feesAccrued) - feesAccrued[a]
  <2>1. /\ feesAccrued \in [Accounts -> Int] /\ 0 \in Int /\ IsFiniteSet(Accounts)
    BY <1>2, InboxAssumption
  <2>2. SumFunction(feesAccrued) \in Int
    BY <2>1, SumType
  <2>3. SumFunction([feesAccrued EXCEPT ![a] = 0]) = SumFunction(feesAccrued) - feesAccrued[a] + 0
    BY <2>1, SumExcept
  <2> QED
    BY <1>1, <1>2, <2>2, <2>3
<1>5. balance' = Liabilities(feesAccrued', entries')
  <2>1. balance = Liabilities(feesAccrued, entries)
    BY DEF IInv, Sound
  <2>2. /\ SumFunction(feesAccrued) \in Nat /\ SumFunction(due(entries)) \in Nat
    BY <1>2, LiabilitiesNat
  <2> HIDE DEF due
  <2>3. /\ Liabilities(feesAccrued, entries) = SumFunction(feesAccrued) + SumFunction(due(entries))
        /\ Liabilities(feesAccrued', entries') = SumFunction(feesAccrued') + SumFunction(due(entries))
    BY <1>1 DEF Liabilities, due
  <2> QED
    BY <1>1, <1>2, <1>4, <2>1, <2>2, <2>3
<1>6. Sound(now, entries, feesAccrued, balance, sent, consumed, cancelled)'
  <2>1. \A k \in Messages : SoundMessage(now, entries, sent, consumed, cancelled, k)'
    BY <1>1, <1>2
  <2>2. /\ sent' \in [Messages -> Nat] /\ consumed' \in [Messages -> Nat]
        /\ cancelled' \in [Messages -> Nat] /\ entries' \in [Messages -> Entry]
    BY <1>1 DEF IInv, Sound
  <2> QED
    BY <1>3, <1>5, <2>1, <2>2 DEF Sound
<1>7. Snapshot \in Storage
  BY DEF Snapshot, Storage, IInv, Sound
<1>8. SoundFrame(now, Snapshot)
  BY DEF IInv, SoundFrame, Snapshot
<1>9. calls' \in Seq(Storage) /\ \A i \in 1..Len(calls') : SoundFrame(now, calls'[i])
  <2>1. calls \in Seq(Storage) /\ \A i \in 1..Len(calls) : SoundFrame(now, calls[i])
    BY DEF IInv
  <2> DEFINE f == Snapshot
  <2> HIDE DEF f
  <2>2. f \in Storage /\ SoundFrame(now, f) /\ calls' = Append(calls, f)
    BY <1>1, <1>7, <1>8 DEF f
  <2>3. calls' \in Seq(Storage) /\ Len(calls') = Len(calls) + 1
        /\ \A i \in 1..Len(calls') : calls'[i] = IF i <= Len(calls) THEN calls[i] ELSE f
    BY <2>1, <2>2
  <2>4. ASSUME NEW i \in 1..Len(calls')
        PROVE  SoundFrame(now, calls'[i])
    <3>1. CASE i <= Len(calls)
      <4>1. i \in 1..Len(calls)
        BY <2>1, <2>3, <3>1
      <4> QED
        BY <2>1, <2>3, <3>1, <4>1
    <3>2. CASE ~ (i <= Len(calls))
      BY <2>2, <2>3, <3>2
    <3> QED
      BY <3>1, <3>2
  <2> QED
    BY <2>3, <2>4
<1> QED
  BY <1>1, <1>6, <1>9 DEF IInv

(* The frames left when the innermost withdrawal ends are sound. *)
LEMMA FramesSound ==
    ASSUME IInv, calls # <<>>, now' = now, calls' = SubSeq(calls, 1, Len(calls) - 1)
    PROVE  /\ calls' \in Seq(Storage)
           /\ Len(calls') = Len(calls) - 1
           /\ \A i \in 1..Len(calls') : /\ i \in 1..Len(calls)
                                         /\ calls'[i] = calls[i]
                                         /\ SoundFrame(now, calls'[i])
<1>1. calls \in Seq(Storage) /\ \A i \in 1..Len(calls) : SoundFrame(now, calls[i])
  BY DEF IInv
<1>2. /\ calls' \in Seq(Storage) /\ Len(calls') = Len(calls) - 1 /\ Len(calls) \in Nat
      /\ \A i \in 1..Len(calls') : i \in 1..Len(calls) /\ calls'[i] = calls[i]
  <2>1. Len(calls) \in Nat \ {0}
    BY <1>1
  <2> DEFINE n == Len(calls) - 1
  <2>2. n \in Int /\ 1 \in Int
    BY <2>1
  <2>3. \A i \in 1..n : i \in 1..Len(calls) /\ calls[i] \in Storage
    BY <1>1, <2>1
  <2> HIDE DEF n
  <2>4. /\ SubSeq(calls, 1, n) \in Seq(Storage)
        /\ Len(SubSeq(calls, 1, n)) = IF 1 <= n THEN n - 1 + 1 ELSE 0
        /\ \A i \in 1..(n - 1 + 1) : SubSeq(calls, 1, n)[i] = calls[1 + i - 1]
    BY <2>2, <2>3, SubSeqProperties
  <2>5. calls' = SubSeq(calls, 1, n) /\ n \in Nat
    BY <2>1 DEF n
  <2>6. Len(calls') = n
    BY <2>4, <2>5
  <2>7. \A i \in 1..n : calls'[i] = calls[i]
    <3>1. \A i \in 1..n : 1 + i - 1 = i /\ i \in 1..(n - 1 + 1)
      BY <2>2
    <3> QED
      BY <2>4, <2>5, <3>1
  <2> QED
    BY <2>1, <2>3, <2>4, <2>5, <2>6, <2>7 DEF n
<1> QED
  BY <1>1, <1>2

(* A withdrawal that returns keeps the sound current state, one that fails   *)
(* makes the sound state of its frame current.                               *)
LEMMA ReturnSound ==
    ASSUME IInv, WithdrawReturn \/ WithdrawRevert
    PROVE  IInv'
<1>1. calls # <<>> /\ now' = now /\ calls' = SubSeq(calls, 1, Len(calls) - 1)
  BY DEF WithdrawReturn, WithdrawRevert
<1>2. /\ calls' \in Seq(Storage)
      /\ \A i \in 1..Len(calls') : SoundFrame(now, calls'[i])
  BY <1>1, FramesSound
<1>3. Sound(now, entries, feesAccrued, balance, sent, consumed, cancelled)'
  <2>1. CASE WithdrawReturn
    BY <2>1 DEF WithdrawReturn, IInv
  <2>2. CASE WithdrawRevert
    <3>1. calls \in Seq(Storage) /\ Len(calls) \in 1..Len(calls)
      BY <1>1 DEF IInv
    <3>2. SoundFrame(now, calls[Len(calls)])
      BY <3>1 DEF IInv
    <3> QED
      BY <1>1, <2>2, <3>2 DEF WithdrawRevert, SoundFrame
  <2> QED
    BY <2>1, <2>2
<1> QED
  BY <1>1, <1>2, <1>3 DEF IInv

(* Time passes only between transactions, and a cancelled message stays      *)
(* expired.                                                                  *)
LEMMA TickSound ==
    ASSUME IInv, Tick
    PROVE  IInv'
<1>1. /\ now' = now + 1 /\ calls = <<>> /\ calls' = calls /\ entries' = entries
      /\ feesAccrued' = feesAccrued /\ balance' = balance /\ sent' = sent
      /\ consumed' = consumed /\ cancelled' = cancelled /\ now \in Nat
  BY DEF Tick, IInv
<1>2. \A k \in Messages : SoundMessage(now, entries, sent, consumed, cancelled, k)'
  <2> SUFFICES ASSUME NEW k \in Messages
               PROVE  SoundMessage(now, entries, sent, consumed, cancelled, k)'
    OBVIOUS
  <2>1. SoundMessage(now, entries, sent, consumed, cancelled, k)
    BY DEF IInv, Sound
  <2>2. k.deadline \in Nat
    BY InboxAssumption
  <2> QED
    BY <1>1, <2>1, <2>2 DEF SoundMessage
<1>3. Sound(now, entries, feesAccrued, balance, sent, consumed, cancelled)'
  BY <1>1, <1>2 DEF IInv, Sound
<1>4. now' \in Nat /\ calls' \in Seq(Storage) /\ Len(calls') = 0
  BY <1>1 DEF IInv
<1> QED
  BY <1>3, <1>4 DEF IInv

-----------------------------------------------------------------------------

(* The invariant is inductive: one step per operation of the contract. *)
THEOREM Inductive == Spec => []IInv
<1>1. Init => IInv
  BY InitSound
<1>2. IInv /\ [Next]_vars => IInv'
  <2> SUFFICES ASSUME IInv, [Next]_vars
               PROVE  IInv'
    OBVIOUS
  <2>1. ASSUME NEW m \in Messages, SendL2Message(m)
        PROVE  IInv'
    BY <2>1, SendSound
  <2>2. ASSUME NEW m \in Messages, NEW a \in Accounts, CancelL2Message(m, a)
        PROVE  IInv'
    BY <2>2, CancelSound
  <2>3. ASSUME NEW keys \in Batch, NEW version \in Versions, NEW a \in Accounts,
               BatchConsume(keys, version, a)
        PROVE  IInv'
    BY <2>3, BatchSound
  <2>4. ASSUME NEW a \in Accounts, WithdrawFees(a)
        PROVE  IInv'
    BY <2>4, WithdrawSound
  <2>5. CASE WithdrawReturn
    BY <2>5, ReturnSound
  <2>6. CASE WithdrawRevert
    BY <2>6, ReturnSound
  <2>7. CASE Tick
    BY <2>7, TickSound
  <2>8. CASE UNCHANGED vars
    BY <2>8 DEF vars, IInv
  <2> QED
    BY <2>1, <2>2, <2>3, <2>4, <2>5, <2>6, <2>7, <2>8 DEF Next
<1> QED
  BY <1>1, <1>2, PTL DEF Spec

(* Type correctness of the Inbox, for every value of the constants: counts   *)
(* stay within their width, ether and credits are never negative.            *)
THEOREM TypeCorrect == Spec => []TypeOK
<1>1. IInv => TypeOK
  BY DEF IInv, Sound, TypeOK
<1> QED
  BY <1>1, Inductive, PTL

(* The Inbox is solvent in every reachable state, re-entrant calls and       *)
(* reverted withdrawals included, for every value of the constants.          *)
THEOREM AlwaysSolvent == Spec => []Solvency
<1>1. IInv => Solvency
  <2> SUFFICES ASSUME IInv
               PROVE  Solvency
    OBVIOUS
  <2>1. balance = Liabilities(feesAccrued, entries)
    BY DEF IInv, Sound
  <2>2. DOMAIN calls = 1..Len(calls)
    BY DEF IInv
  <2>3. ASSUME NEW i \in DOMAIN calls
        PROVE  calls[i].balance = Liabilities(calls[i].feesAccrued, calls[i].entries)
    BY <2>2 DEF IInv, SoundFrame, Sound
  <2> QED
    BY <2>1, <2>3 DEF Solvency
<1> QED
  BY <1>1, Inductive, PTL

(* Every copy sent is pending, consumed or cancelled, exactly one of them. *)
THEOREM CopiesConserved == Spec => []EachCopyOnce
<1>1. IInv => EachCopyOnce
  BY DEF IInv, Sound, SoundMessage, EachCopyOnce
<1> QED
  BY <1>1, Inductive, PTL

(* A pending message can be consumed up to its deadline and cancelled after  *)
(* it, never both and never neither.                                         *)
THEOREM OneExit == Spec => []ExactlyOneExit
<1>1. IInv => ExactlyOneExit
  <2> SUFFICES ASSUME IInv, NEW m \in Messages, Contains(entries, m)
               PROVE  Consumable(entries, now, m, StoredVersion(m)) <=> ~ PastDeadline(now, m)
    BY DEF ExactlyOneExit
  <2>1. entries[m].version = StoredVersion(m) /\ entries[m].deadline = m.deadline
    BY DEF IInv, Sound, SoundMessage, Contains
  <2>2. now \in Nat /\ m.deadline \in Nat
    BY InboxAssumption DEF IInv
  <2> QED
    BY <2>1, <2>2 DEF Consumable, PastDeadline
<1> QED
  BY <1>1, Inductive, PTL

-----------------------------------------------------------------------------

(* Frames are older than the current state: the later a state, the more      *)
(* copies it has seen consumed.                                              *)
Ordered ==
    \A m \in Messages :
        /\ \A i \in 1..Len(calls) : calls[i].consumed[m] <= consumed[m]
        /\ \A i, j \in 1..Len(calls) : i <= j => calls[i].consumed[m] <= calls[j].consumed[m]

LEMMA FramesOrdered == Spec => []Ordered
<1>1. Init => Ordered
  BY DEF Init, Ordered
<1>2. IInv /\ IInv' /\ Ordered /\ [Next]_vars => Ordered'
  <2> SUFFICES ASSUME IInv, IInv', Ordered, [Next]_vars
               PROVE  Ordered'
    OBVIOUS
  <2>1. /\ calls \in Seq(Storage) /\ Len(calls) \in Nat
        /\ consumed \in [Messages -> Nat]
        /\ \A i \in 1..Len(calls) : calls[i].consumed \in [Messages -> Nat]
    <3>1. calls \in Seq(Storage) /\ Len(calls) \in Nat
      BY DEF IInv
    <3>2. consumed \in [Messages -> Nat]
      BY DEF IInv, Sound
    <3>3. \A i \in 1..Len(calls) : calls[i].consumed \in [Messages -> Nat]
      <4> SUFFICES ASSUME NEW i \in 1..Len(calls)
                   PROVE  calls[i].consumed \in [Messages -> Nat]
        OBVIOUS
      <4>1. calls[i] \in Storage
        BY <3>1
      <4> QED
        BY <4>1 DEF Storage
    <3> QED
      BY <3>1, <3>2, <3>3
  <2>2. ASSUME calls' = calls, \A m \in Messages : consumed[m] <= consumed'[m]
        PROVE  Ordered'
    <3>1. consumed' \in [Messages -> Nat]
      BY DEF IInv, Sound
    <3>2. ASSUME NEW m \in Messages, NEW i \in 1..Len(calls)
          PROVE  calls[i].consumed[m] <= consumed'[m]
      <4>1. calls[i].consumed[m] \in Nat /\ consumed[m] \in Nat /\ consumed'[m] \in Nat
        BY <2>1, <3>1
      <4>2. calls[i].consumed[m] <= consumed[m] /\ consumed[m] <= consumed'[m]
        BY <2>2 DEF Ordered
      <4>3. \A p, q, r \in Nat : p <= q /\ q <= r => p <= r
        OBVIOUS
      <4> QED
        BY <4>1, <4>2, <4>3
    <3> QED
      BY <2>2, <3>2 DEF Ordered
  <2>3. ASSUME NEW keys \in Batch, NEW version \in Versions, NEW a \in Accounts,
               BatchConsume(keys, version, a)
        PROVE  Ordered'
    <3>1. ASSUME NEW m \in Messages
          PROVE  consumed[m] <= consumed'[m]
      BY <2>1, <2>3, OccurrencesNat DEF BatchConsume
    <3> QED
      BY <2>2, <2>3, <3>1 DEF BatchConsume
  <2>4. ASSUME NEW a \in Accounts, WithdrawFees(a)
        PROVE  Ordered'
    <3> DEFINE f == Snapshot
    <3>1. f.consumed = consumed
      BY DEF Snapshot
    <3>2. calls' = Append(calls, f) /\ consumed' = consumed
      BY <2>4 DEF WithdrawFees
    <3> HIDE DEF f
    <3>3. Len(calls') = Len(calls) + 1 /\ \A i \in 1..Len(calls') :
             \/ i \in 1..Len(calls) /\ calls'[i] = calls[i]
             \/ i = Len(calls) + 1 /\ calls'[i] = f
      BY <2>1, <3>2
    <3>4. ASSUME NEW m \in Messages, NEW i \in 1..Len(calls')
          PROVE  calls'[i].consumed[m] <= consumed'[m]
      BY <2>1, <3>1, <3>2, <3>3 DEF Ordered
    <3>5. ASSUME NEW m \in Messages, NEW i \in 1..Len(calls'), NEW j \in 1..Len(calls'), i <= j
          PROVE  calls'[i].consumed[m] <= calls'[j].consumed[m]
      <4>1. CASE j \in 1..Len(calls) /\ calls'[j] = calls[j]
        <5>1. i \in 1..Len(calls) /\ calls'[i] = calls[i]
          BY <2>1, <3>3, <3>5, <4>1
        <5> QED
          BY <3>5, <4>1, <5>1 DEF Ordered
      <4>2. CASE calls'[j] = f
        BY <3>1, <3>2, <3>4, <4>2
      <4> QED
        BY <3>3, <4>1, <4>2
    <3> QED
      BY <3>4, <3>5 DEF Ordered
  <2>5. CASE WithdrawReturn \/ WithdrawRevert
    <3>1. calls # <<>> /\ now' = now /\ calls' = SubSeq(calls, 1, Len(calls) - 1)
      BY <2>5 DEF WithdrawReturn, WithdrawRevert
    <3>2. /\ Len(calls') = Len(calls) - 1
          /\ \A i \in 1..Len(calls') : i \in 1..Len(calls) /\ calls'[i] = calls[i]
      BY <3>1, FramesSound
    <3>3. \/ consumed' = consumed
          \/ consumed' = calls[Len(calls)].consumed
      BY <2>5 DEF WithdrawReturn, WithdrawRevert
    <3>4. Len(calls) \in 1..Len(calls) /\ \A i \in 1..Len(calls) : i <= Len(calls)
      BY <2>1, <3>1
    <3> QED
      BY <3>2, <3>3, <3>4 DEF Ordered
  <2>6. ASSUME calls' = calls, consumed' = consumed
        PROVE  Ordered'
    BY <2>6 DEF Ordered
  <2> QED
    BY <2>3, <2>4, <2>5, <2>6
    DEF Next, SendL2Message, CancelL2Message, Tick, vars
<1> QED
  BY <1>1, <1>2, Inductive, PTL DEF Spec

(* After a cancellation no copy of the message is consumed: a cancelled      *)
(* message is past its deadline, a pending one keeps its own deadline in the *)
(* entry, and batchConsume compares that deadline with the time.             *)
THEOREM CancelFinal == Spec => CancelledIsFinal
<1> DEFINE Final == \A m \in Messages : cancelled[m] > 0 => consumed'[m] <= consumed[m]
<1>1. IInv /\ Ordered /\ [Next]_vars => [Final]_vars
  <2> SUFFICES ASSUME IInv, Ordered, Next, NEW m \in Messages, cancelled[m] > 0
               PROVE  consumed'[m] <= consumed[m]
    BY DEF Final
  <2>1. /\ consumed[m] \in Nat /\ now \in Nat /\ m.deadline \in Nat /\ now > m.deadline
        /\ SoundMessage(now, entries, sent, consumed, cancelled, m)
        /\ entries \in [Messages -> Entry]
    BY InboxAssumption DEF IInv, Sound, SoundMessage
  <2>2. CASE consumed' = consumed
    BY <2>1, <2>2
  <2>3. ASSUME NEW keys \in Batch, NEW version \in Versions, NEW a \in Accounts,
               BatchConsume(keys, version, a)
        PROVE  consumed'[m] <= consumed[m]
    <3>1. consumed'[m] = consumed[m] + Occurrences(keys, m)
      BY <2>3 DEF BatchConsume
    <3>2. CASE \E i \in DOMAIN keys : keys[i] = m
      <4>1. now <= entries[m].deadline
        BY <2>3, <3>2, InboxAssumption DEF BatchConsume, CanBatchConsume, Consumable
      <4>2. Occurrences(keys, m) <= entries[m].count /\ Occurrences(keys, m) \in Nat
        BY <2>1, <2>3, OccurrencesBound, OccurrencesNat DEF BatchConsume, CanBatchConsume
      <4>3. ~ (entries[m].count > 0)
        BY <2>1, <4>1 DEF SoundMessage
      <4>4. entries[m].count \in Nat
        BY <2>1, MaxCountAssumption DEF Entry
      <4> QED
        BY <2>1, <3>1, <4>2, <4>3, <4>4
    <3>3. CASE ~ \E i \in DOMAIN keys : keys[i] = m
      <4>1. {i \in DOMAIN keys : keys[i] = m} = {}
        BY <3>3
      <4>2. Occurrences(keys, m) = 0
        BY <4>1, FS_EmptySet DEF Occurrences
      <4> QED
        BY <2>1, <3>1, <4>2
    <3> QED
      BY <3>2, <3>3
  <2>4. CASE WithdrawRevert
    <3>1. consumed' = calls[Len(calls)].consumed
      BY <2>4 DEF WithdrawRevert
    <3>2. Len(calls) \in 1..Len(calls)
      BY <2>4 DEF WithdrawRevert, IInv
    <3> QED
      BY <3>1, <3>2 DEF Ordered
  <2> QED
    BY <2>2, <2>3, <2>4
    DEF Next, SendL2Message, CancelL2Message, WithdrawFees, WithdrawReturn, Tick
<1> QED
  BY <1>1, Inductive, FramesOrdered, PTL DEF Spec, CancelledIsFinal
=============================================================================
