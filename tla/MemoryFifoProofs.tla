--------------------------- MODULE MemoryFifoProofs ---------------------------
(***************************************************************************)
(* Proofs about MemoryFifo, for every number of consumers and items.       *)
(***************************************************************************)
EXTENDS MemoryFifo, SequenceTheorems, WellFoundedInduction, TLAPS

States == {"idle", "waiting", "busy", "ended"}

\* The shape of the state.
Types ==
    /\ items \in Seq(Nat)
    /\ waiting \in Seq(Consumers)
    /\ flushing \in BOOLEAN
    /\ consumer \in [Consumers -> States]
    /\ accepted \in Seq(Nat)
    /\ delivered \in Seq(Nat)
    /\ cancelled \in BOOLEAN

\* While the queue is open the list of the waiting is exact: everyone in it
\* waits, and nobody is in it twice.
WaitersExact ==
    ~ flushing =>
        /\ \A i \in 1..Len(waiting) : consumer[waiting[i]] = "waiting"
        /\ \A i, j \in 1..Len(waiting) : waiting[i] = waiting[j] => i = j

\* Whoever waits is in the list.
WaitersListed ==
    \A c \in Consumers :
        consumer[c] = "waiting" => \E i \in 1..Len(waiting) : waiting[i] = c

\* cancel closes the queue and empties it for good.
CancelCloses == cancelled => flushing /\ items = <<>>

(* The inductive invariant.  FifoOrder alone is not inductive: put hands an  *)
(* item to the first waiter past the queued ones, which is in order only if  *)
(* nobody waits while items are queued (NobodyStranded), and reaches a       *)
(* consumer only if those in the list still wait (WaitersExact).  That       *)
(* nobody waits once an item is queued needs the converse: put looks at the  *)
(* list, so whoever waits must be in it (WaitersListed).                     *)
IInv ==
    /\ Types /\ WaitersExact /\ WaitersListed /\ CancelCloses
    /\ FifoOrder /\ NobodyStranded

-----------------------------------------------------------------------------

(* Moving the head of one sequence to the end of another keeps their         *)
(* concatenation.                                                            *)
LEMMA ShiftHead ==
    ASSUME NEW S, NEW s \in Seq(S), NEW t \in Seq(S), t # <<>>
    PROVE  Append(s, Head(t)) \o Tail(t) = s \o t
<1>1. Head(t) \in S /\ Tail(t) \in Seq(S) /\ Len(Tail(t)) = Len(t) - 1
      /\ \A i \in 1..Len(Tail(t)) : Tail(t)[i] = t[i + 1]
  BY HeadTailProperties
<1>2. Append(s, Head(t)) \in Seq(S) /\ Len(Append(s, Head(t))) = Len(s) + 1
      /\ (\A i \in 1..Len(s) : Append(s, Head(t))[i] = s[i])
      /\ Append(s, Head(t))[Len(s) + 1] = Head(t)
  BY <1>1, AppendProperties
<1>3. Len(s) \in Nat /\ Len(t) \in Nat \ {0} /\ Head(t) = t[1]
  BY LenProperties, EmptySeq
<1> DEFINE a == Append(s, Head(t)) \o Tail(t)
           b == s \o t
<1>4. a \in Seq(S) /\ Len(a) = Len(s) + Len(t)
      /\ \A i \in 1..(Len(s) + Len(t)) :
            a[i] = IF i <= Len(s) + 1 THEN Append(s, Head(t))[i] ELSE Tail(t)[i - (Len(s) + 1)]
  <2>1. Len(Append(s, Head(t))) + Len(Tail(t)) = Len(s) + Len(t)
    BY <1>1, <1>2, <1>3
  <2> QED
    BY <1>1, <1>2, <2>1, ConcatProperties
<1>5. b \in Seq(S) /\ Len(b) = Len(s) + Len(t)
      /\ \A i \in 1..(Len(s) + Len(t)) : b[i] = IF i <= Len(s) THEN s[i] ELSE t[i - Len(s)]
  BY ConcatProperties
<1>6. ASSUME NEW i \in 1..Len(a)
      PROVE  a[i] = b[i]
  <2> HIDE DEF a, b
  <2>1. CASE i <= Len(s)
    BY <1>2, <1>3, <1>4, <1>5, <2>1
  <2>2. CASE i = Len(s) + 1
    BY <1>2, <1>3, <1>4, <1>5, <2>2
  <2>3. CASE i > Len(s) + 1
    <3>1. i - (Len(s) + 1) \in 1..Len(Tail(t))
      BY <1>1, <1>3, <1>4, <2>3
    <3> QED
      BY <1>1, <1>3, <1>4, <1>5, <2>3, <3>1
  <2> QED
    BY <1>3, <1>4, <2>1, <2>2, <2>3
<1> HIDE DEF a, b
<1>7. a = b
  BY <1>4, <1>5, <1>6, SeqEqual
<1> QED
  BY <1>7 DEF a, b

(* An element appended to the second of two sequences is appended to their   *)
(* concatenation.                                                            *)
LEMMA AppendConcat ==
    ASSUME NEW S, NEW s \in Seq(S), NEW t \in Seq(S), NEW x \in S
    PROVE  s \o Append(t, x) = Append(s \o t, x)
<1>1. <<x>> \in Seq(S) /\ s \o t \in Seq(S)
  BY ConcatProperties
<1>2. Append(t, x) = t \o <<x>> /\ Append(s \o t, x) = (s \o t) \o <<x>>
  BY <1>1, AppendIsConcat
<1> QED
  BY <1>1, <1>2, ConcatAssociative

(* A sequence is a prefix of its concatenation with another.                 *)
LEMMA ConcatPrefix ==
    ASSUME NEW S, NEW s \in Seq(S), NEW t \in Seq(S)
    PROVE  IsPrefix(s, s \o t)
<1>1. s \o t \in Seq(S) /\ Len(s \o t) = Len(s) + Len(t) /\ Len(s) \in Nat /\ Len(t) \in Nat
  BY ConcatProperties, LenProperties
<1>2. CASE Len(s) = 0
  <2>1. SubSeq(s, 1, Len(s)) = <<>> /\ SubSeq(s \o t, 1, Len(s)) = <<>>
    BY <1>2, SubSeqEmpty
  <2> QED
    BY <1>1, <1>2, <2>1 DEF IsPrefix
<1>3. CASE Len(s) > 0
  <2>1. 1 \in 1..Len(s) /\ Len(s) \in 1..Len(s)
    BY <1>1, <1>3
  <2>2. SubSeq(s \o t, 1, Len(s)) = SubSeq(s, 1, Len(s))
    BY <2>1, SubSeqOfConcat1
  <2> QED
    BY <1>1, <2>2 DEF IsPrefix
<1> QED
  BY <1>1, <1>2, <1>3

(* Every nonempty set of natural numbers has a least element. *)
LEMMA NatMin ==
    ASSUME NEW D \in SUBSET Nat, D # {}
    PROVE  \E x \in D : \A y \in D : x <= y
<1> DEFINE R == {ss \in Nat \X Nat : ss[1] < ss[2]}
<1>1. OpToRel(<, Nat) = R
  BY DEF OpToRel
<1>2. IsWellFoundedOn(OpToRel(<, Nat), Nat)
  BY NatLessThanWellFounded
<1>3. \E x \in D : \A y \in D : ~ (<<y, x>> \in OpToRel(<, Nat))
  BY <1>2, WFMin
<1> HIDE DEF R
<1>4. PICK x \in D : \A y \in D : ~ (<<y, x>> \in R)
  BY <1>1, <1>3, Zenon
<1>5. ASSUME NEW y \in D
      PROVE  x <= y
  <2>1. x \in Nat /\ y \in Nat
    OBVIOUS
  <2>2. <<y, x>> \in R <=> y < x
    BY <2>1 DEF R
  <2> QED
    BY <1>4, <2>1, <2>2
<1> QED
  BY <1>5

(* What RemoveFirst leaves of a list without repetitions: every entry but    *)
(* the one removed, each at a place of its own.                              *)
LEMMA RemoveFirstDistinct ==
    ASSUME NEW S, NEW w \in Seq(S), NEW g \in S, \E i \in 1..Len(w) : w[i] = g
    PROVE  \E k \in 1..Len(w) :
              /\ w[k] = g
              /\ RemoveFirst(w, g) \in Seq(S)
              /\ Len(RemoveFirst(w, g)) = Len(w) - 1
              /\ \A i \in 1..Len(RemoveFirst(w, g)) :
                    RemoveFirst(w, g)[i] = IF i < k THEN w[i] ELSE w[i + 1]
<1> DEFINE I == {i \in 1..Len(w) : w[i] = g}
           k == Min(I)
           v == RemoveFirst(w, g)
<1>1. Len(w) \in Nat
  BY LenProperties
<1>2. k \in I
  <2>1. I \in SUBSET Nat /\ I # {}
    BY <1>1
  <2>2. \E x \in I : \A y \in I : x <= y
    BY <2>1, NatMin
  <2> QED
    BY <2>2 DEF Min
<1>3. k \in 1..Len(w) /\ w[k] = g
  BY <1>2
<1>4. v = SubSeq(w, 1, k - 1) \o SubSeq(w, k + 1, Len(w))
  <2>1. SelectInSeq(w, LAMBDA x : x = g) = k
    BY <1>2 DEF SelectInSeq
  <2> QED
    BY <2>1 DEF RemoveFirst, RemoveAt
<1> HIDE DEF k, I, v
<1> DEFINE a == SubSeq(w, 1, k - 1)
           b == SubSeq(w, k + 1, Len(w))
<1>5. \A i \in 1..Len(w) : w[i] \in S
  BY ElementOfSeq
<1>6. a \in Seq(S) /\ Len(a) = k - 1 /\ \A i \in 1..(k - 1) : a[i] = w[i]
  <2>1. 1 \in Int /\ k - 1 \in Int /\ \A i \in 1..(k - 1) : w[i] \in S
    BY <1>1, <1>3, <1>5
  <2>2. /\ a \in Seq(S)
        /\ Len(a) = IF 1 <= k - 1 THEN (k - 1) - 1 + 1 ELSE 0
        /\ \A i \in 1..((k - 1) - 1 + 1) : a[i] = w[1 + i - 1]
    BY <2>1, SubSeqProperties
  <2> HIDE DEF a
  <2> QED
    BY <1>1, <1>3, <2>2
<1>7. b \in Seq(S) /\ Len(b) = Len(w) - k /\ \A i \in 1..(Len(w) - k) : b[i] = w[k + i]
  <2>1. k + 1 \in Int /\ Len(w) \in Int /\ \A i \in (k + 1)..Len(w) : w[i] \in S
    BY <1>1, <1>3, <1>5
  <2>2. /\ b \in Seq(S)
        /\ Len(b) = IF k + 1 <= Len(w) THEN Len(w) - (k + 1) + 1 ELSE 0
        /\ \A i \in 1..(Len(w) - (k + 1) + 1) : b[i] = w[(k + 1) + i - 1]
    BY <2>1, SubSeqProperties
  <2> HIDE DEF b
  <2> QED
    BY <1>1, <1>3, <2>2
<1> HIDE DEF a, b
<1>8. v \in Seq(S) /\ Len(v) = Len(w) - 1
      /\ \A i \in 1..(Len(w) - 1) : v[i] = IF i <= k - 1 THEN a[i] ELSE b[i - (k - 1)]
  <2>1. v = a \o b
    BY <1>4 DEF a, b
  <2>2. Len(a) + Len(b) = Len(w) - 1
    BY <1>1, <1>3, <1>6, <1>7
  <2> QED
    BY <1>6, <1>7, <2>1, <2>2, ConcatProperties, SMTT(20)
<1>9. ASSUME NEW i \in 1..Len(v)
      PROVE  v[i] = IF i < k THEN w[i] ELSE w[i + 1]
  <2>1. CASE i < k
    BY <1>1, <1>3, <1>6, <1>8, <2>1
  <2>2. CASE i >= k
    <3>1. i - (k - 1) \in 1..(Len(w) - k) /\ k + (i - (k - 1)) = i + 1
      BY <1>1, <1>3, <1>8, <2>2
    <3>2. b[i - (k - 1)] = w[i + 1]
      BY <1>7, <3>1
    <3> QED
      BY <1>1, <1>3, <1>8, <2>2, <3>2
  <2> QED
    BY <1>1, <1>3, <1>8, <2>1, <2>2
<1> QED
  BY <1>3, <1>8, <1>9 DEF v

-----------------------------------------------------------------------------

(* The empty queue satisfies the invariant. *)
LEMMA InitInv == Init => IInv
<1> SUFFICES ASSUME Init PROVE IInv
  OBVIOUS
<1>1. Types
  BY EmptySeq DEF Init, Types, States
<1>2. WaitersExact
  BY DEF Init, WaitersExact
<1>3. FifoOrder
  BY ConcatEmptySeq DEF Init, FifoOrder
<1> QED
  BY <1>1, <1>2, <1>3 DEF Init, IInv, CancelCloses, NobodyStranded, WaitersListed

(* get keeps it: an item leaves the queue for the consumer at the same time. *)
LEMMA GetInv ==
    ASSUME IInv, NEW c \in Consumers, Get(c)
    PROVE  IInv'
<1> USE DEF IInv
<1>1. Types
  OBVIOUS
<1>2. consumer[c] = "idle" /\ flushing' = flushing /\ accepted' = accepted
      /\ cancelled' = cancelled
  BY DEF Get
<1>3. CASE /\ items # <<>>
           /\ items' = Tail(items)
           /\ delivered' = Append(delivered, Head(items))
           /\ consumer' = [consumer EXCEPT ![c] = WithItem(c)]
           /\ waiting' = waiting
  <2>1. Head(items) \in Nat /\ Tail(items) \in Seq(Nat)
    BY <1>1, <1>3, HeadTailProperties DEF Types
  <2>2. Append(delivered, Head(items)) \in Seq(Nat)
    BY <1>1, <2>1, AppendProperties DEF Types
  <2>3. WithItem(c) \in States /\ WithItem(c) # "waiting"
    BY DEF WithItem, States
  <2>4. Types'
    BY <1>1, <1>2, <1>3, <2>1, <2>2, <2>3 DEF Types
  <2>5. ~ cancelled
    BY <1>3 DEF CancelCloses
  <2>6. FifoOrder'
    BY <1>1, <1>2, <1>3, <2>5, ShiftHead DEF Types, FifoOrder
  <2>7. \A d \in Consumers : consumer[d] # "waiting"
    BY <1>3 DEF NobodyStranded
  <2>8. \A d \in Consumers : consumer'[d] # "waiting"
    BY <1>1, <1>3, <2>3, <2>7 DEF Types
  <2>9. \A i \in 1..Len(waiting) : waiting[i] \in Consumers
    BY <1>1, ElementOfSeq DEF Types
  <2>10. WaitersExact'
    BY <1>2, <1>3, <2>7, <2>9 DEF WaitersExact
  <2> QED
    BY <1>2, <2>4, <2>5, <2>6, <2>8, <2>10 DEF CancelCloses, NobodyStranded, WaitersListed
<1>4. CASE /\ items = <<>> /\ flushing
           /\ consumer' = [consumer EXCEPT ![c] = WithNull(c)]
           /\ items' = items /\ waiting' = waiting /\ delivered' = delivered
  <2>1. WithNull(c) \in States /\ WithNull(c) # "waiting"
    BY DEF WithNull, States
  <2>2. Types'
    BY <1>1, <1>2, <1>4, <2>1 DEF Types
  <2>3. FifoOrder' /\ CancelCloses' /\ WaitersExact'
    BY <1>2, <1>4 DEF FifoOrder, CancelCloses, WaitersExact
  <2>4. NobodyStranded'
    BY <1>1, <1>2, <1>4, <2>1 DEF Types, NobodyStranded
  <2>5. WaitersListed'
    BY <1>1, <1>4, <2>1 DEF Types, WaitersListed
  <2> QED
    BY <2>2, <2>3, <2>4, <2>5
<1>5. CASE /\ items = <<>> /\ ~ flushing
           /\ waiting' = Append(waiting, c)
           /\ consumer' = [consumer EXCEPT ![c] = "waiting"]
           /\ items' = items /\ delivered' = delivered
  <2>1. /\ Append(waiting, c) \in Seq(Consumers)
        /\ Len(Append(waiting, c)) = Len(waiting) + 1
        /\ \A i \in 1..Len(waiting) : Append(waiting, c)[i] = waiting[i]
        /\ Append(waiting, c)[Len(waiting) + 1] = c
        /\ Len(waiting) \in Nat
    BY <1>1, AppendProperties, LenProperties DEF Types
  <2>2. Types'
    BY <1>1, <1>2, <1>5, <2>1 DEF Types, States
  <2>3. FifoOrder' /\ CancelCloses' /\ NobodyStranded'
    BY <1>1, <1>2, <1>5 DEF FifoOrder, CancelCloses, NobodyStranded
  <2>4. WaitersExact'
    <3>1. \A i \in 1..Len(waiting) : waiting[i] \in Consumers /\ waiting[i] # c
      BY <1>1, <1>2, <1>5, ElementOfSeq DEF Types, WaitersExact
    <3>2. ASSUME NEW i \in 1..Len(waiting')
          PROVE  i \in 1..Len(waiting) \/ i = Len(waiting) + 1
      BY <1>5, <2>1
    <3>3. \A i \in 1..Len(waiting') : consumer'[waiting'[i]] = "waiting"
      BY <1>1, <1>5, <2>1, <3>1, <3>2 DEF Types, WaitersExact
    <3>4. \A i, j \in 1..Len(waiting') : waiting'[i] = waiting'[j] => i = j
      BY <1>5, <2>1, <3>1, <3>2 DEF WaitersExact
    <3> QED
      BY <3>3, <3>4 DEF WaitersExact
  <2>5. WaitersListed'
    <3> SUFFICES ASSUME NEW d \in Consumers, consumer'[d] = "waiting"
                 PROVE  \E i \in 1..Len(waiting') : waiting'[i] = d
      BY DEF WaitersListed
    <3>1. CASE d = c
      BY <1>5, <2>1, <3>1
    <3>2. CASE d # c
      BY <1>1, <1>5, <2>1, <3>2 DEF Types, WaitersListed
    <3> QED
      BY <3>1, <3>2
  <2> QED
    BY <2>2, <2>3, <2>4, <2>5
<1> QED
  BY <1>3, <1>4, <1>5 DEF Get

(* A timer keeps it: the get it rejects leaves the list of the waiting. *)
LEMMA TimeoutInv ==
    ASSUME IInv, NEW g \in Getters, Timeout(g)
    PROVE  IInv'
<1> USE DEF IInv
<1>1. Types /\ g \in Consumers
  BY DEF Consumers
<1>2. \E i \in 1..Len(waiting) : waiting[i] = g
  <2>1. DOMAIN waiting = 1..Len(waiting)
    BY <1>1, LenProperties DEF Types
  <2> QED
    BY <2>1 DEF Timeout, ToSet
<1>3. PICK k \in 1..Len(waiting) :
         /\ waiting[k] = g
         /\ waiting' \in Seq(Consumers) /\ Len(waiting') = Len(waiting) - 1
         /\ \A i \in 1..Len(waiting') :
               waiting'[i] = IF i < k THEN waiting[i] ELSE waiting[i + 1]
  <2>1. waiting \in Seq(Consumers) /\ waiting' = RemoveFirst(waiting, g)
    BY <1>1 DEF Types, Timeout, WithoutWaiter
  <2> HIDE DEF IInv
  <2>2. \E k \in 1..Len(waiting) :
           /\ waiting[k] = g
           /\ RemoveFirst(waiting, g) \in Seq(Consumers)
           /\ Len(RemoveFirst(waiting, g)) = Len(waiting) - 1
           /\ \A i \in 1..Len(RemoveFirst(waiting, g)) :
                 RemoveFirst(waiting, g)[i]
                    = IF i < k THEN waiting[i] ELSE waiting[i + 1]
    BY <1>1, <1>2, <2>1, RemoveFirstDistinct, Zenon
  <2> QED
    BY <2>1, <2>2, Zenon
<1>4. /\ consumer' = [consumer EXCEPT ![g] = "idle"]
      /\ items' = items /\ flushing' = flushing /\ accepted' = accepted
      /\ delivered' = delivered /\ cancelled' = cancelled
  BY DEF Timeout
<1>5. Types'
  BY <1>1, <1>3, <1>4 DEF Types, States
<1>6. FifoOrder' /\ CancelCloses'
  BY <1>4 DEF FifoOrder, CancelCloses
<1>7. NobodyStranded'
  BY <1>1, <1>4 DEF Types, NobodyStranded
<1>8. WaitersExact'
  <2> SUFFICES ASSUME ~ flushing
               PROVE  /\ \A i \in 1..Len(waiting') : consumer'[waiting'[i]] = "waiting"
                      /\ \A i, j \in 1..Len(waiting') : waiting'[i] = waiting'[j] => i = j
    BY <1>4 DEF WaitersExact
  <2> DEFINE at(i) == IF i < k THEN i ELSE i + 1
  <2>1. Len(waiting) \in Nat
    BY <1>1, LenProperties DEF Types
  <2>2. ASSUME NEW i \in 1..Len(waiting')
        PROVE  /\ at(i) \in 1..Len(waiting) /\ at(i) # k
               /\ waiting'[i] = waiting[at(i)]
    BY <1>3, <2>1
  <2>3. ASSUME NEW i \in 1..Len(waiting'), NEW j \in 1..Len(waiting'), at(i) = at(j)
        PROVE  i = j
    BY <1>3, <2>1, <2>3
  <2> HIDE DEF at
  <2>4. ASSUME NEW i \in 1..Len(waiting')
        PROVE  consumer'[waiting'[i]] = "waiting"
    <3>1. waiting[at(i)] # g /\ consumer[waiting[at(i)]] = "waiting"
      BY <1>3, <2>2 DEF WaitersExact
    <3>2. waiting[at(i)] \in Consumers
      BY <1>1, <2>2, ElementOfSeq DEF Types
    <3> QED
      BY <1>1, <1>4, <2>2, <3>1, <3>2 DEF Types
  <2>5. ASSUME NEW i \in 1..Len(waiting'), NEW j \in 1..Len(waiting'),
               waiting'[i] = waiting'[j]
        PROVE  i = j
    BY <2>2, <2>3, <2>5 DEF WaitersExact
  <2> QED
    BY <2>4, <2>5
<1>9. WaitersListed'
  <2> SUFFICES ASSUME NEW d \in Consumers, consumer'[d] = "waiting"
               PROVE  \E i \in 1..Len(waiting') : waiting'[i] = d
    BY DEF WaitersListed
  <2>1. d # g /\ consumer[d] = "waiting"
    BY <1>1, <1>4 DEF Types
  <2>2. PICK j \in 1..Len(waiting) : waiting[j] = d
    BY <2>1 DEF WaitersListed
  <2>3. Len(waiting) \in Nat /\ j # k
    BY <1>1, <1>3, <2>1, <2>2, LenProperties DEF Types
  <2>4. CASE j < k
    BY <1>3, <2>2, <2>3, <2>4
  <2>5. CASE j > k
    <3>1. j - 1 \in 1..Len(waiting') /\ ~ (j - 1 < k) /\ (j - 1) + 1 = j
      BY <1>3, <2>3, <2>5
    <3>2. waiting'[j - 1] = waiting[j]
      BY <1>3, <3>1
    <3> QED
      BY <2>2, <3>1, <3>2
  <2> QED
    BY <2>3, <2>4, <2>5
<1> QED
  BY <1>5, <1>6, <1>7, <1>8, <1>9

(* put keeps it: an item that goes past the queue to a waiting consumer      *)
(* overtakes nothing, because the queue is empty while somebody waits.       *)
LEMMA PutInv ==
    ASSUME IInv, Put
    PROVE  IInv'
<1> USE DEF IInv
<1> DEFINE item == Len(accepted) + 1
<1>1. Types
  OBVIOUS
<1>2. ~ flushing /\ flushing' = flushing /\ cancelled' = cancelled /\ ~ cancelled
      /\ accepted' = Append(accepted, item)
  BY DEF Put, CancelCloses
<1>3. item \in Nat
  BY <1>1, LenProperties DEF Types
<1>4. accepted' \in Seq(Nat)
  BY <1>1, <1>2, <1>3, AppendProperties DEF Types
<1> HIDE DEF item
<1>5. CASE waiting = <<>>
  <2>1. items' = Append(items, item) /\ waiting' = waiting /\ consumer' = consumer
        /\ delivered' = delivered
    BY <1>5 DEF Put, NoneWaiting, item
  <2>2. Types'
    BY <1>1, <1>2, <1>3, <1>4, <2>1, AppendProperties DEF Types
  <2>3. FifoOrder'
    <3>1. delivered \o items = accepted
      BY <1>2 DEF FifoOrder
    <3>2. delivered \in Seq(Nat) /\ items \in Seq(Nat)
      BY <1>1 DEF Types
    <3>3. delivered \o Append(items, item) = Append(delivered \o items, item)
      <4> HIDE DEF IInv
      <4>1. \A x \in Nat : \A s, t \in Seq(Nat) : s \o Append(t, x) = Append(s \o t, x)
        BY AppendConcat
      <4> QED
        BY <1>3, <3>2, <4>1, Zenon
    <3> QED
      BY <1>2, <2>1, <3>1, <3>3 DEF FifoOrder
  <2>4. WaitersExact' /\ CancelCloses'
    BY <1>2, <2>1 DEF WaitersExact, CancelCloses
  <2>5. NobodyStranded'
    <3>1. Len(waiting) = 0
      BY <1>5
    <3>2. \A c \in Consumers : consumer[c] # "waiting"
      BY <3>1 DEF WaitersListed
    <3> QED
      BY <2>1, <3>2 DEF NobodyStranded
  <2>6. WaitersListed'
    BY <2>1 DEF WaitersListed
  <2> QED
    BY <2>2, <2>3, <2>4, <2>5, <2>6
<1>6. CASE waiting # <<>>
  <2> DEFINE c == Head(waiting)
  <2>1. /\ c \in Consumers /\ Tail(waiting) \in Seq(Consumers)
        /\ Len(Tail(waiting)) = Len(waiting) - 1
        /\ \A i \in 1..Len(Tail(waiting)) : Tail(waiting)[i] = waiting[i + 1]
    BY <1>1, <1>6, HeadTailProperties DEF Types
  <2>2. Len(waiting) \in Nat \ {0} /\ c = waiting[1]
    BY <1>1, <1>6, LenProperties, EmptySeq DEF Types
  <2> HIDE DEF c
  <2>3. consumer[c] = "waiting"
    BY <1>2, <2>2 DEF WaitersExact
  <2>4. items = <<>>
    BY <2>1, <2>3 DEF NobodyStranded
  <2>5. /\ waiting' = Tail(waiting) /\ items' = items
        /\ delivered' = Append(delivered, item)
        /\ consumer' = [consumer EXCEPT ![c] = WithItem(c)]
    BY <1>6, <2>3 DEF Put, NoneWaiting, item, c
  <2>6. WithItem(c) \in States /\ WithItem(c) # "waiting"
    BY DEF WithItem, States
  <2>7. Types'
    BY <1>1, <1>2, <1>3, <1>4, <2>1, <2>5, <2>6, AppendProperties DEF Types
  <2>8. FifoOrder'
    <3>1. delivered = accepted
      BY <1>1, <1>2, <2>4, ConcatEmptySeq DEF Types, FifoOrder
    <3>2. Append(delivered, item) \o <<>> = Append(accepted, item)
      BY <1>2, <1>4, <3>1, ConcatEmptySeq
    <3> QED
      BY <1>2, <2>4, <2>5, <3>2 DEF FifoOrder
  <2>9. WaitersExact'
    <3>1. ASSUME NEW i \in 1..Len(waiting')
          PROVE  /\ i + 1 \in 1..Len(waiting) /\ i + 1 # 1 /\ 1 \in 1..Len(waiting)
                 /\ waiting'[i] = waiting[i + 1]
      BY <2>1, <2>2, <2>5
    <3>2. ASSUME NEW i \in 1..Len(waiting')
          PROVE  consumer'[waiting'[i]] = "waiting"
      <4>1. waiting[i + 1] # c /\ consumer[waiting[i + 1]] = "waiting"
        BY <1>2, <2>2, <3>1 DEF WaitersExact
      <4>2. waiting[i + 1] \in Consumers
        BY <1>1, <3>1, ElementOfSeq DEF Types
      <4> QED
        BY <1>1, <2>5, <3>1, <4>1, <4>2 DEF Types
    <3>3. ASSUME NEW i \in 1..Len(waiting'), NEW j \in 1..Len(waiting'),
                 waiting'[i] = waiting'[j]
          PROVE  i = j
      <4>1. i + 1 = j + 1
        BY <1>2, <3>1, <3>3 DEF WaitersExact
      <4> QED
        BY <4>1
    <3> QED
      BY <3>2, <3>3 DEF WaitersExact
  <2>10. NobodyStranded' /\ CancelCloses'
    BY <1>1, <1>2, <2>4, <2>5, <2>6 DEF Types, NobodyStranded, CancelCloses
  <2>11. WaitersListed'
    <3> SUFFICES ASSUME NEW d \in Consumers, consumer'[d] = "waiting"
                 PROVE  \E i \in 1..Len(waiting') : waiting'[i] = d
      BY DEF WaitersListed
    <3>1. d # c /\ consumer[d] = "waiting"
      BY <1>1, <2>5, <2>6 DEF Types
    <3>2. PICK j \in 1..Len(waiting) : waiting[j] = d
      BY <3>1 DEF WaitersListed
    <3>3. j # 1 /\ j - 1 \in 1..Len(waiting') /\ (j - 1) + 1 = j
      BY <2>1, <2>2, <2>5, <3>1, <3>2
    <3>4. waiting'[j - 1] = waiting[j]
      BY <2>1, <2>5, <3>3
    <3> QED
      BY <3>2, <3>3, <3>4
  <2> QED
    BY <2>7, <2>8, <2>9, <2>10, <2>11
<1> QED
  BY <1>5, <1>6

(* end and cancel answer everyone who waits. *)
LEMMA AnswerInv ==
    ASSUME IInv, AnswerWaiting
    PROVE  /\ consumer' \in [Consumers -> States]
           /\ \A c \in Consumers : consumer'[c] # "waiting"
<1>1. \A c \in Consumers : WithNull(c) \in States /\ WithNull(c) # "waiting"
  BY DEF WithNull, States
<1> QED
  BY <1>1 DEF IInv, Types, AnswerWaiting

(* end keeps it. *)
LEMMA EndInv ==
    ASSUME IInv, End
    PROVE  IInv'
<1>1. /\ flushing' = TRUE /\ items' = items /\ waiting' = waiting
      /\ accepted' = accepted /\ delivered' = delivered /\ cancelled' = cancelled
  BY DEF End
<1>2. /\ consumer' \in [Consumers -> States]
      /\ \A c \in Consumers : consumer'[c] # "waiting"
  BY AnswerInv DEF End
<1>3. Types'
  BY <1>1, <1>2 DEF IInv, Types
<1>4. WaitersExact' /\ WaitersListed' /\ NobodyStranded'
  BY <1>1, <1>2 DEF WaitersExact, WaitersListed, NobodyStranded
<1>5. CancelCloses' /\ FifoOrder'
  BY <1>1 DEF IInv, CancelCloses, FifoOrder
<1> QED
  BY <1>3, <1>4, <1>5 DEF IInv

(* cancel keeps it: what was delivered before it stays in order. *)
LEMMA CancelInv ==
    ASSUME IInv, Cancel
    PROVE  IInv'
<1>1. /\ flushing' = TRUE /\ cancelled' = TRUE /\ items' = <<>> /\ waiting' = waiting
      /\ accepted' = accepted /\ delivered' = delivered /\ ~ cancelled
  BY DEF Cancel
<1>2. /\ consumer' \in [Consumers -> States]
      /\ \A c \in Consumers : consumer'[c] # "waiting"
  BY AnswerInv DEF Cancel
<1>3. Types'
  BY <1>1, <1>2, EmptySeq DEF IInv, Types
<1>4. WaitersExact' /\ WaitersListed' /\ NobodyStranded' /\ CancelCloses'
  BY <1>1, <1>2 DEF WaitersExact, WaitersListed, NobodyStranded, CancelCloses
<1>5. FifoOrder'
  <2>1. delivered \o items = accepted /\ delivered \in Seq(Nat) /\ items \in Seq(Nat)
    BY <1>1 DEF IInv, Types, FifoOrder
  <2>2. IsPrefix(delivered, delivered \o items)
    BY <2>1, ConcatPrefix, Zenon
  <2> QED
    BY <1>1, <2>1, <2>2 DEF FifoOrder
<1> QED
  BY <1>3, <1>4, <1>5 DEF IInv

(* The end of a handler keeps it. *)
LEMMA HandlerInv ==
    ASSUME IInv, HandlerReturns \/ HandlerThrows
    PROVE  IInv'
<1>1. PICK s \in {"idle", "ended"} :
         /\ consumer[Loop] = "busy" /\ consumer' = [consumer EXCEPT ![Loop] = s]
         /\ items' = items /\ waiting' = waiting /\ flushing' = flushing
         /\ accepted' = accepted /\ delivered' = delivered /\ cancelled' = cancelled
  BY DEF HandlerReturns, HandlerThrows
<1>2. Types /\ Loop \in Consumers
  BY DEF IInv, Consumers
<1>3. \A c \in Consumers : consumer'[c] = "waiting" <=> consumer[c] = "waiting"
  BY <1>1, <1>2 DEF Types
<1>4. Types'
  BY <1>1, <1>2 DEF Types, States
<1>5. \A i \in 1..Len(waiting) : waiting[i] \in Consumers
  BY <1>2, ElementOfSeq DEF Types
<1>6. WaitersExact'
  BY <1>1, <1>3, <1>5 DEF IInv, WaitersExact
<1>7. WaitersListed' /\ NobodyStranded'
  BY <1>1, <1>3 DEF IInv, WaitersListed, NobodyStranded
<1>8. CancelCloses' /\ FifoOrder'
  BY <1>1 DEF IInv, CancelCloses, FifoOrder
<1> QED
  BY <1>4, <1>6, <1>7, <1>8 DEF IInv

(* Every step of the queue keeps the invariant. *)
LEMMA NextInv ==
    ASSUME IInv, [Next]_vars
    PROVE  IInv'
<1>1. CASE UNCHANGED vars
  BY <1>1 DEF IInv, vars, Types, WaitersExact, WaitersListed, CancelCloses, FifoOrder,
              NobodyStranded
<1>2. CASE Next
  BY <1>2, GetInv, TimeoutInv, PutInv, EndInv, CancelInv, HandlerInv DEF Next
<1> QED
  BY <1>1, <1>2

(* The inductive invariant holds throughout. *)
THEOREM FifoInvariant == Spec => []IInv
<1>1. IInv /\ [Next]_vars => IInv'
  BY NextInv
<1> QED
  BY InitInv, <1>1, PTL DEF Spec

(* First in, first out, for any number of consumers and items: what was      *)
(* delivered and what is queued is what put accepted, in order, through      *)
(* every interleaving of gets, timers, puts, end and cancel.                 *)
THEOREM FifoOrdered == Spec => []FifoOrder
<1>1. IInv => FifoOrder
  BY DEF IInv
<1> QED
  BY FifoInvariant, <1>1, PTL

(* No consumer is left waiting while an item is queued or after the queue    *)
(* has ended.                                                                *)
THEOREM NobodyLeftWaiting == Spec => []NobodyStranded
<1>1. IInv => NobodyStranded
  BY DEF IInv
<1> QED
  BY FifoInvariant, <1>1, PTL
-----------------------------------------------------------------------------
=============================================================================
