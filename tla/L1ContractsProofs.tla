-------------------------- MODULE L1ContractsProofs --------------------------
(***************************************************************************)
(* Proofs about L1Contracts, for every set of rollups, boxes and messages, *)
(* every batch size and every bound: the registry names rollups by one     *)
(* version, every rollup's blocks form a chain, messages are withdrawn on  *)
(* L1 at most as often as the version they name emitted them, and the      *)
(* contracts implement module Bridge.                                      *)
(***************************************************************************)
EXTENDS L1Contracts, FiniteSetTheorems, SequenceTheorems, TLAPS

\* A snapshot of the registry.
Snap == [rollup : Rollups \cup {Dead}, inbox : Inboxes \cup {Dead},
         outbox : Outboxes \cup {Dead}]

\* What a rollup's chain records of a block.
Block == [header : Header, archive : Archives, l1Time : 0..MaxTime,
          inbox : Inboxes, ins : Batch(Messages),
          outbox : Outboxes, outs : Batch(OutMessages)]

\* The registry: the types of its storage, and RegistryConsistent.
RegistryOK ==
    /\ snapshots \in Seq(Snap)
    /\ Len(snapshots) \in 1..MaxVersions
    /\ rollupToVersion \in [Rollups \cup {Dead} -> 0..(Len(snapshots) - 1)]
    /\ RegistryConsistent

\* Time and the availability oracle.
OracleOK ==
    /\ now \in 1..MaxTime
    /\ available \in SUBSET TxsHashes

\* The last block of a chain left the root and the time that the rollup keeps
\* for the next one.
TipKept(r) ==
    chain[r] # <<>> =>
        /\ archive[r] = chain[r][Len(chain[r])].archive
        /\ lastBlockTs[r] = chain[r][Len(chain[r])].l1Time

\* The rollups: types, the state kept for the next block, the bound on the
\* number of blocks, and that a rollup without a version has no block.
RollupsOK ==
    /\ archive \in [Rollups -> Archives]
    /\ lastBlockTs \in [Rollups -> 0..MaxTime]
    /\ chain \in [Rollups -> Seq(Block)]
    /\ IsFiniteSet(Accepted)
    /\ Cardinality(Accepted) <= MaxBlocks
    /\ \A r \in Rollups : TipKept(r)
    /\ \A r \in Rollups : rollupToVersion[r] = 0 => chain[r] = <<>>
    /\ ChainLinked

\* The places where any block put key k in outbox o, of whatever version.
PutIn(o, k) ==
    {p \in Rollups \X (1..MaxBlocks) \X (1..BatchSize) :
        /\ p[2] <= Len(chain[p[1]])
        /\ chain[p[1]][p[2]].outbox = o
        /\ chain[p[1]][p[2]].outs[p[3]] = k}

\* One slot of an outbox: its copies are those emitted and not withdrawn, all
\* emitted by the version in the slot, which is the one k names if any copy
\* was withdrawn.
OutSlotOK(o, k) ==
    /\ withdrawn[o][k] \in Nat
    /\ IsFiniteSet(PutIn(o, k))
    /\ outbox[o][k].count + withdrawn[o][k] = Cardinality(PutIn(o, k))
    /\ \A p \in PutIn(o, k) : rollupToVersion[p[1]] = outbox[o][k].version
    /\ withdrawn[o][k] > 0 => outbox[o][k].version = k.version

\* The outboxes.
OutboxesOK ==
    /\ outbox \in [Outboxes -> [OutMessages -> Entry]]
    /\ withdrawn \in [Outboxes -> [OutMessages -> Nat]]
    /\ \A o \in Outboxes, k \in OutMessages : OutSlotOK(o, k)

\* One slot of an inbox: a pending message's entry has the version and the
\* deadline the message names, and a copy was cancelled only after the deadline.
InSlotOK(i, m) ==
    /\ inbox[i][m].count > 0 => /\ inbox[i][m].version = StoredVersion(m)
                                /\ inbox[i][m].deadline = m.deadline
    /\ cancelled[i][m] > 0 => now > m.deadline

\* The inboxes.
InboxesOK ==
    /\ inbox \in [Inboxes -> [Messages -> Entry]]
    /\ cancelled \in [Inboxes -> [Messages -> Nat]]
    /\ \A i \in Inboxes, m \in Messages : InSlotOK(i, m)
    /\ \A i \in Inboxes, m \in Messages : IsFiniteSet(Taken(i, m))

(* The inductive invariant.  WithdrawnBacked is not inductive: a withdrawal  *)
(* is covered only because the copies in the slot were emitted by the one    *)
(* version the slot names, and an upgrade must not give that version to a    *)
(* rollup that has blocks.                                                   *)
IInv == RegistryOK /\ OracleOK /\ RollupsOK /\ OutboxesOK /\ InboxesOK

-----------------------------------------------------------------------------
(* Occurrences and places *)

(* How often a key occurs in a batch is a number, positive for a key that    *)
(* occurs.                                                                   *)
LEMMA OccurrencesNat ==
    ASSUME NEW S, NEW keys \in Batch(S), NEW k
    PROVE  /\ IsFiniteSet({j \in 1..BatchSize : keys[j] = k})
           /\ Occurrences(keys, k) = Cardinality({j \in 1..BatchSize : keys[j] = k})
           /\ Occurrences(keys, k) \in Nat
           /\ Occurrences(keys, k) = 0 <=> \A j \in 1..BatchSize : keys[j] # k
<1> DEFINE J == {j \in 1..BatchSize : keys[j] = k}
<1>1. DOMAIN keys = 1..BatchSize
  BY DEF Batch
<1>2. 1 \in Int /\ BatchSize \in Int
  BY L1Assumption
<1>3. IsFiniteSet(1..BatchSize)
  BY <1>2, FS_Interval
<1>4. IsFiniteSet(J) /\ Cardinality(J) \in Nat
  BY <1>3, FS_Subset, FS_CardinalityType
<1>5. Cardinality(J) = 0 <=> J = {}
  BY <1>4, FS_EmptySet
<1> QED
  BY <1>1, <1>4, <1>5 DEF Occurrences

\* The places of key k in the message array of the n-th block of rollup r.
Spots(r, n, keys, k) == {<<r, n, j>> : j \in {x \in 1..BatchSize : keys[x] = k}}

(* They are as many as the key occurs in the array. *)
LEMMA SpotsCount ==
    ASSUME NEW r, NEW n, NEW S, NEW keys \in Batch(S), NEW k
    PROVE  /\ IsFiniteSet(Spots(r, n, keys, k))
           /\ Cardinality(Spots(r, n, keys, k)) = Occurrences(keys, k)
<1> DEFINE J == {j \in 1..BatchSize : keys[j] = k}
           N == {<<r, n, j>> : j \in J}
           f == [j \in J |-> <<r, n, j>>]
<1>1. IsFiniteSet(J) /\ Cardinality(J) = Occurrences(keys, k)
  BY OccurrencesNat
<1>2. f \in Bijection(J, N)
  <2>1. f \in [J -> N]
    OBVIOUS
  <2>2. \A a, b \in J : f[a] = f[b] => a = b
    OBVIOUS
  <2>3. \A t \in N : \E a \in J : f[a] = t
    OBVIOUS
  <2> HIDE DEF f, J, N
  <2>4. f \in Injection(J, N)
    BY <2>1, <2>2 DEF Injection, IsInjective
  <2>5. f \in Surjection(J, N)
    BY <2>1, <2>3 DEF Surjection
  <2> QED
    BY <2>4, <2>5 DEF Bijection
<1>3. IsFiniteSet(N) /\ Cardinality(N) = Cardinality(J)
  <2>1. ExistsBijection(J, N)
    BY <1>2 DEF ExistsBijection
  <2> QED
    BY <1>1, <2>1, FS_Bijection
<1>4. N = Spots(r, n, keys, k)
  BY DEF Spots
<1> QED
  BY <1>1, <1>3, <1>4

(* Disjoint finite sets add their cardinalities. *)
LEMMA DisjointUnion ==
    ASSUME NEW P, NEW N, IsFiniteSet(P), IsFiniteSet(N), P \cap N = {}
    PROVE  IsFiniteSet(P \cup N) /\ Cardinality(P \cup N) = Cardinality(P) + Cardinality(N)
<1>1. Cardinality(P \cap N) = 0 /\ Cardinality(P) \in Nat /\ Cardinality(N) \in Nat
  BY FS_EmptySet, FS_CardinalityType
<1>2. /\ IsFiniteSet(P \cup N)
      /\ Cardinality(P \cup N) = Cardinality(P) + Cardinality(N) - Cardinality(P \cap N)
  BY FS_Union
<1> QED
  BY <1>1, <1>2

(* An entry with another count is an entry, the rest of which is the same.   *)
LEMMA EntryCount ==
    ASSUME NEW e \in Entry, NEW v \in 0..MaxCount,
           NEW d, d = [e EXCEPT !.count = v]
    PROVE  /\ d \in Entry /\ d.count = v /\ d.fee = e.fee
           /\ d.version = e.version /\ d.deadline = e.deadline
BY DEF Entry

(* No chain is longer than all of them together. *)
LEMMA ChainBounded ==
    ASSUME chain \in [Rollups -> Seq(Block)], IsFiniteSet(Accepted), NEW r \in Rollups
    PROVE  Len(chain[r]) <= Cardinality(Accepted) /\ Cardinality(Accepted) \in Nat
<1> DEFINE l == Len(chain[r])
           own == {<<r, n>> : n \in 1..l}
<1>1. l \in Nat /\ DOMAIN chain[r] = 1..l
  BY LenProperties
<1> HIDE DEF l
<1>2. own \subseteq Accepted
  BY <1>1 DEF Accepted
<1>3. IsFiniteSet(1..l) /\ Cardinality(1..l) = l
  BY <1>1, FS_Interval
<1>4. IsFiniteSet(own) /\ Cardinality(own) <= Cardinality(Accepted)
  BY <1>2, FS_Subset
<1>5. Cardinality(own) = Cardinality(1..l)
  <2> DEFINE f == [n \in 1..l |-> <<r, n>>]
  <2>1. f \in Bijection(1..l, own)
    BY DEF Bijection, Injection, Surjection, IsInjective
  <2> HIDE DEF f, own
  <2> QED
    BY <1>3, <1>4, <2>1, FS_Bijection DEF ExistsBijection
<1> HIDE DEF own
<1> QED
  BY <1>1, <1>3, <1>4, <1>5, FS_CardinalityType DEF l

-----------------------------------------------------------------------------
(* The initial state and the parts of it that an action leaves alone *)

(* The contracts as deployed satisfy the invariant. *)
LEMMA InitInv == Init => IInv
<1> SUFFICES ASSUME Init PROVE IInv
  OBVIOUS
<1>1. EmptyEntry \in Entry
  BY MaxCountAssumption DEF EmptyEntry, Entry
<1>2. RegistryOK
  <2> DEFINE s0 == [rollup |-> Dead, inbox |-> Dead, outbox |-> Dead]
  <2>1. snapshots = <<s0>> /\ s0 \in Snap
    BY DEF Init, Snap
  <2>2. snapshots \in Seq(Snap) /\ Len(snapshots) = 1
    BY <2>1
  <2>3. rollupToVersion \in [Rollups \cup {Dead} -> {0}]
    BY DEF Init
  <2>4. RegistryConsistent
    BY <2>2, <2>3 DEF RegistryConsistent, IsRegistered
  <2> QED
    BY <2>2, <2>3, <2>4, L1Assumption DEF RegistryOK
<1>3. OracleOK
  BY L1Assumption DEF Init, OracleOK
<1>4. chain = [r \in Rollups |-> <<>>] /\ \A r \in Rollups : Len(chain[r]) = 0
  BY DEF Init
<1>5. RollupsOK
  <2>1. chain \in [Rollups -> Seq(Block)]
    BY <1>4, EmptySeq
  <2>2. Accepted = {}
    BY <1>4 DEF Accepted
  <2>3. IsFiniteSet(Accepted) /\ Cardinality(Accepted) <= MaxBlocks
    BY <2>2, FS_EmptySet, L1Assumption
  <2>4. ChainLinked
    BY <1>4 DEF ChainLinked
  <2> QED
    BY <1>4, <2>1, <2>3, <2>4, L1Assumption DEF Init, RollupsOK, TipKept
<1>6. OutboxesOK
  <2>1. \A o, k : PutIn(o, k) = {}
    BY <1>4 DEF PutIn
  <2>2. \A o \in Outboxes, k \in OutMessages : OutSlotOK(o, k)
    <3> SUFFICES ASSUME NEW o \in Outboxes, NEW k \in OutMessages
                 PROVE  OutSlotOK(o, k)
      OBVIOUS
    <3>1. outbox[o][k].count = 0 /\ withdrawn[o][k] = 0
      BY DEF Init, EmptyEntry
    <3>2. IsFiniteSet(PutIn(o, k)) /\ Cardinality(PutIn(o, k)) = 0
      BY <2>1, FS_EmptySet
    <3> QED
      BY <2>1, <3>1, <3>2 DEF OutSlotOK
  <2> QED
    BY <1>1, <2>2 DEF Init, OutboxesOK
<1>7. InboxesOK
  <2>1. \A i, m : Taken(i, m) = {}
    BY <1>4 DEF Taken
  <2>2. \A i \in Inboxes, m \in Messages : InSlotOK(i, m)
    BY DEF Init, InSlotOK, EmptyEntry
  <2> QED
    BY <1>1, <2>1, <2>2, FS_EmptySet DEF Init, InboxesOK
<1> QED
  BY <1>2, <1>3, <1>5, <1>6, <1>7 DEF IInv

(* A transaction that does not touch the registry keeps its part. *)
LEMMA RegistryFrame ==
    ASSUME RegistryOK, UNCHANGED registryVars
    PROVE  RegistryOK'
BY DEF RegistryOK, registryVars, RegistryConsistent, IsRegistered

(* Nor does one that does not touch the rollups disturb theirs. *)
LEMMA RollupsFrame ==
    ASSUME RollupsOK, UNCHANGED rollupVars, UNCHANGED rollupToVersion
    PROVE  RollupsOK'
BY DEF RollupsOK, rollupVars, TipKept, ChainLinked, Accepted

(* Nor one that does not touch the outboxes and the chains. *)
LEMMA OutboxesFrame ==
    ASSUME OutboxesOK, UNCHANGED outboxVars, UNCHANGED chain, UNCHANGED rollupToVersion
    PROVE  OutboxesOK'
<1>1. outbox' = outbox /\ withdrawn' = withdrawn
  BY DEF outboxVars
<1>2. ASSUME NEW o \in Outboxes, NEW k \in OutMessages
      PROVE  OutSlotOK(o, k)'
  <2>1. PutIn(o, k)' = PutIn(o, k)
    BY DEF PutIn
  <2>2. OutSlotOK(o, k)
    BY DEF OutboxesOK
  <2> QED
    BY <1>1, <2>1, <2>2 DEF OutSlotOK
<1> QED
  BY <1>1, <1>2 DEF OutboxesOK

(* Nor one that does not touch the inboxes, the chains and the time. *)
LEMMA InboxesFrame ==
    ASSUME InboxesOK, UNCHANGED inboxVars, UNCHANGED chain, UNCHANGED rollupToVersion,
           UNCHANGED now
    PROVE  InboxesOK'
BY DEF InboxesOK, inboxVars, InSlotOK, Taken

-----------------------------------------------------------------------------
(* The actions *)

(* A rollup that is given a version had none, and so no block: what the      *)
(* blocks of any version did stays the same.                                 *)
LEMMA UpgradeKeepsPlaces ==
    ASSUME IInv, NEW r \in Rollups \cup {Dead}, NEW i \in Inboxes, NEW o \in Outboxes,
           Upgrade(r, i, o)
    PROVE  /\ UNCHANGED chain
           /\ \A q \in Rollups : chain[q] # <<>> => rollupToVersion'[q] = rollupToVersion[q]
           /\ \A b \in Inboxes, m \in Messages : Taken(b, m)' = Taken(b, m)
<1>1. /\ rollupToVersion[r] = 0 /\ chain' = chain
      /\ rollupToVersion' = [rollupToVersion EXCEPT ![r] = Len(snapshots)]
  <2>1. rollupToVersion[r] \in Nat
    BY DEF IInv, RegistryOK
  <2> QED
    BY <2>1 DEF Upgrade, CanUpgrade, IsRegistered, rollupVars
<1>2. \A q \in Rollups : chain[q] # <<>> => rollupToVersion'[q] = rollupToVersion[q]
  BY <1>1 DEF IInv, RegistryOK, RollupsOK
<1>3. \A q \in Rollups : \A n \in 1..MaxBlocks : n <= Len(chain[q]) => chain[q] # <<>>
  BY DEF IInv, RollupsOK
<1>4. \A b \in Inboxes, m \in Messages : Taken(b, m)' = Taken(b, m)
  BY <1>1, <1>2, <1>3 DEF Taken
<1> QED
  BY <1>1, <1>2, <1>4

(* upgrade keeps the invariant: the new version is larger than any given. *)
LEMMA UpgradeInv ==
    ASSUME IInv, NEW r \in Rollups \cup {Dead}, NEW i \in Inboxes, NEW o \in Outboxes,
           Upgrade(r, i, o)
    PROVE  IInv'
<1> DEFINE s == [rollup |-> r, inbox |-> i, outbox |-> o]
           n == Len(snapshots)
<1>1. /\ n < MaxVersions /\ ~ (rollupToVersion[r] > 0)
      /\ snapshots' = Append(snapshots, s)
      /\ rollupToVersion' = [rollupToVersion EXCEPT ![r] = n]
      /\ UNCHANGED <<now, available>> /\ UNCHANGED rollupVars
      /\ UNCHANGED inboxVars /\ UNCHANGED outboxVars
  BY DEF Upgrade, CanUpgrade, IsRegistered
<1>2. /\ UNCHANGED chain
      /\ \A q \in Rollups : chain[q] # <<>> => rollupToVersion'[q] = rollupToVersion[q]
      /\ \A b \in Inboxes, m \in Messages : Taken(b, m)' = Taken(b, m)
  BY UpgradeKeepsPlaces
<1>3. RegistryOK'
  <2>1. /\ snapshots \in Seq(Snap) /\ n \in 1..MaxVersions /\ n \in Nat
        /\ rollupToVersion \in [Rollups \cup {Dead} -> 0..(n - 1)]
        /\ RegistryConsistent
    BY DEF IInv, RegistryOK
  <2>2. s \in Snap /\ s.rollup = r
    BY DEF Snap
  <2> HIDE DEF s, n
  <2>3. /\ snapshots' \in Seq(Snap) /\ Len(snapshots') = n + 1
        /\ \A j \in 1..n : snapshots'[j] = snapshots[j]
        /\ snapshots'[n + 1] = s
    BY <1>1, <2>1, <2>2, AppendProperties DEF n
  <2>4. rollupToVersion' \in [Rollups \cup {Dead} -> 0..n]
    BY <1>1, <2>1
  <2>5. rollupToVersion[r] = 0
    BY <1>1, <2>1
  <2>6. ASSUME NEW j \in 2..(n + 1)
        PROVE  rollupToVersion'[snapshots'[j].rollup] = j - 1
    <3>1. CASE j = n + 1
      BY <1>1, <2>1, <2>2, <2>3, <3>1
    <3>2. CASE j # n + 1
      <4>1. j \in 2..n /\ j \in 1..n /\ snapshots'[j] = snapshots[j]
        BY <2>1, <2>3, <3>2
      <4>2. rollupToVersion[snapshots[j].rollup] = j - 1
        BY <2>1, <4>1 DEF RegistryConsistent, n
      <4>3. snapshots[j].rollup \in Rollups \cup {Dead}
        <5>1. snapshots[j] \in Snap
          BY <2>1, <4>1, ElementOfSeq DEF n
        <5> QED
          BY <5>1 DEF Snap
      <4>4. snapshots[j].rollup # r
        BY <2>1, <2>5, <4>1, <4>2
      <4> QED
        BY <1>1, <2>1, <4>1, <4>2, <4>3, <4>4
    <3> QED
      BY <3>1, <3>2
  <2>7. ASSUME NEW q \in Rollups \cup {Dead}, rollupToVersion'[q] > 0
        PROVE  snapshots'[rollupToVersion'[q] + 1].rollup = q
    <3>1. CASE q = r
      BY <1>1, <2>1, <2>2, <2>3, <3>1
    <3>2. CASE q # r
      <4>1. rollupToVersion'[q] = rollupToVersion[q] /\ rollupToVersion[q] + 1 \in 1..n
        BY <1>1, <2>1, <3>2
      <4>2. snapshots[rollupToVersion[q] + 1].rollup = q
        BY <2>1, <2>7, <4>1 DEF RegistryConsistent, IsRegistered
      <4> QED
        BY <2>3, <4>1, <4>2
    <3> QED
      BY <3>1, <3>2
  <2>8. RegistryConsistent'
    BY <2>3, <2>6, <2>7 DEF RegistryConsistent, IsRegistered
  <2>9. Len(snapshots') \in 1..MaxVersions /\ Len(snapshots') - 1 = n
    BY <1>1, <2>1, <2>3, L1Assumption
  <2>10. rollupToVersion' \in [Rollups \cup {Dead} -> 0..(Len(snapshots') - 1)]
    BY <2>4, <2>9, Zenon
  <2> QED
    BY <2>3, <2>8, <2>9, <2>10 DEF RegistryOK
<1>4. OracleOK'
  BY <1>1 DEF IInv, OracleOK
<1>5. RollupsOK'
  <2>1. /\ archive' = archive /\ lastBlockTs' = lastBlockTs /\ chain' = chain
    BY <1>1 DEF rollupVars
  <2>2. \A q \in Rollups : rollupToVersion'[q] = 0 => chain'[q] = <<>>
    BY <1>2, <2>1 DEF IInv, RollupsOK
  <2> QED
    BY <2>1, <2>2 DEF IInv, RollupsOK, TipKept, ChainLinked, Accepted
<1>6. OutboxesOK'
  <2>1. \A b \in Outboxes, k \in OutMessages : PutIn(b, k)' = PutIn(b, k)
    BY <1>2 DEF PutIn
  <2>2. \A b \in Outboxes, k \in OutMessages : \A p \in PutIn(b, k) :
            p[1] \in Rollups /\ chain[p[1]] # <<>>
    BY DEF PutIn, IInv, RollupsOK
  <2>3. outbox' = outbox /\ withdrawn' = withdrawn
    BY <1>1 DEF outboxVars
  <2>4. ASSUME NEW b \in Outboxes, NEW k \in OutMessages
        PROVE  OutSlotOK(b, k)'
    <3>1. OutSlotOK(b, k)
      BY DEF IInv, OutboxesOK
    <3> QED
      BY <1>2, <2>1, <2>2, <2>3, <3>1 DEF OutSlotOK
  <2> QED
    BY <2>3, <2>4 DEF IInv, OutboxesOK
<1>7. InboxesOK'
  BY <1>1, <1>2 DEF IInv, InboxesOK, inboxVars, InSlotOK
<1> QED
  BY <1>3, <1>4, <1>5, <1>6, <1>7 DEF IInv

(* sendL2Message keeps it: an insertion into a slot that already holds       *)
(* copies leaves the version and the deadline the message names.             *)
LEMMA SendInv ==
    ASSUME IInv, NEW i \in Inboxes, NEW m \in Messages, SendL2Message(i, m)
    PROVE  IInv'
<1> DEFINE e == [fee |-> StoredFee(m), count |-> inbox[i][m].count + 1,
                 version |-> StoredVersion(m), deadline |-> m.deadline]
<1>1. /\ inbox[i][m].count + 1 <= MaxCount /\ m.deadline > now
      /\ inbox' = [inbox EXCEPT ![i] = [inbox[i] EXCEPT ![m] = e]]
      /\ UNCHANGED <<now, cancelled, available>> /\ UNCHANGED registryVars
      /\ UNCHANGED rollupVars /\ UNCHANGED outboxVars
  BY DEF SendL2Message, CanSend, CanInsert, Deposit, Insert
<1>2. /\ inbox \in [Inboxes -> [Messages -> Entry]]
      /\ cancelled \in [Inboxes -> [Messages -> Nat]]
  BY DEF IInv, InboxesOK
<1>3. e \in Entry
  <2>1. StoredFee(m) \in Nat /\ StoredVersion(m) \in Nat /\ m.deadline \in Nat
    BY L1Assumption, RulesAssumption DEF StoredFee, StoredVersion
  <2>2. inbox[i][m].count \in Nat
    BY <1>2 DEF Entry
  <2>3. inbox[i][m].count + 1 \in 0..MaxCount
    BY <1>1, <2>2, MaxCountAssumption
  <2> QED
    BY <2>1, <2>3 DEF Entry
<1>4. /\ e.version = StoredVersion(m) /\ e.deadline = m.deadline
  OBVIOUS
<1> HIDE DEF e
<1>5. inbox' \in [Inboxes -> [Messages -> Entry]]
  BY <1>1, <1>2, <1>3
<1>6. \A b \in Inboxes, k \in Messages :
         inbox'[b][k] = IF b = i /\ k = m THEN e ELSE inbox[b][k]
  BY <1>1, <1>2
<1>7. \A b \in Inboxes, k \in Messages : InSlotOK(b, k)'
  BY <1>1, <1>4, <1>6 DEF IInv, InboxesOK, InSlotOK
<1>8. \A b \in Inboxes, k \in Messages : Taken(b, k)' = Taken(b, k)
  BY <1>1 DEF Taken, registryVars, rollupVars
<1>9. InboxesOK'
  BY <1>1, <1>5, <1>7, <1>8 DEF IInv, InboxesOK
<1>10. RegistryOK' /\ RollupsOK' /\ OutboxesOK' /\ OracleOK'
  BY <1>1, RegistryFrame, RollupsFrame, OutboxesFrame
     DEF IInv, registryVars, rollupVars, OracleOK
<1> QED
  BY <1>9, <1>10 DEF IInv

(* cancelL2Message keeps it: a copy is returned only after the deadline. *)
LEMMA CancelInv ==
    ASSUME IInv, NEW i \in Inboxes, NEW m \in Messages, CancelL2Message(i, m)
    PROVE  IInv'
<1> DEFINE e == [inbox[i][m] EXCEPT !.count = @ - 1]
<1>1. /\ now > m.deadline /\ inbox[i][m].count > 0
      /\ inbox' = [inbox EXCEPT ![i][m].count = @ - 1]
      /\ cancelled' = [cancelled EXCEPT ![i][m] = @ + 1]
      /\ UNCHANGED <<now, available>> /\ UNCHANGED registryVars
      /\ UNCHANGED rollupVars /\ UNCHANGED outboxVars
  BY DEF CancelL2Message, PastDeadline, Contains
<1>2. /\ inbox \in [Inboxes -> [Messages -> Entry]] /\ inbox[i][m] \in Entry
      /\ cancelled \in [Inboxes -> [Messages -> Nat]]
  BY DEF IInv, InboxesOK
<1>3. e \in Entry /\ e.version = inbox[i][m].version
      /\ e.deadline = inbox[i][m].deadline /\ e.count = inbox[i][m].count - 1
      /\ inbox[i][m].count \in Nat
  <2>1. inbox[i][m].count \in 0..MaxCount
    BY <1>2 DEF Entry
  <2>2. inbox[i][m].count - 1 \in 0..MaxCount
    BY <1>1, <2>1, MaxCountAssumption
  <2> QED
    BY <1>2, <2>1, <2>2, EntryCount
<1> HIDE DEF e
<1>5. /\ inbox' \in [Inboxes -> [Messages -> Entry]]
      /\ cancelled' \in [Inboxes -> [Messages -> Nat]]
      /\ \A b \in Inboxes, k \in Messages :
            inbox'[b][k] = IF b = i /\ k = m THEN e ELSE inbox[b][k]
      /\ \A b \in Inboxes, k \in Messages :
            b # i \/ k # m => cancelled'[b][k] = cancelled[b][k]
  <2>1. inbox' = [inbox EXCEPT ![i] = [inbox[i] EXCEPT ![m] = e]]
    BY <1>1 DEF e
  <2>2. cancelled[i][m] + 1 \in Nat
    BY <1>2
  <2>3. /\ inbox' \in [Inboxes -> [Messages -> Entry]]
        /\ \A b \in Inboxes, k \in Messages :
              inbox'[b][k] = IF b = i /\ k = m THEN e ELSE inbox[b][k]
    BY <1>2, <1>3, <2>1
  <2> QED
    BY <1>1, <1>2, <2>2, <2>3
<1>6. \A b \in Inboxes, k \in Messages : InSlotOK(b, k)'
  BY <1>1, <1>3, <1>5 DEF IInv, InboxesOK, InSlotOK
<1>7. \A b \in Inboxes, k \in Messages : Taken(b, k)' = Taken(b, k)
  BY <1>1 DEF Taken, registryVars, rollupVars
<1>8. InboxesOK'
  BY <1>5, <1>6, <1>7 DEF IInv, InboxesOK
<1>9. RegistryOK' /\ RollupsOK' /\ OutboxesOK' /\ OracleOK'
  BY <1>1, RegistryFrame, RollupsFrame, OutboxesFrame
     DEF IInv, registryVars, rollupVars, OracleOK
<1> QED
  BY <1>8, <1>9 DEF IInv

(* Outbox.consume keeps it: one copy moves from the slot to the withdrawn,   *)
(* and the slot holds the version the message names.                         *)
LEMMA ConsumeInv ==
    ASSUME IInv, NEW o \in Outboxes, NEW k \in OutMessages, ConsumeL1Message(o, k)
    PROVE  IInv'
<1> DEFINE e == [outbox[o][k] EXCEPT !.count = @ - 1]
<1>1. /\ outbox[o][k].count > 0 /\ outbox[o][k].version = k.version
      /\ outbox' = [outbox EXCEPT ![o][k].count = @ - 1]
      /\ withdrawn' = [withdrawn EXCEPT ![o][k] = @ + 1]
      /\ UNCHANGED <<now, available>> /\ UNCHANGED registryVars
      /\ UNCHANGED rollupVars /\ UNCHANGED inboxVars
  BY DEF ConsumeL1Message, Contains
<1>2. /\ outbox \in [Outboxes -> [OutMessages -> Entry]] /\ outbox[o][k] \in Entry
      /\ withdrawn \in [Outboxes -> [OutMessages -> Nat]]
  BY DEF IInv, OutboxesOK
<1>3. e \in Entry /\ e.version = outbox[o][k].version
      /\ e.deadline = outbox[o][k].deadline /\ e.count = outbox[o][k].count - 1
      /\ outbox[o][k].count \in Nat
  <2>1. outbox[o][k].count \in 0..MaxCount
    BY <1>2 DEF Entry
  <2>2. outbox[o][k].count - 1 \in 0..MaxCount
    BY <1>1, <2>1, MaxCountAssumption
  <2> QED
    BY <1>2, <2>1, <2>2, EntryCount
<1> HIDE DEF e
<1>5. /\ outbox' \in [Outboxes -> [OutMessages -> Entry]]
      /\ withdrawn' \in [Outboxes -> [OutMessages -> Nat]]
      /\ \A b \in Outboxes, x \in OutMessages :
            outbox'[b][x] = IF b = o /\ x = k THEN e ELSE outbox[b][x]
      /\ \A b \in Outboxes, x \in OutMessages :
            withdrawn'[b][x] = IF b = o /\ x = k THEN withdrawn[b][x] + 1
                                                 ELSE withdrawn[b][x]
  <2>1. outbox' = [outbox EXCEPT ![o] = [outbox[o] EXCEPT ![k] = e]]
    BY <1>1 DEF e
  <2>2. withdrawn[o][k] + 1 \in Nat
    BY <1>2
  <2>3. /\ outbox' \in [Outboxes -> [OutMessages -> Entry]]
        /\ \A b \in Outboxes, x \in OutMessages :
              outbox'[b][x] = IF b = o /\ x = k THEN e ELSE outbox[b][x]
    BY <1>2, <1>3, <2>1
  <2> QED
    BY <1>1, <1>2, <2>2, <2>3
<1>6. ASSUME NEW b \in Outboxes, NEW x \in OutMessages
      PROVE  OutSlotOK(b, x)'
  <2>1. PutIn(b, x)' = PutIn(b, x) /\ rollupToVersion' = rollupToVersion
    BY <1>1 DEF PutIn, registryVars, rollupVars
  <2>2. OutSlotOK(b, x)
    BY DEF IInv, OutboxesOK
  <2>3. CASE b = o /\ x = k
    <3>1. /\ withdrawn'[b][x] = withdrawn[b][x] + 1
          /\ outbox'[b][x].count = outbox[b][x].count - 1
          /\ outbox'[b][x].version = outbox[b][x].version
          /\ outbox[b][x].count \in Nat /\ outbox[b][x].version = x.version
      BY <1>1, <1>3, <1>5, <2>3
    <3>2. withdrawn'[b][x] \in Nat
          /\ outbox'[b][x].count + withdrawn'[b][x] = Cardinality(PutIn(b, x))
      BY <2>2, <3>1 DEF OutSlotOK
    <3> QED
      BY <2>1, <2>2, <3>1, <3>2 DEF OutSlotOK
  <2>4. CASE ~ (b = o /\ x = k)
    BY <1>5, <2>1, <2>2, <2>4 DEF OutSlotOK
  <2> QED
    BY <2>3, <2>4
<1>7. OutboxesOK'
  BY <1>5, <1>6 DEF OutboxesOK
<1>8. RegistryOK' /\ RollupsOK' /\ InboxesOK' /\ OracleOK'
  BY <1>1, RegistryFrame, RollupsFrame, InboxesFrame
     DEF IInv, registryVars, rollupVars, OracleOK
<1> QED
  BY <1>7, <1>8 DEF IInv

(* publish and the passing of time keep it. *)
LEMMA OracleInv ==
    ASSUME IInv, Tick \/ \E h \in TxsHashes : Publish(h)
    PROVE  IInv'
<1>1. /\ UNCHANGED registryVars /\ UNCHANGED rollupVars /\ UNCHANGED inboxVars
      /\ UNCHANGED outboxVars
      /\ now' = now \/ (now < MaxTime /\ now' = now + 1)
      /\ available' \in SUBSET TxsHashes
  <2>1. available \in SUBSET TxsHashes
    BY DEF IInv, OracleOK
  <2>2. CASE Tick
    BY <2>1, <2>2 DEF Tick
  <2>3. CASE \E h \in TxsHashes : Publish(h)
    <3>1. PICK h \in TxsHashes : Publish(h)
      BY <2>3
    <3>2. available' = available \cup {h}
      BY <3>1 DEF Publish
    <3>3. available' \in SUBSET TxsHashes
      BY <2>1, <3>2
    <3>4. /\ now' = now /\ UNCHANGED registryVars /\ UNCHANGED rollupVars
          /\ UNCHANGED inboxVars /\ UNCHANGED outboxVars
      BY <3>1 DEF Publish
    <3> QED
      BY <3>3, <3>4
  <2> QED
    BY <2>2, <2>3
<1>2. now \in Nat /\ now' \in Nat /\ now' >= now /\ OracleOK'
  BY <1>1, L1Assumption DEF IInv, OracleOK
<1>3. \A b \in Inboxes, k \in Messages : InSlotOK(b, k)'
  BY <1>1, <1>2, L1Assumption DEF IInv, InboxesOK, InSlotOK, inboxVars
<1>4. \A b \in Inboxes, k \in Messages : Taken(b, k)' = Taken(b, k)
  BY <1>1 DEF Taken, registryVars, rollupVars
<1>5. InboxesOK'
  BY <1>1, <1>3, <1>4 DEF IInv, InboxesOK, inboxVars
<1>6. RegistryOK' /\ RollupsOK' /\ OutboxesOK'
  BY <1>1, RegistryFrame, RollupsFrame, OutboxesFrame DEF IInv, registryVars, rollupVars
<1> QED
  BY <1>2, <1>5, <1>6 DEF IInv

(* What a block does, with the boxes of the current snapshot named. *)
LEMMA ProcessFacts ==
    ASSUME IInv, NEW r \in Rollups, NEW h \in Header, NEW root \in Archives,
           NEW ins \in Batch(Messages), NEW outs \in Batch(OutMessages),
           Cardinality(Accepted) < MaxBlocks, Process(r, h, root, ins, outs)
    PROVE  \E i \in Inboxes, o \in Outboxes :
              LET version == rollupToVersion[r]
                  b == [header |-> h, archive |-> root, l1Time |-> now,
                        inbox |-> i, ins |-> ins, outbox |-> o, outs |-> outs]
              IN  /\ Cardinality(Accepted) < MaxBlocks
                  /\ Valid(h, lastBlockTs[r], archive[r])
                  /\ version \in Nat /\ version > 0
                  /\ CanBatchConsume(inbox[i], now, ins, version)
                  /\ CanSendL1Messages(outbox[o], outs, version)
                  /\ archive' = [archive EXCEPT ![r] = root]
                  /\ lastBlockTs' = [lastBlockTs EXCEPT ![r] = now]
                  /\ inbox' = [inbox EXCEPT ![i] = ConsumeAll(inbox[i], ins)]
                  /\ outbox' = [outbox EXCEPT ![o] = SendL1Messages(outbox[o], outs, version)]
                  /\ b \in Block
                  /\ chain' = [chain EXCEPT ![r] = Append(chain[r], b)]
                  /\ UNCHANGED <<now, available, sent, cancelled, withdrawn>>
                  /\ UNCHANGED <<snapshots, rollupToVersion>>
<1> DEFINE i == CurrentSnapshot.inbox
           o == CurrentSnapshot.outbox
<1>1. i \in Inboxes /\ o \in Outboxes
  BY DEF Process
<1>2. rollupToVersion[r] \in Nat /\ now \in 0..MaxTime
  BY L1Assumption DEF IInv, RegistryOK, OracleOK
<1>3. [header |-> h, archive |-> root, l1Time |-> now, inbox |-> i, ins |-> ins,
       outbox |-> o, outs |-> outs] \in Block
  BY <1>1, <1>2 DEF Block
<1>4. rollupToVersion[r] > 0
  BY DEF Process, IsRegistered
<1> USE <1>1
<1> WITNESS i \in Inboxes, o \in Outboxes
<1> QED
  BY <1>2, <1>3, <1>4 DEF Process, registryVars

(* A block added to a chain: the chain is longer by one and otherwise the    *)
(* same.                                                                     *)
LEMMA ChainGrows ==
    ASSUME chain \in [Rollups -> Seq(Block)], NEW r \in Rollups, NEW b \in Block,
           chain' = [chain EXCEPT ![r] = Append(chain[r], b)]
    PROVE  /\ chain' \in [Rollups -> Seq(Block)]
           /\ \A q \in Rollups : q # r => chain'[q] = chain[q]
           /\ Len(chain[r]) \in Nat
           /\ Len(chain'[r]) = Len(chain[r]) + 1
           /\ \A n \in 1..Len(chain[r]) : chain'[r][n] = chain[r][n]
           /\ chain'[r][Len(chain[r]) + 1] = b
<1>1. chain[r] \in Seq(Block) /\ chain'[r] = Append(chain[r], b)
  OBVIOUS
<1>2. Append(chain[r], b) \in Seq(Block)
  BY <1>1, AppendProperties
<1>3. chain' \in [Rollups -> Seq(Block)] /\ \A q \in Rollups : q # r => chain'[q] = chain[q]
  BY <1>2
<1> QED
  BY <1>1, <1>3, AppendProperties, LenProperties

(* A block keeps the rollups' part: it is valid only on the root and not     *)
(* before the time its predecessor left.                                     *)
LEMMA ProcessRollups ==
    ASSUME IInv, NEW r \in Rollups, NEW b \in Block,
           Cardinality(Accepted) < MaxBlocks,
           Valid(b.header, lastBlockTs[r], archive[r]), b.l1Time = now,
           rollupToVersion[r] > 0, UNCHANGED rollupToVersion,
           archive' = [archive EXCEPT ![r] = b.archive],
           lastBlockTs' = [lastBlockTs EXCEPT ![r] = now],
           chain' = [chain EXCEPT ![r] = Append(chain[r], b)]
    PROVE  RollupsOK'
<1> DEFINE l == Len(chain[r])
<1>1. RollupsOK /\ chain \in [Rollups -> Seq(Block)] /\ chain[r] \in Seq(Block)
  BY DEF IInv, RollupsOK
<1>2. /\ chain' \in [Rollups -> Seq(Block)]
      /\ \A q \in Rollups : q # r => chain'[q] = chain[q]
      /\ l \in Nat /\ Len(chain'[r]) = l + 1
      /\ \A n \in 1..l : chain'[r][n] = chain[r][n]
      /\ chain'[r][l + 1] = b
  BY <1>1, ChainGrows
<1> HIDE DEF l
<1>3. b.archive \in Archives /\ now \in 0..MaxTime
  BY DEF Block, IInv, OracleOK
<1>4. /\ archive' \in [Rollups -> Archives]
      /\ lastBlockTs' \in [Rollups -> 0..MaxTime]
  BY <1>1, <1>3 DEF RollupsOK
<1>5. IsFiniteSet(Accepted)' /\ Cardinality(Accepted)' <= MaxBlocks
  <2>1. /\ \A q \in Rollups : DOMAIN chain[q] = 1..Len(chain[q])
        /\ \A q \in Rollups : DOMAIN chain'[q] = 1..Len(chain'[q])
    BY <1>1, <1>2, LenProperties
  <2>2. 1..(l + 1) = (1..l) \cup {l + 1}
    BY <1>2
  <2>3. DOMAIN chain'[r] = DOMAIN chain[r] \cup {l + 1}
    BY <1>2, <2>1, <2>2 DEF l
  <2>4. Accepted' = Accepted \cup {<<r, l + 1>>}
    BY <1>2, <2>3 DEF Accepted
  <2>5. <<r, l + 1>> \notin Accepted
    BY <1>2, <2>1 DEF Accepted, l
  <2>6. IsFiniteSet(Accepted)
    BY <1>1 DEF RollupsOK
  <2>7. /\ IsFiniteSet(Accepted \cup {<<r, l + 1>>})
        /\ Cardinality(Accepted \cup {<<r, l + 1>>}) = Cardinality(Accepted) + 1
    BY <2>5, <2>6, FS_AddElement
  <2>8. Cardinality(Accepted) \in Nat
    BY <2>6, FS_CardinalityType
  <2> QED
    BY <2>4, <2>7, <2>8, L1Assumption
<1>6. \A q \in Rollups : TipKept(q)'
  <2> SUFFICES ASSUME NEW q \in Rollups PROVE TipKept(q)'
    OBVIOUS
  <2>1. CASE q = r
    <3>1. archive'[r] = b.archive /\ lastBlockTs'[r] = b.l1Time
      BY <1>1 DEF RollupsOK
    <3> QED
      BY <1>2, <2>1, <3>1 DEF TipKept
  <2>2. CASE q # r
    BY <1>1, <1>2, <2>2 DEF RollupsOK, TipKept
  <2> QED
    BY <2>1, <2>2
<1>7. \A q \in Rollups : rollupToVersion'[q] = 0 => chain'[q] = <<>>
  BY <1>1, <1>2 DEF RollupsOK
<1>8. ChainLinked'
  <2> DEFINE Linked(x, y) == /\ x.archive # NoArchive => y.header.lastArchive = x.archive
                             /\ x.l1Time <= y.header.timestamp
                             /\ y.header.timestamp <= y.l1Time
  <2>1. \A q \in Rollups : \A n \in 1..(Len(chain[q]) - 1) :
           Linked(chain[q][n], chain[q][n + 1])
    BY <1>1 DEF RollupsOK, ChainLinked
  <2>2. ASSUME l > 0
        PROVE  Linked(chain[r][l], b)
    <3>1. chain[r] # <<>>
      BY <2>2 DEF l
    <3>2. archive[r] = chain[r][l].archive /\ lastBlockTs[r] = chain[r][l].l1Time
      BY <1>1, <3>1 DEF RollupsOK, TipKept, l
    <3> QED
      BY <3>2 DEF Valid
  <2> HIDE DEF Linked
  <2>3. ASSUME NEW q \in Rollups, NEW n \in 1..(Len(chain'[q]) - 1)
        PROVE  Linked(chain'[q][n], chain'[q][n + 1])
    <3>1. CASE q # r
      BY <1>2, <2>1, <3>1
    <3>2. CASE q = r /\ n = l
      BY <1>2, <2>2, <3>2
    <3>3. CASE q = r /\ n # l
      <4>1. n \in 1..l /\ n + 1 \in 1..l /\ n \in 1..(l - 1)
        BY <1>2, <3>3
      <4> QED
        BY <1>2, <2>1, <3>3, <4>1 DEF l
    <3> QED
      BY <3>1, <3>2, <3>3
  <2> QED
    BY <2>3 DEF ChainLinked, Linked
<1> QED
  BY <1>2, <1>4, <1>5, <1>6, <1>7, <1>8 DEF RollupsOK

(* The place of the new block is within the bound, and new. *)
LEMMA NewPlace ==
    ASSUME IInv, NEW r \in Rollups, NEW b \in Block,
           Cardinality(Accepted) < MaxBlocks,
           chain' = [chain EXCEPT ![r] = Append(chain[r], b)]
    PROVE  /\ Len(chain[r]) + 1 \in 1..MaxBlocks
           /\ \A q \in Rollups : \A n \in 1..MaxBlocks :
                 n <= Len(chain'[q]) <=>
                     n <= Len(chain[q]) \/ (q = r /\ n = Len(chain[r]) + 1)
           /\ \A q \in Rollups : \A n \in 1..MaxBlocks :
                 n <= Len(chain[q]) => chain'[q][n] = chain[q][n]
           /\ chain'[r][Len(chain[r]) + 1] = b
<1>1. chain \in [Rollups -> Seq(Block)] /\ IsFiniteSet(Accepted)
  BY DEF IInv, RollupsOK
<1>3. Len(chain[r]) <= Cardinality(Accepted) /\ Cardinality(Accepted) \in Nat
  BY <1>1, ChainBounded
<1>5. \A q \in Rollups : Len(chain[q]) \in Nat
  BY <1>1, LenProperties
<1>6. Len(chain[r]) + 1 \in 1..MaxBlocks
  BY <1>3, <1>5, L1Assumption
<1>7. /\ \A q \in Rollups : q # r => chain'[q] = chain[q]
      /\ Len(chain'[r]) = Len(chain[r]) + 1
      /\ \A n \in 1..Len(chain[r]) : chain'[r][n] = chain[r][n]
      /\ chain'[r][Len(chain[r]) + 1] = b
  BY <1>1, ChainGrows
<1>8. ASSUME NEW q \in Rollups, NEW n \in 1..MaxBlocks
      PROVE  /\ n <= Len(chain'[q]) <=>
                    n <= Len(chain[q]) \/ (q = r /\ n = Len(chain[r]) + 1)
             /\ n <= Len(chain[q]) => chain'[q][n] = chain[q][n]
  <2>1. CASE q = r
    BY <1>5, <1>7, <2>1
  <2>2. CASE q # r
    BY <1>7, <2>2
  <2> QED
    BY <2>1, <2>2
<1> QED
  BY <1>6, <1>7, <1>8

(* A block keeps the outboxes' part: it adds copies of one version only, and *)
(* sendL1Messages refuses a slot that holds another.                         *)
LEMMA ProcessOutboxes ==
    ASSUME IInv, NEW r \in Rollups, NEW b \in Block, NEW o \in Outboxes,
           b.outbox = o,
           Cardinality(Accepted) < MaxBlocks,
           rollupToVersion[r] > 0, UNCHANGED rollupToVersion,
           CanSendL1Messages(outbox[o], b.outs, rollupToVersion[r]),
           outbox' = [outbox EXCEPT ![o] =
                         SendL1Messages(outbox[o], b.outs, rollupToVersion[r])],
           UNCHANGED withdrawn,
           chain' = [chain EXCEPT ![r] = Append(chain[r], b)]
    PROVE  OutboxesOK'
<1> DEFINE n == Len(chain[r]) + 1
           version == rollupToVersion[r]
           outs == b.outs
<1>1. /\ n \in 1..MaxBlocks
      /\ \A q \in Rollups : \A x \in 1..MaxBlocks :
            x <= Len(chain'[q]) <=> x <= Len(chain[q]) \/ (q = r /\ x = n)
      /\ \A q \in Rollups : \A x \in 1..MaxBlocks :
            x <= Len(chain[q]) => chain'[q][x] = chain[q][x]
      /\ chain'[r][n] = b
  BY NewPlace
<1>2. /\ outbox \in [Outboxes -> [OutMessages -> Entry]]
      /\ withdrawn \in [Outboxes -> [OutMessages -> Nat]]
      /\ version \in Nat /\ outs \in Batch(OutMessages)
      /\ Len(chain[r]) \in Nat
  BY LenProperties DEF IInv, OutboxesOK, RegistryOK, RollupsOK, Block
<1>3. DOMAIN outs = 1..BatchSize
  BY <1>2 DEF Batch
<1>4. \A k : Occurrences(outs, k) \in Nat
             /\ (k \notin Range(outs) => Occurrences(outs, k) = 0)
  BY <1>2, <1>3, OccurrencesNat DEF Range
<1>5. ASSUME NEW k \in OutMessages
      PROVE  /\ outbox'[o][k] \in Entry
             /\ outbox'[o][k].count = outbox[o][k].count + Occurrences(outs, k)
             /\ k \in Range(outs) =>
                   /\ outbox'[o][k].version = version
                   /\ outbox[o][k].version # 0 => outbox[o][k].version = version
             /\ k \notin Range(outs) => outbox'[o][k].version = outbox[o][k].version
  <2>1. outbox[o] \in [OutMessages -> Entry] /\ outbox[o][k] \in Entry
        /\ outbox[o][k].count \in 0..MaxCount
    BY <1>2 DEF Entry
  <2>2. outbox'[o][k] = IF k \in Range(outs)
                        THEN [fee |-> 0, count |-> outbox[o][k].count + Occurrences(outs, k),
                              version |-> version, deadline |-> 0]
                        ELSE outbox[o][k]
    BY <1>2, <2>1 DEF SendL1Messages
  <2>3. CASE k \in Range(outs)
    <3>1. k # NoKey
      BY L1Assumption
    <3>2. /\ outbox[o][k].count + Occurrences(outs, k) <= MaxCount
          /\ outbox[o][k].version # 0 => outbox[o][k].version = version
      BY <2>3, <3>1 DEF CanSendL1Messages, CanInsert
    <3>3. outbox[o][k].count + Occurrences(outs, k) \in 0..MaxCount
      BY <1>4, <2>1, <3>2, MaxCountAssumption
    <3> QED
      BY <1>2, <2>2, <2>3, <3>2, <3>3 DEF Entry
  <2>4. CASE k \notin Range(outs)
    BY <1>4, <2>1, <2>2, <2>4
  <2> QED
    BY <2>3, <2>4
<1>6. \A a \in Outboxes : a # o => outbox'[a] = outbox[a]
  BY <1>2
<1>7. outbox' \in [Outboxes -> [OutMessages -> Entry]]
  <2>1. SendL1Messages(outbox[o], outs, version) \in [OutMessages -> Entry]
    <3>1. outbox'[o] = SendL1Messages(outbox[o], outs, version)
          /\ DOMAIN outbox[o] = OutMessages
      BY <1>2
    <3> HIDE DEF outs, version
    <3>2. SendL1Messages(outbox[o], outs, version) =
             [k \in OutMessages |-> SendL1Messages(outbox[o], outs, version)[k]]
      BY <3>1 DEF SendL1Messages
    <3> QED
      BY <1>5, <3>1, <3>2
  <2> QED
    BY <1>2, <2>1
<1> HIDE DEF n, version, outs
<1>8. ASSUME NEW a \in Outboxes, NEW k \in OutMessages
      PROVE  OutSlotOK(a, k)'
  <2>1. OutSlotOK(a, k) /\ withdrawn'[a][k] = withdrawn[a][k] /\ rollupToVersion' = rollupToVersion
    BY DEF IInv, OutboxesOK
  <2>2. CASE a # o
    <3>1. PutIn(a, k)' = PutIn(a, k)
      BY <1>1, <2>2 DEF PutIn, n
    <3> QED
      BY <1>6, <2>1, <2>2, <3>1 DEF OutSlotOK
  <2>3. CASE a = o
    <3>1. PutIn(o, k)' = PutIn(o, k) \cup Spots(r, n, outs, k)
      BY <1>1 DEF PutIn, outs, Spots
    <3>2. \A j \in 1..BatchSize : <<r, n, j>> \notin PutIn(o, k)
      BY <1>2 DEF PutIn, n
    <3>3. /\ IsFiniteSet(PutIn(o, k)')
          /\ Cardinality(PutIn(o, k)') = Cardinality(PutIn(o, k)) + Occurrences(outs, k)
      <4>1. IsFiniteSet(PutIn(o, k)) /\ outs \in Batch(OutMessages)
        BY <1>2, <2>1, <2>3 DEF OutSlotOK
      <4> DEFINE P == PutIn(o, k)
                 N == Spots(r, n, outs, k)
                 Q == PutIn(o, k)'
      <4>2. P \cap N = {} /\ Q = P \cup N /\ IsFiniteSet(P)
        BY <3>1, <3>2, <4>1 DEF Spots
      <4>3. IsFiniteSet(N) /\ Cardinality(N) = Occurrences(outs, k)
        BY <4>1, SpotsCount
      <4> HIDE DEF P, N, Q
      <4>4. IsFiniteSet(Q) /\ Cardinality(Q) = Cardinality(P) + Cardinality(N)
        BY <4>2, <4>3, DisjointUnion
      <4> QED
        BY <4>3, <4>4 DEF P, Q
    <3>4. Cardinality(PutIn(o, k)) \in Nat /\ outbox[o][k].count \in Nat
          /\ withdrawn[o][k] \in Nat
      BY <1>2, <2>1, <2>3, FS_CardinalityType DEF OutSlotOK, Entry
    <3>5. outbox'[o][k].count + withdrawn'[o][k] = Cardinality(PutIn(o, k)')
      BY <1>4, <1>5, <2>1, <2>3, <3>3, <3>4, SMTT(20) DEF OutSlotOK
    <3>6. ASSUME PutIn(o, k) # {}
          PROVE  outbox[o][k].version # 0
      <4>1. PICK p \in PutIn(o, k) : TRUE
        BY <3>6
      <4>2. p[1] \in Rollups /\ p[2] \in 1..MaxBlocks /\ p[2] <= Len(chain[p[1]])
        BY <4>1 DEF PutIn
      <4>3. chain[p[1]] # <<>>
        BY <4>2
      <4>4. rollupToVersion[p[1]] # 0
        BY <4>2, <4>3 DEF IInv, RollupsOK
      <4> QED
        BY <2>1, <2>3, <4>1, <4>4 DEF OutSlotOK
    <3>7. PutIn(o, k) # {} => outbox'[o][k].version = outbox[o][k].version
      BY <1>5, <3>6
    <3>8. ASSUME NEW p \in PutIn(o, k)'
          PROVE  rollupToVersion'[p[1]] = outbox'[o][k].version
      <4>1. CASE p \in PutIn(o, k)
        BY <2>1, <2>3, <3>7, <4>1 DEF OutSlotOK
      <4>2. CASE p \notin PutIn(o, k)
        <5>1. PICK j \in 1..BatchSize : outs[j] = k /\ p = <<r, n, j>>
          BY <3>1, <4>2 DEF Spots
        <5>2. k \in Range(outs) /\ p[1] = r
          BY <1>3, <5>1 DEF Range
        <5> QED
          BY <1>5, <2>1, <5>2 DEF version
      <4> QED
        BY <4>1, <4>2
    <3>9. withdrawn'[o][k] > 0 => outbox'[o][k].version = k.version
      <4>1. withdrawn[o][k] > 0 => Cardinality(PutIn(o, k)) # 0
        BY <2>1, <2>3, <3>4 DEF OutSlotOK
      <4>2. withdrawn[o][k] > 0 => PutIn(o, k) # {}
        BY <4>1, FS_EmptySet
      <4> QED
        BY <2>1, <2>3, <3>7, <4>2 DEF OutSlotOK
    <3> QED
      BY <2>1, <2>3, <3>3, <3>4, <3>5, <3>8, <3>9 DEF OutSlotOK
  <2> QED
    BY <2>2, <2>3
<1> QED
  BY <1>2, <1>7, <1>8 DEF OutboxesOK

\* How many copies of m a block with these keys from inbox i takes from inbox a.
Takes(i, keys, a, m) == IF a = i THEN Occurrences(keys, m) ELSE 0

(* What a block takes from an inbox: only pending copies of messages that    *)
(* name the version of the block's rollup, none of which was cancelled.      *)
LEMMA ProcessTakes ==
    ASSUME IInv, NEW r \in Rollups, NEW b \in Block, NEW i \in Inboxes, b.inbox = i,
           Cardinality(Accepted) < MaxBlocks,
           UNCHANGED rollupToVersion,
           CanBatchConsume(inbox[i], now, b.ins, rollupToVersion[r]),
           chain' = [chain EXCEPT ![r] = Append(chain[r], b)],
           NEW a \in Inboxes, NEW m \in Messages
    PROVE  /\ IsFiniteSet(Taken(a, m)')
           /\ Cardinality(Taken(a, m)') =
                 Cardinality(Taken(a, m)) + Takes(i, b.ins, a, m)
           /\ Occurrences(b.ins, m) \in 0..inbox[i][m].count
           /\ Occurrences(b.ins, m) > 0 => cancelled[i][m] = 0
<1> DEFINE n == Len(chain[r]) + 1
           ins == b.ins
<1>1. /\ n \in 1..MaxBlocks
      /\ \A q \in Rollups : \A x \in 1..MaxBlocks :
            x <= Len(chain'[q]) <=> x <= Len(chain[q]) \/ (q = r /\ x = n)
      /\ \A q \in Rollups : \A x \in 1..MaxBlocks :
            x <= Len(chain[q]) => chain'[q][x] = chain[q][x]
      /\ chain'[r][n] = b
  BY NewPlace
<1>2. /\ inbox[i][m] \in Entry /\ inbox[i][m].count \in Nat /\ cancelled[i][m] \in Nat
      /\ ins \in Batch(Messages) /\ Len(chain[r]) \in Nat
      /\ IsFiniteSet(Taken(a, m)) /\ InSlotOK(i, m)
  BY LenProperties DEF IInv, InboxesOK, RollupsOK, Block, Entry
<1>3. DOMAIN ins = 1..BatchSize /\ m # NoKey
  BY <1>2, L1Assumption DEF Batch
<1>4. /\ Occurrences(ins, m) \in Nat
      /\ Occurrences(ins, m) = 0 <=> \A j \in 1..BatchSize : ins[j] # m
  BY <1>2, OccurrencesNat
<1> HIDE DEF n, ins
<1>5. ASSUME NEW j \in 1..BatchSize, ins[j] = m
      PROVE  /\ Occurrences(ins, m) <= inbox[i][m].count
             /\ rollupToVersion[r] = StoredVersion(m)
             /\ cancelled[i][m] = 0
  <2>1. Occurrences(ins, m) <= inbox[i][m].count
    BY <1>3, <1>5 DEF CanBatchConsume, CanConsumeAll, ins
  <2>2. /\ inbox[i][m].version = rollupToVersion[r] /\ now <= inbox[i][m].deadline
    BY <1>3, <1>5 DEF CanBatchConsume, Consumable, ins
  <2>3. inbox[i][m].count > 0
    BY <1>2, <1>4, <1>5, <2>1
  <2>4. inbox[i][m].version = StoredVersion(m) /\ inbox[i][m].deadline = m.deadline
    BY <1>2, <2>3 DEF InSlotOK
  <2>5. now \in Nat /\ m.deadline \in Nat
    BY L1Assumption DEF IInv, OracleOK
  <2>6. ~ (cancelled[i][m] > 0)
    BY <1>2, <2>2, <2>4, <2>5 DEF InSlotOK
  <2> QED
    BY <1>2, <2>1, <2>2, <2>4, <2>6
<1>6. Occurrences(ins, m) \in 0..inbox[i][m].count
  BY <1>2, <1>4, <1>5
<1>7. Occurrences(ins, m) > 0 => cancelled[i][m] = 0
  BY <1>4, <1>5
<1>8. CASE a # i
  <2>1. Taken(a, m)' = Taken(a, m)
    BY <1>1, <1>8 DEF Taken
  <2>2. Cardinality(Taken(a, m)) \in Nat
    BY <1>2, FS_CardinalityType
  <2> QED
    BY <1>2, <1>6, <1>7, <1>8, <2>1, <2>2 DEF ins, Takes
<1>9. CASE a = i
  <2>1. Taken(i, m)' = Taken(i, m) \cup Spots(r, n, ins, m)
    BY <1>1, <1>5 DEF Taken, ins, Spots
  <2>2. \A j \in 1..BatchSize : <<r, n, j>> \notin Taken(i, m)
    <3>1. ~ (n <= Len(chain[r]))
      BY <1>2 DEF n
    <3>2. \A p \in Taken(i, m) : p[2] <= Len(chain[p[1]])
      BY Zenon DEF Taken
    <3> QED
      BY <3>1, <3>2
  <2> DEFINE P == Taken(i, m)
             N == Spots(r, n, ins, m)
             Q == Taken(i, m)'
  <2>3. IsFiniteSet(Taken(i, m)) /\ ins \in Batch(Messages)
    BY <1>2, <1>9
  <2>4. P \cap N = {} /\ Q = P \cup N /\ IsFiniteSet(P)
    BY <2>1, <2>2, <2>3 DEF Spots
  <2>5. IsFiniteSet(N) /\ Cardinality(N) = Occurrences(ins, m)
    BY <2>3, SpotsCount
  <2>6. /\ IsFiniteSet(Taken(i, m)')
        /\ Cardinality(Taken(i, m)') = Cardinality(Taken(i, m)) + Occurrences(ins, m)
    <3> HIDE DEF P, N, Q
    <3>1. IsFiniteSet(Q) /\ Cardinality(Q) = Cardinality(P) + Cardinality(N)
      BY <2>4, <2>5, DisjointUnion
    <3> QED
      BY <2>5, <3>1 DEF P, Q
  <2> QED
    BY <1>6, <1>7, <1>9, <2>6 DEF ins, Takes
<1> QED
  BY <1>8, <1>9

(* A block keeps the inboxes' part. *)
LEMMA ProcessInboxes ==
    ASSUME IInv, NEW r \in Rollups, NEW b \in Block, NEW i \in Inboxes, b.inbox = i,
           Cardinality(Accepted) < MaxBlocks,
           UNCHANGED rollupToVersion, UNCHANGED now, UNCHANGED cancelled,
           CanBatchConsume(inbox[i], now, b.ins, rollupToVersion[r]),
           inbox' = [inbox EXCEPT ![i] = ConsumeAll(inbox[i], b.ins)],
           chain' = [chain EXCEPT ![r] = Append(chain[r], b)]
    PROVE  /\ InboxesOK'
           /\ \A a \in Inboxes, m \in Messages :
                 inbox'[a][m].count =
                    inbox[a][m].count - Takes(i, b.ins, a, m)
<1>1. /\ inbox \in [Inboxes -> [Messages -> Entry]]
      /\ cancelled \in [Inboxes -> [Messages -> Nat]]
      /\ \A a \in Inboxes, m \in Messages : InSlotOK(a, m)
  BY DEF IInv, InboxesOK
<1>2. \A a \in Inboxes, m \in Messages : IsFiniteSet(Taken(a, m)')
  BY ProcessTakes
<1>3. \A m \in Messages : Occurrences(b.ins, m) \in 0..inbox[i][m].count
  BY ProcessTakes
<1> DEFINE e(m) == [inbox[i][m] EXCEPT !.count = inbox[i][m].count - Occurrences(b.ins, m)]
<1>4. ASSUME NEW m \in Messages
      PROVE  /\ e(m) \in Entry /\ e(m).count = inbox[i][m].count - Occurrences(b.ins, m)
             /\ e(m).version = inbox[i][m].version /\ e(m).deadline = inbox[i][m].deadline
             /\ e(m).count > 0 => inbox[i][m].count > 0
  <2>1. inbox[i][m] \in Entry /\ inbox[i][m].count \in 0..MaxCount
    BY <1>1 DEF Entry
  <2>2. inbox[i][m].count - Occurrences(b.ins, m) \in 0..MaxCount
    BY <1>3, <2>1, MaxCountAssumption
  <2>3. /\ e(m) \in Entry /\ e(m).count = inbox[i][m].count - Occurrences(b.ins, m)
        /\ e(m).version = inbox[i][m].version /\ e(m).deadline = inbox[i][m].deadline
    BY <2>1, <2>2, EntryCount
  <2> HIDE DEF e
  <2> QED
    BY <1>3, <2>1, <2>3
<1>5. ConsumeAll(inbox[i], b.ins) = [m \in Messages |-> e(m)]
  BY <1>1 DEF ConsumeAll
<1> HIDE DEF e
<1>6. /\ inbox' \in [Inboxes -> [Messages -> Entry]]
      /\ \A a \in Inboxes, m \in Messages :
            inbox'[a][m] = IF a = i THEN e(m) ELSE inbox[a][m]
  BY <1>1, <1>4, <1>5
<1>7. \A a \in Inboxes, m \in Messages : InSlotOK(a, m)'
  BY <1>1, <1>4, <1>6 DEF InSlotOK
<1>8. \A a \in Inboxes, m \in Messages : inbox[a][m].count \in Nat
  BY <1>1 DEF Entry
<1> QED
  BY <1>1, <1>2, <1>4, <1>6, <1>7, <1>8 DEF InboxesOK, Takes

(* Rollup.process keeps the invariant. *)
LEMMA ProcessInv ==
    ASSUME IInv, NEW r \in Rollups, NEW h \in Header, NEW root \in Archives,
           NEW ins \in Batch(Messages), NEW outs \in Batch(OutMessages),
           Cardinality(Accepted) < MaxBlocks, Process(r, h, root, ins, outs)
    PROVE  IInv'
<1> DEFINE b(i, o) == [header |-> h, archive |-> root, l1Time |-> now,
                       inbox |-> i, ins |-> ins, outbox |-> o, outs |-> outs]
<1>1. PICK i \in Inboxes, o \in Outboxes :
         /\ Cardinality(Accepted) < MaxBlocks
         /\ Valid(h, lastBlockTs[r], archive[r])
         /\ rollupToVersion[r] > 0
         /\ CanBatchConsume(inbox[i], now, ins, rollupToVersion[r])
         /\ CanSendL1Messages(outbox[o], outs, rollupToVersion[r])
         /\ archive' = [archive EXCEPT ![r] = root]
         /\ lastBlockTs' = [lastBlockTs EXCEPT ![r] = now]
         /\ inbox' = [inbox EXCEPT ![i] = ConsumeAll(inbox[i], ins)]
         /\ outbox' = [outbox EXCEPT ![o] = SendL1Messages(outbox[o], outs, rollupToVersion[r])]
         /\ b(i, o) \in Block
         /\ chain' = [chain EXCEPT ![r] = Append(chain[r], b(i, o))]
         /\ UNCHANGED <<now, available, sent, cancelled, withdrawn>>
         /\ UNCHANGED <<snapshots, rollupToVersion>>
  BY ProcessFacts
<1> DEFINE c == b(i, o)
<1>2. /\ c.header = h /\ c.archive = root /\ c.l1Time = now /\ c.inbox = i /\ c.ins = ins
      /\ c.outbox = o /\ c.outs = outs
  OBVIOUS
<1>3. c \in Block /\ chain' = [chain EXCEPT ![r] = Append(chain[r], c)]
  BY <1>1
<1> HIDE DEF c, b
<1>4. UNCHANGED rollupToVersion /\ UNCHANGED now /\ UNCHANGED cancelled /\ UNCHANGED withdrawn
  BY <1>1
<1>5. RollupsOK'
  BY <1>1, <1>2, <1>3, <1>4, ProcessRollups
<1>6. OutboxesOK'
  BY <1>1, <1>2, <1>3, <1>4, ProcessOutboxes
<1>7. InboxesOK'
  BY <1>1, <1>2, <1>3, <1>4, ProcessInboxes
<1>8. RegistryOK' /\ OracleOK'
  BY <1>1, RegistryFrame DEF IInv, registryVars, OracleOK
<1> QED
  BY <1>5, <1>6, <1>7, <1>8 DEF IInv

-----------------------------------------------------------------------------
(* The theorems *)

(* The inductive invariant holds throughout. *)
THEOREM Inductive == Spec => []IInv
<1>1. IInv /\ [Next]_vars => IInv'
  <2> SUFFICES ASSUME IInv, [Next]_vars PROVE IInv'
    OBVIOUS
  <2>1. CASE UNCHANGED vars
    <3>1. /\ UNCHANGED registryVars /\ UNCHANGED rollupVars /\ UNCHANGED inboxVars
          /\ UNCHANGED outboxVars /\ UNCHANGED <<now, available>>
          /\ UNCHANGED chain /\ UNCHANGED rollupToVersion
      BY <2>1 DEF vars, registryVars, rollupVars, inboxVars, outboxVars
    <3> QED
      BY <3>1, RegistryFrame, RollupsFrame, OutboxesFrame, InboxesFrame DEF IInv, OracleOK
  <2>2. CASE Next
    BY <2>2, UpgradeInv, SendInv, CancelInv, ConsumeInv, OracleInv, ProcessInv DEF Next
  <2> QED
    BY <2>1, <2>2
<1> QED
  BY InitInv, <1>1, PTL DEF Spec

(* The storage of the contracts has its types, and every registered rollup   *)
(* is named by one version that names no other (Registry.upgrade).           *)
THEOREM AlwaysConsistent == Spec => []Consistent
<1>1. IInv => Consistent
  <2> SUFFICES ASSUME IInv PROVE Consistent
    OBVIOUS
  <2>1. \A n \in DOMAIN snapshots : snapshots[n] \in Snap
    BY ElementOfSeq, LenProperties DEF IInv, RegistryOK
  <2>2. \A r \in Rollups : \A n \in DOMAIN chain[r] : chain[r][n] \in Block
    BY ElementOfSeq, LenProperties DEF IInv, RollupsOK
  <2>3. rollupToVersion \in [Rollups \cup {Dead} -> 0..(MaxVersions - 1)]
    <3>1. 0..(Len(snapshots) - 1) \subseteq 0..(MaxVersions - 1)
      BY L1Assumption DEF IInv, RegistryOK
    <3> QED
      BY <3>1 DEF IInv, RegistryOK
  <2>4. TypeOK
    BY <2>1, <2>2, <2>3
       DEF TypeOK, IInv, OracleOK, RollupsOK, OutboxesOK, InboxesOK, Snap, Block
  <2> QED
    BY <2>4 DEF Consistent, IInv, RegistryOK
<1> QED
  BY <1>1, Inductive, PTL

(* Every rollup's blocks form a chain on which time never runs backwards and *)
(* which only a zero root, that Rollup.process stores like any other, cuts:  *)
(* HeaderLib.validate compares every other root with the next header.        *)
THEOREM AlwaysLinked == Spec => []ChainLinked
<1>1. IInv => ChainLinked
  BY DEF IInv, RollupsOK
<1> QED
  BY <1>1, Inductive, PTL

(* No L2-to-L1 message is withdrawn more often than blocks of the version it *)
(* names emitted it (Outbox.consume, sendL1Messages).                        *)
THEOREM AlwaysBacked == Spec => []WithdrawnBacked
<1>1. IInv => WithdrawnBacked
  <2> SUFFICES ASSUME IInv, NEW o \in Outboxes, NEW k \in OutMessages
               PROVE  withdrawn[o][k] <= Cardinality(Emitted(o, k, k.version))
    BY DEF WithdrawnBacked
  <2>1. OutSlotOK(o, k) /\ outbox[o][k].count \in Nat /\ withdrawn[o][k] \in Nat
    BY DEF IInv, OutboxesOK, Entry
  <2>2. Emitted(o, k, k.version) \in SUBSET PutIn(o, k)
    BY DEF Emitted, PutIn
  <2>3. Cardinality(Emitted(o, k, k.version)) \in Nat /\ Cardinality(PutIn(o, k)) \in Nat
    BY <2>1, <2>2, FS_Subset, FS_CardinalityType DEF OutSlotOK
  <2>4. CASE withdrawn[o][k] = 0
    BY <2>3, <2>4
  <2>5. CASE withdrawn[o][k] > 0
    <3>1. Emitted(o, k, k.version) = PutIn(o, k)
      BY <2>1, <2>5 DEF Emitted, PutIn, OutSlotOK
    <3> QED
      BY <2>1, <2>3, <3>1 DEF OutSlotOK
  <2> QED
    BY <2>1, <2>4, <2>5
<1> QED
  BY <1>1, Inductive, PTL

-----------------------------------------------------------------------------
(* The refinement of Bridge *)

\* The state of Bridge that the contracts represent.
Slots == Inboxes \X Messages
Pending == [s \in Slots |-> inbox[s[1]][s[2]].count]
Delivered == [s \in Slots |-> Cardinality(Taken(s[1], s[2]))]
Returned == [s \in Slots |-> cancelled[s[1]][s[2]]]

(* A block is a delivery: of pending copies only, and of no slot from which  *)
(* a copy was returned.                                                      *)
LEMMA ProcessDelivers ==
    ASSUME IInv, NEW r \in Rollups, NEW h \in Header, NEW root \in Archives,
           NEW ins \in Batch(Messages), NEW outs \in Batch(OutMessages),
           Cardinality(Accepted) < MaxBlocks, Process(r, h, root, ins, outs)
    PROVE  B!Deliver
<1> DEFINE b(i, o) == [header |-> h, archive |-> root, l1Time |-> now,
                       inbox |-> i, ins |-> ins, outbox |-> o, outs |-> outs]
<1>1. PICK i \in Inboxes, o \in Outboxes :
         /\ Cardinality(Accepted) < MaxBlocks
         /\ CanBatchConsume(inbox[i], now, ins, rollupToVersion[r])
         /\ inbox' = [inbox EXCEPT ![i] = ConsumeAll(inbox[i], ins)]
         /\ b(i, o) \in Block
         /\ chain' = [chain EXCEPT ![r] = Append(chain[r], b(i, o))]
         /\ UNCHANGED <<now, available, sent, cancelled, withdrawn>>
         /\ UNCHANGED <<snapshots, rollupToVersion>>
  BY ProcessFacts
<1> DEFINE c == b(i, o)
           occ(a, m) == Takes(i, ins, a, m)
<1>2. c.inbox = i /\ c.ins = ins
  OBVIOUS
<1>3. c \in Block /\ chain' = [chain EXCEPT ![r] = Append(chain[r], c)]
  BY <1>1
<1> HIDE DEF c, b
<1>4. UNCHANGED rollupToVersion /\ UNCHANGED now /\ UNCHANGED cancelled
  BY <1>1
<1>5. \A a \in Inboxes, m \in Messages :
         /\ inbox'[a][m].count = inbox[a][m].count - occ(a, m)
         /\ Cardinality(Taken(a, m)') = Cardinality(Taken(a, m)) + occ(a, m)
         /\ occ(a, m) \in Nat /\ occ(a, m) <= inbox[a][m].count
         /\ occ(a, m) > 0 => cancelled[a][m] = 0
  <2> SUFFICES ASSUME NEW a \in Inboxes, NEW m \in Messages
               PROVE  /\ inbox'[a][m].count = inbox[a][m].count - occ(a, m)
                      /\ Cardinality(Taken(a, m)') = Cardinality(Taken(a, m)) + occ(a, m)
                      /\ occ(a, m) \in Nat /\ occ(a, m) <= inbox[a][m].count
                      /\ occ(a, m) > 0 => cancelled[a][m] = 0
    OBVIOUS
  <2>1. inbox'[a][m].count = inbox[a][m].count - occ(a, m)
    <3>1. CanBatchConsume(inbox[i], now, c.ins, rollupToVersion[r])
          /\ inbox' = [inbox EXCEPT ![i] = ConsumeAll(inbox[i], c.ins)]
          /\ Cardinality(Accepted) < MaxBlocks
      BY <1>1, <1>2
    <3>2. \A d \in Inboxes, x \in Messages :
             inbox'[d][x].count =
                inbox[d][x].count - Takes(i, c.ins, d, x)
      BY <1>2, <1>3, <1>4, <3>1, ProcessInboxes
    <3> QED
      BY <1>2, <3>2
  <2>2. /\ Cardinality(Taken(a, m)') = Cardinality(Taken(a, m)) + occ(a, m)
        /\ Occurrences(ins, m) \in 0..inbox[i][m].count
        /\ Occurrences(ins, m) > 0 => cancelled[i][m] = 0
    <3>1. CanBatchConsume(inbox[i], now, c.ins, rollupToVersion[r])
          /\ Cardinality(Accepted) < MaxBlocks
      BY <1>1, <1>2
    <3>2. /\ Cardinality(Taken(a, m)') =
                Cardinality(Taken(a, m)) + Takes(i, c.ins, a, m)
          /\ Occurrences(c.ins, m) \in 0..inbox[i][m].count
          /\ Occurrences(c.ins, m) > 0 => cancelled[i][m] = 0
      BY <1>2, <1>3, <1>4, <3>1, ProcessTakes, ZenonT(40)
    <3>3. c.ins = ins
      BY <1>2
    <3> HIDE DEF occ
    <3>4. Takes(i, c.ins, a, m) = occ(a, m)
      BY <3>3 DEF occ
    <3> QED
      BY <3>2, <3>3, <3>4, Zenon
  <2>3. inbox[a][m].count \in Nat /\ inbox[i][m].count \in Nat
    BY DEF IInv, InboxesOK, Entry
  <2> QED
    BY <2>1, <2>2, <2>3 DEF Takes
<1>6. \A a \in Inboxes, m \in Messages :
         /\ inbox[a][m].count \in Nat /\ Cardinality(Taken(a, m)) \in Nat
  BY FS_CardinalityType DEF IInv, InboxesOK, Entry
<1> HIDE DEF occ
<1>7. ASSUME NEW s \in Slots
      PROVE  /\ Delivered'[s] >= Delivered[s]
             /\ Pending'[s] = Pending[s] - (Delivered'[s] - Delivered[s])
             /\ Pending'[s] >= 0
             /\ Delivered'[s] > Delivered[s] => Returned[s] = 0
  <2>1. s[1] \in Inboxes /\ s[2] \in Messages
    BY DEF Slots
  <2>2. /\ Delivered[s] = Cardinality(Taken(s[1], s[2]))
        /\ Delivered'[s] = Cardinality(Taken(s[1], s[2])')
        /\ Pending[s] = inbox[s[1]][s[2]].count /\ Pending'[s] = inbox'[s[1]][s[2]].count
        /\ Returned[s] = cancelled[s[1]][s[2]]
    BY DEF Delivered, Pending, Returned
  <2> QED
    BY <1>5, <1>6, <2>1, <2>2
<1>8. DOMAIN Pending' = Slots /\ DOMAIN Delivered' = Slots /\ Returned' = Returned
  BY <1>4 DEF Pending, Delivered, Returned
<1> QED
  BY <1>7, <1>8 DEF B!Deliver, Slots, Pending, Delivered, Returned

(* The contracts implement Bridge: over upgrades that keep or replace the    *)
(* boxes and blocks of several rollups, every copy of a message is delivered *)
(* to the version it names or returned to its sender, once, and none is      *)
(* delivered after a copy was returned.                                      *)
THEOREM ImplementsBridge == Spec => KeepsBridge
<1> USE DEF Slots, Pending, Delivered, Returned
<1>1. Init => B!Init
  <2> SUFFICES ASSUME Init PROVE B!Init
    OBVIOUS
  <2>1. \A i, m : Taken(i, m) = {}
    BY DEF Init, Taken
  <2>2. \A i, m : Cardinality(Taken(i, m)) = 0
    BY <2>1, FS_EmptySet
  <2> QED
    BY <2>2 DEF Init, B!Init, EmptyEntry
<1>2. IInv /\ [Next]_vars => [B!Next]_B!vars
  <2> SUFFICES ASSUME IInv, [Next]_vars PROVE [B!Next]_B!vars
    OBVIOUS
  <2>1. ASSUME UNCHANGED chain, UNCHANGED rollupToVersion
        PROVE  UNCHANGED Delivered
    BY <2>1 DEF Taken
  <2>2. ASSUME NEW r \in Rollups \cup {Dead}, NEW i \in Inboxes, NEW o \in Outboxes,
               Upgrade(r, i, o)
        PROVE  UNCHANGED B!vars
    <3>1. \A a \in Inboxes, m \in Messages : Taken(a, m)' = Taken(a, m)
      BY <2>2, UpgradeKeepsPlaces
    <3>2. inbox' = inbox /\ cancelled' = cancelled
      BY <2>2 DEF Upgrade, inboxVars
    <3>3. UNCHANGED Delivered
      BY <3>1
    <3> QED
      BY <3>2, <3>3 DEF B!vars
  <2>3. ASSUME NEW i \in Inboxes, NEW m \in Messages, SendL2Message(i, m)
        PROVE  B!Next
    <3>1. inbox \in [Inboxes -> [Messages -> Entry]] /\ <<i, m>> \in Slots
      BY DEF IInv, InboxesOK
    <3>2. /\ UNCHANGED Delivered /\ UNCHANGED Returned
      BY <2>1, <2>3 DEF SendL2Message, rollupVars, registryVars
    <3>3. \A s \in Slots : inbox'[s[1]][s[2]].count =
             IF s = <<i, m>> THEN inbox[i][m].count + 1 ELSE inbox[s[1]][s[2]].count
      BY <2>3, <3>1 DEF SendL2Message, Deposit, Insert
    <3>4. Pending' = [Pending EXCEPT ![<<i, m>>] = @ + 1]
      BY <3>1, <3>3
    <3> QED
      BY <3>1, <3>2, <3>4 DEF B!Next, B!Send
  <2>4. ASSUME NEW i \in Inboxes, NEW m \in Messages, CancelL2Message(i, m)
        PROVE  B!Next
    <3>1. /\ inbox \in [Inboxes -> [Messages -> Entry]] /\ <<i, m>> \in Slots
          /\ cancelled \in [Inboxes -> [Messages -> Nat]]
      BY DEF IInv, InboxesOK
    <3>2. UNCHANGED Delivered
      BY <2>1, <2>4 DEF CancelL2Message, rollupVars, registryVars
    <3>3. \A s \in Slots : inbox'[s[1]][s[2]].count =
             IF s = <<i, m>> THEN inbox[i][m].count - 1 ELSE inbox[s[1]][s[2]].count
      BY <2>4, <3>1 DEF CancelL2Message, Entry
    <3>4. Pending' = [Pending EXCEPT ![<<i, m>>] = @ - 1]
      BY <3>1, <3>3
    <3>5. \A s \in Slots : cancelled'[s[1]][s[2]] =
             IF s = <<i, m>> THEN cancelled[i][m] + 1 ELSE cancelled[s[1]][s[2]]
      BY <2>4, <3>1 DEF CancelL2Message
    <3>6. Returned' = [Returned EXCEPT ![<<i, m>>] = @ + 1]
      BY <3>1, <3>5
    <3>7. Pending[<<i, m>>] > 0
      BY <2>4, <3>1 DEF CancelL2Message, Contains
    <3> QED
      BY <3>1, <3>2, <3>4, <3>6, <3>7 DEF B!Next, B!Return
  <2>5. ASSUME \/ \E o \in Outboxes, k \in OutMessages : ConsumeL1Message(o, k)
               \/ \E h \in TxsHashes : Publish(h)
               \/ Tick
               \/ UNCHANGED vars
        PROVE  UNCHANGED B!vars
    <3>1. /\ inbox' = inbox /\ cancelled' = cancelled /\ chain' = chain
          /\ rollupToVersion' = rollupToVersion
      BY <2>5 DEF ConsumeL1Message, Publish, Tick, vars, inboxVars, rollupVars, registryVars
    <3>2. UNCHANGED Delivered
      BY <2>1, <3>1
    <3> QED
      BY <3>1, <3>2 DEF B!vars
  <2>6. ASSUME NEW r \in Rollups, NEW h \in Header, NEW root \in Archives,
               NEW ins \in Batch(Messages), NEW outs \in Batch(OutMessages),
               Cardinality(Accepted) < MaxBlocks, Process(r, h, root, ins, outs)
        PROVE  B!Next
    BY <2>6, ProcessDelivers DEF B!Next
  <2> QED
    BY <2>2, <2>3, <2>4, <2>5, <2>6 DEF Next
<1> QED
  BY <1>1, <1>2, Inductive, PTL DEF Spec, KeepsBridge, B!Spec
-----------------------------------------------------------------------------
=============================================================================
