------------------------ MODULE ClusterManagerProofs ------------------------
(***************************************************************************)
(* What the manager keeps for any number of clusters and chains: the two   *)
(* directions of the chain assignment agree through every reshuffle,       *)
(* epochs stay behind the rounds, and resolved challenges stay resolved.   *)
(***************************************************************************)
EXTENDS ClusterManager, FiniteSetTheorems, SequenceTheorems, TLAPS

----------------------------------------------------------------------------
(* Dealing round-robin. *)

\* Division with remainder.
LEMMA Division ==
    ASSUME NEW a \in Nat, NEW n \in Nat \ {0}
    PROVE  /\ a \div n \in Nat /\ a % n \in Nat /\ a % n < n
           /\ a = (a \div n) * n + (a % n)
  BY Z3

\* Multiplying by a number of clusters keeps distances.
LEMMA Products ==
    ASSUME NEW a \in Int, NEW b \in Int, NEW n \in Nat \ {0}, a < b
    PROVE  a * n \in Int /\ b * n \in Int /\ a * n + n <= b * n
  BY Z3

\* Quotient and remainder are unique.
LEMMA DivisionUnique ==
    ASSUME NEW n \in Nat \ {0}, NEW q \in Int, NEW s \in Int, NEW x \in 0 .. n - 1,
           NEW y \in 0 .. n - 1, q * n + x = s * n + y
    PROVE  q = s /\ x = y
  <1>1. q * n \in Int /\ s * n \in Int
    OBVIOUS
  <1>2. ~(q < s)
    <2> SUFFICES ASSUME q < s PROVE FALSE
      OBVIOUS
    <2>1. q * n + n <= s * n
      BY Products
    <2> QED
      BY <1>1, <2>1
  <1>3. ~(s < q)
    <2> SUFFICES ASSUME s < q PROVE FALSE
      OBVIOUS
    <2>1. s * n + n <= q * n
      BY Products
    <2> QED
      BY <1>1, <2>1
  <1>4. q = s
    BY <1>2, <1>3
  <1> QED
    BY <1>1, <1>4

\* The chains in the share of cluster c of n, the position in the shuffled list of its
\* k-th one, and the cluster whose share has position i.
ShareSize(l, c, n) == (l + n - c) \div n
ShareAt(k, c, n) == (k - 1) * n + c
TurnOf(i, n) == 1 + ((i - 1) % n)

\* A cluster's share has only positions of the shuffled list.
LEMMA ShareWithin ==
    ASSUME NEW n \in Nat \ {0}, NEW l \in Nat, NEW c \in 1 .. n
    PROVE  /\ ShareSize(l, c, n) \in Nat
           /\ \A k \in 1 .. ShareSize(l, c, n) : ShareAt(k, c, n) \in 1 .. l
  <1> DEFINE a == l + n - c
             m == a \div n
  <1>1. a \in Nat
    OBVIOUS
  <1> HIDE DEF a
  <1>2. m \in Nat /\ a % n \in Nat /\ a = m * n + (a % n)
    BY <1>1, Division
  <1> HIDE DEF m
  <1>3. m * n \in Int /\ m * n <= a
    BY <1>2
  <1>4. ASSUME NEW k \in 1 .. m PROVE (k - 1) * n + c \in 1 .. l
    <2>1. k - 1 \in Nat /\ k - 1 < m /\ (k - 1) * n \in Nat
      BY <1>2
    <2>2. (k - 1) * n + n <= m * n
      BY <1>2, <2>1, Products
    <2>3. (k - 1) * n + n <= l + n - c
      BY <1>3, <2>1, <2>2 DEF a
    <2> QED
      BY <2>1, <2>3
  <1> QED
    BY <1>2, <1>4 DEF m, a, ShareSize, ShareAt

\* Position i of the shuffled list is in the share of one cluster, at one place.
LEMMA ShareOf ==
    ASSUME NEW n \in Nat \ {0}, NEW l \in Nat, NEW c \in 1 .. n, NEW i \in 1 .. l
    PROVE  \A k \in Nat \ {0} : ShareAt(k, c, n) = i =>
              c = TurnOf(i, n) /\ k = 1 + ((i - 1) \div n)
  <1> DEFINE q == (i - 1) \div n
             r == (i - 1) % n
  <1>1. i - 1 \in Nat
    OBVIOUS
  <1>2. q \in Nat /\ r \in Nat /\ r < n /\ i - 1 = q * n + r /\ q * n \in Nat
    BY <1>1, Division
  <1> HIDE DEF q, r
  <1>3. ASSUME NEW k \in Nat \ {0}, (k - 1) * n + c = i PROVE c = 1 + r /\ k = 1 + q
    <2>1. k - 1 \in Int /\ (k - 1) * n \in Int
      OBVIOUS
    <2>2. (k - 1) * n + (c - 1) = q * n + r
      BY <1>2, <1>3, <2>1
    <2>3. c - 1 \in 0 .. n - 1 /\ r \in 0 .. n - 1
      BY <1>2
    <2>4. k - 1 = q /\ c - 1 = r
      BY <1>2, <2>1, <2>2, <2>3, DivisionUnique
    <2> QED
      BY <2>4, <1>2
  <1> QED
    BY <1>3 DEF q, r, ShareAt, TurnOf

\* Every position is in the share of the cluster whose turn it is.
LEMMA PlaceOf ==
    ASSUME NEW n \in Nat \ {0}, NEW l \in Nat, NEW c \in 1 .. n
    PROVE  \A i \in 1 .. l : c = TurnOf(i, n) =>
              \E k \in 1 .. ShareSize(l, c, n) : ShareAt(k, c, n) = i
  <1> SUFFICES ASSUME NEW i \in 1 .. l, c = TurnOf(i, n)
               PROVE  \E k \in 1 .. ShareSize(l, c, n) : ShareAt(k, c, n) = i
    OBVIOUS
  <1> DEFINE q == (i - 1) \div n
             r == (i - 1) % n
  <1>1. i - 1 \in Nat
    OBVIOUS
  <1>2. q \in Nat /\ r \in Nat /\ r < n /\ i - 1 = q * n + r /\ q * n \in Nat
    BY <1>1, Division
  <1>3. c = 1 + r
    BY DEF TurnOf
  <1> HIDE DEF q, r
  <1>4. q + 1 \in 1 .. ShareSize(l, c, n) /\ q * n + c = i
    <2>1. q * n + c = i
      BY <1>2, <1>3
    <2> DEFINE a == l + n - c
               m == a \div n
    <2>2. a \in Nat
      OBVIOUS
    <2>3. q * n + n <= a
      BY <1>2, <2>1
    <2> HIDE DEF a
    <2>4. m \in Nat /\ a % n \in Nat /\ a % n < n /\ a = m * n + (a % n)
      BY <2>2, Division
    <2> HIDE DEF m
    <2>5. ~(m < q + 1)
      <3> SUFFICES ASSUME m < q + 1 PROVE FALSE
        OBVIOUS
      <3>1. m * n + n <= (q + 1) * n
        BY <1>2, <2>4, Products
      <3>2. (q + 1) * n = q * n + n /\ m * n \in Int
        BY <1>2, <2>4
      <3> QED
        BY <1>2, <2>2, <2>3, <2>4, <3>1, <3>2
    <2>6. q + 1 \in 1 .. m
      BY <1>2, <2>4, <2>5
    <2> QED
      BY <2>1, <2>6 DEF m, a, ShareSize
  <1>5. ShareAt(q + 1, c, n) = q * n + c
    <2>1. (q + 1) - 1 = q
      BY <1>2
    <2> QED
      BY <2>1, Zenon DEF ShareAt
  <1> QED
    BY <1>4, <1>5, Zenon

\* Cluster c is dealt the chains at its turns, each once.
GetsItsTurns(s, l, c, n, X) ==
    /\ Dealt(s, c, n) \in Seq(X)
    /\ \A i, j \in DOMAIN Dealt(s, c, n) : Dealt(s, c, n)[i] = Dealt(s, c, n)[j] => i = j
    /\ \A i \in 1 .. l :
          (\E k \in DOMAIN Dealt(s, c, n) : Dealt(s, c, n)[k] = s[i]) <=> c = TurnOf(i, n)
    /\ \A k \in DOMAIN Dealt(s, c, n) : \E i \in 1 .. l : Dealt(s, c, n)[k] = s[i]

\* The round-robin loop of reshuffleClusters deals a list without repetitions fairly.
LEMMA DealtOnce ==
    ASSUME NEW n \in Nat \ {0}, NEW l \in Nat, NEW X, NEW s \in [1 .. l -> X],
           \A i, j \in 1 .. l : s[i] = s[j] => i = j,
           NEW c \in 1 .. n
    PROVE  GetsItsTurns(s, l, c, n, X)
  <1>1. s \in Seq(X) /\ Len(s) = l
    <2>1. s \in Seq(X)
      OBVIOUS
    <2> QED
      BY <2>1, LenProperties
  <1> DEFINE m == ShareSize(l, c, n)
             at(k) == ShareAt(k, c, n)
             d == Dealt(s, c, n)
  <1>2. m \in Nat /\ \A k \in 1 .. m : at(k) \in 1 .. l
    BY ShareWithin
  <1>3. d = [k \in 1 .. m |-> s[at(k)]]
    BY <1>1 DEF Dealt, ShareSize, ShareAt
  <1>4. /\ \A i \in 1 .. l, k \in Nat \ {0} : at(k) = i =>
              c = TurnOf(i, n) /\ k = 1 + ((i - 1) \div n)
        /\ \A i \in 1 .. l : c = TurnOf(i, n) => \E k \in 1 .. m : at(k) = i
    <2>1. ASSUME NEW i \in 1 .. l, NEW k \in Nat \ {0}, at(k) = i
          PROVE  c = TurnOf(i, n) /\ k = 1 + ((i - 1) \div n)
      BY <2>1, ShareOf
    <2>2. \A i \in 1 .. l : c = TurnOf(i, n) => \E k \in 1 .. m : at(k) = i
      BY PlaceOf, Zenon
    <2> QED
      BY <2>1, <2>2
  <1> HIDE DEF m, at, d
  <1>5. DOMAIN d = 1 .. m /\ \A k \in 1 .. m : d[k] = s[at(k)]
    BY <1>3
  <1>6. d \in Seq(X)
    <2>1. d \in [1 .. m -> X]
      BY <1>2, <1>3
    <2> QED
      BY <1>2, <2>1
  <1>7. ASSUME NEW i \in 1 .. m, NEW j \in 1 .. m, d[i] = d[j] PROVE i = j
    <2>1. at(i) = at(j)
      BY <1>2, <1>5, <1>7
    <2>2. i \in Nat \ {0} /\ j \in Nat \ {0}
      BY <1>2
    <2> QED
      BY <1>2, <1>4, <2>1, <2>2
  <1>8. ASSUME NEW i \in 1 .. l
        PROVE  (\E k \in 1 .. m : d[k] = s[i]) <=> c = TurnOf(i, n)
    <2>1. ASSUME NEW k \in 1 .. m, d[k] = s[i] PROVE c = TurnOf(i, n)
      <3>1. at(k) = i
        BY <1>2, <1>5, <2>1
      <3>2. k \in Nat \ {0}
        BY <1>2
      <3> QED
        BY <1>4, <3>1, <3>2
    <2>2. ASSUME c = TurnOf(i, n) PROVE \E k \in 1 .. m : d[k] = s[i]
      <3>1. PICK k \in 1 .. m : at(k) = i
        BY <1>4, <2>2
      <3> QED
        BY <1>5, <3>1
    <2> QED
      BY <2>1, <2>2
  <1> QED
    BY <1>2, <1>5, <1>6, <1>7, <1>8 DEF d, GetsItsTurns

\* A shuffle of the assigned chains has each of them once.
LEMMA ShuffleHasAll ==
    ASSUME NEW s \in SetToSeqs(AssignedChains)
    PROVE  \E l \in Nat : /\ s \in [1 .. l -> AssignedChains]
                          /\ \A i, j \in 1 .. l : s[i] = s[j] => i = j
                          /\ \A ch \in AssignedChains : \E i \in 1 .. l : s[i] = ch
  <1> DEFINE A == AssignedChains
             l == Cardinality(A)
  <1>1. IsFiniteSet(A)
    BY ClusterAssumption, FS_Subset DEF AssignedChains
  <1>2. l \in Nat
    BY <1>1, FS_CardinalityType
  <1>3. s \in [1 .. l -> A] /\ \A i, j \in 1 .. l : i # j => s[i] # s[j]
    BY DEF SetToSeqs
  <1>4. Cardinality(1 .. l) = l
    BY <1>2, FS_Interval
  <1> HIDE DEF A, l
  <1>5. s \in Injection(1 .. l, A)
    BY <1>3 DEF Injection, IsInjective
  <1>6. s \in Surjection(1 .. l, A)
    BY <1>1, <1>4, <1>5, FS_Injection DEF l
  <1>7. \A ch \in A : \E i \in 1 .. l : s[i] = ch
    BY <1>6 DEF Surjection
  <1> QED
    BY <1>2, <1>3, <1>7 DEF A

----------------------------------------------------------------------------
(* The inductive invariant. *)

ClusterTypes ==
    /\ clusters \in [ClusterId -> Cluster]
    /\ nextClusterId \in 1 .. MaxClusters + 1
    /\ chainToCluster \in [ChainId -> Nat]
    /\ challenges = [id \in ChallengeId |-> challenges[id]]
    /\ clusterRound \in Nat /\ registryRound \in Nat /\ currentEpoch \in Nat

Lists(cluster, ch) ==
    \E i \in DOMAIN cluster.assignedChainIds : cluster.assignedChainIds[i] = ch

\* No list repeats a chain, and a cluster lists exactly the chains that map to it; no
\* chain maps to a cluster that does not exist yet.
AssignmentInv ==
    /\ \A c \in ClusterId : \A i, j \in DOMAIN clusters[c].assignedChainIds :
          clusters[c].assignedChainIds[i] = clusters[c].assignedChainIds[j] => i = j
    /\ \A c \in ClusterId, ch \in ChainId : Lists(clusters[c], ch) <=> chainToCluster[ch] = c
    /\ \A ch \in ChainId : chainToCluster[ch] < nextClusterId

ClusterInv == ClusterTypes /\ AssignmentInv /\ EpochsPaced

\* A step that leaves the lists alone, the heads and members of clusters apart, keeps the
\* assignment.
LEMMA ListsKept ==
    ASSUME AssignmentInv, UNCHANGED <<nextClusterId, chainToCluster>>,
           \A c \in ClusterId : clusters'[c].assignedChainIds = clusters[c].assignedChainIds
    PROVE  AssignmentInv'
  BY DEF AssignmentInv, Lists

\* An election changes no list.
LEMMA HeadTyped ==
    ASSUME ClusterTypes, NEW k \in Cluster, NEW head \in Committer
    PROVE  /\ WithHead(k, head) \in Cluster
           /\ WithHead(k, head).assignedChainIds = k.assignedChainIds
           /\ WithHead(k, head).members = k.members
  BY DEF ClusterTypes, Cluster, WithHead, Address

\* createCluster takes chains that no cluster lists, and an id that no chain maps to.
LEMMA CreateClusterKeeps ==
    ASSUME ClusterInv, NEW s \in Setups, NEW head \in Committer,
           ToSet(s.chains) \cap AssignedChains = {},
           CreateCluster(s.chains, s.members, head)
    PROVE  ClusterInv'
  <1> DEFINE cid == nextClusterId
             k == clusters'[cid]
  <1>1. /\ cid \in ClusterId /\ cid \in Nat \ {0} /\ nextClusterId' = cid + 1
        /\ s.chains \in Seq(ChainId) /\ s.members \in Seq(Committer)
    <2>1. cid \in ClusterId /\ nextClusterId' = cid + 1
      BY DEF CreateCluster
    <2>2. s \in [chains : Seq(ChainId), members : Seq(Committer)]
      BY ClusterAssumption
    <2> QED
      BY <2>1, <2>2 DEF ClusterId
  <1>2. /\ clusters' \in [ClusterId -> Cluster] /\ k.assignedChainIds = s.chains
        /\ \A c \in ClusterId \ {cid} : clusters'[c] = clusters[c]
    <2> DEFINE base == WithHead(clusters[cid], head)
               all == clusters[cid].members \o s.members
               new == [base EXCEPT !.assignedChainIds = s.chains, !.members = all,
                                   !.isActive = TRUE]
    <2>1. clusters[cid] \in Cluster
      BY <1>1 DEF ClusterInv, ClusterTypes
    <2>2. base \in Cluster
      BY <2>1, HeadTyped DEF ClusterInv
    <2>3. all \in Seq(Committer)
      BY <1>1, <2>1 DEF Cluster
    <2>4. clusters' = [clusters EXCEPT ![cid] = new]
      BY DEF CreateCluster
    <2> HIDE DEF base, all
    <2>5. new \in Cluster /\ new.assignedChainIds = s.chains
      BY <1>1, <2>2, <2>3 DEF Cluster
    <2> HIDE DEF new
    <2> QED
      BY <1>1, <2>4, <2>5 DEF ClusterInv, ClusterTypes
  <1>3. /\ chainToCluster' \in [ChainId -> Nat]
        /\ \A ch \in ChainId : chainToCluster'[ch] =
              IF ch \in ToSet(s.chains) THEN cid ELSE chainToCluster[ch]
    BY <1>1 DEF CreateCluster, ClusterInv, ClusterTypes
  <1>4. \A ch \in ToSet(s.chains) : ch \in ChainId /\ chainToCluster[ch] = 0
    BY <1>1 DEF ToSet, AssignedChains
  <1>5. ClusterTypes'
    <2>1. UNCHANGED <<challenges, clusterRound, registryRound, currentEpoch>>
      BY DEF CreateCluster, registryVars
    <2>2. nextClusterId' \in 1 .. MaxClusters + 1
      BY <1>1, ClusterAssumption DEF ClusterId
    <2> QED
      BY <1>2, <1>3, <2>1, <2>2 DEF ClusterInv, ClusterTypes
  <1>6. \A i, j \in DOMAIN s.chains : s.chains[i] = s.chains[j] => i = j
    BY ClusterAssumption
  <1>7. ASSUME NEW c \in ClusterId, NEW ch \in ChainId
        PROVE  Lists(clusters'[c], ch) <=> chainToCluster'[ch] = c
    <2>1. Lists(clusters[c], ch) <=> chainToCluster[ch] = c
      BY DEF ClusterInv, AssignmentInv
    <2>2. chainToCluster[ch] \in Nat /\ chainToCluster[ch] < cid /\ c # 0
      BY DEF ClusterInv, ClusterTypes, AssignmentInv, ClusterId
    <2>3. CASE c = cid
      <3>1. Lists(clusters'[c], ch) <=> ch \in ToSet(s.chains)
        BY <1>2, <2>3 DEF Lists, ToSet
      <3> QED
        BY <1>1, <1>3, <2>2, <2>3, <3>1
    <2>4. CASE c # cid
      BY <1>2, <1>3, <1>4, <2>1, <2>2, <2>4
    <2> QED
      BY <2>3, <2>4
  <1>8. ASSUME NEW ch \in ChainId PROVE chainToCluster'[ch] < nextClusterId'
    <2>1. chainToCluster[ch] \in Nat /\ chainToCluster[ch] < cid
      BY DEF ClusterInv, ClusterTypes, AssignmentInv
    <2>2. chainToCluster'[ch] = cid \/ chainToCluster'[ch] = chainToCluster[ch]
      BY <1>3
    <2>3. nextClusterId' = cid + 1 /\ cid \in Nat
      BY <1>1
    <2> HIDE DEF cid
    <2> QED
      BY <2>1, <2>2, <2>3
  <1>9. AssignmentInv'
    <2>1. ASSUME NEW c \in ClusterId, NEW i \in DOMAIN clusters'[c].assignedChainIds,
                 NEW j \in DOMAIN clusters'[c].assignedChainIds,
                 clusters'[c].assignedChainIds[i] = clusters'[c].assignedChainIds[j]
          PROVE  i = j
      BY <1>2, <1>6, <2>1 DEF ClusterInv, AssignmentInv
    <2> QED
      BY <1>7, <1>8, <2>1 DEF AssignmentInv, Lists
  <1>10. EpochsPaced'
    BY DEF CreateCluster, ClusterInv, EpochsPaced, registryVars
  <1> QED
    BY <1>5, <1>9, <1>10 DEF ClusterInv

\* reshuffleClusters replaces all lists and the whole mapping, and counts an epoch.
LEMMA ReshuffleClustersKeeps ==
    ASSUME ClusterInv, NEW s \in SetToSeqs(AssignedChains),
           NEW heads \in [ClusterId -> Committer], ReshuffleClusters(s, heads)
    PROVE  ClusterInv'
  <1> DEFINE n == nextClusterId - 1
  <1>1. /\ n \in Nat \ {0} /\ \A c \in ClusterId : c > n <=> c \notin 1 .. n
        /\ 1 .. n \subseteq ClusterId /\ nextClusterId = n + 1 /\ nextClusterId' = n + 1
    <2>1. n > 0 /\ nextClusterId' = nextClusterId
      BY DEF ReshuffleClusters
    <2>2. nextClusterId \in 1 .. MaxClusters + 1 /\ MaxClusters \in Nat
      BY ClusterAssumption DEF ClusterInv, ClusterTypes
    <2> QED
      BY <2>1, <2>2 DEF ClusterId
  <1>2. PICK l \in Nat : /\ s \in [1 .. l -> AssignedChains]
                         /\ \A i, j \in 1 .. l : s[i] = s[j] => i = j
                         /\ \A ch \in AssignedChains : \E i \in 1 .. l : s[i] = ch
    BY ShuffleHasAll
  <1>3. AssignedChains \subseteq ChainId
    BY DEF AssignedChains
  <1>4. \A c \in 1 .. n : GetsItsTurns(s, l, c, n, ChainId)
    <2>1. s \in [1 .. l -> ChainId]
      BY <1>2, <1>3
    <2>2. n \in Nat \ {0}
      BY <1>1
    <2>3. \A i, j \in 1 .. l : s[i] = s[j] => i = j
      BY <1>2
    <2> HIDE DEF n
    <2> QED
      BY <2>1, <2>2, <2>3, DealtOnce
  <1>5. /\ clusters' = [c \in ClusterId |->
              IF c > n THEN clusters[c]
              ELSE [WithHead(clusters[c], heads[c]) EXCEPT
                       !.assignedChainIds = Dealt(s, c, n)]]
        /\ chainToCluster' = [ch \in ChainId |->
              IF \E i \in DOMAIN s : s[i] = ch
              THEN 1 + (((CHOOSE i \in DOMAIN s : s[i] = ch) - 1) % n)
              ELSE chainToCluster[ch]]
        /\ currentEpoch' = currentEpoch + 1
        /\ UNCHANGED <<registryRound, challenges, clusterRound>>
    BY DEF ReshuffleClusters, registryVars
  <1> HIDE DEF n
  <1>6. DOMAIN s = 1 .. l
    BY <1>2
  <1>7. \A i \in 1 .. l : TurnOf(i, n) \in 1 .. n
    BY <1>1, Division DEF TurnOf
  <1>8. /\ clusters' \in [ClusterId -> Cluster]
        /\ \A c \in 1 .. n : clusters'[c].assignedChainIds = Dealt(s, c, n)
        /\ \A c \in ClusterId \ (1 .. n) : clusters'[c] = clusters[c]
    <2>1. ASSUME NEW c \in 1 .. n
          PROVE  /\ [WithHead(clusters[c], heads[c]) EXCEPT
                        !.assignedChainIds = Dealt(s, c, n)] \in Cluster
                 /\ [WithHead(clusters[c], heads[c]) EXCEPT
                        !.assignedChainIds = Dealt(s, c, n)].assignedChainIds = Dealt(s, c, n)
      <3> DEFINE base == WithHead(clusters[c], heads[c])
      <3>1. c \in ClusterId /\ Dealt(s, c, n) \in Seq(ChainId)
        BY <1>1, <1>4 DEF GetsItsTurns
      <3>2. base \in Cluster
        BY <3>1, HeadTyped DEF ClusterInv, ClusterTypes
      <3> HIDE DEF base
      <3>3. /\ [base EXCEPT !.assignedChainIds = Dealt(s, c, n)] \in Cluster
            /\ [base EXCEPT !.assignedChainIds = Dealt(s, c, n)].assignedChainIds
                  = Dealt(s, c, n)
        BY <3>1, <3>2 DEF Cluster
      <3> QED
        BY <3>3 DEF base
    <2>2. \A c \in ClusterId : clusters[c] \in Cluster
      BY DEF ClusterInv, ClusterTypes
    <2>3. \A c \in 1 .. n : c \in ClusterId /\ ~(c > n)
      BY <1>1
    <2>4. \A c \in ClusterId \ (1 .. n) : c > n
      BY <1>1
    <2>5. \A c \in ClusterId : clusters'[c] =
             IF c > n THEN clusters[c]
             ELSE [WithHead(clusters[c], heads[c]) EXCEPT !.assignedChainIds = Dealt(s, c, n)]
      BY <1>5
    <2>6. \A c \in ClusterId : clusters'[c] \in Cluster
      BY <2>1, <2>2, <2>4, <2>5
    <2> QED
      BY <1>5, <2>1, <2>3, <2>4, <2>5, <2>6
  <1>9. ASSUME NEW i \in 1 .. l PROVE s[i] \in ChainId /\ chainToCluster'[s[i]] = TurnOf(i, n)
    <2>1. s[i] \in ChainId
      BY <1>2, <1>3
    <2>2. (CHOOSE j \in DOMAIN s : s[j] = s[i]) = i
      BY <1>2, <1>6
    <2> QED
      BY <1>5, <1>6, <2>1, <2>2 DEF TurnOf
  <1>10. ASSUME NEW ch \in ChainId, ch \notin AssignedChains
         PROVE  chainToCluster'[ch] = 0 /\ \A i \in 1 .. l : s[i] # ch
    <2>1. \A i \in 1 .. l : s[i] # ch
      BY <1>2, <1>10
    <2>2. chainToCluster[ch] = 0
      BY <1>10 DEF AssignedChains
    <2> QED
      BY <1>5, <1>6, <2>1, <2>2
  <1>11. ASSUME NEW c \in ClusterId, NEW ch \in ChainId
         PROVE  Lists(clusters'[c], ch) <=> chainToCluster'[ch] = c
    <2>1. CASE c \notin 1 .. n
      <3>1. ~Lists(clusters'[c], ch)
        <4>1. chainToCluster[ch] # c
          BY <1>1, <2>1 DEF ClusterInv, ClusterTypes, AssignmentInv, ClusterId
        <4> QED
          BY <1>8, <2>1, <4>1 DEF ClusterInv, AssignmentInv
      <3>2. chainToCluster'[ch] # c
        <4>1. CASE ch \in AssignedChains
          BY <1>2, <1>7, <1>9, <2>1, <4>1
        <4>2. CASE ch \notin AssignedChains
          BY <1>10, <4>2 DEF ClusterId
        <4> QED
          BY <4>1, <4>2
      <3> QED
        BY <3>1, <3>2
    <2>2. CASE c \in 1 .. n
      <3>1. Lists(clusters'[c], ch)
               <=> \E k \in DOMAIN Dealt(s, c, n) : Dealt(s, c, n)[k] = ch
        BY <1>8, <2>2 DEF Lists
      <3>2. CASE ch \in AssignedChains
        <4>1. PICK i \in 1 .. l : s[i] = ch
          BY <1>2, <3>2
        <4>2. (\E k \in DOMAIN Dealt(s, c, n) : Dealt(s, c, n)[k] = ch) <=> c = TurnOf(i, n)
          BY <1>4, <2>2, <4>1, SMTT(30) DEF GetsItsTurns
        <4> QED
          BY <1>9, <3>1, <4>1, <4>2
      <3>3. CASE ch \notin AssignedChains
        <4>1. ~ \E k \in DOMAIN Dealt(s, c, n) : Dealt(s, c, n)[k] = ch
          BY <1>4, <1>10, <2>2, <3>3 DEF GetsItsTurns
        <4> QED
          BY <1>10, <3>1, <3>3, <4>1 DEF ClusterId
      <3> QED
        BY <3>2, <3>3
    <2> QED
      BY <2>1, <2>2
  <1>12. ASSUME NEW ch \in ChainId
         PROVE  chainToCluster'[ch] \in Nat /\ chainToCluster'[ch] < nextClusterId'
    <2>1. CASE ch \in AssignedChains
      <3>1. PICK i \in 1 .. l : s[i] = ch
        BY <1>2, <2>1
      <3>2. chainToCluster'[ch] \in 1 .. n
        BY <1>7, <1>9, <3>1
      <3> QED
        BY <1>1, <3>2
    <2>2. CASE ch \notin AssignedChains
      BY <1>1, <1>10, <2>2
    <2> QED
      BY <2>1, <2>2
  <1>13. AssignmentInv'
    <2>1. ASSUME NEW c \in ClusterId, NEW i \in DOMAIN clusters'[c].assignedChainIds,
                 NEW j \in DOMAIN clusters'[c].assignedChainIds,
                 clusters'[c].assignedChainIds[i] = clusters'[c].assignedChainIds[j]
          PROVE  i = j
      <3>1. CASE c \in 1 .. n
        BY <1>4, <1>8, <2>1, <3>1, SMTT(30) DEF GetsItsTurns
      <3>2. CASE c \notin 1 .. n
        BY <1>8, <2>1, <3>2 DEF ClusterInv, AssignmentInv
      <3> QED
        BY <3>1, <3>2
    <2> QED
      BY <1>11, <1>12, <2>1 DEF AssignmentInv, Lists
  <1>14. ClusterTypes'
    <2>1. chainToCluster' \in [ChainId -> Nat]
      BY <1>5, <1>12
    <2>2. nextClusterId' = nextClusterId
      BY <1>1
    <2> QED
      BY <1>5, <1>8, <2>1, <2>2 DEF ClusterInv, ClusterTypes
  <1>15. EpochsPaced'
    <2>1. clusterRound >= (currentEpoch + 1) * EPOCH_LENGTH
      BY DEF ReshuffleClusters, EpochEnded
    <2>2. (currentEpoch + 1) * EPOCH_LENGTH \in Nat /\ clusterRound \in Nat
      BY ClusterAssumption, SMTT(30) DEF ClusterInv, ClusterTypes
    <2> QED
      BY <1>5, <2>1, <2>2 DEF ClusterInv, EpochsPaced
  <1> QED
    BY <1>13, <1>14, <1>15 DEF ClusterInv

\* A step that touches no cluster and turns both rounds or the registry's only.
LEMMA NoClusterStepKeeps ==
    ASSUME ClusterInv, UNCHANGED <<clusters, nextClusterId, chainToCluster, currentEpoch>>,
           challenges' = [id \in ChallengeId |-> challenges'[id]],
           \/ UNCHANGED <<clusterRound, registryRound>>
           \/ clusterRound' = clusterRound /\ registryRound' = registryRound + 1
           \/ clusterRound' = clusterRound + 1 /\ registryRound' = registryRound + 1
    PROVE  ClusterInv'
  <1>1. ClusterTypes'
    BY DEF ClusterInv, ClusterTypes
  <1>2. AssignmentInv'
    BY ListsKept DEF ClusterInv
  <1>3. EpochsPaced'
    <2>1. /\ currentEpoch * EPOCH_LENGTH \in Nat /\ clusterRound \in Nat
          /\ registryRound \in Nat
      BY ClusterAssumption, SMTT(30) DEF ClusterInv, ClusterTypes
    <2>2. currentEpoch' * EPOCH_LENGTH = currentEpoch * EPOCH_LENGTH
      OBVIOUS
    <2>3. currentEpoch * EPOCH_LENGTH <= clusterRound /\ clusterRound <= registryRound
      BY DEF ClusterInv, EpochsPaced
    <2> QED
      BY <2>1, <2>2, <2>3 DEF EpochsPaced
  <1> QED
    BY <1>1, <1>2, <1>3 DEF ClusterInv

\* The registry's own transactions turn its round by at most one.
LEMMA RegistryStepRound ==
    ASSUME NEW senders, RegistryStep(senders)
    PROVE  registryRound' = registryRound \/ registryRound' = registryRound + 1
  <1>1. CASE \E ct, e1, e2 \in Committer, v \in Stakes : RegisterCommitter(ct, v, <<e1, e2>>)
    BY <1>1 DEF RegisterCommitter
  <1>2. CASE \E a \in Auditor, status \in BOOLEAN : SetAuthorizedAuditor(a, status)
    BY <1>2 DEF SetAuthorizedAuditor
  <1>3. CASE \E a \in senders, ct \in Committer, e \in Events, h \in Hash :
                UpdateState(a, ct, e, h)
    BY <1>3 DEF UpdateState
  <1>4. CASE \E ct \in Committer, r \in AppealRounds, h \in Hash : FileAppeal(ct, r, h)
    BY <1>4 DEF FileAppeal
  <1>5. CASE \E a \in senders, id \in AppealId, upheld \in BOOLEAN :
                ResolveAppeal(a, id, upheld)
    BY <1>5 DEF ResolveAppeal
  <1>6. CASE \E a \in senders : RegistryAdvanceRound(a)
    BY <1>6 DEF RegistryAdvanceRound
  <1> QED
    BY <1>1, <1>2, <1>3, <1>4, <1>5, <1>6, SMTT(30) DEF RegistryStep

\* A resolved challenge is left alone.
Finality ==
    \A id \in ChallengeId : challenges[id].resolved => challenges'[id] = challenges[id]

\* Every transaction keeps the invariant and leaves resolved challenges alone.
LEMMA ClusterStep == ASSUME ClusterInv, ClusterNext PROVE ClusterInv' /\ Finality
  <1>0. challenges = [id \in ChallengeId |-> challenges[id]]
    BY DEF ClusterInv, ClusterTypes
  <1>1. CASE RegistryStep(Auditor \ {Manager}) /\ UNCHANGED clusterVars
    <2>1. UNCHANGED <<clusters, nextClusterId, chainToCluster, currentEpoch, challenges,
                      clusterRound>>
      BY <1>1 DEF clusterVars
    <2> QED
      BY <1>0, <1>1, <2>1, RegistryStepRound, NoClusterStepKeeps DEF Finality
  <1>2. ASSUME NEW s \in Setups, NEW head \in Committer,
               ToSet(s.chains) \cap AssignedChains = {},
               CreateCluster(s.chains, s.members, head)
        PROVE  ClusterInv' /\ Finality
    <2>1. UNCHANGED challenges
      BY <1>2 DEF CreateCluster
    <2> QED
      BY <1>2, <2>1, CreateClusterKeeps DEF Finality
  <1>3. ASSUME NEW cid \in ClusterId, NEW m \in Committer, AddMember(cid, m)
        PROVE  ClusterInv' /\ Finality
    <2> DEFINE k == [clusters[cid] EXCEPT !.members = Append(@, m)]
    <2>1. /\ UNCHANGED <<nextClusterId, chainToCluster, challenges, clusterRound, currentEpoch,
                         registryRound>>
          /\ clusters' = [clusters EXCEPT ![cid] = k]
      BY <1>3 DEF AddMember, registryVars
    <2>2. clusters[cid] \in Cluster
      BY DEF ClusterInv, ClusterTypes
    <2>3. k \in Cluster /\ k.assignedChainIds = clusters[cid].assignedChainIds
      BY <2>2, SMTT(30) DEF Cluster
    <2> HIDE DEF k
    <2>4. clusters' \in [ClusterId -> Cluster]
      BY <2>1, <2>3 DEF ClusterInv, ClusterTypes
    <2>5. \A c \in ClusterId : clusters'[c].assignedChainIds = clusters[c].assignedChainIds
      BY <2>1, <2>3 DEF ClusterInv, ClusterTypes
    <2>6. AssignmentInv'
      BY <2>1, <2>5, ListsKept DEF ClusterInv
    <2> QED
      BY <2>1, <2>4, <2>6 DEF ClusterInv, ClusterTypes, EpochsPaced, Finality
  <1>4. ASSUME NEW cid \in ClusterId, NEW head \in Committer, ElectClusterHead(cid, head)
        PROVE  ClusterInv' /\ Finality
    <2>1. /\ UNCHANGED <<nextClusterId, chainToCluster, challenges, clusterRound, currentEpoch,
                         registryRound>>
          /\ clusters' = [clusters EXCEPT ![cid] = WithHead(clusters[cid], head)]
      BY <1>4 DEF ElectClusterHead, registryVars
    <2>2. clusters[cid] \in Cluster
      BY DEF ClusterInv, ClusterTypes
    <2>3. /\ WithHead(clusters[cid], head) \in Cluster
          /\ WithHead(clusters[cid], head).assignedChainIds = clusters[cid].assignedChainIds
      BY <2>2, HeadTyped DEF ClusterInv
    <2>4. clusters' \in [ClusterId -> Cluster]
      BY <2>1, <2>3 DEF ClusterInv, ClusterTypes
    <2>5. \A c \in ClusterId : clusters'[c].assignedChainIds = clusters[c].assignedChainIds
      BY <2>1, <2>3 DEF ClusterInv, ClusterTypes
    <2>6. AssignmentInv'
      BY <2>1, <2>5, ListsKept DEF ClusterInv
    <2> QED
      BY <2>1, <2>4, <2>6 DEF ClusterInv, ClusterTypes, EpochsPaced, Finality
  <1>5. ASSUME NEW cid \in ClusterId, NEW roots, SubmitClusterCommit(cid, roots)
        PROVE  ClusterInv' /\ Finality
    <2>1. UNCHANGED <<clusters, nextClusterId, chainToCluster, challenges, clusterRound,
                      currentEpoch, registryRound>>
      BY <1>5, SMTT(30) DEF SubmitClusterCommit, registryVars
    <2> QED
      BY <1>0, <2>1, NoClusterStepKeeps DEF Finality
  <1>6. ASSUME NEW id, VerifyClusterCommit(id) PROVE ClusterInv' /\ Finality
    <2>1. UNCHANGED <<clusters, nextClusterId, chainToCluster, challenges, clusterRound,
                      currentEpoch, registryRound>>
      BY <1>6 DEF VerifyClusterCommit, RegistryUpdates
    <2> QED
      BY <1>0, <2>1, NoClusterStepKeeps DEF Finality
  <1>7. ASSUME NEW reports, CrossReferenceAndUpdate(reports) PROVE ClusterInv' /\ Finality
    <2>1. UNCHANGED <<clusters, nextClusterId, chainToCluster, challenges, clusterRound,
                      currentEpoch, registryRound>>
      BY <1>7 DEF CrossReferenceAndUpdate, RegistryUpdates, clusterVars
    <2> QED
      BY <1>0, <2>1, NoClusterStepKeeps DEF Finality
  <1>8. ASSUME NEW s \in SetToSeqs(AssignedChains), NEW heads \in [ClusterId -> Committer],
               ReshuffleClusters(s, heads)
        PROVE  ClusterInv' /\ Finality
    <2>1. UNCHANGED challenges
      BY <1>8 DEF ReshuffleClusters
    <2> QED
      BY <1>8, <2>1, ReshuffleClustersKeeps DEF Finality
  <1>9. ASSUME NEW id \in ChallengeId, FileDAChallenge(id) PROVE ClusterInv' /\ Finality
    <2> DEFINE k == [filed |-> TRUE, resolved |-> FALSE, valid |-> FALSE]
    <2>1. UNCHANGED <<clusters, nextClusterId, chainToCluster, clusterRound, currentEpoch,
                      registryRound>>
      BY <1>9 DEF FileDAChallenge, registryVars
    <2>2. ~challenges[id].resolved /\ challenges' = [challenges EXCEPT ![id] = k]
      BY <1>9, SMTT(30) DEF FileDAChallenge, Unresolved
    <2> HIDE DEF k
    <2>3. challenges' = [x \in ChallengeId |-> challenges'[x]] /\ Finality
      BY <1>0, <2>2 DEF Finality
    <2> QED
      BY <2>1, <2>3, NoClusterStepKeeps
  <1>10. ASSUME NEW id \in ChallengeId, RejectDAChallenge(id) PROVE ClusterInv' /\ Finality
    <2> DEFINE k == [challenges[id] EXCEPT !.resolved = TRUE]
    <2>1. UNCHANGED <<clusters, nextClusterId, chainToCluster, clusterRound, currentEpoch,
                      registryRound>>
      BY <1>10 DEF RejectDAChallenge, registryVars
    <2>2. ~challenges[id].resolved /\ challenges' = [challenges EXCEPT ![id] = k]
      BY <1>10 DEF RejectDAChallenge
    <2> HIDE DEF k
    <2>3. challenges' = [x \in ChallengeId |-> challenges'[x]] /\ Finality
      BY <1>0, <2>2 DEF Finality
    <2> QED
      BY <2>1, <2>3, NoClusterStepKeeps
  <1>11. ASSUME NEW id \in ChallengeId, NEW head \in Committer, UpholdDAChallenge(id, head)
         PROVE  ClusterInv' /\ Finality
    <2> DEFINE c == id.clusterId
    <2>1. /\ UNCHANGED <<nextClusterId, chainToCluster, clusterRound, currentEpoch,
                         registryRound>>
          /\ clusters' = [clusters EXCEPT ![c] = WithHead(clusters[c], head)]
      BY <1>11 DEF UpholdDAChallenge, RegistryUpdates
    <2>2. ~challenges[id].resolved
      BY <1>11 DEF UpholdDAChallenge
    <2>3. challenges' = [challenges EXCEPT ![id].resolved = TRUE, ![id].valid = TRUE]
      BY <1>11 DEF UpholdDAChallenge
    <2>4. \A x \in ChallengeId \ {id} : challenges'[x] = challenges[x]
      BY <1>0, <2>3
    <2>5. challenges' = [x \in ChallengeId |-> challenges'[x]]
      BY <1>0, <2>3
    <2>6. Finality
      BY <2>2, <2>4 DEF Finality
    <2>7. c \in ClusterId /\ clusters[c] \in Cluster
      BY DEF ClusterInv, ClusterTypes, ChallengeId
    <2> HIDE DEF c
    <2>8. /\ WithHead(clusters[c], head) \in Cluster
          /\ WithHead(clusters[c], head).assignedChainIds = clusters[c].assignedChainIds
      BY <2>7, HeadTyped DEF ClusterInv
    <2>9. clusters' \in [ClusterId -> Cluster]
      BY <2>1, <2>7, <2>8 DEF ClusterInv, ClusterTypes
    <2>10. \A d \in ClusterId : clusters'[d].assignedChainIds = clusters[d].assignedChainIds
      BY <2>1, <2>7, <2>8 DEF ClusterInv, ClusterTypes
    <2>11. AssignmentInv'
      BY <2>1, <2>10, ListsKept DEF ClusterInv
    <2> QED
      BY <2>1, <2>5, <2>6, <2>9, <2>11 DEF ClusterInv, ClusterTypes, EpochsPaced
  <1>12. CASE ClusterAdvanceRound
    <2>1. /\ UNCHANGED <<clusters, nextClusterId, chainToCluster, challenges, currentEpoch>>
          /\ clusterRound' = clusterRound + 1 /\ registryRound' = registryRound + 1
      BY <1>12 DEF ClusterAdvanceRound
    <2> QED
      BY <1>0, <2>1, NoClusterStepKeeps DEF Finality
  <1>13. CASE MineBlock
    <2>1. UNCHANGED <<clusters, nextClusterId, chainToCluster, challenges, clusterRound,
                      currentEpoch, registryRound>>
      BY <1>13 DEF MineBlock, registryVars
    <2> QED
      BY <1>0, <2>1, NoClusterStepKeeps DEF Finality
  <1> QED
    BY <1>1, <1>2, <1>3, <1>4, <1>5, <1>6, <1>7, <1>8, <1>9, <1>10, <1>11, <1>12, <1>13
       DEF ClusterNext

\* The contract is deployed without clusters, in round 1 of both contracts.
LEMMA ClusterInitially == ASSUME ClusterInit PROVE ClusterInv
  <1>1. /\ clusters = [c \in ClusterId |-> NoCluster] /\ nextClusterId = 1
        /\ chainToCluster = [ch \in ChainId |-> 0]
        /\ challenges = [id \in ChallengeId |-> NoChallenge]
        /\ clusterRound = 1 /\ currentEpoch = 0 /\ registryRound = 1
    BY DEF ClusterInit, DeployedRegistry
  <1>2. NoCluster \in Cluster /\ NoCluster.assignedChainIds = <<>>
    BY DEF NoCluster, Cluster, Address
  <1>3. ClusterTypes
    BY <1>1, <1>2, ClusterAssumption, SMTT(30) DEF ClusterTypes
  <1>4. AssignmentInv
    <2>1. \A c \in ClusterId : DOMAIN clusters[c].assignedChainIds = {} /\ c # 0
      BY <1>1, <1>2 DEF ClusterId
    <2> QED
      BY <1>1, <2>1 DEF AssignmentInv, Lists
  <1>5. EpochsPaced
    BY <1>1, ClusterAssumption DEF EpochsPaced
  <1> QED
    BY <1>3, <1>4, <1>5 DEF ClusterInv

\* The invariant holds always.
LEMMA ClusterInvHolds == ClusterSpec => []ClusterInv
  <1>1. ASSUME ClusterInv, UNCHANGED systemVars PROVE ClusterInv'
    <2>1. UNCHANGED <<clusters, nextClusterId, chainToCluster, challenges, clusterRound,
                      currentEpoch, registryRound>>
      BY <1>1 DEF systemVars, registryVars, clusterVars
    <2> QED
      BY <1>1, <2>1, NoClusterStepKeeps DEF ClusterInv, ClusterTypes
  <1> QED
    BY <1>1, ClusterInitially, ClusterStep, PTL DEF ClusterSpec

----------------------------------------------------------------------------

\* createCluster and reshuffleClusters keep both directions of the assignment in step: for
\* any number of clusters and chains, dealing a shuffle round-robin gives every chain to
\* the one cluster that chainToCluster names, and to no other.
THEOREM AssignmentsAlwaysAgree == ClusterSpec => []AssignmentsAgree
  <1>1. ASSUME ClusterInv PROVE AssignmentsAgree
    <2> SUFFICES ASSUME NEW ch \in ChainId, NEW c \in ClusterId
                 PROVE  Cardinality({i \in DOMAIN clusters[c].assignedChainIds :
                                        clusters[c].assignedChainIds[i] = ch})
                           = IF chainToCluster[ch] = c THEN 1 ELSE 0
      BY DEF AssignmentsAgree
    <2> DEFINE at == {i \in DOMAIN clusters[c].assignedChainIds :
                         clusters[c].assignedChainIds[i] = ch}
    <2>1. \A i, j \in at : i = j
      BY <1>1 DEF ClusterInv, AssignmentInv
    <2>2. (\E i : i \in at) <=> chainToCluster[ch] = c
      BY <1>1 DEF ClusterInv, AssignmentInv, Lists
    <2> HIDE DEF at
    <2>3. CASE chainToCluster[ch] = c
      <3>1. PICK i : i \in at
        BY <2>2, <2>3
      <3>2. at = {i}
        BY <2>1, <3>1
      <3>3. Cardinality(at) = 1
        BY <3>2, FS_Singleton
      <3> QED
        BY <2>3, <3>3 DEF at
    <2>4. CASE chainToCluster[ch] # c
      <3>1. at = {}
        BY <2>2, <2>4
      <3> QED
        BY <2>4, <3>1, FS_EmptySet DEF at
    <2> QED
      BY <2>3, <2>4
  <1> QED
    BY <1>1, ClusterInvHolds, PTL

\* reshuffleClusters cannot be called ahead of its epoch: the rounds of both contracts
\* are never behind the epochs that have been counted.
THEOREM EpochsAlwaysPaced == ClusterSpec => []EpochsPaced
  BY ClusterInvHolds, PTL DEF ClusterInv

\* No transaction of either contract touches a challenge that resolveDAChallenge has
\* settled.
THEOREM ChallengesStayResolved == ClusterSpec => ResolvedChallengeIsFinal
  <1>1. ASSUME ClusterInv, [ClusterNext]_systemVars
        PROVE  [\A id \in ChallengeId :
                   challenges[id].resolved => challenges'[id] = challenges[id]]_systemVars
    BY <1>1, ClusterStep DEF Finality
  <1> QED
    BY <1>1, ClusterInvHolds, PTL DEF ClusterSpec, ResolvedChallengeIsFinal

=============================================================================
