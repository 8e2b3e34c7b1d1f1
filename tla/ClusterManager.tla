--------------------------- MODULE ClusterManager ---------------------------
(***************************************************************************)
(* contracts/audit_chain/ClusterManager.sol composed with the registry it  *)
(* calls.  Clusters of committers elect a head by reputation weight, heads *)
(* submit the roots of their chains, and data-availability challenges and  *)
(* cross-references feed faults back into the reputation that the next     *)
(* election reads.                                                         *)
(***************************************************************************)
EXTENDS ReputationRegistry, SequencesExt

CONSTANTS
    Manager,            \* address of this contract, an auditor of the registry
    DeployedBooks,      \* registry books that this contract may be deployed on
    ChainId,            \* ordinary chains; none has id 0
    MaxClusters,        \* bound on the clusters created
    MaxMembers,         \* bound on addMember
    Setups,             \* [chains, members] records that createCluster is called with
    Reports,            \* sequences that crossReferenceAndUpdate is called with
    ChainRoot,          \* state roots that heads submit
    Node,               \* addresses that file challenges
    ChallengeRounds,    \* rounds that challenges name
    ELECTION_GAP,       \* 10 in the code
    EPOCH_LENGTH,       \* 100 in the code
    CHALLENGE_WINDOW,   \* 10 in the code
    MaxTime,            \* bound on block.timestamp
    MaxChallenges,      \* bound on the challenge ids in use
    MaxClusterCommits   \* bound on the commits kept

ASSUME ClusterAssumption ==
    /\ Manager \in Auditor
    /\ ELECTION_GAP \in Nat /\ EPOCH_LENGTH \in Nat \ {0} /\ CHALLENGE_WINDOW \in Nat
    /\ MaxClusters \in Nat /\ MaxMembers \in Nat /\ MaxTime \in Nat
    /\ MaxClusterCommits \in Nat /\ MaxChallenges \in Nat
    /\ ChallengeRounds \subseteq Nat
    /\ IsFiniteSet(ChainId)
    /\ Setups \subseteq [chains : Seq(ChainId), members : Seq(Committer)]
    /\ \A s \in Setups : \A i, j \in DOMAIN s.chains : s.chains[i] = s.chains[j] => i = j

VARIABLES
    clusters,         \* cluster id -> Cluster
    nextClusterId,
    chainToCluster,   \* chain -> cluster id, 0 when unassigned
    clusterCommits,   \* commit id -> [clusterHead, isVerified]
    challenges,       \* challenge id -> DataAvailabilityChallenge
    submittedInRound, \* pairs <<round, chain>> with chainSubmittedInRound
    clusterRound,     \* currentRound of this contract
    currentEpoch,
    blockTime,        \* block.timestamp
    penalties         \* history: <<challenge id, head penalised for it>>

clusterVars == <<clusters, nextClusterId, chainToCluster, clusterCommits, challenges,
                 submittedInRound, clusterRound, currentEpoch, blockTime, penalties>>

systemVars == <<registryVars, clusterVars>>

ClusterId == 1 .. MaxClusters

\* totalProofsAggregated is counted and never read.
Cluster == [clusterHead : Address, members : Seq(Committer),
            assignedChainIds : Seq(ChainId), lastElectionRound : Nat, isActive : BOOLEAN]

NoCluster == [clusterHead |-> NoAddress, members |-> <<>>, assignedChainIds |-> <<>>,
              lastElectionRound |-> 0, isActive |-> FALSE]

\* The fields that keccak256 hashes, taken as injective.
ChallengeId == [clusterId : ClusterId, missingChainId : ChainId,
                round : ChallengeRounds, challenger : Node]

NoChallenge == [filed |-> FALSE, resolved |-> FALSE, valid |-> FALSE]

\* The registry is deployed before this contract and may have been in use: its books
\* are some that registrations and events lead to, and no appeal has been filed.
DeployedRegistry ==
    /\ \E b \in DeployedBooks :
          /\ states = b.states /\ appealSnapshots = b.snapshots
          /\ totalSlashedPool = b.pool
          /\ registryBalance =
                b.pool + MapThenSumSet(LAMBDA a : b.states[a].stakedAmount, Address)
    /\ appeals = [id \in AppealId |-> NoAppeal]
    /\ authorizedAuditors = {Genesis}
    /\ registryRound = 1 /\ updateCount = 0

ClusterInit ==
    /\ DeployedRegistry
    /\ clusters = [c \in ClusterId |-> NoCluster]
    /\ nextClusterId = 1
    /\ chainToCluster = [ch \in ChainId |-> 0]
    /\ clusterCommits = <<>>
    /\ challenges = [id \in ChallengeId |-> NoChallenge]
    /\ submittedInRound = {}
    /\ clusterRound = 1 /\ currentEpoch = 0 /\ blockTime = 1
    /\ penalties = {}

----------------------------------------------------------------------------
(***************************************************************************)
(* _electClusterHead: the seed is a block hash, so any member whose share  *)
(* of the cumulative weight is not empty can win; the first member wins    *)
(* when nobody has weight.                                                 *)
(***************************************************************************)

\* Variant: every committer with weight can win, member or not.
Electable_Anyone(members, st) == {a \in Committer : ElectionWeight(st[a]) > 0}

Electable(members, st) ==
    LET weighted == {i \in DOMAIN members : ElectionWeight(st[members[i]]) > 0}
    IN  IF weighted = {} THEN {members[1]} ELSE {members[i] : i \in weighted}

WithHead(cluster, head) ==
    [cluster EXCEPT !.clusterHead = head, !.lastElectionRound = clusterRound]

CreateCluster(chainIds, members, head) ==
    LET cid == nextClusterId
        all == clusters[cid].members \o members
    IN  /\ chainIds # <<>> /\ members # <<>>
        /\ cid \in ClusterId
        /\ head \in Electable(all, states)
        /\ nextClusterId' = cid + 1
        /\ clusters' = [clusters EXCEPT ![cid] =
              [WithHead(@, head) EXCEPT !.assignedChainIds = chainIds,
                                        !.members = all, !.isActive = TRUE]]
        /\ chainToCluster' = [ch \in ChainId |->
              IF ch \in ToSet(chainIds) THEN cid ELSE chainToCluster[ch]]
        /\ UNCHANGED <<registryVars, clusterCommits, challenges, submittedInRound,
                       clusterRound, currentEpoch, blockTime, penalties>>

\* The cluster need not exist yet: the member is there when it is created.
AddMember(cid, member) ==
    /\ states[member].isRegistered
    /\ Len(clusters[cid].members) < MaxMembers
    /\ clusters' = [clusters EXCEPT ![cid].members = Append(@, member)]
    /\ UNCHANGED <<registryVars, nextClusterId, chainToCluster, clusterCommits, challenges,
                   submittedInRound, clusterRound, currentEpoch, blockTime, penalties>>

ElectClusterHead(cid, head) ==
    /\ clusters[cid].isActive
    /\ clusterRound >= clusters[cid].lastElectionRound + ELECTION_GAP
    /\ head \in Electable(clusters[cid].members, states)
    /\ clusters' = [clusters EXCEPT ![cid] = WithHead(@, head)]
    /\ UNCHANGED <<registryVars, nextClusterId, chainToCluster, clusterCommits, challenges,
                   submittedInRound, clusterRound, currentEpoch, blockTime, penalties>>

----------------------------------------------------------------------------
(* Cluster commits. *)

\* Two commits of the same roots in one round and one block have the same id, and the
\* second overwrites the first.  The Merkle root stands for the sequence of roots.
SubmitClusterCommit(cid, chainRoots) ==
    LET id == [clusterId |-> cid, roots |-> chainRoots, round |-> clusterRound,
               timestamp |-> blockTime]
        chainIds == clusters[cid].assignedChainIds
    IN  /\ clusters[cid].isActive
        /\ Len(chainRoots) = Len(chainIds)
        /\ Cardinality(DOMAIN clusterCommits \cup {id}) <= MaxClusterCommits
        /\ clusterCommits' = [x \in DOMAIN clusterCommits \cup {id} |->
              IF x = id
              THEN [clusterHead |-> clusters[cid].clusterHead, isVerified |-> FALSE]
              ELSE clusterCommits[x]]
        /\ submittedInRound' = submittedInRound
                                  \cup {<<clusterRound, ch>> : ch \in ToSet(chainIds)}
        /\ UNCHANGED <<registryVars, clusters, nextClusterId, chainToCluster, challenges,
                       clusterRound, currentEpoch, blockTime, penalties>>

\* The registry's part of a transaction that makes the given updateState calls.
RegistryUpdates(books) ==
    /\ Manager \in authorizedAuditors
    /\ updateCount < MaxUpdates
    /\ updateCount' = updateCount + 1
    /\ SetBooks(books)
    /\ UNCHANGED <<appeals, authorizedAuditors, registryRound, registryBalance>>

\* The aggregated root goes with the VALID event, which ignores it.
VerifyClusterCommit(id) ==
    LET head == clusterCommits[id].clusterHead
    IN  /\ ~clusterCommits[id].isVerified
        /\ states[head].isRegistered
        /\ RegistryUpdates(AfterUpdate(Books, head, "VALID", NoHash))
        /\ clusterCommits' = [clusterCommits EXCEPT ![id].isVerified = TRUE]
        /\ UNCHANGED <<clusters, nextClusterId, chainToCluster, challenges,
                       submittedInRound, clusterRound, currentEpoch, blockTime, penalties>>

----------------------------------------------------------------------------
(***************************************************************************)
(* crossReferenceAndUpdate.  A report is [committer, root, alive].         *)
(***************************************************************************)
CountOf(reports, root) == Cardinality({i \in DOMAIN reports : reports[i].root = root})

\* _majorityRoot: the first root with the largest count, dead reports included.
MajorityRoot(reports) ==
    LET best == Max({CountOf(reports, reports[i].root) : i \in DOMAIN reports})
        first == Min({i \in DOMAIN reports : CountOf(reports, reports[i].root) = best})
    IN  reports[first].root

ReportEvent(report, expectedRoot) ==
    IF ~report.alive THEN "MISSING"
    ELSE IF report.root = expectedRoot THEN "VALID" ELSE "INVALID"

\* The registry's books after one update per report, in order.
AfterReports(reports) ==
    LET expectedRoot == MajorityRoot(reports)
        Update(books, report) ==
            AfterUpdate(books, report.committer, ReportEvent(report, expectedRoot), report.root)
    IN  FoldLeft(Update, Books, reports)

CrossReferenceAndUpdate(reports) ==
    /\ \A i \in DOMAIN reports : states[reports[i].committer].isRegistered
    /\ RegistryUpdates(AfterReports(reports))
    /\ UNCHANGED clusterVars

----------------------------------------------------------------------------
(***************************************************************************)
(* reshuffleClusters: the Fisher-Yates shuffle with a hashed seed yields   *)
(* some permutation of the chains; they are dealt round-robin.             *)
(***************************************************************************)

\* Variant: reshuffling is allowed one round before the epoch ends.
EpochEnded_Early == clusterRound + 1 >= (currentEpoch + 1) * EPOCH_LENGTH

EpochEnded == clusterRound >= (currentEpoch + 1) * EPOCH_LENGTH

\* Variant: the old assignment is not deleted.
Dealt_KeepsOld(shuffled, cid, n) ==
    clusters[cid].assignedChainIds
        \o [k \in 1 .. (Len(shuffled) + n - cid) \div n |-> shuffled[(k - 1) * n + cid]]

\* The chains that cluster cid of n is dealt: every n-th one, from the cid-th.
Dealt(shuffled, cid, n) ==
    [k \in 1 .. (Len(shuffled) + n - cid) \div n |-> shuffled[(k - 1) * n + cid]]

ReshuffleClusters(shuffled, heads) ==
    LET n == nextClusterId - 1
    IN  /\ EpochEnded
        /\ shuffled # <<>> /\ n > 0
        /\ \A c \in 1 .. n : heads[c] \in Electable(clusters[c].members, states)
        /\ clusters' = [c \in ClusterId |->
              IF c > n THEN clusters[c]
              ELSE [WithHead(clusters[c], heads[c]) EXCEPT
                       !.assignedChainIds = Dealt(shuffled, c, n)]]
        /\ chainToCluster' = [ch \in ChainId |->
              IF \E i \in DOMAIN shuffled : shuffled[i] = ch
              THEN 1 + (((CHOOSE i \in DOMAIN shuffled : shuffled[i] = ch) - 1) % n)
              ELSE chainToCluster[ch]]
        /\ currentEpoch' = currentEpoch + 1
        /\ UNCHANGED <<registryVars, nextClusterId, clusterCommits, challenges,
                       submittedInRound, clusterRound, blockTime, penalties>>

----------------------------------------------------------------------------
(* Data-availability challenges. *)

\* Bound: an id that is not in use yet may be used only while few are.
MayUse(id) ==
    Cardinality({x \in ChallengeId : challenges[x] # NoChallenge} \cup {id}) <= MaxChallenges

\* Variant: a resolved challenge can be filed again.
Unresolved_Unchecked(id) == clusters[id.clusterId].isActive

Unresolved(id) == ~challenges[id].resolved

FileDAChallenge(id) ==
    /\ clusterRound <= id.round + CHALLENGE_WINDOW
    /\ clusters[id.clusterId].isActive
    /\ id.missingChainId \in ToSet(clusters[id.clusterId].assignedChainIds)
    /\ <<id.round, id.missingChainId>> \notin submittedInRound
    /\ Unresolved(id) /\ MayUse(id)
    /\ challenges' = [challenges EXCEPT ![id] =
                         [filed |-> TRUE, resolved |-> FALSE, valid |-> FALSE]]
    /\ UNCHANGED <<registryVars, clusters, nextClusterId, chainToCluster, clusterCommits,
                   submittedInRound, clusterRound, currentEpoch, blockTime, penalties>>

\* Variant: the re-election reads the reputation from before the penalty.
StatesAtReelection_Stale(books) == states

\* The re-election of an upheld challenge reads the reputation left by its penalty.
StatesAtReelection(books) == books.states

RejectDAChallenge(id) ==
    /\ ~challenges[id].resolved /\ MayUse(id)
    /\ challenges' = [challenges EXCEPT ![id].resolved = TRUE]
    /\ UNCHANGED <<registryVars, clusters, nextClusterId, chainToCluster, clusterCommits,
                   submittedInRound, clusterRound, currentEpoch, blockTime, penalties>>

\* The challenge id is the proof hash of the fault.  Upholding a challenge that was
\* never filed reverts, since cluster 0 has no head.
UpholdDAChallenge(id, head) ==
    LET c == clusters[id.clusterId]
        books == AfterUpdate(Books, c.clusterHead, "INVALID", id)
    IN  /\ challenges[id].filed /\ ~challenges[id].resolved
        /\ states[c.clusterHead].isRegistered
        /\ RegistryUpdates(books)
        /\ head \in Electable(c.members, StatesAtReelection(books))
        /\ clusters' = [clusters EXCEPT ![id.clusterId] = WithHead(@, head)]
        /\ challenges' = [challenges EXCEPT ![id].resolved = TRUE, ![id].valid = TRUE]
        /\ penalties' = penalties \cup {<<id, c.clusterHead>>}
        /\ UNCHANGED <<nextClusterId, chainToCluster, clusterCommits, submittedInRound,
                       clusterRound, currentEpoch, blockTime>>

ClusterAdvanceRound ==
    /\ Manager \in authorizedAuditors
    /\ clusterRound < MaxRound /\ registryRound < MaxRound
    /\ clusterRound' = clusterRound + 1
    /\ registryRound' = registryRound + 1
    /\ UNCHANGED <<states, totalSlashedPool, appealSnapshots, appeals, authorizedAuditors,
                   registryBalance, updateCount, clusters, nextClusterId, chainToCluster,
                   clusterCommits, challenges, submittedInRound, currentEpoch, blockTime,
                   penalties>>

MineBlock ==
    /\ blockTime < MaxTime
    /\ blockTime' = blockTime + 1
    /\ UNCHANGED <<registryVars, clusters, nextClusterId, chainToCluster, clusterCommits,
                   challenges, submittedInRound, clusterRound, currentEpoch, penalties>>

\* The owner assigns each chain to one cluster and reshuffles all assigned chains.
AssignedChains == {ch \in ChainId : chainToCluster[ch] # 0}

ClusterNext ==
    \/ RegistryStep(Auditor \ {Manager}) /\ UNCHANGED clusterVars
    \/ \E s \in Setups, head \in Committer :
           /\ ToSet(s.chains) \cap AssignedChains = {}
           /\ CreateCluster(s.chains, s.members, head)
    \/ \E cid \in ClusterId, m \in Committer : AddMember(cid, m)
    \/ \E cid \in ClusterId, head \in Committer : ElectClusterHead(cid, head)
    \/ \E cid \in ClusterId :
           \E roots \in [DOMAIN clusters[cid].assignedChainIds -> ChainRoot] :
               SubmitClusterCommit(cid, roots)
    \/ \E id \in DOMAIN clusterCommits : VerifyClusterCommit(id)
    \/ \E reports \in Reports : CrossReferenceAndUpdate(reports)
    \/ \E shuffled \in SetToSeqs(AssignedChains), heads \in [ClusterId -> Committer] :
           ReshuffleClusters(shuffled, heads)
    \/ \E id \in ChallengeId : FileDAChallenge(id)
    \/ \E id \in ChallengeId : RejectDAChallenge(id)
    \/ \E id \in ChallengeId, head \in Committer : UpholdDAChallenge(id, head)
    \/ ClusterAdvanceRound
    \/ MineBlock

ClusterSpec == ClusterInit /\ [][ClusterNext]_systemVars

----------------------------------------------------------------------------
(***************************************************************************)
(* Properties.                                                             *)
(***************************************************************************)

\* Type correctness, and: an active cluster has members, chains are never lost to it
\* without a reshuffle, and its head is always one of its members.
ClusterTypeOK ==
    /\ RegistryTypeOK
    /\ clusters \in [ClusterId -> Cluster]
    /\ nextClusterId \in 1 .. MaxClusters + 1
    /\ chainToCluster \in [ChainId -> 0 .. MaxClusters]
    /\ \A id \in DOMAIN clusterCommits : clusterCommits[id].clusterHead \in Committer
    /\ submittedInRound \subseteq Nat \X ChainId
    /\ clusterRound \in Nat /\ currentEpoch \in Nat /\ blockTime \in Nat
    /\ \A c \in ClusterId : clusters[c].isActive =>
          clusters[c].clusterHead \in ToSet(clusters[c].members)

\* A new head is never a jailed committer while some member is not jailed, judged by
\* the reputation after the step: the re-election that follows an upheld challenge
\* cannot hand the cluster back to the head that this very penalty put in jail.
ElectedHeadEligible ==
    [][\A c \in ClusterId :
          (clusters'[c].clusterHead # clusters[c].clusterHead
             \/ (\E id \in ChallengeId : id.clusterId = c
                     /\ challenges'[id].valid /\ ~challenges[id].valid))
          => \/ ~states'[clusters'[c].clusterHead].isJailed
             \/ \A m \in ToSet(clusters'[c].members) : states'[m].isJailed]_systemVars

\* chainToCluster and the clusters' lists agree: a chain is in exactly the one list of
\* the cluster it maps to, exactly once, before and after every reshuffle.
AssignmentsAgree ==
    \A ch \in ChainId, c \in ClusterId :
        Cardinality({i \in DOMAIN clusters[c].assignedChainIds :
                        clusters[c].assignedChainIds[i] = ch})
            = IF chainToCluster[ch] = c THEN 1 ELSE 0

\* Epochs never run ahead of the rounds: after e reshuffles at least e whole epochs of
\* rounds have passed in both contracts, since the registry's round never falls behind the
\* manager's.
EpochsPaced ==
    currentEpoch * EPOCH_LENGTH <= clusterRound /\ clusterRound <= registryRound

\* A resolved challenge stays as it was resolved: it cannot be filed again and
\* penalise a head a second time.
ResolvedChallengeIsFinal ==
    [][\A id \in ChallengeId :
          challenges[id].resolved => challenges'[id] = challenges[id]]_systemVars

\* "Once a challenge is valid, the Cluster Head is determined to have hidden data":
\* one missing submission is held against one head.
OneHeadPerMissingSubmission ==
    \A p, q \in penalties :
        ( /\ p[1].clusterId = q[1].clusterId
          /\ p[1].missingChainId = q[1].missingChainId
          /\ p[1].round = q[1].round ) => p[2] = q[2]

=============================================================================
