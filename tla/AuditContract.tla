---------------------------- MODULE AuditContract ----------------------------
(***************************************************************************)
(* contracts/audit_chain/AuditContract.sol: Protocol Psi on the audit      *)
(* chain, with the tree topology of intermediate nodes.  Committers submit *)
(* state transitions of ordinary chains, auditors verify their proofs, and *)
(* verified roots extend each chain's history.                             *)
(***************************************************************************)
EXTENDS Integers, Sequences, FiniteSets, FiniteSetsExt, SequencesExt

CONSTANTS
    Committer,            \* addresses that may register as committers
    Auditor,              \* addresses that may be auditors, Owner among them
    Owner,                \* the deployer
    ChainId,
    Root,                 \* state roots
    InitialRoots,         \* the roots chains are registered with
    NoRoot,               \* bytes32(0)
    Provable,             \* pairs of roots for which a proof of circuit Psi exists
    REWARD,               \* rewardPerCommit, 0.001 ether
    MIN_COMMITTER_STAKE,  \* 1 ether
    SLASH_AMOUNT,         \* 0.5 ether
    StakeValues,          \* msg.value at registration
    FundingValues,        \* msg.value of plain transfers to the contract
    MaxBlock, MaxCommits, MaxNodes, MaxChildren, MaxRewarded, MaxFunding

ASSUME AuditAssumption ==
    /\ Owner \in Auditor
    /\ NoRoot \notin Root /\ InitialRoots \subseteq Root
    /\ Provable \subseteq (Root \cup {NoRoot}) \X Root
    /\ REWARD \in Nat \ {0} /\ MIN_COMMITTER_STAKE \in Nat /\ SLASH_AMOUNT \in Nat
    /\ StakeValues \subseteq Nat /\ FundingValues \subseteq Nat
    /\ {MaxBlock, MaxCommits, MaxNodes, MaxChildren, MaxRewarded, MaxFunding} \subseteq Nat

VARIABLES
    vkReady,             \* the verifying key has been set
    chains,              \* chain id -> ChainInfo
    chainStateHistory,   \* chain id -> sequence of verified roots
    commits,             \* ids of the commits submitted
    verified,            \* ids with isVerified
    committers,          \* address -> CommitterInfo
    committerStakes,     \* address -> stake
    auditors,
    treeNodes,           \* nodeId -> TreeNode, for the nodes that are active
    nextNodeId,
    auditBalance,        \* address(this).balance
    blockNumber,
    funded,              \* value received by receive(), so far
    claimed              \* value paid by claimRewards, so far

auditVars == <<vkReady, chains, chainStateHistory, commits, verified, committers,
               committerStakes, auditors, treeNodes, nextNodeId, auditBalance,
               blockNumber, funded, claimed>>

ChainInfo == [latestStateRoot : Root \cup {NoRoot}, totalCommits : Nat, isActive : BOOLEAN]

CommitterInfo == [totalCommits : Nat, rewards : Nat, isRegistered : BOOLEAN]

\* A commit record, which is also what its id hashes: the id is taken as injective.
CommitId == [committer : Committer, chainId : ChainId, oldStateRoot : Root,
             newStateRoot : Root, block : Nat]

NodeId == 1 .. MaxNodes

TreeNode == [parentNodeId : 0 .. MaxNodes, childChainIds : Seq(ChainId),
             childNodeIds : Seq(NodeId), aggregatedRoot : Root \cup {NoRoot},
             assignedCommitter : Committer]

AuditInit ==
    /\ vkReady = FALSE
    /\ chains = [c \in ChainId |->
                    [latestStateRoot |-> NoRoot, totalCommits |-> 0, isActive |-> FALSE]]
    /\ chainStateHistory = [c \in ChainId |-> <<>>]
    /\ commits = {} /\ verified = {}
    /\ committers = [a \in Committer |->
                        [totalCommits |-> 0, rewards |-> 0, isRegistered |-> FALSE]]
    /\ committerStakes = [a \in Committer |-> 0]
    /\ auditors = {Owner}
    /\ treeNodes = <<>> /\ nextNodeId = 1
    /\ auditBalance = 0 /\ blockNumber = 1
    /\ funded = 0 /\ claimed = 0

\* Groth16Verifier.verify with the key of circuit Psi: without a key the length check
\* fails; with it, exactly the provable statements verify (soundness is external).
ProofVerifies(old, new) == vkReady /\ <<old, new>> \in Provable

----------------------------------------------------------------------------
(* Administration and registration. *)

SetVerifyingKey ==
    /\ vkReady' = TRUE
    /\ UNCHANGED <<chains, chainStateHistory, commits, verified, committers,
                   committerStakes, auditors, treeNodes, nextNodeId, auditBalance,
                   blockNumber, funded, claimed>>

RegisterChain(c, initialRoot) ==
    /\ ~chains[c].isActive
    /\ chains' = [chains EXCEPT ![c] = [latestStateRoot |-> initialRoot,
                                        totalCommits |-> 0, isActive |-> TRUE]]
    /\ chainStateHistory' = [chainStateHistory EXCEPT ![c] = Append(@, initialRoot)]
    /\ UNCHANGED <<vkReady, commits, verified, committers, committerStakes, auditors,
                   treeNodes, nextNodeId, auditBalance, blockNumber, funded, claimed>>

RegisterAuditor(a) ==
    /\ a \notin auditors
    /\ auditors' = auditors \cup {a}
    /\ UNCHANGED <<vkReady, chains, chainStateHistory, commits, verified, committers,
                   committerStakes, treeNodes, nextNodeId, auditBalance, blockNumber,
                   funded, claimed>>

\* The list of monitored chains is checked and stored, and never read again.
RegisterCommitter(a, chainIds, value) ==
    /\ ~committers[a].isRegistered
    /\ value >= MIN_COMMITTER_STAKE
    /\ \A c \in chainIds : chains[c].isActive
    /\ committers' = [committers EXCEPT ![a] =
                         [totalCommits |-> 0, rewards |-> 0, isRegistered |-> TRUE]]
    /\ committerStakes' = [committerStakes EXCEPT ![a] = value]
    /\ auditBalance' = auditBalance + value
    /\ UNCHANGED <<vkReady, chains, chainStateHistory, commits, verified, auditors,
                   treeNodes, nextNodeId, blockNumber, funded, claimed>>

\* receive()
Fund(value) ==
    /\ funded + value <= MaxFunding
    /\ auditBalance' = auditBalance + value
    /\ funded' = funded + value
    /\ UNCHANGED <<vkReady, chains, chainStateHistory, commits, verified, committers,
                   committerStakes, auditors, treeNodes, nextNodeId, blockNumber, claimed>>

MineBlock ==
    /\ blockNumber < MaxBlock
    /\ blockNumber' = blockNumber + 1
    /\ UNCHANGED <<vkReady, chains, chainStateHistory, commits, verified, committers,
                   committerStakes, auditors, treeNodes, nextNodeId, auditBalance,
                   funded, claimed>>

----------------------------------------------------------------------------
(* Psi.Commit, Psi.Audit, slashing and rewards. *)

\* Variant: any old root is accepted at submission.
ChainsFromLatest_Any(c, old) == chains[c].isActive

ChainsFromLatest(c, old) == chains[c].latestStateRoot = old

SubmitCommit(a, c, old, new) ==
    LET id == [committer |-> a, chainId |-> c, oldStateRoot |-> old,
               newStateRoot |-> new, block |-> blockNumber]
    IN  /\ committers[a].isRegistered
        /\ chains[c].isActive
        /\ ChainsFromLatest(c, old)
        /\ id \notin commits
        /\ Cardinality(commits) < MaxCommits
        /\ commits' = commits \cup {id}
        /\ UNCHANGED <<vkReady, chains, chainStateHistory, verified, committers,
                       committerStakes, auditors, treeNodes, nextNodeId, auditBalance,
                       blockNumber, funded, claimed>>

\* Variant: the aggregated or verified roots do not reach the history.
PushRoots_NoHistory(roots) ==
    /\ chains' = [c \in ChainId |->
          IF roots[c] = <<>> THEN chains[c]
          ELSE [chains[c] EXCEPT !.latestStateRoot = Last(roots[c]),
                                 !.totalCommits = @ + Len(roots[c])]]
    /\ UNCHANGED chainStateHistory

\* Every root accepted for a chain moves it, is counted and becomes a leaf of its history.
PushRoots(roots) ==
    /\ chains' = [c \in ChainId |->
          IF roots[c] = <<>> THEN chains[c]
          ELSE [chains[c] EXCEPT !.latestStateRoot = Last(roots[c]),
                                 !.totalCommits = @ + Len(roots[c])]]
    /\ chainStateHistory' = [c \in ChainId |-> chainStateHistory[c] \o roots[c]]

RewardCommitter(a) ==
    committers' = [committers EXCEPT ![a].totalCommits = @ + 1, ![a].rewards = @ + REWARD]

\* The chain moves to the new root of the commit, whatever its root is now.
VerifyCommit(auditor, id) ==
    /\ auditor \in auditors
    /\ id \in commits \ verified
    /\ ProofVerifies(id.oldStateRoot, id.newStateRoot)
    /\ verified' = verified \cup {id}
    /\ PushRoots([c \in ChainId |-> IF c = id.chainId THEN <<id.newStateRoot>> ELSE <<>>])
    /\ RewardCommitter(id.committer)
    /\ UNCHANGED <<vkReady, commits, committerStakes, auditors, treeNodes, nextNodeId,
                   auditBalance, blockNumber, funded, claimed>>

\* Variant: the stake is not compared with the amount to slash.
CanSlash_Always(a) == committers[a].isRegistered

CanSlash(a) == committerStakes[a] >= SLASH_AMOUNT

\* Variant: the auditor is paid and the stake is kept.
StakeAfterSlash_Kept(a) == committerStakes[a]

StakeAfterSlash(a) == committerStakes[a] - SLASH_AMOUNT

\* Nothing marks the commit as slashed: the call can be repeated while stake is left.
SlashCommitter(auditor, id) ==
    /\ auditor \in auditors
    /\ id \in commits \ verified
    /\ CanSlash(id.committer)
    /\ auditBalance >= SLASH_AMOUNT
    /\ committerStakes' =
          [committerStakes EXCEPT ![id.committer] = StakeAfterSlash(id.committer)]
    /\ auditBalance' = auditBalance - SLASH_AMOUNT
    /\ UNCHANGED <<vkReady, chains, chainStateHistory, commits, verified, committers,
                   auditors, treeNodes, nextNodeId, blockNumber, funded, claimed>>

\* Variant: a claim leaves the rewards in place.
RewardsAfterClaim_Kept(a) == committers[a].rewards

RewardsAfterClaim(a) == 0

ClaimRewards(a) ==
    LET amount == committers[a].rewards
    IN  /\ committers[a].isRegistered
        /\ amount > 0
        /\ auditBalance >= amount
        /\ committers' = [committers EXCEPT ![a].rewards = RewardsAfterClaim(a)]
        /\ auditBalance' = auditBalance - amount
        /\ claimed' = claimed + amount
        /\ UNCHANGED <<vkReady, chains, chainStateHistory, commits, verified,
                       committerStakes, auditors, treeNodes, nextNodeId, blockNumber, funded>>

----------------------------------------------------------------------------
(* Tree-shaped topology. *)

\* Variant: the parent does not learn of its new child.
LinkedToParent_Forgotten(parent) == treeNodes

LinkedToParent(parent) ==
    [n \in DOMAIN treeNodes |->
        IF n = parent THEN [treeNodes[n] EXCEPT !.childNodeIds = Append(@, nextNodeId)]
        ELSE treeNodes[n]]

CreateTreeNode(parent, childChains, a) ==
    /\ committers[a].isRegistered
    /\ \A i \in DOMAIN childChains : chains[childChains[i]].isActive
    /\ parent > 0 => parent \in DOMAIN treeNodes
    /\ nextNodeId <= MaxNodes
    /\ nextNodeId' = nextNodeId + 1
    /\ treeNodes' = Append(LinkedToParent(parent),
                           [parentNodeId |-> parent, childChainIds |-> childChains,
                            childNodeIds |-> <<>>, aggregatedRoot |-> NoRoot,
                            assignedCommitter |-> a])
    /\ UNCHANGED <<vkReady, chains, chainStateHistory, commits, verified, committers,
                   committerStakes, auditors, auditBalance, blockNumber, funded, claimed>>

\* The roots that the loop over childChainIds pushes for chain c, in order.
PushedRoots(childChains, childRoots, c) ==
    LET at == SelectSeq([i \in 1 .. Len(childChains) |-> i], LAMBDA i : childChains[i] = c)
    IN  [k \in 1 .. Len(at) |-> childRoots[at[k]]]

\* The proof is about the node's old and new aggregated root; that the new one is the
\* Merkle root of childRoots is not checked.  The sender is the assigned committer.
SubmitAggregatedCommit(n, childRoots, aggregatedRoot) ==
    LET node == treeNodes[n]
    IN  /\ Len(childRoots) = Len(node.childChainIds) + Len(node.childNodeIds)
        /\ ProofVerifies(node.aggregatedRoot, aggregatedRoot)
        /\ committers[node.assignedCommitter].totalCommits < MaxRewarded
        /\ PushRoots([c \in ChainId |-> PushedRoots(node.childChainIds, childRoots, c)])
        /\ treeNodes' = [treeNodes EXCEPT ![n].aggregatedRoot = aggregatedRoot]
        /\ RewardCommitter(node.assignedCommitter)
        /\ UNCHANGED <<vkReady, commits, verified, committerStakes, auditors, nextNodeId,
                       auditBalance, blockNumber, funded, claimed>>

AuditNext ==
    \/ SetVerifyingKey
    \/ \E c \in ChainId, r \in InitialRoots : RegisterChain(c, r)
    \/ \E a \in Auditor : RegisterAuditor(a)
    \/ \E a \in Committer, cs \in SUBSET ChainId, v \in StakeValues : RegisterCommitter(a, cs, v)
    \/ \E v \in FundingValues : Fund(v)
    \/ MineBlock
    \/ \E a \in Committer, c \in ChainId, old, new \in Root : SubmitCommit(a, c, old, new)
    \/ \E a \in Auditor, id \in commits : VerifyCommit(a, id)
    \/ \E a \in Auditor, id \in commits : SlashCommitter(a, id)
    \/ \E a \in Committer : ClaimRewards(a)
    \/ \E p \in 0 .. MaxNodes, cs \in BoundedSeq(ChainId, MaxChildren), a \in Committer :
           CreateTreeNode(p, cs, a)
    \/ \E n \in DOMAIN treeNodes, agg \in Root :
           \E rs \in [1 .. Len(treeNodes[n].childChainIds)
                             + Len(treeNodes[n].childNodeIds) -> Root] :
               SubmitAggregatedCommit(n, rs, agg)

AuditSpec == AuditInit /\ [][AuditNext]_auditVars

----------------------------------------------------------------------------
(***************************************************************************)
(* Properties.                                                             *)
(***************************************************************************)

\* Type correctness of the contract's storage; no balance, stake or reward underflows.
AuditTypeOK ==
    /\ vkReady \in BOOLEAN
    /\ chains \in [ChainId -> ChainInfo]
    /\ chainStateHistory \in [ChainId -> Seq(Root)]
    /\ commits \subseteq CommitId /\ verified \subseteq commits
    /\ committers \in [Committer -> CommitterInfo]
    /\ committerStakes \in [Committer -> Nat]
    /\ auditors \subseteq Auditor
    /\ treeNodes \in Seq(TreeNode) /\ nextNodeId = Len(treeNodes) + 1
    /\ auditBalance \in Nat /\ blockNumber \in Nat /\ funded \in Nat /\ claimed \in Nat

\* The chain's current root is the last leaf of its history, and the history has one
\* leaf per commit counted on the chain after the initial one, through single and
\* aggregated commits alike.
HistoryMatchesChain ==
    \A c \in ChainId : chains[c].isActive =>
        /\ Len(chainStateHistory[c]) = chains[c].totalCommits + 1
        /\ Last(chainStateHistory[c]) = chains[c].latestStateRoot

\* A verified commit is a proven transition between two leaves of its chain's history,
\* the old one before the new one: no audit accepts a root that was never reachable
\* from a verified one.
VerifiedFromHistory ==
    \A id \in verified :
        /\ <<id.oldStateRoot, id.newStateRoot>> \in Provable
        /\ \E i, j \in DOMAIN chainStateHistory[id.chainId] :
              /\ i < j
              /\ chainStateHistory[id.chainId][i] = id.oldStateRoot
              /\ chainStateHistory[id.chainId][j] = id.newStateRoot

\* Every verified or aggregated commit is paid for exactly once: what committers can
\* still claim plus what they have claimed is the reward times the commits counted.
RewardsPaidOnce ==
    MapThenSumSet(LAMBDA a : committers[a].rewards, Committer) + claimed
        = REWARD * MapThenSumSet(LAMBDA a : committers[a].totalCommits, Committer)

\* The contract's balance is the stakes plus the funding minus the rewards claimed, so
\* stakes are covered as long as rewards are paid out of funding.
FundsAccounted ==
    auditBalance = MapThenSumSet(LAMBDA a : committerStakes[a], Committer) + funded - claimed

\* Parent and child links of the tree agree, every node is its parent's child exactly
\* once, and a parent is always older than its children, so the tree has no cycle.
TreeConsistent ==
    \A n, p \in DOMAIN treeNodes :
        LET kids == treeNodes[p].childNodeIds
        IN  /\ (treeNodes[n].parentNodeId = p) <=> (n \in ToSet(kids))
            /\ n \in ToSet(kids) => p < n
            /\ IsInjective(kids)

\* "Old root mismatch - must chain from latest verified root": consecutive leaves of a
\* chain's history are a proven transition.  The root is compared when the commit is
\* submitted and not again when it is verified.
HistoryChainsFromLatest ==
    \A c \in ChainId : \A i \in 1 .. Len(chainStateHistory[c]) - 1 :
        <<chainStateHistory[c][i], chainStateHistory[c][i + 1]>> \in Provable

=============================================================================
