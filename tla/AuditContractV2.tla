--------------------------- MODULE AuditContractV2 ---------------------------
(***************************************************************************)
(* contracts/audit_chain/AuditContractV2.sol composed with the registry it *)
(* calls.  Committers submit roots into groups with the election weight    *)
(* they have at that time; an auditor accepts the root that holds two      *)
(* thirds of a group's weight, and every submitter is rewarded or faulted  *)
(* in the registry within the same transaction.                            *)
(*                                                                         *)
(* acceptClusterCommit and acceptClusterCommitLegacy end with a call of    *)
(* ClusterManager.verifyClusterCommit, which admits its own owner only.    *)
(* That owner deployed the manager before this contract, so both functions *)
(* revert in every state and change nothing: they are no actions here.     *)
(***************************************************************************)
EXTENDS ReputationRegistry, SequencesExt

CONSTANTS
    V2,               \* address of this contract, an auditor of the registry
    V2Owner,          \* the deployer of this contract
    V2Auditor,        \* addresses that may be auditors of this contract
    DeployedBooks,    \* registry books that this contract may be deployed on
    ChainId,
    BlockRange,       \* block ranges, [blockStart, blockEnd] in the code
    Root, NoRoot,     \* state roots and bytes32(0)
    InitialRoots,     \* the roots chains are registered with
    Provable,         \* pairs of roots for which a proof of circuit Psi exists
    Submitted,        \* pairs of roots that committers submit, proven or not
    REWARD,           \* rewardPerCommit, 0.001 ether
    StakeValues,      \* msg.value of stake()
    MaxBalance,       \* bound on plain transfers to the contract
    MaxTime,          \* bound on block.timestamp
    MaxSubmissions    \* bound on the commits submitted

ASSUME V2Assumption ==
    /\ V2 \in Auditor /\ V2Owner \in V2Auditor
    /\ NoRoot \notin Root /\ InitialRoots \subseteq Root /\ Root \subseteq Hash
    /\ Provable \subseteq (Root \cup {NoRoot}) \X Root
    /\ Submitted \subseteq Root \X Root
    /\ REWARD \in Nat \ {0} /\ StakeValues \subseteq Nat
    /\ MaxBalance \in Nat /\ MaxTime \in Nat /\ MaxSubmissions \in Nat

VARIABLES
    vkReady,          \* the verifying key has been set
    useMockVerifier,
    chains,           \* chain -> [latestStateRoot, totalCommits, isActive]
    commits,          \* commit id -> isVerified
    commitGroups,     \* <<chain, range>> -> sequence of WeightedSubmission
    committerStakes,  \* address -> stake held by this contract
    auditors,         \* the auditors of this contract
    v2Balance,        \* address(this).balance
    blockTime         \* block.timestamp

v2Vars == <<vkReady, useMockVerifier, chains, commits, commitGroups, committerStakes,
            auditors, v2Balance, blockTime>>

v2SystemVars == <<registryVars, v2Vars>>

GroupId == ChainId \X BlockRange

\* The fields that the commit id hashes, taken as injective.
CommitId == [committer : Committer, chainId : ChainId, oldStateRoot : Root,
             newStateRoot : Root, timestamp : Nat]

WeightedSubmission == [committer : Committer, submittedRoot : Root, weight : 0 .. W_MAX]

ChainInfo == [latestStateRoot : Root \cup {NoRoot}, totalCommits : Nat, isActive : BOOLEAN]

\* The registry as it is when this contract is deployed, no appeal filed yet.
DeployedRegistry ==
    /\ \E b \in DeployedBooks :
          /\ states = b.states /\ appealSnapshots = b.snapshots
          /\ totalSlashedPool = b.pool
          /\ registryBalance =
                b.pool + MapThenSumSet(LAMBDA a : b.states[a].stakedAmount, Address)
    /\ appeals = [id \in AppealId |-> NoAppeal]
    /\ authorizedAuditors = {Genesis}
    /\ registryRound = 1 /\ updateCount = 0

V2Init ==
    /\ DeployedRegistry
    /\ vkReady = FALSE /\ useMockVerifier = FALSE
    /\ chains = [c \in ChainId |->
                    [latestStateRoot |-> NoRoot, totalCommits |-> 0, isActive |-> FALSE]]
    /\ commits = <<>>
    /\ commitGroups = [g \in GroupId |-> <<>>]
    /\ committerStakes = [a \in Committer |-> 0]
    /\ auditors = {V2Owner}
    /\ v2Balance = 0 /\ blockTime = 1

\* useMockVerifier || Groth16Verifier.verify: the proof system itself is external.
ProofVerifies(old, new) == useMockVerifier \/ (vkReady /\ <<old, new>> \in Provable)

----------------------------------------------------------------------------
(* Administration. *)

SetVerifyingKey ==
    /\ vkReady' = TRUE
    /\ UNCHANGED <<registryVars, useMockVerifier, chains, commits, commitGroups,
                   committerStakes, auditors, v2Balance, blockTime>>

EnableMockVerifier ==
    /\ useMockVerifier' = TRUE
    /\ UNCHANGED <<registryVars, vkReady, chains, commits, commitGroups,
                   committerStakes, auditors, v2Balance, blockTime>>

RegisterChain(c, initialRoot) ==
    /\ ~chains[c].isActive
    /\ chains' = [chains EXCEPT ![c] = [latestStateRoot |-> initialRoot,
                                        totalCommits |-> 0, isActive |-> TRUE]]
    /\ UNCHANGED <<registryVars, vkReady, useMockVerifier, commits, commitGroups,
                   committerStakes, auditors, v2Balance, blockTime>>

AddAuditor(auditor) ==
    /\ auditors' = auditors \cup {auditor}
    /\ UNCHANGED <<registryVars, vkReady, useMockVerifier, chains, commits, commitGroups,
                   committerStakes, v2Balance, blockTime>>

\* One deposit per committer is enough: the sum is only compared with MIN_STAKE.
Stake(a, value) ==
    /\ value >= MIN_STAKE
    /\ committerStakes[a] = 0
    /\ committerStakes' = [committerStakes EXCEPT ![a] = @ + value]
    /\ v2Balance' = v2Balance + value
    /\ UNCHANGED <<registryVars, vkReady, useMockVerifier, chains, commits, commitGroups,
                   auditors, blockTime>>

\* receive() and fallback()
Receive(value) ==
    /\ v2Balance + value <= MaxBalance
    /\ v2Balance' = v2Balance + value
    /\ UNCHANGED <<registryVars, vkReady, useMockVerifier, chains, commits, commitGroups,
                   committerStakes, auditors, blockTime>>

MineBlock ==
    /\ blockTime < MaxTime
    /\ blockTime' = blockTime + 1
    /\ UNCHANGED <<registryVars, vkReady, useMockVerifier, chains, commits, commitGroups,
                   committerStakes, auditors, v2Balance>>

----------------------------------------------------------------------------
(* Psi.Commit. *)

WeightAtSubmission(a) == ElectionWeight(states[a])

\* Neither root is compared with the chain here; a repeated commit in one block
\* overwrites the record of the first and counts again in its group.
SubmitCommit(a, c, old, new, range) ==
    LET id == [committer |-> a, chainId |-> c, oldStateRoot |-> old,
               newStateRoot |-> new, timestamp |-> blockTime]
    IN  /\ chains[c].isActive
        /\ committerStakes[a] >= MIN_STAKE
        /\ states[a].isRegistered
        /\ chains[c].totalCommits < MaxSubmissions
        /\ commits' = [x \in DOMAIN commits \cup {id} |-> IF x = id THEN FALSE ELSE commits[x]]
        /\ commitGroups' = [commitGroups EXCEPT ![<<c, range>>] =
              Append(@, [committer |-> a, submittedRoot |-> new,
                         weight |-> WeightAtSubmission(a)])]
        /\ chains' = [chains EXCEPT ![c].totalCommits = @ + 1]
        /\ UNCHANGED <<registryVars, vkReady, useMockVerifier, committerStakes, auditors, v2Balance,
                       blockTime>>

----------------------------------------------------------------------------
(* Psi.WeightedAudit. *)

WeightOf(group, indices) == MapThenSumSet(LAMBDA i : group[i].weight, indices)

TotalWeight(group) == WeightOf(group, DOMAIN group)

CandidateWeight(group, root) ==
    WeightOf(group, {i \in DOMAIN group : group[i].submittedRoot = root})

\* Variant: half of the weight is enough.
HasTwoThirds_Half(group, root) == CandidateWeight(group, root) * 2 >= TotalWeight(group)

HasTwoThirds(group, root) == CandidateWeight(group, root) * 3 >= TotalWeight(group) * 2

\* The candidates that pass, and among them the first of the largest weight.
Candidates(group) ==
    {i \in DOMAIN group :
        LET root == group[i].submittedRoot
        IN  HasTwoThirds(group, root) /\ CandidateWeight(group, root) > 0}

AcceptedRoot(group) ==
    LET best == Max({CandidateWeight(group, group[i].submittedRoot) : i \in Candidates(group)})
        first == Min({i \in Candidates(group) :
                         CandidateWeight(group, group[i].submittedRoot) = best})
    IN  group[first].submittedRoot

SubmissionEvent(submission, root) ==
    IF submission.submittedRoot = root THEN "VALID" ELSE "INVALID"

\* The registry's part of a transaction that makes updateState calls.
RegistryUpdates(books) ==
    /\ V2 \in authorizedAuditors
    /\ updateCount < MaxUpdates
    /\ updateCount' = updateCount + 1
    /\ SetBooks(books)
    /\ UNCHANGED <<appeals, authorizedAuditors, registryRound, registryBalance>>

\* Nothing ties the group to the chain, and nothing closes the group.
WeightedAuditAccept(sender, groupId, c) ==
    LET group == commitGroups[groupId]
        root == AcceptedRoot(group)
        Update(books, submission) ==
            AfterUpdate(books, submission.committer, SubmissionEvent(submission, root), root)
    IN  /\ sender \in auditors
        /\ chains[c].isActive
        /\ group # <<>> /\ TotalWeight(group) > 0
        /\ Candidates(group) # {}
        /\ ProofVerifies(chains[c].latestStateRoot, root)
        /\ chains' = [chains EXCEPT ![c].latestStateRoot = root]
        /\ RegistryUpdates(FoldLeft(Update, Books, group))
        /\ UNCHANGED <<vkReady, useMockVerifier, commits, commitGroups, committerStakes,
                       auditors, v2Balance, blockTime>>

----------------------------------------------------------------------------
(* Psi.SingleAudit. *)

\* Variant: the old root is not compared again when the commit is verified.
StillLatest_Unchecked(id) == chains[id.chainId].isActive

StillLatest(id) == id.oldStateRoot = chains[id.chainId].latestStateRoot

\* Variant: the reward is paid without looking at the balance.
RewardPaid_Always == REWARD

RewardPaid == IF v2Balance >= REWARD THEN REWARD ELSE 0

VerifyCommit(sender, id) ==
    /\ sender \in auditors
    /\ ~commits[id]
    /\ chains[id.chainId].isActive
    /\ StillLatest(id)
    /\ ProofVerifies(id.oldStateRoot, id.newStateRoot)
    /\ commits' = [commits EXCEPT ![id] = TRUE]
    /\ chains' = [chains EXCEPT ![id.chainId].latestStateRoot = id.newStateRoot]
    /\ states[id.committer].isRegistered
    /\ RegistryUpdates(AfterUpdate(Books, id.committer, "VALID", id.newStateRoot))
    /\ v2Balance' = v2Balance - RewardPaid
    /\ UNCHANGED <<vkReady, useMockVerifier, commitGroups, committerStakes, auditors, blockTime>>

V2Next ==
    \/ RegistryStep(Auditor \ {V2}) /\ UNCHANGED v2Vars
    \/ SetVerifyingKey
    \/ EnableMockVerifier
    \/ \E c \in ChainId, r \in InitialRoots : RegisterChain(c, r)
    \/ \E a \in Committer, v \in StakeValues : Stake(a, v)
    \/ \E a \in V2Auditor : AddAuditor(a)
    \/ \E v \in StakeValues : Receive(v)
    \/ MineBlock
    \/ \E a \in Committer, c \in ChainId, t \in Submitted, range \in BlockRange :
           SubmitCommit(a, c, t[1], t[2], range)
    \/ \E a \in V2Auditor, groupId \in GroupId, c \in ChainId :
           WeightedAuditAccept(a, groupId, c)
    \/ \E a \in V2Auditor, id \in DOMAIN commits : VerifyCommit(a, id)

V2Spec == V2Init /\ [][V2Next]_v2SystemVars

----------------------------------------------------------------------------
(***************************************************************************)
(* Properties.                                                             *)
(***************************************************************************)

\* Type correctness of the contract's storage; rewards never underflow the balance.
V2TypeOK ==
    /\ RegistryTypeOK
    /\ vkReady \in BOOLEAN /\ useMockVerifier \in BOOLEAN
    /\ chains \in [ChainId -> ChainInfo]
    /\ DOMAIN commits \subseteq CommitId /\ \A id \in DOMAIN commits : commits[id] \in BOOLEAN
    /\ commitGroups \in [GroupId -> Seq(WeightedSubmission)]
    /\ committerStakes \in [Committer -> Nat] /\ auditors \subseteq V2Auditor
    /\ v2Balance \in Nat /\ blockTime \in Nat

\* This contract keeps the audit log that AuditLog specifies: roots start at registration
\* and move one chain at a time along proven transitions from the root of that moment, by
\* weighted and by single audit, unless the mock verifier is on; and it never goes off.
Log == INSTANCE AuditLog WITH latest <- [c \in ChainId |-> chains[c].latestStateRoot],
                              unproven <- useMockVerifier

ImplementsAuditLog == Log!LogSpec

\* Whoever is faulted has submitted, in some group, a root other than the accepted one,
\* and all the roots that differ from the accepted one hold at most one third of that
\* group's weight together: two thirds of the weight are never on the faulted side.
DissentIsMinority ==
    [][\A a \in Committer : states'[a].cumulativeV > states[a].cumulativeV =>
          \E g \in GroupId, c \in ChainId :
             LET group == commitGroups[g]
                 dissent == {i \in DOMAIN group :
                                group[i].submittedRoot # chains'[c].latestStateRoot}
             IN  /\ \E i \in dissent : group[i].committer = a
                 /\ 3 * WeightOf(group, dissent) <= TotalWeight(group)]_v2SystemVars

\* "Capture snapshot before processing an INVALID fault (for appeal purposes)": each
\* committer that a transaction faults once finds a record with the stake and the faults it
\* had before among the snapshots, so that an upheld appeal can give them back.
FaultLeavesSnapshot ==
    [][\A a \in Committer : states'[a].cumulativeV = states[a].cumulativeV + 1 =>
          \E h \in Hash : /\ appealSnapshots'[h].stakedAmount = states[a].stakedAmount
                         /\ appealSnapshots'[h].cumulativeV = states[a].cumulativeV
      ]_v2SystemVars

=============================================================================
