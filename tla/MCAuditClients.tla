---------------------------- MODULE MCAuditClients ----------------------------
(* Small instances of AuditClients for TLC: the contract alone, the contract before it is
   used with the committer service, and the contract being set up with the relay. *)
EXTENDS AuditClients

CONSTANTS r0, r1, noroot, k1, k2, k3

\* The chain can go back and forth; the first aggregated root of a node is r1.
MCProvable == {<<r0, r1>>, <<r1, r0>>, <<noroot, r1>>}

\* The chain behind the gateway comes between the others.
MCOrder == <<k1, k3, k2>>

NoBlocks(C) == \A c \in C : blocks[c] = <<>>
CommitterUnused == pc = "down" /\ crashes = 0
RelayUnused == mode = "down" /\ startBlock = 0 /\ covered = {} /\ lastProcessedBlock = 0
NothingAudited == ~vkReady /\ auditors = {Owner} /\ funded = 0 /\ treeNodes = <<>>

\* Two commits with one tree node, or two nodes with one commit.
ContractOnly ==
    /\ NoBlocks(Chain) /\ CommitterUnused /\ RelayUnused
    /\ Cardinality(commits) + Len(treeNodes) <= 3

\* Two blocks on the chains with a client, and at most two failures.
CommitterOnly ==
    /\ NothingAudited /\ blockNumber = 1 /\ \A c \in ChainId : ~chains[c].isActive
    /\ \A a \in Committer : ~committers[a].isRegistered
    /\ RelayUnused
    /\ NoBlocks(Gateway) /\ \A c \in Chain : Height(c) <= 2
    /\ errors + lost + crashes <= 2

\* The contract is ready for the relay's commits, nobody else submits, and blocks come on
\* the relay's chain only.
RelayOnly ==
    /\ NothingAudited /\ blockNumber = 1
    /\ \A c \in ChainId : chains[c].isActive
    /\ \A a \in Committer : committerStakes[a] = MIN_COMMITTER_STAKE
    /\ Cardinality(commits) <= Cardinality(covered)
    /\ CommitterUnused /\ NoBlocks(Chain \ {ChainA})

Slices == ContractOnly \/ CommitterOnly \/ RelayOnly
=============================================================================
