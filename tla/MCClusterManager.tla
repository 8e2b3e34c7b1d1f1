-------------------------- MODULE MCClusterManager --------------------------
(* Small instances of ClusterManager for TLC. *)
EXTENDS ClusterManager

CONSTANTS g, c1, c2, k1, k2, k3, h0, r1, r2

MCHash == {h0, r1, r2} \cup ChallengeId

\* The books after the registration of c1 and the given numbers of faults.
FaultedBooks(ofGenesis, ofC1) ==
    LET registered == [states |-> [a \in Address |->
                          CASE a = g -> GenesisState
                            [] a = c1 -> InitialState(100)
                            [] OTHER -> NoSnapshot],
                       snapshots |-> [h \in ProofHash |-> NoSnapshot], pool |-> 0]
        Fault(books, a) == AfterUpdate(books, a, "INVALID", h0)
    IN  FoldLeft(Fault, registered, [i \in 1 .. ofGenesis + ofC1 |->
                                        IF i <= ofGenesis THEN g ELSE c1])

\* Genesis has one fault; c1 is one fault short of jail.
MCDeployedBooks == {FaultedBooks(1, 5)}

\* A cluster of two chains and both committers, or with a member that is not registered,
\* and one of the remaining chain.
MCSetups == {[chains |-> <<k1, k2>>, members |-> <<g, c1>>],
             [chains |-> <<k1, k2>>, members |-> <<c1, c2>>],
             [chains |-> <<k3>>, members |-> <<c1>>]}

\* One cluster, with a member that is not registered or without.
MCOneCluster == {[chains |-> <<k1, k2>>, members |-> <<g, c1>>],
                 [chains |-> <<k1, k2>>, members |-> <<c1, c2>>]}

\* Both committers reported once; c1 may disagree or be missing.
MCReports ==
    {<<[committer |-> g, root |-> r1, alive |-> TRUE],
       [committer |-> c1, root |-> x, alive |-> b]>> : x \in {r1, r2}, b \in BOOLEAN}

Cluster2Unused == clusters[2] = NoCluster /\ chainToCluster[k3] = 0

\* One cluster of two chains for two rounds, with commits, events and challenges; or two
\* clusters, registered members only, with elections and reshuffles alone.
OneActiveOrTwoQuiet ==
    \/ /\ Cluster2Unused
       /\ clusterRound <= 2 /\ blockTime + updateCount <= 3
       /\ Manager \in authorizedAuditors \/ updateCount = 0
       /\ Len(clusters[1].members) <= (IF clusters[1].isActive THEN 3 ELSE 1)
       /\ \A id \in ChallengeId : challenges[id] # NoChallenge =>
             id.clusterId = 1 /\ id.missingChainId # k3
    \/ /\ clusterCommits = <<>> /\ updateCount = 0 /\ blockTime = 1
       /\ \A id \in ChallengeId : challenges[id] = NoChallenge
       /\ \A c \in ClusterId :
             Len(clusters[c].members) <= 2 /\ c2 \notin ToSet(clusters[c].members)
       /\ Manager \in authorizedAuditors \/ nextClusterId = 1
=============================================================================
