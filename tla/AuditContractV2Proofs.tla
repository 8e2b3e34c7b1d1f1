------------------------ MODULE AuditContractV2Proofs ------------------------
(***************************************************************************)
(* AuditContractV2 implements AuditLog, for every set of chains, roots,    *)
(* committers and provable transitions.                                    *)
(***************************************************************************)
EXTENDS AuditContractV2, TLAPS

logState == <<[c \in ChainId |-> chains[c].latestStateRoot], useMockVerifier>>

\* What the refinement needs: commits belong to chains, and as long as proofs are asked
\* for, roots are roots and exactly the active chains have one.
LogInv ==
    /\ useMockVerifier \in BOOLEAN
    /\ \A id \in DOMAIN commits : id.chainId \in ChainId
    /\ ~useMockVerifier =>
          /\ chains \in [ChainId -> ChainInfo]
          /\ \A c \in ChainId : chains[c].isActive <=> chains[c].latestStateRoot # NoRoot

\* The transactions that leave chains, commits and the verifier alone, which are all but
\* the six below.
Elsewhere == UNCHANGED <<chains, commits, useMockVerifier>>

\* Every step is one of the six transactions that touch the log's state or leaves it alone.
LEMMA StepCases ==
    ASSUME [V2Next]_v2SystemVars
    PROVE  \/ EnableMockVerifier
           \/ \E c \in ChainId, r \in InitialRoots : RegisterChain(c, r)
           \/ \E a \in Committer, c \in ChainId, t \in Submitted, range \in BlockRange :
                 SubmitCommit(a, c, t[1], t[2], range)
           \/ \E a \in V2Auditor, groupId \in GroupId, c \in ChainId :
                 WeightedAuditAccept(a, groupId, c)
           \/ \E a \in V2Auditor, id \in DOMAIN commits : VerifyCommit(a, id)
           \/ Elsewhere
  <1>1. CASE UNCHANGED v2SystemVars
    BY <1>1 DEF v2SystemVars, v2Vars, Elsewhere
  <1>2. CASE RegistryStep(Auditor \ {V2}) /\ UNCHANGED v2Vars
    BY <1>2 DEF v2Vars, Elsewhere
  <1>3. CASE SetVerifyingKey
    BY <1>3 DEF SetVerifyingKey, Elsewhere
  <1>4. CASE \E a \in Committer, v \in StakeValues : Stake(a, v)
    BY <1>4 DEF Stake, Elsewhere
  <1>5. CASE \E a \in V2Auditor : AddAuditor(a)
    BY <1>5 DEF AddAuditor, Elsewhere
  <1>6. CASE \E v \in StakeValues : Receive(v)
    BY <1>6 DEF Receive, Elsewhere
  <1>7. CASE MineBlock
    BY <1>7 DEF MineBlock, Elsewhere
  <1> QED
    BY <1>1, <1>2, <1>3, <1>4, <1>5, <1>6, <1>7 DEF V2Next

\* Moving the root of one chain of the contract moves that chain's root in the log.
LEMMA MovedRoot ==
    ASSUME chains \in [ChainId -> ChainInfo], NEW c \in ChainId, NEW r,
           chains' = [chains EXCEPT ![c].latestStateRoot = r]
    PROVE  [d \in ChainId |-> chains[d].latestStateRoot]'
             = [[d \in ChainId |-> chains[d].latestStateRoot] EXCEPT ![c] = r]
  BY DEF ChainInfo

\* A proven move of an active chain is an Advance of the log and keeps the invariant.
LEMMA ProvenMove ==
    ASSUME LogInv, ~useMockVerifier, NEW c \in ChainId, NEW r,
           chains[c].isActive, <<chains[c].latestStateRoot, r>> \in Provable,
           chains' = [chains EXCEPT ![c].latestStateRoot = r],
           UNCHANGED useMockVerifier
    PROVE  /\ r \in Root /\ Log!Advance(c, r)
           /\ chains' \in [ChainId -> ChainInfo]
           /\ \A d \in ChainId : chains'[d].isActive <=> chains'[d].latestStateRoot # NoRoot
  <1>1. r \in Root /\ r # NoRoot
    BY V2Assumption
  <1>2. chains \in [ChainId -> ChainInfo]
    BY DEF LogInv
  <1>3. Log!Advance(c, r)
    BY <1>2, MovedRoot DEF LogInv, Log!Advance
  <1>4. chains' \in [ChainId -> ChainInfo]
    BY <1>1, <1>2 DEF ChainInfo
  <1>5. \A d \in ChainId : chains'[d].isActive <=> chains'[d].latestStateRoot # NoRoot
    BY <1>1, <1>2 DEF LogInv, ChainInfo
  <1> QED
    BY <1>1, <1>3, <1>4, <1>5

\* Every transaction of the contract is a step of the log or none, and keeps the invariant.
LEMMA LogStep ==
    ASSUME LogInv, [V2Next]_v2SystemVars
    PROVE  LogInv' /\ [Log!LogNext]_logState
  <1> USE DEF logState
  <1>1. CASE EnableMockVerifier
    <2>1. LogInv'
      BY <1>1 DEF EnableMockVerifier, LogInv
    <2>2. Log!DropProofs
      BY <1>1 DEF EnableMockVerifier, Log!DropProofs
    <2> QED
      BY <2>1, <2>2 DEF Log!LogNext
  <1>2. CASE \E c \in ChainId, r \in InitialRoots : RegisterChain(c, r)
    <2>1. PICK c \in ChainId, r \in InitialRoots : RegisterChain(c, r)
      BY <1>2
    <2>2. UNCHANGED <<commits, useMockVerifier>> /\ ~chains[c].isActive
          /\ chains' = [chains EXCEPT ![c] = [latestStateRoot |-> r, totalCommits |-> 0,
                                              isActive |-> TRUE]]
      BY <2>1 DEF RegisterChain
    <2>3. CASE useMockVerifier
      BY <2>2, <2>3 DEF LogInv, Log!LogNext, Log!Anything
    <2>4. CASE ~useMockVerifier
      <3>1. r \in Root /\ r # NoRoot
        BY V2Assumption
      <3>2. chains \in [ChainId -> ChainInfo]
        BY <2>4 DEF LogInv
      <3>3. LogInv'
        BY <2>2, <2>4, <3>1, <3>2 DEF LogInv, ChainInfo
      <3>4. [d \in ChainId |-> chains[d].latestStateRoot]'
              = [[d \in ChainId |-> chains[d].latestStateRoot] EXCEPT ![c] = r]
        BY <2>2, <3>2 DEF ChainInfo
      <3>5. Log!Register(c, r)
        BY <2>2, <2>4, <3>4 DEF LogInv, Log!Register
      <3> QED
        BY <3>3, <3>5 DEF Log!LogNext
    <2> QED
      BY <2>3, <2>4
  <1>3. CASE \E a \in Committer, c \in ChainId, t \in Submitted, range \in BlockRange :
                SubmitCommit(a, c, t[1], t[2], range)
    <2>1. PICK a \in Committer, c \in ChainId, t \in Submitted, range \in BlockRange :
             SubmitCommit(a, c, t[1], t[2], range)
      BY <1>3
    <2> DEFINE id == [committer |-> a, chainId |-> c, oldStateRoot |-> t[1],
                      newStateRoot |-> t[2], timestamp |-> blockTime]
    <2>2. /\ DOMAIN commits' = DOMAIN commits \cup {id}
          /\ chains' = [chains EXCEPT ![c].totalCommits = @ + 1]
          /\ UNCHANGED useMockVerifier
      BY <2>1 DEF SubmitCommit
    <2>3. \A x \in DOMAIN commits' : x.chainId \in ChainId
      BY <2>2 DEF LogInv
    <2>4. CASE useMockVerifier
      BY <2>2, <2>3, <2>4 DEF LogInv, Log!LogNext, Log!Anything
    <2>5. CASE ~useMockVerifier
      <3>1. chains \in [ChainId -> ChainInfo]
        BY <2>5 DEF LogInv
      <3>2. /\ chains' \in [ChainId -> ChainInfo]
            /\ \A d \in ChainId : /\ chains'[d].latestStateRoot = chains[d].latestStateRoot
                                  /\ chains'[d].isActive = chains[d].isActive
        BY <2>2, <3>1 DEF ChainInfo
      <3> QED
        BY <2>2, <2>3, <2>5, <3>2 DEF LogInv
    <2> QED
      BY <2>4, <2>5
  <1>4. CASE \E a \in V2Auditor, groupId \in GroupId, c \in ChainId :
                WeightedAuditAccept(a, groupId, c)
    <2>1. PICK a \in V2Auditor, groupId \in GroupId, c \in ChainId :
             WeightedAuditAccept(a, groupId, c)
      BY <1>4
    <2> DEFINE root == AcceptedRoot(commitGroups[groupId])
    <2>2. /\ chains[c].isActive /\ ProofVerifies(chains[c].latestStateRoot, root)
          /\ chains' = [chains EXCEPT ![c].latestStateRoot = root]
          /\ UNCHANGED <<commits, useMockVerifier>>
      BY <2>1 DEF WeightedAuditAccept
    <2> HIDE DEF root
    <2>3. CASE useMockVerifier
      BY <2>2, <2>3 DEF LogInv, Log!LogNext, Log!Anything
    <2>4. CASE ~useMockVerifier
      <3>1. <<chains[c].latestStateRoot, root>> \in Provable
        BY <2>2, <2>4 DEF ProofVerifies
      <3> QED
        BY <2>2, <2>4, <3>1, ProvenMove DEF LogInv, Log!LogNext
    <2> QED
      BY <2>3, <2>4
  <1>5. CASE \E a \in V2Auditor, id \in DOMAIN commits : VerifyCommit(a, id)
    <2>1. PICK a \in V2Auditor, id \in DOMAIN commits : VerifyCommit(a, id)
      BY <1>5
    <2>2. /\ chains[id.chainId].isActive
          /\ id.oldStateRoot = chains[id.chainId].latestStateRoot
          /\ ProofVerifies(id.oldStateRoot, id.newStateRoot)
          /\ chains' = [chains EXCEPT ![id.chainId].latestStateRoot = id.newStateRoot]
          /\ commits' = [commits EXCEPT ![id] = TRUE]
          /\ UNCHANGED useMockVerifier
      BY <2>1 DEF VerifyCommit, StillLatest
    <2>3. id.chainId \in ChainId /\ DOMAIN commits' = DOMAIN commits
      BY <2>2 DEF LogInv
    <2>4. CASE useMockVerifier
      BY <2>2, <2>3, <2>4 DEF LogInv, Log!LogNext, Log!Anything
    <2>5. CASE ~useMockVerifier
      <3>1. <<chains[id.chainId].latestStateRoot, id.newStateRoot>> \in Provable
        BY <2>2, <2>5 DEF ProofVerifies
      <3> QED
        BY <2>2, <2>3, <2>5, <3>1, ProvenMove DEF LogInv, Log!LogNext
    <2> QED
      BY <2>4, <2>5
  <1>6. CASE Elsewhere
    BY <1>6 DEF Elsewhere, LogInv
  <1> QED
    BY StepCases, <1>1, <1>2, <1>3, <1>4, <1>5, <1>6

\* AuditContractV2 keeps the audit log: its initial states are initial in AuditLog, and
\* every transaction, weighted or single audit included, is a step of it or none.
THEOREM V2ImplementsAuditLog == V2Spec => ImplementsAuditLog
  <1>1. V2Init => LogInv /\ Log!LogInit
    <2> SUFFICES ASSUME V2Init PROVE LogInv /\ Log!LogInit
      OBVIOUS
    <2>1. DOMAIN commits = {}
      BY DEF V2Init
    <2>2. /\ chains = [c \in ChainId |-> [latestStateRoot |-> NoRoot, totalCommits |-> 0,
                                          isActive |-> FALSE]]
          /\ useMockVerifier = FALSE
      BY DEF V2Init
    <2>3. LogInv
      BY <2>1, <2>2 DEF LogInv, ChainInfo
    <2> QED
      BY <2>2, <2>3 DEF Log!LogInit
  <1>2. LogInv /\ [V2Next]_v2SystemVars
        => LogInv' /\ [Log!LogNext]_<<[c \in ChainId |-> chains[c].latestStateRoot],
                                      useMockVerifier>>
    BY LogStep DEF logState
  <1> QED
    BY <1>1, <1>2, PTL DEF V2Spec, ImplementsAuditLog, Log!LogSpec
=============================================================================
