-------------------------- MODULE AuditClientsProofs --------------------------
(***************************************************************************)
(* No client leaves a block behind, for any number of chains, blocks,      *)
(* overlapping polls and failures: the committer service (NoBlockSkipped)  *)
(* and the relay (EventsNotSkipped), each beside the other and the audit   *)
(* contract.                                                               *)
(***************************************************************************)
EXTENDS AuditClients, CommitterServiceProofs, RelayProofs

\* The committer service never leaves a block with transactions behind: whatever fails,
\* crashes, is dropped or mined late, its cursor passes such a block only after the
\* block's own TxCommit has been confirmed.
THEOREM NoBlockEverSkipped == ClientsSpec => []NoBlockSkipped
  <1>1. ClientsInit => CommInv
    BY CommInitially DEF ClientsInit
  <1>2. ASSUME CommInv, [ClientsNext]_clientsVars PROVE CommInv'
    <2>1. CASE UNCHANGED <<blocks, committerVars>>
      BY <1>2, <2>1, CommStutters
    <2>2. CASE BlockStep
      BY <1>2, <2>2, NewBlockKeeps DEF BlockStep
    <2>3. CASE ServiceStepOfChain
      BY <1>2, <2>3, CommitterNextKeeps DEF ServiceStepOfChain
    <2> QED
      BY <1>2, <2>1, <2>2, <2>3
      DEF ClientsNext, ContractStep, RelayCommit, RelayStep, RelayNext, clientsVars
  <1>3. CommInv => NoBlockSkipped
    BY DEF CommInv
  <1> QED
    BY <1>1, <1>2, <1>3, PTL DEF ClientsSpec

----------------------------------------------------------------------------

\* The ranges the relay believes committed are commits of its account in the contract.
CommitsInv ==
    covered # {} => \E id \in commits : id.committer = RelayAccount /\ id.chainId = ChainA

\* The contract deletes no commit.
LEMMA CommitsStay == ASSUME AuditNext PROVE commits \subseteq commits'
  BY ZenonT(40)
     DEF AuditNext, SetVerifyingKey, RegisterChain, RegisterAuditor, RegisterCommitter, Fund,
         MineBlock, SubmitCommit, VerifyCommit, SlashCommitter, ClaimRewards, CreateTreeNode,
         SubmitAggregatedCommit

\* An accepted commit of the relay is a commit of the contract.
LEMMA RelayCommitKeeps ==
    ASSUME RelayInv, CommitsInv, RelayCommit
    PROVE  RelayInv' /\ CommitsInv'
  <1>1. PICK p \in Poll : PollAccepted(p)
    BY DEF RelayCommit
  <1>2. RelayInv'
    BY <1>1, PollAcceptedKeeps DEF RelayCommit
  <1>3. PICK old \in Root, new \in Root : SubmitCommit(RelayAccount, ChainA, old, new)
    BY DEF RelayCommit
  <1>4. CommitsInv'
    <2> DEFINE id == [committer |-> RelayAccount, chainId |-> ChainA, oldStateRoot |-> old,
                      newStateRoot |-> new, block |-> blockNumber]
    <2>1. id \in commits' /\ id.committer = RelayAccount /\ id.chainId = ChainA
      BY <1>3 DEF SubmitCommit
    <2> QED
      BY <2>1 DEF CommitsInv
  <1> QED
    BY <1>2, <1>4

\* Every step of the system keeps the invariant of the relay.
LEMMA RelayStepKeeps ==
    ASSUME RelayInv, CommitsInv, [ClientsNext]_clientsVars
    PROVE  RelayInv' /\ CommitsInv'
  <1>1. ASSUME UNCHANGED <<blocks, relayVars>> PROVE RelayInv'
    BY <1>1, RelayStutters
  <1>2. ASSUME commits \subseteq commits', UNCHANGED covered PROVE CommitsInv'
    BY <1>2 DEF CommitsInv
  <1>3. CASE ContractStep
    BY <1>1, <1>2, <1>3, CommitsStay DEF ContractStep, relayVars
  <1>4. CASE BlockStep
    BY <1>2, <1>4, BlockKeepsRelay DEF BlockStep, relayVars, auditVars
  <1>5. CASE ServiceStepOfChain
    BY <1>1, <1>2, <1>5 DEF ServiceStepOfChain, CommitterNext, relayVars, auditVars
  <1>6. CASE RelayCommit
    BY <1>6, RelayCommitKeeps
  <1>7. CASE RelayStep
    <2>1. RelayNext /\ UNCHANGED <<commits, blocks>>
      BY <1>7 DEF RelayStep, RelayNext, auditVars
    <2>2. RelayInv' /\ UNCHANGED covered
      BY <2>1, RelayNextKeeps
    <2> QED
      BY <1>2, <2>1, <2>2
  <1>8. CASE UNCHANGED clientsVars
    BY <1>1, <1>2, <1>8 DEF clientsVars, relayVars, auditVars
  <1> QED
    BY <1>3, <1>4, <1>5, <1>6, <1>7, <1>8 DEF ClientsNext

\* The relay never leaves an event behind: however its polls overlap, fail or are killed,
\* an event between the start and the cursor is in a range whose commit was accepted, and
\* the contract holds a commit of the relay's.
THEOREM NoEventEverSkipped == ClientsSpec => []EventsNotSkipped
  <1>1. ClientsInit => RelayInv /\ CommitsInv
    BY RelayInitially DEF ClientsInit, RelayInit, CommitsInv
  <1>2. RelayInv /\ CommitsInv /\ [ClientsNext]_clientsVars => RelayInv' /\ CommitsInv'
    BY RelayStepKeeps
  <1>3. RelayInv /\ CommitsInv => EventsNotSkipped
    BY DEF RelayInv, CommitsInv, Covered, EventsNotSkipped
  <1> QED
    BY <1>1, <1>2, <1>3, PTL DEF ClientsSpec
=============================================================================
