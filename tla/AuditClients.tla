----------------------------- MODULE AuditClients -----------------------------
(***************************************************************************)
(* The audit contract together with the two programs that submit to it:    *)
(* the committer service (committer.go) and the relay (relay.js).          *)
(***************************************************************************)
EXTENDS AuditContract, CommitterService, Relay

CONSTANT RelayAccount   \* the address of KEYS.committer

ASSUME ClientsAssumption == RelayAccount \in Committer /\ ChainA \in ChainId

clientsVars == <<auditVars, blocks, committerVars, relayVars>>

ClientsInit == AuditInit /\ BlocksInit /\ CommitterInit /\ RelayInit

\* Everybody else's transactions to the contract.
ContractStep == AuditNext /\ UNCHANGED <<blocks, committerVars, relayVars>>

BlockStep ==
    /\ \E c \in Chain, kind \in BlockKind : NewBlock(c, kind)
    /\ UNCHANGED <<auditVars, committerVars, relayVars>>

\* The service's transactions revert (CommitterService): the contract does not change.
ServiceStepOfChain == CommitterNext /\ UNCHANGED <<auditVars, relayVars>>

\* The relay's commit is executed by the contract, with two random roots.
RelayCommit ==
    /\ \E p \in Poll : PollAccepted(p)
    /\ \E old, new \in Root : SubmitCommit(RelayAccount, ChainA, old, new)
    /\ UNCHANGED <<blocks, committerVars>>

RelayStep == RelayNext /\ UNCHANGED <<auditVars, committerVars>>

ClientsNext == ContractStep \/ BlockStep \/ ServiceStepOfChain \/ RelayCommit \/ RelayStep

ClientsSpec == ClientsInit /\ [][ClientsNext]_clientsVars /\ CommitterFairness

----------------------------------------------------------------------------

\* Type correctness of the contract, the blocks and both programs.
ClientsTypeOK ==
    /\ AuditTypeOK /\ CommitterTypeOK /\ RelayTypeOK
    /\ blocks \in [Chain -> Seq(BlockKind)]

\* A block with a Burned or Locked event that came after the start of the relay is behind
\* its cursor only when an accepted commit covers it, however the polls overlap; and the
\* contract holds a commit of the relay's for every range it believes committed.
EventsNotSkipped ==
    /\ \A b \in startBlock + 1 .. lastProcessedBlock :
          blocks[ChainA][b] = "event" => \E r \in covered : r[1] <= b /\ b <= r[2]
    /\ covered # {} => \E id \in commits : id.committer = RelayAccount /\ id.chainId = ChainA
=============================================================================
