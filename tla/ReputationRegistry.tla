------------------------- MODULE ReputationRegistry -------------------------
(***************************************************************************)
(* contracts/audit_chain/ReputationRegistry.sol as a state machine: the    *)
(* registry's storage, and one action per external function.  Every        *)
(* transaction is atomic, as on the chain; a require that fails reverts    *)
(* the transaction, so it is a guard.                                      *)
(***************************************************************************)
EXTENDS MFPoP, FiniteSetsExt

CONSTANTS
    Committer,     \* addresses that may register, Genesis among them
    Genesis,       \* the deployer, bootstrapped and owner
    NoAddress,     \* address(0)
    Auditor,       \* addresses the owner may authorise
    Hash,          \* proof hashes that events carry
    NoHash,        \* bytes32(0)
    MIN_STAKE,     \* 1 ether in the code
    Stakes,        \* values of msg.value at registration
    Events,        \* the event types that occur
    AppealRounds,  \* rounds a committer may name in an appeal
    MaxRound,      \* bound on currentRound
    MaxUpdates     \* bound on the number of updateState transactions

ASSUME RegistryAssumption ==
    /\ Genesis \in Committer
    /\ NoAddress \notin Committer
    /\ MIN_STAKE \in Nat /\ Stakes \subseteq Nat
    /\ Events \subseteq EventType
    /\ AppealRounds \subseteq Nat
    /\ MaxRound \in Nat /\ MaxUpdates \in Nat

APPEAL_WINDOW == 5

VARIABLES
    states,             \* address -> StateSnapshot
    totalSlashedPool,
    appealSnapshots,    \* proof hash -> StateSnapshot
    appeals,            \* appeal id -> Appeal
    authorizedAuditors,
    registryRound,      \* currentRound
    registryBalance,    \* address(this).balance: there is no withdrawal
    updateCount         \* number of updateState calls, for the bound only

registryVars == <<states, totalSlashedPool, appealSnapshots, appeals,
                  authorizedAuditors, registryRound, registryBalance, updateCount>>

Address == Committer \cup {NoAddress}
ProofHash == Hash \cup {NoHash}

\* keccak256(abi.encode(msg.sender, round, proofHash)), taken as injective.
AppealId == Committer \X AppealRounds \X Hash

\* round and filedAt are stored but never read.
Appeal == [committer : Address, proofHash : ProofHash,
           resolved : BOOLEAN, upheld : BOOLEAN]

NoAppeal == [committer |-> NoAddress, proofHash |-> NoHash,
             resolved |-> FALSE, upheld |-> FALSE]

RegistryInit ==
    /\ states = [a \in Address |->
                    IF a = Genesis THEN GenesisState ELSE NoSnapshot]
    /\ totalSlashedPool = 0
    /\ appealSnapshots = [h \in ProofHash |-> NoSnapshot]
    /\ appeals = [id \in AppealId |-> NoAppeal]
    /\ authorizedAuditors = {Genesis}
    /\ registryRound = 1
    /\ registryBalance = 0
    /\ updateCount = 0

----------------------------------------------------------------------------
(***************************************************************************)
(* The part of the storage that updateState writes, as one record, so that *)
(* a contract that calls it in a loop can fold over its calls.             *)
(***************************************************************************)
Books == [states |-> states, snapshots |-> appealSnapshots,
          pool |-> totalSlashedPool]

\* Variants of AfterUpdate: without the early return for a jailed committer; with the
\* snapshot taken after the fault; without the credit to the pool.
AfterUpdate_NoFreeze(books, ct, e, proofHash) ==
    LET s == books.states[ct]
    IN  [books EXCEPT !.states[ct] = Transition(s, e)]

AfterUpdate_LateSnapshot(books, ct, e, proofHash) ==
    LET s == Transition(books.states[ct], e)
    IN  IF books.states[ct].isJailed \/ e # "INVALID" THEN books
        ELSE [books EXCEPT !.states[ct] = s, !.snapshots[proofHash] = s]

AfterUpdate_NoPool(books, ct, e, proofHash) ==
    LET s == books.states[ct]
    IN  IF s.isJailed THEN books
        ELSE [books EXCEPT !.states[ct] = Transition(s, e),
                           !.snapshots = IF e = "INVALID" THEN [@ EXCEPT ![proofHash] = s]
                                         ELSE @]

AfterUpdate(books, ct, e, proofHash) ==
    LET s == books.states[ct]
    IN  IF s.isJailed THEN books
        ELSE [states    |-> [books.states EXCEPT ![ct] = Transition(s, e)],
              snapshots |-> IF e = "INVALID"
                            THEN [books.snapshots EXCEPT ![proofHash] = s]
                            ELSE books.snapshots,
              pool      |-> books.pool + IF e = "INVALID" THEN Slash(s) ELSE 0]

SetBooks(books) ==
    /\ states' = books.states
    /\ appealSnapshots' = books.snapshots
    /\ totalSlashedPool' = books.pool

IsEndorser(a) ==
    states[a].isRegistered /\ EffectiveR(states[a]) >= R_ENDORSE_MIN

\* The proof of work is a search for a nonce that any registrant can complete.
RegisterCommitter(ct, value, endorsers) ==
    /\ ~states[ct].isRegistered
    /\ value >= MIN_STAKE
    /\ IsEndorser(endorsers[1]) /\ IsEndorser(endorsers[2])
    /\ states' = [states EXCEPT ![ct] = InitialState(value)]
    /\ registryBalance' = registryBalance + value
    /\ UNCHANGED <<totalSlashedPool, appealSnapshots, appeals,
                   authorizedAuditors, registryRound, updateCount>>

SetAuthorizedAuditor(auditor, status) ==
    /\ authorizedAuditors' = IF status THEN authorizedAuditors \cup {auditor}
                             ELSE authorizedAuditors \ {auditor}
    /\ UNCHANGED <<states, totalSlashedPool, appealSnapshots, appeals,
                   registryRound, registryBalance, updateCount>>

UpdateState(sender, ct, e, proofHash) ==
    /\ sender \in authorizedAuditors
    /\ states[ct].isRegistered
    /\ updateCount < MaxUpdates
    /\ updateCount' = updateCount + 1
    /\ SetBooks(AfterUpdate(Books, ct, e, proofHash))
    /\ UNCHANGED <<appeals, authorizedAuditors, registryRound, registryBalance>>

FileAppeal(ct, round, proofHash) ==
    LET id == <<ct, round, proofHash>>
    IN  /\ states[ct].isRegistered
        /\ registryRound <= round + APPEAL_WINDOW
        /\ ~appeals[id].resolved
        /\ appeals' = [appeals EXCEPT ![id] =
                          [committer |-> ct, proofHash |-> proofHash,
                           resolved |-> FALSE, upheld |-> FALSE]]
        /\ UNCHANGED <<states, totalSlashedPool, appealSnapshots,
                       authorizedAuditors, registryRound, registryBalance, updateCount>>

\* Variant of Refund: the pool is not checked.
Refund_Unchecked(a) ==
    LET owed == appealSnapshots[a.proofHash].stakedAmount
                  - states[a.committer].stakedAmount
    IN  IF owed > 0 THEN owed ELSE 0

\* The refund of an upheld appeal, taken from the pool when the pool covers it.
Refund(a) ==
    LET owed == appealSnapshots[a.proofHash].stakedAmount
                  - states[a.committer].stakedAmount
    IN  IF owed > 0 /\ totalSlashedPool >= owed THEN owed ELSE 0

\* Variants of Restored: the fault count, or the jail flag, survives the restoration.
Restored_KeepsFaults(a) ==
    [appealSnapshots[a.proofHash] EXCEPT !.cumulativeV = states[a.committer].cumulativeV]

Restored_KeepsJail(a) ==
    [appealSnapshots[a.proofHash] EXCEPT !.isJailed = states[a.committer].isJailed]

\* The record an upheld appeal writes back: the whole snapshot.
Restored(a) == appealSnapshots[a.proofHash]

ResolveAppeal(sender, id, upheld) ==
    LET a == appeals[id]
    IN  /\ sender \in authorizedAuditors
        /\ ~a.resolved
        /\ upheld => appealSnapshots[a.proofHash].isRegistered
        /\ appeals' = [appeals EXCEPT ![id].resolved = TRUE, ![id].upheld = upheld]
        /\ totalSlashedPool' = totalSlashedPool - IF upheld THEN Refund(a) ELSE 0
        /\ states' = IF upheld
                     THEN [states EXCEPT ![a.committer] = Restored(a)]
                     ELSE states
        /\ UNCHANGED <<appealSnapshots, authorizedAuditors, registryRound,
                       registryBalance, updateCount>>

RegistryAdvanceRound(sender) ==
    /\ sender \in authorizedAuditors
    /\ registryRound < MaxRound
    /\ registryRound' = registryRound + 1
    /\ UNCHANGED <<states, totalSlashedPool, appealSnapshots, appeals,
                   authorizedAuditors, registryBalance, updateCount>>

\* The transactions of the registry, with the auditors that send their own.
RegistryStep(senders) ==
    \/ \E ct, e1, e2 \in Committer, v \in Stakes : RegisterCommitter(ct, v, <<e1, e2>>)
    \/ \E a \in Auditor, status \in BOOLEAN : SetAuthorizedAuditor(a, status)
    \/ \E a \in senders, ct \in Committer, e \in Events, h \in Hash :
           UpdateState(a, ct, e, h)
    \/ \E ct \in Committer, r \in AppealRounds, h \in Hash : FileAppeal(ct, r, h)
    \/ \E a \in senders, id \in AppealId, upheld \in BOOLEAN :
           ResolveAppeal(a, id, upheld)
    \/ \E a \in senders : RegistryAdvanceRound(a)

RegistryNext == RegistryStep(Auditor)

RegistrySpec == RegistryInit /\ [][RegistryNext]_registryVars

----------------------------------------------------------------------------
(***************************************************************************)
(* Properties.                                                             *)
(***************************************************************************)

\* Type and range correctness: reputation, history and safety multiplier never
\* leave [0, 1] in fixed point, so no product in updateState exceeds PRECISION
\* squared, and the pool never underflows.
RegistryTypeOK ==
    /\ states \in [Address -> StateSnapshot]
    /\ totalSlashedPool \in Nat
    /\ appealSnapshots \in [ProofHash -> StateSnapshot]
    /\ appeals \in [AppealId -> Appeal]
    /\ authorizedAuditors \subseteq Auditor \cup {Genesis}
    /\ registryRound \in Nat
    /\ registryBalance \in Nat
    /\ updateCount \in Nat

\* "No strategy, adaptive or patient, lands more than six confirmed safety faults
\* before the absorbing jail; the seventh always triggers it": whatever valid and
\* missing events, appeals and re-appeals come in between, a committer that is not
\* jailed has at most six faults on its record, and nobody has more than seven.
SeventhFaultJails ==
    \A a \in Address : /\ states[a].cumulativeV <= 7
                       /\ states[a].cumulativeV = 7 => states[a].isJailed

\* The safety multiplier is a function of the fault count, through every event and
\* every restored snapshot: phi = floor(PRECISION / 2^V) for whoever is registered.
SafetyMultTracksFaults ==
    \A a \in Address : states[a].isRegistered =>
        states[a].safetyMult = PRECISION \div (2 ^ states[a].cumulativeV)

\* A committer is in jail only on an effective reputation at or below the jail
\* threshold; the record stays frozen at the value that jailed it.
JailedBelowThreshold ==
    \A a \in Address : states[a].isJailed =>
        /\ states[a].isRegistered
        /\ states[a].cumulativeV > 0
        /\ RawReputation(states[a]) <= R_JAIL

\* What an upheld appeal can restore is never a jailed record, so an upheld appeal
\* always gives its committer a non-zero election weight back.
SnapshotsEligible ==
    \A h \in ProofHash : appealSnapshots[h].isRegistered =>
        ElectionWeight(appealSnapshots[h]) >= R_MIN

\* "Absorbing state: Freeze everything if jailed": the record of a jailed committer
\* changes in no step but the resolution of an appeal.
JailIsAbsorbing ==
    [][\A a \in Address : states[a].isJailed /\ appeals' = appeals
                              => states'[a] = states[a]]_registryVars

\* "Jail is ONLY evaluated on a finalized INVALID event": omission alone never jails.
\* A committer enters jail only in a step that adds exactly one fault to its record.
JailOnlyOnFault ==
    [][\A a \in Address : ~states[a].isJailed /\ states'[a].isJailed
            => states'[a].cumulativeV = states[a].cumulativeV + 1]_registryVars

\* Outside of appeals slashed stake goes to the pool, all of it and at most ten per
\* cent of the stake at a time, and a new stake is covered by the value received.
SlashedStakeGoesToPool ==
    [][appeals' = appeals =>
         \A a \in Address :
            /\ states'[a].stakedAmount < states[a].stakedAmount =>
                 /\ totalSlashedPool' - totalSlashedPool
                      = states[a].stakedAmount - states'[a].stakedAmount
                 /\ 10 * (totalSlashedPool' - totalSlashedPool) <= states[a].stakedAmount
            /\ states'[a].stakedAmount > states[a].stakedAmount =>
                 registryBalance' - registryBalance
                   = states'[a].stakedAmount - states[a].stakedAmount]_registryVars

\* Stake and pool together are the value the contract holds.  The comment "Refund
\* slashed tokens dynamically" says that an upheld appeal moves tokens back from the
\* pool; the code restores the stake whether or not the pool gave anything, and drops
\* stake when it restores an older and smaller record.
StakeAndPoolMatchBalance ==
    MapThenSumSet(LAMBDA a : states[a].stakedAmount, Address) + totalSlashedPool
        = registryBalance

=============================================================================
