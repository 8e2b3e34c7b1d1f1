---------------------- MODULE ReputationRegistryProofs ----------------------
(***************************************************************************)
(* Machine-checked proofs about ReputationRegistry, for every set of       *)
(* committers, hashes and auditors, every bound, and every PRECISION that  *)
(* is a multiple of 10000 (1e18 in the code).                              *)
(***************************************************************************)
EXTENDS ReputationRegistry, TLAPS

\* Fixed-point multiplication by a factor of at most one does not increase.
LEMMA ProductMonotone ==
    ASSUME NEW g \in Nat, NEW p \in Nat, NEW x \in Nat, g <= p
    PROVE  g * x \in Nat /\ g * x <= p * x
  BY Z3

LEMMA DivideBound ==
    ASSUME NEW n \in Nat, NEW d \in Nat \ {0}, NEW k \in Nat, n <= d * k
    PROVE  n \div d \in Nat /\ n \div d <= k
  BY Z3

\* Fixed-point scaling by a factor of at most one.
LEMMA ScaleDown ==
    ASSUME NEW g \in 0 .. PRECISION, NEW x \in Nat
    PROVE  (g * x) \div PRECISION \in 0 .. x
  <1>1. g * x \in Nat /\ g * x <= PRECISION * x
    BY ProductMonotone, PrecisionAssumption
  <1>. QED  BY <1>1, DivideBound, PrecisionAssumption

\* The order of the constants the arguments below rest on.
LEMMA ConstantRanges ==
    /\ R_MIN \in Nat /\ 0 < R_MIN /\ R_MIN <= R_JAIL /\ 128 * R_JAIL >= PRECISION
    /\ R_JAIL \in Nat /\ R_INITIAL \in 0 .. PRECISION
    /\ R_MAX = PRECISION /\ W_MAX = PRECISION /\ R_MIN <= PRECISION
    /\ A_H \in 0 .. PRECISION /\ GAMMA \in 0 .. PRECISION /\ Q_L \in 0 .. PRECISION
    /\ Q_S \in 0 .. PRECISION /\ 2 * Q_S = PRECISION
    /\ SIGMA \in 0 .. PRECISION /\ 10 * SIGMA = PRECISION
  BY PrecisionAssumption
     DEF R_MIN, R_JAIL, R_INITIAL, R_MAX, W_MAX, A_H, GAMMA, Q_L, Q_S, SIGMA

----------------------------------------------------------------------------
(***************************************************************************)
(* The pure transition stays in range.                                     *)
(***************************************************************************)
LEMMA HistoryRange ==
    ASSUME NEW h \in 0 .. PRECISION
    PROVE  HistoryValid(h) \in 0 .. PRECISION /\ HistoryInvalid(h) \in 0 .. PRECISION
  <1>. PRECISION \in Nat \ {0} /\ GAMMA \in Nat /\ GAMMA <= PRECISION /\ h \in Nat /\ h <= PRECISION
    BY PrecisionAssumption, ConstantRanges
  <1>1. HistoryInvalid(h) \in 0 .. PRECISION
    BY ScaleDown, ConstantRanges DEF HistoryInvalid
  <1>2. h * GAMMA \in Nat /\ h * GAMMA <= PRECISION * GAMMA
    BY ProductMonotone
  <1>3. PRECISION - GAMMA \in Nat /\ (PRECISION - GAMMA) * PRECISION \in Nat
    BY ProductMonotone, Z3
  <1>4. GAMMA * h + (PRECISION - GAMMA) * PRECISION <= PRECISION * PRECISION
    BY <1>2, Z3
  <1>5. GAMMA * h + (PRECISION - GAMMA) * PRECISION \in Nat
    BY <1>2, <1>3, Z3
  <1>6. HistoryValid(h) \in 0 .. PRECISION
    BY <1>4, <1>5, DivideBound DEF HistoryValid
  <1>. QED  BY <1>1, <1>6

LEMMA QualityRange ==
    ASSUME NEW h \in 0 .. PRECISION
    PROVE  Quality(h) \in 0 .. PRECISION
  <1>1. PICK t \in Nat : /\ t = (3 * PRECISION) \div 10
                         /\ (7 * PRECISION) \div 10 + t = PRECISION
    BY PrecisionAssumption
  <1>2. (h * t) \div PRECISION \in 0 .. t
    BY ScaleDown
  <1>3. h * t = t * h
    BY PrecisionAssumption, Z3
  <1>4. Quality(h) = (7 * PRECISION) \div 10 + (t * h) \div PRECISION
    BY <1>1 DEF Quality
  <1>5. (7 * PRECISION) \div 10 \in Nat
    BY PrecisionAssumption
  <1>. QED  BY <1>1, <1>2, <1>3, <1>4, <1>5, PrecisionAssumption

LEMMA BaseRange ==
    ASSUME NEW r \in 0 .. PRECISION, NEW q \in 0 .. PRECISION
    PROVE  BaseValid(r, q) \in 0 .. R_MAX /\ BaseMissing(r) \in 0 .. R_MAX
  <1>1. BaseMissing(r) \in 0 .. R_MAX
    BY ScaleDown, ConstantRanges, PrecisionAssumption DEF BaseMissing
  <1>2. PRECISION - A_H \in Nat /\ A_H \in Nat /\ PRECISION \in Nat \ {0} /\ r \in Nat /\ q \in Nat
    BY ConstantRanges, PrecisionAssumption
  <1>3. (PRECISION - A_H) * r \in Nat /\ A_H * q \in Nat
    BY <1>2, ProductMonotone
  <1>4. ((PRECISION - A_H) * r + A_H * q) \div PRECISION \in Nat
    BY <1>2, <1>3, Z3
  <1>. QED  BY <1>1, <1>4, ConstantRanges, PrecisionAssumption DEF BaseValid

LEMMA RawReputationRange ==
    ASSUME NEW s \in StateSnapshot
    PROVE  RawReputation(s) \in 0 .. s.safetyMult
  <1>1. s.baseReputation \in 0 .. PRECISION /\ s.safetyMult \in Nat
    BY ConstantRanges DEF StateSnapshot
  <1>. QED  BY <1>1, ScaleDown DEF RawReputation

LEMMA SlashRange ==
    ASSUME NEW s \in StateSnapshot
    PROVE  Slash(s) \in 0 .. s.stakedAmount /\ 10 * Slash(s) <= s.stakedAmount
  <1>1. s.stakedAmount \in Nat
    BY DEF StateSnapshot
  <1>2. Slash(s) \in 0 .. s.stakedAmount
    BY <1>1, ScaleDown, ConstantRanges DEF Slash
  <1>3. PRECISION \in Nat \ {0} /\ SIGMA \in Nat /\ PRECISION = 10 * SIGMA
    BY ConstantRanges, PrecisionAssumption
  <1>4. PRECISION * Slash(s) <= SIGMA * s.stakedAmount
    BY <1>1, <1>3, Z3 DEF Slash
  <1>5. SIGMA * (10 * Slash(s)) <= SIGMA * s.stakedAmount
    BY <1>1, <1>2, <1>3, <1>4, Z3
  <1>. QED  BY <1>1, <1>2, <1>3, <1>5, Z3

----------------------------------------------------------------------------
(***************************************************************************)
(* The invariant of one committer's record.  V <= 7 alone is not           *)
(* inductive: it needs the bound on the safety multiplier that every fault *)
(* has halved, and that only a jailed record has seven faults.             *)
(***************************************************************************)
SafetyMultHalved(s) ==
    /\ s.cumulativeV = 1 => 2 * s.safetyMult <= PRECISION
    /\ s.cumulativeV = 2 => 4 * s.safetyMult <= PRECISION
    /\ s.cumulativeV = 3 => 8 * s.safetyMult <= PRECISION
    /\ s.cumulativeV = 4 => 16 * s.safetyMult <= PRECISION
    /\ s.cumulativeV = 5 => 32 * s.safetyMult <= PRECISION
    /\ s.cumulativeV = 6 => 64 * s.safetyMult <= PRECISION
    /\ s.cumulativeV = 7 => 128 * s.safetyMult <= PRECISION

RecordInv(s) ==
    /\ s \in StateSnapshot
    /\ s.cumulativeV <= 7
    /\ s.cumulativeV = 7 => s.isJailed
    /\ SafetyMultHalved(s)
    /\ s.isJailed => /\ s.isRegistered
                     /\ s.cumulativeV > 0
                     /\ RawReputation(s) <= R_JAIL

LEMMA InitialRecords ==
    /\ RecordInv(NoSnapshot) /\ RecordInv(GenesisState)
    /\ \A v \in Nat : RecordInv(InitialState(v))
  BY ConstantRanges, PrecisionAssumption
     DEF RecordInv, NoSnapshot, GenesisState, InitialState, StateSnapshot, SafetyMultHalved

LEMMA ValidPreserves ==
    ASSUME NEW s, RecordInv(s), ~s.isJailed
    PROVE  RecordInv(OnValid(s)) /\ ~OnValid(s).isJailed /\ OnValid(s).stakedAmount = s.stakedAmount
  <1>. DEFINE h == HistoryValid(s.historyScore)
              b == BaseValid(s.baseReputation, Quality(h))
  <1>1. s \in StateSnapshot /\ s.historyScore \in 0 .. PRECISION /\ s.baseReputation \in 0 .. PRECISION
    BY ConstantRanges DEF RecordInv, StateSnapshot
  <1>2. h \in 0 .. PRECISION
    BY <1>1, HistoryRange
  <1>3. b \in 0 .. R_MAX
    BY <1>1, <1>2, QualityRange, BaseRange
  <1>4. OnValid(s) = [s EXCEPT !.historyScore = h, !.baseReputation = b]
    BY DEF OnValid
  <1>. HIDE DEF h, b
  <1>5. OnValid(s) \in StateSnapshot
    BY <1>1, <1>2, <1>3, <1>4 DEF StateSnapshot
  <1>6. /\ OnValid(s).cumulativeV = s.cumulativeV
        /\ OnValid(s).safetyMult = s.safetyMult
        /\ OnValid(s).isJailed = s.isJailed
        /\ OnValid(s).stakedAmount = s.stakedAmount
    BY <1>1, <1>4 DEF StateSnapshot
  <1>. QED  BY <1>5, <1>6 DEF RecordInv, SafetyMultHalved

LEMMA MissingPreserves ==
    ASSUME NEW s, RecordInv(s), ~s.isJailed
    PROVE  RecordInv(OnMissing(s)) /\ ~OnMissing(s).isJailed /\ OnMissing(s).stakedAmount = s.stakedAmount
  <1>. DEFINE b == BaseMissing(s.baseReputation)
  <1>1. s \in StateSnapshot /\ s.baseReputation \in 0 .. PRECISION
    BY ConstantRanges DEF RecordInv, StateSnapshot
  <1>2. b \in 0 .. R_MAX
    BY <1>1, BaseRange
  <1>3. OnMissing(s) = [s EXCEPT !.baseReputation = b]
    BY DEF OnMissing
  <1>. HIDE DEF b
  <1>4. OnMissing(s) \in StateSnapshot
    BY <1>1, <1>2, <1>3 DEF StateSnapshot
  <1>5. /\ OnMissing(s).cumulativeV = s.cumulativeV
        /\ OnMissing(s).safetyMult = s.safetyMult
        /\ OnMissing(s).isJailed = s.isJailed
        /\ OnMissing(s).stakedAmount = s.stakedAmount
    BY <1>1, <1>3 DEF StateSnapshot
  <1>. QED  BY <1>4, <1>5 DEF RecordInv, SafetyMultHalved

LEMMA FaultedRecord ==
    ASSUME NEW s \in StateSnapshot
    PROVE  /\ Faulted(s) \in StateSnapshot
           /\ 2 * Faulted(s).safetyMult <= s.safetyMult
           /\ Faulted(s).cumulativeV = s.cumulativeV + 1
           /\ Faulted(s).isJailed = s.isJailed
           /\ Faulted(s).isRegistered = s.isRegistered
           /\ Faulted(s).stakedAmount = s.stakedAmount - Slash(s)
  <1>. DEFINE h == HistoryInvalid(s.historyScore)
              m == (Q_S * s.safetyMult) \div PRECISION
              k == s.stakedAmount - Slash(s)
              v == s.cumulativeV + 1
  <1>1. s.historyScore \in 0 .. PRECISION /\ s.safetyMult \in 0 .. PRECISION
        /\ s.cumulativeV \in Nat /\ s.stakedAmount \in Nat
    BY DEF StateSnapshot
  <1>2. h \in 0 .. PRECISION
    BY <1>1, HistoryRange
  <1>3. PRECISION \in Nat \ {0} /\ Q_S \in Nat /\ 2 * Q_S = PRECISION /\ s.safetyMult \in Nat
    BY <1>1, ConstantRanges, PrecisionAssumption
  <1>4. m \in 0 .. s.safetyMult
    BY <1>3, ScaleDown, ConstantRanges
  <1>5. PRECISION * m <= Q_S * s.safetyMult
    BY <1>3, Z3
  <1>6. Q_S * (2 * m) <= Q_S * s.safetyMult /\ Q_S > 0
    BY <1>3, <1>4, <1>5, Z3
  <1>7. 2 * m <= s.safetyMult
    BY <1>3, <1>4, <1>6, Z3
  <1>8. k \in Nat
    BY <1>1, SlashRange
  <1>9. Faulted(s) = [s EXCEPT !.historyScore = h, !.safetyMult = m,
                               !.cumulativeV = v, !.stakedAmount = k]
    BY DEF Faulted
  <1>10. m \in 0 .. PRECISION
    BY <1>1, <1>3, <1>4
  <1>11. k = s.stakedAmount - Slash(s) /\ v = s.cumulativeV + 1 /\ v \in Nat
    BY <1>1
  <1>. HIDE DEF h, m, k, v
  <1>12. Faulted(s) \in StateSnapshot
    BY <1>2, <1>8, <1>9, <1>10, <1>11 DEF StateSnapshot
  <1>13. /\ Faulted(s).safetyMult = m /\ Faulted(s).stakedAmount = k
         /\ Faulted(s).cumulativeV = v
         /\ Faulted(s).isJailed = s.isJailed /\ Faulted(s).isRegistered = s.isRegistered
    BY <1>9 DEF StateSnapshot
  <1>. QED  BY <1>7, <1>11, <1>12, <1>13

LEMMA InvalidPreserves ==
    ASSUME NEW s, RecordInv(s), ~s.isJailed, s.isRegistered
    PROVE  /\ RecordInv(OnInvalid(s))
           /\ OnInvalid(s).cumulativeV = s.cumulativeV + 1
           /\ OnInvalid(s).stakedAmount = s.stakedAmount - Slash(s)
  <1>. DEFINE f == Faulted(s)
              j == EffectiveR(f) <= R_JAIL
  <1>1. s \in StateSnapshot /\ s.cumulativeV \in 0 .. 6 /\ s.safetyMult \in Nat
    BY DEF RecordInv, StateSnapshot
  <1>2. /\ f \in StateSnapshot /\ 2 * f.safetyMult <= s.safetyMult
        /\ f.cumulativeV = s.cumulativeV + 1 /\ ~f.isJailed /\ f.isRegistered
        /\ f.stakedAmount = s.stakedAmount - Slash(s)
    BY <1>1, FaultedRecord
  <1>3. RawReputation(f) \in 0 .. f.safetyMult /\ f.safetyMult \in Nat
    BY <1>2, RawReputationRange DEF StateSnapshot
  <1>4. SafetyMultHalved(f)
    <2>1. SafetyMultHalved(s) /\ s.safetyMult <= PRECISION
      BY <1>1 DEF RecordInv, StateSnapshot
    <2>. HIDE DEF f
    <2>. QED  BY <1>1, <1>2, <1>3, <2>1, PrecisionAssumption DEF SafetyMultHalved
  <1>5. j <=> RawReputation(f) <= R_JAIL
    BY <1>2, <1>3, ConstantRanges DEF EffectiveR
  <1>6. f.cumulativeV = 7 => j
    BY <1>3, <1>4, <1>5, ConstantRanges, PrecisionAssumption DEF SafetyMultHalved
  <1>7. OnInvalid(s) = [f EXCEPT !.isJailed = j]
    BY DEF OnInvalid
  <1>8. j \in BOOLEAN
    OBVIOUS
  <1>. HIDE DEF f, j
  <1>9. /\ OnInvalid(s) \in StateSnapshot
        /\ OnInvalid(s).cumulativeV = f.cumulativeV
        /\ OnInvalid(s).safetyMult = f.safetyMult
        /\ OnInvalid(s).baseReputation = f.baseReputation
        /\ OnInvalid(s).isRegistered = f.isRegistered
        /\ OnInvalid(s).stakedAmount = f.stakedAmount
        /\ OnInvalid(s).isJailed = j
    BY <1>2, <1>7, <1>8 DEF StateSnapshot
  <1>10. RawReputation(OnInvalid(s)) = RawReputation(f)
    BY <1>9 DEF RawReputation
  <1>11. SafetyMultHalved(OnInvalid(s))
    BY <1>4, <1>9 DEF SafetyMultHalved
  <1>. QED  BY <1>1, <1>2, <1>5, <1>6, <1>9, <1>10, <1>11 DEF RecordInv

----------------------------------------------------------------------------
(***************************************************************************)
(* The inductive invariant: every record in the books, live or saved for   *)
(* an appeal, satisfies RecordInv, and no saved record is jailed.  The     *)
(* snapshots must be part of it because an upheld appeal writes one back.  *)
(***************************************************************************)
RegistryInv ==
    /\ RegistryTypeOK
    /\ \A a \in Address : RecordInv(states[a])
    /\ \A h \in ProofHash : RecordInv(appealSnapshots[h]) /\ ~appealSnapshots[h].isJailed

\* What an updateState call on an unjailed, registered committer does to its record.
LEMMA TransitionPreserves ==
    ASSUME NEW s, RecordInv(s), ~s.isJailed, s.isRegistered, NEW e \in EventType
    PROVE  /\ RecordInv(Transition(s, e))
           /\ Transition(s, e).isJailed => Transition(s, e).cumulativeV = s.cumulativeV + 1
           /\ Transition(s, e).stakedAmount = s.stakedAmount - IF e = "INVALID" THEN Slash(s) ELSE 0
  <1>0. s.stakedAmount \in Nat
    BY DEF RecordInv, StateSnapshot
  <1>1. CASE e = "VALID"
    BY <1>0, <1>1, ValidPreserves DEF Transition
  <1>2. CASE e = "INVALID"
    BY <1>2, InvalidPreserves DEF Transition
  <1>3. CASE e = "MISSING"
    BY <1>0, <1>3, MissingPreserves DEF Transition
  <1>. QED  BY <1>1, <1>2, <1>3 DEF EventType

LEMMA InitRegistryInv == RegistryInit => RegistryInv
  <1>. SUFFICES ASSUME RegistryInit PROVE RegistryInv
    OBVIOUS
  <1>1. RecordInv(NoSnapshot) /\ RecordInv(GenesisState) /\ ~NoSnapshot.isJailed
        /\ NoSnapshot \in StateSnapshot /\ GenesisState \in StateSnapshot
    BY InitialRecords DEF RecordInv, NoSnapshot
  <1>2. NoAppeal \in Appeal
    BY DEF NoAppeal, Appeal, Address, ProofHash
  <1>. QED  BY <1>1, <1>2 DEF RegistryInit, RegistryInv, RegistryTypeOK

LEMMA RegisterPreserves ==
    ASSUME RegistryInv, NEW ct \in Committer, NEW v \in Stakes,
           NEW e1 \in Committer, NEW e2 \in Committer,
           RegisterCommitter(ct, v, <<e1, e2>>)
    PROVE  RegistryInv'
  <1>1. v \in Nat /\ ct \in Address
    BY RegistryAssumption DEF Address
  <1>2. RecordInv(InitialState(v)) /\ InitialState(v) \in StateSnapshot
    BY <1>1, InitialRecords DEF RecordInv
  <1>3. registryBalance + v \in Nat
    BY <1>1 DEF RegistryInv, RegistryTypeOK
  <1>. QED  BY <1>1, <1>2, <1>3 DEF RegistryInv, RegistryTypeOK, RegisterCommitter

LEMMA UpdatePreserves ==
    ASSUME RegistryInv, NEW sender \in Auditor, NEW ct \in Committer,
           NEW e \in Events, NEW h \in Hash,
           UpdateState(sender, ct, e, h)
    PROVE  RegistryInv'
  <1>. DEFINE s == states[ct]
  <1>1. ct \in Address /\ h \in ProofHash /\ e \in EventType
    BY RegistryAssumption DEF Address, ProofHash
  <1>2. RecordInv(s) /\ s \in StateSnapshot /\ s.isRegistered
    BY <1>1 DEF RegistryInv, RecordInv, UpdateState
  <1>3. updateCount + 1 \in Nat
    BY DEF RegistryInv, RegistryTypeOK
  <1>4. CASE s.isJailed
    <2>1. UNCHANGED <<states, totalSlashedPool, appealSnapshots>>
      BY <1>4 DEF UpdateState, AfterUpdate, SetBooks, Books
    <2>. QED  BY <1>3, <2>1 DEF RegistryInv, RegistryTypeOK, UpdateState
  <1>5. CASE ~s.isJailed
    <2>1. /\ states' = [states EXCEPT ![ct] = Transition(s, e)]
          /\ appealSnapshots' = IF e = "INVALID" THEN [appealSnapshots EXCEPT ![h] = s]
                                ELSE appealSnapshots
          /\ totalSlashedPool' = totalSlashedPool + IF e = "INVALID" THEN Slash(s) ELSE 0
      BY <1>5 DEF UpdateState, AfterUpdate, SetBooks, Books
    <2>2. RecordInv(Transition(s, e)) /\ Transition(s, e) \in StateSnapshot
      BY <1>1, <1>2, <1>5, TransitionPreserves DEF RecordInv
    <2>3. Slash(s) \in Nat
      BY <1>2, SlashRange DEF StateSnapshot
    <2>4. totalSlashedPool' \in Nat
      BY <2>1, <2>3 DEF RegistryInv, RegistryTypeOK
    <2>. HIDE DEF s
    <2>5. \A a \in Address : RecordInv(states'[a])
      BY <2>1, <2>2 DEF RegistryInv, RegistryTypeOK
    <2>6. \A x \in ProofHash : RecordInv(appealSnapshots'[x]) /\ ~appealSnapshots'[x].isJailed
      BY <1>2, <1>5, <2>1 DEF RegistryInv, RegistryTypeOK
    <2>7. states' \in [Address -> StateSnapshot] /\ appealSnapshots' \in [ProofHash -> StateSnapshot]
      BY <1>2, <2>1, <2>2 DEF RegistryInv, RegistryTypeOK
    <2>. QED  BY <1>3, <2>4, <2>5, <2>6, <2>7 DEF RegistryInv, RegistryTypeOK, UpdateState
  <1>. QED  BY <1>4, <1>5

LEMMA FileAppealPreserves ==
    ASSUME RegistryInv, NEW ct \in Committer, NEW r \in AppealRounds, NEW h \in Hash,
           FileAppeal(ct, r, h)
    PROVE  RegistryInv'
  <1>1. <<ct, r, h>> \in AppealId
    BY DEF AppealId
  <1>2. [committer |-> ct, proofHash |-> h, resolved |-> FALSE, upheld |-> FALSE] \in Appeal
    BY DEF Appeal, Address, ProofHash
  <1>. QED  BY <1>1, <1>2 DEF RegistryInv, RegistryTypeOK, FileAppeal

LEMMA ResolveAppealPreserves ==
    ASSUME RegistryInv, NEW sender \in Auditor, NEW id \in AppealId, NEW upheld \in BOOLEAN,
           ResolveAppeal(sender, id, upheld)
    PROVE  RegistryInv'
  <1>. DEFINE a == appeals[id]
              snap == appealSnapshots[a.proofHash]
  <1>1. a \in Appeal /\ a.committer \in Address /\ a.proofHash \in ProofHash
    BY DEF RegistryInv, RegistryTypeOK, Appeal
  <1>2. RecordInv(snap) /\ snap \in StateSnapshot /\ states[a.committer] \in StateSnapshot
    BY <1>1 DEF RegistryInv, RegistryTypeOK
  <1>3. snap.stakedAmount \in Nat /\ states[a.committer].stakedAmount \in Nat
        /\ totalSlashedPool \in Nat
    BY <1>2 DEF RegistryInv, RegistryTypeOK, StateSnapshot
  <1>4. Refund(a) \in Nat /\ Refund(a) <= totalSlashedPool
    BY <1>3 DEF Refund
  <1>5. totalSlashedPool' \in Nat
    BY <1>3, <1>4 DEF ResolveAppeal
  <1>6. appeals' \in [AppealId -> Appeal]
    <2>1. appeals' = [appeals EXCEPT ![id] = [a EXCEPT !.resolved = TRUE, !.upheld = upheld]]
      BY DEF ResolveAppeal, RegistryInv, RegistryTypeOK, Appeal
    <2>2. [a EXCEPT !.resolved = TRUE, !.upheld = upheld] \in Appeal
      BY <1>1 DEF Appeal
    <2>. QED  BY <2>1, <2>2 DEF RegistryInv, RegistryTypeOK
  <1>7. states' = states \/ states' = [states EXCEPT ![a.committer] = snap]
    BY DEF ResolveAppeal, Restored
  <1>. HIDE DEF a, snap
  <1>8. states' \in [Address -> StateSnapshot] /\ \A x \in Address : RecordInv(states'[x])
    BY <1>1, <1>2, <1>7 DEF RegistryInv, RegistryTypeOK
  <1>. QED  BY <1>5, <1>6, <1>8 DEF RegistryInv, RegistryTypeOK, ResolveAppeal

LEMMA NextRegistryInv == RegistryInv /\ [RegistryNext]_registryVars => RegistryInv'
  <1>. SUFFICES ASSUME RegistryInv, [RegistryNext]_registryVars PROVE RegistryInv'
    OBVIOUS
  <1>1. ASSUME NEW ct \in Committer, NEW e1 \in Committer, NEW e2 \in Committer,
               NEW v \in Stakes, RegisterCommitter(ct, v, <<e1, e2>>)
        PROVE  RegistryInv'
    BY <1>1, RegisterPreserves
  <1>2. ASSUME NEW a \in Auditor, NEW status \in BOOLEAN, SetAuthorizedAuditor(a, status)
        PROVE  RegistryInv'
    BY <1>2 DEF SetAuthorizedAuditor, RegistryInv, RegistryTypeOK
  <1>3. ASSUME NEW a \in Auditor, NEW ct \in Committer, NEW e \in Events, NEW h \in Hash,
               UpdateState(a, ct, e, h)
        PROVE  RegistryInv'
    BY <1>3, UpdatePreserves
  <1>4. ASSUME NEW ct \in Committer, NEW r \in AppealRounds, NEW h \in Hash, FileAppeal(ct, r, h)
        PROVE  RegistryInv'
    BY <1>4, FileAppealPreserves
  <1>5. ASSUME NEW a \in Auditor, NEW id \in AppealId, NEW upheld \in BOOLEAN,
               ResolveAppeal(a, id, upheld)
        PROVE  RegistryInv'
    BY <1>5, ResolveAppealPreserves
  <1>6. ASSUME NEW a \in Auditor, RegistryAdvanceRound(a)
        PROVE  RegistryInv'
    BY <1>6 DEF RegistryAdvanceRound, RegistryInv, RegistryTypeOK
  <1>7. CASE UNCHANGED registryVars
    BY <1>7 DEF registryVars, RegistryInv, RegistryTypeOK
  <1>. QED  BY <1>1, <1>2, <1>3, <1>4, <1>5, <1>6, <1>7 DEF RegistryNext, RegistryStep

----------------------------------------------------------------------------
(***************************************************************************)
(* The theorems.                                                           *)
(***************************************************************************)

\* RegistryInv holds in every reachable state of the registry.
THEOREM RegistryInvariant == RegistrySpec => []RegistryInv
  BY InitRegistryInv, NextRegistryInv, PTL DEF RegistrySpec

\* Reputation arithmetic never leaves its range and the pool never underflows.
THEOREM RegistryTypeCorrect == RegistrySpec => []RegistryTypeOK
  <1>1. RegistryInv => RegistryTypeOK
    BY DEF RegistryInv
  <1>. QED  BY <1>1, RegistryInvariant, PTL

\* The seventh confirmed safety fault always jails, and no record ever carries an
\* eighth, whatever the interleaving of events, appeals and restorations.
THEOREM SeventhFaultAlwaysJails == RegistrySpec => []SeventhFaultJails
  <1>1. RegistryInv => SeventhFaultJails
    BY DEF RegistryInv, RecordInv, SeventhFaultJails
  <1>. QED  BY <1>1, RegistryInvariant, PTL

\* Nobody is in jail above the threshold of updateState.
THEOREM JailIsDeserved == RegistrySpec => []JailedBelowThreshold
  <1>1. RegistryInv => JailedBelowThreshold
    BY DEF RegistryInv, RecordInv, JailedBelowThreshold
  <1>. QED  BY <1>1, RegistryInvariant, PTL

\* A snapshot that resolveAppeal can restore always carries a non-zero weight.
THEOREM AppealsReinstate == RegistrySpec => []SnapshotsEligible
  <1>1. RegistryInv => SnapshotsEligible
    <2>. SUFFICES ASSUME RegistryInv, NEW h \in ProofHash
                  PROVE  ElectionWeight(appealSnapshots[h]) >= R_MIN
      BY DEF SnapshotsEligible
    <2>1. /\ appealSnapshots[h] \in StateSnapshot /\ ~appealSnapshots[h].isJailed
      BY DEF RegistryInv, RegistryTypeOK
    <2>2. RawReputation(appealSnapshots[h]) \in Nat
      BY <2>1, RawReputationRange DEF StateSnapshot
    <2>. QED  BY <2>1, <2>2, ConstantRanges, PrecisionAssumption DEF ElectionWeight, EffectiveR
  <1>. QED  BY <1>1, RegistryInvariant, PTL

\* What one updateState transaction may change, for the action properties below.
LEMMA UpdateStep ==
    ASSUME RegistryInv, NEW sender \in Auditor, NEW ct \in Committer,
           NEW e \in Events, NEW h \in Hash,
           UpdateState(sender, ct, e, h)
    PROVE  /\ appeals' = appeals /\ registryBalance' = registryBalance
           /\ \A a \in Address : a # ct => states'[a] = states[a]
           /\ states[ct].isJailed => states'[ct] = states[ct]
           /\ ~states[ct].isJailed /\ states'[ct].isJailed
                 => states'[ct].cumulativeV = states[ct].cumulativeV + 1
           /\ \/ states'[ct].stakedAmount = states[ct].stakedAmount
              \/ /\ totalSlashedPool' - totalSlashedPool
                      = states[ct].stakedAmount - states'[ct].stakedAmount
                 /\ states'[ct].stakedAmount <= states[ct].stakedAmount
                 /\ 10 * (totalSlashedPool' - totalSlashedPool) <= states[ct].stakedAmount
  <1>. DEFINE s == states[ct]
  <1>1. ct \in Address /\ e \in EventType /\ states \in [Address -> StateSnapshot]
    BY RegistryAssumption DEF Address, RegistryInv, RegistryTypeOK
  <1>2. RecordInv(s) /\ s \in StateSnapshot /\ s.isRegistered
    BY <1>1 DEF RegistryInv, RecordInv, UpdateState
  <1>3. appeals' = appeals /\ registryBalance' = registryBalance
    BY DEF UpdateState
  <1>4. CASE s.isJailed
    <2>1. states' = states
      BY <1>4 DEF UpdateState, AfterUpdate, SetBooks, Books
    <2>. QED  BY <1>3, <1>4, <2>1
  <1>5. CASE ~s.isJailed
    <2>1. /\ states' = [states EXCEPT ![ct] = Transition(s, e)]
          /\ totalSlashedPool' = totalSlashedPool + IF e = "INVALID" THEN Slash(s) ELSE 0
      BY <1>5 DEF UpdateState, AfterUpdate, SetBooks, Books
    <2>2. /\ Transition(s, e).isJailed => Transition(s, e).cumulativeV = s.cumulativeV + 1
          /\ Transition(s, e).stakedAmount = s.stakedAmount - IF e = "INVALID" THEN Slash(s) ELSE 0
      BY <1>1, <1>2, <1>5, TransitionPreserves
    <2>3. states'[ct] = Transition(s, e) /\ \A a \in Address : a # ct => states'[a] = states[a]
      BY <1>1, <2>1
    <2>4. Slash(s) \in 0 .. s.stakedAmount /\ 10 * Slash(s) <= s.stakedAmount
          /\ s.stakedAmount \in Nat /\ totalSlashedPool \in Nat
      BY <1>2, SlashRange DEF StateSnapshot, RegistryInv, RegistryTypeOK
    <2>. QED  BY <1>3, <1>5, <2>1, <2>2, <2>3, <2>4
  <1>. QED  BY <1>4, <1>5

\* The record of a jailed committer changes only when an appeal is resolved.
THEOREM JailAbsorbs == RegistrySpec => JailIsAbsorbing
  <1>. DEFINE Frozen == \A a \in Address : states[a].isJailed /\ appeals' = appeals
                                               => states'[a] = states[a]
  <1>1. RegistryInv /\ [RegistryNext]_registryVars => [Frozen]_registryVars
    <2>. SUFFICES ASSUME RegistryInv, RegistryNext PROVE Frozen
      OBVIOUS
    <2>1. ASSUME NEW ct \in Committer, NEW e1 \in Committer, NEW e2 \in Committer,
                 NEW v \in Stakes, RegisterCommitter(ct, v, <<e1, e2>>)
          PROVE  Frozen
      <3>1. ~states[ct].isJailed
        BY <2>1 DEF RegisterCommitter, RegistryInv, RecordInv, Address
      <3>. QED  BY <2>1, <3>1 DEF RegisterCommitter, RegistryInv, RegistryTypeOK
    <2>2. ASSUME NEW a \in Auditor, NEW status \in BOOLEAN, SetAuthorizedAuditor(a, status)
          PROVE  Frozen
      BY <2>2 DEF SetAuthorizedAuditor
    <2>3. ASSUME NEW a \in Auditor, NEW ct \in Committer, NEW e \in Events, NEW h \in Hash,
                 UpdateState(a, ct, e, h)
          PROVE  Frozen
      BY <2>3, UpdateStep
    <2>4. ASSUME NEW ct \in Committer, NEW r \in AppealRounds, NEW h \in Hash,
                 FileAppeal(ct, r, h)
          PROVE  Frozen
      BY <2>4 DEF FileAppeal
    <2>5. ASSUME NEW a \in Auditor, NEW id \in AppealId, NEW upheld \in BOOLEAN,
                 ResolveAppeal(a, id, upheld)
          PROVE  Frozen
      <3>1. appeals[id] \in Appeal /\ ~appeals[id].resolved
        BY <2>5 DEF ResolveAppeal, RegistryInv, RegistryTypeOK
      <3>2. appeals'[id].resolved = TRUE
        BY <2>5, <3>1 DEF ResolveAppeal, RegistryInv, RegistryTypeOK, Appeal
      <3>. QED  BY <3>1, <3>2
    <2>6. ASSUME NEW a \in Auditor, RegistryAdvanceRound(a)
          PROVE  Frozen
      BY <2>6 DEF RegistryAdvanceRound
    <2>. QED  BY <2>1, <2>2, <2>3, <2>4, <2>5, <2>6, ZenonT(30) DEF RegistryNext, RegistryStep
  <1>. QED  BY <1>1, RegistryInvariant, PTL DEF RegistrySpec, JailIsAbsorbing

\* A committer enters jail only in a step that adds one fault to its record.
THEOREM OmissionNeverJails == RegistrySpec => JailOnlyOnFault
  <1>. DEFINE OnFault == \A a \in Address : ~states[a].isJailed /\ states'[a].isJailed
                             => states'[a].cumulativeV = states[a].cumulativeV + 1
  <1>1. RegistryInv /\ [RegistryNext]_registryVars => [OnFault]_registryVars
    <2>. SUFFICES ASSUME RegistryInv, RegistryNext PROVE OnFault
      OBVIOUS
    <2>1. ASSUME NEW ct \in Committer, NEW e1 \in Committer, NEW e2 \in Committer,
                 NEW v \in Stakes, RegisterCommitter(ct, v, <<e1, e2>>)
          PROVE  OnFault
      BY <2>1 DEF RegisterCommitter, InitialState, RegistryInv, RegistryTypeOK
    <2>2. ASSUME NEW a \in Auditor, NEW status \in BOOLEAN, SetAuthorizedAuditor(a, status)
          PROVE  OnFault
      BY <2>2 DEF SetAuthorizedAuditor
    <2>3. ASSUME NEW a \in Auditor, NEW ct \in Committer, NEW e \in Events, NEW h \in Hash,
                 UpdateState(a, ct, e, h)
          PROVE  OnFault
      BY <2>3, UpdateStep
    <2>4. ASSUME NEW ct \in Committer, NEW r \in AppealRounds, NEW h \in Hash,
                 FileAppeal(ct, r, h)
          PROVE  OnFault
      BY <2>4 DEF FileAppeal
    <2>5. ASSUME NEW a \in Auditor, NEW id \in AppealId, NEW upheld \in BOOLEAN,
                 ResolveAppeal(a, id, upheld)
          PROVE  OnFault
      <3>1. appeals[id].committer \in Address /\ appeals[id].proofHash \in ProofHash
        BY DEF RegistryInv, RegistryTypeOK, Appeal
      <3>2. ~appealSnapshots[appeals[id].proofHash].isJailed
        BY <3>1 DEF RegistryInv
      <3>. QED  BY <2>5, <3>1, <3>2 DEF ResolveAppeal, Restored, RegistryInv, RegistryTypeOK
    <2>6. ASSUME NEW a \in Auditor, RegistryAdvanceRound(a)
          PROVE  OnFault
      BY <2>6 DEF RegistryAdvanceRound
    <2>. QED  BY <2>1, <2>2, <2>3, <2>4, <2>5, <2>6, ZenonT(30) DEF RegistryNext, RegistryStep
  <1>. QED  BY <1>1, RegistryInvariant, PTL DEF RegistrySpec, JailOnlyOnFault

=============================================================================
