------------------------------- MODULE MFPoP -------------------------------
(***************************************************************************)
(* The canonical MF-PoP reputation state machine of                        *)
(* contracts/audit_chain/ReputationRegistry.sol: the constants, the record *)
(* kept for a committer and the pure transition that one audit event makes *)
(* on it.  Everything is 18-digit fixed point in the code; here the scale  *)
(* is the constant PRECISION, and every ratio of the code is exact at any  *)
(* multiple of 10000.                                                      *)
(***************************************************************************)
EXTENDS Integers

CONSTANT PRECISION   \* 1e18 in the code

ASSUME PrecisionAssumption ==
    PRECISION \in Nat \ {0} /\ PRECISION % 10000 = 0

R_MIN == PRECISION \div 100                  \* 0.01
R_MAX == PRECISION                           \* 1.0
R_INITIAL == PRECISION \div 2                \* 0.5
R_ENDORSE_MIN == (7 * PRECISION) \div 10     \* 0.7
R_JAIL == (15 * PRECISION) \div 1000         \* 0.015
W_MAX == PRECISION                           \* 1.0
A_H == (16 * PRECISION) \div 10000           \* 16e14, that is 0.0016
GAMMA == (7 * PRECISION) \div 10             \* 0.70
Q_L == (95 * PRECISION) \div 100             \* 0.95
Q_S == PRECISION \div 2                      \* 0.50
SIGMA == PRECISION \div 10                   \* 0.10

EventType == {"VALID", "INVALID", "MISSING"}

(***************************************************************************)
(* StateSnapshot.  registeredAt and endorsedBy are never read by the       *)
(* contract and are left out.                                              *)
(***************************************************************************)
StateSnapshot ==
    [baseReputation : 0 .. R_MAX,
     historyScore   : 0 .. PRECISION,
     safetyMult     : 0 .. PRECISION,
     cumulativeV    : Nat,
     stakedAmount   : Nat,
     isJailed       : BOOLEAN,
     isRegistered   : BOOLEAN]

\* The zero value of a Solidity mapping that has no entry.
NoSnapshot ==
    [baseReputation |-> 0, historyScore |-> 0, safetyMult |-> 0,
     cumulativeV |-> 0, stakedAmount |-> 0,
     isJailed |-> FALSE, isRegistered |-> FALSE]

\* What a registration stores, and what the constructor stores for the deployer.
InitialState(stake) ==
    [baseReputation |-> R_INITIAL, historyScore |-> R_INITIAL,
     safetyMult |-> PRECISION, cumulativeV |-> 0, stakedAmount |-> stake,
     isJailed |-> FALSE, isRegistered |-> TRUE]

GenesisState ==
    [baseReputation |-> R_MAX, historyScore |-> R_MAX,
     safetyMult |-> PRECISION, cumulativeV |-> 0, stakedAmount |-> 0,
     isJailed |-> FALSE, isRegistered |-> TRUE]

RawReputation(s) == (s.baseReputation * s.safetyMult) \div PRECISION

\* _getEffectiveR
EffectiveR(s) ==
    IF s.isJailed \/ RawReputation(s) < R_MIN THEN R_MIN ELSE RawReputation(s)

\* getElectionWeight: an unregistered address has the zero record, hence R_MIN.
ElectionWeight(s) ==
    IF s.isJailed THEN 0
    ELSE IF EffectiveR(s) > W_MAX THEN W_MAX ELSE EffectiveR(s)

----------------------------------------------------------------------------
(***************************************************************************)
(* updateState, one operator per numbered part of the function.            *)
(***************************************************************************)
HistoryValid(h) == (GAMMA * h + (PRECISION - GAMMA) * PRECISION) \div PRECISION

HistoryInvalid(h) == (GAMMA * h) \div PRECISION

\* Q = 0.7 + 0.3 * H, with the history score already updated.
Quality(h) == (7 * PRECISION) \div 10 + (((3 * PRECISION) \div 10) * h) \div PRECISION

BaseValid(r, q) ==
    LET newRBase == ((PRECISION - A_H) * r + A_H * q) \div PRECISION
    IN  IF newRBase > R_MAX THEN R_MAX ELSE newRBase

BaseMissing(r) == (Q_L * r) \div PRECISION

Slash(s) == (SIGMA * s.stakedAmount) \div PRECISION

OnValid(s) ==
    LET h == HistoryValid(s.historyScore)
    IN  [s EXCEPT !.historyScore = h,
                  !.baseReputation = BaseValid(s.baseReputation, Quality(h))]

\* Variant of OnMissing: the jail is evaluated on every event.
OnMissing_Jails(s) ==
    LET t == [s EXCEPT !.baseReputation = BaseMissing(s.baseReputation)]
    IN  [t EXCEPT !.isJailed = EffectiveR(t) <= R_JAIL]

OnMissing(s) == [s EXCEPT !.baseReputation = BaseMissing(s.baseReputation)]

\* The fault is applied first; the jail is evaluated on the faulted record.
Faulted(s) ==
    [s EXCEPT !.historyScore = HistoryInvalid(s.historyScore),
              !.safetyMult = (Q_S * s.safetyMult) \div PRECISION,
              !.cumulativeV = s.cumulativeV + 1,
              !.stakedAmount = s.stakedAmount - Slash(s)]

\* Variant of OnInvalid: the jail is evaluated on the record before the fault.
OnInvalid_StaleJail(s) ==
    [Faulted(s) EXCEPT !.isJailed = EffectiveR(s) <= R_JAIL]

OnInvalid(s) ==
    [Faulted(s) EXCEPT !.isJailed = EffectiveR(Faulted(s)) <= R_JAIL]

\* The transition of one unjailed committer on one event.
Transition(s, e) ==
    CASE e = "VALID"   -> OnValid(s)
      [] e = "INVALID" -> OnInvalid(s)
      [] e = "MISSING" -> OnMissing(s)

=============================================================================
