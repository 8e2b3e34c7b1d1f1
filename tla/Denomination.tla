---------------------------- MODULE Denomination ----------------------------
(***************************************************************************)
(* contracts/libraries/Denomination.sol: the six fixed denominations and   *)
(* the greedy decomposition of an amount into them.  Pure functions.       *)
(***************************************************************************)
EXTENDS Integers, Sequences, SequencesExt

CONSTANT DENOM_1    \* the smallest denomination

ASSUME DenominationAssumption == DENOM_1 \in Nat \ {0}

Tier == 0 .. 5

getDenomination(idx) == DENOM_1 * 10^idx

isValidDenomination(amount) == \E idx \in Tier : amount = getDenomination(idx)

\* The remainder when the tiers idx and above have been taken out.
RemainderFrom(amount) ==
    LET rem[idx \in 0 .. 6] ==
            IF idx = 6 THEN amount
            ELSE rem[idx + 1] % getDenomination(idx)
    IN  rem

decompose(amount) ==
    LET rem == RemainderFrom(amount)
    IN  [denomCounts |-> [idx \in Tier |-> rem[idx + 1] \div getDenomination(idx)],
         remainder |-> rem[0]]

\* Variant: the loop over the tiers stops before the smallest one.
listSubTransfers_NoLastTier(amount) ==
    LET counts == decompose(amount).denomCounts
    IN  FlattenSeq([k \in 1 .. 5 |-> [j \in 1 .. counts[6 - k] |-> getDenomination(6 - k)]])

\* The denominations of an amount, largest first.
listSubTransfers(amount) ==
    LET counts == decompose(amount).denomCounts
    IN  FlattenSeq([k \in 1 .. 6 |-> [j \in 1 .. counts[6 - k] |-> getDenomination(6 - k)]])

=============================================================================
