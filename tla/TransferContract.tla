-------------------------- MODULE TransferContract --------------------------
(***************************************************************************)
(* contracts/ordinary_chain/TransferContract.sol: Protocol Theta, burn and *)
(* mint, deployed on two chains that send value to each other.  A sender   *)
(* burns on its chain under a commitment h(fpk_R, r, sn); the receiver     *)
(* mints on the other chain with a proof; after the time lock the sender   *)
(* may redeem.  Mints and redemptions are paid from one pool per chain.    *)
(*                                                                         *)
(* A commitment is identified with the receiver and the serial number that *)
(* it hides.  Nothing in the contract sets isClaimed, so it stays FALSE    *)
(* and a burn may be both minted and redeemed.                             *)
(***************************************************************************)
EXTENDS Denomination, FiniteSets, FiniteSetsExt

CONSTANTS
    Sender, Receiver,  \* addresses
    Serial,            \* serial numbers
    Values,            \* msg.value of burn and receive
    SplitValues,       \* msg.value of burnSplit
    DEFAULT_TIMELOCK,
    MaxBurns,          \* bound on the burns of a chain
    MaxTime,           \* bound on block.timestamp
    MaxReceived        \* bound on plain transfers to a contract

ASSUME TransferAssumption ==
    /\ Values \subseteq Nat /\ SplitValues \subseteq Nat
    /\ DEFAULT_TIMELOCK \in Nat \ {0}
    /\ MaxBurns \in Nat /\ MaxTime \in Nat /\ MaxReceived \in Nat

VARIABLES
    burns,                \* chain -> sequence of BurnRecord, in the order of burnIds
    mints,                \* chain -> serial number -> MintRecord, where there is one
    mintedSerialNumbers,  \* chain -> set of serial numbers
    balance,              \* chain -> address(this).balance
    received,             \* chain -> value received by receive(), so far
    minted,               \* chain -> value paid out by mint, so far
    mintKeys,             \* chains where vk_theta_mint has been set
    redeemKeys,           \* chains where vk_theta_redeem has been set
    now                   \* block.timestamp

keyVars == <<mintKeys, redeemKeys>>

transferVars == <<burns, mints, mintedSerialNumbers, balance, received, minted, keyVars, now>>

Chain == {"I", "II"}
Other(c) == IF c = "I" THEN "II" ELSE "I"

Commitment == [receiver : Receiver, sn : Serial]
BurnRecord == [sender : Sender, amount : Nat, hashCommitment : Commitment,
               timeLock : Nat, isRedeemed : BOOLEAN, isClaimed : BOOLEAN]
MintRecord == [receiver : Receiver, amount : Nat]    \* the timestamp is never read

TransferInit ==
    /\ burns = [c \in Chain |-> <<>>]
    /\ mints = [c \in Chain |-> <<>>]
    /\ mintedSerialNumbers = [c \in Chain |-> {}]
    /\ balance = [c \in Chain |-> 0]
    /\ received = [c \in Chain |-> 0]
    /\ minted = [c \in Chain |-> 0]
    /\ mintKeys = {} /\ redeemKeys = {}
    /\ now = 0

SetMintVerifyingKey(c) ==
    /\ mintKeys' = mintKeys \cup {c}
    /\ UNCHANGED <<burns, mints, mintedSerialNumbers, balance, received, minted, redeemKeys, now>>

SetRedeemVerifyingKey(c) ==
    /\ redeemKeys' = redeemKeys \cup {c}
    /\ UNCHANGED <<burns, mints, mintedSerialNumbers, balance, received, minted, mintKeys, now>>

NewBurn(s, hashCommitment, value) ==
    [sender |-> s, amount |-> value, hashCommitment |-> hashCommitment,
     timeLock |-> now + DEFAULT_TIMELOCK, isRedeemed |-> FALSE, isClaimed |-> FALSE]

\* What both burn functions do once their checks have passed.
PushBurns(c, new, value) ==
    /\ Len(burns[c]) + Len(new) <= MaxBurns
    /\ burns' = [burns EXCEPT ![c] = @ \o new]
    /\ balance' = [balance EXCEPT ![c] = @ + value]
    /\ UNCHANGED <<mints, mintedSerialNumbers, received, minted, keyVars, now>>

BurnAccepts(value) == value > 0 /\ isValidDenomination(value)

Burn(c, s, hashCommitment, value) ==
    /\ BurnAccepts(value)
    /\ PushBurns(c, <<NewBurn(s, hashCommitment, value)>>, value)

BurnSplit(c, s, hashCommitments, value) ==
    LET subs == listSubTransfers(value)
    IN  /\ value > 0
        /\ decompose(value).remainder = 0
        /\ Len(hashCommitments) = Len(subs)
        /\ PushBurns(c, [k \in 1 .. Len(subs) |-> NewBurn(s, hashCommitments[k], subs[k])],
                     value)

\* The relation of circuit Transfer in mint mode on (fpk_R, sn, v_S, root_Burn): a burn
\* of v_S under a commitment to fpk_R and sn is in a block.  The root is not compared
\* with any chain's.
MintProof(r, sn, amount) ==
    \E c \in Chain : \E i \in DOMAIN burns[c] :
        burns[c][i].hashCommitment = [receiver |-> r, sn |-> sn] /\ burns[c][i].amount = amount

\* Variant: the serial number is not marked as minted.
MintedAfter_Unmarked(c, sn) == mintedSerialNumbers[c]

MintedAfter(c, sn) == mintedSerialNumbers[c] \cup {sn}

Mint(c, r, sn, amount) ==
    /\ sn \notin mintedSerialNumbers[c]
    /\ isValidDenomination(amount)
    /\ balance[c] >= amount
    /\ c \in mintKeys /\ MintProof(r, sn, amount)
    /\ mintedSerialNumbers' = [mintedSerialNumbers EXCEPT ![c] = MintedAfter(c, sn)]
    /\ mints' = [mints EXCEPT ![c] = (sn :> [receiver |-> r, amount |-> amount]) @@ @]
    /\ minted' = [minted EXCEPT ![c] = @ + amount]
    /\ balance' = [balance EXCEPT ![c] = @ - amount]
    /\ UNCHANGED <<burns, received, keyVars, now>>

\* The relation of the redeem circuit on (fpk_S, sn, v, hashCommitment).
RedeemProof(record, s, sn) == record.sender = s /\ record.hashCommitment.sn = sn

\* Variant: the burn is not marked as redeemed.
RedeemMark_Missing(record) == record

RedeemMark(record) == [record EXCEPT !.isRedeemed = TRUE]

Redeem(c, s, i, sn) ==
    LET record == burns[c][i]
    IN  /\ record.sender = s
        /\ now > record.timeLock
        /\ ~record.isRedeemed /\ ~record.isClaimed
        /\ c \in redeemKeys /\ RedeemProof(record, s, sn)
        /\ balance[c] >= record.amount
        /\ burns' = [burns EXCEPT ![c][i] = RedeemMark(@)]
        /\ balance' = [balance EXCEPT ![c] = @ - record.amount]
        /\ UNCHANGED <<mints, mintedSerialNumbers, received, minted, keyVars, now>>

Receive(c, value) ==
    /\ received[c] + value <= MaxReceived
    /\ balance' = [balance EXCEPT ![c] = @ + value]
    /\ received' = [received EXCEPT ![c] = @ + value]
    /\ UNCHANGED <<burns, mints, mintedSerialNumbers, minted, keyVars, now>>

Tick ==
    /\ now < MaxTime
    /\ now' = now + 1
    /\ UNCHANGED <<burns, mints, mintedSerialNumbers, balance, received, minted, keyVars>>

\* The receiver of a transfer claims it on the chain it was sent to.
SentTo(c, r, sn, amount) ==
    \E i \in DOMAIN burns[Other(c)] :
        /\ burns[Other(c)][i].hashCommitment = [receiver |-> r, sn |-> sn]
        /\ burns[Other(c)][i].amount = amount

BurnsOf(c) ==
    \E s \in Sender, v \in Values, h \in Commitment : Burn(c, s, h, v)

SplitsOf(c) ==
    \E s \in Sender, v \in SplitValues, n \in 1 .. MaxBurns - Len(burns[c]) :
        \E hs \in [1 .. n -> Commitment] : BurnSplit(c, s, hs, v)

MintsOf(c) ==
    \E r \in Receiver, sn \in Serial, i \in DOMAIN burns[Other(c)] :
        LET amount == burns[Other(c)][i].amount
        IN  SentTo(c, r, sn, amount) /\ Mint(c, r, sn, amount)

RedeemsOf(c) ==
    \E s \in Sender, i \in DOMAIN burns[c], sn \in Serial : Redeem(c, s, i, sn)

TransferNext ==
    \/ \E c \in Chain : BurnsOf(c)
    \/ \E c \in Chain : SplitsOf(c)
    \/ \E c \in Chain : MintsOf(c)
    \/ \E c \in Chain : RedeemsOf(c)
    \/ \E c \in Chain, v \in Values : Receive(c, v)
    \/ \E c \in Chain : SetMintVerifyingKey(c)
    \/ \E c \in Chain : SetRedeemVerifyingKey(c)
    \/ Tick

TransferSpec == TransferInit /\ [][TransferNext]_transferVars

----------------------------------------------------------------------------
(***************************************************************************)
(* Properties.                                                             *)
(***************************************************************************)

\* Type correctness; a mint record exists for exactly the minted serial numbers.
TransferTypeOK ==
    /\ burns \in [Chain -> Seq(BurnRecord)]
    /\ mintedSerialNumbers \in [Chain -> SUBSET Serial]
    /\ \A c \in Chain : mints[c] \in [mintedSerialNumbers[c] -> MintRecord]
    /\ balance \in [Chain -> Nat] /\ received \in [Chain -> Nat]
    /\ minted \in [Chain -> Nat]
    /\ mintKeys \subseteq Chain /\ redeemKeys \subseteq Chain
    /\ now \in Nat

\* The pool of a chain, with what its mints have taken out, is exactly what was sent to
\* it and the value of the burns that are not redeemed: burnSplit records every unit of
\* the value it is sent, and no burn is redeemed twice.
PoolAccounted ==
    \A c \in Chain :
        balance[c] + minted[c] = received[c]
            + MapThenSumSet(LAMBDA i : IF burns[c][i].isRedeemed THEN 0 ELSE burns[c][i].amount,
                            DOMAIN burns[c])

\* What a chain has minted is one payment per serial number, each of the amount of a
\* burn of the other chain made out to the same receiver.
MintsMatchBurns ==
    \A c \in Chain :
        /\ minted[c] = MapThenSumSet(LAMBDA sn : mints[c][sn].amount, DOMAIN mints[c])
        /\ \A sn \in DOMAIN mints[c] : SentTo(c, mints[c][sn].receiver, sn, mints[c][sn].amount)

\* "Redeem (reclaim) assets if mint did not occur before timeout", and the time lock is the
\* "deadline for receiver to mint": a burn is paid to its receiver or back to its sender,
\* not to both.
BurnPaidOnce ==
    \A c \in Chain : \A i \in DOMAIN burns[c] :
        burns[c][i].isRedeemed => burns[c][i].hashCommitment.sn \notin mintedSerialNumbers[Other(c)]

=============================================================================
