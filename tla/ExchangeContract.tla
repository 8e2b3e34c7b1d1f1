-------------------------- MODULE ExchangeContract --------------------------
(***************************************************************************)
(* contracts/ordinary_chain/ExchangeContract.sol: Protocol Phi, a hash     *)
(* time lock contract with proofs, deployed on two chains, and the swap of *)
(* two participants over them.  The sender S locks on chain I, the         *)
(* receiver R on chain II; S unlocks on II, which reveals a serial number  *)
(* from which R computes the one that unlocks on I.                        *)
(*                                                                         *)
(* A hash lock h(pre, sn) is identified with the serial number sn that it  *)
(* hides.  Both chains read the same clock.                                *)
(***************************************************************************)
EXTENDS Integers, Sequences, FiniteSets, FiniteSetsExt, SequencesExt

CONSTANTS
    S, R,              \* the two participants of the swap
    snI, snII,         \* serial numbers of the two hash locks, snII = snI XOR Z
    Denominations,     \* the amounts that isValidDenomination accepts
    Values,            \* msg.value of lock
    T1, T2,            \* durations that S and R ask for, T2 < T1
    MaxLocks,          \* bound on the locks of a chain
    MaxTime,           \* bound on block.timestamp; locks that outlive it are not made
    MaxReceived        \* bound on plain transfers to a contract

ASSUME ExchangeAssumption ==
    /\ S # R /\ snI # snII
    /\ Denominations \subseteq Nat \ {0} /\ Values \subseteq Nat
    /\ T1 \in Nat /\ T2 \in Nat /\ 0 < T2 /\ T2 < T1
    /\ MaxLocks \in Nat /\ MaxTime \in Nat /\ MaxReceived \in Nat

VARIABLES
    locks,              \* chain -> sequence of LockRecord
    usedSerialNumbers,  \* chain -> set of serial numbers
    balance,            \* chain -> address(this).balance
    received,           \* chain -> value received by receive(), so far
    keyed,              \* chains where setVerifyingKeys has been called
    known,              \* participant -> serial numbers it can compute
    now                 \* block.timestamp

exchangeVars == <<locks, usedSerialNumbers, balance, received, keyed, known, now>>

Chain == {"I", "II"}
Participant == {S, R}
Serial == {snI, snII}

LockRecord == [locker : Participant, amount : Nat, hashLock : Serial, timeLock : Nat,
               isUnlocked : BOOLEAN, isRefunded : BOOLEAN]

\* S has prepared the two hash locks and given R the preimages and the XOR value.
ExchangeInit ==
    /\ locks = [c \in Chain |-> <<>>]
    /\ usedSerialNumbers = [c \in Chain |-> {}]
    /\ balance = [c \in Chain |-> 0]
    /\ received = [c \in Chain |-> 0]
    /\ keyed = {}
    /\ known = [p \in Participant |-> IF p = S THEN Serial ELSE {}]
    /\ now = 0

\* The relation of circuit ExchangeUnlock on (sn, v, root): the prover knows sn, and a
\* transaction that locks v under sn is in a block.  The root is not compared with any
\* chain's, so the lock may be on either.
UnlockProof(p, sn, amount) ==
    /\ sn \in known[p]
    /\ \E c \in Chain : \E i \in DOMAIN locks[c] :
          locks[c][i].hashLock = sn /\ locks[c][i].amount = amount

SetVerifyingKeys(c) ==
    /\ keyed' = keyed \cup {c}
    /\ UNCHANGED <<locks, usedSerialNumbers, balance, received, known, now>>

Lock(c, p, hashLock, value, duration) ==
    /\ value \in Denominations
    /\ duration > 0
    /\ Len(locks[c]) < MaxLocks /\ now + duration < MaxTime
    /\ locks' = [locks EXCEPT ![c] =
          Append(@, [locker |-> p, amount |-> value, hashLock |-> hashLock,
                     timeLock |-> now + duration,
                     isUnlocked |-> FALSE, isRefunded |-> FALSE])]
    /\ balance' = [balance EXCEPT ![c] = @ + value]
    /\ UNCHANGED <<usedSerialNumbers, received, keyed, known, now>>

\* Variant: the serial number is not marked as used.
UsedAfterUnlock_Unmarked(c, sn) == usedSerialNumbers[c]

UsedAfterUnlock(c, sn) == usedSerialNumbers[c] \cup {sn}

\* Variant: the deadline of unlock is not checked.
InTime_Always(record) == TRUE

InTime(record) == now <= record.timeLock

\* Variant: refund compares the clock the wrong way round.
Expired_Flipped(record) == now < record.timeLock

Expired(record) == now > record.timeLock

\* R holds the XOR value of the preparation: either serial number gives R the other.
Revealed(sn) == Serial

Unlock(c, p, i, sn) ==
    LET record == locks[c][i]
    IN  /\ ~record.isUnlocked /\ ~record.isRefunded
        /\ InTime(record)
        /\ sn \notin usedSerialNumbers[c]
        /\ c \in keyed /\ UnlockProof(p, sn, record.amount)
        /\ balance[c] >= record.amount
        /\ locks' = [locks EXCEPT ![c][i].isUnlocked = TRUE]
        /\ usedSerialNumbers' = [usedSerialNumbers EXCEPT ![c] = UsedAfterUnlock(c, sn)]
        /\ balance' = [balance EXCEPT ![c] = @ - record.amount]
        /\ known' = [known EXCEPT ![R] = @ \cup Revealed(sn)]
        /\ UNCHANGED <<received, keyed, now>>

\* Variant: an unlocked lock can be refunded.
Refundable_Unlocked(record) == ~record.isRefunded

Refundable(record) == ~record.isUnlocked /\ ~record.isRefunded

Refund(c, p, i) ==
    LET record == locks[c][i]
    IN  /\ record.locker = p
        /\ Expired(record)
        /\ Refundable(record)
        /\ balance[c] >= record.amount
        /\ locks' = [locks EXCEPT ![c][i].isRefunded = TRUE]
        /\ balance' = [balance EXCEPT ![c] = @ - record.amount]
        /\ UNCHANGED <<usedSerialNumbers, received, keyed, known, now>>

Receive(c, value) ==
    /\ received[c] + value <= MaxReceived
    /\ balance' = [balance EXCEPT ![c] = @ + value]
    /\ received' = [received EXCEPT ![c] = @ + value]
    /\ UNCHANGED <<locks, usedSerialNumbers, keyed, known, now>>

Tick ==
    /\ now < MaxTime
    /\ now' = now + 1
    /\ UNCHANGED <<locks, usedSerialNumbers, balance, received, keyed, known>>

----------------------------------------------------------------------------
(***************************************************************************)
(* The swap.  S locks on I for T1.  R locks on II for T2 once S's lock is  *)
(* there, and only while its own deadline stays before that of S, as the   *)
(* contract's time lock rules ask of the participants.  S opens the lock   *)
(* of R on II; R opens the lock of S on I once it can.                     *)
(***************************************************************************)
SLocks(v) == Lock("I", S, snI, v, T1)

RLocks(v) ==
    /\ \E i \in DOMAIN locks["I"] :
          /\ ~locks["I"][i].isUnlocked /\ ~locks["I"][i].isRefunded
          /\ now + T2 < locks["I"][i].timeLock
    /\ Lock("II", R, snII, v, T2)

SUnlocks(i) == Unlock("II", S, i, snII)

RUnlocks(i) == Unlock("I", R, i, snI)

RefundBy(c, p) == \E i \in DOMAIN locks[c] : Refund(c, p, i)

ExchangeNext ==
    \/ \E v \in Values : SLocks(v)
    \/ \E v \in Values : RLocks(v)
    \/ \E i \in DOMAIN locks["II"] : SUnlocks(i)
    \/ \E i \in DOMAIN locks["I"] : RUnlocks(i)
    \/ RefundBy("I", S)
    \/ RefundBy("II", R)
    \/ \E c \in Chain, v \in Values : Receive(c, v)
    \/ \E c \in Chain : SetVerifyingKeys(c)
    \/ Tick

\* Blocks keep coming, and a locker keeps trying to reclaim what it locked.
ExchangeSpec ==
    /\ ExchangeInit /\ [][ExchangeNext]_exchangeVars
    /\ WF_exchangeVars(Tick)
    /\ WF_exchangeVars(RefundBy("I", S)) /\ WF_exchangeVars(RefundBy("II", R))

----------------------------------------------------------------------------
(***************************************************************************)
(* Properties.                                                             *)
(***************************************************************************)

Open(record) == ~record.isUnlocked /\ ~record.isRefunded

\* Type correctness; no lock is both unlocked and refunded.
ExchangeTypeOK ==
    /\ locks \in [Chain -> Seq(LockRecord)]
    /\ \A c \in Chain : \A i \in DOMAIN locks[c] :
          ~(locks[c][i].isUnlocked /\ locks[c][i].isRefunded)
    /\ usedSerialNumbers \in [Chain -> SUBSET Serial]
    /\ balance \in [Chain -> Nat] /\ received \in [Chain -> Nat]
    /\ keyed \subseteq Chain
    /\ known \in [Participant -> SUBSET Serial]
    /\ now \in Nat

\* Every lock is paid out at most once, by unlock or by refund: a contract always holds
\* exactly the value of its open locks and what was sent to it besides.
LocksCovered ==
    \A c \in Chain :
        balance[c] = received[c]
            + MapThenSumSet(LAMBDA i : IF Open(locks[c][i]) THEN locks[c][i].amount ELSE 0,
                            DOMAIN locks[c])

\* One serial number opens at most one lock of a chain, however often the same hash
\* lock is used.
SerialOpensOneLock ==
    \A c \in Chain, sn \in Serial :
        Cardinality({i \in DOMAIN locks[c] :
                        locks[c][i].hashLock = sn /\ locks[c][i].isUnlocked}) <= 1

\* The swap is fair to R: when S opens the lock of R, R learns the serial number of
\* chain I while a lock of S is open there and has time left.
ReceiverCanAnswer ==
    [][\A i \in DOMAIN locks["II"] :
          locks'["II"][i].isUnlocked /\ ~locks["II"][i].isUnlocked =>
             /\ snI \in known'[R]
             /\ \E k \in DOMAIN locks["I"] :
                   Open(locks["I"][k]) /\ now < locks["I"][k].timeLock]_exchangeVars

\* No lock stays open for ever: what nobody unlocks in time goes back to its locker.
EveryLockSettles ==
    \A c \in Chain, i \in 1 .. MaxLocks :
        i \in DOMAIN locks[c] ~> (i \in DOMAIN locks[c] /\ ~Open(locks[c][i]))

=============================================================================
