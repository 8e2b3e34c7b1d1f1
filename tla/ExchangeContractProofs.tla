------------------------ MODULE ExchangeContractProofs ------------------------
(***************************************************************************)
(* Theorems about the swap over two ExchangeContracts: a serial number     *)
(* opens one lock of a chain, and R can answer when S opens R's lock.      *)
(* They hold for any number of locks, denominations and durations T2 < T1. *)
(***************************************************************************)
EXTENDS ExchangeContract, FiniteSetTheorems, TLAPS

SwapTypes ==
    /\ locks \in [Chain -> Seq(LockRecord)]
    /\ usedSerialNumbers \in [Chain -> SUBSET Serial]
    /\ known \in [Participant -> SUBSET Serial]
    /\ now \in Nat

\* The serial number whose hash the participants lock under on a chain.
SerialOf(c) == IF c = "I" THEN snI ELSE snII

\* All locks of a chain are under one hash, and at most one of them is unlocked, with the
\* serial number marked as used.
OpenedInv(c) ==
    /\ \A i \in DOMAIN locks[c] : locks[c][i].hashLock = SerialOf(c)
    /\ \A i \in DOMAIN locks[c] : locks[c][i].isUnlocked => SerialOf(c) \in usedSerialNumbers[c]
    /\ \A i, j \in DOMAIN locks[c] : locks[c][i].isUnlocked /\ locks[c][j].isUnlocked => i = j

\* R learns a serial number only when S has opened a lock on II, and opens locks on I only
\* after that.
RevealInv ==
    /\ known[R] # {} => snII \in usedSerialNumbers["II"]
    /\ \A i \in DOMAIN locks["I"] : locks["I"][i].isUnlocked => known[R] # {}

\* Every lock of R was made against a lock of S that outlives it and was not refunded
\* before its own deadline.
OutlivedInv ==
    \A i \in DOMAIN locks["II"] : \E k \in DOMAIN locks["I"] :
        /\ locks["II"][i].timeLock < locks["I"][k].timeLock
        /\ locks["I"][k].isRefunded => now > locks["I"][k].timeLock

SwapInv ==
    SwapTypes /\ (\A c \in Chain : OpenedInv(c)) /\ RevealInv /\ OutlivedInv

\* What lock() does to the list of its chain.
LEMMA LockEffects ==
    ASSUME SwapTypes, NEW c \in Chain, NEW p \in Participant, NEW sn \in Serial,
           NEW v \in Values, NEW d \in Nat, Lock(c, p, sn, v, d)
    PROVE  /\ SwapTypes'
           /\ \A e \in Chain \ {c} : locks'[e] = locks[e]
           /\ DOMAIN locks'[c] = DOMAIN locks[c] \cup {Len(locks[c]) + 1}
           /\ \A i \in DOMAIN locks[c] : locks'[c][i] = locks[c][i]
           /\ Len(locks[c]) + 1 \notin DOMAIN locks[c]
           /\ LET added == locks'[c][Len(locks[c]) + 1]
              IN  added.hashLock = sn /\ added.timeLock = now + d /\ ~added.isUnlocked
  <1> DEFINE new == [locker |-> p, amount |-> v, hashLock |-> sn, timeLock |-> now + d,
                     isUnlocked |-> FALSE, isRefunded |-> FALSE]
  <1>0. v \in Nat /\ now + d \in Nat
    BY ExchangeAssumption DEF ExchangeAssumption, SwapTypes
  <1>1. locks[c] \in Seq(LockRecord) /\ new \in LockRecord
    BY <1>0 DEF SwapTypes, LockRecord
  <1>2. locks' = [locks EXCEPT ![c] = Append(locks[c], new)]
    BY DEF Lock
  <1>3. Append(locks[c], new) \in Seq(LockRecord)
    BY <1>1
  <1>4. locks' \in [Chain -> Seq(LockRecord)] /\ locks'[c] = Append(locks[c], new)
    BY <1>2, <1>3 DEF SwapTypes
  <1>5. SwapTypes'
    BY <1>4 DEF SwapTypes, Lock
  <1>6. \A e \in Chain \ {c} : locks'[e] = locks[e]
    BY <1>2 DEF SwapTypes
  <1> HIDE DEF new
  <1>7. /\ DOMAIN locks'[c] = DOMAIN locks[c] \cup {Len(locks[c]) + 1}
        /\ \A i \in DOMAIN locks[c] : locks'[c][i] = locks[c][i]
        /\ Len(locks[c]) + 1 \notin DOMAIN locks[c]
        /\ locks'[c][Len(locks[c]) + 1] = new
    BY <1>1, <1>4
  <1>8. new.hashLock = sn /\ new.timeLock = now + d /\ ~new.isUnlocked
    BY DEF new
  <1> QED
    BY <1>5, <1>6, <1>7, <1>8

\* What replacing one record does, as unlock() and refund() do.
LEMMA RecordReplaced ==
    ASSUME locks \in [Chain -> Seq(LockRecord)], NEW c \in Chain, NEW i \in DOMAIN locks[c],
           NEW r \in LockRecord, locks' = [locks EXCEPT ![c][i] = r]
    PROVE  /\ locks' \in [Chain -> Seq(LockRecord)]
           /\ \A e \in Chain : DOMAIN locks'[e] = DOMAIN locks[e]
           /\ \A e \in Chain \ {c} : locks'[e] = locks[e]
           /\ \A j \in DOMAIN locks[c] \ {i} : locks'[c][j] = locks[c][j]
           /\ locks'[c][i] = r
  <1>1. locks[c] \in Seq(LockRecord)
    OBVIOUS
  <1>2. [locks[c] EXCEPT ![i] = r] \in Seq(LockRecord)
    BY <1>1
  <1> QED
    BY <1>1, <1>2

\* What unlock() does to the list of its chain.
LEMMA UnlockEffects ==
    ASSUME SwapTypes, NEW c \in Chain, NEW p \in Participant, NEW i \in DOMAIN locks[c],
           NEW sn \in Serial, Unlock(c, p, i, sn)
    PROVE  /\ SwapTypes'
           /\ \A e \in Chain : DOMAIN locks'[e] = DOMAIN locks[e]
           /\ \A e \in Chain \ {c} : locks'[e] = locks[e]
           /\ \A e \in Chain \ {c} : usedSerialNumbers'[e] = usedSerialNumbers[e]
           /\ \A j \in DOMAIN locks[c] \ {i} : locks'[c][j] = locks[c][j]
           /\ locks'[c][i] = [locks[c][i] EXCEPT !.isUnlocked = TRUE]
           /\ usedSerialNumbers'[c] = usedSerialNumbers[c] \cup {sn}
           /\ known'[R] = Serial
  <1> DEFINE r == [locks[c][i] EXCEPT !.isUnlocked = TRUE]
  <1>1. locks[c] \in Seq(LockRecord) /\ locks[c][i] \in LockRecord
    BY DEF SwapTypes
  <1>2. r \in LockRecord
    BY <1>1 DEF LockRecord
  <1>3. locks' = [locks EXCEPT ![c][i] = r]
    BY DEF Unlock
  <1>4. usedSerialNumbers' = [usedSerialNumbers EXCEPT ![c] = usedSerialNumbers[c] \cup {sn}]
    BY DEF Unlock, UsedAfterUnlock
  <1>5. known' = [known EXCEPT ![R] = known[R] \cup Serial] /\ now' = now
    BY DEF Unlock, Revealed
  <1>6. known[R] \subseteq Serial
    BY DEF SwapTypes, Participant
  <1> HIDE DEF r
  <1>7. /\ locks' \in [Chain -> Seq(LockRecord)]
        /\ \A e \in Chain : DOMAIN locks'[e] = DOMAIN locks[e]
        /\ \A e \in Chain \ {c} : locks'[e] = locks[e]
        /\ \A j \in DOMAIN locks[c] \ {i} : locks'[c][j] = locks[c][j]
        /\ locks'[c][i] = r
    BY <1>2, <1>3, RecordReplaced DEF SwapTypes
  <1>8. /\ usedSerialNumbers' \in [Chain -> SUBSET Serial]
        /\ usedSerialNumbers'[c] = usedSerialNumbers[c] \cup {sn}
        /\ \A e \in Chain \ {c} : usedSerialNumbers'[e] = usedSerialNumbers[e]
    BY <1>4 DEF SwapTypes
  <1>9. known' \in [Participant -> SUBSET Serial] /\ known'[R] = Serial
    BY <1>5, <1>6 DEF SwapTypes, Participant
  <1>10. SwapTypes'
    BY <1>5, <1>7, <1>8, <1>9 DEF SwapTypes
  <1> QED
    BY <1>7, <1>8, <1>9, <1>10 DEF r

\* What refund() does to the list of its chain.
LEMMA RefundEffects ==
    ASSUME SwapTypes, NEW c \in Chain, NEW p \in Participant, NEW i \in DOMAIN locks[c],
           Refund(c, p, i)
    PROVE  /\ SwapTypes'
           /\ \A e \in Chain : DOMAIN locks'[e] = DOMAIN locks[e]
           /\ \A e \in Chain \ {c} : locks'[e] = locks[e]
           /\ \A j \in DOMAIN locks[c] \ {i} : locks'[c][j] = locks[c][j]
           /\ locks'[c][i] = [locks[c][i] EXCEPT !.isRefunded = TRUE]
           /\ now > locks[c][i].timeLock
           /\ UNCHANGED <<usedSerialNumbers, known, now>>
  <1> DEFINE r == [locks[c][i] EXCEPT !.isRefunded = TRUE]
  <1>1. locks[c] \in Seq(LockRecord) /\ locks[c][i] \in LockRecord
    BY DEF SwapTypes
  <1>2. r \in LockRecord
    BY <1>1 DEF LockRecord
  <1>3. locks' = [locks EXCEPT ![c][i] = r]
    BY DEF Refund
  <1>4. UNCHANGED <<usedSerialNumbers, known, now>> /\ now > locks[c][i].timeLock
    BY DEF Refund, Expired
  <1> HIDE DEF r
  <1>5. /\ locks' \in [Chain -> Seq(LockRecord)]
        /\ \A e \in Chain : DOMAIN locks'[e] = DOMAIN locks[e]
        /\ \A e \in Chain \ {c} : locks'[e] = locks[e]
        /\ \A j \in DOMAIN locks[c] \ {i} : locks'[c][j] = locks[c][j]
        /\ locks'[c][i] = r
    BY <1>2, <1>3, RecordReplaced DEF SwapTypes
  <1>6. SwapTypes'
    BY <1>4, <1>5 DEF SwapTypes
  <1> QED
    BY <1>4, <1>5, <1>6 DEF r

----------------------------------------------------------------------------
(***************************************************************************)
(* Every step keeps the invariant.                                         *)
(***************************************************************************)
LEMMA SLocksKeeps == ASSUME SwapInv, NEW v \in Values, SLocks(v) PROVE SwapInv'
  <1> DEFINE new == Len(locks["I"]) + 1
  <1>1. "I" \in Chain /\ "II" \in Chain /\ S \in Participant /\ snI \in Serial /\ T1 \in Nat
    BY ExchangeAssumption DEF ExchangeAssumption, Chain, Participant, Serial
  <1>2. SwapTypes /\ Lock("I", S, snI, v, T1)
    BY DEF SwapInv, SLocks
  <1>3. UNCHANGED <<usedSerialNumbers, known, now>>
    BY <1>2 DEF Lock
  <1>4. /\ SwapTypes' /\ locks'["II"] = locks["II"]
        /\ DOMAIN locks'["I"] = DOMAIN locks["I"] \cup {new}
        /\ \A i \in DOMAIN locks["I"] : locks'["I"][i] = locks["I"][i]
        /\ new \notin DOMAIN locks["I"]
        /\ locks'["I"][new].hashLock = snI /\ ~locks'["I"][new].isUnlocked
    BY <1>1, <1>2, LockEffects DEF Chain
  <1> HIDE DEF new
  <1>5. OpenedInv("I")' /\ OpenedInv("II")'
    BY <1>1, <1>3, <1>4 DEF SwapInv, OpenedInv, SerialOf
  <1>6. RevealInv'
    BY <1>3, <1>4 DEF SwapInv, RevealInv
  <1>7. OutlivedInv'
    BY <1>3, <1>4 DEF SwapInv, OutlivedInv
  <1> QED
    BY <1>4, <1>5, <1>6, <1>7 DEF SwapInv, Chain

\* R locks only against a lock of S that is open and outlives its own.
LEMMA RLocksKeeps == ASSUME SwapInv, NEW v \in Values, RLocks(v) PROVE SwapInv'
  <1> DEFINE new == Len(locks["II"]) + 1
  <1>1. "I" \in Chain /\ "II" \in Chain /\ R \in Participant /\ snII \in Serial /\ T2 \in Nat
    BY ExchangeAssumption DEF ExchangeAssumption, Chain, Participant, Serial
  <1>2. SwapTypes /\ Lock("II", R, snII, v, T2)
    BY DEF SwapInv, RLocks
  <1>3. UNCHANGED <<usedSerialNumbers, known, now>>
    BY <1>2 DEF Lock
  <1>4. /\ SwapTypes' /\ locks'["I"] = locks["I"]
        /\ DOMAIN locks'["II"] = DOMAIN locks["II"] \cup {new}
        /\ \A i \in DOMAIN locks["II"] : locks'["II"][i] = locks["II"][i]
        /\ new \notin DOMAIN locks["II"]
        /\ locks'["II"][new].hashLock = snII /\ ~locks'["II"][new].isUnlocked
        /\ locks'["II"][new].timeLock = now + T2
    BY <1>1, <1>2, LockEffects DEF Chain
  <1> HIDE DEF new
  <1>5. OpenedInv("I")' /\ OpenedInv("II")'
    BY <1>1, <1>3, <1>4 DEF SwapInv, OpenedInv, SerialOf
  <1>6. RevealInv'
    BY <1>3, <1>4 DEF SwapInv, RevealInv
  <1>7. PICK k \in DOMAIN locks["I"] : ~locks["I"][k].isRefunded /\ now + T2 < locks["I"][k].timeLock
    BY DEF RLocks
  <1>8. OutlivedInv'
    BY <1>3, <1>4, <1>7 DEF SwapInv, OutlivedInv
  <1> QED
    BY <1>4, <1>5, <1>6, <1>8 DEF SwapInv, Chain

\* S opens a lock of R: the only step from which R learns anything new.
LEMMA SUnlocksKeeps ==
    ASSUME SwapInv, NEW i \in DOMAIN locks["II"], SUnlocks(i) PROVE SwapInv'
  <1>1. "I" \in Chain /\ "II" \in Chain /\ S \in Participant /\ snII \in Serial
    BY DEF Chain, Participant, Serial
  <1>2. SwapTypes /\ Unlock("II", S, i, snII)
    BY DEF SwapInv, SUnlocks
  <1>3. now' = now /\ snII \notin usedSerialNumbers["II"]
    BY <1>2 DEF Unlock
  <1>4. /\ SwapTypes' /\ locks'["I"] = locks["I"]
        /\ DOMAIN locks'["II"] = DOMAIN locks["II"]
        /\ \A j \in DOMAIN locks["II"] \ {i} : locks'["II"][j] = locks["II"][j]
        /\ locks'["II"][i] = [locks["II"][i] EXCEPT !.isUnlocked = TRUE]
        /\ usedSerialNumbers'["I"] = usedSerialNumbers["I"]
        /\ snII \in usedSerialNumbers'["II"]
        /\ known'[R] = Serial
    BY <1>1, <1>2, UnlockEffects DEF Chain
  <1>5. locks["II"][i] \in LockRecord
    BY <1>1, <1>2 DEF SwapTypes
  <1>6. /\ locks'["II"][i].hashLock = locks["II"][i].hashLock
        /\ locks'["II"][i].timeLock = locks["II"][i].timeLock
    BY <1>4, <1>5 DEF LockRecord
  <1>7. OpenedInv("I")'
    BY <1>1, <1>4 DEF SwapInv, OpenedInv, SerialOf
  <1>8. \A j \in DOMAIN locks["II"] : ~locks["II"][j].isUnlocked
    BY <1>1, <1>3 DEF SwapInv, OpenedInv, SerialOf
  <1>9. \A j \in DOMAIN locks["II"] : locks'["II"][j].hashLock = snII
    <2>1. \A j \in DOMAIN locks["II"] : locks["II"][j].hashLock = snII
      BY <1>1 DEF SwapInv, OpenedInv, SerialOf
    <2> QED
      BY <1>4, <1>6, <2>1
  <1>10. \A j \in DOMAIN locks["II"] : locks'["II"][j].isUnlocked => j = i
    BY <1>4, <1>8
  <1>11. OpenedInv("II")'
    BY <1>4, <1>9, <1>10 DEF OpenedInv, SerialOf
  <1>12. RevealInv'
    BY <1>1, <1>4 DEF SwapInv, RevealInv
  <1>13. \A j \in DOMAIN locks["II"] : locks'["II"][j].timeLock = locks["II"][j].timeLock
    BY <1>4, <1>6
  <1>14. OutlivedInv'
    BY <1>3, <1>4, <1>13 DEF SwapInv, OutlivedInv
  <1> QED
    BY <1>4, <1>7, <1>12, <1>14, <1>11 DEF SwapInv, Chain

\* R opens a lock on I with a serial number it has learned.
LEMMA RUnlocksKeeps ==
    ASSUME SwapInv, NEW i \in DOMAIN locks["I"], RUnlocks(i) PROVE SwapInv'
  <1>1. "I" \in Chain /\ "II" \in Chain /\ R \in Participant /\ snI \in Serial
    BY DEF Chain, Participant, Serial
  <1>2. SwapTypes /\ Unlock("I", R, i, snI)
    BY DEF SwapInv, RUnlocks
  <1>3. now' = now /\ snI \notin usedSerialNumbers["I"] /\ snI \in known[R]
    BY <1>2 DEF Unlock, UnlockProof
  <1>4. /\ SwapTypes' /\ locks'["II"] = locks["II"]
        /\ DOMAIN locks'["I"] = DOMAIN locks["I"]
        /\ \A j \in DOMAIN locks["I"] \ {i} : locks'["I"][j] = locks["I"][j]
        /\ locks'["I"][i] = [locks["I"][i] EXCEPT !.isUnlocked = TRUE]
        /\ usedSerialNumbers'["II"] = usedSerialNumbers["II"]
        /\ snI \in usedSerialNumbers'["I"]
        /\ known'[R] = Serial
    BY <1>1, <1>2, UnlockEffects DEF Chain
  <1>5. locks["I"][i] \in LockRecord
    BY <1>1, <1>2 DEF SwapTypes
  <1>6. /\ locks'["I"][i].hashLock = locks["I"][i].hashLock
        /\ locks'["I"][i].timeLock = locks["I"][i].timeLock
        /\ locks'["I"][i].isRefunded = locks["I"][i].isRefunded
    BY <1>4, <1>5 DEF LockRecord
  <1>7. OpenedInv("II")'
    BY <1>1, <1>4 DEF SwapInv, OpenedInv, SerialOf
  <1>8. \A j \in DOMAIN locks["I"] : ~locks["I"][j].isUnlocked
    BY <1>1, <1>3 DEF SwapInv, OpenedInv, SerialOf
  <1>9. \A j \in DOMAIN locks["I"] : locks'["I"][j].hashLock = snI
    <2>1. \A j \in DOMAIN locks["I"] : locks["I"][j].hashLock = snI
      BY <1>1 DEF SwapInv, OpenedInv, SerialOf
    <2> QED
      BY <1>4, <1>6, <2>1
  <1>10. \A j \in DOMAIN locks["I"] : locks'["I"][j].isUnlocked => j = i
    BY <1>4, <1>8
  <1>11. OpenedInv("I")'
    BY <1>4, <1>9, <1>10 DEF OpenedInv, SerialOf
  <1>12. RevealInv'
    BY <1>1, <1>3, <1>4 DEF SwapInv, RevealInv
  <1>13. \A k \in DOMAIN locks["I"] : /\ locks'["I"][k].timeLock = locks["I"][k].timeLock
                                    /\ locks'["I"][k].isRefunded = locks["I"][k].isRefunded
    BY <1>4, <1>6
  <1>14. OutlivedInv'
    BY <1>3, <1>4, <1>13 DEF SwapInv, OutlivedInv
  <1> QED
    BY <1>4, <1>7, <1>12, <1>14, <1>11 DEF SwapInv, Chain

\* A refund comes after the deadline, so the lock it takes outlived what was made against it.
LEMMA RefundKeeps ==
    ASSUME SwapInv, NEW c \in Chain, NEW p \in Participant, RefundBy(c, p) PROVE SwapInv'
  <1>1. PICK i \in DOMAIN locks[c] : Refund(c, p, i)
    BY DEF RefundBy
  <1>2. SwapTypes
    BY DEF SwapInv
  <1>3. /\ SwapTypes'
        /\ \A e \in Chain : DOMAIN locks'[e] = DOMAIN locks[e]
        /\ \A e \in Chain \ {c} : locks'[e] = locks[e]
        /\ \A j \in DOMAIN locks[c] \ {i} : locks'[c][j] = locks[c][j]
        /\ locks'[c][i] = [locks[c][i] EXCEPT !.isRefunded = TRUE]
        /\ now > locks[c][i].timeLock
        /\ UNCHANGED <<usedSerialNumbers, known, now>>
    BY <1>1, <1>2, RefundEffects
  <1>4. locks[c][i] \in LockRecord
    BY <1>2 DEF SwapTypes
  <1>5. /\ locks'[c][i].hashLock = locks[c][i].hashLock
        /\ locks'[c][i].timeLock = locks[c][i].timeLock
        /\ locks'[c][i].isUnlocked = locks[c][i].isUnlocked
    BY <1>3, <1>4 DEF LockRecord
  <1>6. \A e \in Chain : \A j \in DOMAIN locks[e] :
           /\ locks'[e][j].hashLock = locks[e][j].hashLock
           /\ locks'[e][j].timeLock = locks[e][j].timeLock
           /\ locks'[e][j].isUnlocked = locks[e][j].isUnlocked
           /\ locks'[e][j].isRefunded => locks[e][j].isRefunded \/ now > locks[e][j].timeLock
    BY <1>3, <1>5, ZenonT(30)
  <1>7. "I" \in Chain /\ "II" \in Chain
    BY DEF Chain
  <1>8. \A e \in Chain : OpenedInv(e)'
    BY <1>3, <1>6 DEF SwapInv, OpenedInv, SerialOf
  <1>9. RevealInv'
    BY <1>3, <1>6, <1>7 DEF SwapInv, RevealInv
  <1>10. OutlivedInv'
    BY <1>3, <1>6, <1>7 DEF SwapInv, OutlivedInv
  <1> QED
    BY <1>3, <1>8, <1>9, <1>10 DEF SwapInv

\* SwapInv is inductive.
LEMMA SwapInvStep == ASSUME SwapInv, [ExchangeNext]_exchangeVars PROVE SwapInv'
  <1>1. ASSUME UNCHANGED <<locks, usedSerialNumbers, known>>, now' \in Nat, now' >= now
        PROVE  SwapInv'
    <2>1. SwapTypes /\ SwapTypes'
      BY <1>1 DEF SwapInv, SwapTypes
    <2>2. (\A c \in Chain : OpenedInv(c))' /\ RevealInv'
      BY <1>1 DEF SwapInv, OpenedInv, RevealInv, SerialOf
    <2>3. \A k \in DOMAIN locks["I"] : locks["I"][k].timeLock \in Nat
      <3>1. locks["I"] \in Seq(LockRecord)
        BY <2>1 DEF SwapTypes, Chain
      <3>2. \A k \in DOMAIN locks["I"] : locks["I"][k] \in LockRecord
        BY <3>1
      <3> QED
        BY <3>2 DEF LockRecord
    <2>4. OutlivedInv'
      BY <1>1, <2>1, <2>3, SMTT(30) DEF SwapInv, OutlivedInv, SwapTypes
    <2> QED
      BY <2>1, <2>2, <2>4 DEF SwapInv
  <1>2. now \in Nat /\ "I" \in Chain /\ "II" \in Chain /\ S \in Participant /\ R \in Participant
    BY DEF SwapInv, SwapTypes, Chain, Participant
  <1>3. CASE \E v \in Values : SLocks(v)
    BY <1>3, SLocksKeeps
  <1>4. CASE \E v \in Values : RLocks(v)
    BY <1>4, RLocksKeeps
  <1>5. CASE \E i \in DOMAIN locks["II"] : SUnlocks(i)
    BY <1>5, SUnlocksKeeps
  <1>6. CASE \E i \in DOMAIN locks["I"] : RUnlocks(i)
    BY <1>6, RUnlocksKeeps
  <1>7. CASE RefundBy("I", S) \/ RefundBy("II", R)
    BY <1>2, <1>7, RefundKeeps
  <1>8. CASE \E c \in Chain, v \in Values : Receive(c, v)
    BY <1>1, <1>2, <1>8 DEF Receive
  <1>9. CASE \E c \in Chain : SetVerifyingKeys(c)
    BY <1>1, <1>2, <1>9 DEF SetVerifyingKeys
  <1>10. CASE Tick
    BY <1>1, <1>2, <1>10 DEF Tick
  <1>11. CASE UNCHANGED exchangeVars
    BY <1>1, <1>2, <1>11 DEF exchangeVars
  <1> QED
    BY <1>3, <1>4, <1>5, <1>6, <1>7, <1>8, <1>9, <1>10, <1>11 DEF ExchangeNext

\* The invariant holds always.
LEMMA SwapInvHolds == ExchangeSpec => []SwapInv
  <1>1. ExchangeInit => SwapInv
    <2> SUFFICES ASSUME ExchangeInit PROVE SwapInv
      OBVIOUS
    <2>1. /\ \A c \in Chain : locks[c] = <<>>
          /\ locks = [c \in Chain |-> <<>>] /\ usedSerialNumbers = [c \in Chain |-> {}]
          /\ now = 0 /\ known \in [Participant -> SUBSET Serial] /\ known[R] = {}
      BY ExchangeAssumption DEF ExchangeInit, ExchangeAssumption, Participant
    <2>2. SwapTypes
      BY <2>1 DEF SwapTypes
    <2>3. (\A c \in Chain : OpenedInv(c)) /\ RevealInv /\ OutlivedInv
      BY <2>1 DEF OpenedInv, RevealInv, OutlivedInv, Chain
    <2> QED
      BY <2>2, <2>3 DEF SwapInv
  <1>2. SwapInv /\ [ExchangeNext]_exchangeVars => SwapInv'
    BY SwapInvStep
  <1> QED
    BY <1>1, <1>2, PTL DEF ExchangeSpec

----------------------------------------------------------------------------

\* usedSerialNumbers makes a serial number good for one lock of a chain, however many
\* locks there are under its hash.
THEOREM SerialAlwaysOpensOneLock == ExchangeSpec => []SerialOpensOneLock
  <1>1. SwapInv => SerialOpensOneLock
    <2> SUFFICES ASSUME SwapInv, NEW c \in Chain, NEW sn \in Serial
                 PROVE  Cardinality({i \in DOMAIN locks[c] :
                           locks[c][i].hashLock = sn /\ locks[c][i].isUnlocked}) <= 1
      BY DEF SerialOpensOneLock
    <2> DEFINE opened == {i \in DOMAIN locks[c] :
                             locks[c][i].hashLock = sn /\ locks[c][i].isUnlocked}
    <2>1. \A i, j \in opened : i = j
      BY DEF SwapInv, OpenedInv
    <2> HIDE DEF opened
    <2>2. opened = {} \/ \E x : opened = {x}
      BY <2>1
    <2>3. Cardinality(opened) = 0 \/ Cardinality(opened) = 1
      BY <2>2, FS_EmptySet, FS_Singleton
    <2> QED
      BY <2>3 DEF opened
  <1> QED
    BY <1>1, SwapInvHolds, PTL

\* The time lock rules of the protocol (T2 < T1, and R locks only against a lock that
\* outlives its own) are enough: whenever S opens a lock of R, R learns the serial number
\* of chain I while a lock of S can still be opened there.
THEOREM ReceiverCanAlwaysAnswer == ExchangeSpec => ReceiverCanAnswer
  <1> DEFINE Answerable ==
        \A i \in DOMAIN locks["II"] :
          locks'["II"][i].isUnlocked /\ ~locks["II"][i].isUnlocked =>
             /\ snI \in known'[R]
             /\ \E k \in DOMAIN locks["I"] :
                   Open(locks["I"][k]) /\ now < locks["I"][k].timeLock
  <1>1. SwapInv /\ [ExchangeNext]_exchangeVars => [Answerable]_exchangeVars
    <2> SUFFICES ASSUME SwapInv, ExchangeNext, NEW i \in DOMAIN locks["II"],
                        locks'["II"][i].isUnlocked, ~locks["II"][i].isUnlocked
                 PROVE  /\ snI \in known'[R]
                        /\ \E k \in DOMAIN locks["I"] :
                              Open(locks["I"][k]) /\ now < locks["I"][k].timeLock
      OBVIOUS
    <2>1. /\ SwapTypes /\ "I" \in Chain /\ "II" \in Chain /\ "I" # "II"
          /\ S \in Participant /\ R \in Participant
          /\ snI \in Serial /\ snII \in Serial /\ T1 \in Nat /\ T2 \in Nat
      BY ExchangeAssumption
      DEF SwapInv, ExchangeAssumption, Chain, Participant, Serial
    <2>2. SUnlocks(i)
      <3>1. CASE \E v \in Values : SLocks(v)
        BY <2>1, <3>1, LockEffects DEF SLocks
      <3>2. CASE \E v \in Values : RLocks(v)
        BY <2>1, <3>2, LockEffects DEF RLocks
      <3>3. CASE \E j \in DOMAIN locks["II"] : SUnlocks(j)
        <4>1. PICK j \in DOMAIN locks["II"] : SUnlocks(j)
          BY <3>3
        <4>2. Unlock("II", S, j, snII)
          BY <4>1 DEF SUnlocks
        <4>3. \A m \in DOMAIN locks["II"] \ {j} : locks'["II"][m] = locks["II"][m]
          BY <2>1, <4>2, UnlockEffects, ZenonT(30)
        <4>4. i = j
          BY <4>3
        <4> QED
          BY <4>1, <4>4
      <3>4. CASE \E j \in DOMAIN locks["I"] : RUnlocks(j)
        <4>1. PICK j \in DOMAIN locks["I"] : Unlock("I", R, j, snI)
          BY <3>4 DEF RUnlocks
        <4>2. \A e \in Chain \ {"I"} : locks'[e] = locks[e]
          BY <2>1, <4>1, UnlockEffects
        <4> QED
          BY <2>1, <4>2
      <3>5. CASE RefundBy("I", S)
        BY <2>1, <3>5, RefundEffects, ZenonT(30) DEF RefundBy
      <3>6. CASE RefundBy("II", R)
        <4>1. PICK j \in DOMAIN locks["II"] : Refund("II", R, j)
          BY <3>6 DEF RefundBy
        <4>2. /\ \A m \in DOMAIN locks["II"] \ {j} : locks'["II"][m] = locks["II"][m]
              /\ locks'["II"][j] = [locks["II"][j] EXCEPT !.isRefunded = TRUE]
          BY <2>1, <4>1, RefundEffects
        <4>3. locks["II"][j] \in LockRecord
          BY <2>1 DEF SwapTypes
        <4>4. locks'["II"][j].isUnlocked = locks["II"][j].isUnlocked
          BY <4>2, <4>3 DEF LockRecord
        <4> QED
          BY <4>2, <4>4
      <3>7. CASE \E c \in Chain, v \in Values : Receive(c, v)
        BY <3>7 DEF Receive
      <3>8. CASE \E c \in Chain : SetVerifyingKeys(c)
        BY <3>8 DEF SetVerifyingKeys
      <3>9. CASE Tick
        BY <3>9 DEF Tick
      <3> QED
        BY <3>1, <3>2, <3>3, <3>4, <3>5, <3>6, <3>7, <3>8, <3>9 DEF ExchangeNext
    <2>3. Unlock("II", S, i, snII)
      BY <2>2 DEF SUnlocks
    <2>4. snII \notin usedSerialNumbers["II"] /\ now <= locks["II"][i].timeLock
      BY <2>3 DEF Unlock, InTime
    <2>5. known'[R] = Serial
      BY <2>1, <2>3, UnlockEffects
    <2>6. \A k \in DOMAIN locks["I"] : ~locks["I"][k].isUnlocked
      BY <2>4 DEF SwapInv, RevealInv
    <2>7. PICK k \in DOMAIN locks["I"] :
             /\ locks["II"][i].timeLock < locks["I"][k].timeLock
             /\ locks["I"][k].isRefunded => now > locks["I"][k].timeLock
      BY DEF SwapInv, OutlivedInv
    <2>8. now \in Nat /\ locks["II"][i].timeLock \in Nat /\ locks["I"][k].timeLock \in Nat
      <3>1. locks["II"][i] \in LockRecord /\ locks["I"][k] \in LockRecord
        BY <2>1 DEF SwapTypes
      <3> QED
        BY <2>1, <3>1 DEF SwapTypes, LockRecord
    <2>9. now < locks["I"][k].timeLock /\ ~locks["I"][k].isRefunded
      BY <2>4, <2>7, <2>8
    <2> QED
      BY <2>1, <2>5, <2>6, <2>9 DEF Open
  <1> QED
    BY <1>1, SwapInvHolds, PTL DEF ExchangeSpec, ReceiverCanAnswer
=============================================================================
