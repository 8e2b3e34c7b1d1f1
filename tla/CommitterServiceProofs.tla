------------------------ MODULE CommitterServiceProofs ------------------------
(***************************************************************************)
(* The committer service leaves no block behind: its own steps keep the    *)
(* invariant CommInv.  The cursor of a chain passes a block with           *)
(* transactions when its receipt is "ok"; for that to mean the block's own *)
(* TxCommit, the place WaitMined waits for must hold it while other        *)
(* transactions of the account are mined, lost and replaced.               *)
(***************************************************************************)
EXTENDS CommitterService, WellFoundedInduction, TLAPS

\* Every non-empty set of naturals has a least element.
LEMMA LeastNat ==
    ASSUME NEW T \in SUBSET Nat, T # {}
    PROVE  \E x \in T : \A y \in T : x <= y
  <1> DEFINE R == OpToRel(<, Nat)
  <1>1. IsWellFoundedOn(R, Nat)
    BY NatLessThanWellFounded
  <1>2. PICK x \in T : \A y \in T : ~ (<<y, x>> \in R)
    <2> HIDE DEF R
    <2> QED BY <1>1, WFMin
  <1>3. \A y \in T : ~(y < x)
    BY <1>2 DEF OpToRel
  <1> QED
    BY <1>3

----------------------------------------------------------------------------
PoolEntry == {Commit(c, b) : c \in Chain, b \in Nat} \cup {Aggregate, Lost}

NextBlock == lastProcessed[Current] + 1

CommTypes ==
    /\ blocks \in [Chain -> Seq(BlockKind)]
    /\ pc \in {"down", "idle", "chain", "block", "wait", "tree"}
    /\ at \in DOMAIN ChainOrder
    /\ latest \in Nat /\ waiting \in Nat
    /\ lastProcessed \in [Chain -> Nat]
    /\ receipt \in {"none", "ok", "reverted", "never"}
    /\ pool \in Seq(PoolEntry)

\* The walk stays within the blocks that exist.
WalkInv ==
    /\ \A c \in Chain : lastProcessed[c] <= Height(c)
    /\ pc \in {"block", "wait"} => NextBlock <= latest /\ latest <= Height(Current)

\* WaitMined waits for the TxCommit of the next block of the current chain.
WaitInv ==
    /\ waiting > 0 => /\ pc = "wait" /\ receipt = "none"
                      /\ waiting <= Len(pool)
                      /\ pool[waiting] = Commit(Current, NextBlock)
    /\ receipt # "none" => pc = "wait"
    /\ receipt = "ok" => <<Current, NextBlock>> \in committed

CommInv == CommTypes /\ WalkInv /\ WaitInv /\ NoBlockSkipped

\* The current chain is a chain.
LEMMA CurrentChain == ASSUME CommTypes PROVE Current \in Chain
  BY CommitterAssumption DEF CommTypes, Current

\* A transaction that is sent takes the place of the first missing nonce.
LEMMA Sent ==
    ASSUME CommTypes, NEW tx \in PoolEntry
    PROVE  /\ PendingNonce \in Nat \ {0}
           /\ PoolWith(tx) \in Seq(PoolEntry)
           /\ PendingNonce <= Len(PoolWith(tx))
           /\ PoolWith(tx)[PendingNonce] = tx
  <1>1. PendingNonce \in 1 .. Len(pool) + 1
    <2>1. CASE \E i \in DOMAIN pool : pool[i] = Lost
      <3> DEFINE T == {i \in DOMAIN pool : pool[i] = Lost}
      <3>1. T \in SUBSET Nat /\ T # {}
        BY <2>1 DEF CommTypes
      <3>2. PICK i \in T : \A j \in T : i <= j
        BY <3>1, LeastNat
      <3>3. i \in DOMAIN pool /\ pool[i] = Lost /\ \A j \in 1 .. i - 1 : pool[j] # Lost
        BY <3>2 DEF CommTypes
      <3>4. PendingNonce \in DOMAIN pool
        BY <2>1, <3>3 DEF PendingNonce
      <3> QED
        BY <3>4 DEF CommTypes
    <2>2. CASE ~ \E i \in DOMAIN pool : pool[i] = Lost
      BY <2>2 DEF PendingNonce, CommTypes
    <2> QED
      BY <2>1, <2>2
  <1> DEFINE n == Len(pool) + (IF PendingNonce > Len(pool) THEN 1 ELSE 0)
  <1>2. n \in Nat /\ PendingNonce \in 1 .. n
    BY <1>1 DEF CommTypes
  <1>3. \A i \in 1 .. n : i = PendingNonce \/ i \in 1 .. Len(pool)
    BY <1>1 DEF CommTypes
  <1>4. PoolWith(tx) = [i \in 1 .. n |-> IF i = PendingNonce THEN tx ELSE pool[i]]
    BY DEF PoolWith
  <1> HIDE DEF n
  <1>5. PoolWith(tx) \in [1 .. n -> PoolEntry]
    BY <1>3, <1>4 DEF CommTypes
  <1>6. PoolWith(tx) \in Seq(PoolEntry) /\ Len(PoolWith(tx)) = n
    BY <1>2, <1>5
  <1> QED
    BY <1>1, <1>2, <1>4, <1>6

\* Where the walk goes after a chain.
LEMMA Onwards ==
    ASSUME CommTypes, GoOn
    PROVE  pc' \in {"idle", "chain", "tree"} /\ at' \in DOMAIN ChainOrder /\ latest' \in Nat
  BY CommitterAssumption, SMTT(30) DEF CommTypes, GoOn

\* Steps of the service between blocks, which at most send a transaction.
LEMMA BetweenBlocks ==
    ASSUME CommInv, pc # "wait",
           UNCHANGED <<blocks, lastProcessed, waiting, receipt, committed>>,
           pool' \in Seq(PoolEntry),
           pc' \in {"idle", "chain", "tree"}, at' \in DOMAIN ChainOrder, latest' \in Nat
    PROVE  CommInv'
  <1>1. CommTypes'
    BY DEF CommInv, CommTypes
  <1>2. waiting = 0 /\ receipt = "none"
    BY DEF CommInv, WaitInv, CommTypes
  <1>3. WaitInv'
    BY <1>2 DEF WaitInv
  <1>4. WalkInv'
    BY DEF CommInv, WalkInv, Height
  <1>5. NoBlockSkipped'
    BY DEF CommInv, NoBlockSkipped
  <1> QED
    BY <1>1, <1>3, <1>4, <1>5 DEF CommInv

\* The cursor moves over a block that is empty or whose TxCommit is confirmed.
LEMMA CursorMoves ==
    ASSUME CommInv, pc \in {"block", "wait"}, BlockDone,
           waiting = 0, receipt' = "none",
           UNCHANGED <<blocks, waiting, pool, committed>>,
           blocks[Current][NextBlock] = "empty" \/ <<Current, NextBlock>> \in committed
    PROVE  CommInv'
  <1>0. Current \in Chain
    BY CurrentChain DEF CommInv
  <1>1. /\ lastProcessed' = [lastProcessed EXCEPT ![Current] = NextBlock]
        /\ \/ NextBlock < latest /\ pc' = "block" /\ UNCHANGED <<at, latest>>
           \/ GoOn
    BY DEF BlockDone, NextBlock
  <1>2. /\ lastProcessed \in [Chain -> Nat] /\ latest \in Nat /\ Height(Current) \in Nat
        /\ NextBlock \in Nat
    BY <1>0 DEF CommInv, CommTypes, Height, NextBlock
  <1>3. NextBlock <= Height(Current)
    BY <1>2 DEF CommInv, WalkInv
  <1>4. CommTypes'
    BY <1>0, <1>1, <1>2, Onwards DEF CommInv, CommTypes
  <1>5. WaitInv'
    BY DEF WaitInv
  <1>6. WalkInv'
    <2>1. \A c \in Chain : lastProcessed'[c] <= Height(c)'
      BY <1>0, <1>1, <1>2, <1>3 DEF CommInv, WalkInv, Height
    <2>2. CASE NextBlock < latest /\ pc' = "block" /\ UNCHANGED <<at, latest>>
      <3>1. NextBlock' = NextBlock + 1 /\ Current' = Current
        BY <1>0, <1>1, <1>2, <2>2 DEF NextBlock, Current
      <3> QED
        BY <1>2, <2>1, <2>2, <3>1 DEF CommInv, WalkInv, Height
    <2>3. CASE GoOn
      BY <2>1, <2>3, Onwards DEF CommInv, WalkInv
    <2> QED
      BY <1>1, <2>2, <2>3
  <1>7. NoBlockSkipped'
    <2> SUFFICES ASSUME NEW c \in Chain, NEW b \in 1 .. lastProcessed'[c]
                 PROVE  blocks[c][b] = "empty" \/ <<c, b>> \in committed
      BY DEF NoBlockSkipped
    <2>1. b \in 1 .. lastProcessed[c] \/ (c = Current /\ b = NextBlock)
      BY <1>0, <1>1, <1>2 DEF NextBlock
    <2> QED
      BY <2>1 DEF CommInv, NoBlockSkipped
  <1> QED
    BY <1>4, <1>5, <1>6, <1>7 DEF CommInv

\* Mining keeps WaitMined on its transaction, and an "ok" receipt is that of its block.
LEMMA MineKeeps == ASSUME CommInv, Mine, UNCHANGED blocks PROVE CommInv'
  <1>1. PICK status \in Statuses(Head(pool)) :
           /\ receipt' = IF waiting = 1 THEN status ELSE receipt
           /\ committed' = IF status = "ok" /\ Head(pool).kind = "commit"
                           THEN committed \cup {<<Head(pool).chain, Head(pool).block>>}
                           ELSE committed
    BY DEF Mine
  <1>2. /\ pool # <<>> /\ pool' = Tail(pool)
        /\ waiting' = IF waiting > 0 THEN waiting - 1 ELSE 0
        /\ UNCHANGED <<pc, at, latest, lastProcessed>>
    BY DEF Mine, walkVars
  <1>3. status \in {"ok", "reverted"}
    BY <1>1 DEF Statuses
  <1>4. pool \in Seq(PoolEntry) /\ waiting \in Nat
    BY DEF CommInv, CommTypes
  <1>5. Current' = Current /\ NextBlock' = NextBlock
    BY <1>2 DEF Current, NextBlock
  <1>6. CommTypes'
    BY <1>1, <1>2, <1>3, <1>4 DEF CommInv, CommTypes
  <1>7. WalkInv'
    BY <1>2, <1>5 DEF CommInv, WalkInv, Height
  <1>8. committed \subseteq committed'
    BY <1>1
  <1>9. NoBlockSkipped'
    BY <1>2, <1>8 DEF CommInv, NoBlockSkipped
  <1>10. WaitInv'
    <2>1. CASE waiting = 0
      BY <1>1, <1>2, <1>5, <1>8, <2>1 DEF CommInv, WaitInv
    <2>2. CASE waiting = 1
      <3>1. pc = "wait" /\ Head(pool) = Commit(Current, NextBlock)
        BY <1>4, <2>2 DEF CommInv, WaitInv
      <3>2. /\ Head(pool).kind = "commit" /\ Head(pool).chain = Current
            /\ Head(pool).block = NextBlock
        BY <3>1 DEF Commit
      <3> QED
        BY <1>1, <1>2, <1>5, <2>2, <3>1, <3>2 DEF WaitInv
    <2>3. CASE waiting > 1
      <3>1. /\ pc = "wait" /\ receipt = "none" /\ waiting <= Len(pool)
            /\ pool[waiting] = Commit(Current, NextBlock)
        BY <1>4, <2>3 DEF CommInv, WaitInv
      <3>2. /\ Len(Tail(pool)) = Len(pool) - 1
            /\ Tail(pool)[waiting - 1] = pool[waiting]
        BY <1>2, <1>4, <2>3, <3>1
      <3> QED
        BY <1>1, <1>2, <1>4, <1>5, <2>3, <3>1, <3>2 DEF WaitInv
    <2> QED
      BY <1>4, <2>1, <2>2, <2>3
  <1> QED
    BY <1>6, <1>7, <1>9, <1>10 DEF CommInv

\* A transaction that the node drops: WaitMined waits for ever, or not for that one.
LEMMA LoseKeeps ==
    ASSUME CommInv, NEW i \in DOMAIN pool, Lose(i), UNCHANGED blocks
    PROVE  CommInv'
  <1>1. /\ pool' = IF i = Len(pool) THEN SubSeq(pool, 1, i - 1) ELSE [pool EXCEPT ![i] = Lost]
        /\ waiting' = IF waiting = i THEN 0 ELSE waiting
        /\ receipt' = IF waiting = i THEN "never" ELSE receipt
        /\ UNCHANGED <<pc, at, latest, lastProcessed, committed>>
    BY DEF Lose, walkVars
  <1>2. pool \in Seq(PoolEntry) /\ waiting \in Nat /\ i \in 1 .. Len(pool)
    BY DEF CommInv, CommTypes
  <1>3. Current' = Current /\ NextBlock' = NextBlock
    BY <1>1 DEF Current, NextBlock
  <1>4. pool' \in Seq(PoolEntry)
    BY <1>1, <1>2 DEF PoolEntry
  <1>5. CommTypes'
    BY <1>1, <1>2, <1>4 DEF CommInv, CommTypes
  <1>6. WalkInv'
    BY <1>1, <1>3 DEF CommInv, WalkInv, Height
  <1>7. NoBlockSkipped'
    BY <1>1 DEF CommInv, NoBlockSkipped
  <1>8. WaitInv'
    <2>1. CASE waiting = i
      BY <1>1, <1>2, <2>1 DEF CommInv, WaitInv
    <2>2. CASE waiting # i /\ waiting > 0
      <3>1. waiting <= Len(pool) /\ pool[waiting] = Commit(Current, NextBlock)
        BY <2>2 DEF CommInv, WaitInv
      <3>2. waiting <= Len(pool') /\ pool'[waiting] = pool[waiting]
        BY <1>1, <1>2, <2>2, <3>1
      <3> QED
        BY <1>1, <1>3, <2>2, <3>1, <3>2 DEF CommInv, WaitInv
    <2>3. CASE waiting # i /\ waiting = 0
      BY <1>1, <1>3, <2>3 DEF CommInv, WaitInv
    <2> QED
      BY <1>2, <2>1, <2>2, <2>3
  <1> QED
    BY <1>5, <1>6, <1>7, <1>8 DEF CommInv

\* A start or a crash forgets every cursor, and nothing is behind a cursor at 0.
LEMMA MemoryKeeps ==
    ASSUME CommInv, NEW label \in {"down", "idle"}, Memory(label),
           UNCHANGED <<blocks, pool, committed>>
    PROVE  CommInv'
  <1>1. \A c \in Chain : Height(c)' \in Nat
    BY DEF CommInv, CommTypes, Height
  <1>2. CommTypes'
    BY CommitterAssumption, SMTT(30) DEF CommInv, CommTypes, Memory
  <1>3. WalkInv' /\ WaitInv'
    BY <1>1 DEF WalkInv, WaitInv, Memory
  <1>4. NoBlockSkipped'
    BY DEF NoBlockSkipped, Memory
  <1> QED
    BY <1>2, <1>3, <1>4 DEF CommInv

\* SendCommit puts the TxCommit of the next block where WaitMined looks for it.
LEMMA SendKeeps == ASSUME CommInv, SendCommit, UNCHANGED blocks PROVE CommInv'
  <1>0. Current \in Chain /\ NextBlock \in Nat
    BY CurrentChain DEF CommInv, CommTypes, NextBlock
  <1> DEFINE tx == Commit(Current, NextBlock)
  <1>1. tx \in PoolEntry
    BY <1>0 DEF PoolEntry
  <1>2. /\ pc = "block" /\ pc' = "wait"
        /\ pool' = PoolWith(tx) /\ waiting' = PendingNonce
        /\ UNCHANGED <<at, latest, lastProcessed, receipt, committed>>
    BY DEF SendCommit, WaitMined, NextBlock
  <1>3. /\ PendingNonce \in Nat \ {0} /\ PoolWith(tx) \in Seq(PoolEntry)
        /\ PendingNonce <= Len(PoolWith(tx)) /\ PoolWith(tx)[PendingNonce] = tx
    BY <1>1, Sent DEF CommInv
  <1>4. Current' = Current /\ NextBlock' = NextBlock /\ tx' = tx
    BY <1>2 DEF Current, NextBlock
  <1>5. receipt = "none"
    BY <1>2 DEF CommInv, WaitInv
  <1>6. CommTypes'
    BY <1>2, <1>3 DEF CommInv, CommTypes
  <1>7. WalkInv'
    BY <1>2, <1>4 DEF CommInv, WalkInv, Height
  <1>8. WaitInv'
    BY <1>2, <1>3, <1>4, <1>5 DEF WaitInv
  <1>9. NoBlockSkipped'
    BY <1>2 DEF CommInv, NoBlockSkipped
  <1> QED
    BY <1>6, <1>7, <1>8, <1>9 DEF CommInv

\* The service's own steps.
LEMMA ServiceKeeps == ASSUME CommInv, ServiceStep, UNCHANGED blocks PROVE CommInv'
  <1>0. CommTypes /\ pool \in Seq(PoolEntry) /\ Current \in Chain
    BY CurrentChain DEF CommInv, CommTypes
  <1>1. CASE Tick
    BY <1>0, <1>1, BetweenBlocks DEF Tick, CommTypes
  <1>2. CASE ScanChain
    <2>1. CASE HasClient(Current) /\ Height(Current) > lastProcessed[Current]
      <3>1. /\ pc = "chain" /\ pc' = "block" /\ latest' = Height(Current)
            /\ UNCHANGED <<at, lastProcessed, waiting, receipt, pool, committed>>
        BY <1>2, <2>1 DEF ScanChain
      <3>2. Current' = Current /\ NextBlock' = NextBlock
        BY <3>1 DEF Current, NextBlock
      <3>3. Height(Current) \in Nat /\ lastProcessed[Current] \in Nat
        BY <1>0 DEF CommTypes, Height
      <3>4. waiting = 0 /\ receipt = "none"
        BY <3>1 DEF CommInv, WaitInv, CommTypes
      <3>5. CommTypes'
        BY <3>1, <3>3 DEF CommInv, CommTypes
      <3>6. WalkInv'
        BY <2>1, <3>1, <3>2, <3>3 DEF CommInv, WalkInv, Height, NextBlock
      <3>7. WaitInv' /\ NoBlockSkipped'
        BY <3>1, <3>4 DEF CommInv, WaitInv, NoBlockSkipped
      <3> QED
        BY <3>5, <3>6, <3>7 DEF CommInv
    <2>2. CASE ~(HasClient(Current) /\ Height(Current) > lastProcessed[Current])
      BY <1>0, <1>2, <2>2, Onwards, BetweenBlocks DEF ScanChain
    <2> QED
      BY <2>1, <2>2
  <1>3. CASE SkipEmptyBlock
    <2>1. waiting = 0 /\ receipt = "none"
      BY <1>3 DEF SkipEmptyBlock, CommInv, WaitInv, CommTypes
    <2> QED
      BY <1>3, <2>1, CursorMoves DEF SkipEmptyBlock, NextBlock
  <1>4. CASE SendCommit
    BY <1>4, SendKeeps
  <1>5. CASE RefusedCommit
    BY <1>0, <1>5, Onwards, BetweenBlocks DEF RefusedCommit, BreakOff
  <1>6. CASE GetReceipt
    <2>1. waiting = 0 /\ pc = "wait" /\ receipt' = "none"
          /\ UNCHANGED <<waiting, pool, committed>>
      BY <1>6 DEF GetReceipt, CommInv, WaitInv, CommTypes
    <2>2. CASE receipt = "ok"
      BY <1>6, <2>1, <2>2, CursorMoves DEF GetReceipt, Confirmed, CommInv, WaitInv
    <2>3. CASE receipt # "ok"
      <3>1. GoOn /\ UNCHANGED lastProcessed
        BY <1>6, <2>3 DEF GetReceipt, Confirmed, BreakOff
      <3>2. /\ pc' \in {"idle", "chain", "tree"} /\ at' \in DOMAIN ChainOrder
            /\ latest' \in Nat
        BY <1>0, <3>1, Onwards
      <3>3. CommTypes'
        BY <2>1, <3>1, <3>2 DEF CommInv, CommTypes
      <3>4. WalkInv' /\ WaitInv' /\ NoBlockSkipped'
        BY <2>1, <3>1, <3>2 DEF CommInv, WalkInv, WaitInv, NoBlockSkipped, Height
      <3> QED
        BY <3>3, <3>4 DEF CommInv
    <2> QED
      BY <2>2, <2>3
  <1>7. CASE CallFails
    <2>1. GoOn
      BY <1>7 DEF CallFails, BreakOff
    <2> QED
      BY <1>0, <1>7, <2>1, Onwards, BetweenBlocks DEF CallFails
  <1>8. CASE SendAnswerLost
    <2>1. Commit(Current, lastProcessed[Current] + 1) \in PoolEntry
      <3>1. lastProcessed[Current] + 1 \in Nat
        BY <1>0 DEF CommTypes
      <3> QED
        BY <1>0, <3>1 DEF PoolEntry
    <2>2. pool' \in Seq(PoolEntry)
      BY <1>0, <1>8, <2>1, Sent DEF SendAnswerLost
    <2> QED
      BY <1>0, <1>8, <2>2, Onwards, BetweenBlocks DEF SendAnswerLost, BreakOff
  <1>9. CASE AsIntermediateNode
    <2>1. Aggregate \in PoolEntry
      BY DEF PoolEntry
    <2>2. pool' = PoolWith(Aggregate) \/ pool' = pool
      BY <1>9 DEF AsIntermediateNode
    <2>3. pool' \in Seq(PoolEntry)
      BY <1>0, <2>1, <2>2, Sent
    <2> QED
      BY <1>0, <1>9, <2>3, BetweenBlocks DEF AsIntermediateNode, CommTypes
  <1> QED
    BY <1>1, <1>2, <1>3, <1>4, <1>5, <1>6, <1>7, <1>8, <1>9 DEF ServiceStep

\* A new block is after every cursor.
LEMMA NewBlockKeeps ==
    ASSUME CommInv, NEW c \in Chain, NEW kind \in BlockKind, NewBlock(c, kind),
           UNCHANGED committerVars
    PROVE  CommInv'
  <1>0. CommTypes /\ Current \in Chain
    BY CurrentChain DEF CommInv
  <1>1. UNCHANGED <<pc, at, latest, lastProcessed, waiting, receipt, pool, committed>>
    BY DEF committerVars, walkVars
  <1>2. blocks' = [blocks EXCEPT ![c] = Append(@, kind)] /\ blocks \in [Chain -> Seq(BlockKind)]
    BY <1>0 DEF NewBlock, CommTypes
  <1>3. \A d \in Chain : /\ blocks'[d] \in Seq(BlockKind)
                         /\ Len(blocks[d]) \in Nat /\ Len(blocks'[d]) \in Nat
                         /\ Len(blocks[d]) <= Len(blocks'[d])
                         /\ \A b \in 1 .. Len(blocks[d]) : blocks'[d][b] = blocks[d][b]
    BY <1>2
  <1>4. CommTypes'
    BY <1>0, <1>1, <1>2, <1>3 DEF CommTypes
  <1>5. Current' = Current /\ NextBlock' = NextBlock /\ NextBlock \in Nat
    BY <1>0, <1>1 DEF Current, NextBlock, CommTypes
  <1>6. WalkInv'
    <2>1. \A d \in Chain : lastProcessed[d] <= Len(blocks'[d])
      BY <1>0, <1>3 DEF CommInv, WalkInv, Height, CommTypes
    <2>2. pc \in {"block", "wait"} => NextBlock <= latest /\ latest <= Len(blocks'[Current])
      BY <1>0, <1>3 DEF CommInv, WalkInv, Height, CommTypes
    <2> QED
      BY <1>1, <1>5, <2>1, <2>2 DEF WalkInv, Height
  <1>7. WaitInv'
    BY <1>1, <1>5 DEF CommInv, WaitInv
  <1>8. NoBlockSkipped'
    <2> SUFFICES ASSUME NEW d \in Chain, NEW b \in 1 .. lastProcessed[d]
                 PROVE  blocks'[d][b] = "empty" \/ <<d, b>> \in committed
      BY <1>1 DEF NoBlockSkipped
    <2>1. b \in 1 .. Len(blocks[d])
      BY <1>0, <1>3 DEF CommInv, WalkInv, Height, CommTypes
    <2> QED
      BY <1>3, <2>1 DEF CommInv, NoBlockSkipped
  <1> QED
    BY <1>4, <1>6, <1>7, <1>8 DEF CommInv

\* Steps of others leave the service alone.
LEMMA CommStutters ==
    ASSUME CommInv, UNCHANGED <<blocks, committerVars>>
    PROVE  CommInv'
  <1>1. UNCHANGED <<blocks, pc, at, latest, lastProcessed, waiting, receipt, pool, committed>>
    BY DEF committerVars, walkVars
  <1>2. CommTypes'
    BY <1>1 DEF CommInv, CommTypes
  <1>3. Current' = Current /\ NextBlock' = NextBlock
    BY <1>1 DEF Current, NextBlock
  <1>4. WalkInv' /\ WaitInv' /\ NoBlockSkipped'
    BY <1>1, <1>3 DEF CommInv, WalkInv, WaitInv, NoBlockSkipped, Height
  <1> QED
    BY <1>2, <1>4 DEF CommInv

\* Every step of the service and of the node it talks to keeps the invariant.
LEMMA CommitterNextKeeps == ASSUME CommInv, CommitterNext PROVE CommInv'
  <1>0. UNCHANGED blocks
    BY DEF CommitterNext
  <1>1. CASE Start
    BY <1>0, <1>1, MemoryKeeps DEF Start
  <1>2. CASE Crash
    BY <1>0, <1>2, MemoryKeeps DEF Crash
  <1>3. CASE ServiceStep
    BY <1>0, <1>3, ServiceKeeps
  <1>4. CASE Mine
    BY <1>0, <1>4, MineKeeps
  <1>5. CASE \E i \in DOMAIN pool : Lose(i)
    BY <1>0, <1>5, LoseKeeps
  <1> QED
    BY <1>1, <1>2, <1>3, <1>4, <1>5 DEF CommitterNext

\* Before its first start the service has passed no block.
LEMMA CommInitially == ASSUME BlocksInit, CommitterInit PROVE CommInv
  <1> USE DEF BlocksInit, CommitterInit
  <1>1. CommTypes
    BY CommitterAssumption DEF CommTypes, CommitterAssumption
  <1>2. WalkInv /\ WaitInv /\ NoBlockSkipped
    BY <1>1 DEF WalkInv, WaitInv, NoBlockSkipped, Height
  <1> QED
    BY <1>1, <1>2 DEF CommInv
=============================================================================
