------------------------------ MODULE RelayProofs ------------------------------
(***************************************************************************)
(* The relay leaves no event behind: its own steps keep the invariant      *)
(* RelayInv.  Polls overlap and finish in any order, so the cursor may go  *)
(* back and forth; what every poll carries is that the blocks before its   *)
(* range were covered when it read the cursor, and stay covered.           *)
(***************************************************************************)
EXTENDS Relay, TLAPS

Covered(n) ==
    \A b \in startBlock + 1 .. n :
        blocks[ChainA][b] = "event" => \E r \in covered : r[1] <= b /\ b <= r[2]

PollRecord == [st : {"none", "asked", "scan", "submit", "mined"},
               currentBlock : Nat, fromBlock : Nat]

RelayTypes ==
    /\ blocks \in [Chain -> Seq(BlockKind)]
    /\ lastProcessedBlock \in Nat /\ startBlock \in Nat
    /\ polls \in [Poll -> PollRecord]

\* A stopped relay has no polls, and a single pass has one.
ModeInv ==
    /\ mode = "down" => \A p \in Poll : polls[p].st = "none"
    /\ mode = "once" => \A p, q \in Poll : polls[p].st # "none" /\ polls[q].st # "none" => p = q

PollInv(p) ==
    /\ polls[p].currentBlock <= Height(ChainA)
    /\ polls[p].st \in {"scan", "submit", "mined"} =>
          /\ polls[p].fromBlock > 0 /\ polls[p].fromBlock <= polls[p].currentBlock
          /\ Covered(polls[p].fromBlock - 1)
    /\ polls[p].st = "mined" => <<polls[p].fromBlock, polls[p].currentBlock>> \in covered

RelayInv ==
    /\ RelayTypes /\ ModeInv
    /\ lastProcessedBlock <= Height(ChainA)
    /\ Covered(lastProcessedBlock)
    /\ \A p \in Poll : PollInv(p)

\* What is covered stays covered while the relay runs, however far the cursor goes.
LEMMA StaysCovered ==
    ASSUME UNCHANGED <<blocks, startBlock>>, covered \subseteq covered', NEW n, Covered(n)
    PROVE  \A b \in startBlock' + 1 .. n :
              blocks'[ChainA][b] = "event" => \E r \in covered' : r[1] <= b /\ b <= r[2]
  BY DEF Covered

\* A poll that ends takes nothing from the others.
LEMMA PollEndsKeeps ==
    ASSUME RelayInv, NEW p \in Poll, polls[p].st # "none", PollEnds(p),
           UNCHANGED <<blocks, startBlock, covered>>
    PROVE  ModeInv' /\ polls' \in [Poll -> PollRecord] /\ \A q \in Poll : PollInv(q)'
  <1>1. /\ polls' = [polls EXCEPT ![p] = NoPoll] /\ polls \in [Poll -> PollRecord]
        /\ NoPoll \in PollRecord
    BY DEF PollEnds, RelayInv, RelayTypes, PollRecord, NoPoll
  <1>2. polls' \in [Poll -> PollRecord] /\ polls'[p].st = "none"
        /\ \A q \in Poll \ {p} : polls'[q] = polls[q]
    BY <1>1 DEF NoPoll
  <1>3. mode' = IF mode = "once" THEN "down" ELSE "daemon"
    BY DEF PollEnds
  <1>4. ModeInv'
    BY <1>2, <1>3 DEF ModeInv, RelayInv
  <1>5. ASSUME NEW q \in Poll PROVE PollInv(q)'
    <2>1. CASE q = p
      <3>1. polls'[p].currentBlock = 0 /\ Height(ChainA) \in Nat /\ Height(ChainA)' = Height(ChainA)
        BY <1>1, RelayAssumption DEF NoPoll, Height, RelayInv, RelayTypes
      <3> QED
        BY <1>2, <2>1, <3>1 DEF PollInv
    <2>2. CASE q # p
      BY <1>2, <2>2 DEF RelayInv, PollInv, Covered, Height
    <2> QED
      BY <2>1, <2>2
  <1> QED
    BY <1>2, <1>4, <1>5

\* The heights and cursors the relay's steps compare are numbers.
LEMMA RelayNumbers ==
    ASSUME RelayInv
    PROVE  /\ Height(ChainA) \in Nat
           /\ \A p \in Poll : /\ polls[p] \in PollRecord
                              /\ polls[p].currentBlock \in Nat /\ polls[p].fromBlock \in Nat
  <1>1. \A p \in Poll : polls[p] \in PollRecord
    BY DEF RelayInv, RelayTypes
  <1>2. Height(ChainA) \in Nat
    BY RelayAssumption DEF RelayInv, RelayTypes, Height
  <1> QED
    BY <1>1, <1>2 DEF PollRecord

\* A relay that has just started has nothing to cover.
LEMMA NothingAfterItself == ASSUME NEW n \in Nat PROVE n + 1 .. n = {}
  OBVIOUS

\* init() and runOnce() put the cursor where the life of the process begins.
LEMMA RelayStartKeeps ==
    ASSUME RelayInv, NEW m \in {"first", "once"}, RelayStart(m), UNCHANGED blocks
    PROVE  RelayInv'
  <1>1. /\ UNCHANGED <<polls, covered, blocks>> /\ mode' = m
        /\ startBlock' = lastProcessedBlock'
        /\ lastProcessedBlock' \in Nat /\ lastProcessedBlock' <= Height(ChainA)
    BY RelayNumbers DEF RelayStart
  <1>2. \A p \in Poll : polls[p].st = "none"
    BY DEF RelayStart, RelayInv, ModeInv
  <1>3. RelayTypes' /\ ModeInv'
    BY <1>1, <1>2 DEF RelayInv, RelayTypes, ModeInv
  <1>4. Covered(lastProcessedBlock)'
    <2>1. lastProcessedBlock' + 1 .. lastProcessedBlock' = {}
      BY <1>1, NothingAfterItself
    <2> QED
      BY <1>1, <2>1 DEF Covered
  <1>5. \A p \in Poll : PollInv(p)'
    BY <1>1, <1>2 DEF RelayInv, PollInv, Height
  <1> QED
    BY <1>1, <1>3, <1>4, <1>5 DEF RelayInv, Height

\* The end of the process forgets its polls.
LEMMA RelayStopKeeps == ASSUME RelayInv, RelayStop, UNCHANGED blocks PROVE RelayInv'
  <1>1. /\ UNCHANGED <<lastProcessedBlock, startBlock, covered, blocks>> /\ mode' = "down"
        /\ polls' = [p \in Poll |-> NoPoll]
    BY DEF RelayStop
  <1>2. \A p \in Poll : polls'[p].st = "none" /\ polls'[p].currentBlock = 0
    BY <1>1 DEF NoPoll
  <1>3. NoPoll \in PollRecord
    BY DEF NoPoll, PollRecord
  <1>4. RelayTypes' /\ ModeInv'
    BY <1>1, <1>2, <1>3 DEF RelayInv, RelayTypes, ModeInv
  <1>5. \A p \in Poll : PollInv(p)'
    BY <1>1, <1>2, RelayNumbers DEF PollInv, Height
  <1> QED
    BY <1>1, <1>4, <1>5 DEF RelayInv, Covered, Height

\* A poll asks for the block number.
LEMMA PollStartKeeps ==
    ASSUME RelayInv, NEW p \in Poll, PollStart(p), UNCHANGED blocks
    PROVE  RelayInv'
  <1>1. UNCHANGED <<mode, lastProcessedBlock, startBlock, covered, blocks>> /\ mode # "down"
    BY DEF PollStart
  <1>2. /\ polls'[p] = [st |-> "asked", currentBlock |-> Height(ChainA), fromBlock |-> 0]
        /\ \A q \in Poll \ {p} : polls'[q] = polls[q]
        /\ polls' = [polls EXCEPT ![p] = polls'[p]]
    BY DEF PollStart, NoPoll, RelayInv, RelayTypes
  <1>3. polls'[p] \in PollRecord
    BY <1>2, RelayNumbers DEF PollRecord
  <1>4. RelayTypes'
    BY <1>1, <1>2, <1>3 DEF RelayInv, RelayTypes
  <1>5. ModeInv'
    <2>1. mode = "once" => \A q \in Poll : polls[q].st = "none"
      BY DEF PollStart, NoPoll
    <2> QED
      BY <1>1, <1>2, <2>1 DEF ModeInv
  <1>6. PollInv(p)'
    BY <1>1, <1>2, RelayNumbers DEF PollInv, Height
  <1>7. \A q \in Poll \ {p} : PollInv(q)'
    BY <1>1, <1>2 DEF RelayInv, PollInv, Covered, Height
  <1> QED
    BY <1>1, <1>4, <1>5, <1>6, <1>7 DEF RelayInv, Covered, Height

\* A poll fixes its range from the cursor it finds when the answer arrives.
LEMMA PollRangeKeeps ==
    ASSUME RelayInv, NEW p \in Poll, PollRange(p), UNCHANGED blocks
    PROVE  RelayInv'
  <1>1. UNCHANGED <<lastProcessedBlock, startBlock, covered, blocks>> /\ polls[p].st = "asked"
    BY DEF PollRange
  <1>2. CASE polls[p].currentBlock <= lastProcessedBlock
    <2>1. PollEnds(p)
      BY <1>2 DEF PollRange
    <2>2. ModeInv' /\ polls' \in [Poll -> PollRecord] /\ \A q \in Poll : PollInv(q)'
      BY <1>1, <2>1, PollEndsKeeps
    <2> QED
      BY <1>1, <2>2 DEF RelayInv, RelayTypes, Covered, Height
  <1>3. CASE ~ (polls[p].currentBlock <= lastProcessedBlock)
    <2>1. /\ UNCHANGED mode
          /\ polls' = [polls EXCEPT ![p].st = "scan", ![p].fromBlock = lastProcessedBlock + 1]
      BY <1>3 DEF PollRange
    <2>2. /\ polls' \in [Poll -> PollRecord]
          /\ polls'[p].st = "scan" /\ polls'[p].fromBlock = lastProcessedBlock + 1
          /\ polls'[p].currentBlock = polls[p].currentBlock
          /\ \A q \in Poll \ {p} : polls'[q] = polls[q]
      <3> DEFINE r == [polls[p] EXCEPT !.st = "scan", !.fromBlock = lastProcessedBlock + 1]
      <3>1. polls \in [Poll -> PollRecord] /\ polls[p] \in PollRecord /\ lastProcessedBlock + 1 \in Nat
        BY DEF RelayInv, RelayTypes
      <3>2. /\ r \in PollRecord /\ r.st = "scan" /\ r.fromBlock = lastProcessedBlock + 1
            /\ r.currentBlock = polls[p].currentBlock
        BY <3>1 DEF PollRecord
      <3>3. polls' = [polls EXCEPT ![p] = r]
        BY <2>1, <3>1 DEF PollRecord
      <3> QED
        BY <3>1, <3>2, <3>3
    <2>3. RelayTypes' /\ ModeInv'
      BY <1>1, <2>1, <2>2 DEF RelayInv, RelayTypes, ModeInv
    <2>4. PollInv(p)'
      <3>0. lastProcessedBlock \in Nat /\ polls[p].currentBlock \in Nat
            /\ polls[p].currentBlock <= Height(ChainA) /\ Height(ChainA)' = Height(ChainA)
        BY <1>1, RelayNumbers DEF RelayInv, RelayTypes, PollInv, Height
      <3>1. polls'[p].currentBlock <= Height(ChainA)' /\ polls'[p].fromBlock > 0
            /\ polls'[p].fromBlock <= polls'[p].currentBlock
        BY <1>3, <2>2, <3>0
      <3>2. polls'[p].fromBlock - 1 = lastProcessedBlock
        BY <2>2, <3>0
      <3>3. Covered(polls[p].fromBlock - 1)'
        BY <1>1, <3>2 DEF RelayInv, Covered
      <3> QED
        BY <2>2, <3>1, <3>3 DEF PollInv
    <2>5. \A q \in Poll \ {p} : PollInv(q)'
      BY <1>1, <2>2 DEF RelayInv, PollInv, Covered, Height
    <2> QED
      BY <1>1, <2>3, <2>4, <2>5 DEF RelayInv, Covered, Height
  <1> QED
    BY <1>2, <1>3

\* A poll whose status alone moves on, to one that asks no more of it than it has.
LEMMA StatusMoves ==
    ASSUME RelayInv, NEW p \in Poll, NEW st \in {"submit", "mined"},
           polls[p].st \in {"scan", "submit"},
           polls' = [polls EXCEPT ![p].st = st],
           covered \subseteq covered',
           st = "mined" => <<polls[p].fromBlock, polls[p].currentBlock>> \in covered',
           UNCHANGED <<blocks, mode, lastProcessedBlock, startBlock>>
    PROVE  RelayInv'
  <1>1. /\ polls' \in [Poll -> PollRecord]
        /\ polls'[p].st = st /\ polls'[p].fromBlock = polls[p].fromBlock
        /\ polls'[p].currentBlock = polls[p].currentBlock
        /\ \A q \in Poll \ {p} : polls'[q] = polls[q]
    <2> DEFINE r == [polls[p] EXCEPT !.st = st]
    <2>1. polls \in [Poll -> PollRecord] /\ polls[p] \in PollRecord
      BY DEF RelayInv, RelayTypes
    <2>2. /\ r \in PollRecord /\ r.st = st /\ r.fromBlock = polls[p].fromBlock
          /\ r.currentBlock = polls[p].currentBlock
      BY <2>1 DEF PollRecord
    <2>3. polls' = [polls EXCEPT ![p] = r]
      BY <2>1 DEF PollRecord
    <2> QED
      BY <2>1, <2>2, <2>3
  <1>2. RelayTypes'
    BY <1>1 DEF RelayInv, RelayTypes
  <1>3. ModeInv'
    BY <1>1 DEF RelayInv, ModeInv
  <1>4. \A n : Covered(n) => \A b \in startBlock' + 1 .. n :
            blocks'[ChainA][b] = "event" => \E r \in covered' : r[1] <= b /\ b <= r[2]
    BY StaysCovered
  <1>5. PollInv(p)'
    BY <1>1, <1>4 DEF RelayInv, PollInv, Covered, Height
  <1>6. \A q \in Poll \ {p} : PollInv(q)'
    BY <1>1, <1>4 DEF RelayInv, PollInv, Covered, Height
  <1>7. Covered(lastProcessedBlock)' /\ lastProcessedBlock' <= Height(ChainA)'
    BY <1>4 DEF RelayInv, Covered, Height
  <1> QED
    BY <1>2, <1>3, <1>5, <1>6, <1>7 DEF RelayInv

\* A poll that leaves the cursor at the end of a range without uncommitted events.
LEMMA CursorJumps ==
    ASSUME RelayInv, NEW p \in Poll, polls[p].st \in {"scan", "mined"}, PollEnds(p),
           lastProcessedBlock' = polls[p].currentBlock,
           \A b \in RangeOf(p) : blocks[ChainA][b] = "event" =>
               \E r \in covered : r[1] <= b /\ b <= r[2],
           UNCHANGED <<blocks, startBlock, covered>>
    PROVE  RelayInv'
  <1>1. ModeInv' /\ polls' \in [Poll -> PollRecord] /\ \A q \in Poll : PollInv(q)'
    BY PollEndsKeeps
  <1>2. /\ polls[p].currentBlock \in Nat /\ polls[p].fromBlock \in Nat /\ startBlock \in Nat
        /\ polls[p].currentBlock <= Height(ChainA)
        /\ Covered(polls[p].fromBlock - 1)
    BY RelayNumbers DEF RelayInv, RelayTypes, PollInv
  <1>3. RelayTypes' /\ lastProcessedBlock' <= Height(ChainA)'
    BY <1>1, <1>2 DEF RelayInv, RelayTypes, Height
  <1>4. Covered(lastProcessedBlock)'
    <2> SUFFICES ASSUME NEW b \in startBlock + 1 .. polls[p].currentBlock,
                        blocks[ChainA][b] = "event"
                 PROVE  \E r \in covered : r[1] <= b /\ b <= r[2]
      BY DEF Covered
    <2>1. CASE b < polls[p].fromBlock
      <3>1. b \in startBlock + 1 .. polls[p].fromBlock - 1
        BY <1>2, <2>1
      <3> QED
        BY <1>2, <3>1 DEF Covered
    <2>2. CASE ~ (b < polls[p].fromBlock)
      <3>1. b \in RangeOf(p)
        BY <1>2, <2>2 DEF RangeOf
      <3> QED
        BY <3>1
    <2> QED
      BY <2>1, <2>2
  <1> QED
    BY <1>1, <1>3, <1>4 DEF RelayInv

\* A range without events is covered as it is.
LEMMA PollScanKeeps ==
    ASSUME RelayInv, NEW p \in Poll, PollScan(p), UNCHANGED blocks
    PROVE  RelayInv'
  <1>1. CASE HasEvents(p)
    BY <1>1, StatusMoves DEF PollScan
  <1>2. CASE ~ HasEvents(p)
    BY <1>2, CursorJumps DEF PollScan, HasEvents
  <1> QED
    BY <1>1, <1>2

\* A mined commit moves the cursor to the end of its range.
LEMMA PollDoneKeeps ==
    ASSUME RelayInv, NEW p \in Poll, PollDone(p), UNCHANGED blocks
    PROVE  RelayInv'
  <1>1. /\ <<polls[p].fromBlock, polls[p].currentBlock>> \in covered
        /\ polls[p].currentBlock \in Nat /\ polls[p].fromBlock \in Nat
    BY RelayNumbers DEF PollDone, RelayInv, PollInv
  <1>2. \A b \in RangeOf(p) : \E r \in covered : r[1] <= b /\ b <= r[2]
    <2> SUFFICES ASSUME NEW b \in RangeOf(p) PROVE \E r \in covered : r[1] <= b /\ b <= r[2]
      OBVIOUS
    <2> DEFINE r == <<polls[p].fromBlock, polls[p].currentBlock>>
    <2>1. r[1] <= b /\ b <= r[2]
      BY <1>1 DEF RangeOf
    <2> QED
      BY <1>1, <2>1
  <1> QED
    BY <1>2, CursorJumps DEF PollDone

\* A poll that throws leaves the cursor alone.
LEMMA PollFailsKeeps ==
    ASSUME RelayInv, NEW p \in Poll, PollFails(p), UNCHANGED blocks
    PROVE  RelayInv'
  <1>1. ModeInv' /\ polls' \in [Poll -> PollRecord] /\ \A q \in Poll : PollInv(q)'
    BY PollEndsKeeps DEF PollFails
  <1> QED
    BY <1>1 DEF PollFails, RelayInv, RelayTypes, Covered, Height

\* New blocks are beyond everything the relay has looked at.
LEMMA BlockKeepsRelay ==
    ASSUME RelayInv, NEW c \in Chain, NEW kind \in BlockKind, NewBlock(c, kind),
           UNCHANGED relayVars
    PROVE  RelayInv'
  <1>1. UNCHANGED <<mode, lastProcessedBlock, startBlock, polls, covered>>
    BY DEF relayVars
  <1>2. blocks' = [blocks EXCEPT ![c] = Append(@, kind)] /\ blocks \in [Chain -> Seq(BlockKind)]
    BY DEF NewBlock, RelayInv, RelayTypes
  <1>3. /\ blocks' \in [Chain -> Seq(BlockKind)]
        /\ Height(ChainA) \in Nat /\ Height(ChainA)' \in Nat /\ Height(ChainA) <= Height(ChainA)'
        /\ \A b \in 1 .. Height(ChainA) : blocks'[ChainA][b] = blocks[ChainA][b]
    BY <1>2, RelayAssumption DEF Height
  <1>4. RelayTypes' /\ ModeInv'
    BY <1>1, <1>3 DEF RelayInv, RelayTypes, ModeInv
  <1>5. ASSUME NEW n \in Int, n <= Height(ChainA), Covered(n)
        PROVE  \A b \in startBlock' + 1 .. n :
                  blocks'[ChainA][b] = "event" => \E r \in covered' : r[1] <= b /\ b <= r[2]
    <2> SUFFICES ASSUME NEW b \in startBlock + 1 .. n, blocks'[ChainA][b] = "event"
                 PROVE  \E r \in covered : r[1] <= b /\ b <= r[2]
      BY <1>1
    <2>1. b \in 1 .. Height(ChainA)
      BY <1>3, <1>5 DEF RelayInv, RelayTypes
    <2> QED
      BY <1>3, <1>5, <2>1 DEF Covered
  <1>6. Covered(lastProcessedBlock)' /\ lastProcessedBlock' <= Height(ChainA)'
    BY <1>1, <1>3, <1>5 DEF RelayInv, RelayTypes, Covered
  <1>7. ASSUME NEW p \in Poll PROVE PollInv(p)'
    <2>1. polls[p].currentBlock \in Nat /\ polls[p].fromBlock \in Nat /\ PollInv(p)
      BY RelayNumbers DEF RelayInv
    <2>2. polls'[p].currentBlock <= Height(ChainA)'
      BY <1>1, <1>3, <2>1 DEF PollInv
    <2>3. polls[p].st \in {"scan", "submit", "mined"} => Covered(polls[p].fromBlock - 1)'
      <3>1. polls[p].st \in {"scan", "submit", "mined"} =>
                /\ polls[p].fromBlock - 1 \in Int /\ polls[p].fromBlock - 1 <= Height(ChainA)
                /\ Covered(polls[p].fromBlock - 1)
        BY <1>3, <2>1 DEF PollInv
      <3> QED
        BY <1>1, <1>5, <3>1 DEF Covered
    <2> QED
      BY <1>1, <2>1, <2>2, <2>3 DEF PollInv
  <1> QED
    BY <1>4, <1>6, <1>7 DEF RelayInv

\* The commit of a poll is accepted.
LEMMA PollAcceptedKeeps ==
    ASSUME RelayInv, NEW p \in Poll, PollAccepted(p), UNCHANGED blocks
    PROVE  RelayInv'
  <1>1. /\ polls[p].st = "submit" /\ polls' = [polls EXCEPT ![p].st = "mined"]
        /\ covered \subseteq covered'
        /\ <<polls[p].fromBlock, polls[p].currentBlock>> \in covered'
        /\ UNCHANGED <<mode, lastProcessedBlock, startBlock>>
    BY DEF PollAccepted
  <1> QED
    BY <1>1, StatusMoves

\* Steps of others leave the relay alone.
LEMMA RelayStutters == ASSUME RelayInv, UNCHANGED <<blocks, relayVars>> PROVE RelayInv'
  <1>1. UNCHANGED <<blocks, mode, lastProcessedBlock, startBlock, polls, covered>>
    BY DEF relayVars
  <1>2. RelayTypes' /\ ModeInv'
    BY <1>1 DEF RelayInv, RelayTypes, ModeInv
  <1>3. Covered(lastProcessedBlock)' /\ lastProcessedBlock' <= Height(ChainA)'
    BY <1>1 DEF RelayInv, Covered, Height
  <1>4. \A p \in Poll : PollInv(p)'
    BY <1>1 DEF RelayInv, PollInv, Covered, Height
  <1> QED
    BY <1>2, <1>3, <1>4 DEF RelayInv

\* The other steps of the relay, none of which covers anything.
LEMMA RelayNextKeeps == ASSUME RelayInv, RelayNext PROVE RelayInv' /\ UNCHANGED covered
  <1>0. UNCHANGED blocks
    BY DEF RelayNext
  <1>1. CASE \E m \in {"first", "once"} : RelayStart(m)
    BY <1>0, <1>1, RelayStartKeeps DEF RelayStart
  <1>2. CASE RelayStop
    BY <1>0, <1>2, RelayStopKeeps DEF RelayStop
  <1>3. ASSUME NEW p \in Poll, PollStep(p) PROVE RelayInv' /\ UNCHANGED covered
    <2>1. CASE PollStart(p)
      BY <1>0, <2>1, PollStartKeeps DEF PollStart
    <2>2. CASE PollRange(p)
      BY <1>0, <2>2, PollRangeKeeps DEF PollRange
    <2>3. CASE PollScan(p)
      BY <1>0, <2>3, PollScanKeeps DEF PollScan
    <2>4. CASE PollDone(p)
      BY <1>0, <2>4, PollDoneKeeps DEF PollDone
    <2>5. CASE PollFails(p)
      BY <1>0, <2>5, PollFailsKeeps DEF PollFails
    <2> QED
      BY <1>3, <2>1, <2>2, <2>3, <2>4, <2>5 DEF PollStep
  <1> QED
    BY <1>1, <1>2, <1>3 DEF RelayNext

\* Before its first start the relay has covered nothing and skipped nothing.
LEMMA RelayInitially == ASSUME BlocksInit, RelayInit PROVE RelayInv
  <1> USE DEF BlocksInit, RelayInit
  <1>1. Height(ChainA) = 0
    BY RelayAssumption DEF RelayAssumption, Height
  <1>2. NoPoll \in PollRecord /\ NoPoll.st = "none" /\ NoPoll.currentBlock = 0
    BY DEF NoPoll, PollRecord
  <1>3. RelayTypes /\ ModeInv
    BY <1>2 DEF RelayTypes, ModeInv
  <1>4. \A p \in Poll : PollInv(p)
    BY <1>1, <1>2 DEF PollInv
  <1>5. Covered(lastProcessedBlock)
    BY DEF Covered
  <1> QED
    BY <1>1, <1>3, <1>4, <1>5 DEF RelayInv
=============================================================================
