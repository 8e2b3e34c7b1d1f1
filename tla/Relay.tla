-------------------------------- MODULE Relay --------------------------------
(***************************************************************************)
(* relay/relay.js: the relay between one ordinary chain and the audit      *)
(* chain.  As a daemon it starts a poll every few seconds whether or not   *)
(* the one before has ended; polls interleave at every await and share     *)
(* lastProcessedBlock.  With --once it makes one pass from block 0.        *)
(***************************************************************************)
EXTENDS ChainBlocks, FiniteSets

CONSTANTS
    ChainA,     \* the chain the relay watches (1001)
    Poll        \* bound: polls that are in progress at the same time

ASSUME RelayAssumption == ChainA \in Chain

VARIABLES
    mode,                \* "down", "first" poll of the daemon, "daemon", or "once"
    lastProcessedBlock,
    startBlock,          \* lastProcessedBlock when this process began
    polls,               \* poll -> its progress through processRound
    covered              \* ranges of blocks whose commit the audit chain accepted

relayVars == <<mode, lastProcessedBlock, startBlock, polls, covered>>

NoPoll == [st |-> "none", currentBlock |-> 0, fromBlock |-> 0]

PollState == [st : {"none", "asked", "scan", "submit", "mined"},
              currentBlock : 0 .. MaxBlocks, fromBlock : 0 .. MaxBlocks]

RelayInit ==
    /\ mode = "down"
    /\ lastProcessedBlock = 0 /\ startBlock = 0
    /\ polls = [p \in Poll |-> NoPoll]
    /\ covered = {}

\* init() starts from the current block, runOnce() then from 0.
RelayStart(m) ==
    /\ mode = "down"
    /\ mode' = m
    /\ lastProcessedBlock' = (IF m = "once" THEN 0 ELSE Height(ChainA))
    /\ startBlock' = lastProcessedBlock'
    /\ UNCHANGED <<polls, covered>>

\* SIGINT, or the end of the process for any other reason.
RelayStop ==
    /\ mode # "down"
    /\ mode' = "down"
    /\ polls' = [p \in Poll |-> NoPoll]
    /\ UNCHANGED <<lastProcessedBlock, startBlock, covered>>

\* The poll is over: the first one lets setInterval begin, a single pass ends the process.
PollEnds(p) ==
    /\ polls' = [polls EXCEPT ![p] = NoPoll]
    /\ mode' = CASE mode = "once" -> "down" [] OTHER -> "daemon"

\* processRound up to its first await; in the daemon polls may overlap.
PollStart(p) ==
    /\ mode # "down"
    /\ polls[p] = NoPoll
    /\ mode # "daemon" => \A q \in Poll : polls[q] = NoPoll
    /\ polls' = [polls EXCEPT ![p] = [NoPoll EXCEPT !.st = "asked",
                                                    !.currentBlock = Height(ChainA)]]
    /\ UNCHANGED <<mode, lastProcessedBlock, startBlock, covered>>

\* The block number has arrived, and only now lastProcessedBlock is read.
PollRange(p) ==
    /\ polls[p].st = "asked"
    /\ IF polls[p].currentBlock <= lastProcessedBlock THEN PollEnds(p)
       ELSE /\ polls' = [polls EXCEPT ![p].st = "scan", ![p].fromBlock = lastProcessedBlock + 1]
            /\ UNCHANGED mode
    /\ UNCHANGED <<lastProcessedBlock, startBlock, covered>>

RangeOf(p) == polls[p].fromBlock .. polls[p].currentBlock

\* Variant: the events of the last block of the range are not looked at.
HasEvents_Short(p) ==
    \E b \in RangeOf(p) \ {polls[p].currentBlock} : blocks[ChainA][b] = "event"

\* scanChainA
HasEvents(p) == \E b \in RangeOf(p) : blocks[ChainA][b] = "event"

PollScan(p) ==
    /\ polls[p].st = "scan"
    /\ IF HasEvents(p)
       THEN polls' = [polls EXCEPT ![p].st = "submit"] /\ UNCHANGED <<mode, lastProcessedBlock>>
       ELSE PollEnds(p) /\ lastProcessedBlock' = polls[p].currentBlock
    /\ UNCHANGED <<startBlock, covered>>

\* The transaction is mined with status 1; the contract's side is in AuditClients.  The
\* old and new roots are random field elements.
PollAccepted(p) ==
    /\ polls[p].st = "submit"
    /\ polls' = [polls EXCEPT ![p].st = "mined"]
    /\ covered' = covered \cup {<<polls[p].fromBlock, polls[p].currentBlock>>}
    /\ UNCHANGED <<mode, lastProcessedBlock, startBlock>>

PollDone(p) ==
    /\ polls[p].st = "mined"
    /\ lastProcessedBlock' = polls[p].currentBlock
    /\ PollEnds(p)
    /\ UNCHANGED <<startBlock, covered>>

\* A call fails, or the contract rejects the commit: processRound throws, the daemon logs
\* it and keeps polling.
PollFails(p) ==
    /\ polls[p].st # "none"
    /\ PollEnds(p)
    /\ UNCHANGED <<lastProcessedBlock, startBlock, covered>>

PollStep(p) ==
    PollStart(p) \/ PollRange(p) \/ PollScan(p) \/ PollDone(p) \/ PollFails(p)

\* Everything but the accepted commit, which is a step of the contract too.
RelayNext ==
    /\ \/ \E m \in {"first", "once"} : RelayStart(m)
       \/ RelayStop
       \/ \E p \in Poll : PollStep(p)
    /\ UNCHANGED blocks

----------------------------------------------------------------------------
(***************************************************************************)
(* Properties.                                                             *)
(***************************************************************************)

\* Type correctness of the relay; no cursor is ahead of the chain.
RelayTypeOK ==
    /\ mode \in {"down", "first", "daemon", "once"}
    /\ lastProcessedBlock \in 0 .. Height(ChainA) /\ startBlock \in 0 .. Height(ChainA)
    /\ polls \in [Poll -> PollState]
    /\ covered \subseteq (1 .. Height(ChainA)) \X (1 .. Height(ChainA))
=============================================================================
