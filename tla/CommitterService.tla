--------------------------- MODULE CommitterService ---------------------------
(***************************************************************************)
(* relay/committer.go: the service of one committer.  On every tick it     *)
(* walks over the ordinary chains, submits one TxCommit per block with     *)
(* transactions, waits for its receipt, and, as an intermediate node,      *)
(* sends one aggregated commit.  The position on every chain is kept in    *)
(* memory only.                                                            *)
(*                                                                         *)
(* External: the audit chain's node (the nonces of the account, its        *)
(* pending transactions, mining), and the ABI decoder of the contract.     *)
(***************************************************************************)
EXTENDS ChainBlocks, FiniteSets

CONSTANTS
    ChainOrder,        \* config.OrdinaryChains: the chains in a sequence
    Gateway,           \* chains with chain_type "permissioned" and a gateway
    TreeNodeID,        \* config.TreeNodeID, 0 for a leaf
    ChildCommitters,   \* number of config.ChildCommitters
    MaxPending,        \* pending transactions of one account that the node takes
    MaxErrors,         \* bound: failed RPC calls
    MaxLost,           \* bound: pending transactions the node drops
    MaxCrashes         \* bound: crashes of the service

ASSUME CommitterAssumption ==
    /\ ChainOrder \in Seq(Chain) /\ ChainOrder # <<>> /\ Gateway \subseteq Chain
    /\ {TreeNodeID, ChildCommitters, MaxPending, MaxErrors, MaxLost, MaxCrashes} \subseteq Nat

VARIABLES
    pc,             \* where the service is
    at,             \* index of the chain in the walk
    latest,         \* latestBlock of that chain when it was asked
    lastProcessed,  \* chain -> last processed block
    waiting,        \* place in the pool of the transaction WaitMined waits for, or 0
    receipt,        \* what has become of that transaction
    pool,           \* the account's pending transactions, by nonce, from its next nonce
    committed,      \* <<chain, block>> of the TxCommits with status 1
    errors, lost, crashes

walkVars == <<pc, at, latest>>
committerVars == <<walkVars, lastProcessed, waiting, receipt, pool, committed, errors,
                   lost, crashes>>

Commit(c, b) == [kind |-> "commit", chain |-> c, block |-> b]
Aggregate == [kind |-> "aggregate"]
Lost == [kind |-> "lost"]      \* a nonce whose transaction the node no longer has

Tx == {Commit(c, b) : c \in Chain, b \in 1 .. MaxBlocks} \cup {Aggregate}

\* chainClients: Start connects no RPC client to a chain behind a gateway.
HasClient(c) == c \notin Gateway

CommitterInit ==
    /\ pc = "down" /\ at = 1 /\ latest = 0
    /\ lastProcessed = [c \in Chain |-> 0]
    /\ waiting = 0 /\ receipt = "none"
    /\ pool = <<>> /\ committed = {}
    /\ errors = 0 /\ lost = 0 /\ crashes = 0

----------------------------------------------------------------------------
(* The audit chain as the service uses it: external. *)

\* encodeSubmitCommit appends the chain id and two roots, submitAggregatedCommitTx the
\* node id and the root; the proof (and the child roots) are left to a later version.
EncodedWords(kind) == IF kind = "commit" THEN 3 ELSE 2

\* The heads of the arguments of submitCommit and of submitAggregatedCommit: with fewer
\* words the contract's decoder reverts.
AbiWords == 3 + 2 + 4 + 2

Statuses(tx) == IF EncodedWords(tx.kind) >= AbiWords THEN {"ok", "reverted"} ELSE {"reverted"}

\* PendingNonceAt: the first nonce without a pending transaction.
PendingNonce ==
    IF \E i \in DOMAIN pool : pool[i] = Lost
    THEN CHOOSE i \in DOMAIN pool : pool[i] = Lost /\ \A j \in 1 .. i - 1 : pool[j] # Lost
    ELSE Len(pool) + 1

PoolWith(tx) == [i \in 1 .. Len(pool) + (IF PendingNonce > Len(pool) THEN 1 ELSE 0) |->
                    IF i = PendingNonce THEN tx ELSE pool[i]]

Mine ==
    /\ pool # <<>> /\ Head(pool) # Lost
    /\ \E status \in Statuses(Head(pool)) :
          /\ receipt' = IF waiting = 1 THEN status ELSE receipt
          /\ committed' = IF status = "ok" /\ Head(pool).kind = "commit"
                          THEN committed \cup {<<Head(pool).chain, Head(pool).block>>}
                          ELSE committed
    /\ pool' = Tail(pool)
    /\ waiting' = IF waiting > 0 THEN waiting - 1 ELSE 0
    /\ UNCHANGED <<walkVars, lastProcessed, errors, lost, crashes>>

\* The node drops a pending transaction (a restart, an eviction).
Lose(i) ==
    /\ lost < MaxLost
    /\ pool[i] # Lost
    /\ lost' = lost + 1
    /\ pool' = IF i = Len(pool) THEN SubSeq(pool, 1, i - 1) ELSE [pool EXCEPT ![i] = Lost]
    /\ waiting' = IF waiting = i THEN 0 ELSE waiting
    /\ receipt' = IF waiting = i THEN "never" ELSE receipt
    /\ UNCHANGED <<walkVars, lastProcessed, committed, errors, crashes>>

----------------------------------------------------------------------------
(* The service. *)

Current == ChainOrder[at]

\* After a chain comes the next one, then the tree node's part, then the next tick.
GoOn ==
    /\ latest' = 0
    /\ IF at < Len(ChainOrder) THEN pc' = "chain" /\ at' = at + 1
       ELSE pc' = (IF TreeNodeID > 0 THEN "tree" ELSE "idle") /\ at' = 1

\* Variant: a block that fails ends the walk over all chains.
BreakOff_Walk == pc' = "idle" /\ at' = 1 /\ latest' = 0

\* A block that fails ends the loop over the blocks of its chain.
BreakOff == GoOn

\* The block is done: the cursor moves, and the loop goes on up to latest.
BlockDone ==
    LET b == lastProcessed[Current] + 1
    IN  /\ lastProcessed' = [lastProcessed EXCEPT ![Current] = b]
        /\ IF b < latest THEN pc' = "block" /\ UNCHANGED <<at, latest>> ELSE GoOn

Memory(label) ==
    /\ pc' = label /\ at' = 1 /\ latest' = 0 /\ waiting' = 0 /\ receipt' = "none"
    /\ lastProcessed' = [c \in Chain |-> 0]

\* NewCommitter and the connecting part of Start.  A failed Dial ends the program.
Start ==
    /\ pc = "down"
    /\ Memory("idle")
    /\ UNCHANGED <<pool, committed, errors, lost, crashes>>

\* The process ends; what it sent stays with the audit chain's node.
Crash ==
    /\ pc # "down" /\ crashes < MaxCrashes
    /\ crashes' = crashes + 1
    /\ Memory("down")
    /\ UNCHANGED <<pool, committed, errors, lost>>

Tick ==
    /\ pc = "idle"
    /\ pc' = "chain"
    /\ UNCHANGED <<at, latest, lastProcessed, waiting, receipt, pool, committed, errors,
                   lost, crashes>>

\* processNewBlocks asks a chain for its latest block.
ScanChain ==
    /\ pc = "chain"
    /\ IF HasClient(Current) /\ Height(Current) > lastProcessed[Current]
       THEN pc' = "block" /\ latest' = Height(Current) /\ UNCHANGED at
       ELSE GoOn
    /\ UNCHANGED <<lastProcessed, waiting, receipt, pool, committed, errors, lost, crashes>>

\* processBlock without transactions.
SkipEmptyBlock ==
    /\ pc = "block"
    /\ blocks[Current][lastProcessed[Current] + 1] = "empty"
    /\ BlockDone
    /\ UNCHANGED <<waiting, receipt, pool, committed, errors, lost, crashes>>

\* Variant: the commit is sent like an aggregated one, and its receipt not waited for.
WaitMined_Not == BreakOff /\ waiting' = 0

\* The service waits for the receipt, without a deadline.
WaitMined == pc' = "wait" /\ waiting' = PendingNonce /\ UNCHANGED <<at, latest>>

\* processBlock with transactions, up to WaitMined in submitCommit.
SendCommit ==
    LET b == lastProcessed[Current] + 1
    IN  /\ pc = "block"
        /\ blocks[Current][b] # "empty"
        /\ PendingNonce <= MaxPending
        /\ pool' = PoolWith(Commit(Current, b))
        /\ WaitMined
        /\ UNCHANGED <<lastProcessed, receipt, committed, errors, lost, crashes>>

\* The node's pool is full and SendTransaction fails.
RefusedCommit ==
    /\ pc = "block"
    /\ blocks[Current][lastProcessed[Current] + 1] # "empty"
    /\ PendingNonce > MaxPending
    /\ BreakOff
    /\ UNCHANGED <<lastProcessed, waiting, receipt, pool, committed, errors, lost, crashes>>

\* Variant: a receipt is enough, whatever its status.
Confirmed_Any == receipt \in {"ok", "reverted"}

Confirmed == receipt = "ok"

\* WaitMined returns; a reverted transaction is an error of processBlock.
GetReceipt ==
    /\ pc = "wait" /\ receipt \in {"ok", "reverted"}
    /\ receipt' = "none"
    /\ IF Confirmed THEN BlockDone ELSE BreakOff /\ UNCHANGED lastProcessed
    /\ UNCHANGED <<waiting, pool, committed, errors, lost, crashes>>

\* An RPC call fails: for the latest block, a block, its parent, the nonce or the gas
\* price, so that nothing is sent.
CallFails ==
    /\ pc \in {"chain", "block"} /\ errors < MaxErrors
    /\ pc = "chain" => HasClient(Current)
    /\ errors' = errors + 1
    /\ IF pc = "chain" THEN GoOn ELSE BreakOff
    /\ UNCHANGED <<lastProcessed, waiting, receipt, pool, committed, lost, crashes>>

\* The answer to SendTransaction is lost: the node has the transaction, the service has
\* an error.
SendAnswerLost ==
    LET b == lastProcessed[Current] + 1
    IN  /\ pc = "block" /\ errors < MaxErrors
        /\ blocks[Current][b] # "empty"
        /\ PendingNonce <= MaxPending
        /\ errors' = errors + 1
        /\ pool' = PoolWith(Commit(Current, b))
        /\ BreakOff
        /\ UNCHANGED <<lastProcessed, waiting, receipt, committed, lost, crashes>>

\* processAsIntermediateNode: the latest roots of the chains that answer and one per
\* child; the transaction is sent and its receipt is not waited for.  An error is logged.
AsIntermediateNode ==
    /\ pc = "tree"
    /\ pc' = "idle"
    /\ \E answered \in SUBSET {c \in Chain : HasClient(c)} :
          /\ errors' = IF answered = {c \in Chain : HasClient(c)} THEN errors ELSE errors + 1
          /\ errors' <= MaxErrors
          /\ pool' = IF Cardinality(answered) + ChildCommitters > 0 /\ PendingNonce <= MaxPending
                     THEN PoolWith(Aggregate) ELSE pool
    /\ UNCHANGED <<at, latest, lastProcessed, waiting, receipt, committed, lost, crashes>>

ServiceStep ==
    \/ Tick \/ ScanChain \/ SkipEmptyBlock \/ SendCommit \/ RefusedCommit \/ GetReceipt
    \/ CallFails \/ SendAnswerLost \/ AsIntermediateNode

CommitterNext ==
    /\ \/ Start \/ Crash \/ ServiceStep
       \/ Mine
       \/ \E i \in DOMAIN pool : Lose(i)
    /\ UNCHANGED blocks

\* The Go scheduler and the ticker run the service; the audit chain mines what it can.
CommitterFairness ==
    WF_<<committerVars, blocks>>(ServiceStep /\ UNCHANGED blocks)
    /\ WF_<<committerVars, blocks>>(Mine /\ UNCHANGED blocks)

----------------------------------------------------------------------------
(***************************************************************************)
(* Properties.                                                             *)
(***************************************************************************)

\* Type correctness of the service's memory and of the node's pool, which never keeps a
\* lost nonce at its end.
CommitterTypeOK ==
    /\ pc \in {"down", "idle", "chain", "block", "wait", "tree"}
    /\ at \in DOMAIN ChainOrder
    /\ latest \in 0 .. MaxBlocks
    /\ lastProcessed \in [Chain -> 0 .. MaxBlocks]
    /\ pool \in Seq(Tx \cup {Lost}) /\ Len(pool) <= MaxPending
    /\ waiting \in 0 .. Len(pool)
    /\ receipt \in {"none", "ok", "reverted", "never"}
    /\ committed \subseteq Chain \X (1 .. MaxBlocks)

\* No block with transactions is left behind: the cursor of a chain passes it only after
\* its TxCommit was confirmed, through errors, reverts, crashes and restarts.
NoBlockSkipped ==
    \A c \in Chain : \A b \in 1 .. lastProcessed[c] :
        blocks[c][b] = "empty" \/ <<c, b>> \in committed

\* The TxCommits of one block that are pending at the same time are at most one more
\* than the failures that made the service forget or resend it.
ResentOnlyAfterFailure ==
    \A i \in DOMAIN pool : pool[i].kind = "commit" =>
        Cardinality({j \in DOMAIN pool : pool[j] = pool[i]}) <= 1 + crashes + errors

\* The service waits for a receipt that will not come: its transaction, or one with a
\* smaller nonce, was dropped.
Stalled ==
    pc = "wait" /\ (receipt = "never" \/ \E i \in 1 .. waiting - 1 : pool[i] = Lost)

\* The blocks of a chain before its first one with transactions.
EmptyPrefix(c) ==
    CHOOSE n \in 0 .. Height(c) :
        /\ \A b \in 1 .. n : blocks[c][b] = "empty"
        /\ n < Height(c) => blocks[c][n + 1] # "empty"

\* A chain whose commits fail holds up no other chain: every chain with a client is
\* followed up to its first block with transactions again and again, unless the service
\* is down or waits for a transaction that was dropped.
ChainsFollowed ==
    \A c \in Chain : HasClient(c) =>
        []<>(pc = "down" \/ Stalled \/ lastProcessed[c] >= EmptyPrefix(c))
=============================================================================
