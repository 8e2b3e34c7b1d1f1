----------------------------- MODULE ChainBlocks -----------------------------
(***************************************************************************)
(* The blocks of the ordinary chains as the off-chain clients read them    *)
(* over RPC: their numbers and what is in them.  External to relay/: the   *)
(* nodes answer BlockNumber, BlockByNumber and event queries from them.    *)
(***************************************************************************)
EXTENDS Integers, Sequences

CONSTANTS
    Chain,      \* the ordinary chains
    BlockKind,  \* what a block may hold
    MaxBlocks   \* bound: blocks per chain

VARIABLE blocks   \* chain -> the blocks after genesis

\* A block without transactions, with transactions, or with a Burned or Locked event
\* (and so with transactions).
ASSUME BlockAssumption == BlockKind \subseteq {"empty", "txs", "event"} /\ MaxBlocks \in Nat

BlocksInit == blocks = [c \in Chain |-> <<>>]

Height(c) == Len(blocks[c])

NewBlock(c, kind) ==
    /\ Height(c) < MaxBlocks
    /\ blocks' = [blocks EXCEPT ![c] = Append(@, kind)]

=============================================================================
