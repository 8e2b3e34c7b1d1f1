------------------------------- MODULE AuditLog -------------------------------
(***************************************************************************)
(* What an audit contract promises to the ordinary chains, whoever submits *)
(* and audits: every chain has a latest audited root, set once when it is  *)
(* registered; it moves to a new root only with a proof of the transition  *)
(* from the root it has at that moment, and one step moves one chain.      *)
(***************************************************************************)
CONSTANTS
    ChainId,
    Root, NoRoot,   \* state roots, and the root of a chain that is not registered
    InitialRoots,   \* the roots chains are registered with
    Provable        \* pairs of roots for which a proof exists

VARIABLES
    latest,         \* chain -> latest audited root
    unproven        \* proofs are no longer asked for

LogInit == latest = [c \in ChainId |-> NoRoot] /\ unproven = FALSE

Register(c, r) ==
    /\ latest[c] = NoRoot
    /\ latest' = [latest EXCEPT ![c] = r]
    /\ UNCHANGED unproven

Advance(c, r) ==
    /\ latest[c] # NoRoot
    /\ <<latest[c], r>> \in Provable
    /\ latest' = [latest EXCEPT ![c] = r]
    /\ UNCHANGED unproven

\* For tests: from here on nothing is promised but that this stays known.
DropProofs ==
    /\ unproven' = TRUE
    /\ UNCHANGED latest

Anything == unproven /\ unproven'

LogNext ==
    \/ \E c \in ChainId, r \in InitialRoots : Register(c, r)
    \/ \E c \in ChainId, r \in Root : Advance(c, r)
    \/ DropProofs
    \/ Anything

LogSpec == LogInit /\ [][LogNext]_<<latest, unproven>>
=============================================================================
