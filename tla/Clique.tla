-------------------------------- MODULE Clique --------------------------------
(***************************************************************************)
(* go-ethereum/consensus/clique: the proof-of-authority engine that the    *)
(* ordinary chains and the audit chain run.  One branch of headers as a    *)
(* verifying node sees it: a header is accepted against the snapshot of    *)
(* its parent (clique.go) and then applied to it (snapshot.go).            *)
(*                                                                         *)
(* Votes is a list in the code; no operation depends on its order, and the *)
(* block number of a vote is never read, so it is a set here.  Difficulty, *)
(* time and gas fields are fixed by, or independent of, this state.        *)
(***************************************************************************)
EXTENDS Integers, FiniteSets, FiniteSetsExt, Functions, TLC

CONSTANTS
    Account,         \* addresses that can sign
    ZeroAddress,     \* common.Address{}: can be voted on, cannot sign
    GenesisSigners,  \* the signer list in the extra-data of block 0
    Epoch,           \* config.Epoch, 30000 by default
    UINT,            \* 2^64
    MaxNumber        \* bound: length of the branch

Address == Account \cup {ZeroAddress}

ASSUME CliqueAssumption ==
    /\ ZeroAddress \notin Account
    /\ GenesisSigners \subseteq Account /\ GenesisSigners # {} /\ IsFiniteSet(GenesisSigners)
    /\ Epoch \in Nat \ {0}
    /\ MaxNumber \in Nat /\ UINT \in Nat /\ MaxNumber < UINT

VARIABLES
    number,      \* number of the head
    signers,     \* authorized signers after the head
    recents,     \* block number -> who sealed it, for the blocks that still count
    votes,       \* votes cast and not yet discarded
    tally,       \* address -> votes counted for changing its authorization
    lastSealed   \* signer -> the last block it sealed, 0 for none

cliqueVars == <<number, signers, recents, votes, tally, lastSealed>>

Vote == [signer : Account, address : Address, authorize : BOOLEAN]

\* What a header says to the engine: who sealed it, and the vote in its coinbase and nonce.
Header == [signer : Account, coinbase : Address, authorize : BOOLEAN]

Without(f, k) == Restrict(f, DOMAIN f \ {k})

Limit(signerSet) == Cardinality(signerSet) \div 2 + 1

CliqueInit ==
    /\ number = 0
    /\ signers = GenesisSigners
    /\ recents = <<>> /\ votes = {} /\ tally = <<>>
    /\ lastSealed = [a \in Account |-> 0]

----------------------------------------------------------------------------
(* Votes and their tally. *)

ValidVote(address, authorize) == (address \in signers) # authorize

Cast(t, address, authorize) ==
    IF address \in DOMAIN t THEN [t EXCEPT ![address].votes = @ + 1]
    ELSE address :> [authorize |-> authorize, votes |-> 1] @@ t

\* Variant: a vote that is replaced or discarded stays counted.
Uncast_Kept(v, t) == t

\* Variant: a tally that reaches zero stays listed.
Uncast_AtZero(v, t) ==
    IF v.address \notin DOMAIN t \/ t[v.address].authorize # v.authorize THEN t
    ELSE [t EXCEPT ![v.address].votes = @ - 1]

Uncast(v, t) ==
    IF v.address \notin DOMAIN t \/ t[v.address].authorize # v.authorize THEN t
    ELSE IF t[v.address].votes > 1 THEN [t EXCEPT ![v.address].votes = @ - 1]
    ELSE Without(t, v.address)

UncastAll(t, vs) == FoldSet(Uncast, t, vs)

\* Variant: half of the signers are enough.
Passed_Half(t, address) ==
    address \in DOMAIN t /\ t[address].votes >= Cardinality(signers) \div 2

Passed(t, address) ==
    address \in DOMAIN t /\ t[address].votes > Cardinality(signers) \div 2

----------------------------------------------------------------------------
(* Verification of a header against the snapshot of its parent. *)

Checkpoint(n) == n % Epoch = 0

\* verifyHeader: a checkpoint carries no vote (its signer list is the parent's).
VoteAllowed(n, h) == Checkpoint(n) => h.coinbase = ZeroAddress /\ ~h.authorize

\* Variant: the comparison is off by one, and a sealer waits one block too long.
ShiftedOut_Late(seen, n) == seen < (n - Limit(signers)) % UINT

\* Variant: off by one the other way.
ShiftedOut_Early(seen, n) == seen <= (n + 1 - Limit(signers)) % UINT

\* seen > number - limit is false: block n shifts the sealer of block seen out.
ShiftedOut(seen, n) == seen <= (n - Limit(signers)) % UINT

\* verifySeal: the sealer is authorized and has not sealed recently.
VerifySeal(n, s) ==
    /\ s \in signers
    /\ \A seen \in DOMAIN recents : recents[seen] = s => ShiftedOut(seen, n)

----------------------------------------------------------------------------
(* Snapshot.apply, for one header. *)

\* The recent list that apply compares the sealer with.
RecentsBefore(n) ==
    IF n >= Limit(signers) THEN Without(recents, n - Limit(signers)) ELSE recents

WithSeal(rs, n, s) == [b \in DOMAIN rs \cup {n} |-> IF b = n THEN s ELSE rs[b]]

Applicable(n, s) == s \in signers /\ s \notin Range(RecentsBefore(n))

\* Variant: a list that shrinks keeps the recent entry that no longer counts.
RecentsAfterDrop_Kept(rs, n, signerSet) == rs

\* The signer list shrunk: one more entry may have to go.
RecentsAfterDrop(rs, n, signerSet) ==
    IF n >= Limit(signerSet) THEN Without(rs, n - Limit(signerSet)) ELSE rs

VotesBefore(n) == IF Checkpoint(n) THEN {} ELSE votes

TallyBefore(n) == IF Checkpoint(n) THEN <<>> ELSE tally

AcceptHeader(h) ==
    LET n == number + 1
        a == h.coinbase
        replaced == {v \in VotesBefore(n) : v.signer = h.signer /\ v.address = a}
        vote == [signer |-> h.signer, address |-> a, authorize |-> h.authorize]
        valid == ValidVote(a, h.authorize)
        kept == VotesBefore(n) \ replaced
        uncast == UncastAll(TallyBefore(n), replaced)
        cast == IF valid THEN Cast(uncast, a, h.authorize) ELSE uncast
        listed == IF valid THEN kept \cup {vote} ELSE kept
        sealed == WithSeal(RecentsBefore(n), n, h.signer)
        passed == Passed(cast, a)
        added == passed /\ cast[a].authorize
        dropped == passed /\ ~cast[a].authorize
        ofDropped == {v \in listed : dropped /\ v.signer = a}
        signersAfter == CASE added -> signers \cup {a}
                          [] dropped -> signers \ {a}
                          [] OTHER -> signers
    IN  /\ n <= MaxNumber
        /\ VoteAllowed(n, h)
        /\ VerifySeal(n, h.signer)
        /\ number' = n
        /\ signers' = signersAfter
        /\ recents' = IF dropped THEN RecentsAfterDrop(sealed, n, signersAfter) ELSE sealed
        /\ votes' = {v \in listed \ ofDropped : passed => v.address # a}
        /\ tally' = IF passed THEN Without(UncastAll(cast, ofDropped), a) ELSE cast
        /\ lastSealed' = [lastSealed EXCEPT ![h.signer] = n]

CliqueNext == \E h \in Header : AcceptHeader(h)

CliqueSpec == CliqueInit /\ [][CliqueNext]_cliqueVars

----------------------------------------------------------------------------
(***************************************************************************)
(* Properties.                                                             *)
(***************************************************************************)

\* Type correctness of the snapshot.
CliqueTypeOK ==
    /\ number \in 0 .. MaxNumber
    /\ signers \subseteq Address
    /\ DOMAIN recents \subseteq 1 .. number /\ Range(recents) \subseteq Account
    /\ votes \subseteq Vote
    /\ DOMAIN tally \subseteq Address
    /\ \A a \in DOMAIN tally : tally[a] \in [authorize : BOOLEAN, votes : Nat \ {0}]
    /\ lastSealed \in [Account -> 0 .. number]

\* The cached tally is the count of the votes listed: each one by a current signer, one
\* per signer and address, all asking for the change that is still open.
TallyMatchesVotes ==
    /\ \A v \in votes : v.signer \in signers /\ ValidVote(v.address, v.authorize)
    /\ DOMAIN tally = {v.address : v \in votes}
    /\ \A a \in DOMAIN tally :
          /\ tally[a].votes = Cardinality({v \in votes : v.address = a})
          /\ tally[a].authorize = (a \notin signers)

\* Every header that verification accepts can also be applied, so accepting it never
\* leaves a head on which no further header can be verified.
AcceptedHeaderApplies ==
    \A s \in Account : VerifySeal(number + 1, s) => Applicable(number + 1, s)

\* As long as accounts that can sign are the signers, one of them may seal the next block.
SomeoneMaySeal ==
    (signers # {} /\ ZeroAddress \notin signers) => \E s \in signers : VerifySeal(number + 1, s)

\* The signers change one at a time, and only when more than half of them, the sealer of
\* the block included, have voted for that change since the last checkpoint.
ChangeNeedsMajority ==
    [][\A a \in Address : (a \in signers') # (a \in signers) =>
          LET sealer == {s \in Account : lastSealed'[s] # lastSealed[s]}
              inFavour == {v.signer : v \in {w \in votes : w.address = a}} \cup sealer
          IN  /\ 2 * Cardinality(inFavour \cap signers) > Cardinality(signers)
              /\ \A b \in Address \ {a} : (b \in signers') = (b \in signers)]_cliqueVars

\* Nobody seals two of any Limit consecutive blocks, also while the limit changes.
SealsSpaced ==
    [][\A s \in Account :
          (lastSealed'[s] # lastSealed[s] /\ lastSealed[s] > 0)
              => lastSealed'[s] - lastSealed[s] >= Limit(signers)]_cliqueVars
=============================================================================
