----------------------------- MODULE CliqueProofs -----------------------------
(***************************************************************************)
(* Theorems about the clique engine: accepted headers can be applied, the  *)
(* seals of a signer are spaced, and the chain never waits for a signer    *)
(* that may not seal.  They hold for every set of accounts, every epoch    *)
(* and every length of the branch, if it starts with at most two signers.  *)
(***************************************************************************)
EXTENDS Clique, FiniteSetTheorems, TLAPS

\* The chains of the deployment have two nodes each.
FewGenesisSigners == Cardinality(GenesisSigners) <= 2

SnapTypes ==
    /\ number \in 0 .. MaxNumber
    /\ IsFiniteSet(signers)
    /\ lastSealed \in [Account -> 0 .. number]

\* The recent entries are of the last blocks, as many as the limit.
RecentsInv ==
    \A b \in DOMAIN recents : b \in 1 .. number /\ b >= number + 1 - Limit(signers)

\* After the first block the subtraction of the limit does not wrap around.
NumberInv ==
    /\ number = 0 => Cardinality(signers) <= 2
    /\ number > 0 => Limit(signers) <= number + 1

\* Whoever sealed a block is either on the recent list or far enough back, even when the
\* limit has just grown.
SealInv ==
    \A s \in Account : lastSealed[s] > 0 =>
        \/ lastSealed[s] \in DOMAIN recents /\ recents[lastSealed[s]] = s
        \/ number + 1 - lastSealed[s] >= Limit(signers)

SnapInv == SnapTypes /\ RecentsInv /\ NumberInv /\ SealInv

\* Numbers below UINT do not wrap around.
LEMMA SmallMod ==
    ASSUME NEW a \in Nat, NEW m \in Nat, a < m
    PROVE  a % m = a
  OBVIOUS

\* The limit is a positive number.
LEMMA LimitType ==
    ASSUME NEW S, IsFiniteSet(S)
    PROVE  /\ Cardinality(S) \in Nat /\ Limit(S) \in Nat /\ Limit(S) >= 1
           /\ 2 * Limit(S) <= Cardinality(S) + 2 /\ Cardinality(S) < 2 * Limit(S)
  BY FS_CardinalityType DEF Limit

\* Adding or removing one signer moves the limit by at most one.
LEMMA LimitMoves ==
    ASSUME NEW S, IsFiniteSet(S), NEW a, NEW T \in {S, S \cup {a}, S \ {a}}
    PROVE  /\ IsFiniteSet(T) /\ Limit(T) \in Nat /\ Limit(T) >= 1
           /\ Limit(T) <= Limit(S) + 1 /\ Limit(S) <= Limit(T) + 1
           /\ Cardinality(T) <= Cardinality(S) + 1
           /\ (T = S \cup {a} => Limit(S) <= Limit(T))
  <1>1. IsFiniteSet(T) /\ Cardinality(S) \in Nat /\ Cardinality(T) \in Nat
    BY FS_AddElement, FS_RemoveElement, FS_CardinalityType
  <1>2. Cardinality(T) <= Cardinality(S) + 1 /\ Cardinality(S) <= Cardinality(T) + 1
    BY <1>1, FS_AddElement, FS_RemoveElement
  <1>3. T = S \cup {a} => Cardinality(S) <= Cardinality(T)
    BY <1>1, FS_AddElement
  <1> QED
    BY <1>1, <1>2, <1>3 DEF Limit

\* What verifySeal says of the recent blocks of a sealer, without the wrap-around.
LEMMA SealShifted ==
    ASSUME SnapInv, NEW s, VerifySeal(number + 1, s), NEW b \in DOMAIN recents, recents[b] = s
    PROVE  b <= number + 1 - Limit(signers) /\ Limit(signers) <= number + 1
  <1>1. number \in Nat /\ number > 0 /\ Limit(signers) \in Nat /\ Limit(signers) <= number + 1
    BY LimitType DEF SnapInv, SnapTypes, RecentsInv, NumberInv
  <1>2. (number + 1 - Limit(signers)) % UINT = number + 1 - Limit(signers)
    BY <1>1, SmallMod, LimitType, CliqueAssumption DEF SnapInv, SnapTypes
  <1> QED
    BY <1>1, <1>2 DEF VerifySeal, ShiftedOut

\* What accepting a header does to the signers and to the recent list.
LEMMA AcceptEffects ==
    ASSUME NEW h \in Header, AcceptHeader(h)
    PROVE  /\ number + 1 <= MaxNumber /\ VerifySeal(number + 1, h.signer)
           /\ number' = number + 1 /\ h.signer \in Account
           /\ lastSealed' = [lastSealed EXCEPT ![h.signer] = number + 1]
           /\ LET sealed == WithSeal(RecentsBefore(number + 1), number + 1, h.signer)
              IN  \/ /\ signers' \in {signers, signers \cup {h.coinbase}}
                     /\ recents' = sealed
                  \/ /\ signers' = signers \ {h.coinbase}
                     /\ recents' = RecentsAfterDrop(sealed, number + 1, signers')
  BY DEF AcceptHeader, Header

\* The recent list with the new block in front and its oldest entry gone.
LEMMA SealedEntries ==
    ASSUME SnapInv, NEW s, NEW sealed,
           sealed = WithSeal(RecentsBefore(number + 1), number + 1, s)
    PROVE  /\ \A b \in DOMAIN sealed : b \in 1 .. number + 1 /\ b >= number + 2 - Limit(signers)
           /\ number + 1 \in DOMAIN sealed /\ sealed[number + 1] = s
           /\ \A b \in DOMAIN recents :
                 \/ b \in DOMAIN sealed /\ sealed[b] = recents[b]
                 \/ b = number + 1 - Limit(signers)
  <1> DEFINE L == Limit(signers)
             n == number + 1
             R == RecentsBefore(n)
  <1>1. number \in Nat /\ L \in Nat /\ L >= 1
    BY LimitType DEF SnapInv, SnapTypes
  <1>2. \A b \in DOMAIN recents : b \in 1 .. number /\ b >= n - L
    BY <1>1 DEF SnapInv, RecentsInv
  <1>3. /\ DOMAIN R = IF n >= L THEN DOMAIN recents \ {n - L} ELSE DOMAIN recents
        /\ \A b \in DOMAIN R : R[b] = recents[b]
    BY DEF RecentsBefore, Without, Restrict
  <1>4. /\ DOMAIN sealed = DOMAIN R \cup {n} /\ sealed[n] = s
        /\ \A b \in DOMAIN R \ {n} : sealed[b] = R[b]
    BY DEF WithSeal
  <1>5. \A b \in DOMAIN sealed : b \in 1 .. n /\ b >= n + 1 - L
    <2> SUFFICES ASSUME NEW b \in DOMAIN R PROVE b \in 1 .. n /\ b >= n + 1 - L
      BY <1>1, <1>4
    <2> HIDE DEF L, R
    <2> QED
      BY <1>1, <1>2, <1>3
  <1>6. \A b \in DOMAIN recents : (b \in DOMAIN sealed /\ sealed[b] = recents[b]) \/ b = n - L
    <2> SUFFICES ASSUME NEW b \in DOMAIN recents, b # n - L
                 PROVE  b \in DOMAIN sealed /\ sealed[b] = recents[b]
      OBVIOUS
    <2>1. b \in DOMAIN R /\ b # n
      BY <1>1, <1>2, <1>3
    <2> QED
      BY <1>3, <1>4, <2>1
  <1>7. number + 2 - L = n + 1 - L
    BY <1>1
  <1> QED
    BY <1>1, <1>4, <1>5, <1>6, <1>7

\* An accepted header keeps the invariant of the snapshot.
LEMMA AcceptKeeps ==
    ASSUME SnapInv, NEW h \in Header, AcceptHeader(h)
    PROVE  SnapInv'
  <1> DEFINE L == Limit(signers)
             n == number + 1
             sealed == WithSeal(RecentsBefore(n), n, h.signer)
  <1>1. number \in Nat /\ MaxNumber \in Nat /\ L \in Nat /\ L >= 1 /\ n <= MaxNumber
        /\ number' = n /\ h.signer \in Account
        /\ lastSealed' = [lastSealed EXCEPT ![h.signer] = n]
        /\ lastSealed \in [Account -> 0 .. number] /\ IsFiniteSet(signers)
    BY AcceptEffects, LimitType, CliqueAssumption DEF SnapInv, SnapTypes
  <1>2. /\ IsFiniteSet(signers') /\ Limit(signers') \in Nat /\ Limit(signers') >= 1
        /\ Limit(signers') <= L + 1 /\ L <= Limit(signers') + 1
        /\ Cardinality(signers') <= Cardinality(signers) + 1
    BY <1>1, AcceptEffects, LimitMoves, ZenonT(30)
  <1>3. SnapTypes'
    BY <1>1, <1>2 DEF SnapTypes
  <1>4. /\ \A b \in DOMAIN sealed : b \in 1 .. n /\ b >= number + 2 - L
        /\ n \in DOMAIN sealed /\ sealed[n] = h.signer
        /\ \A b \in DOMAIN recents : (b \in DOMAIN sealed /\ sealed[b] = recents[b]) \/ b = n - L
    <2>1. /\ \A b \in DOMAIN sealed : b \in 1 .. number + 1 /\ b >= number + 2 - Limit(signers)
          /\ number + 1 \in DOMAIN sealed /\ sealed[number + 1] = h.signer
          /\ \A b \in DOMAIN recents :
                \/ b \in DOMAIN sealed /\ sealed[b] = recents[b]
                \/ b = number + 1 - Limit(signers)
      BY SealedEntries
    <2> QED
      BY <1>1, <2>1
  <1> HIDE DEF sealed
  <1>5. /\ \A b \in DOMAIN recents' : /\ b \in DOMAIN sealed /\ recents'[b] = sealed[b]
                                      /\ b >= n + 1 - Limit(signers')
        /\ \A b \in DOMAIN sealed : b \in DOMAIN recents' \/ b = n - Limit(signers')
    <2>1. CASE signers' \in {signers, signers \cup {h.coinbase}} /\ recents' = sealed
      <3>1. L <= Limit(signers')
        BY <1>1, <2>1, LimitMoves, SMTT(30)
      <3> QED
        BY <1>1, <1>2, <1>4, <2>1, <3>1
    <2>2. CASE /\ signers' = signers \ {h.coinbase}
               /\ recents' = RecentsAfterDrop(sealed, n, signers')
      <3>1. /\ DOMAIN recents' = IF n >= Limit(signers')
                                 THEN DOMAIN sealed \ {n - Limit(signers')} ELSE DOMAIN sealed
            /\ \A b \in DOMAIN recents' : recents'[b] = sealed[b]
        BY <2>2 DEF RecentsAfterDrop, Without, Restrict
      <3> HIDE DEF L
      <3> QED
        BY <1>1, <1>2, <1>4, <3>1
    <2> QED
      BY AcceptEffects, <2>1, <2>2 DEF sealed
  <1>6. RecentsInv'
    BY <1>1, <1>4, <1>5 DEF RecentsInv, Limit
  <1>7. NumberInv'
    <2>1. CASE number = 0
      <3>1. Cardinality(signers') <= 3 /\ Cardinality(signers') \in Nat
        BY <1>1, <1>2, <2>1, FS_CardinalityType DEF SnapInv, NumberInv
      <3> QED
        BY <1>1, <2>1, <3>1 DEF NumberInv, Limit
    <2>2. CASE number > 0
      <3>1. Limit(signers') <= number + 2
        BY <1>1, <1>2, <2>2 DEF SnapInv, NumberInv
      <3> QED
        BY <1>1, <3>1 DEF NumberInv, Limit
    <2> QED
      BY <1>1, <2>1, <2>2
  <1>8. SealInv'
    <2> SUFFICES ASSUME NEW s \in Account, lastSealed'[s] > 0
                 PROVE  \/ lastSealed'[s] \in DOMAIN recents' /\ recents'[lastSealed'[s]] = s
                        \/ n + 1 - lastSealed'[s] >= Limit(signers')
      BY <1>1 DEF SealInv, Limit
    <2>1. CASE s = h.signer
      <3>1. lastSealed'[s] = n
        BY <1>1, <2>1
      <3>2. n # n - Limit(signers')
        BY <1>1, <1>2
      <3> QED
        BY <1>4, <1>5, <2>1, <3>1, <3>2
    <2>2. CASE s # h.signer
      <3>1. lastSealed'[s] = lastSealed[s] /\ lastSealed[s] \in Nat
        BY <1>1, <2>2
      <3>2. CASE lastSealed[s] \in DOMAIN recents /\ recents[lastSealed[s]] = s
        <4>1. \/ lastSealed[s] \in DOMAIN recents' /\ recents'[lastSealed[s]] = s
              \/ lastSealed[s] = n - L \/ lastSealed[s] = n - Limit(signers')
          BY <1>4, <1>5, <3>2
        <4> QED
          BY <1>1, <1>2, <3>1, <4>1
      <3>3. CASE number + 1 - lastSealed[s] >= L
        BY <1>1, <1>2, <3>1, <3>3
      <3> QED
        BY <3>1, <3>2, <3>3 DEF SnapInv, SealInv
    <2> QED
      BY <2>1, <2>2
  <1> QED
    BY <1>3, <1>6, <1>7, <1>8 DEF SnapInv

\* The invariant of the snapshot is inductive.
LEMMA SnapInvInductive ==
    ASSUME FewGenesisSigners
    PROVE  CliqueSpec => []SnapInv
  <1>1. CliqueInit => SnapInv
    <2> SUFFICES ASSUME CliqueInit PROVE SnapInv
      OBVIOUS
    <2>1. SnapTypes /\ RecentsInv /\ SealInv
      BY CliqueAssumption DEF CliqueInit, SnapTypes, RecentsInv, SealInv
    <2>2. NumberInv
      BY DEF CliqueInit, NumberInv, FewGenesisSigners
    <2> QED
      BY <2>1, <2>2 DEF SnapInv
  <1>2. SnapInv /\ [CliqueNext]_cliqueVars => SnapInv'
    <2> SUFFICES ASSUME SnapInv, [CliqueNext]_cliqueVars PROVE SnapInv'
      OBVIOUS
    <2>1. CASE CliqueNext
      BY <2>1, AcceptKeeps DEF CliqueNext
    <2>2. CASE UNCHANGED cliqueVars
      BY <2>2 DEF cliqueVars, SnapInv, SnapTypes, RecentsInv, NumberInv, SealInv, Limit
    <2> QED
      BY <2>1, <2>2
  <1> QED
    BY <1>1, <1>2, PTL DEF CliqueSpec

\* verifySeal and Snapshot.apply agree on who has sealed recently: no accepted header ever
\* makes the snapshot of its block fail.
THEOREM AcceptedHeadersApply ==
    ASSUME FewGenesisSigners
    PROVE  CliqueSpec => []AcceptedHeaderApplies
  <1>1. SnapInv => AcceptedHeaderApplies
    <2> SUFFICES ASSUME SnapInv, NEW s \in Account, VerifySeal(number + 1, s)
                 PROVE  Applicable(number + 1, s)
      BY DEF AcceptedHeaderApplies
    <2>1. number \in Nat /\ Limit(signers) \in Nat
      BY LimitType DEF SnapInv, SnapTypes
    <2>2. ASSUME NEW b \in DOMAIN recents, recents[b] = s
          PROVE  number + 1 >= Limit(signers) /\ b = number + 1 - Limit(signers)
      <3>1. b <= number + 1 - Limit(signers) /\ Limit(signers) <= number + 1
        BY <2>2, SealShifted
      <3>2. b \in 1 .. number /\ b >= number + 1 - Limit(signers)
        BY DEF SnapInv, RecentsInv
      <3> QED
        BY <2>1, <3>1, <3>2
    <2>3. s \notin Range(RecentsBefore(number + 1))
      <3> DEFINE R == RecentsBefore(number + 1)
      <3>1. /\ DOMAIN R = IF number + 1 >= Limit(signers)
                         THEN DOMAIN recents \ {number + 1 - Limit(signers)} ELSE DOMAIN recents
            /\ \A b \in DOMAIN R : R[b] = recents[b]
        BY <2>1 DEF RecentsBefore, Without, Restrict
      <3> HIDE DEF R
      <3>2. \A b \in DOMAIN R : R[b] # s
        BY <2>1, <2>2, <3>1
      <3> QED
        BY <3>2 DEF Range, R
    <2> QED
      BY <2>3 DEF Applicable, VerifySeal
  <1> QED
    BY <1>1, SnapInvInductive, PTL

\* Nobody seals two of any Limit consecutive blocks, however votes change the signers and
\* with them the limit.
THEOREM SealsAlwaysSpaced ==
    ASSUME FewGenesisSigners
    PROVE  CliqueSpec => SealsSpaced
  <1> DEFINE Spaced == \A s \in Account :
                 (lastSealed'[s] # lastSealed[s] /\ lastSealed[s] > 0)
                     => lastSealed'[s] - lastSealed[s] >= Limit(signers)
  <1>1. SnapInv /\ [CliqueNext]_cliqueVars => [Spaced]_cliqueVars
    <2> SUFFICES ASSUME SnapInv, NEW h \in Header, AcceptHeader(h), NEW s \in Account,
                        lastSealed'[s] # lastSealed[s], lastSealed[s] > 0
                 PROVE  lastSealed'[s] - lastSealed[s] >= Limit(signers)
      BY DEF CliqueNext
    <2>1. /\ lastSealed' = [lastSealed EXCEPT ![h.signer] = number + 1]
          /\ VerifySeal(number + 1, h.signer) /\ lastSealed \in [Account -> 0 .. number]
          /\ number \in Nat /\ Limit(signers) \in Nat
      BY AcceptEffects, LimitType DEF SnapInv, SnapTypes
    <2>2. s = h.signer /\ lastSealed'[s] = number + 1 /\ lastSealed[s] \in Nat
      BY <2>1
    <2>3. CASE lastSealed[s] \in DOMAIN recents /\ recents[lastSealed[s]] = s
      <3>1. lastSealed[s] <= number + 1 - Limit(signers)
        BY <2>1, <2>2, <2>3, SealShifted
      <3> QED
        BY <2>1, <2>2, <3>1
    <2>4. CASE number + 1 - lastSealed[s] >= Limit(signers)
      BY <2>1, <2>2, <2>4
    <2> QED
      BY <2>3, <2>4 DEF SnapInv, SealInv
  <1> QED
    BY <1>1, SnapInvInductive, PTL DEF CliqueSpec, SealsSpaced

\* The chain never waits for a signer that may not seal: among the signers there is one
\* that verifySeal accepts for the next block.
THEOREM SomeoneMayAlwaysSeal ==
    ASSUME FewGenesisSigners
    PROVE  CliqueSpec => []SomeoneMaySeal
  <1>1. SnapInv => SomeoneMaySeal
    <2> SUFFICES ASSUME SnapInv, signers # {},
                        \A s \in signers : ~ VerifySeal(number + 1, s)
                 PROVE  FALSE
      BY DEF SomeoneMaySeal
    <2> DEFINE L == Limit(signers)
               Held == number + 2 - L .. number
               Holds(s, b) == b \in DOMAIN recents /\ recents[b] = s
               f == [s \in signers |-> CHOOSE b \in Held : Holds(s, b)]
    <2>1. number \in Nat /\ L \in Nat /\ L >= 1 /\ IsFiniteSet(signers)
          /\ Cardinality(signers) \in Nat /\ 2 * L <= Cardinality(signers) + 2
      BY LimitType DEF SnapInv, SnapTypes
    <2>2. Cardinality(signers) > 0
      BY <2>1, FS_EmptySet
    <2>3. IsFiniteSet(Held) /\ Cardinality(Held) = L - 1
      <3>1. number + 2 - L \in Int /\ number \in Int
        BY <2>1
      <3>2. /\ IsFiniteSet(Held)
            /\ Cardinality(Held) = IF number + 2 - L > number THEN 0 ELSE number - (number + 2 - L) + 1
        BY <3>1, FS_Interval
      <3> HIDE DEF L, Held
      <3> QED
        BY <2>1, <3>2
    <2>4. ASSUME NEW s \in signers PROVE \E b \in Held : Holds(s, b)
      <3>1. PICK b \in DOMAIN recents : recents[b] = s /\ ~ ShiftedOut(b, number + 1)
        BY DEF VerifySeal
      <3>2. b \in 1 .. number /\ b >= number + 1 - L /\ number > 0 /\ L <= number + 1
        BY <2>1 DEF SnapInv, RecentsInv, NumberInv
      <3>3. (number + 1 - L) % UINT = number + 1 - L
        BY <2>1, <3>2, SmallMod, CliqueAssumption DEF SnapInv, SnapTypes
      <3>4. b > number + 1 - L
        BY <2>1, <3>1, <3>2, <3>3 DEF ShiftedOut
      <3> QED
        BY <2>1, <3>1, <3>2, <3>4
    <2> HIDE DEF L, Held, Holds
    <2>5. \A s \in signers : f[s] \in Held /\ Holds(s, f[s])
      BY <2>4
    <2>6. f \in [signers -> Held]
      BY <2>5
    <2>7. Cardinality(signers) > Cardinality(Held)
      BY <2>1, <2>2, <2>3
    <2> HIDE DEF f
    <2>8. PICK s \in signers, t \in signers : s # t /\ f[s] = f[t]
      BY <2>1, <2>3, <2>6, <2>7, FS_PigeonHole
    <2> QED
      BY <2>5, <2>8 DEF Holds
  <1> QED
    BY <1>1, SnapInvInductive, PTL
=============================================================================
