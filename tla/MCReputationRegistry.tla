------------------------ MODULE MCReputationRegistry ------------------------
(* Small instances of ReputationRegistry for TLC. *)
EXTENDS ReputationRegistry

\* Up to three events in any setting, or more with the bootstrapped committer alone, in
\* the first round and with its auditor in place.
ShortOrAlone ==
    \/ updateCount <= 3
    \/ /\ \A a \in Committer \ {Genesis} : ~states[a].isRegistered
       /\ registryRound = 1 /\ Auditor \subseteq authorizedAuditors
=============================================================================
