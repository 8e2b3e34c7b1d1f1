-------------------------- MODULE MCAuditContractV2 --------------------------
(* Small instances of AuditContractV2 for TLC. *)
EXTENDS AuditContractV2

CONSTANTS g, c1, c2, h0, r0, r1, r2

MCHash == Root \cup {h0}

MCProvable == {<<r0, r1>>, <<r1, r2>>}
MCSubmitted == {<<r0, r1>>, <<r0, r2>>, <<r1, r2>>}

\* The books after c1 and c2 have registered with different stakes and the committers
\* of the given sequence have made one fault each.
FaultedBooks(faulted) ==
    LET registered == [states |-> [x \in Address |->
                          CASE x = g -> GenesisState
                            [] x = c1 -> InitialState(100)
                            [] x = c2 -> InitialState(200)
                            [] OTHER -> NoSnapshot],
                       snapshots |-> [h \in ProofHash |-> NoSnapshot], pool |-> 0]
        Fault(books, a) == AfterUpdate(books, a, "INVALID", h0)
    IN  FoldLeft(Fault, registered, faulted)

\* Genesis one fault short of jail.
MCWornBooks == {FaultedBooks([i \in 1 .. 6 |-> g])}

\* One fault of c1 and c2 each, so that genesis outweighs both together twice.
MCLightBooks == {FaultedBooks(<<c1, c2>>)}

\* A second auditor comes, if at all, in the second block and after the key.
SecondAuditorLate == auditors # {V2Owner} => blockTime > 1 /\ vkReady

==============================================================================
