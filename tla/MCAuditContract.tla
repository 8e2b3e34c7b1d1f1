--------------------------- MODULE MCAuditContract ---------------------------
(* Small instances of AuditContract for TLC. *)
EXTENDS AuditContract

CONSTANTS r0, r1, noroot

\* The chain can go back and forth; the first aggregated root of a node is r1.
MCProvable == {<<r0, r1>>, <<r1, r0>>, <<noroot, r1>>}
=============================================================================
