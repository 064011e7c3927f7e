--------------------------- MODULE MCApprovalQueue ---------------------------
(* Small instances of ApprovalQueue for TLC. *)
EXTENDS ApprovalQueue

CONSTANTS s1, s2, s3, c1, c2, c3, r1, r2, t1, alice, bob, carol, dave

\* Every FIFO call names the one tool, so that a grant covers all of them.
MCToolOf == [c \in FifoCalls |-> CHOOSE t \in Tools : TRUE]

\* Bob holds two roles: two of his signatures must not count as two people.
\* Carol is an auditor.
MCRoster == {<<alice, "Reviewer">>, <<bob, "Reviewer">>, <<bob, "SecurityOfficer">>,
             <<carol, "Auditor">>, <<carol, "ComplianceOfficer">>,
             <<dave, "SecurityOfficer">>} \cap (Signers \X Roles)

MCRoleSets == {{"Reviewer", "SecurityOfficer"}}
NoRoleSets == {}
Symmetric == Permutations(Submissions) \cup Permutations(FifoCalls)
=============================================================================
