---------------------------- MODULE MCBreakGlass ----------------------------
EXTENDS BreakGlass

CONSTANTS s1, s2, s3

\* One person is a security officer and a reviewer, one has both roles of the
\* quorum, one is a security officer and a compliance officer.
Enrolled == {<<s1, "SecurityOfficer">>, <<s1, "Reviewer">>,
             <<s2, "Reviewer">>, <<s2, "ComplianceOfficer">>, 
             <<s3, "ComplianceOfficer">>, <<s3, "SecurityOfficer">>}
=============================================================================
