---------------------------- MODULE ApprovalRoles ----------------------------
(***************************************************************************)
(* Who may approve: the roles of agent/core/src/hitl/roles.rs and the roster *)
(* of the keys that are enrolled for them (signing.rs), which the approval    *)
(* queue and the break-glass registry look up alike.                         *)
(***************************************************************************)
CONSTANTS Signers,  \* key fingerprints
          Roster,   \* who is enrolled for which role: a set of <<signer, role>>
          None

Roles == {"Operator", "Reviewer", "ComplianceOfficer", "SecurityOfficer", "Auditor"}

ASSUME RosterAssumption == Roster \subseteq Signers \X Roles

CanApprove(role) == role # "Auditor"
=============================================================================
