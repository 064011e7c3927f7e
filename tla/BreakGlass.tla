------------------------------ MODULE BreakGlass ------------------------------
(***************************************************************************)
(* Break-glass approval: agent/core/src/hitl/break_glass.rs.                *)
(*                                                                         *)
(* A security officer invokes an action at once; a reviewer and a            *)
(* compliance officer affirm it afterwards, within a window, or it is        *)
(* surfaced on the doctor's report. Every operation runs under the           *)
(* registry's lock and is one action. The caller reads the clock before it   *)
(* takes the lock, so its reading may be older than one used before it.      *)
(*                                                                         *)
(* Abstracted: an attestation is what was signed and by which key (the        *)
(* signer's id is the fingerprint of the key); the role is claimed by who     *)
(* presents it and looked up in the roster.                                  *)
(***************************************************************************)
EXTENDS Naturals, ApprovalRoles

CONSTANTS Actions, Payloads,
          Eligible,     \* actions whose manifest is break_glass_eligible
          Itar,         \* actions whose manifest touches ITAR data
          AffirmationWindow,  \* AFFIRMATION_WINDOW
          MaxTime,      \* bound: the clock
          MaxSurfaced         \* bound: surface_count

ASSUME ActionAssumption == None \notin Actions
ASSUME WindowAssumption == AffirmationWindow \in Nat /\ MaxTime \in Nat /\ MaxSurfaced \in Nat

AffirmationQuorum == {"Reviewer", "ComplianceOfficer"}

Phases == {"Pending", "Invoked", "Affirmed", "Unaffirmed", "Surfaced"}

\* A signature over the preimage of an operation on an action.
Attestations == [op : {"invoke", "affirm"}, action : Actions, payload : Payloads, signer : Signers]

NoAttestation == [op |-> None, action |-> None, payload |-> None, signer |-> None]

VARIABLES
  phase,        \* BreakGlassEntry::phase of every action
  invoked,      \* the attestation of the invoker: its signer and its payload
  invokedAt,    \* invoked_at
  affirmations, \* by role, the attestation of the affirmer
  surfaceCount, \* surface_count
  clock         \* the monotonic clock

breakGlassVars == <<phase, invoked, invokedAt, affirmations, surfaceCount, clock>>

BreakGlassInit ==
  /\ phase = [a \in Actions |-> "Pending"]
  /\ invoked = [a \in Actions |-> NoAttestation]
  /\ invokedAt = [a \in Actions |-> 0]
  /\ affirmations = [a \in Actions |-> [r \in AffirmationQuorum |-> NoAttestation]]
  /\ surfaceCount = [a \in Actions |-> 0]
  /\ clock = 0

\* Faulty: the payload is not part of the preimage.
AuthorizeAnyPayload(op, a, p, att, role) ==
  att.op = op /\ att.action = a /\ <<att.signer, role>> \in Roster

\* The signature covers the operation, the action and the payload, and the key
\* is enrolled for the role.
Authorize(op, a, p, att, role) ==
  att.op = op /\ att.action = a /\ att.payload = p /\ <<att.signer, role>> \in Roster

Invoke(a, p, att, role, now) ==
  /\ Authorize("invoke", a, p, att, role)
  /\ role = "SecurityOfficer"
  /\ a \in Eligible \ Itar
  /\ phase[a] = "Pending"
  /\ phase' = [phase EXCEPT ![a] = "Invoked"]
  /\ invoked' = [invoked EXCEPT ![a] = att]
  /\ invokedAt' = [invokedAt EXCEPT ![a] = now]
  /\ UNCHANGED <<affirmations, surfaceCount, clock>>

\* duration_since, which is zero when the reading is older.
Elapsed(a, now) == IF now < invokedAt[a] THEN 0 ELSE now - invokedAt[a]

SignedRoles(sigs) == {r \in AffirmationQuorum : sigs[r] # NoAttestation}

\* Faulty: one key may affirm in both of its roles.
DuplicateRole(a, att, role) == affirmations[a][role] # NoAttestation

\* The role has been affirmed, or the signer has affirmed in another role.
Duplicate(a, att, role) ==
  \/ affirmations[a][role] # NoAttestation
  \/ \E r \in SignedRoles(affirmations[a]) : affirmations[a][r].signer = att.signer

\* Faulty: an invocation that has run out of time may still be affirmed.
AffirmOverdue(a, att, role, now) ==
  /\ phase[a] \in {"Invoked", "Unaffirmed"}
  /\ Authorize("affirm", a, invoked[a].payload, att, role)
  /\ role \in AffirmationQuorum
  /\ invoked[a].signer # att.signer
  /\ ~Duplicate(a, att, role)
  /\ affirmations' = [affirmations EXCEPT ![a] = [@ EXCEPT ![role] = att]]
  /\ phase' = IF AffirmationQuorum \subseteq SignedRoles(affirmations'[a])
              THEN [phase EXCEPT ![a] = "Affirmed"] ELSE phase
  /\ UNCHANGED <<invoked, invokedAt, surfaceCount, clock>>

Affirm(a, att, role, now) ==
  /\ phase[a] = "Invoked"
  /\ Authorize("affirm", a, invoked[a].payload, att, role)
  /\ role \in AffirmationQuorum
  /\ invoked[a].signer # att.signer
  /\ Elapsed(a, now) <= AffirmationWindow
  /\ ~Duplicate(a, att, role)
  /\ affirmations' = [affirmations EXCEPT ![a] = [@ EXCEPT ![role] = att]]
  /\ phase' = IF AffirmationQuorum \subseteq SignedRoles(affirmations'[a])
              THEN [phase EXCEPT ![a] = "Affirmed"] ELSE phase
  /\ UNCHANGED <<invoked, invokedAt, surfaceCount, clock>>

\* Every invocation whose window has elapsed is unaffirmed.
Tick(now) ==
  /\ phase' = [a \in Actions |->
                 IF phase[a] = "Invoked" /\ Elapsed(a, now) >= AffirmationWindow
                 THEN "Unaffirmed" ELSE phase[a]]
  /\ UNCHANGED <<invoked, invokedAt, affirmations, surfaceCount, clock>>

Surface ==
  /\ \A a \in Actions : surfaceCount[a] < MaxSurfaced
  /\ surfaceCount' = [a \in Actions |->
                        IF phase[a] \in {"Unaffirmed", "Surfaced"} THEN surfaceCount[a] + 1
                                                                    ELSE surfaceCount[a]]
  /\ phase' = [a \in Actions |-> IF phase[a] = "Unaffirmed" THEN "Surfaced" ELSE phase[a]]
  /\ UNCHANGED <<invoked, invokedAt, affirmations, clock>>

TimePasses == clock < MaxTime /\ clock' = clock + 1
              /\ UNCHANGED <<phase, invoked, invokedAt, affirmations, surfaceCount>>

\* What a caller may have read before it takes the lock.
Readings == {t \in 0..clock : t + 1 >= clock}

BreakGlassNext ==
  \/ \E a \in Actions, att \in Attestations, role \in Roles, now \in Readings :
       \/ \E p \in Payloads : Invoke(a, p, att, role, now)
       \/ Affirm(a, att, role, now)
  \/ \E now \in Readings : Tick(now)
  \/ Surface
  \/ TimePasses

BreakGlassSpec == BreakGlassInit /\ [][BreakGlassNext]_breakGlassVars

-----------------------------------------------------------------------------
(* Properties *)

\* The type invariant.
BreakGlassTypeOK ==
  /\ phase \in [Actions -> Phases]
  /\ invoked \in [Actions -> Attestations \cup {NoAttestation}]
  /\ invokedAt \in [Actions -> Nat]
  /\ affirmations \in [Actions -> [AffirmationQuorum -> Attestations \cup {NoAttestation}]]
  /\ surfaceCount \in [Actions -> Nat]
  /\ clock \in Nat

\* What was signed, by whom and in which role.
Signed(att, op, a, role) == att.op = op /\ att.action = a /\ <<att.signer, role>> \in Roster

\* PBA-L6b-013, AR-B-026: an affirmed action was invoked by an enrolled security
\* officer where that is allowed, and two further people, a reviewer and a
\* compliance officer, signed the very payload that was invoked, although keys may
\* be enrolled for several roles and any old signature may be presented.
AffirmedByTwoOthers ==
  \A a \in Actions : phase[a] = "Affirmed" =>
    /\ a \in Eligible \ Itar
    /\ Signed(invoked[a], "invoke", a, "SecurityOfficer")
    /\ \A r \in AffirmationQuorum :
         /\ Signed(affirmations[a][r], "affirm", a, r)
         /\ affirmations[a][r].payload = invoked[a].payload
         /\ affirmations[a][r].signer # invoked[a].signer
    /\ \A r, q \in AffirmationQuorum : affirmations[a][r].signer = affirmations[a][q].signer => r = q

\* An invocation the window has closed on is never affirmed afterwards, and what
\* has been affirmed or surfaced stays so.
ReportedOutcomeStands ==
  [][\A a \in Actions :
       /\ phase[a] = "Unaffirmed" => phase'[a] \in {"Unaffirmed", "Surfaced"}
       /\ phase[a] \in {"Affirmed", "Surfaced"} => phase'[a] = phase[a]]_breakGlassVars
=============================================================================
