---------------------------- MODULE ApprovalQueue ----------------------------
(***************************************************************************)
(* The human-in-control approval queue: agent/core/src/hitl/mod.rs.         *)
(*                                                                         *)
(* A submission is one call of submit_with_resolution (the FIFO track) or   *)
(* submit_for_action (the role track): an async function that parks an      *)
(* entry under a lock and then races a oneshot receiver against a timer.    *)
(* Every other public operation runs under one lock and is one action; the  *)
(* operations that take two locks (freeze_and_drain and                     *)
(* approve_by_id_outcome_unknown) are one action per lock section, so that   *)
(* everything another thread can do in between is a behaviour.              *)
(*                                                                         *)
(* Abstracted: the text of a call (a call is its call_id, which is a hash   *)
(* of the effect), the signature bytes (a signature is the payload it was   *)
(* made over), and the length of the timeouts.                              *)
(***************************************************************************)
EXTENDS Naturals, FiniteSets, SequencesExt, ApprovalRoles

CONSTANTS Submissions,      \* the futures that call the queue
          FifoCalls,        \* call ids submitted to the FIFO track
          RoleCalls,        \* call ids submitted to the role track
          ChainCalls,       \* FIFO calls whose effect citrate-core submits itself
          Tools,            \* tool names a grant can name
          ToolOf,           \* the tool a FIFO call names
          Tiers,            \* the risk tiers submitted to the role track
          ManifestRoles,    \* the role sets a manifest may require
          RememberedUnknownOutcomes   \* REMEMBERED_UNKNOWN_OUTCOMES

Calls == FifoCalls \cup RoleCalls

ASSUME CallsAssumption ==
  FifoCalls \cap RoleCalls = {} /\ ChainCalls \subseteq FifoCalls
  /\ None \notin Calls \cup Signers
  /\ None \notin {"Approved", "Rejected", "OutcomeUnknown", "TimedOut", "AutoApproved", "Dropped"}
ASSUME ToolAssumption == ToolOf \in [FifoCalls -> Tools]
ASSUME TierAssumption ==
  /\ Tiers \subseteq {"Low", "Medium", "High", "Critical"}
  /\ ManifestRoles \subseteq SUBSET Roles
ASSUME BoundAssumption == RememberedUnknownOutcomes \in Nat \ {0}

-----------------------------------------------------------------------------
(* Quorums: agent/core/src/hitl/quorum.rs *)

Quorum(kind, n, m) == [kind |-> kind, n |-> n, m |-> m]

ForTier(tier, required) ==
  CASE tier = "Low"      -> Quorum("AutoApprove", 0, {})
    [] tier = "Medium"   -> Quorum("OneOf", 1, required)
    [] tier = "High"     -> Quorum("NofM", 2, required)
    [] tier = "Critical" -> Quorum("Multiset", 3,
                              {"SecurityOfficer", "ComplianceOfficer", "Reviewer"})

Quora == [kind : {"AutoApprove", "OneOf", "NofM", "Multiset"}, n : 0..3, m : SUBSET Roles]

SatisfiedBy(q, roles) ==
  LET usable == {r \in roles : CanApprove(r)} IN
  \/ q.kind = "AutoApprove"
  \/ q.kind = "OneOf" /\ usable \cap q.m # {}
  \/ q.kind = "NofM" /\ Cardinality(usable \cap q.m) >= q.n
  \/ q.kind = "Multiset" /\ q.m \subseteq usable

Signatures == [id : Signers, role : Roles]
RolesOf(sigs) == {sig.role : sig \in sigs}

-----------------------------------------------------------------------------
VARIABLES
  \* one submission: its place in the code, its arguments, the oneshot value
  \* sent to it and what it returned
  pc, call, quorum, proposer, nonce, mail, outcome,
  \* the fields of ApprovalQueue
  pending, rolePending, frozen, nextNonce, grants, unknown,
  \* callers between two lock sections: freeze_and_drain, and the call ids of
  \* the approve_by_id_outcome_unknown calls in flight
  stopPc, reporting,
  \* history: the decision whose caller was answered Ok, the signatures that
  \* released an action, the calls reported with an unknown outcome and, for
  \* each, the other calls reported since
  told, signed, reported, since

subVars   == <<pc, call, quorum, proposer, nonce, mail, outcome>>
queueVars == <<pending, rolePending, frozen, nextNonce, grants, unknown>>
histVars  == <<told, signed, reported, since>>
vars      == <<subVars, queueVars, stopPc, reporting, histVars>>

Decisions == {"Approved", "Rejected", "OutcomeUnknown"}
Outcomes  == Decisions \cup {"TimedOut", "AutoApproved", "Dropped"}
PCs == {"idle", "grant", "prior", "enqueue", "waiting", "elapsed", "leaving", "done"}

FifoEntries == [call : FifoCalls, nonce : Nat, sub : Submissions]
RoleEntries == [quorum : Quora, proposer : Signers, signatures : SUBSET Signatures,
                nonce : Nat, sub : Submissions]

ASSUME NoneAssumption == None \notin RoleEntries

SubsOK ==
  /\ pc \in [Submissions -> PCs]
  /\ call \in [Submissions -> Calls \cup {None}]
  /\ quorum \in [Submissions -> Quora \cup {None}]
  /\ proposer \in [Submissions -> Signers \cup {None}]
  /\ nonce \in [Submissions -> Nat]
  /\ mail \in [Submissions -> Decisions \cup {None}]
  /\ outcome \in [Submissions -> Outcomes \cup {None}]

QueueOK ==
  /\ pending \in Seq(FifoEntries)
  /\ rolePending \in [RoleCalls -> RoleEntries \cup {None}]
  /\ frozen \in BOOLEAN
  /\ nextNonce \in Nat
  /\ grants \in SUBSET Tools
  /\ unknown \in Seq(FifoCalls)
  /\ stopPc \in {"idle", "fifo", "role"}
  /\ reporting \in SUBSET FifoCalls

HistoryOK ==
  /\ told \in [Submissions -> Decisions \cup {None}]
  /\ signed \in [Submissions -> SUBSET Signatures]
  /\ reported \in SUBSET FifoCalls
  /\ since \in [FifoCalls -> SUBSET FifoCalls]

\* The type invariant.
TypeOK == SubsOK /\ QueueOK /\ HistoryOK

Init ==
  /\ pc = [s \in Submissions |-> "idle"]
  /\ call = [s \in Submissions |-> None]
  /\ quorum = [s \in Submissions |-> None]
  /\ proposer = [s \in Submissions |-> None]
  /\ nonce = [s \in Submissions |-> 0]
  /\ mail = [s \in Submissions |-> None]
  /\ outcome = [s \in Submissions |-> None]
  /\ pending = <<>>
  /\ rolePending = [c \in RoleCalls |-> None]
  /\ frozen = FALSE
  /\ nextNonce = 0
  /\ grants = {}
  /\ unknown = <<>>
  /\ stopPc = "idle"
  /\ reporting = {}
  /\ told = [s \in Submissions |-> None]
  /\ signed = [s \in Submissions |-> {}]
  /\ reported = {}
  /\ since = [c \in FifoCalls |-> {}]

-----------------------------------------------------------------------------
(* The submitting futures *)

Goto(s, next) == pc' = [pc EXCEPT ![s] = next]

\* Return without having parked an entry.
ReturnAt(s, result) ==
  /\ Goto(s, "done")
  /\ outcome' = [outcome EXCEPT ![s] = result]

\* submit_with_resolution up to its first frozen check.
SubmitFifo(s, c) ==
  /\ pc[s] = "idle"
  /\ call' = [call EXCEPT ![s] = c]
  /\ IF frozen THEN ReturnAt(s, "Rejected")
               ELSE Goto(s, "grant") /\ UNCHANGED outcome
  /\ UNCHANGED <<quorum, proposer, nonce, mail, queueVars, stopPc, reporting, histVars>>

\* submit_for_action up to the allocation of its nonce; a tier-low action
\* is approved without entering the queue.
SubmitForAction(s, c, tier, required, p) ==
  /\ pc[s] = "idle"
  /\ call' = [call EXCEPT ![s] = c]
  /\ quorum' = [quorum EXCEPT ![s] = ForTier(tier, required)]
  /\ proposer' = [proposer EXCEPT ![s] = p]
  /\ \/ frozen /\ ReturnAt(s, "Rejected") /\ UNCHANGED <<nonce, nextNonce>>
     \/ /\ ~frozen /\ ForTier(tier, required).kind = "AutoApprove"
        /\ ReturnAt(s, "AutoApproved")
        /\ UNCHANGED <<nonce, nextNonce>>
     \/ /\ ~frozen /\ ForTier(tier, required).kind # "AutoApprove"
        /\ Goto(s, "enqueue")
        /\ nonce' = [nonce EXCEPT ![s] = nextNonce]
        /\ nextNonce' = nextNonce + 1
        /\ UNCHANGED outcome
  /\ UNCHANGED <<mail, pending, rolePending, frozen, grants, unknown, stopPc,
                 reporting, histVars>>

\* next_nonce.fetch_add. It commutes with every step another thread can take
\* before this future reaches the lock, so it is part of the step before.
TakeNonce(s) ==
  /\ Goto(s, "enqueue")
  /\ nonce' = [nonce EXCEPT ![s] = nextNonce]
  /\ nextNonce' = nextNonce + 1

\* is_trusted, under the grants lock.
CheckGrant(s) ==
  /\ pc[s] = "grant"
  /\ IF ToolOf[call[s]] \in grants
     THEN Goto(s, "prior") /\ UNCHANGED <<nonce, nextNonce>>
     ELSE TakeNonce(s)
  /\ UNCHANGED <<call, quorum, proposer, mail, outcome, pending, rolePending, frozen,
                 grants, unknown, stopPc, reporting, histVars>>

Remembered == {unknown[i] : i \in 1..Len(unknown)}

\* prior_unknown_outcome, under the unknown_outcomes lock: a granted call is
\* approved unattended unless an identical one ended with an unknown outcome.
CheckPriorUnknown(s) ==
  /\ pc[s] = "prior"
  /\ IF call[s] \in Remembered
     THEN TakeNonce(s) /\ UNCHANGED outcome
     ELSE ReturnAt(s, "AutoApproved") /\ UNCHANGED <<nonce, nextNonce>>
  /\ UNCHANGED <<call, quorum, proposer, mail, pending, rolePending, frozen, grants,
                 unknown, stopPc, reporting, histVars>>

InFifo(c) == \E i \in 1..Len(pending) : pending[i].call = c

\* What the locked section of submit_with_resolution does when it refuses
\* exactly the submissions for which `refused' holds.
ParkFifoUnless(s, refused) ==
  /\ pc[s] = "enqueue" /\ call[s] \in FifoCalls
  /\ \/ refused /\ ReturnAt(s, "Rejected") /\ UNCHANGED pending
     \/ /\ ~refused
        /\ pending' = Append(pending, [call |-> call[s], nonce |-> nonce[s], sub |-> s])
        /\ Goto(s, "waiting")
        /\ UNCHANGED outcome
  /\ UNCHANGED <<call, quorum, proposer, nonce, mail, rolePending, frozen, nextNonce,
                 grants, unknown, stopPc, reporting, histVars>>

\* Faulty: frozen is not read again; a duplicate is queued.
EnqueueFifoNoRecheck(s)   == ParkFifoUnless(s, InFifo(call[s]))
EnqueueFifoDuplicates(s)  == ParkFifoUnless(s, frozen)

\* The locked section of submit_with_resolution: frozen is read again, a
\* second entry for a waiting call is refused.
EnqueueFifo(s) == ParkFifoUnless(s, frozen \/ InFifo(call[s]))

ParkRoleUnless(s, refused) ==
  /\ pc[s] = "enqueue" /\ call[s] \in RoleCalls
  /\ \/ refused /\ ReturnAt(s, "Rejected") /\ UNCHANGED rolePending
     \/ /\ ~refused
        /\ rolePending' = [rolePending EXCEPT ![call[s]] =
               [quorum |-> quorum[s], proposer |-> proposer[s], signatures |-> {},
                nonce |-> nonce[s], sub |-> s]]
        /\ Goto(s, "waiting")
        /\ UNCHANGED outcome
  /\ UNCHANGED <<call, quorum, proposer, nonce, mail, pending, frozen, nextNonce, grants,
                 unknown, stopPc, reporting, histVars>>

\* Faulty: frozen is not read again.
EnqueueRoleNoRecheck(s) == ParkRoleUnless(s, rolePending[call[s]] # None)

\* The locked section of submit_for_action.
EnqueueRole(s) == ParkRoleUnless(s, frozen \/ rolePending[call[s]] # None)

\* timeout(PENDING_TIMEOUT, rx): a poll looks at the receiver first, so a
\* value that is there wins over the timer.
Receive(s) ==
  /\ pc[s] = "waiting" /\ mail[s] # None
  /\ outcome' = [outcome EXCEPT ![s] = mail[s]]
  /\ Goto(s, "leaving")
  /\ UNCHANGED <<call, quorum, proposer, nonce, mail, queueVars, stopPc, reporting, histVars>>

\* Faulty: only the entry at the head of the FIFO times out.
TimerElapsesAtHead(s) ==
  /\ pc[s] = "waiting" /\ mail[s] = None
  /\ pending # <<>> /\ Head(pending).sub = s
  /\ outcome' = [outcome EXCEPT ![s] = "TimedOut"]
  /\ Goto(s, "elapsed")
  /\ UNCHANGED <<call, quorum, proposer, nonce, mail, queueVars, stopPc, reporting, histVars>>

\* The poll finds no value and the timer has elapsed. The receiver exists
\* until the timeout future is dropped: a send in between still succeeds.
TimerElapses(s) ==
  /\ pc[s] = "waiting" /\ mail[s] = None
  /\ outcome' = [outcome EXCEPT ![s] = "TimedOut"]
  /\ Goto(s, "elapsed")
  /\ UNCHANGED <<call, quorum, proposer, nonce, mail, queueVars, stopPc, reporting, histVars>>

\* The caller drops the submission's future while it waits.
DropFuture(s) ==
  /\ pc[s] = "waiting"
  /\ outcome' = [outcome EXCEPT ![s] = "Dropped"]
  /\ Goto(s, "elapsed")
  /\ UNCHANGED <<call, quorum, proposer, nonce, mail, queueVars, stopPc, reporting, histVars>>

DropReceiver(s) ==
  /\ pc[s] = "elapsed"
  /\ Goto(s, "leaving")
  /\ UNCHANGED <<call, quorum, proposer, nonce, mail, outcome, queueVars, stopPc,
                 reporting, histVars>>

\* Faulty: any entry with the call id is evicted; nothing is evicted.
EvictByCall(c, n) ==
  \/ \E i \in 1..Len(pending) : pending[i].call = c /\ pending' = RemoveAt(pending, i)
  \/ ~InFifo(c) /\ UNCHANGED pending
EvictNothing(c, n) == UNCHANGED pending

\* evict_exact: the position of the entry with this call id and nonce.
EvictExact(c, n) ==
  \/ \E i \in 1..Len(pending) :
       /\ pending[i].nonce = n /\ pending[i].call = c
       /\ pending' = RemoveAt(pending, i)
  \/ /\ \A i \in 1..Len(pending) : pending[i].nonce # n \/ pending[i].call # c
     /\ UNCHANGED pending

\* FifoEvictGuard's drop, the last thing a FIFO submission does.
LeaveFifo(s) ==
  /\ pc[s] = "leaving" /\ call[s] \in FifoCalls
  /\ EvictExact(call[s], nonce[s])
  /\ Goto(s, "done")
  /\ UNCHANGED <<call, quorum, proposer, nonce, mail, outcome, rolePending, frozen,
                 nextNonce, grants, unknown, stopPc, reporting, histVars>>

\* RoleEvictGuard's drop.
LeaveRole(s) ==
  /\ pc[s] = "leaving" /\ call[s] \in RoleCalls
  /\ LET entry == rolePending[call[s]] IN
     IF entry # None /\ entry.nonce = nonce[s]
     THEN rolePending' = [rolePending EXCEPT ![call[s]] = None]
     ELSE UNCHANGED rolePending
  /\ Goto(s, "done")
  /\ UNCHANGED <<call, quorum, proposer, nonce, mail, outcome, pending, frozen,
                 nextNonce, grants, unknown, stopPc, reporting, histVars>>

-----------------------------------------------------------------------------
(* Deciding *)

\* A oneshot send succeeds while the receiver exists.
Receiving(s) == pc[s] \in {"waiting", "elapsed"}
Send(s, decision) ==
  mail' = IF Receiving(s) THEN [mail EXCEPT ![s] = decision] ELSE mail

\* resolve_head_by_id: only the head, and only when it is the call named.
\* The caller is answered ResolverGone when the send fails.
ResolveHeadById(c, decision) ==
  /\ pending # <<>> /\ Head(pending).call = c
  /\ LET s == Head(pending).sub IN
     /\ Send(s, decision)
     /\ told' = IF Receiving(s) THEN [told EXCEPT ![s] = decision] ELSE told
  /\ pending' = Tail(pending)

ApproveById(c) ==
  /\ ResolveHeadById(c, "Approved")
  /\ UNCHANGED <<pc, call, quorum, proposer, nonce, outcome, rolePending, frozen,
                 nextNonce, grants, unknown, stopPc, reporting, signed, reported, since>>

RejectById(c) ==
  /\ ResolveHeadById(c, "Rejected")
  /\ UNCHANGED <<pc, call, quorum, proposer, nonce, outcome, rolePending, frozen,
                 nextNonce, grants, unknown, stopPc, reporting, signed, reported, since>>

RememberNew(c) ==
  LET longer == Append(unknown, c)
  IN unknown' = IF Len(longer) > RememberedUnknownOutcomes THEN Tail(longer) ELSE longer

\* Faulty: a second report of a call is a second entry.
RememberTwice(c) == RememberNew(c)

\* remember_unknown_outcome: newest last, one entry per call, oldest dropped.
Remember(c) ==
  \/ \E i \in 1..Len(unknown) :
       unknown[i] = c /\ unknown' = Append(RemoveAt(unknown, i), c)
  \/ c \notin Remembered /\ RememberNew(c)

\* approve_by_id_outcome_unknown, its first half: the transaction went out
\* whatever the queue holds, so the call is remembered before the head is
\* looked at. The queue cannot hold more than one call too many.
ReportUnknown(c) ==
  /\ Remember(c)
  /\ reporting' = reporting \cup {c}
  /\ reported' = reported \cup {c}
  /\ since' = [d \in FifoCalls |->
                 IF d = c THEN {} ELSE IF d \in reported THEN since[d] \cup {c} ELSE since[d]]
  /\ UNCHANGED <<subVars, pending, rolePending, frozen, nextNonce, grants, stopPc, told, signed>>

\* Its second half.
ResolveUnknown(c) ==
  /\ c \in reporting
  /\ reporting' = reporting \ {c}
  /\ \/ ResolveHeadById(c, "OutcomeUnknown")
     \/ /\ ~(pending # <<>> /\ Head(pending).call = c)
        /\ UNCHANGED <<mail, told, pending>>
  /\ UNCHANGED <<pc, call, quorum, proposer, nonce, outcome, rolePending, frozen,
                 nextNonce, grants, unknown, stopPc, signed, reported, since>>

\* Faulty: one person may sign twice, in two roles.
AcceptableTwice(entry, c, sig, over) ==
  /\ CanApprove(sig.role)
  /\ over = c
  /\ <<sig.id, sig.role>> \in Roster
  /\ entry.proposer # sig.id

\* The checks of add_signature, in its order. `over' is the payload the
\* signature was made over; a call's payload is the call.
Acceptable(entry, c, sig, over) ==
  /\ CanApprove(sig.role)
  /\ over = c
  /\ <<sig.id, sig.role>> \in Roster
  /\ entry.proposer # sig.id
  /\ \A other \in entry.signatures : other.id # sig.id

\* add_signature: the signature that completes the quorum removes the entry
\* and releases the action. The result of that send is ignored and the
\* signer is answered Ok.
AddSignature(c, sig, over) ==
  /\ rolePending[c] # None
  /\ Acceptable(rolePending[c], c, sig, over)
  /\ LET entry == rolePending[c]
         sigs  == entry.signatures \cup {sig}
     IN IF SatisfiedBy(entry.quorum, RolesOf(sigs))
        THEN /\ rolePending' = [rolePending EXCEPT ![c] = None]
             /\ Send(entry.sub, "Approved")
             /\ told' = [told EXCEPT ![entry.sub] = "Approved"]
             /\ signed' = [signed EXCEPT ![entry.sub] = sigs]
        ELSE /\ rolePending' = [rolePending EXCEPT ![c].signatures = sigs]
             /\ UNCHANGED <<mail, told, signed>>
  /\ UNCHANGED <<pc, call, quorum, proposer, nonce, outcome, pending, frozen, nextNonce,
                 grants, unknown, stopPc, reporting, reported, since>>

RejectAction(c) ==
  /\ rolePending[c] # None
  /\ Send(rolePending[c].sub, "Rejected")
  /\ told' = [told EXCEPT ![rolePending[c].sub] = "Rejected"]
  /\ rolePending' = [rolePending EXCEPT ![c] = None]
  /\ UNCHANGED <<pc, call, quorum, proposer, nonce, outcome, pending, frozen, nextNonce,
                 grants, unknown, stopPc, reporting, signed, reported, since>>

-----------------------------------------------------------------------------
(* Grants and the emergency stop *)

AddGrant(tool) ==
  /\ grants' = grants \cup {tool}
  /\ UNCHANGED <<subVars, pending, rolePending, frozen, nextNonce, unknown, stopPc,
                 reporting, histVars>>

\* AUTO_GRANT_TTL has passed: is_trusted no longer sees the grant.
GrantExpires(tool) ==
  /\ tool \in grants
  /\ grants' = grants \ {tool}
  /\ UNCHANGED <<subVars, pending, rolePending, frozen, nextNonce, unknown, stopPc,
                 reporting, histVars>>

\* freeze_and_drain stores the flag, then drains each track under its lock.
Freeze ==
  /\ stopPc = "idle"
  /\ frozen' = TRUE
  /\ stopPc' = "fifo"
  /\ UNCHANGED <<subVars, pending, rolePending, nextNonce, grants, unknown, reporting, histVars>>

SendAll(receivers, decision) ==
  mail' = [s \in Submissions |->
             IF s \in receivers /\ Receiving(s) THEN decision ELSE mail[s]]

DrainFifo ==
  /\ stopPc = "fifo"
  /\ SendAll({pending[i].sub : i \in 1..Len(pending)}, "Rejected")
  /\ pending' = <<>>
  /\ stopPc' = "role"
  /\ UNCHANGED <<pc, call, quorum, proposer, nonce, outcome, rolePending, frozen,
                 nextNonce, grants, unknown, reporting, histVars>>

\* Faulty: the stop forgets the role track.
DrainRoleForgotten ==
  /\ stopPc = "role"
  /\ stopPc' = "idle"
  /\ UNCHANGED <<subVars, queueVars, reporting, histVars>>

DrainRole ==
  /\ stopPc = "role"
  /\ SendAll({rolePending[c].sub : c \in {d \in RoleCalls : rolePending[d] # None}}, "Rejected")
  /\ rolePending' = [c \in RoleCalls |-> None]
  /\ stopPc' = "idle"
  /\ UNCHANGED <<pc, call, quorum, proposer, nonce, outcome, pending, frozen, nextNonce,
                 grants, unknown, reporting, histVars>>

Thaw ==
  /\ frozen' = FALSE
  /\ UNCHANGED <<subVars, pending, rolePending, nextNonce, grants, unknown, stopPc,
                 reporting, histVars>>

-----------------------------------------------------------------------------
\* The steps a submission takes once it has begun.
Proceed(s) ==
  \/ CheckGrant(s)
  \/ CheckPriorUnknown(s)
  \/ EnqueueFifo(s)
  \/ EnqueueRole(s)
  \/ Receive(s)
  \/ TimerElapses(s)
  \/ DropReceiver(s)
  \/ LeaveFifo(s)
  \/ LeaveRole(s)

Submit(s) ==
  \/ \E c \in FifoCalls : SubmitFifo(s, c)
  \/ \E c \in RoleCalls, t \in Tiers, m \in ManifestRoles, p \in Signers :
       SubmitForAction(s, c, t, m, p)

Decide ==
  \/ \E c \in FifoCalls : ApproveById(c) \/ RejectById(c)
  \/ \E c \in ChainCalls : ReportUnknown(c) \/ ResolveUnknown(c)
  \/ \E c \in RoleCalls : RejectAction(c)
  \/ \E c \in RoleCalls, sig \in Signatures, over \in RoleCalls : AddSignature(c, sig, over)

Drain == DrainFifo \/ DrainRole

Next ==
  \/ \E s \in Submissions : Submit(s) \/ Proceed(s) \/ DropFuture(s)
  \/ Decide
  \/ \E tool \in Tools : AddGrant(tool) \/ GrantExpires(tool)
  \/ Freeze \/ Drain \/ Thaw

\* The runtime polls a woken future and the timer of a parked one fires;
\* freeze_and_drain runs to its end. Nobody is obliged to submit or decide.
Fairness ==
  /\ \A s \in Submissions : WF_vars(Proceed(s))
  /\ WF_vars(Drain)

Spec == Init /\ [][Next]_vars /\ Fairness

-----------------------------------------------------------------------------
(* Safety *)

\* freeze_and_drain: once it has returned, and until a thaw, nothing is parked
\* on either track. A submission that read `frozen' before the stop and takes
\* the lock after the drain must not slip in.
StopEmpties ==
  frozen /\ stopPc = "idle" => /\ pending = <<>>
                               /\ \A c \in RoleCalls : rolePending[c] = None

FifoListed(s) == \E i \in 1..Len(pending) :
                    pending[i] = [call |-> call[s], nonce |-> nonce[s], sub |-> s]
RoleListed(s) ==
  LET entry == rolePending[call[s]] IN
  entry # None /\ entry.sub = s /\ entry.nonce = nonce[s]

\* A parked submission nobody has answered still has its own entry, so a member
\* or the stop can reach it: no cleanup, decision or later submission of the
\* same call ever takes another submission's entry away. It is why the
\* "sender dropped" arm of both submit functions is never taken.
EveryWaiterIsListed ==
  \A s \in Submissions : pc[s] = "waiting" /\ mail[s] = None =>
     IF call[s] \in FifoCalls THEN FifoListed(s) ELSE RoleListed(s)

Unanswered(s) == pc[s] \in {"waiting", "elapsed", "leaving"} /\ mail[s] = None

\* The converse: an entry belongs to a submission that has not ended and was
\* never answered. A decision is for a live question or reports ResolverGone
\* until that submission's own guard has run; nothing outlives its waiter.
EveryEntryIsOwned ==
  /\ \A i \in 1..Len(pending) :
       LET entry == pending[i] IN
       /\ Unanswered(entry.sub)
       /\ call[entry.sub] = entry.call /\ nonce[entry.sub] = entry.nonce
  /\ \A c \in RoleCalls : rolePending[c] # None =>
       LET entry == rolePending[c] IN
       /\ Unanswered(entry.sub)
       /\ call[entry.sub] = c /\ nonce[entry.sub] = entry.nonce

\* PBA-L6b-012: a call waits at most once on the FIFO track, so a decision that
\* names a call id names one entry.
OneEntryPerCall ==
  \A i, j \in 1..Len(pending) : pending[i].call = pending[j].call => i = j

\* The three together: whoever waits can be reached, whatever is listed has
\* somebody who waits for it, and a call id names one of them, through every
\* race of decisions, timers, dropped futures and the stop.
EntriesMatchWaiters == EveryWaiterIsListed /\ EveryEntryIsOwned /\ OneEntryPerCall

\* add_signature: an action is released only by signatures of enrolled people,
\* each signing once, none of them the proposer or an auditor, whose roles meet
\* the quorum; for a high tier that is two people at least.
ReleaseHasQuorum ==
  \A s \in Submissions :
    call[s] \in RoleCalls /\ (mail[s] = "Approved" \/ outcome[s] = "Approved") =>
      LET sigs == signed[s] IN
      /\ SatisfiedBy(quorum[s], RolesOf(sigs))
      /\ \A sig \in sigs : /\ <<sig.id, sig.role>> \in Roster
                           /\ CanApprove(sig.role)
                           /\ sig.id # proposer[s]
      /\ \A a, b \in sigs : a.id = b.id => a = b
      /\ quorum[s].kind = "NofM" => Cardinality({sig.id : sig \in sigs}) >= quorum[s].n

\* C1-V3-R: a call reported with an unknown outcome is not approved unattended
\* by a grant until RememberedUnknownOutcomes other calls have been reported
\* after it; reporting one call twice never pushes another one out.
UnknownOutcomeSuppressesGrant ==
  [][\A s \in Submissions :
       call[s] \in FifoCalls /\ outcome[s] = None /\ outcome'[s] = "AutoApproved"
       /\ call[s] \in reported => Cardinality(since[call[s]]) >= RememberedUnknownOutcomes]_vars

-----------------------------------------------------------------------------
(* Liveness *)

\* The timer and the guards: every submission ends, whatever the members and
\* the operator do (a submission is made once, so that again and again none is
\* under way).
EverySubmissionEnds == []<>(\A s \in Submissions : pc[s] \in {"idle", "done"})

-----------------------------------------------------------------------------
(* What the documentation says of an accepted decision *)

\* mod.rs:188-191: when the submitter is no longer waiting the decision "reached
\* nobody" and is "reported as an error", so a caller of approve_by_id answered
\* Ok has released the effect: the submission does not end as timed out.
FifoOkIsReceived ==
  \A s \in Submissions : call[s] \in FifoCalls /\ told[s] = "Approved" => outcome[s] # "TimedOut"

\* mod.rs:695-697: "When the accumulated signatures satisfy the quorum the
\* underlying submit_for_action resolves Approved."
QuorumOkIsReceived ==
  \A s \in Submissions : call[s] \in RoleCalls /\ told[s] = "Approved" => outcome[s] # "TimedOut"

-----------------------------------------------------------------------------
(* The promise of the queue, as ApprovalPromise states it *)

StatusOf(s) ==
  CASE pc[s] = "idle" -> "new"
    [] pc[s] \in {"grant", "prior", "enqueue"} -> "admitted"
    [] pc[s] = "waiting" /\ mail[s] = None -> "parked"
    [] pc[s] = "waiting" /\ mail[s] = "Approved" -> "released"
    [] pc[s] = "waiting" /\ mail[s] \in {"Rejected", "OutcomeUnknown"} -> "refused"
    [] pc[s] \in {"elapsed", "leaving", "done"} ->
         CASE outcome[s] \in {"Approved", "AutoApproved"} -> "released"
           [] outcome[s] = "Dropped" -> "gone"
           [] outcome[s] \in {"Rejected", "OutcomeUnknown", "TimedOut"} -> "refused"

Promise == INSTANCE ApprovalPromise WITH
             status <- [s \in Submissions |-> StatusOf(s)],
             stopped <- frozen /\ stopPc = "idle"

\* The queue implements the promise.
KeepsPromise == Promise!Spec
=============================================================================
