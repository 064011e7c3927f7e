------------------------ MODULE ApprovalQueue_proofs ------------------------
(***************************************************************************)
(* The approval queue, for any number of submissions, calls and people: its *)
(* types, the stop, the pairing of entries and submissions, what releases an *)
(* action, and that the queue implements ApprovalPromise. In the last part    *)
(* the break-glass registry, over the same keys and the same roster.          *)
(***************************************************************************)
EXTENDS ApprovalQueue, BreakGlass, SequenceTheorems, FiniteSetTheorems, TLAPS

\* RemoveAt, which is how evict_exact takes an entry out of the queue: what is
\* left, in its order.
LEMMA RemoveAtProperties ==
  ASSUME NEW S, NEW q \in Seq(S), NEW i \in 1..Len(q)
  PROVE  /\ RemoveAt(q, i) \in Seq(S)
         /\ Len(RemoveAt(q, i)) = Len(q) - 1
         /\ \A j \in 1..Len(q)-1 : RemoveAt(q, i)[j] = IF j < i THEN q[j] ELSE q[j+1]
<1> DEFINE a == SubSeq(q, 1, i-1)
           b == SubSeq(q, i+1, Len(q))
<1>1. Len(q) \in Nat
  BY LenProperties
<1>2. /\ a \in Seq(S) /\ Len(a) = i - 1
      /\ \A j \in 1..i-1 : a[j] = q[j]
  BY <1>1, SubSeqProperties
<1>3. /\ b \in Seq(S) /\ Len(b) = Len(q) - i
      /\ \A j \in 1..Len(q)-i : b[j] = q[i+j]
  BY <1>1, SubSeqProperties
<1>4. /\ a \o b \in Seq(S) /\ Len(a \o b) = Len(a) + Len(b)
      /\ \A j \in 1..Len(a)+Len(b) : (a \o b)[j] = IF j <= Len(a) THEN a[j] ELSE b[j-Len(a)]
  BY <1>2, <1>3, ConcatProperties
<1>5. RemoveAt(q, i) = a \o b
  BY DEF RemoveAt
<1> HIDE DEF a, b
<1>6. ASSUME NEW j \in 1..Len(q)-1
      PROVE  (a \o b)[j] = IF j < i THEN q[j] ELSE q[j+1]
  <2>1. CASE j < i
    BY <2>1, <1>1, <1>2, <1>3, <1>4
  <2>2. CASE ~(j < i)
    <3>1. /\ (a \o b)[j] = b[j-Len(a)] /\ j - Len(a) \in 1..Len(q)-i
          /\ i + (j - Len(a)) = j + 1
      BY <2>2, <1>1, <1>2, <1>3, <1>4
    <3>2. QED
      BY <3>1, <1>3, <2>2
  <2>3. QED
    BY <2>1, <2>2
<1>7. RemoveAt(q, i) \in Seq(S)
  BY <1>4, <1>5
<1>8. Len(a \o b) = Len(q) - 1
  BY <1>1, <1>2, <1>3, <1>4
<1>9. Len(RemoveAt(q, i)) = Len(q) - 1
  BY <1>8, <1>5
<1>10. \A j \in 1..Len(q)-1 : RemoveAt(q, i)[j] = IF j < i THEN q[j] ELSE q[j+1]
  BY <1>5, <1>6
<1>11. QED
  BY <1>7, <1>9, <1>10

-----------------------------------------------------------------------------
(* Type correctness *)

\* What a submission that has begun carries, at each place where it is read.
ArgumentsOK ==
  \A s \in Submissions :
    /\ pc[s] # "idle" => call[s] \in Calls
    /\ pc[s] \in {"grant", "prior"} => call[s] \in FifoCalls
    /\ pc[s] = "enqueue" /\ call[s] \in RoleCalls => quorum[s] \in Quora /\ proposer[s] \in Signers

TypeInv == TypeOK /\ ArgumentsOK

\* Quorum::for_tier returns one of the quorums the queue knows.
LEMMA ForTierIsQuorum ==
  ASSUME NEW t \in Tiers, NEW m \in ManifestRoles
  PROVE  ForTier(t, m) \in Quora
<1>1. m \in SUBSET Roles /\ t \in {"Low", "Medium", "High", "Critical"}
  BY TierAssumption
<1>2. {} \in SUBSET Roles
  OBVIOUS
<1>3. {"SecurityOfficer", "ComplianceOfficer", "Reviewer"} \in SUBSET Roles
  BY DEF Roles
<1>4. CASE t = "Low"
  BY <1>2, <1>4 DEF ForTier, Quorum, Quora
<1>5. CASE t = "Medium"
  BY <1>1, <1>5 DEF ForTier, Quorum, Quora
<1>6. CASE t = "High"
  BY <1>1, <1>6 DEF ForTier, Quorum, Quora
<1>7. CASE t = "Critical"
  BY <1>3, <1>7 DEF ForTier, Quorum, Quora
<1>8. QED
  BY <1>1, <1>4, <1>5, <1>6, <1>7

\* The initial state has the types of ApprovalQueue::default().
LEMMA InitTypeInv == Init => TypeInv
<1> SUFFICES ASSUME Init PROVE TypeInv
  OBVIOUS
<1>1. SubsOK
  BY DEF Init, SubsOK, PCs
<1>2. QueueOK
  BY EmptySeq DEF Init, QueueOK
<1>3. HistoryOK
  BY DEF Init, HistoryOK
<1>4. ArgumentsOK
  BY DEF Init, ArgumentsOK
<1>5. QED
  BY <1>1, <1>2, <1>3, <1>4 DEF TypeInv, TypeOK

\* A submission's own steps keep the types.
LEMMA ProceedTypeInv ==
  ASSUME TypeInv, NEW s \in Submissions, Proceed(s) \/ DropFuture(s)
  PROVE  TypeInv'
<1> USE DEF TypeInv, TypeOK
<1>1. CASE CheckGrant(s)
  <2>1. SubsOK'
    BY <1>1 DEF CheckGrant, TakeNonce, Goto, ReturnAt, SubsOK, QueueOK, PCs, Outcomes, Calls
  <2>2. QueueOK'
    BY <1>1 DEF CheckGrant, TakeNonce, Goto, ReturnAt, SubsOK, QueueOK, queueVars, FifoEntries, RoleEntries
  <2>3. HistoryOK'
    BY <1>1 DEF CheckGrant, TakeNonce, Goto, ReturnAt, HistoryOK, histVars
  <2>4. ArgumentsOK'
    BY <1>1, CallsAssumption DEF CheckGrant, TakeNonce, Goto, ReturnAt, SubsOK, ArgumentsOK
  <2>5. QED
    BY <2>1, <2>2, <2>3, <2>4
<1>2. CASE CheckPriorUnknown(s)
  <2>1. SubsOK'
    BY <1>2 DEF CheckPriorUnknown, TakeNonce, Goto, ReturnAt, SubsOK, QueueOK, PCs, Outcomes, Calls
  <2>2. QueueOK'
    BY <1>2 DEF CheckPriorUnknown, TakeNonce, Goto, ReturnAt, SubsOK, QueueOK, queueVars, FifoEntries, RoleEntries
  <2>3. HistoryOK'
    BY <1>2 DEF CheckPriorUnknown, TakeNonce, Goto, ReturnAt, HistoryOK, histVars
  <2>4. ArgumentsOK'
    BY <1>2, CallsAssumption DEF CheckPriorUnknown, TakeNonce, Goto, ReturnAt, SubsOK, ArgumentsOK
  <2>5. QED
    BY <2>1, <2>2, <2>3, <2>4
<1>3. CASE EnqueueFifo(s)
  <2> DEFINE entry == [call |-> call[s], nonce |-> nonce[s], sub |-> s]
  <2>1. SubsOK'
    <3>1. \/ pc' = [pc EXCEPT ![s] = "done"] /\ outcome' = [outcome EXCEPT ![s] = "Rejected"]
          \/ pc' = [pc EXCEPT ![s] = "waiting"] /\ UNCHANGED outcome
      BY <1>3, Zenon DEF EnqueueFifo, ParkFifoUnless, Goto, ReturnAt
    <3>2. UNCHANGED <<call, quorum, proposer, nonce, mail>>
      BY <1>3 DEF EnqueueFifo, ParkFifoUnless
    <3>3. QED
      BY <3>1, <3>2 DEF SubsOK, PCs, Outcomes, Decisions
  <2>2. QueueOK'
    <3>1. pending' = Append(pending, entry) \/ UNCHANGED pending
      BY <1>3, Zenon DEF EnqueueFifo, ParkFifoUnless
    <3>2. entry \in FifoEntries
      BY <1>3 DEF EnqueueFifo, ParkFifoUnless, SubsOK, FifoEntries
    <3>3. pending' \in Seq(FifoEntries)
      BY <3>1, <3>2, AppendProperties DEF QueueOK
    <3>4. QED
      BY <1>3, <3>3 DEF EnqueueFifo, ParkFifoUnless, QueueOK
  <2>3. HistoryOK'
    BY <1>3 DEF EnqueueFifo, ParkFifoUnless, HistoryOK, histVars
  <2>4. ArgumentsOK'
    BY <1>3 DEF EnqueueFifo, ParkFifoUnless, Goto, ReturnAt, SubsOK, ArgumentsOK
  <2>5. QED
    BY <2>1, <2>2, <2>3, <2>4
<1>4. CASE EnqueueRole(s)
  <2> DEFINE entry == [quorum |-> quorum[s], proposer |-> proposer[s], signatures |-> {},
                       nonce |-> nonce[s], sub |-> s]
  <2>1. SubsOK'
    <3>1. \/ pc' = [pc EXCEPT ![s] = "done"] /\ outcome' = [outcome EXCEPT ![s] = "Rejected"]
          \/ pc' = [pc EXCEPT ![s] = "waiting"] /\ UNCHANGED outcome
      BY <1>4, Zenon DEF EnqueueRole, ParkRoleUnless, Goto, ReturnAt
    <3>2. UNCHANGED <<call, quorum, proposer, nonce, mail>>
      BY <1>4 DEF EnqueueRole, ParkRoleUnless
    <3>3. QED
      BY <3>1, <3>2 DEF SubsOK, PCs, Outcomes, Decisions
  <2>2. QueueOK'
    <3>1. rolePending' = [rolePending EXCEPT ![call[s]] = entry] \/ UNCHANGED rolePending
      BY <1>4, Zenon DEF EnqueueRole, ParkRoleUnless
    <3>2. entry \in RoleEntries
      BY <1>4 DEF EnqueueRole, ParkRoleUnless, SubsOK, ArgumentsOK, RoleEntries
    <3>3. rolePending' \in [RoleCalls -> RoleEntries \cup {None}]
      BY <3>1, <3>2 DEF QueueOK
    <3>4. QED
      BY <1>4, <3>3 DEF EnqueueRole, ParkRoleUnless, QueueOK
  <2>3. HistoryOK'
    BY <1>4 DEF EnqueueRole, ParkRoleUnless, HistoryOK, histVars
  <2>4. ArgumentsOK'
    BY <1>4 DEF EnqueueRole, ParkRoleUnless, Goto, ReturnAt, SubsOK, ArgumentsOK
  <2>5. QED
    BY <2>1, <2>2, <2>3, <2>4
<1>5. CASE Receive(s)
  <2>1. SubsOK'
    BY <1>5 DEF Receive, Goto, ReturnAt, Decisions, SubsOK, QueueOK, PCs, Outcomes, Calls
  <2>2. QueueOK'
    BY <1>5 DEF Receive, Goto, ReturnAt, Decisions, SubsOK, QueueOK, queueVars, FifoEntries, RoleEntries
  <2>3. HistoryOK'
    BY <1>5 DEF Receive, Goto, ReturnAt, Decisions, HistoryOK, histVars
  <2>4. ArgumentsOK'
    BY <1>5 DEF Receive, Goto, ReturnAt, Decisions, SubsOK, ArgumentsOK
  <2>5. QED
    BY <2>1, <2>2, <2>3, <2>4
<1>6. CASE TimerElapses(s)
  <2>1. SubsOK'
    BY <1>6 DEF TimerElapses, Goto, ReturnAt, SubsOK, QueueOK, PCs, Outcomes, Calls
  <2>2. QueueOK'
    BY <1>6 DEF TimerElapses, Goto, ReturnAt, SubsOK, QueueOK, queueVars, FifoEntries, RoleEntries
  <2>3. HistoryOK'
    BY <1>6 DEF TimerElapses, Goto, ReturnAt, HistoryOK, histVars
  <2>4. ArgumentsOK'
    BY <1>6 DEF TimerElapses, Goto, ReturnAt, SubsOK, ArgumentsOK
  <2>5. QED
    BY <2>1, <2>2, <2>3, <2>4
<1>7. CASE DropReceiver(s)
  <2>1. SubsOK'
    BY <1>7 DEF DropReceiver, Goto, ReturnAt, SubsOK, QueueOK, PCs, Outcomes, Calls
  <2>2. QueueOK'
    BY <1>7 DEF DropReceiver, Goto, ReturnAt, SubsOK, QueueOK, queueVars, FifoEntries, RoleEntries
  <2>3. HistoryOK'
    BY <1>7 DEF DropReceiver, Goto, ReturnAt, HistoryOK, histVars
  <2>4. ArgumentsOK'
    BY <1>7 DEF DropReceiver, Goto, ReturnAt, SubsOK, ArgumentsOK
  <2>5. QED
    BY <2>1, <2>2, <2>3, <2>4
<1>8. CASE LeaveFifo(s)
  <2>1. SubsOK'
    BY <1>8 DEF LeaveFifo, EvictExact, Goto, ReturnAt, SubsOK, QueueOK, PCs, Outcomes, Calls
  <2>2. QueueOK'
    <3>1. pending' \in Seq(FifoEntries)
      <4>1. UNCHANGED pending \/ \E i \in 1..Len(pending) : pending' = RemoveAt(pending, i)
        BY <1>8, Zenon DEF LeaveFifo, EvictExact
      <4>2. QED
        BY <4>1, RemoveAtProperties DEF QueueOK
    <3>2. QED
      BY <1>8, <3>1 DEF LeaveFifo, QueueOK
  <2>3. HistoryOK'
    BY <1>8 DEF LeaveFifo, EvictExact, Goto, ReturnAt, HistoryOK, histVars
  <2>4. ArgumentsOK'
    BY <1>8 DEF LeaveFifo, EvictExact, Goto, ReturnAt, SubsOK, ArgumentsOK
  <2>5. QED
    BY <2>1, <2>2, <2>3, <2>4
<1>9. CASE LeaveRole(s)
  <2>1. SubsOK'
    BY <1>9 DEF LeaveRole, Goto, ReturnAt, SubsOK, QueueOK, PCs, Outcomes, Calls
  <2>2. QueueOK'
    BY <1>9 DEF LeaveRole, Goto, ReturnAt, SubsOK, QueueOK, queueVars, FifoEntries, RoleEntries
  <2>3. HistoryOK'
    BY <1>9 DEF LeaveRole, Goto, ReturnAt, HistoryOK, histVars
  <2>4. ArgumentsOK'
    BY <1>9 DEF LeaveRole, Goto, ReturnAt, SubsOK, ArgumentsOK
  <2>5. QED
    BY <2>1, <2>2, <2>3, <2>4
<1>10. CASE DropFuture(s)
  <2>1. SubsOK'
    BY <1>10 DEF DropFuture, Goto, ReturnAt, SubsOK, QueueOK, PCs, Outcomes, Calls
  <2>2. QueueOK'
    BY <1>10 DEF DropFuture, Goto, ReturnAt, SubsOK, QueueOK, queueVars, FifoEntries, RoleEntries
  <2>3. HistoryOK'
    BY <1>10 DEF DropFuture, Goto, ReturnAt, HistoryOK, histVars
  <2>4. ArgumentsOK'
    BY <1>10 DEF DropFuture, Goto, ReturnAt, SubsOK, ArgumentsOK
  <2>5. QED
    BY <2>1, <2>2, <2>3, <2>4
<1>11. QED
  BY <1>1, <1>2, <1>3, <1>4, <1>5, <1>6, <1>7, <1>8, <1>9, <1>10 DEF Proceed

\* A submission begins.
LEMMA SubmitTypeInv ==
  ASSUME TypeInv, NEW s \in Submissions, Submit(s)
  PROVE  TypeInv'
<1> USE DEF TypeInv, TypeOK
<1>1. ASSUME NEW c \in FifoCalls, SubmitFifo(s, c)
      PROVE  TypeInv'
  <2>1. SubsOK'
    BY <1>1 DEF SubmitFifo, Goto, ReturnAt, SubsOK, PCs, Outcomes, Decisions, Calls
  <2>2. QueueOK'
    BY <1>1 DEF SubmitFifo, QueueOK, queueVars
  <2>3. HistoryOK'
    BY <1>1 DEF SubmitFifo, HistoryOK, histVars
  <2>4. ArgumentsOK'
    BY <1>1, CallsAssumption DEF SubmitFifo, Goto, ReturnAt, SubsOK, ArgumentsOK, Calls
  <2>5. QED
    BY <2>1, <2>2, <2>3, <2>4
<1>2. ASSUME NEW c \in RoleCalls, NEW t \in Tiers, NEW m \in ManifestRoles,
             NEW p \in Signers, SubmitForAction(s, c, t, m, p)
      PROVE  TypeInv'
  <2> DEFINE q == ForTier(t, m)
  <2>1. q \in Quora
    BY ForTierIsQuorum
  <2> HIDE DEF q
  <2>2. /\ call' = [call EXCEPT ![s] = c] /\ quorum' = [quorum EXCEPT ![s] = q]
        /\ proposer' = [proposer EXCEPT ![s] = p] /\ UNCHANGED mail
    BY <1>2 DEF SubmitForAction, q
  <2>3. \/ /\ pc' = [pc EXCEPT ![s] = "done"]
           /\ outcome' = [outcome EXCEPT ![s] = "Rejected"] \/ outcome' = [outcome EXCEPT ![s] = "AutoApproved"]
           /\ UNCHANGED <<nonce, nextNonce>>
        \/ /\ pc' = [pc EXCEPT ![s] = "enqueue"] /\ UNCHANGED outcome
           /\ nonce' = [nonce EXCEPT ![s] = nextNonce] /\ nextNonce' = nextNonce + 1
    BY <1>2, Zenon DEF SubmitForAction, Goto, ReturnAt
  <2>4. SubsOK'
    BY <2>1, <2>2, <2>3 DEF SubsOK, QueueOK, PCs, Outcomes, Decisions, Calls
  <2>5. QueueOK'
    BY <1>2, <2>3 DEF SubmitForAction, QueueOK
  <2>6. HistoryOK'
    BY <1>2 DEF SubmitForAction, HistoryOK, histVars
  <2>7. ArgumentsOK'
    BY <2>1, <2>2, <2>3 DEF SubsOK, ArgumentsOK, Calls
  <2>8. QED
    BY <2>4, <2>5, <2>6, <2>7
<1>3. QED
  BY <1>1, <1>2 DEF Submit

\* The value a send leaves in a receiver.
LEMMA SendType ==
  ASSUME SubsOK, NEW s \in Submissions, NEW d \in Decisions, Send(s, d)
  PROVE  mail' \in [Submissions -> Decisions \cup {None}]
BY DEF SubsOK, Send, Receiving

\* resolve_head_by_id, and what it leaves of the queue.
LEMMA ResolveHeadType ==
  ASSUME TypeInv, NEW c \in FifoCalls, NEW d \in Decisions, ResolveHeadById(c, d)
  PROVE  /\ mail' \in [Submissions -> Decisions \cup {None}]
         /\ told' \in [Submissions -> Decisions \cup {None}]
         /\ pending' \in Seq(FifoEntries)
<1>1. /\ pending \in Seq(FifoEntries) /\ pending # <<>> /\ pending' = Tail(pending)
  BY DEF ResolveHeadById, TypeInv, TypeOK, QueueOK
<1>2. /\ Head(pending) \in FifoEntries /\ Tail(pending) \in Seq(FifoEntries)
  BY <1>1, HeadTailProperties
<1>3. Head(pending).sub \in Submissions
  BY <1>2 DEF FifoEntries
<1>4. Send(Head(pending).sub, d)
  BY DEF ResolveHeadById
<1>5. told' = [told EXCEPT ![Head(pending).sub] = d] \/ told' = told
  BY DEF ResolveHeadById
<1>6. QED
  BY <1>1, <1>2, <1>3, <1>4, <1>5, SendType DEF TypeInv, TypeOK, HistoryOK

\* Decisions and reports keep the types.
LEMMA DecideTypeInv ==
  ASSUME TypeInv, Decide
  PROVE  TypeInv'
<1> USE DEF TypeInv, TypeOK
<1>1. ASSUME NEW c \in FifoCalls, ApproveById(c) \/ RejectById(c)
      PROVE  TypeInv'
  <2>1. /\ mail' \in [Submissions -> Decisions \cup {None}]
        /\ told' \in [Submissions -> Decisions \cup {None}]
        /\ pending' \in Seq(FifoEntries)
    BY <1>1, ResolveHeadType DEF ApproveById, RejectById, Decisions
  <2>2. SubsOK' /\ QueueOK' /\ HistoryOK' /\ ArgumentsOK'
    BY <1>1, <2>1 DEF ApproveById, RejectById, SubsOK, QueueOK, HistoryOK, ArgumentsOK
  <2>3. QED
    BY <2>2
<1>2. ASSUME NEW c \in ChainCalls, ReportUnknown(c)
      PROVE  TypeInv'
  <2>1. c \in FifoCalls
    BY CallsAssumption
  <2>2. unknown' \in Seq(FifoCalls)
    <3>1. CASE \E i \in 1..Len(unknown) : unknown' = Append(RemoveAt(unknown, i), c)
      BY <3>1, <2>1, RemoveAtProperties, AppendProperties DEF QueueOK
    <3>2. CASE RememberNew(c)
      <4>1. Append(unknown, c) \in Seq(FifoCalls) /\ Append(unknown, c) # <<>>
        BY <2>1, AppendProperties DEF QueueOK
      <4>2. Tail(Append(unknown, c)) \in Seq(FifoCalls)
        BY <4>1, HeadTailProperties
      <4>3. QED
        BY <3>2, <4>1, <4>2 DEF RememberNew
    <3>3. QED
      BY <1>2, <3>1, <3>2 DEF ReportUnknown, Remember
  <2>3. QueueOK'
    BY <1>2, <2>1, <2>2 DEF ReportUnknown, QueueOK
  <2>4. since' \in [FifoCalls -> SUBSET FifoCalls]
    BY <1>2, <2>1 DEF ReportUnknown, HistoryOK
  <2>5. SubsOK' /\ HistoryOK' /\ ArgumentsOK'
    BY <1>2, <2>1, <2>4 DEF ReportUnknown, SubsOK, HistoryOK, ArgumentsOK, subVars
  <2>6. QED
    BY <2>3, <2>5
<1>3. ASSUME NEW c \in ChainCalls, ResolveUnknown(c)
      PROVE  TypeInv'
  <2>1. c \in FifoCalls
    BY CallsAssumption
  <2>2. /\ mail' \in [Submissions -> Decisions \cup {None}]
        /\ told' \in [Submissions -> Decisions \cup {None}]
        /\ pending' \in Seq(FifoEntries)
    <3>1. CASE ResolveHeadById(c, "OutcomeUnknown")
      BY <2>1, <3>1, ResolveHeadType DEF Decisions
    <3>2. CASE UNCHANGED <<mail, told, pending>>
      BY <3>2 DEF SubsOK, QueueOK, HistoryOK
    <3>3. QED
      BY <1>3, <3>1, <3>2 DEF ResolveUnknown
  <2>3. SubsOK' /\ QueueOK' /\ HistoryOK' /\ ArgumentsOK'
    BY <1>3, <2>2 DEF ResolveUnknown, SubsOK, QueueOK, HistoryOK, ArgumentsOK
  <2>4. QED
    BY <2>3
<1>4. ASSUME NEW c \in RoleCalls, RejectAction(c)
      PROVE  TypeInv'
  <2>1. rolePending[c] \in RoleEntries
    BY <1>4 DEF RejectAction, QueueOK
  <2>2. rolePending[c].sub \in Submissions
    BY <2>1 DEF RoleEntries
  <2>3. mail' \in [Submissions -> Decisions \cup {None}]
    BY <1>4, <2>2, SendType DEF RejectAction, Decisions
  <2>4. SubsOK' /\ QueueOK' /\ HistoryOK' /\ ArgumentsOK'
    BY <1>4, <2>2, <2>3 DEF RejectAction, SubsOK, QueueOK, HistoryOK, ArgumentsOK, Decisions
  <2>5. QED
    BY <2>4
<1>5. ASSUME NEW c \in RoleCalls, NEW sig \in Signatures, NEW over \in RoleCalls,
             AddSignature(c, sig, over)
      PROVE  TypeInv'
  <2> DEFINE entry == rolePending[c]
             sigs == entry.signatures \cup {sig}
  <2>1. entry \in RoleEntries
    BY <1>5 DEF AddSignature, QueueOK
  <2>2. entry.sub \in Submissions /\ sigs \in SUBSET Signatures
    BY <2>1 DEF RoleEntries
  <2>3. CASE SatisfiedBy(entry.quorum, RolesOf(sigs))
    <3>1. /\ rolePending' = [rolePending EXCEPT ![c] = None]
          /\ Send(entry.sub, "Approved")
          /\ told' = [told EXCEPT ![entry.sub] = "Approved"]
          /\ signed' = [signed EXCEPT ![entry.sub] = sigs]
      BY <1>5, <2>3 DEF AddSignature
    <3>2. mail' \in [Submissions -> Decisions \cup {None}]
      BY <3>1, <2>2, SendType DEF Decisions
    <3>3. SubsOK' /\ QueueOK' /\ HistoryOK' /\ ArgumentsOK'
      BY <1>5, <2>2, <3>1, <3>2 DEF AddSignature, SubsOK, QueueOK, HistoryOK, ArgumentsOK, Decisions
    <3>4. QED
      BY <3>3
  <2>4. CASE ~SatisfiedBy(entry.quorum, RolesOf(sigs))
    <3>1. /\ rolePending' = [rolePending EXCEPT ![c].signatures = sigs]
          /\ UNCHANGED <<mail, told, signed>>
      BY <1>5, <2>4 DEF AddSignature
    <3>2. [entry EXCEPT !.signatures = sigs] \in RoleEntries
      BY <2>1, <2>2 DEF RoleEntries
    <3>3. rolePending' \in [RoleCalls -> RoleEntries \cup {None}]
      BY <3>1, <3>2 DEF QueueOK
    <3>4. SubsOK' /\ QueueOK' /\ HistoryOK' /\ ArgumentsOK'
      BY <1>5, <3>1, <3>3 DEF AddSignature, SubsOK, QueueOK, HistoryOK, ArgumentsOK
    <3>5. QED
      BY <3>4
  <2>5. QED
    BY <2>3, <2>4
<1>6. QED
  BY <1>1, <1>2, <1>3, <1>4, <1>5 DEF Decide

\* Grants, the stop and the thaw keep the types.
LEMMA ControlTypeInv ==
  ASSUME TypeInv, Freeze \/ Drain \/ Thaw \/ \E tool \in Tools : AddGrant(tool) \/ GrantExpires(tool)
  PROVE  TypeInv'
<1> USE DEF TypeInv, TypeOK
<1>1. ASSUME NEW tool \in Tools, AddGrant(tool) \/ GrantExpires(tool)
      PROVE  TypeInv'
  BY <1>1 DEF AddGrant, GrantExpires, SubsOK, QueueOK, HistoryOK, ArgumentsOK, subVars, histVars
<1>2. CASE Freeze
  BY <1>2 DEF Freeze, SubsOK, QueueOK, HistoryOK, ArgumentsOK, subVars, histVars
<1>3. CASE Thaw
  BY <1>3 DEF Thaw, SubsOK, QueueOK, HistoryOK, ArgumentsOK, subVars, histVars
<1>4. CASE Drain
  <2>1. mail' \in [Submissions -> Decisions \cup {None}]
    <3>1. PICK receivers : SendAll(receivers, "Rejected")
      BY <1>4, Zenon DEF Drain, DrainFifo, DrainRole
    <3>2. QED
      BY <3>1 DEF SendAll, SubsOK, Decisions
  <2>2. QueueOK'
    BY <1>4, EmptySeq DEF Drain, DrainFifo, DrainRole, QueueOK
  <2>3. SubsOK' /\ HistoryOK' /\ ArgumentsOK'
    BY <1>4, <2>1 DEF Drain, DrainFifo, DrainRole, SubsOK, HistoryOK, ArgumentsOK, histVars
  <2>4. QED
    BY <2>2, <2>3
<1>5. QED
  BY <1>1, <1>2, <1>3, <1>4

\* Every step keeps the types.
LEMMA NextTypeInv == TypeInv /\ [Next]_vars => TypeInv'
<1> SUFFICES ASSUME TypeInv, [Next]_vars PROVE TypeInv'
  OBVIOUS
<1>1. CASE UNCHANGED vars
  BY <1>1 DEF vars, subVars, queueVars, histVars, TypeInv, TypeOK, SubsOK, QueueOK, HistoryOK, ArgumentsOK
<1>2. CASE Next
  BY <1>2, SubmitTypeInv, ProceedTypeInv, DecideTypeInv, ControlTypeInv DEF Next
<1>3. QED
  BY <1>1, <1>2

\* The variables of the queue and of its callers keep their types whatever the
\* submitters, members and operator do (mod.rs:280-304, 372-848).
THEOREM TypeCorrect == Spec => []TypeOK
<1>1. TypeInv => TypeOK
  BY DEF TypeInv
<1>2. QED
  BY <1>1, InitTypeInv, NextTypeInv, PTL DEF Spec

-----------------------------------------------------------------------------
(* The inductive invariant: entries and submissions stay paired *)

\* The submissions that hold a nonce that matters.
HasNonce(s) == pc[s] \in {"enqueue", "waiting", "elapsed", "leaving"}

\* No two of them share it: fetch_add hands out each value once.
NoncesDistinct ==
  \A s \in Submissions : HasNonce(s) =>
    /\ nonce[s] < nextNonce
    /\ \A t \in Submissions : HasNonce(t) /\ nonce[t] = nonce[s] => t = s

\* Nothing is sent to a submission that has not parked.
NoEarlyMail ==
  \A s \in Submissions : pc[s] \in {"idle", "grant", "prior", "enqueue"} => mail[s] = None

\* Between the two drains of a stop the first track is already empty.
DrainOrder == frozen /\ stopPc = "role" => pending = <<>>

QueueInv ==
  /\ TypeInv
  /\ NoncesDistinct
  /\ NoEarlyMail
  /\ DrainOrder
  /\ StopEmpties
  /\ OneEntryPerCall
  /\ EveryEntryIsOwned
  /\ EveryWaiterIsListed

\* Steps of members, of the operator and of the clock leave every submission
\* where it is.
LEMMA DecideFrame ==
  ASSUME Decide \/ Freeze \/ Drain \/ Thaw \/ \E tool \in Tools : AddGrant(tool) \/ GrantExpires(tool)
  PROVE  UNCHANGED <<pc, call, quorum, proposer, nonce, outcome, nextNonce>>
<1>1. CASE Decide
  BY <1>1 DEF Decide, ApproveById, RejectById, ReportUnknown, ResolveUnknown, RejectAction,
              AddSignature, subVars
<1>2. CASE Freeze \/ Drain \/ Thaw
  BY <1>2 DEF Freeze, Drain, DrainFifo, DrainRole, Thaw, subVars
<1>3. CASE \E tool \in Tools : AddGrant(tool) \/ GrantExpires(tool)
  BY <1>3 DEF AddGrant, GrantExpires, subVars
<1>4. QED
  BY <1>1, <1>2, <1>3

\* What a submission's step does to its place and its nonce: it takes the next
\* nonce, or it keeps the one it has, and no other submission moves.
LEMMA StepNonce ==
  ASSUME TypeInv, NEW s \in Submissions, Submit(s) \/ Proceed(s) \/ DropFuture(s)
  PROVE  /\ \E next \in PCs : pc' = [pc EXCEPT ![s] = next]
         /\ \/ /\ pc'[s] = "enqueue" /\ pc[s] \in {"idle", "grant", "prior"}
               /\ nonce' = [nonce EXCEPT ![s] = nextNonce] /\ nextNonce' = nextNonce + 1
            \/ /\ HasNonce(s)' => HasNonce(s)
               /\ pc'[s] # "enqueue"
               /\ UNCHANGED <<nonce, nextNonce>>
<1> USE DEF TypeInv, TypeOK, SubsOK, PCs, HasNonce
<1>1. CASE Submit(s)
  <2>1. ASSUME NEW c \in FifoCalls, SubmitFifo(s, c)
        PROVE  /\ pc' = [pc EXCEPT ![s] = "grant"] \/ pc' = [pc EXCEPT ![s] = "done"]
               /\ UNCHANGED <<nonce, nextNonce>>
    BY <2>1 DEF SubmitFifo, Goto, ReturnAt, queueVars
  <2>2. ASSUME NEW c \in RoleCalls, NEW t \in Tiers, NEW m \in ManifestRoles,
               NEW p \in Signers, SubmitForAction(s, c, t, m, p)
        PROVE  \/ pc' = [pc EXCEPT ![s] = "done"] /\ UNCHANGED <<nonce, nextNonce>>
               \/ /\ pc' = [pc EXCEPT ![s] = "enqueue"] /\ pc[s] = "idle"
                  /\ nonce' = [nonce EXCEPT ![s] = nextNonce] /\ nextNonce' = nextNonce + 1
    BY <2>2, Zenon DEF SubmitForAction, Goto, ReturnAt
  <2>3. QED
    BY <1>1, <2>1, <2>2 DEF Submit
<1>2. CASE CheckGrant(s)
  BY <1>2 DEF CheckGrant, TakeNonce, Goto
<1>3. CASE CheckPriorUnknown(s)
  BY <1>3 DEF CheckPriorUnknown, TakeNonce, Goto, ReturnAt
<1>4. CASE EnqueueFifo(s) \/ EnqueueRole(s)
  <2>1. /\ pc' = [pc EXCEPT ![s] = "waiting"] \/ pc' = [pc EXCEPT ![s] = "done"]
        /\ pc[s] = "enqueue" /\ UNCHANGED <<nonce, nextNonce>>
    BY <1>4, Zenon DEF EnqueueFifo, EnqueueRole, ParkFifoUnless, ParkRoleUnless, Goto, ReturnAt
  <2>2. QED
    BY <2>1
<1>5. CASE Receive(s) \/ TimerElapses(s) \/ DropFuture(s) \/ DropReceiver(s)
  BY <1>5 DEF Receive, TimerElapses, DropFuture, DropReceiver, Goto, queueVars
<1>6. CASE LeaveFifo(s) \/ LeaveRole(s)
  BY <1>6 DEF LeaveFifo, LeaveRole, Goto
<1>7. QED
  BY <1>1, <1>2, <1>3, <1>4, <1>5, <1>6 DEF Proceed

LEMMA NextNonces == TypeInv /\ NoncesDistinct /\ [Next]_vars => NoncesDistinct'
<1> SUFFICES ASSUME TypeInv, NoncesDistinct, [Next]_vars PROVE NoncesDistinct'
  OBVIOUS
<1>1. CASE UNCHANGED vars
  BY <1>1 DEF vars, subVars, queueVars, NoncesDistinct, HasNonce
<1>2. ASSUME NEW s \in Submissions, Submit(s) \/ Proceed(s) \/ DropFuture(s)
      PROVE  NoncesDistinct'
  <2>1. PICK next \in PCs : pc' = [pc EXCEPT ![s] = next]
    BY <1>2, StepNonce
  <2>2. CASE /\ pc'[s] = "enqueue" /\ pc[s] \in {"idle", "grant", "prior"}
             /\ nonce' = [nonce EXCEPT ![s] = nextNonce] /\ nextNonce' = nextNonce + 1
    BY <2>1, <2>2 DEF TypeInv, TypeOK, SubsOK, QueueOK, NoncesDistinct, HasNonce
  <2>3. CASE (HasNonce(s)' => HasNonce(s)) /\ UNCHANGED <<nonce, nextNonce>>
    BY <2>1, <2>3 DEF TypeInv, TypeOK, SubsOK, QueueOK, NoncesDistinct, HasNonce
  <2>4. QED
    BY <1>2, <2>2, <2>3, StepNonce
<1>3. CASE Decide \/ Freeze \/ Drain \/ Thaw \/ \E tool \in Tools : AddGrant(tool) \/ GrantExpires(tool)
  BY <1>3, DecideFrame DEF NoncesDistinct, HasNonce
<1>4. QED
  BY <1>1, <1>2, <1>3 DEF Next

\* A value is only ever sent to a submission whose receiver exists.
LEMMA SendsReachReceivers ==
  ASSUME TypeInv,
         Decide \/ Freeze \/ Drain \/ Thaw \/ \E tool \in Tools : AddGrant(tool) \/ GrantExpires(tool),
         NEW t \in Submissions
  PROVE  mail'[t] = mail[t] \/ Receiving(t)
<1> USE DEF TypeInv, TypeOK, SubsOK
<1>1. ASSUME NEW u \in Submissions, NEW d \in Decisions, Send(u, d)
      PROVE  mail'[t] = mail[t] \/ Receiving(t)
  BY <1>1 DEF Send
<1>2. ASSUME NEW c \in FifoCalls, NEW d \in Decisions, ResolveHeadById(c, d)
      PROVE  mail'[t] = mail[t] \/ Receiving(t)
  <2>1. Head(pending) \in FifoEntries
    BY <1>2, HeadTailProperties DEF ResolveHeadById, QueueOK
  <2>2. Head(pending).sub \in Submissions
    BY <2>1 DEF FifoEntries
  <2>3. QED
    BY <1>1, <1>2, <2>2 DEF ResolveHeadById
<1>3. ASSUME NEW c \in RoleCalls, rolePending[c] # None
      PROVE  rolePending[c].sub \in Submissions
  <2>1. rolePending[c] \in RoleEntries
    BY <1>3 DEF QueueOK
  <2>2. QED
    BY <2>1 DEF RoleEntries
<1>4. CASE Decide
  <2>1. ASSUME NEW c \in FifoCalls, ApproveById(c) \/ RejectById(c)
        PROVE  mail'[t] = mail[t] \/ Receiving(t)
    BY <1>2, <2>1 DEF ApproveById, RejectById, Decisions
  <2>2. ASSUME NEW c \in ChainCalls, ReportUnknown(c) \/ ResolveUnknown(c)
        PROVE  mail'[t] = mail[t] \/ Receiving(t)
    BY <1>2, <2>2, CallsAssumption DEF ReportUnknown, ResolveUnknown, subVars, Decisions
  <2>3. ASSUME NEW c \in RoleCalls, RejectAction(c)
        PROVE  mail'[t] = mail[t] \/ Receiving(t)
    BY <1>1, <1>3, <2>3 DEF RejectAction, Decisions
  <2>4. ASSUME NEW c \in RoleCalls, NEW sig \in Signatures, NEW over \in RoleCalls,
               AddSignature(c, sig, over)
        PROVE  mail'[t] = mail[t] \/ Receiving(t)
    <3>1. Send(rolePending[c].sub, "Approved") \/ UNCHANGED mail
      BY <2>4, Zenon DEF AddSignature
    <3>2. rolePending[c].sub \in Submissions
      BY <1>3, <2>4 DEF AddSignature
    <3>3. QED
      BY <1>1, <3>1, <3>2 DEF Decisions
  <2>5. QED
    BY <1>4, <2>1, <2>2, <2>3, <2>4 DEF Decide
<1>5. CASE Drain
  <2>1. PICK receivers : SendAll(receivers, "Rejected")
    BY <1>5, Zenon DEF Drain, DrainFifo, DrainRole
  <2>2. QED
    BY <2>1 DEF SendAll
<1>6. CASE Freeze \/ Thaw \/ \E tool \in Tools : AddGrant(tool) \/ GrantExpires(tool)
  BY <1>6 DEF Freeze, Thaw, AddGrant, GrantExpires, subVars
<1>7. QED
  BY <1>4, <1>5, <1>6

\* A submission's own step sends nothing.
LEMMA StepKeepsMail ==
  ASSUME NEW s \in Submissions, Submit(s) \/ Proceed(s) \/ DropFuture(s)
  PROVE  UNCHANGED <<mail, frozen, stopPc>>
<1>1. CASE Submit(s)
  BY <1>1 DEF Submit, SubmitFifo, SubmitForAction, queueVars
<1>2. CASE Proceed(s) \/ DropFuture(s)
  BY <1>2 DEF Proceed, CheckGrant, CheckPriorUnknown, EnqueueFifo, EnqueueRole, ParkFifoUnless,
     ParkRoleUnless, Receive, TimerElapses, DropFuture, DropReceiver, LeaveFifo, LeaveRole, queueVars
<1>3. QED
  BY <1>1, <1>2

LEMMA NextEarlyMail == TypeInv /\ NoEarlyMail /\ [Next]_vars => NoEarlyMail'
<1> SUFFICES ASSUME TypeInv, NoEarlyMail, [Next]_vars PROVE NoEarlyMail'
  OBVIOUS
<1>1. CASE UNCHANGED vars
  BY <1>1 DEF vars, subVars, NoEarlyMail
<1>2. ASSUME NEW s \in Submissions, Submit(s) \/ Proceed(s) \/ DropFuture(s)
      PROVE  NoEarlyMail'
  <2>1. PICK next \in PCs : pc' = [pc EXCEPT ![s] = next]
    BY <1>2, StepNonce
  <2>2. next \in {"idle", "grant", "prior", "enqueue"} => pc[s] \in {"idle", "grant", "prior", "enqueue"}
    <3>1. CASE Submit(s)
      BY <3>1 DEF Submit, SubmitFifo, SubmitForAction
    <3>2. CASE CheckGrant(s) \/ CheckPriorUnknown(s) \/ EnqueueFifo(s) \/ EnqueueRole(s)
      BY <3>2 DEF CheckGrant, CheckPriorUnknown, EnqueueFifo, EnqueueRole, ParkFifoUnless, ParkRoleUnless
    <3>3. CASE Receive(s) \/ TimerElapses(s) \/ DropFuture(s) \/ DropReceiver(s) \/ LeaveFifo(s) \/ LeaveRole(s)
      <4>1. pc' = [pc EXCEPT ![s] = "elapsed"] \/ pc' = [pc EXCEPT ![s] = "leaving"]
            \/ pc' = [pc EXCEPT ![s] = "done"]
        BY <3>3, Zenon DEF Receive, TimerElapses, DropFuture, DropReceiver, LeaveFifo, LeaveRole, Goto
      <4>2. QED
        BY <2>1, <4>1 DEF TypeInv, TypeOK, SubsOK
    <3>4. QED
      BY <1>2, <3>1, <3>2, <3>3 DEF Proceed
  <2>3. UNCHANGED mail
    BY <1>2, StepKeepsMail
  <2>4. QED
    BY <2>1, <2>2, <2>3 DEF TypeInv, TypeOK, SubsOK, NoEarlyMail
<1>3. CASE Decide \/ Freeze \/ Drain \/ Thaw \/ \E tool \in Tools : AddGrant(tool) \/ GrantExpires(tool)
  BY <1>3, DecideFrame, SendsReachReceivers DEF NoEarlyMail, Receiving
<1>4. QED
  BY <1>1, <1>2, <1>3 DEF Next

\* Only a submission that reads `frozen' as false under the lock adds an entry.
LEMMA StepParks ==
  ASSUME TypeInv, NEW s \in Submissions, Submit(s) \/ Proceed(s) \/ DropFuture(s), frozen
  PROVE  /\ pending = <<>> => pending' = <<>>
         /\ \A c \in RoleCalls : rolePending[c] = None => rolePending'[c] = None
<1> USE DEF TypeInv, TypeOK, QueueOK
<1>1. CASE EnqueueFifo(s)
  <2>1. UNCHANGED <<pending, rolePending>>
    BY <1>1, Zenon DEF EnqueueFifo, ParkFifoUnless
  <2>2. QED
    BY <2>1
<1>2. CASE EnqueueRole(s)
  <2>1. UNCHANGED <<pending, rolePending>>
    BY <1>2, Zenon DEF EnqueueRole, ParkRoleUnless
  <2>2. QED
    BY <2>1
<1>3. CASE LeaveFifo(s)
  <2>1. pending = <<>> => Len(pending) = 0
    BY EmptySeq
  <2>2. UNCHANGED rolePending /\ (UNCHANGED pending \/ \E i \in 1..Len(pending) : TRUE)
    BY <1>3, Zenon DEF LeaveFifo, EvictExact
  <2>3. QED
    BY <2>1, <2>2
<1>4. CASE LeaveRole(s)
  BY <1>4 DEF LeaveRole
<1>5. CASE Submit(s) \/ CheckGrant(s) \/ CheckPriorUnknown(s) \/ Receive(s) \/ TimerElapses(s)
           \/ DropFuture(s) \/ DropReceiver(s)
  BY <1>5 DEF Submit, SubmitFifo, SubmitForAction, CheckGrant, CheckPriorUnknown, Receive,
              TimerElapses, DropFuture, DropReceiver, queueVars
<1>6. QED
  BY <1>1, <1>2, <1>3, <1>4, <1>5 DEF Proceed

LEMMA NextStop ==
  TypeInv /\ DrainOrder /\ StopEmpties /\ [Next]_vars => DrainOrder' /\ StopEmpties'
<1> SUFFICES ASSUME TypeInv, DrainOrder, StopEmpties, [Next]_vars
             PROVE  DrainOrder' /\ StopEmpties'
  OBVIOUS
<1> USE DEF DrainOrder, StopEmpties
<1>1. CASE UNCHANGED vars
  BY <1>1 DEF vars, queueVars
<1>2. ASSUME NEW s \in Submissions, Submit(s) \/ Proceed(s) \/ DropFuture(s)
      PROVE  DrainOrder' /\ StopEmpties'
  <2>1. UNCHANGED <<frozen, stopPc>>
    BY <1>2, StepKeepsMail
  <2>2. frozen => /\ pending = <<>> => pending' = <<>>
                  /\ \A c \in RoleCalls : rolePending[c] = None => rolePending'[c] = None
    BY <1>2, StepParks
  <2>3. QED
    BY <2>1, <2>2
<1>3. CASE Decide
  <2>1. UNCHANGED <<frozen, stopPc>>
    BY <1>3 DEF Decide, ApproveById, RejectById, ReportUnknown, ResolveUnknown, RejectAction, AddSignature
  <2>2. pending = <<>> => pending' = <<>>
    BY <1>3 DEF Decide, ApproveById, RejectById, ReportUnknown, ResolveUnknown, RejectAction,
                AddSignature, ResolveHeadById
  <2>3. ASSUME NEW c \in RoleCalls, rolePending[c] = None PROVE rolePending'[c] = None
    <3>1. ASSUME NEW d \in RoleCalls, RejectAction(d)
          PROVE  rolePending'[c] = None
      BY <2>3, <3>1 DEF RejectAction, TypeInv, TypeOK, QueueOK
    <3>2. ASSUME NEW d \in RoleCalls, NEW sig \in Signatures, NEW over \in RoleCalls,
                 AddSignature(d, sig, over)
          PROVE  rolePending'[c] = None
      <4>1. d # c
        BY <2>3, <3>2 DEF AddSignature
      <4>2. \/ rolePending' = [rolePending EXCEPT ![d] = None]
            \/ \E sigs : rolePending' = [rolePending EXCEPT ![d].signatures = sigs]
        BY <3>2, Zenon DEF AddSignature
      <4>3. QED
        BY <2>3, <4>1, <4>2 DEF TypeInv, TypeOK, QueueOK
    <3>3. CASE \/ \E d \in FifoCalls : ApproveById(d) \/ RejectById(d)
               \/ \E d \in ChainCalls : ReportUnknown(d) \/ ResolveUnknown(d)
      BY <2>3, <3>3 DEF ApproveById, RejectById, ReportUnknown, ResolveUnknown
    <3>4. QED
      BY <1>3, <3>1, <3>2, <3>3 DEF Decide
  <2>4. QED
    BY <2>1, <2>2, <2>3
<1>4. CASE Freeze
  BY <1>4 DEF Freeze
<1>5. CASE DrainFifo
  BY <1>5 DEF DrainFifo
<1>6. CASE DrainRole
  BY <1>6 DEF DrainRole
<1>7. CASE Thaw
  BY <1>7 DEF Thaw
<1>8. CASE \E tool \in Tools : AddGrant(tool) \/ GrantExpires(tool)
  BY <1>8 DEF AddGrant, GrantExpires
<1>9. QED
  BY <1>1, <1>2, <1>3, <1>4, <1>5, <1>6, <1>7, <1>8 DEF Next, Drain

\* freeze_and_drain (mod.rs:440-456) and the second look at `frozen' under each
\* lock (mod.rs:400, 646): after a stop nothing is parked until a thaw.
THEOREM StopLeavesNothingParked == Spec => []StopEmpties
<1> DEFINE I == TypeInv /\ DrainOrder /\ StopEmpties
<1>1. Init => I
  BY InitTypeInv DEF Init, DrainOrder, StopEmpties
<1>2. I /\ [Next]_vars => I'
  BY NextTypeInv, NextStop
<1>3. QED
  BY <1>1, <1>2, PTL DEF Spec

-----------------------------------------------------------------------------
(* Entries and waiters *)

Pairing == OneEntryPerCall /\ EveryEntryIsOwned /\ EveryWaiterIsListed

\* The submission an entry names.
LEMMA EntrySubs ==
  ASSUME TypeInv
  PROVE  /\ Len(pending) \in Nat
         /\ \A i \in 1..Len(pending) : pending[i] \in FifoEntries /\ pending[i].sub \in Submissions
         /\ \A c \in RoleCalls : rolePending[c] # None =>
              rolePending[c] \in RoleEntries /\ rolePending[c].sub \in Submissions
<1>1. pending \in Seq(FifoEntries) /\ rolePending \in [RoleCalls -> RoleEntries \cup {None}]
  BY DEF TypeInv, TypeOK, QueueOK
<1>2. Len(pending) \in Nat /\ \A i \in 1..Len(pending) : pending[i] \in FifoEntries
  BY <1>1, LenProperties, ElementOfSeq
<1>3. \A e \in FifoEntries : e.sub \in Submissions
  BY DEF FifoEntries
<1>4. \A e \in RoleEntries : e.sub \in Submissions
  BY DEF RoleEntries
<1>5. QED
  BY <1>1, <1>2, <1>3, <1>4

Owns(t) ==
  \/ \E i \in 1..Len(pending) : pending[i].sub = t
  \/ \E c \in RoleCalls : rolePending[c] # None /\ rolePending[c].sub = t

\* A step that leaves the two tracks and the mail alone, and keeps the identity
\* of every unanswered submission with an entry, keeps the pairing.
LEMMA QuietPairing ==
  ASSUME TypeInv, Pairing, UNCHANGED <<pending, rolePending, mail>>,
         \A t \in Submissions : Unanswered(t) /\ Owns(t) =>
            /\ pc'[t] \in {"waiting", "elapsed", "leaving"}
            /\ call'[t] = call[t] /\ nonce'[t] = nonce[t],
         \A t \in Submissions : pc'[t] = "waiting" =>
            pc[t] = "waiting" /\ call'[t] = call[t] /\ nonce'[t] = nonce[t]
  PROVE  Pairing'
<1>1. OneEntryPerCall'
  BY DEF Pairing, OneEntryPerCall
<1>2. EveryEntryIsOwned'
  <2>1. ASSUME NEW i \in 1..Len(pending)
        PROVE  /\ Unanswered(pending[i].sub)'
               /\ call'[pending[i].sub] = pending[i].call
               /\ nonce'[pending[i].sub] = pending[i].nonce
    <3>1. pending[i].sub \in Submissions
      BY EntrySubs
    <3>2. QED
      BY <3>1 DEF Pairing, EveryEntryIsOwned, Unanswered, Owns
  <2>2. ASSUME NEW c \in RoleCalls, rolePending[c] # None
        PROVE  /\ Unanswered(rolePending[c].sub)'
               /\ call'[rolePending[c].sub] = c
               /\ nonce'[rolePending[c].sub] = rolePending[c].nonce
    <3>1. rolePending[c].sub \in Submissions
      BY <2>2, EntrySubs
    <3>2. QED
      BY <2>2, <3>1 DEF Pairing, EveryEntryIsOwned, Unanswered, Owns
  <2>3. QED
    BY <2>1, <2>2 DEF EveryEntryIsOwned
<1>3. EveryWaiterIsListed'
  BY DEF Pairing, EveryWaiterIsListed, FifoListed, RoleListed
<1>4. QED
  BY <1>1, <1>2, <1>3 DEF Pairing

\* The steps of a submission that do not take a lock of either track.
LEMMA QuietStepPairing ==
  ASSUME TypeInv, NoEarlyMail, Pairing, NEW s \in Submissions,
         Submit(s) \/ CheckGrant(s) \/ CheckPriorUnknown(s) \/ Receive(s) \/ TimerElapses(s)
           \/ DropFuture(s) \/ DropReceiver(s)
  PROVE  Pairing'
<1>1. UNCHANGED <<pending, rolePending, mail>>
  BY DEF Submit, SubmitFifo, SubmitForAction, CheckGrant, CheckPriorUnknown, Receive,
         TimerElapses, DropFuture, DropReceiver, queueVars
<1>2. CASE Submit(s) \/ CheckGrant(s) \/ CheckPriorUnknown(s)
  <2>1. pc[s] \in {"idle", "grant", "prior"}
    BY <1>2 DEF Submit, SubmitFifo, SubmitForAction, CheckGrant, CheckPriorUnknown
  <2>2. \/ pc' = [pc EXCEPT ![s] = "grant"] \/ pc' = [pc EXCEPT ![s] = "prior"]
        \/ pc' = [pc EXCEPT ![s] = "enqueue"] \/ pc' = [pc EXCEPT ![s] = "done"]
    BY <1>2, Zenon DEF Submit, SubmitFifo, SubmitForAction, CheckGrant, CheckPriorUnknown, TakeNonce,
                Goto, ReturnAt
  <2>3. \A t \in Submissions : t # s => call'[t] = call[t] /\ nonce'[t] = nonce[t]
    <3>1. (\E c : call' = [call EXCEPT ![s] = c]) \/ UNCHANGED call
      BY <1>2, Zenon DEF Submit, SubmitFifo, SubmitForAction, CheckGrant, CheckPriorUnknown
    <3>2. nonce' = [nonce EXCEPT ![s] = nextNonce] \/ UNCHANGED nonce
      BY <1>2, Zenon DEF Submit, SubmitFifo, SubmitForAction, CheckGrant, CheckPriorUnknown, TakeNonce
    <3>3. QED
      BY <3>1, <3>2 DEF TypeInv, TypeOK, SubsOK
  <2>4. QED
    BY <1>1, <2>1, <2>2, <2>3, QuietPairing DEF TypeInv, TypeOK, SubsOK, Unanswered
<1>3. CASE Receive(s) \/ TimerElapses(s) \/ DropFuture(s) \/ DropReceiver(s)
  <2>1. /\ UNCHANGED <<call, nonce>>
        /\ pc[s] \in {"waiting", "elapsed"}
        /\ pc' = [pc EXCEPT ![s] = "elapsed"] \/ pc' = [pc EXCEPT ![s] = "leaving"]
    BY <1>3, Zenon DEF Receive, TimerElapses, DropFuture, DropReceiver, Goto
  <2>2. QED
    BY <1>1, <2>1, QuietPairing DEF TypeInv, TypeOK, SubsOK, Unanswered
<1>4. QED
  BY <1>2, <1>3

\* push_back of an entry for a call that is not waiting.
LEMMA EnqueueFifoPairing ==
  ASSUME TypeInv, NoEarlyMail, Pairing, NEW s \in Submissions, EnqueueFifo(s)
  PROVE  Pairing'
<1> DEFINE entry == [call |-> call[s], nonce |-> nonce[s], sub |-> s]
<1> USE DEF TypeInv, TypeOK, SubsOK, QueueOK
<1>1. /\ pc[s] = "enqueue" /\ call[s] \in FifoCalls
      /\ UNCHANGED <<call, nonce, mail, rolePending>>
  BY DEF EnqueueFifo, ParkFifoUnless
<1>2. \/ UNCHANGED pending /\ pc' = [pc EXCEPT ![s] = "done"]
      \/ /\ ~InFifo(call[s]) /\ pending' = Append(pending, entry)
         /\ pc' = [pc EXCEPT ![s] = "waiting"]
  BY Zenon DEF EnqueueFifo, ParkFifoUnless, Goto, ReturnAt
<1>3. CASE UNCHANGED pending /\ pc' = [pc EXCEPT ![s] = "done"]
  BY <1>1, <1>3, QuietPairing DEF Unanswered
<1>4. CASE /\ ~InFifo(call[s]) /\ pending' = Append(pending, entry)
           /\ pc' = [pc EXCEPT ![s] = "waiting"]
  <2> DEFINE n == Len(pending)
  <2>1. entry \in FifoEntries
    BY <1>1 DEF FifoEntries
  <2>2. /\ Len(pending') = n + 1 /\ n \in Nat
        /\ \A i \in 1..n : pending'[i] = pending[i]
        /\ pending'[n + 1] = entry
    BY <1>4, <2>1, AppendProperties, LenProperties
  <2>3. \A i \in 1..n : pending[i].call # call[s]
    BY <1>4 DEF InFifo
  <2>4. pc' = [pc EXCEPT ![s] = "waiting"]
    BY <1>4
  <2>5. mail[s] = None
    BY <1>1 DEF NoEarlyMail
  <2>6. entry.call = call[s] /\ entry.nonce = nonce[s] /\ entry.sub = s
    OBVIOUS
  <2>7. \A i \in 1..Len(pending') : i \in 1..n \/ i = n + 1
    BY <2>2
  <2> HIDE DEF n, entry
  <2>8. OneEntryPerCall'
    <3>1. \A i, j \in 1..n : pending[i].call = pending[j].call => i = j
      BY DEF Pairing, OneEntryPerCall, n
    <3>2. ASSUME NEW i \in 1..Len(pending'), NEW j \in 1..Len(pending'),
                 pending'[i].call = pending'[j].call
          PROVE  i = j
      <4>1. CASE i \in 1..n /\ j \in 1..n
        BY <3>1, <3>2, <4>1, <2>2
      <4>2. CASE i \in 1..n /\ j = n + 1
        BY <3>2, <4>2, <2>2, <2>3, <2>6
      <4>3. CASE i = n + 1 /\ j \in 1..n
        BY <3>2, <4>3, <2>2, <2>3, <2>6
      <4>4. QED
        BY <4>1, <4>2, <4>3, <2>7
    <3>3. QED
      BY <3>2 DEF OneEntryPerCall
  <2>9. EveryEntryIsOwned'
    <3>1. ASSUME NEW i \in 1..Len(pending')
          PROVE  /\ Unanswered(pending[i].sub)'
                 /\ call'[pending'[i].sub] = pending'[i].call
                 /\ nonce'[pending'[i].sub] = pending'[i].nonce
      <4>1. CASE i \in 1..n
        <5>1. pending[i].sub \in Submissions /\ pending'[i] = pending[i]
          BY <4>1, <2>2, EntrySubs DEF n
        <5>2. /\ Unanswered(pending[i].sub) /\ call[pending[i].sub] = pending[i].call
              /\ nonce[pending[i].sub] = pending[i].nonce
          BY <4>1 DEF Pairing, EveryEntryIsOwned, n
        <5>3. pending[i].sub # s
          BY <5>2, <1>1 DEF Unanswered
        <5>4. QED
          BY <5>1, <5>2, <5>3, <1>1, <2>4 DEF Unanswered
      <4>2. CASE i = n + 1
        BY <4>2, <2>2, <2>4, <2>5, <2>6, <1>1 DEF Unanswered
      <4>3. QED
        BY <4>1, <4>2, <2>7
    <3>2. ASSUME NEW c \in RoleCalls, rolePending[c] # None
          PROVE  /\ Unanswered(rolePending[c].sub)'
                 /\ call'[rolePending[c].sub] = c
                 /\ nonce'[rolePending[c].sub] = rolePending[c].nonce
      <4>1. rolePending[c].sub \in Submissions
        BY <3>2, EntrySubs
      <4>2. QED
        BY <3>2, <4>1, <1>1, <2>4 DEF Pairing, EveryEntryIsOwned, Unanswered
    <3>3. QED
      BY <3>1, <3>2, <1>1, Zenon DEF EveryEntryIsOwned
  <2>10. EveryWaiterIsListed'
    <3>1. ASSUME NEW t \in Submissions, pc'[t] = "waiting", mail'[t] = None, call'[t] \in FifoCalls
          PROVE  FifoListed(t)'
      <4>1. CASE t = s
        <5>1. n + 1 \in 1..Len(pending')
          BY <2>2
        <5>2. pending'[n + 1] = [call |-> call'[t], nonce |-> nonce'[t], sub |-> t]
          BY <4>1, <2>2, <1>1 DEF entry
        <5>3. QED
          BY <5>1, <5>2 DEF FifoListed
      <4>2. CASE t # s
        <5>1. FifoListed(t)
          BY <3>1, <4>2, <1>1, <2>4 DEF Pairing, EveryWaiterIsListed
        <5>2. PICK i \in 1..n : pending[i] = [call |-> call[t], nonce |-> nonce[t], sub |-> t]
          BY <5>1 DEF FifoListed, n
        <5>3. i \in 1..Len(pending') /\ pending'[i] = pending[i]
          BY <2>2
        <5>4. QED
          BY <5>2, <5>3, <1>1 DEF FifoListed
      <4>3. QED
        BY <4>1, <4>2
    <3>2. ASSUME NEW t \in Submissions, pc'[t] = "waiting", mail'[t] = None, call'[t] \notin FifoCalls
          PROVE  RoleListed(t)'
      <4>1. t # s
        BY <3>2, <1>1
      <4>2. QED
        BY <3>2, <4>1, <1>1, <2>4 DEF Pairing, EveryWaiterIsListed, RoleListed
    <3>3. QED
      BY <3>1, <3>2 DEF EveryWaiterIsListed
  <2>11. QED
    BY <2>8, <2>9, <2>10 DEF Pairing
<1>5. QED
  BY <1>2, <1>3, <1>4

\* Taking one entry out of the FIFO, with its submission answered or gone.
LEMMA FifoRemovalPairing ==
  ASSUME TypeInv, Pairing, NEW k \in 1..Len(pending),
         Len(pending') = Len(pending) - 1,
         \A j \in 1..Len(pending)-1 : pending'[j] = IF j < k THEN pending[j] ELSE pending[j+1],
         UNCHANGED <<call, nonce, rolePending>>,
         \A t \in Submissions : t # pending[k].sub => pc'[t] = pc[t] /\ mail'[t] = mail[t],
         pc'[pending[k].sub] # "waiting" \/ mail'[pending[k].sub] # None
  PROVE  Pairing'
<1> DEFINE n == Len(pending)
           u == pending[k].sub
           at(j) == IF j < k THEN j ELSE j + 1
<1>1. n \in Nat /\ k \in 1..n /\ u \in Submissions
  BY EntrySubs
<1>2. \A j \in 1..n-1 : at(j) \in 1..n /\ at(j) # k /\ pending'[j] = pending[at(j)]
  BY <1>1
<1>3. \A i, j \in 1..n-1 : at(i) = at(j) => i = j
  BY <1>1
<1>4. \A i \in 1..n : i # k => \E j \in 1..n-1 : at(j) = i
  <2>1. ASSUME NEW i \in 1..n, i # k
        PROVE  \E j \in 1..n-1 : at(j) = i
    <3>1. CASE i < k
      <4>1. i \in 1..n-1 /\ at(i) = i
        BY <3>1, <1>1
      <4>2. QED
        BY <4>1
    <3>2. CASE i > k
      <4>1. i - 1 \in 1..n-1 /\ at(i - 1) = i
        BY <3>2, <1>1
      <4>2. QED
        BY <4>1
    <3>3. QED
      BY <2>1, <3>1, <3>2, <1>1
  <2>2. QED
    BY <2>1
<1>5. Len(pending') = n - 1
  OBVIOUS
<1>6. call[u] = pending[k].call /\ pending[k].call \in FifoCalls
  BY EntrySubs DEF Pairing, EveryEntryIsOwned, FifoEntries
<1>7. \A i \in 1..n : i # k => pending[i].sub # u
  BY <1>1, <1>6 DEF Pairing, EveryEntryIsOwned, OneEntryPerCall
<1>8. \A c \in RoleCalls : rolePending[c] # None => rolePending[c].sub # u
  BY <1>6, CallsAssumption DEF Pairing, EveryEntryIsOwned
<1>9. \A i \in 1..n : /\ pending[i].sub \in Submissions
                      /\ Unanswered(pending[i].sub)
                      /\ call[pending[i].sub] = pending[i].call
                      /\ nonce[pending[i].sub] = pending[i].nonce
  BY EntrySubs DEF Pairing, EveryEntryIsOwned
<1>10. \A i, j \in 1..n : pending[i].call = pending[j].call => i = j
  BY DEF Pairing, OneEntryPerCall
<1> HIDE DEF n, at
<1>11. OneEntryPerCall'
  <2>1. ASSUME NEW i \in 1..n-1, NEW j \in 1..n-1, pending'[i].call = pending'[j].call
        PROVE  i = j
    <3>1. at(i) = at(j)
      BY <2>1, <1>2, <1>10
    <3>2. QED
      BY <3>1, <1>3
  <2>2. QED
    BY <2>1, <1>5 DEF OneEntryPerCall
<1>12. EveryEntryIsOwned'
  <2>1. ASSUME NEW i \in 1..Len(pending')
        PROVE  /\ Unanswered(pending[i].sub)'
               /\ call'[pending'[i].sub] = pending'[i].call
               /\ nonce'[pending'[i].sub] = pending'[i].nonce
    <3>1. i \in 1..n-1
      BY <1>5
    <3>2. pending'[i] = pending[at(i)] /\ at(i) \in 1..n /\ at(i) # k
      BY <3>1, <1>2
    <3>3. QED
      BY <3>2, <1>7, <1>9 DEF Unanswered
  <2>2. ASSUME NEW c \in RoleCalls, rolePending[c] # None
        PROVE  /\ Unanswered(rolePending[c].sub)'
               /\ call'[rolePending[c].sub] = c
               /\ nonce'[rolePending[c].sub] = rolePending[c].nonce
    <3>1. rolePending[c].sub \in Submissions
      BY <2>2, EntrySubs
    <3>2. QED
      BY <2>2, <3>1, <1>8 DEF Pairing, EveryEntryIsOwned, Unanswered
  <2>3. QED
    BY <2>1, <2>2, Zenon DEF EveryEntryIsOwned
<1>13. EveryWaiterIsListed'
  <2>1. ASSUME NEW t \in Submissions, pc'[t] = "waiting", mail'[t] = None
        PROVE  IF call'[t] \in FifoCalls THEN FifoListed(t)' ELSE RoleListed(t)'
    <3>1. t # u /\ pc[t] = "waiting" /\ mail[t] = None
      BY <2>1
    <3>2. CASE call[t] \in FifoCalls
      <4>1. FifoListed(t)
        BY <3>1, <3>2 DEF Pairing, EveryWaiterIsListed
      <4>2. PICK i \in 1..n : pending[i] = [call |-> call[t], nonce |-> nonce[t], sub |-> t]
        BY <4>1 DEF FifoListed, n
      <4>3. i # k
        BY <4>2, <3>1
      <4>4. PICK j \in 1..n-1 : at(j) = i
        BY <4>3, <1>4
      <4>5. j \in 1..Len(pending') /\ pending'[j] = pending[i]
        BY <4>4, <1>2, <1>5
      <4>6. FifoListed(t)'
        BY <4>2, <4>5 DEF FifoListed
      <4>7. QED
        BY <3>2, <4>6
    <3>3. CASE call[t] \notin FifoCalls
      BY <3>1, <3>3 DEF Pairing, EveryWaiterIsListed, RoleListed
    <3>4. QED
      BY <3>2, <3>3
  <2>2. QED
    BY <2>1 DEF EveryWaiterIsListed
<1>14. QED
  BY <1>11, <1>12, <1>13 DEF Pairing
\* The FIFO guard: its submission's entry, if it is still there, goes with it.
LEMMA LeaveFifoPairing ==
  ASSUME TypeInv, NoncesDistinct, Pairing, NEW s \in Submissions, LeaveFifo(s)
  PROVE  Pairing'
<1> USE DEF TypeInv, TypeOK, SubsOK
<1>1. /\ pc[s] = "leaving" /\ pc' = [pc EXCEPT ![s] = "done"]
      /\ UNCHANGED <<call, nonce, mail, rolePending>>
  BY DEF LeaveFifo, Goto
<1>2. \/ \E i \in 1..Len(pending) : /\ pending[i].nonce = nonce[s] /\ pending[i].call = call[s]
                                    /\ pending' = RemoveAt(pending, i)
      \/ /\ \A i \in 1..Len(pending) : pending[i].nonce # nonce[s] \/ pending[i].call # call[s]
         /\ UNCHANGED pending
  BY Zenon DEF LeaveFifo, EvictExact
<1>3. ASSUME NEW i \in 1..Len(pending), pending[i].nonce = nonce[s],
             pending' = RemoveAt(pending, i)
      PROVE  Pairing'
  <2>1. /\ pending[i].sub \in Submissions /\ Unanswered(pending[i].sub)
        /\ nonce[pending[i].sub] = nonce[s]
    BY <1>3, EntrySubs DEF Pairing, EveryEntryIsOwned
  <2>2. pending[i].sub = s
    BY <1>1, <2>1 DEF NoncesDistinct, HasNonce, Unanswered
  <2>3. /\ Len(pending') = Len(pending) - 1
        /\ \A j \in 1..Len(pending)-1 : pending'[j] = IF j < i THEN pending[j] ELSE pending[j+1]
    BY <1>3, RemoveAtProperties DEF QueueOK
  <2>4. pc'[s] = "done" /\ \A t \in Submissions : t # s => pc'[t] = pc[t] /\ mail'[t] = mail[t]
    BY <1>1
  <2>5. QED
    BY <1>1, <2>2, <2>3, <2>4, FifoRemovalPairing
<1>4. CASE /\ \A i \in 1..Len(pending) : pending[i].nonce # nonce[s] \/ pending[i].call # call[s]
           /\ UNCHANGED pending
  <2>1. ~Owns(s)
    <3>1. \A i \in 1..Len(pending) : pending[i].sub # s
      BY <1>4 DEF Pairing, EveryEntryIsOwned
    <3>2. \A c \in RoleCalls : rolePending[c] # None => rolePending[c].sub # s
      BY CallsAssumption DEF LeaveFifo, Pairing, EveryEntryIsOwned
    <3>3. QED
      BY <3>1, <3>2 DEF Owns
  <2>2. QED
    BY <1>1, <1>4, <2>1, QuietPairing DEF Unanswered
<1>5. QED
  BY <1>2, <1>3, <1>4

\* Taking the entry of one call off the role track, with its submission answered
\* or gone.
LEMMA RoleRemovalPairing ==
  ASSUME TypeInv, Pairing, NEW c \in RoleCalls, rolePending[c] # None,
         rolePending' = [rolePending EXCEPT ![c] = None],
         UNCHANGED <<call, nonce, pending>>,
         \A t \in Submissions : t # rolePending[c].sub => pc'[t] = pc[t] /\ mail'[t] = mail[t],
         pc'[rolePending[c].sub] # "waiting" \/ mail'[rolePending[c].sub] # None
  PROVE  Pairing'
<1> DEFINE u == rolePending[c].sub
<1>1. u \in Submissions /\ call[u] = c
  BY EntrySubs DEF Pairing, EveryEntryIsOwned
<1>2. \A d \in RoleCalls : rolePending'[d] = IF d = c THEN None ELSE rolePending[d]
  BY DEF TypeInv, TypeOK, QueueOK
<1> HIDE DEF u
<1>3. OneEntryPerCall'
  BY DEF Pairing, OneEntryPerCall
<1>4. EveryEntryIsOwned'
  <2>1. ASSUME NEW i \in 1..Len(pending)
        PROVE  /\ Unanswered(pending[i].sub)'
               /\ call'[pending[i].sub] = pending[i].call
               /\ nonce'[pending[i].sub] = pending[i].nonce
    <3>1. /\ pending[i].sub \in Submissions /\ pending[i].call \in FifoCalls
          /\ Unanswered(pending[i].sub) /\ call[pending[i].sub] = pending[i].call
          /\ nonce[pending[i].sub] = pending[i].nonce
      BY EntrySubs DEF Pairing, EveryEntryIsOwned, FifoEntries
    <3>2. pending[i].sub # u
      BY <1>1, <3>1, CallsAssumption
    <3>3. QED
      BY <3>1, <3>2 DEF u, Unanswered
  <2>2. ASSUME NEW d \in RoleCalls, rolePending'[d] # None
        PROVE  /\ Unanswered(rolePending[d].sub)'
               /\ call'[rolePending'[d].sub] = d
               /\ nonce'[rolePending'[d].sub] = rolePending'[d].nonce
    <3>1. d # c /\ rolePending'[d] = rolePending[d] /\ rolePending[d] # None
      BY <1>2, <2>2
    <3>2. /\ rolePending[d].sub \in Submissions
          /\ Unanswered(rolePending[d].sub) /\ call[rolePending[d].sub] = d
          /\ nonce[rolePending[d].sub] = rolePending[d].nonce
      BY <3>1, EntrySubs DEF Pairing, EveryEntryIsOwned
    <3>3. rolePending[d].sub # u
      BY <1>1, <3>1, <3>2
    <3>4. QED
      BY <3>1, <3>2, <3>3 DEF u, Unanswered
  <2>3. QED
    BY <2>1, <2>2, Zenon DEF EveryEntryIsOwned
<1>5. EveryWaiterIsListed'
  <2>1. ASSUME NEW t \in Submissions, pc'[t] = "waiting", mail'[t] = None
        PROVE  IF call'[t] \in FifoCalls THEN FifoListed(t)' ELSE RoleListed(t)'
    <3>1. t # u /\ pc[t] = "waiting" /\ mail[t] = None
      BY <2>1 DEF u
    <3>2. CASE call[t] \in FifoCalls
      BY <3>1, <3>2 DEF Pairing, EveryWaiterIsListed, FifoListed
    <3>3. CASE call[t] \notin FifoCalls
      <4>1. RoleListed(t)
        BY <3>1, <3>3 DEF Pairing, EveryWaiterIsListed
      <4>2. call[t] \in RoleCalls
        BY <3>1, <3>3 DEF TypeInv, ArgumentsOK, Calls
      <4>3. call[t] # c
        BY <3>1, <4>1 DEF RoleListed, u
      <4>4. QED
        BY <3>3, <4>1, <4>2, <4>3, <1>2 DEF RoleListed
    <3>4. QED
      BY <3>2, <3>3
  <2>2. QED
    BY <2>1 DEF EveryWaiterIsListed
<1>6. QED
  BY <1>3, <1>4, <1>5 DEF Pairing
\* The insertion of an entry for an action that is not waiting.
LEMMA EnqueueRolePairing ==
  ASSUME TypeInv, NoEarlyMail, Pairing, NEW s \in Submissions, EnqueueRole(s)
  PROVE  Pairing'
<1> DEFINE c == call[s]
           entry == [quorum |-> quorum[s], proposer |-> proposer[s], signatures |-> {},
                     nonce |-> nonce[s], sub |-> s]
<1>1. /\ pc[s] = "enqueue" /\ c \in RoleCalls /\ mail[s] = None
      /\ UNCHANGED <<call, nonce, mail, pending>>
  BY DEF EnqueueRole, ParkRoleUnless, NoEarlyMail
<1>2. \/ UNCHANGED rolePending /\ pc' = [pc EXCEPT ![s] = "done"]
      \/ /\ rolePending[c] = None /\ rolePending' = [rolePending EXCEPT ![c] = entry]
         /\ pc' = [pc EXCEPT ![s] = "waiting"]
  BY Zenon DEF EnqueueRole, ParkRoleUnless, Goto, ReturnAt
<1>3. CASE UNCHANGED rolePending /\ pc' = [pc EXCEPT ![s] = "done"]
  BY <1>1, <1>3, QuietPairing DEF Unanswered, TypeInv, TypeOK, SubsOK
<1>4. CASE /\ rolePending[c] = None /\ rolePending' = [rolePending EXCEPT ![c] = entry]
           /\ pc' = [pc EXCEPT ![s] = "waiting"]
  <2>1. entry.nonce = nonce[s] /\ entry.sub = s
    OBVIOUS
  <2>2. entry \in RoleEntries /\ entry # None
    <3>1. entry \in RoleEntries
      BY <1>1 DEF RoleEntries, TypeInv, TypeOK, SubsOK, ArgumentsOK
    <3>2. QED
      BY <3>1, NoneAssumption
  <2> HIDE DEF entry, c
  <2>3. \A d \in RoleCalls : rolePending'[d] = IF d = c THEN entry ELSE rolePending[d]
    BY <1>4 DEF TypeInv, TypeOK, QueueOK
  <2>4. \A t \in Submissions : pc'[t] = IF t = s THEN "waiting" ELSE pc[t]
    BY <1>4 DEF TypeInv, TypeOK, SubsOK
  <2>5. OneEntryPerCall'
    BY <1>1 DEF Pairing, OneEntryPerCall
  <2>6. EveryEntryIsOwned'
    <3>1. ASSUME NEW i \in 1..Len(pending)
          PROVE  /\ Unanswered(pending[i].sub)'
                 /\ call'[pending[i].sub] = pending[i].call
                 /\ nonce'[pending[i].sub] = pending[i].nonce
      <4>1. pending[i].sub \in Submissions
        BY EntrySubs
      <4>2. QED
        BY <4>1, <1>1, <2>4 DEF Pairing, EveryEntryIsOwned, Unanswered
    <3>2. ASSUME NEW d \in RoleCalls, rolePending'[d] # None
          PROVE  /\ Unanswered(rolePending[d].sub)'
                 /\ call'[rolePending'[d].sub] = d
                 /\ nonce'[rolePending'[d].sub] = rolePending'[d].nonce
      <4>1. CASE d = c
        BY <4>1, <1>1, <2>1, <2>3, <2>4 DEF Unanswered, c
      <4>2. CASE d # c
        <5>1. rolePending'[d] = rolePending[d] /\ rolePending[d] # None
          BY <3>2, <4>2, <2>3
        <5>2. /\ rolePending[d].sub \in Submissions /\ Unanswered(rolePending[d].sub)
              /\ call[rolePending[d].sub] = d /\ nonce[rolePending[d].sub] = rolePending[d].nonce
          BY <5>1, EntrySubs DEF Pairing, EveryEntryIsOwned
        <5>3. QED
          BY <5>1, <5>2, <1>1, <2>4 DEF Unanswered
      <4>3. QED
        BY <4>1, <4>2
    <3>3. QED
      BY <3>1, <3>2, <1>1, Zenon DEF EveryEntryIsOwned
  <2>7. EveryWaiterIsListed'
    <3>1. ASSUME NEW t \in Submissions, pc'[t] = "waiting", mail'[t] = None
          PROVE  IF call'[t] \in FifoCalls THEN FifoListed(t)' ELSE RoleListed(t)'
      <4>1. CASE t = s
        <5>1. call[s] \notin FifoCalls
          BY <1>1, CallsAssumption DEF c
        <5>2. RoleListed(s)'
          BY <1>1, <2>1, <2>2, <2>3 DEF RoleListed, c
        <5>3. QED
          BY <4>1, <5>1, <5>2, <1>1
      <4>2. CASE t # s
        <5>1. pc[t] = "waiting" /\ mail[t] = None
          BY <3>1, <4>2, <1>1, <2>4
        <5>2. CASE call[t] \in FifoCalls
          BY <5>1, <5>2, <1>1 DEF Pairing, EveryWaiterIsListed, FifoListed
        <5>3. CASE call[t] \notin FifoCalls
          <6>1. RoleListed(t)
            BY <5>1, <5>3 DEF Pairing, EveryWaiterIsListed
          <6>2. call[t] \in RoleCalls
            BY <5>1, <5>3 DEF TypeInv, ArgumentsOK, Calls
          <6>3. call[t] # c
            BY <6>1, <1>4 DEF RoleListed
          <6>4. QED
            BY <5>3, <6>1, <6>2, <6>3, <1>1, <2>3 DEF RoleListed
        <5>4. QED
          BY <5>2, <5>3, <1>1
      <4>3. QED
        BY <4>1, <4>2
    <3>2. QED
      BY <3>1 DEF EveryWaiterIsListed
  <2>8. QED
    BY <2>5, <2>6, <2>7 DEF Pairing
<1>5. QED
  BY <1>2, <1>3, <1>4

\* The role guard: its submission's entry, if it is still there, goes with it.
LEMMA LeaveRolePairing ==
  ASSUME TypeInv, NoncesDistinct, Pairing, NEW s \in Submissions, LeaveRole(s)
  PROVE  Pairing'
<1> DEFINE c == call[s]
<1>1. /\ pc[s] = "leaving" /\ c \in RoleCalls /\ pc' = [pc EXCEPT ![s] = "done"]
      /\ UNCHANGED <<call, nonce, mail, pending>>
  BY DEF LeaveRole, Goto
<1>2. IF rolePending[c] # None /\ rolePending[c].nonce = nonce[s]
      THEN rolePending' = [rolePending EXCEPT ![c] = None]
      ELSE UNCHANGED rolePending
  BY DEF LeaveRole
<1>3. \A t \in Submissions : pc'[t] = IF t = s THEN "done" ELSE pc[t]
  BY <1>1 DEF TypeInv, TypeOK, SubsOK
<1>4. CASE rolePending[c] # None /\ rolePending[c].nonce = nonce[s]
  <2>1. /\ rolePending[c].sub \in Submissions /\ Unanswered(rolePending[c].sub)
        /\ nonce[rolePending[c].sub] = nonce[s]
    BY <1>1, <1>4, EntrySubs DEF Pairing, EveryEntryIsOwned
  <2>2. rolePending[c].sub = s
    BY <1>1, <2>1 DEF NoncesDistinct, HasNonce, Unanswered
  <2> HIDE DEF c
  <2>3. QED
    BY <1>1, <1>2, <1>3, <1>4, <2>2, RoleRemovalPairing
<1>5. CASE ~(rolePending[c] # None /\ rolePending[c].nonce = nonce[s])
  <2>1. ~Owns(s)
    <3>1. \A i \in 1..Len(pending) : pending[i].sub # s
      <4>1. ASSUME NEW i \in 1..Len(pending) PROVE pending[i].sub # s
        <5>1. pending[i].call \in FifoCalls
          BY EntrySubs DEF FifoEntries
        <5>2. call[pending[i].sub] = pending[i].call
          BY DEF Pairing, EveryEntryIsOwned
        <5>3. QED
          BY <5>1, <5>2, <1>1, CallsAssumption
      <4>2. QED
        BY <4>1
    <3>2. \A d \in RoleCalls : rolePending[d] # None => rolePending[d].sub # s
      BY <1>5 DEF Pairing, EveryEntryIsOwned
    <3>3. QED
      BY <3>1, <3>2 DEF Owns
  <2>2. QED
    BY <1>1, <1>2, <1>3, <1>5, <2>1, QuietPairing DEF Unanswered
<1>6. QED
  BY <1>4, <1>5
\* A signature that does not complete the quorum changes only the signatures.
LEMMA SignaturePairing ==
  ASSUME TypeInv, Pairing, NEW c \in RoleCalls, rolePending[c] # None,
         NEW sigs \in SUBSET Signatures,
         rolePending' = [rolePending EXCEPT ![c].signatures = sigs],
         UNCHANGED <<pc, call, nonce, mail, pending>>
  PROVE  Pairing'
<1>1. \A d \in RoleCalls :
        /\ rolePending[d] = None => rolePending'[d] = None
        /\ rolePending[d] # None => /\ rolePending'[d].sub = rolePending[d].sub
                                    /\ rolePending'[d].nonce = rolePending[d].nonce
  <2>1. rolePending[c] \in RoleEntries
    BY DEF TypeInv, TypeOK, QueueOK
  <2>2. \A d \in RoleCalls : rolePending'[d] = IF d = c THEN [rolePending[c] EXCEPT !.signatures = sigs]
                                               ELSE rolePending[d]
    BY DEF TypeInv, TypeOK, QueueOK
  <2>3. QED
    BY <2>1, <2>2 DEF RoleEntries
<1>2. OneEntryPerCall'
  BY DEF Pairing, OneEntryPerCall
<1>3. EveryEntryIsOwned'
  <2>1. ASSUME NEW d \in RoleCalls, rolePending'[d] # None
        PROVE  /\ Unanswered(rolePending[d].sub)'
               /\ call'[rolePending'[d].sub] = d
               /\ nonce'[rolePending'[d].sub] = rolePending'[d].nonce
    <3>1. rolePending[d] # None
      BY <1>1, <2>1
    <3>2. /\ Unanswered(rolePending[d].sub)
          /\ call[rolePending[d].sub] = d /\ nonce[rolePending[d].sub] = rolePending[d].nonce
      BY <3>1 DEF Pairing, EveryEntryIsOwned
    <3>3. QED
      BY <1>1, <3>1, <3>2 DEF Unanswered
  <2>2. \A i \in 1..Len(pending) : /\ Unanswered(pending[i].sub)'
                                   /\ call'[pending[i].sub] = pending[i].call
                                   /\ nonce'[pending[i].sub] = pending[i].nonce
    BY DEF Pairing, EveryEntryIsOwned, Unanswered
  <2>3. QED
    BY <2>1, <2>2, Zenon DEF EveryEntryIsOwned
<1>4. EveryWaiterIsListed'
  <2>1. ASSUME NEW t \in Submissions, pc[t] = "waiting", mail[t] = None
        PROVE  IF call[t] \in FifoCalls THEN FifoListed(t)' ELSE RoleListed(t)'
    <3>1. CASE call[t] \in FifoCalls
      BY <2>1, <3>1 DEF Pairing, EveryWaiterIsListed, FifoListed
    <3>2. CASE call[t] \notin FifoCalls
      <4>1. RoleListed(t) /\ call[t] \in RoleCalls
        BY <2>1, <3>2 DEF Pairing, EveryWaiterIsListed, TypeInv, ArgumentsOK, Calls
      <4>2. rolePending'[call[t]] # None
        <5>1. CASE call[t] # c
          BY <4>1, <5>1 DEF RoleListed, TypeInv, TypeOK, QueueOK
        <5>2. CASE call[t] = c
          <6>1. rolePending[c] \in RoleEntries
            BY DEF TypeInv, TypeOK, QueueOK
          <6>2. rolePending'[c] = [rolePending[c] EXCEPT !.signatures = sigs]
            BY DEF TypeInv, TypeOK, QueueOK
          <6>3. rolePending'[c] \in RoleEntries
            BY <6>1, <6>2 DEF RoleEntries
          <6>4. QED
            BY <5>2, <6>3, NoneAssumption
        <5>3. QED
          BY <5>1, <5>2
      <4>3. QED
        BY <1>1, <3>2, <4>1, <4>2 DEF RoleListed
    <3>3. QED
      BY <3>1, <3>2
  <2>2. QED
    BY <2>1 DEF EveryWaiterIsListed
<1>5. QED
  BY <1>2, <1>3, <1>4 DEF Pairing
\* A send to one receiver, as far as the other submissions and the addressee see it.
LEMMA SendReaches ==
  ASSUME TypeInv, NEW s \in Submissions, NEW d \in Decisions, Send(s, d)
  PROVE  /\ \A t \in Submissions : t # s => mail'[t] = mail[t]
         /\ pc[s] # "waiting" \/ mail'[s] # None
BY CallsAssumption DEF TypeInv, TypeOK, SubsOK, Send, Receiving, Decisions

\* A decision on the head of the FIFO.
LEMMA ResolveHeadPairing ==
  ASSUME TypeInv, Pairing, NEW c \in FifoCalls, NEW d \in Decisions, ResolveHeadById(c, d),
         UNCHANGED <<pc, call, nonce, rolePending>>
  PROVE  Pairing'
<1>1. /\ pending \in Seq(FifoEntries) /\ pending # <<>> /\ pending' = Tail(pending)
      /\ Send(Head(pending).sub, d)
  BY DEF ResolveHeadById, TypeInv, TypeOK, QueueOK
<1>2. /\ Len(pending) \in Nat \ {0} /\ Head(pending) = pending[1]
      /\ Len(pending') = Len(pending) - 1
      /\ \A j \in 1..Len(pending') : pending'[j] = pending[j+1]
  BY <1>1, HeadTailProperties, EmptySeq
<1>3. 1 \in 1..Len(pending) /\ pending[1].sub \in Submissions
  BY <1>2, EntrySubs
<1>4. \A j \in 1..Len(pending)-1 : pending'[j] = IF j < 1 THEN pending[j] ELSE pending[j+1]
  BY <1>2
<1>5. /\ \A t \in Submissions : t # pending[1].sub => mail'[t] = mail[t]
      /\ pc[pending[1].sub] # "waiting" \/ mail'[pending[1].sub] # None
  BY <1>1, <1>2, <1>3, SendReaches
<1>6. QED
  BY <1>2, <1>3, <1>4, <1>5, FifoRemovalPairing

\* Members' decisions.
LEMMA DecidePairing ==
  ASSUME TypeInv, Pairing, Decide
  PROVE  Pairing'
<1>1. UNCHANGED <<pc, call, nonce>>
  BY DecideFrame
<1>2. ASSUME NEW c \in FifoCalls, ApproveById(c) \/ RejectById(c)
      PROVE  Pairing'
  <2>1. UNCHANGED rolePending /\ \E d \in Decisions : ResolveHeadById(c, d)
    BY <1>2 DEF ApproveById, RejectById, Decisions
  <2>2. QED
    BY <1>1, <2>1, ResolveHeadPairing
<1>3. ASSUME NEW c \in ChainCalls, ReportUnknown(c)
      PROVE  Pairing'
  <2>1. UNCHANGED <<pending, rolePending, mail, pc, call, nonce>>
    BY <1>3 DEF ReportUnknown, subVars
  <2>2. QED
    BY <2>1, QuietPairing DEF Unanswered
<1>4. ASSUME NEW c \in ChainCalls, ResolveUnknown(c)
      PROVE  Pairing'
  <2>1. UNCHANGED rolePending /\ c \in FifoCalls
    BY <1>4, CallsAssumption DEF ResolveUnknown
  <2>2. CASE ResolveHeadById(c, "OutcomeUnknown")
    BY <1>1, <2>1, <2>2, ResolveHeadPairing DEF Decisions
  <2>3. CASE UNCHANGED <<mail, told, pending>>
    BY <1>1, <2>1, <2>3, QuietPairing DEF Unanswered
  <2>4. QED
    BY <1>4, <2>2, <2>3 DEF ResolveUnknown
<1>5. ASSUME NEW c \in RoleCalls, RejectAction(c)
      PROVE  Pairing'
  <2>1. /\ rolePending[c] # None /\ Send(rolePending[c].sub, "Rejected")
        /\ rolePending' = [rolePending EXCEPT ![c] = None] /\ UNCHANGED pending
    BY <1>5 DEF RejectAction
  <2>2. /\ \A t \in Submissions : t # rolePending[c].sub => mail'[t] = mail[t]
        /\ pc[rolePending[c].sub] # "waiting" \/ mail'[rolePending[c].sub] # None
    BY <2>1, EntrySubs, SendReaches DEF Decisions
  <2>3. QED
    BY <1>1, <2>1, <2>2, RoleRemovalPairing
<1>6. ASSUME NEW c \in RoleCalls, NEW sig \in Signatures, NEW over \in RoleCalls,
             AddSignature(c, sig, over)
      PROVE  Pairing'
  <2> DEFINE entry == rolePending[c]
             sigs == entry.signatures \cup {sig}
  <2>1. entry # None /\ UNCHANGED pending
    BY <1>6 DEF AddSignature
  <2>2. entry \in RoleEntries /\ sigs \in SUBSET Signatures
    <3>1. entry \in RoleEntries
      BY <2>1, EntrySubs
    <3>2. QED
      BY <3>1 DEF RoleEntries
  <2>3. CASE SatisfiedBy(entry.quorum, RolesOf(sigs))
    <3>1. Send(entry.sub, "Approved") /\ rolePending' = [rolePending EXCEPT ![c] = None]
      BY <1>6, <2>3 DEF AddSignature
    <3>2. /\ \A t \in Submissions : t # entry.sub => mail'[t] = mail[t]
          /\ pc[entry.sub] # "waiting" \/ mail'[entry.sub] # None
      BY <2>1, <3>1, EntrySubs, SendReaches DEF Decisions
    <3>3. QED
      BY <1>1, <2>1, <3>1, <3>2, RoleRemovalPairing
  <2>4. CASE ~SatisfiedBy(entry.quorum, RolesOf(sigs))
    <3>1. rolePending' = [rolePending EXCEPT ![c].signatures = sigs] /\ UNCHANGED mail
      BY <1>6, <2>4 DEF AddSignature
    <3> HIDE DEF sigs
    <3>2. QED
      BY <1>1, <2>1, <2>2, <3>1, SignaturePairing
  <2>5. QED
    BY <2>3, <2>4
<1>7. QED
  BY <1>2, <1>3, <1>4, <1>5, <1>6 DEF Decide
\* A drain empties one track and answers every submission parked on it.
LEMMA DrainFifoPairing ==
  ASSUME TypeInv, Pairing, DrainFifo
  PROVE  Pairing'
<1> DEFINE receivers == {pending[i].sub : i \in 1..Len(pending)}
<1>1. SendAll(receivers, "Rejected") /\ pending' = <<>>
      /\ UNCHANGED <<pc, call, nonce, rolePending>>
  BY DEF DrainFifo
<1>2. \A i \in 1..Len(pending') : FALSE
  BY <1>1, EmptySeq
<1>3. \A i \in 1..Len(pending) : pending[i].sub \in receivers
  OBVIOUS
<1>4. \A t \in receivers : t \in Submissions /\ call[t] \in FifoCalls
  <2>1. ASSUME NEW i \in 1..Len(pending)
        PROVE  pending[i].sub \in Submissions /\ call[pending[i].sub] \in FifoCalls
    BY EntrySubs DEF Pairing, EveryEntryIsOwned, FifoEntries
  <2>2. QED
    BY <2>1
<1> HIDE DEF receivers
<1>5. \A t \in Submissions : /\ t \notin receivers => mail'[t] = mail[t]
                             /\ t \in receivers /\ pc[t] = "waiting" => mail'[t] # None
  BY <1>1, CallsAssumption DEF SendAll, Receiving
<1>6. OneEntryPerCall'
  BY <1>2 DEF OneEntryPerCall
<1>7. EveryEntryIsOwned'
  <2>1. ASSUME NEW d \in RoleCalls, rolePending[d] # None
        PROVE  /\ Unanswered(rolePending[d].sub)'
               /\ call'[rolePending[d].sub] = d
               /\ nonce'[rolePending[d].sub] = rolePending[d].nonce
    <3>1. /\ rolePending[d].sub \in Submissions /\ Unanswered(rolePending[d].sub)
          /\ call[rolePending[d].sub] = d /\ nonce[rolePending[d].sub] = rolePending[d].nonce
      BY <2>1, EntrySubs DEF Pairing, EveryEntryIsOwned
    <3>2. rolePending[d].sub \notin receivers
      BY <3>1, <1>4, CallsAssumption
    <3>3. QED
      BY <3>1, <3>2, <1>1, <1>5 DEF Unanswered
  <2>2. QED
    BY <2>1, <1>1, <1>2, Zenon DEF EveryEntryIsOwned
<1>8. EveryWaiterIsListed'
  <2>1. ASSUME NEW t \in Submissions, pc[t] = "waiting", mail'[t] = None
        PROVE  call[t] \notin FifoCalls /\ RoleListed(t)
    <3>1. t \notin receivers /\ mail[t] = None
      BY <2>1, <1>5
    <3>2. call[t] \notin FifoCalls
      <4>1. SUFFICES ASSUME call[t] \in FifoCalls PROVE FALSE
        OBVIOUS
      <4>2. PICK i \in 1..Len(pending) :
                   pending[i] = [call |-> call[t], nonce |-> nonce[t], sub |-> t]
        BY <2>1, <3>1, <4>1 DEF Pairing, EveryWaiterIsListed, FifoListed
      <4>3. QED
        BY <4>2, <3>1, <1>3
    <3>3. QED
      BY <2>1, <3>1, <3>2 DEF Pairing, EveryWaiterIsListed
  <2>2. QED
    BY <2>1, <1>1 DEF EveryWaiterIsListed, RoleListed
<1>9. QED
  BY <1>6, <1>7, <1>8 DEF Pairing

LEMMA DrainRolePairing ==
  ASSUME TypeInv, Pairing, DrainRole
  PROVE  Pairing'
<1> DEFINE listed == {d \in RoleCalls : rolePending[d] # None}
           receivers == {rolePending[c].sub : c \in listed}
<1>1. SendAll(receivers, "Rejected") /\ rolePending' = [c \in RoleCalls |-> None]
      /\ UNCHANGED <<pc, call, nonce, pending>>
  BY DEF DrainRole
<1>2. \A c \in RoleCalls : rolePending[c] # None => rolePending[c].sub \in receivers
  OBVIOUS
<1>3. \A t \in receivers : t \in Submissions /\ call[t] \in RoleCalls
  BY EntrySubs DEF Pairing, EveryEntryIsOwned
<1> HIDE DEF receivers
<1>4. \A t \in Submissions : /\ t \notin receivers => mail'[t] = mail[t]
                             /\ t \in receivers /\ pc[t] = "waiting" => mail'[t] # None
  BY <1>1, CallsAssumption DEF SendAll, Receiving
<1>5. OneEntryPerCall'
  BY <1>1 DEF Pairing, OneEntryPerCall
<1>6. EveryEntryIsOwned'
  <2>1. ASSUME NEW i \in 1..Len(pending)
        PROVE  /\ Unanswered(pending[i].sub)'
               /\ call'[pending[i].sub] = pending[i].call
               /\ nonce'[pending[i].sub] = pending[i].nonce
    <3>1. /\ pending[i].sub \in Submissions /\ pending[i].call \in FifoCalls
          /\ Unanswered(pending[i].sub) /\ call[pending[i].sub] = pending[i].call
          /\ nonce[pending[i].sub] = pending[i].nonce
      BY EntrySubs DEF Pairing, EveryEntryIsOwned, FifoEntries
    <3>2. pending[i].sub \notin receivers
      BY <3>1, <1>3, CallsAssumption
    <3>3. QED
      BY <3>1, <3>2, <1>1, <1>4 DEF Unanswered
  <2>2. \A c \in RoleCalls : rolePending'[c] = None
    BY <1>1
  <2>3. QED
    BY <2>1, <2>2, <1>1, Zenon DEF EveryEntryIsOwned
<1>7. EveryWaiterIsListed'
  <2>1. ASSUME NEW t \in Submissions, pc[t] = "waiting", mail'[t] = None
        PROVE  call[t] \in FifoCalls /\ FifoListed(t)
    <3>1. t \notin receivers /\ mail[t] = None
      BY <2>1, <1>4
    <3>2. call[t] \in Calls
      BY <2>1 DEF TypeInv, ArgumentsOK
    <3>3. call[t] \in FifoCalls
      <4>1. SUFFICES ASSUME call[t] \notin FifoCalls PROVE FALSE
        OBVIOUS
      <4>2. call[t] \in RoleCalls /\ RoleListed(t)
        BY <2>1, <3>1, <3>2, <4>1 DEF Pairing, EveryWaiterIsListed, Calls
      <4>3. QED
        BY <4>2, <3>1, <1>2 DEF RoleListed
    <3>4. QED
      BY <2>1, <3>1, <3>3 DEF Pairing, EveryWaiterIsListed
  <2>2. QED
    BY <2>1, <1>1 DEF EveryWaiterIsListed, FifoListed
<1>8. QED
  BY <1>5, <1>6, <1>7 DEF Pairing

LEMMA NextPairing ==
  TypeInv /\ NoncesDistinct /\ NoEarlyMail /\ Pairing /\ [Next]_vars => Pairing'
<1> SUFFICES ASSUME TypeInv, NoncesDistinct, NoEarlyMail, Pairing, [Next]_vars PROVE Pairing'
  OBVIOUS
<1>1. CASE UNCHANGED vars
  <2>1. UNCHANGED <<pc, call, nonce, mail, pending, rolePending>>
    BY <1>1 DEF vars, subVars, queueVars
  <2>2. QED
    BY <2>1, QuietPairing DEF Unanswered
<1>2. ASSUME NEW s \in Submissions, Submit(s) \/ Proceed(s) \/ DropFuture(s)
      PROVE  Pairing'
  BY <1>2, QuietStepPairing, EnqueueFifoPairing, EnqueueRolePairing, LeaveFifoPairing,
     LeaveRolePairing, Zenon DEF Proceed
<1>3. CASE Decide
  BY <1>3, DecidePairing
<1>4. CASE Freeze \/ Thaw \/ \E tool \in Tools : AddGrant(tool) \/ GrantExpires(tool)
  <2>1. UNCHANGED <<pc, call, nonce, mail, pending, rolePending>>
    BY <1>4 DEF Freeze, Thaw, AddGrant, GrantExpires, subVars
  <2>2. QED
    BY <2>1, QuietPairing DEF Unanswered
<1>5. CASE Drain
  BY <1>5, DrainFifoPairing, DrainRolePairing DEF Drain
<1>6. QED
  BY <1>1, <1>2, <1>3, <1>4, <1>5 DEF Next

\* The inductive invariant of the queue.
THEOREM QueueInvariant == Spec => []QueueInv
<1>1. Init => QueueInv
  <2>1. Init => NoncesDistinct /\ NoEarlyMail /\ DrainOrder /\ StopEmpties
    BY DEF Init, NoncesDistinct, HasNonce, NoEarlyMail, DrainOrder, StopEmpties
  <2>2. Init => Pairing
    BY DEF Init, Pairing, OneEntryPerCall, EveryEntryIsOwned, EveryWaiterIsListed
  <2>3. QED
    BY <2>1, <2>2, InitTypeInv DEF QueueInv, Pairing
<1>2. QueueInv /\ [Next]_vars => QueueInv'
  BY NextTypeInv, NextNonces, NextEarlyMail, NextStop, NextPairing DEF QueueInv, Pairing
<1>3. QED
  BY <1>1, <1>2, PTL DEF Spec

\* A submission parked and unanswered is listed under its own call and nonce, so
\* a member or the stop can reach it (mod.rs:316-329, 556-605, 639-672).
THEOREM WaitersAreListed == Spec => []EveryWaiterIsListed
<1>1. QueueInv => EveryWaiterIsListed
  BY DEF QueueInv
<1>2. QED
  BY <1>1, QueueInvariant, PTL

\* No entry outlives its submission or its answer (mod.rs:316-329, 556-605).
THEOREM EntriesAreOwned == Spec => []EveryEntryIsOwned
<1>1. QueueInv => EveryEntryIsOwned
  BY DEF QueueInv
<1>2. QED
  BY <1>1, QueueInvariant, PTL

\* A call id names at most one waiting entry (mod.rs:403-412).
THEOREM CallsWaitOnce == Spec => []OneEntryPerCall
<1>1. QueueInv => OneEntryPerCall
  BY DEF QueueInv
<1>2. QED
  BY <1>1, QueueInvariant, PTL

\* All three at once: a decision, the stop and a late guard meet exactly the
\* submissions that wait (mod.rs:316-329, 403-412, 556-605).
THEOREM QueueIsPaired == Spec => []EntriesMatchWaiters
<1>1. QueueInv => EntriesMatchWaiters
  BY DEF QueueInv, EntriesMatchWaiters
<1>2. QED
  BY <1>1, QueueInvariant, PTL

-----------------------------------------------------------------------------
(* What leaves the queue: an action is released only by a real quorum, and   *)
(* the queue implements ApprovalPromise. Both build on the pairing of entries *)
(* and submissions above.                                                    *)

\* A submission has a result exactly when it has stopped listening.
ResultsInOrder ==
  \A s \in Submissions :
    /\ pc[s] \in {"idle", "grant", "prior", "enqueue", "waiting"} => outcome[s] = None
    /\ pc[s] \in {"elapsed", "leaving", "done"} => outcome[s] \in Outcomes

\* Signatures add_signature can have let in on an action proposed by p.
Gathered(sigs, p) ==
  /\ sigs \in SUBSET Signatures /\ IsFiniteSet(sigs)
  /\ \A sig \in sigs : <<sig.id, sig.role>> \in Roster /\ CanApprove(sig.role) /\ sig.id # p
  /\ \A a, b \in sigs : a.id = b.id => a = b

\* An entry still asks for what its submission asked for, and holds only
\* signatures that were let in.
EntriesGather ==
  \A c \in RoleCalls : rolePending[c] # None =>
    LET entry == rolePending[c] IN
    /\ entry.quorum = quorum[entry.sub] /\ entry.proposer = proposer[entry.sub]
    /\ Gathered(entry.signatures, entry.proposer)

\* A submission that was approved was approved by the signatures recorded.
ApprovedBySigned ==
  \A s \in Submissions :
    call[s] \in RoleCalls /\ (mail[s] = "Approved" \/ outcome[s] = "Approved") =>
      /\ quorum[s] \in Quora
      /\ Gathered(signed[s], proposer[s]) /\ SatisfiedBy(quorum[s], RolesOf(signed[s]))

ReleaseInv == ResultsInOrder /\ EntriesGather /\ ApprovedBySigned

-----------------------------------------------------------------------------
(* One step, seen from the submissions *)

\* A submission's own step: nobody else's arguments or result change, its own
\* arguments are set once, and it ends approved only by the value it was sent.
LEMMA StepResult ==
  ASSUME TypeInv, ResultsInOrder, NEW s \in Submissions, Submit(s) \/ Proceed(s) \/ DropFuture(s)
  PROVE  /\ UNCHANGED signed
         /\ pc[s] # "idle" => UNCHANGED <<call, quorum, proposer>>
         /\ \A t \in Submissions : t # s =>
              /\ call'[t] = call[t] /\ quorum'[t] = quorum[t] /\ proposer'[t] = proposer[t]
              /\ outcome'[t] = outcome[t]
         /\ \/ pc'[s] \in {"grant", "prior", "enqueue", "waiting"} /\ outcome'[s] = None
            \/ pc'[s] \in {"elapsed", "leaving", "done"} /\ outcome'[s] \in Outcomes
         /\ outcome'[s] = "Approved" =>
              pc[s] # "idle" /\ (outcome[s] = "Approved" \/ mail[s] = "Approved")
<1> USE DEF TypeInv, TypeOK, SubsOK, ResultsInOrder, Outcomes, Decisions
<1>1. ASSUME NEW c \in FifoCalls, SubmitFifo(s, c)
      PROVE  /\ UNCHANGED <<signed, quorum, proposer>> /\ pc[s] = "idle"
             /\ call' = [call EXCEPT ![s] = c]
             /\ \/ pc' = [pc EXCEPT ![s] = "done"] /\ outcome' = [outcome EXCEPT ![s] = "Rejected"]
                \/ pc' = [pc EXCEPT ![s] = "grant"] /\ UNCHANGED outcome
  BY <1>1 DEF SubmitFifo, Goto, ReturnAt, histVars
<1>2. ASSUME NEW c \in RoleCalls, NEW t \in Tiers, NEW m \in ManifestRoles,
             NEW p \in Signers, SubmitForAction(s, c, t, m, p)
      PROVE  /\ UNCHANGED signed /\ pc[s] = "idle"
             /\ call' = [call EXCEPT ![s] = c]
             /\ \E q \in Quora : quorum' = [quorum EXCEPT ![s] = q]
             /\ proposer' = [proposer EXCEPT ![s] = p]
             /\ \/ pc' = [pc EXCEPT ![s] = "done"] /\ outcome' = [outcome EXCEPT ![s] = "Rejected"]
                \/ pc' = [pc EXCEPT ![s] = "done"] /\ outcome' = [outcome EXCEPT ![s] = "AutoApproved"]
                \/ pc' = [pc EXCEPT ![s] = "enqueue"] /\ UNCHANGED outcome
  <2>1. quorum' = [quorum EXCEPT ![s] = ForTier(t, m)] /\ ForTier(t, m) \in Quora
    BY <1>2, ForTierIsQuorum DEF SubmitForAction
  <2>2. QED
    BY <1>2, <2>1, Zenon DEF SubmitForAction, Goto, ReturnAt, histVars
<1>3. CASE Submit(s)
  <2>1. \/ \E c \in FifoCalls : SubmitFifo(s, c)
        \/ \E c \in RoleCalls, t \in Tiers, m \in ManifestRoles, p \in Signers :
              SubmitForAction(s, c, t, m, p)
    BY <1>3 DEF Submit
  <2>2. /\ UNCHANGED signed /\ pc[s] = "idle"
        /\ \E c : call' = [call EXCEPT ![s] = c]
        /\ UNCHANGED quorum \/ \E q \in Quora : quorum' = [quorum EXCEPT ![s] = q]
        /\ UNCHANGED proposer \/ \E p \in Signers : proposer' = [proposer EXCEPT ![s] = p]
        /\ \/ pc' = [pc EXCEPT ![s] = "done"] /\ outcome' = [outcome EXCEPT ![s] = "Rejected"]
           \/ pc' = [pc EXCEPT ![s] = "done"] /\ outcome' = [outcome EXCEPT ![s] = "AutoApproved"]
           \/ pc' = [pc EXCEPT ![s] = "enqueue"] /\ UNCHANGED outcome
           \/ pc' = [pc EXCEPT ![s] = "grant"] /\ UNCHANGED outcome
    <3>1. CASE \E c \in FifoCalls : SubmitFifo(s, c)
      BY <3>1, <1>1
    <3>2. CASE \E c \in RoleCalls, t \in Tiers, m \in ManifestRoles, p \in Signers :
                  SubmitForAction(s, c, t, m, p)
      BY <3>2, <1>2
    <3>3. QED
      BY <2>1, <3>1, <3>2
  <2>3. outcome[s] = None /\ None # "Approved"
    BY <2>2, CallsAssumption
  <2>4. QED
    BY <2>2, <2>3
<1>4. CASE CheckGrant(s)
  <2>1. /\ pc[s] = "grant" /\ UNCHANGED <<call, quorum, proposer, outcome, signed>>
        /\ pc' = [pc EXCEPT ![s] = "prior"] \/ pc' = [pc EXCEPT ![s] = "enqueue"]
    BY <1>4, Zenon DEF CheckGrant, TakeNonce, Goto, histVars
  <2>2. QED
    BY <2>1, CallsAssumption
<1>5. CASE CheckPriorUnknown(s)
  <2>1. /\ pc[s] = "prior" /\ UNCHANGED <<call, quorum, proposer, signed>>
        /\ \/ pc' = [pc EXCEPT ![s] = "done"] /\ outcome' = [outcome EXCEPT ![s] = "AutoApproved"]
           \/ pc' = [pc EXCEPT ![s] = "enqueue"] /\ UNCHANGED outcome
    BY <1>5, Zenon DEF CheckPriorUnknown, TakeNonce, Goto, ReturnAt, histVars
  <2>2. QED
    BY <2>1, CallsAssumption
<1>6. CASE EnqueueFifo(s) \/ EnqueueRole(s)
  <2>1. /\ pc[s] = "enqueue" /\ UNCHANGED <<call, quorum, proposer, signed>>
        /\ \/ pc' = [pc EXCEPT ![s] = "done"] /\ outcome' = [outcome EXCEPT ![s] = "Rejected"]
           \/ pc' = [pc EXCEPT ![s] = "waiting"] /\ UNCHANGED outcome
    BY <1>6, Zenon DEF EnqueueFifo, EnqueueRole, ParkFifoUnless, ParkRoleUnless, Goto, ReturnAt, histVars
  <2>2. QED
    BY <2>1, CallsAssumption
<1>7. CASE Receive(s) \/ TimerElapses(s) \/ DropFuture(s)
  BY <1>7, CallsAssumption DEF Receive, TimerElapses, DropFuture, Goto, histVars
<1>8. CASE DropReceiver(s) \/ LeaveFifo(s) \/ LeaveRole(s)
  BY <1>8, CallsAssumption DEF DropReceiver, LeaveFifo, LeaveRole, Goto, histVars
<1>9. QED
  BY <1>3, <1>4, <1>5, <1>6, <1>7, <1>8 DEF Proceed

LEMMA NextResults == TypeInv /\ ResultsInOrder /\ [Next]_vars => ResultsInOrder'
<1> SUFFICES ASSUME TypeInv, ResultsInOrder, [Next]_vars PROVE ResultsInOrder'
  OBVIOUS
<1>1. CASE UNCHANGED vars
  BY <1>1 DEF vars, subVars, ResultsInOrder
<1>2. ASSUME NEW s \in Submissions, Submit(s) \/ Proceed(s) \/ DropFuture(s)
      PROVE  ResultsInOrder'
  <2>1. PICK next \in PCs : pc' = [pc EXCEPT ![s] = next]
    BY <1>2, StepNonce
  <2>2. /\ \A t \in Submissions : t # s => outcome'[t] = outcome[t]
        /\ \/ pc'[s] \in {"grant", "prior", "enqueue", "waiting"} /\ outcome'[s] = None
           \/ pc'[s] \in {"elapsed", "leaving", "done"} /\ outcome'[s] \in Outcomes
    BY <1>2, StepResult
  <2>3. QED
    BY <2>1, <2>2 DEF ResultsInOrder, TypeInv, TypeOK, SubsOK
<1>3. CASE Decide \/ Freeze \/ Drain \/ Thaw \/ \E tool \in Tools : AddGrant(tool) \/ GrantExpires(tool)
  BY <1>3, DecideFrame DEF ResultsInOrder
<1>4. QED
  BY <1>1, <1>2, <1>3 DEF Next

-----------------------------------------------------------------------------
(* Only a real quorum releases *)

\* Steps that approve no role-track submission and add to no entry.
LEMMA QuietRelease ==
  ASSUME EntriesGather, ApprovedBySigned, UNCHANGED <<call, quorum, proposer, outcome, signed>>,
         \A t \in Submissions : call[t] \in RoleCalls /\ mail'[t] = "Approved" => mail[t] = "Approved",
         \A c \in RoleCalls : rolePending'[c] = rolePending[c] \/ rolePending'[c] = None
  PROVE  EntriesGather' /\ ApprovedBySigned'
BY DEF EntriesGather, ApprovedBySigned

\* resolve_head_by_id decides for a FIFO call only.
LEMMA ResolveHeadRelease ==
  ASSUME TypeInv, EveryEntryIsOwned, NEW c \in FifoCalls, NEW d \in Decisions, ResolveHeadById(c, d)
  PROVE  \A t \in Submissions : call[t] \in RoleCalls => mail'[t] = mail[t]
<1>1. pending \in Seq(FifoEntries) /\ pending # <<>> /\ Send(Head(pending).sub, d)
  BY DEF ResolveHeadById, TypeInv, TypeOK, QueueOK
<1>2. 1 \in 1..Len(pending) /\ Head(pending) = pending[1]
  BY <1>1, HeadTailProperties, EmptySeq
<1>3. pending[1].sub \in Submissions /\ call[pending[1].sub] = pending[1].call
      /\ pending[1].call \in FifoCalls
  BY <1>2, EntrySubs DEF EveryEntryIsOwned, FifoEntries
<1>4. \A t \in Submissions : t # pending[1].sub => mail'[t] = mail[t]
  BY <1>1, <1>2, <1>3, SendReaches
<1>5. QED
  BY <1>3, <1>4, CallsAssumption

\* One more acceptable signature.
LEMMA GatheredGrows ==
  ASSUME NEW entry \in RoleEntries, NEW c, NEW sig \in Signatures, NEW over,
         Gathered(entry.signatures, entry.proposer), Acceptable(entry, c, sig, over)
  PROVE  Gathered(entry.signatures \cup {sig}, entry.proposer)
<1>1. IsFiniteSet(entry.signatures \cup {sig})
  BY FS_AddElement DEF Gathered
<1>2. QED
  BY <1>1 DEF Gathered, Acceptable

LEMMA AddSignatureRelease ==
  ASSUME TypeInv, EveryEntryIsOwned, EntriesGather, ApprovedBySigned,
         NEW c \in RoleCalls, NEW sig \in Signatures, NEW over \in RoleCalls, AddSignature(c, sig, over)
  PROVE  EntriesGather' /\ ApprovedBySigned'
<1> DEFINE entry == rolePending[c]
           sigs == entry.signatures \cup {sig}
<1>1. entry # None /\ Acceptable(entry, c, sig, over)
      /\ UNCHANGED <<call, quorum, proposer, outcome>>
  BY DEF AddSignature
<1>2. /\ entry \in RoleEntries /\ entry.sub \in Submissions /\ call[entry.sub] = c
      /\ entry.quorum = quorum[entry.sub] /\ entry.proposer = proposer[entry.sub]
      /\ Gathered(entry.signatures, entry.proposer) /\ entry.quorum \in Quora
  BY <1>1, EntrySubs DEF EveryEntryIsOwned, EntriesGather, RoleEntries
<1>3. Gathered(sigs, entry.proposer)
  BY <1>1, <1>2, GatheredGrows
<1>4. rolePending \in [RoleCalls -> RoleEntries \cup {None}] /\ signed \in [Submissions -> SUBSET Signatures]
  BY DEF TypeInv, TypeOK, QueueOK, HistoryOK
<1>5. CASE SatisfiedBy(entry.quorum, RolesOf(sigs))
  <2>1. /\ rolePending' = [rolePending EXCEPT ![c] = None] /\ Send(entry.sub, "Approved")
        /\ signed' = [signed EXCEPT ![entry.sub] = sigs]
    BY <1>5 DEF AddSignature
  <2>2. \A t \in Submissions : t # entry.sub => mail'[t] = mail[t] /\ signed'[t] = signed[t]
    BY <2>1, <1>2, <1>4, SendReaches DEF Decisions
  <2>3. signed'[entry.sub] = sigs
    BY <2>1, <1>2, <1>4
  <2> HIDE DEF sigs
  <2>4. EntriesGather'
    BY <2>1, <1>1, <1>4 DEF EntriesGather
  <2>5. ApprovedBySigned'
    BY <2>2, <2>3, <1>1, <1>2, <1>3, <1>5 DEF ApprovedBySigned
  <2>6. QED
    BY <2>4, <2>5
<1>6. CASE ~SatisfiedBy(entry.quorum, RolesOf(sigs))
  <2>1. rolePending' = [rolePending EXCEPT ![c].signatures = sigs] /\ UNCHANGED <<mail, signed>>
    BY <1>6 DEF AddSignature
  <2> HIDE DEF sigs
  <2>2. /\ rolePending'[c].signatures = sigs /\ rolePending'[c].quorum = entry.quorum
        /\ rolePending'[c].proposer = entry.proposer /\ rolePending'[c].sub = entry.sub
        /\ \A d \in RoleCalls : d # c => rolePending'[d] = rolePending[d]
    BY <2>1, <1>2, <1>4 DEF RoleEntries
  <2> HIDE DEF entry
  <2>3. EntriesGather'
    <3>1. ASSUME NEW d \in RoleCalls, rolePending'[d] # None
          PROVE  /\ rolePending'[d].quorum = quorum'[rolePending'[d].sub]
                 /\ rolePending'[d].proposer = proposer'[rolePending'[d].sub]
                 /\ Gathered(rolePending'[d].signatures, rolePending'[d].proposer)
      <4>1. CASE d = c
        BY <4>1, <2>2, <1>1, <1>2, <1>3
      <4>2. CASE d # c
        BY <4>2, <3>1, <2>2, <1>1 DEF EntriesGather
      <4>3. QED
        BY <4>1, <4>2
    <3>2. QED
      BY <3>1 DEF EntriesGather
  <2>4. ApprovedBySigned'
    BY <2>1, <1>1 DEF ApprovedBySigned
  <2>5. QED
    BY <2>3, <2>4
<1>7. QED
  BY <1>5, <1>6

LEMMA DecideRelease ==
  ASSUME TypeInv, EveryEntryIsOwned, EntriesGather, ApprovedBySigned, Decide
  PROVE  EntriesGather' /\ ApprovedBySigned'
<1>1. UNCHANGED <<call, quorum, proposer, outcome>>
  BY DecideFrame
<1>2. ASSUME NEW c \in FifoCalls, ApproveById(c) \/ RejectById(c)
      PROVE  EntriesGather' /\ ApprovedBySigned'
  <2>1. UNCHANGED <<rolePending, signed>> /\ \E d \in Decisions : ResolveHeadById(c, d)
    BY <1>2 DEF ApproveById, RejectById, Decisions
  <2>2. QED
    BY <2>1, <1>1, ResolveHeadRelease, QuietRelease
<1>3. ASSUME NEW c \in ChainCalls, ReportUnknown(c)
      PROVE  EntriesGather' /\ ApprovedBySigned'
  <2>1. UNCHANGED <<rolePending, signed, mail>>
    BY <1>3 DEF ReportUnknown, subVars
  <2>2. QED
    BY <2>1, <1>1, QuietRelease
<1>4. ASSUME NEW c \in ChainCalls, ResolveUnknown(c)
      PROVE  EntriesGather' /\ ApprovedBySigned'
  <2>1. UNCHANGED <<rolePending, signed>> /\ c \in FifoCalls
    BY <1>4, CallsAssumption DEF ResolveUnknown
  <2>2. \A t \in Submissions : call[t] \in RoleCalls => mail'[t] = mail[t]
    BY <1>4, <2>1, ResolveHeadRelease DEF ResolveUnknown, Decisions
  <2>3. QED
    BY <2>1, <2>2, <1>1, QuietRelease
<1>5. ASSUME NEW c \in RoleCalls, RejectAction(c)
      PROVE  EntriesGather' /\ ApprovedBySigned'
  <2>1. /\ Send(rolePending[c].sub, "Rejected") /\ UNCHANGED signed
        /\ rolePending' = [rolePending EXCEPT ![c] = None]
    BY <1>5 DEF RejectAction
  <2>2. \A t \in Submissions : mail'[t] = "Approved" => mail[t] = "Approved"
    BY <2>1 DEF Send, TypeInv, TypeOK, SubsOK
  <2>3. \A d \in RoleCalls : rolePending'[d] = rolePending[d] \/ rolePending'[d] = None
    BY <2>1 DEF TypeInv, TypeOK, QueueOK
  <2>4. QED
    BY <2>1, <2>2, <2>3, <1>1, QuietRelease
<1>6. QED
  BY <1>2, <1>3, <1>4, <1>5, AddSignatureRelease DEF Decide

LEMMA ControlRelease ==
  ASSUME TypeInv, EntriesGather, ApprovedBySigned,
         Freeze \/ Drain \/ Thaw \/ \E tool \in Tools : AddGrant(tool) \/ GrantExpires(tool)
  PROVE  EntriesGather' /\ ApprovedBySigned'
<1>1. UNCHANGED <<call, quorum, proposer, outcome>>
  BY DecideFrame
<1>2. CASE Drain
  <2>1. PICK receivers : SendAll(receivers, "Rejected")
    BY <1>2, Zenon DEF Drain, DrainFifo, DrainRole
  <2>2. \A t \in Submissions : mail'[t] = "Approved" => mail[t] = "Approved"
    BY <2>1 DEF SendAll
  <2>3. UNCHANGED signed /\ (UNCHANGED rolePending \/ rolePending' = [c \in RoleCalls |-> None])
    BY <1>2, Zenon DEF Drain, DrainFifo, DrainRole, histVars
  <2>4. QED
    BY <2>2, <2>3, <1>1, QuietRelease
<1>3. CASE Freeze \/ Thaw \/ \E tool \in Tools : AddGrant(tool) \/ GrantExpires(tool)
  <2>1. UNCHANGED <<mail, rolePending, signed>>
    BY <1>3 DEF Freeze, Thaw, AddGrant, GrantExpires, subVars, histVars
  <2>2. QED
    BY <2>1, <1>1, QuietRelease
<1>4. QED
  BY <1>2, <1>3

\* A submission's own step leaves each action's entry, takes it out, or parks
\* its own without a signature.
LEMMA StepEntries ==
  ASSUME TypeInv, NEW s \in Submissions, Submit(s) \/ Proceed(s) \/ DropFuture(s), NEW c \in RoleCalls
  PROVE  \/ rolePending'[c] = rolePending[c] \/ rolePending'[c] = None
         \/ /\ pc[s] = "enqueue"
            /\ rolePending'[c] = [quorum |-> quorum[s], proposer |-> proposer[s],
                                  signatures |-> {}, nonce |-> nonce[s], sub |-> s]
<1> USE DEF TypeInv, TypeOK, QueueOK
<1>1. CASE EnqueueRole(s)
  <2>1. /\ pc[s] = "enqueue"
        /\ \/ UNCHANGED rolePending
           \/ rolePending' = [rolePending EXCEPT ![call[s]] =
                 [quorum |-> quorum[s], proposer |-> proposer[s], signatures |-> {},
                  nonce |-> nonce[s], sub |-> s]]
    BY <1>1, Zenon DEF EnqueueRole, ParkRoleUnless
  <2>2. QED
    BY <2>1
<1>2. CASE LeaveRole(s)
  <2>1. UNCHANGED rolePending \/ rolePending' = [rolePending EXCEPT ![call[s]] = None]
    BY <1>2, Zenon DEF LeaveRole
  <2>2. QED
    BY <2>1
<1>3. CASE Submit(s) \/ CheckGrant(s) \/ CheckPriorUnknown(s) \/ EnqueueFifo(s) \/ Receive(s)
           \/ TimerElapses(s) \/ DropFuture(s) \/ DropReceiver(s) \/ LeaveFifo(s)
  BY <1>3 DEF Submit, SubmitFifo, SubmitForAction, CheckGrant, CheckPriorUnknown, EnqueueFifo,
     ParkFifoUnless, Receive, TimerElapses, DropFuture, DropReceiver, LeaveFifo, queueVars
<1>4. QED
  BY <1>1, <1>2, <1>3 DEF Proceed

LEMMA StepRelease ==
  ASSUME TypeInv, NoEarlyMail, EveryEntryIsOwned, ReleaseInv,
         NEW s \in Submissions, Submit(s) \/ Proceed(s) \/ DropFuture(s)
  PROVE  EntriesGather' /\ ApprovedBySigned'
<1>1. /\ UNCHANGED <<signed, mail>>
      /\ pc[s] # "idle" => UNCHANGED <<call, quorum, proposer>>
      /\ \A t \in Submissions : t # s =>
           /\ call'[t] = call[t] /\ quorum'[t] = quorum[t] /\ proposer'[t] = proposer[t]
           /\ outcome'[t] = outcome[t]
      /\ outcome'[s] = "Approved" =>
           pc[s] # "idle" /\ (outcome[s] = "Approved" \/ mail[s] = "Approved")
  BY StepResult, StepKeepsMail DEF ReleaseInv
<1>2. EntriesGather'
  <2>1. ASSUME NEW c \in RoleCalls, rolePending'[c] # None
        PROVE  /\ rolePending'[c].quorum = quorum'[rolePending'[c].sub]
               /\ rolePending'[c].proposer = proposer'[rolePending'[c].sub]
               /\ Gathered(rolePending'[c].signatures, rolePending'[c].proposer)
    <3>1. CASE rolePending'[c] = rolePending[c]
      <4>1. /\ rolePending[c].sub \in Submissions /\ Unanswered(rolePending[c].sub)
            /\ rolePending[c].quorum = quorum[rolePending[c].sub]
            /\ rolePending[c].proposer = proposer[rolePending[c].sub]
            /\ Gathered(rolePending[c].signatures, rolePending[c].proposer)
        BY <2>1, <3>1, EntrySubs DEF EveryEntryIsOwned, ReleaseInv, EntriesGather
      <4>2. /\ quorum'[rolePending[c].sub] = quorum[rolePending[c].sub]
            /\ proposer'[rolePending[c].sub] = proposer[rolePending[c].sub]
        BY <4>1, <1>1 DEF Unanswered
      <4>3. QED
        BY <3>1, <4>1, <4>2
    <3>2. CASE /\ pc[s] = "enqueue"
               /\ rolePending'[c] = [quorum |-> quorum[s], proposer |-> proposer[s],
                                     signatures |-> {}, nonce |-> nonce[s], sub |-> s]
      <4>1. Gathered({}, proposer[s])
        BY FS_EmptySet DEF Gathered
      <4>2. QED
        BY <3>2, <4>1, <1>1
    <3>3. QED
      BY <2>1, <3>1, <3>2, StepEntries
  <2>2. QED
    BY <2>1 DEF EntriesGather
<1>3. ApprovedBySigned'
  <2>1. ASSUME NEW t \in Submissions, call'[t] \in RoleCalls,
               mail'[t] = "Approved" \/ outcome'[t] = "Approved"
        PROVE  /\ quorum'[t] \in Quora
               /\ Gathered(signed'[t], proposer'[t])
               /\ SatisfiedBy(quorum'[t], RolesOf(signed'[t]))
    <3>1. pc[s] = "idle" => mail[s] = None /\ None # "Approved"
      BY CallsAssumption DEF NoEarlyMail
    <3>2. /\ call'[t] = call[t] /\ quorum'[t] = quorum[t] /\ proposer'[t] = proposer[t]
          /\ signed'[t] = signed[t]
          /\ mail[t] = "Approved" \/ outcome[t] = "Approved"
      BY <2>1, <3>1, <1>1
    <3>3. QED
      BY <2>1, <3>2 DEF ReleaseInv, ApprovedBySigned
  <2>2. QED
    BY <2>1 DEF ApprovedBySigned
<1>4. QED
  BY <1>2, <1>3

LEMMA NextRelease == QueueInv /\ ReleaseInv /\ [Next]_vars => ReleaseInv'
<1> SUFFICES ASSUME QueueInv, ReleaseInv, [Next]_vars PROVE ReleaseInv'
  OBVIOUS
<1>1. TypeInv /\ NoEarlyMail /\ EveryEntryIsOwned
  BY DEF QueueInv
<1>2. ResultsInOrder'
  BY <1>1, NextResults DEF ReleaseInv
<1>3. CASE UNCHANGED vars
  <2>1. UNCHANGED <<call, quorum, proposer, outcome, signed, mail, rolePending>>
    BY <1>3 DEF vars, subVars, queueVars, histVars
  <2>2. QED
    BY <2>1, <1>2, QuietRelease DEF ReleaseInv
<1>4. CASE Next
  BY <1>1, <1>2, <1>4, StepRelease, DecideRelease, ControlRelease DEF Next, ReleaseInv
<1>5. QED
  BY <1>3, <1>4

\* A signature set in which nobody signed twice has as many people as it has
\* signatures, and at least as many as the roles that count.
LEMMA RolesArePeople ==
  ASSUME NEW sigs, NEW p, Gathered(sigs, p), NEW roles, roles \subseteq RolesOf(sigs)
  PROVE  /\ Cardinality(roles) \in Nat /\ Cardinality({sig.id : sig \in sigs}) \in Nat
         /\ Cardinality(roles) <= Cardinality({sig.id : sig \in sigs})
<1> DEFINE ids == {sig.id : sig \in sigs}
           idOf == [sig \in sigs |-> sig.id]
           roleOf == [sig \in sigs |-> sig.role]
<1>1. IsFiniteSet(sigs)
  BY DEF Gathered
<1>2. roleOf \in Surjection(sigs, RolesOf(sigs))
  BY DEF Surjection, RolesOf
<1>3. IsFiniteSet(RolesOf(sigs)) /\ Cardinality(RolesOf(sigs)) <= Cardinality(sigs)
  BY <1>1, <1>2, FS_Surjection
<1>4. idOf \in Bijection(sigs, ids)
  <2>1. idOf \in [sigs -> ids] /\ \A sig \in sigs : idOf[sig] = sig.id
    OBVIOUS
  <2>2. \A id \in ids : \E sig \in sigs : idOf[sig] = id
    OBVIOUS
  <2>3. \A a, b \in sigs : a.id = b.id => a = b
    BY DEF Gathered
  <2> HIDE DEF idOf, ids
  <2>4. QED
    BY <2>1, <2>2, <2>3 DEF Bijection, Injection, IsInjective, Surjection
<1>5. IsFiniteSet(ids) /\ Cardinality(ids) = Cardinality(sigs)
  BY <1>1, <1>4, FS_Bijection DEF ExistsBijection
<1>6. IsFiniteSet(roles) /\ Cardinality(roles) <= Cardinality(RolesOf(sigs))
  BY <1>3, FS_Subset
<1>7. Cardinality(roles) \in Nat /\ Cardinality(ids) \in Nat
      /\ Cardinality(RolesOf(sigs)) \in Nat /\ Cardinality(sigs) \in Nat
  BY <1>1, <1>3, <1>5, <1>6, FS_CardinalityType
<1> HIDE DEF ids
<1>8. Cardinality(roles) <= Cardinality(ids)
  BY <1>3, <1>5, <1>6, <1>7
<1>9. QED
  BY <1>7, <1>8 DEF ids

\* What releases an action, for every quorum, roster and number of people: the
\* signatures meet the quorum, are made by enrolled people who may approve, none
\* of them the proposer, one each, and a high tier takes as many people as its
\* quorum names (mod.rs:698-783, quorum.rs:73-93).
THEOREM ReleaseIsByQuorum == Spec => []ReleaseHasQuorum
<1>1. Init => ReleaseInv
  BY CallsAssumption DEF Init, ReleaseInv, ResultsInOrder, EntriesGather, ApprovedBySigned
<1>2. ReleaseInv => ReleaseHasQuorum
  <2> SUFFICES ASSUME ApprovedBySigned, NEW s \in Submissions, call[s] \in RoleCalls,
                      mail[s] = "Approved" \/ outcome[s] = "Approved"
               PROVE  /\ SatisfiedBy(quorum[s], RolesOf(signed[s]))
                      /\ \A sig \in signed[s] : /\ <<sig.id, sig.role>> \in Roster
                                                /\ CanApprove(sig.role)
                                                /\ sig.id # proposer[s]
                      /\ \A a, b \in signed[s] : a.id = b.id => a = b
                      /\ quorum[s].kind = "NofM" =>
                           Cardinality({sig.id : sig \in signed[s]}) >= quorum[s].n
    BY DEF ReleaseInv, ReleaseHasQuorum
  <2>1. /\ Gathered(signed[s], proposer[s]) /\ SatisfiedBy(quorum[s], RolesOf(signed[s]))
        /\ quorum[s].n \in Nat
    BY DEF ApprovedBySigned, Quora
  <2>2. ASSUME quorum[s].kind = "NofM"
        PROVE  Cardinality({sig.id : sig \in signed[s]}) >= quorum[s].n
    <3> DEFINE counted == {r \in RolesOf(signed[s]) : CanApprove(r)} \cap quorum[s].m
               people == {sig.id : sig \in signed[s]}
    <3>1. Cardinality(counted) >= quorum[s].n
      BY <2>1, <2>2 DEF SatisfiedBy
    <3>2. /\ Cardinality(counted) \in Nat /\ Cardinality(people) \in Nat
          /\ Cardinality(counted) <= Cardinality(people)
      BY <2>1, RolesArePeople
    <3> HIDE DEF counted, people
    <3>3. Cardinality(people) >= quorum[s].n
      BY <2>1, <3>1, <3>2
    <3>4. QED
      BY <3>3 DEF people
  <2>3. QED
    BY <2>1, <2>2 DEF Gathered
<1>3. QED
  BY <1>1, <1>2, NextRelease, QueueInvariant, PTL DEF Spec

-----------------------------------------------------------------------------
(* The queue implements ApprovalPromise *)

StatusNow  == [s \in Submissions |-> StatusOf(s)]
StoppedNow == frozen /\ stopPc = "idle"
PromiseStep == [Promise!Next]_<<StatusNow, StoppedNow>>

Ended(s) == pc[s] \in {"elapsed", "leaving", "done"}

\* The status a submission has at each place of the code.
StatusByPlace ==
  \A s \in Submissions :
    /\ pc[s] = "idle" => StatusOf(s) = "new"
    /\ pc[s] \in {"grant", "prior", "enqueue"} => StatusOf(s) = "admitted"
    /\ pc[s] = "waiting" /\ mail[s] = None => StatusOf(s) = "parked"
    /\ pc[s] = "waiting" /\ mail[s] = "Approved" => StatusOf(s) = "released"
    /\ pc[s] = "waiting" /\ mail[s] \in {"Rejected", "OutcomeUnknown"} => StatusOf(s) = "refused"
    /\ Ended(s) /\ outcome[s] \in {"Approved", "AutoApproved"} => StatusOf(s) = "released"
    /\ Ended(s) /\ outcome[s] = "Dropped" => StatusOf(s) = "gone"
    /\ Ended(s) /\ outcome[s] \in {"Rejected", "OutcomeUnknown", "TimedOut"} => StatusOf(s) = "refused"

LEMMA PlacesHaveStatus == StatusByPlace
<1> SUFFICES ASSUME NEW s \in Submissions
             PROVE  /\ pc[s] = "idle" => StatusOf(s) = "new"
                    /\ pc[s] \in {"grant", "prior", "enqueue"} => StatusOf(s) = "admitted"
                    /\ pc[s] = "waiting" /\ mail[s] = None => StatusOf(s) = "parked"
                    /\ pc[s] = "waiting" /\ mail[s] = "Approved" => StatusOf(s) = "released"
                    /\ pc[s] = "waiting" /\ mail[s] \in {"Rejected", "OutcomeUnknown"} =>
                         StatusOf(s) = "refused"
                    /\ Ended(s) /\ outcome[s] \in {"Approved", "AutoApproved"} => StatusOf(s) = "released"
                    /\ Ended(s) /\ outcome[s] = "Dropped" => StatusOf(s) = "gone"
                    /\ Ended(s) /\ outcome[s] \in {"Rejected", "OutcomeUnknown", "TimedOut"} =>
                         StatusOf(s) = "refused"
  BY DEF StatusByPlace
<1>1. None \notin {"Approved", "Rejected", "OutcomeUnknown"}
  BY CallsAssumption
<1>2. QED
  BY <1>1 DEF StatusOf, Ended

LEMMA PlacesHaveStatusNext == StatusByPlace'
BY PlacesHaveStatus, PTL

\* One submission moves in a way the promise allows, or none does.
LEMMA PromiseMove ==
  ASSUME NEW s \in Submissions,
         \A t \in Submissions : t # s => StatusOf(t)' = StatusOf(t),
         UNCHANGED <<frozen, stopPc>>,
         \/ StatusOf(s)' = StatusOf(s)
         \/ StatusOf(s) = "new" /\ StatusOf(s)' = "admitted" /\ ~frozen
         \/ StatusOf(s) = "admitted" /\ StatusOf(s)' = "parked" /\ ~frozen
         \/ StatusOf(s) = "parked" /\ StatusOf(s)' = "released" /\ ~StoppedNow
         \/ StatusOf(s) = "new" /\ StatusOf(s)' = "released" /\ ~frozen
         \/ StatusOf(s) = "admitted" /\ StatusOf(s)' = "released"
         \/ StatusOf(s) \in {"new", "admitted", "parked"} /\ StatusOf(s)' = "refused"
         \/ StatusOf(s) \in {"parked", "released", "refused"} /\ StatusOf(s)' = "gone"
  PROVE  PromiseStep
<1>1. UNCHANGED StoppedNow
  BY DEF StoppedNow
<1>2. Promise!Become({s}, StatusOf(s)')
  BY DEF Promise!Become
<1>3. CASE StatusOf(s)' = StatusOf(s)
  <2>1. \A t \in Submissions : StatusOf(t)' = StatusOf(t)
    BY <1>3
  <2>2. UNCHANGED StatusNow
    BY <2>1 DEF StatusNow
  <2>3. QED
    BY <1>1, <2>2 DEF PromiseStep
<1>4. CASE \/ StatusOf(s) = "new" /\ StatusOf(s)' = "admitted" /\ ~frozen
           \/ StatusOf(s) = "admitted" /\ StatusOf(s)' = "parked" /\ ~frozen
           \/ StatusOf(s) = "parked" /\ StatusOf(s)' = "released" /\ ~StoppedNow
           \/ StatusOf(s) = "new" /\ StatusOf(s)' = "released" /\ ~frozen
           \/ StatusOf(s) = "admitted" /\ StatusOf(s)' = "released"
           \/ StatusOf(s) \in {"parked", "released", "refused"} /\ StatusOf(s)' = "gone"
  <2>1. Promise!Admit(s) \/ Promise!Park(s) \/ Promise!Release(s) \/ Promise!ReleaseUnattended(s)
        \/ Promise!Vanish(s)
    BY <1>1, <1>2, <1>4 DEF Promise!Admit, Promise!Park, Promise!Release,
       Promise!ReleaseUnattended, Promise!Vanish, StoppedNow
  <2>2. QED
    BY <2>1 DEF PromiseStep, Promise!Next
<1>5. CASE StatusOf(s) \in {"new", "admitted", "parked"} /\ StatusOf(s)' = "refused"
  <2>1. Promise!Refuse({s})
    BY <1>1, <1>2, <1>5 DEF Promise!Refuse, StoppedNow
  <2>2. QED
    BY <2>1 DEF PromiseStep, Promise!Next
<1>6. QED
  BY <1>3, <1>4, <1>5

\* A submission whose place, result and mail stay has the status it had; one that
\* has stopped listening has it whatever is sent.
LEMMA StatusStays ==
  ASSUME NEW s \in Submissions, pc'[s] = pc[s], outcome'[s] = outcome[s],
         mail'[s] = mail[s] \/ Ended(s)
  PROVE  StatusOf(s)' = StatusOf(s)
<1>1. CASE mail'[s] = mail[s]
  BY <1>1 DEF StatusOf
<1>2. CASE Ended(s)
  BY <1>2 DEF StatusOf, Ended
<1>3. QED
  BY <1>1, <1>2

\* A submission's own step.
LEMMA StepPromise ==
  ASSUME TypeInv, NoEarlyMail, ResultsInOrder, NEW s \in Submissions,
         Submit(s) \/ Proceed(s) \/ DropFuture(s)
  PROVE  PromiseStep
<1>1. PICK next \in PCs : pc' = [pc EXCEPT ![s] = next]
  BY StepNonce
<1>2. UNCHANGED <<mail, frozen, stopPc>>
  BY StepKeepsMail
<1>3. \A t \in Submissions : t # s => StatusOf(t)' = StatusOf(t)
  <2>1. ASSUME NEW t \in Submissions, t # s
        PROVE  StatusOf(t)' = StatusOf(t)
    <3>1. pc'[t] = pc[t] /\ outcome'[t] = outcome[t] /\ mail'[t] = mail[t]
      BY <2>1, <1>1, <1>2, StepResult DEF TypeInv, TypeOK, SubsOK
    <3>2. QED
      BY <3>1, StatusStays
  <2>2. QED
    BY <2>1
<1>4. pc'[s] = next
  BY <1>1 DEF TypeInv, TypeOK, SubsOK
<1>5. StatusByPlace /\ StatusByPlace'
  BY PlacesHaveStatus, PlacesHaveStatusNext
<1> USE DEF TypeInv, TypeOK, SubsOK, StatusByPlace, Ended
<1>6. ASSUME NEW c \in FifoCalls, SubmitFifo(s, c)
      PROVE  PromiseStep
  <2>1. /\ pc[s] = "idle"
        /\ \/ pc'[s] = "done" /\ outcome'[s] = "Rejected"
           \/ pc'[s] = "grant" /\ ~frozen
    BY <1>6 DEF SubmitFifo, Goto, ReturnAt
  <2>2. QED
    BY <2>1, <1>2, <1>3, <1>5, PromiseMove
<1>7. ASSUME NEW c \in RoleCalls, NEW t \in Tiers, NEW m \in ManifestRoles,
             NEW p \in Signers, SubmitForAction(s, c, t, m, p)
      PROVE  PromiseStep
  <2>1. /\ pc[s] = "idle"
        /\ \/ pc' = [pc EXCEPT ![s] = "done"] /\ outcome' = [outcome EXCEPT ![s] = "Rejected"]
           \/ /\ pc' = [pc EXCEPT ![s] = "done"] /\ outcome' = [outcome EXCEPT ![s] = "AutoApproved"]
              /\ ~frozen
           \/ pc' = [pc EXCEPT ![s] = "enqueue"] /\ ~frozen
    BY <1>7, Zenon DEF SubmitForAction, Goto, ReturnAt
  <2>2. /\ pc[s] = "idle"
        /\ \/ pc'[s] = "done" /\ outcome'[s] = "Rejected"
           \/ pc'[s] = "done" /\ outcome'[s] = "AutoApproved" /\ ~frozen
           \/ pc'[s] = "enqueue" /\ ~frozen
    BY <2>1
  <2>3. QED
    BY <2>2, <1>2, <1>3, <1>5, PromiseMove
<1>8. CASE CheckGrant(s)
  <2>1. /\ pc[s] = "grant"
        /\ pc' = [pc EXCEPT ![s] = "prior"] \/ pc' = [pc EXCEPT ![s] = "enqueue"]
    BY <1>8, Zenon DEF CheckGrant, TakeNonce, Goto
  <2>2. pc'[s] \in {"prior", "enqueue"}
    BY <2>1
  <2>3. QED
    BY <2>1, <2>2, <1>2, <1>3, <1>5, PromiseMove
<1>9. CASE CheckPriorUnknown(s)
  <2>1. /\ pc[s] = "prior"
        /\ \/ pc' = [pc EXCEPT ![s] = "done"] /\ outcome' = [outcome EXCEPT ![s] = "AutoApproved"]
           \/ pc' = [pc EXCEPT ![s] = "enqueue"]
    BY <1>9, Zenon DEF CheckPriorUnknown, TakeNonce, Goto, ReturnAt
  <2>2. \/ pc'[s] = "done" /\ outcome'[s] = "AutoApproved"
        \/ pc'[s] = "enqueue"
    BY <2>1
  <2>3. QED
    BY <2>1, <2>2, <1>2, <1>3, <1>5, PromiseMove
<1>10. CASE EnqueueFifo(s) \/ EnqueueRole(s)
  <2>1. /\ pc[s] = "enqueue"
        /\ \/ pc' = [pc EXCEPT ![s] = "done"] /\ outcome' = [outcome EXCEPT ![s] = "Rejected"]
           \/ pc' = [pc EXCEPT ![s] = "waiting"] /\ ~frozen
    BY <1>10, Zenon DEF EnqueueFifo, EnqueueRole, ParkFifoUnless, ParkRoleUnless, Goto, ReturnAt
  <2>2. \/ pc'[s] = "done" /\ outcome'[s] = "Rejected"
        \/ pc'[s] = "waiting" /\ ~frozen
    BY <2>1
  <2>3. mail'[s] = None
    BY <2>1, <1>2 DEF NoEarlyMail
  <2>4. QED
    BY <2>1, <2>2, <2>3, <1>2, <1>3, <1>5, PromiseMove
<1>11. CASE Receive(s)
  <2>1. /\ pc[s] = "waiting" /\ mail[s] \in Decisions
        /\ pc'[s] = "leaving" /\ outcome'[s] = mail[s]
    BY <1>11 DEF Receive, Goto
  <2>2. StatusOf(s)' = StatusOf(s)
    BY <2>1, <1>5 DEF Decisions
  <2>3. QED
    BY <2>2, <1>2, <1>3, PromiseMove
<1>12. CASE TimerElapses(s)
  <2>1. pc[s] = "waiting" /\ mail[s] = None /\ pc'[s] = "elapsed" /\ outcome'[s] = "TimedOut"
    BY <1>12 DEF TimerElapses, Goto
  <2>2. QED
    BY <2>1, <1>2, <1>3, <1>5, PromiseMove
<1>13. CASE DropFuture(s)
  <2>1. /\ pc[s] = "waiting" /\ mail[s] \in Decisions \cup {None}
        /\ pc'[s] = "elapsed" /\ outcome'[s] = "Dropped"
    BY <1>13 DEF DropFuture, Goto
  <2>2. StatusOf(s) \in {"parked", "released", "refused"} /\ StatusOf(s)' = "gone"
    BY <2>1, <1>5 DEF Decisions
  <2>3. QED
    BY <2>2, <1>2, <1>3, PromiseMove
<1>14. CASE DropReceiver(s) \/ LeaveFifo(s) \/ LeaveRole(s)
  <2>1. Ended(s) /\ Ended(s)' /\ UNCHANGED outcome
    BY <1>14, <1>4 DEF DropReceiver, LeaveFifo, LeaveRole, Goto
  <2>2. StatusOf(s)' = StatusOf(s)
    <3>1. outcome[s] \in Outcomes /\ outcome'[s] = outcome[s]
      BY <2>1 DEF ResultsInOrder
    <3>2. QED
      BY <2>1, <3>1, <1>5 DEF Outcomes, Decisions
  <2>3. QED
    BY <2>2, <1>2, <1>3, PromiseMove
<1>15. QED
  BY <1>6, <1>7, <1>8, <1>9, <1>10, <1>11, <1>12, <1>13, <1>14 DEF Submit, Proceed

\* A decision sent to the owner of an entry, while no stop is in force.
LEMMA SendPromise ==
  ASSUME TypeInv, NEW s \in Submissions, NEW d \in Decisions, Send(s, d), Unanswered(s),
         ~StoppedNow, UNCHANGED <<pc, outcome, frozen, stopPc>>
  PROVE  PromiseStep
<1>1. \A t \in Submissions : t # s => StatusOf(t)' = StatusOf(t)
  BY SendReaches, StatusStays
<1>2. CASE pc[s] = "waiting"
  <2>1. StatusByPlace /\ StatusByPlace'
    BY PlacesHaveStatus, PlacesHaveStatusNext
  <2>2. mail[s] = None /\ mail'[s] = d
    BY <1>2 DEF Send, Receiving, Unanswered, TypeInv, TypeOK, SubsOK
  <2>3. StatusOf(s) = "parked" /\ StatusOf(s)' \in {"released", "refused"}
    BY <1>2, <2>1, <2>2 DEF StatusByPlace, Decisions
  <2>4. QED
    BY <2>3, <1>1, PromiseMove
<1>3. CASE pc[s] # "waiting"
  <2>1. StatusOf(s)' = StatusOf(s)
    BY <1>3, StatusStays DEF Unanswered, Ended
  <2>2. QED
    BY <2>1, <1>1, PromiseMove
<1>4. QED
  BY <1>2, <1>3

LEMMA ResolveHeadPromise ==
  ASSUME TypeInv, EveryEntryIsOwned, StopEmpties, NEW c \in FifoCalls, NEW d \in Decisions,
         ResolveHeadById(c, d), UNCHANGED <<pc, outcome, frozen, stopPc>>
  PROVE  PromiseStep
<1>1. pending \in Seq(FifoEntries) /\ pending # <<>> /\ Send(Head(pending).sub, d)
  BY DEF ResolveHeadById, TypeInv, TypeOK, QueueOK
<1>2. 1 \in 1..Len(pending) /\ Head(pending) = pending[1]
  BY <1>1, HeadTailProperties, EmptySeq
<1>3. pending[1].sub \in Submissions /\ Unanswered(pending[1].sub)
  BY <1>2, EntrySubs DEF EveryEntryIsOwned
<1>4. ~StoppedNow
  BY <1>1 DEF StopEmpties, StoppedNow
<1>5. QED
  BY <1>1, <1>2, <1>3, <1>4, SendPromise

\* Steps that touch neither a submission nor the stop.
LEMMA QuietPromise ==
  ASSUME UNCHANGED <<pc, outcome, mail, frozen, stopPc>>
  PROVE  PromiseStep
<1>1. \A t \in Submissions : StatusOf(t)' = StatusOf(t)
  BY StatusStays
<1>2. UNCHANGED StatusNow
  BY <1>1 DEF StatusNow
<1>3. UNCHANGED StoppedNow
  BY DEF StoppedNow
<1>4. QED
  BY <1>2, <1>3 DEF PromiseStep

\* Members' decisions.
LEMMA DecidePromise ==
  ASSUME TypeInv, EveryEntryIsOwned, StopEmpties, Decide
  PROVE  PromiseStep
<1>1. UNCHANGED <<pc, outcome, frozen, stopPc>>
  <2>1. UNCHANGED <<frozen, stopPc>>
    BY DEF Decide, ApproveById, RejectById, ReportUnknown, ResolveUnknown, RejectAction, AddSignature
  <2>2. QED
    BY <2>1, DecideFrame
<1>2. ASSUME NEW c \in FifoCalls, ApproveById(c) \/ RejectById(c)
      PROVE  PromiseStep
  <2>1. \E d \in Decisions : ResolveHeadById(c, d)
    BY <1>2 DEF ApproveById, RejectById, Decisions
  <2>2. QED
    BY <2>1, <1>1, ResolveHeadPromise
<1>3. ASSUME NEW c \in ChainCalls, ReportUnknown(c) \/ ResolveUnknown(c)
      PROVE  PromiseStep
  <2>1. c \in FifoCalls
    BY CallsAssumption
  <2>2. UNCHANGED mail \/ ResolveHeadById(c, "OutcomeUnknown")
    BY <1>3 DEF ReportUnknown, ResolveUnknown, subVars
  <2>3. QED
    BY <2>1, <2>2, <1>1, QuietPromise, ResolveHeadPromise DEF Decisions
<1>4. ASSUME NEW c \in RoleCalls, rolePending[c] # None
      PROVE  rolePending[c].sub \in Submissions /\ Unanswered(rolePending[c].sub) /\ ~StoppedNow
  BY <1>4, EntrySubs DEF EveryEntryIsOwned, StopEmpties, StoppedNow
<1>5. ASSUME NEW c \in RoleCalls, RejectAction(c)
      PROVE  PromiseStep
  <2>1. rolePending[c] # None /\ Send(rolePending[c].sub, "Rejected")
    BY <1>5 DEF RejectAction
  <2>2. QED
    BY <2>1, <1>1, <1>4, SendPromise DEF Decisions
<1>6. ASSUME NEW c \in RoleCalls, NEW sig \in Signatures, NEW over \in RoleCalls,
             AddSignature(c, sig, over)
      PROVE  PromiseStep
  <2>1. rolePending[c] # None /\ (Send(rolePending[c].sub, "Approved") \/ UNCHANGED mail)
    BY <1>6, Zenon DEF AddSignature
  <2>2. QED
    BY <2>1, <1>1, <1>4, SendPromise, QuietPromise DEF Decisions
<1>7. QED
  BY <1>2, <1>3, <1>5, <1>6 DEF Decide

\* Who is parked waits for its first answer.
LEMMA ParkedWaits ==
  ASSUME TypeInv, ResultsInOrder, NEW t \in Submissions
  PROVE  StatusOf(t) = "parked" => pc[t] = "waiting" /\ mail[t] = None
BY PlacesHaveStatus DEF StatusByPlace, TypeInv, TypeOK, SubsOK, PCs, ResultsInOrder, Ended,
   Outcomes, Decisions

\* What a drain does to the statuses: who is parked and drained is refused.
LEMMA DrainedAreRefused ==
  ASSUME TypeInv, ResultsInOrder, NEW receivers, SendAll(receivers, "Rejected"),
         UNCHANGED <<pc, outcome>>, NEW t \in Submissions, t \in receivers => Unanswered(t)
  PROVE  StatusOf(t)' = IF t \in receivers /\ StatusOf(t) = "parked" THEN "refused" ELSE StatusOf(t)
<1>1. StatusByPlace /\ StatusByPlace'
  BY PlacesHaveStatus, PlacesHaveStatusNext
<1>2. mail'[t] = IF t \in receivers /\ Receiving(t) THEN "Rejected" ELSE mail[t]
  BY DEF SendAll
<1>3. CASE t \in receivers /\ pc[t] = "waiting"
  BY <1>1, <1>2, <1>3 DEF StatusByPlace, Unanswered, Receiving
<1>4. CASE t \in receivers /\ pc[t] # "waiting"
  BY <1>4, StatusStays, ParkedWaits DEF Unanswered, Ended
<1>5. CASE t \notin receivers
  BY <1>2, <1>5, StatusStays
<1>6. QED
  BY <1>3, <1>4, <1>5

\* A drain refuses together those who were parked on its track.
LEMMA DrainRefuses ==
  ASSUME TypeInv, ResultsInOrder, NEW receivers, SendAll(receivers, "Rejected"),
         UNCHANGED <<pc, outcome>>, UNCHANGED StoppedNow,
         \A t \in receivers : Unanswered(t)
  PROVE  PromiseStep
<1> DEFINE who == {t \in Submissions : t \in receivers /\ StatusOf(t) = "parked"}
<1>1. \A t \in Submissions : StatusOf(t)' = IF t \in who THEN "refused" ELSE StatusOf(t)
  BY DrainedAreRefused
<1>2. who \in SUBSET Submissions /\ \A t \in who : StatusOf(t) = "parked"
  OBVIOUS
<1> HIDE DEF who
<1>3. Promise!Become(who, "refused")
  BY <1>1 DEF Promise!Become
<1>4. Promise!Refuse(who)
  BY <1>2, <1>3 DEF Promise!Refuse, StoppedNow
<1>5. QED
  BY <1>2, <1>4 DEF PromiseStep, Promise!Next

\* The emergency stop: its second drain puts it into effect, and by then whoever
\* is parked is parked on that drain's track.
LEMMA DrainPromise ==
  ASSUME TypeInv, ResultsInOrder, EveryEntryIsOwned, EveryWaiterIsListed, DrainOrder, Drain
  PROVE  PromiseStep
<1>1. CASE DrainFifo
  <2> DEFINE receivers == {pending[i].sub : i \in 1..Len(pending)}
  <2>1. SendAll(receivers, "Rejected") /\ UNCHANGED <<pc, outcome>>
    BY <1>1 DEF DrainFifo
  <2>2. UNCHANGED StoppedNow
    BY <1>1 DEF DrainFifo, StoppedNow
  <2>3. \A t \in receivers : Unanswered(t)
    BY DEF EveryEntryIsOwned
  <2> HIDE DEF receivers
  <2>4. QED
    BY <2>1, <2>2, <2>3, DrainRefuses
<1>2. CASE DrainRole
  <2> DEFINE listed == {d \in RoleCalls : rolePending[d] # None}
             receivers == {rolePending[c].sub : c \in listed}
  <2>1. SendAll(receivers, "Rejected") /\ UNCHANGED <<pc, outcome, frozen>>
        /\ stopPc = "role" /\ stopPc' = "idle"
    BY <1>2 DEF DrainRole
  <2>2. \A t \in receivers : Unanswered(t)
    BY DEF EveryEntryIsOwned
  <2>3. \A c \in RoleCalls : rolePending[c] # None => rolePending[c].sub \in receivers
    OBVIOUS
  <2> HIDE DEF receivers
  <2>4. CASE ~frozen
    <3>1. UNCHANGED StoppedNow
      BY <2>1, <2>4 DEF StoppedNow
    <3>2. QED
      BY <2>1, <2>2, <3>1, DrainRefuses
  <2>5. CASE frozen
    <3>1. ASSUME NEW t \in Submissions, StatusOf(t) = "parked"
          PROVE  t \in receivers
      <4>1. pc[t] = "waiting" /\ mail[t] = None
        BY <3>1, ParkedWaits
      <4>2. ~FifoListed(t)
        <5>1. pending = <<>>
          BY <2>1, <2>5 DEF DrainOrder
        <5>2. QED
          BY <5>1, EmptySeq DEF FifoListed
      <4>3. RoleListed(t) /\ call[t] \in RoleCalls
        BY <4>1, <4>2 DEF EveryWaiterIsListed, TypeInv, ArgumentsOK, Calls
      <4>4. QED
        BY <4>3, <2>3 DEF RoleListed
    <3> DEFINE who == {t \in Submissions : StatusOf(t) = "parked"}
    <3>2. \A t \in Submissions : StatusOf(t)' = IF t \in who THEN "refused" ELSE StatusOf(t)
      BY <2>1, <2>2, <3>1, DrainedAreRefused
    <3>3. Promise!Become(who, "refused")
      BY <3>2 DEF Promise!Become
    <3>4. StoppedNow'
      BY <2>1, <2>5 DEF StoppedNow
    <3>5. Promise!Stop
      <4>1. {t \in Submissions : StatusNow[t] = "parked"} = who
        BY DEF StatusNow
      <4>2. QED
        BY <3>3, <3>4, <4>1 DEF Promise!Stop, StoppedNow, StatusNow
    <3>6. QED
      BY <3>5 DEF PromiseStep, Promise!Next
  <2>6. QED
    BY <2>4, <2>5
<1>3. QED
  BY <1>1, <1>2 DEF Drain

\* The stop begins, or is lifted: the promise is free again or does not notice.
LEMMA LiftPromise ==
  ASSUME Freeze \/ Thaw
  PROVE  PromiseStep
<1>1. UNCHANGED <<pc, outcome, mail>>
  BY DEF Freeze, Thaw, subVars
<1>2. UNCHANGED StatusNow
  <2>1. \A t \in Submissions : StatusOf(t)' = StatusOf(t)
    BY <1>1, StatusStays
  <2>2. QED
    BY <2>1 DEF StatusNow
<1>3. StoppedNow' = FALSE
  BY DEF Freeze, Thaw, StoppedNow
<1>4. Promise!Resume
  BY <1>2, <1>3 DEF Promise!Resume, StatusNow, StoppedNow
<1>5. QED
  BY <1>4 DEF PromiseStep, Promise!Next

\* The queue implements what ApprovalPromise promises its callers, through every
\* interleaving of submissions, decisions, timers, dropped futures, stops and
\* thaws: each submission is decided once, a member's approval reaches nobody
\* while a stop is in force, the stop refuses whoever is parked, and nothing
\* parks until it is lifted (mod.rs:280-848).
THEOREM QueueKeepsPromise == Spec => KeepsPromise
<1>1. Init => Promise!Init
  <2> SUFFICES ASSUME Init PROVE Promise!Init
    OBVIOUS
  <2>1. \A s \in Submissions : StatusOf(s) = "new"
    BY PlacesHaveStatus DEF Init, StatusByPlace
  <2>2. StoppedNow = FALSE
    BY DEF Init, StoppedNow
  <2>3. QED
    BY <2>1, <2>2 DEF Promise!Init, StoppedNow
<1>2. QueueInv /\ ResultsInOrder /\ [Next]_vars => PromiseStep
  <2> SUFFICES ASSUME QueueInv, ResultsInOrder, [Next]_vars PROVE PromiseStep
    OBVIOUS
  <2>1. /\ TypeInv /\ NoEarlyMail /\ EveryEntryIsOwned /\ EveryWaiterIsListed
        /\ StopEmpties /\ DrainOrder
    BY DEF QueueInv
  <2>2. CASE UNCHANGED vars
    <3>1. UNCHANGED <<pc, outcome, mail, frozen, stopPc>>
      BY <2>2 DEF vars, subVars, queueVars
    <3>2. QED
      BY <3>1, QuietPromise
  <2>3. CASE \E tool \in Tools : AddGrant(tool) \/ GrantExpires(tool)
    <3>1. UNCHANGED <<pc, outcome, mail, frozen, stopPc>>
      BY <2>3 DEF AddGrant, GrantExpires, subVars
    <3>2. QED
      BY <3>1, QuietPromise
  <2>4. QED
    BY <2>1, <2>2, <2>3, StepPromise, DecidePromise, DrainPromise, LiftPromise DEF Next
<1>3. Init => ResultsInOrder
  BY DEF Init, ResultsInOrder
<1>4. QueueInv => TypeInv
  BY DEF QueueInv
<1>5. PromiseStep <=> [Promise!Next]_<<[s \in Submissions |-> StatusOf(s)], frozen /\ stopPc = "idle">>
  BY DEF PromiseStep, StatusNow, StoppedNow
<1>6. QED
  BY <1>1, <1>2, <1>3, <1>4, <1>5, NextResults, QueueInvariant, PTL DEF Spec, KeepsPromise, Promise!Spec

-----------------------------------------------------------------------------
(* The memory of unknown outcomes *)

Distinct(q) == \A i, j \in 1..Len(q) : q[i] = q[j] => i = j

\* The calls after position i.
After(q, i) == {q[j] : j \in i+1..Len(q)}

\* A reported call is still remembered, with only calls reported since after it,
\* or as many others were reported since as the memory holds.
MemoryInv ==
  /\ \A s \in Submissions : pc[s] = "idle" => call[s] = None
  /\ Distinct(unknown) /\ Len(unknown) <= RememberedUnknownOutcomes
  /\ \A c \in reported :
       /\ IsFiniteSet(since[c])
       /\ \/ Cardinality(since[c]) >= RememberedUnknownOutcomes
          \/ \E i \in 1..Len(unknown) : unknown[i] = c /\ After(unknown, i) \subseteq since[c]

\* A sequence without repetition has as many values as it is long.
LEMMA DistinctCount ==
  ASSUME NEW S, NEW q \in Seq(S), Distinct(q)
  PROVE  /\ IsFiniteSet({q[j] : j \in 1..Len(q)})
         /\ Cardinality({q[j] : j \in 1..Len(q)}) = Len(q)
<1> DEFINE values == {q[j] : j \in 1..Len(q)}
           f == [j \in 1..Len(q) |-> q[j]]
<1>1. Len(q) \in Nat
  BY LenProperties
<1>2. IsFiniteSet(1..Len(q)) /\ Cardinality(1..Len(q)) = Len(q)
  BY <1>1, FS_Interval
<1>3. /\ f \in [1..Len(q) -> values] /\ \A j \in 1..Len(q) : f[j] = q[j]
      /\ \A v \in values : \E j \in 1..Len(q) : f[j] = v
  OBVIOUS
<1> HIDE DEF f, values
<1>4. f \in Bijection(1..Len(q), values)
  BY <1>3 DEF Distinct, Bijection, Injection, IsInjective, Surjection
<1>5. IsFiniteSet(values) /\ Cardinality(values) = Len(q)
  BY <1>2, <1>4, FS_Bijection DEF ExistsBijection
<1>6. QED
  BY <1>5 DEF values

\* What remember_unknown_outcome keeps: the call last, the others in their order;
\* only when the memory is full does the oldest call leave, and then it is full
\* of calls remembered after that one.
Kept(q, r, c) ==
  \A i \in 1..Len(q) : q[i] # c =>
     \/ \E k \in 1..Len(r) : r[k] = q[i] /\ After(r, k) \subseteq After(q, i) \cup {c}
     \/ /\ Len(r) = RememberedUnknownOutcomes
        /\ {r[j] : j \in 1..Len(r)} \subseteq After(q, i) \cup {c}

\* A call that is remembered already moves to the end.
LEMMA RememberAgain ==
  ASSUME NEW q \in Seq(FifoCalls), Distinct(q), NEW c \in FifoCalls, NEW r,
         \E p \in 1..Len(q) : q[p] = c /\ r = Append(RemoveAt(q, p), c)
  PROVE  r \in Seq(FifoCalls) /\ Len(r) = Len(q) /\ r[Len(r)] = c /\ Distinct(r) /\ Kept(q, r, c)
<1> PICK p \in 1..Len(q) : q[p] = c /\ r = Append(RemoveAt(q, p), c)
  OBVIOUS
<1>1. Len(q) \in Nat \ {0}
  BY LenProperties
<1>2. /\ RemoveAt(q, p) \in Seq(FifoCalls) /\ Len(RemoveAt(q, p)) = Len(q) - 1
      /\ \A j \in 1..Len(q)-1 : RemoveAt(q, p)[j] = IF j < p THEN q[j] ELSE q[j+1]
  BY RemoveAtProperties
<1>3. /\ r \in Seq(FifoCalls) /\ Len(r) = Len(q) /\ r[Len(q)] = c
      /\ \A j \in 1..Len(q)-1 : r[j] = IF j < p THEN q[j] ELSE q[j+1]
  BY <1>1, <1>2, AppendProperties
<1>4. Distinct(r)
  <2>1. \A j \in 1..Len(q)-1 : r[j] # c
    BY <1>1, <1>3 DEF Distinct
  <2>2. \A i, j \in 1..Len(q)-1 : r[i] = r[j] => i = j
    BY <1>1, <1>3 DEF Distinct
  <2>3. QED
    BY <1>1, <1>3, <2>1, <2>2 DEF Distinct
<1>5. ASSUME NEW i \in 1..Len(q), q[i] # c
      PROVE  \E k \in 1..Len(r) : r[k] = q[i] /\ After(r, k) \subseteq After(q, i) \cup {c}
  <2> DEFINE k == IF i < p THEN i ELSE i - 1
  <2>1. i # p /\ k \in 1..Len(q)-1
    BY <1>1, <1>5
  <2>2. r[k] = q[i]
    BY <2>1, <1>1, <1>3
  <2>3. ASSUME NEW j \in k+1..Len(r)
        PROVE  r[j] \in After(q, i) \cup {c}
    <3>1. CASE j = Len(q)
      BY <3>1, <1>3
    <3>2. CASE j # Len(q) /\ j < p
      BY <3>2, <2>1, <1>1, <1>3 DEF After
    <3>3. CASE j # Len(q) /\ ~(j < p)
      <4>1. j \in 1..Len(q)-1 /\ j + 1 \in i+1..Len(q) /\ r[j] = q[j+1]
        BY <3>3, <2>1, <1>1, <1>3
      <4>2. QED
        BY <4>1 DEF After
    <3>4. QED
      BY <3>1, <3>2, <3>3
  <2>4. k \in 1..Len(r)
    BY <2>1, <1>1, <1>3
  <2> HIDE DEF k
  <2>5. After(r, k) \subseteq After(q, i) \cup {c}
    BY <2>3 DEF After
  <2>6. QED
    BY <2>2, <2>4, <2>5
<1>6. Kept(q, r, c)
  BY <1>5 DEF Kept
<1>7. QED
  BY <1>3, <1>4, <1>6

\* A new call goes to the end; a full memory drops its oldest.
LEMMA RememberFresh ==
  ASSUME NEW q \in Seq(FifoCalls), Distinct(q), Len(q) <= RememberedUnknownOutcomes,
         NEW c \in FifoCalls, \A i \in 1..Len(q) : q[i] # c,
         NEW r, r = IF Len(Append(q, c)) > RememberedUnknownOutcomes THEN Tail(Append(q, c))
                                                                   ELSE Append(q, c)
  PROVE  /\ r \in Seq(FifoCalls) /\ Len(r) \in 1..RememberedUnknownOutcomes
         /\ r[Len(r)] = c /\ Distinct(r) /\ Kept(q, r, c)
<1> DEFINE longer == Append(q, c)
<1>1. Len(q) \in Nat /\ RememberedUnknownOutcomes \in Nat \ {0}
  BY LenProperties, BoundAssumption
<1>2. /\ longer \in Seq(FifoCalls) /\ Len(longer) = Len(q) + 1 /\ longer[Len(q)+1] = c
      /\ \A j \in 1..Len(q) : longer[j] = q[j]
      /\ longer # <<>>
  BY <1>1, AppendProperties
<1>3. r = IF Len(longer) > RememberedUnknownOutcomes THEN Tail(longer) ELSE longer
  OBVIOUS
<1> HIDE DEF longer
<1>4. CASE Len(longer) > RememberedUnknownOutcomes
  <2>1. Len(q) = RememberedUnknownOutcomes /\ r = Tail(longer)
    BY <1>1, <1>2, <1>3, <1>4
  <2>2. /\ r \in Seq(FifoCalls) /\ Len(r) = Len(q)
        /\ \A j \in 1..Len(q) : r[j] = longer[j+1]
    BY <2>1, <1>1, <1>2, HeadTailProperties
  <2>3. r[Len(q)] = c /\ \A j \in 1..Len(q)-1 : r[j] = q[j+1]
    BY <2>1, <2>2, <1>1, <1>2
  <2>4. Distinct(r)
    BY <2>2, <2>3, <1>1 DEF Distinct
  <2>5. ASSUME NEW i \in 1..Len(q)
        PROVE  \/ \E k \in 1..Len(r) : r[k] = q[i] /\ After(r, k) \subseteq After(q, i) \cup {c}
               \/ /\ Len(r) = RememberedUnknownOutcomes
                  /\ {r[j] : j \in 1..Len(r)} \subseteq After(q, i) \cup {c}
    <3>1. ASSUME NEW j \in i..Len(r)
          PROVE  r[j] \in After(q, i) \cup {c}
      <4>1. CASE j = Len(q)
        BY <4>1, <2>3
      <4>2. CASE j # Len(q)
        <5>1. j \in 1..Len(q)-1 /\ j + 1 \in i+1..Len(q) /\ r[j] = q[j+1]
          BY <4>2, <2>2, <2>3, <1>1
        <5>2. QED
          BY <5>1 DEF After
      <4>3. QED
        BY <4>1, <4>2
    <3>2. CASE i = 1
      BY <3>1, <3>2, <2>1, <2>2
    <3>3. CASE i # 1
      <4>1. i - 1 \in 1..Len(r) /\ i - 1 \in 1..Len(q)-1 /\ (i - 1) + 1 = i
        BY <3>3, <2>2, <1>1
      <4>2. r[i-1] = q[i]
        BY <4>1, <2>3
      <4>3. After(r, i-1) \subseteq After(q, i) \cup {c}
        BY <3>1, <4>1 DEF After
      <4>4. QED
        BY <4>1, <4>2, <4>3
    <3>4. QED
      BY <3>2, <3>3
  <2>6. Kept(q, r, c)
    BY <2>5 DEF Kept
  <2>7. QED
    BY <2>1, <2>2, <2>3, <2>4, <2>6, <1>1
<1>5. CASE ~(Len(longer) > RememberedUnknownOutcomes)
  <2>1. r \in Seq(FifoCalls) /\ Len(r) = Len(q) + 1 /\ Len(r) \in 1..RememberedUnknownOutcomes
        /\ r[Len(r)] = c /\ \A j \in 1..Len(q) : r[j] = q[j]
    BY <1>1, <1>2, <1>3, <1>5
  <2>2. Distinct(r)
    BY <2>1, <1>1 DEF Distinct
  <2>3. ASSUME NEW i \in 1..Len(q)
        PROVE  After(r, i) \subseteq After(q, i) \cup {c} /\ i \in 1..Len(r)
    BY <2>1, <1>1 DEF After
  <2>4. Kept(q, r, c)
    BY <2>1, <2>3 DEF Kept
  <2>5. QED
    BY <2>1, <2>2, <2>4
<1>6. QED
  BY <1>4, <1>5

\* A report keeps the memory in order.
LEMMA ReportMemory ==
  ASSUME TypeInv, MemoryInv, NEW c \in FifoCalls, ReportUnknown(c)
  PROVE  MemoryInv'
<1>1. /\ unknown \in Seq(FifoCalls) /\ reported \subseteq FifoCalls
      /\ since \in [FifoCalls -> SUBSET FifoCalls]
  BY DEF TypeInv, TypeOK, QueueOK, HistoryOK
<1>2. Distinct(unknown) /\ Len(unknown) <= RememberedUnknownOutcomes /\ Len(unknown) \in Nat
      /\ RememberedUnknownOutcomes \in Nat \ {0}
  BY <1>1, LenProperties, BoundAssumption DEF MemoryInv
<1>3. /\ unknown' \in Seq(FifoCalls) /\ Len(unknown') \in 1..RememberedUnknownOutcomes
      /\ unknown'[Len(unknown')] = c /\ Distinct(unknown') /\ Kept(unknown, unknown', c)
  <2>1. CASE \E p \in 1..Len(unknown) : unknown[p] = c /\ unknown' = Append(RemoveAt(unknown, p), c)
    <3>1. /\ unknown' \in Seq(FifoCalls) /\ Len(unknown') = Len(unknown)
          /\ unknown'[Len(unknown')] = c /\ Distinct(unknown') /\ Kept(unknown, unknown', c)
      BY <2>1, <1>1, <1>2, RememberAgain
    <3>2. Len(unknown) # 0
      BY <2>1, <1>2
    <3>3. QED
      BY <3>1, <3>2, <1>2
  <2>2. CASE c \notin Remembered /\ RememberNew(c)
    <3>1. \A i \in 1..Len(unknown) : unknown[i] # c
      BY <2>2 DEF Remembered
    <3>2. unknown' = IF Len(Append(unknown, c)) > RememberedUnknownOutcomes
                     THEN Tail(Append(unknown, c)) ELSE Append(unknown, c)
      BY <2>2 DEF RememberNew
    <3>3. QED
      BY <3>1, <3>2, <1>1, <1>2, RememberFresh
  <2>3. QED
    BY <2>1, <2>2 DEF ReportUnknown, Remember
<1>4. /\ reported' = reported \cup {c} /\ since'[c] = {}
      /\ \A d \in reported : d # c => since'[d] = since[d] \cup {c}
      /\ UNCHANGED <<pc, call>>
  BY <1>1 DEF ReportUnknown, subVars
<1>5. ASSUME NEW d \in reported'
      PROVE  /\ IsFiniteSet(since'[d])
             /\ \/ Cardinality(since'[d]) >= RememberedUnknownOutcomes
                \/ \E i \in 1..Len(unknown') :
                     unknown'[i] = d /\ After(unknown', i) \subseteq since'[d]
  <2>1. CASE d = c
    <3>1. After(unknown', Len(unknown')) = {}
      BY <1>3 DEF After
    <3>2. QED
      BY <2>1, <3>1, <1>3, <1>4, FS_EmptySet
  <2>2. CASE d # c
    <3>1. d \in reported /\ since'[d] = since[d] \cup {c} /\ IsFiniteSet(since[d])
      BY <2>2, <1>4 DEF MemoryInv
    <3>2. /\ IsFiniteSet(since'[d]) /\ Cardinality(since'[d]) \in Nat
          /\ Cardinality(since[d]) \in Nat
          /\ Cardinality(since'[d]) >= Cardinality(since[d])
      <4>1. IsFiniteSet(since'[d])
        BY <3>1, FS_AddElement
      <4>2. Cardinality(since[d]) <= Cardinality(since'[d])
        BY <4>1, <3>1, FS_Subset
      <4>3. QED
        BY <4>1, <4>2, <3>1, FS_CardinalityType
    <3>3. CASE Cardinality(since[d]) >= RememberedUnknownOutcomes
      BY <3>2, <3>3, <1>2
    <3>4. ASSUME NEW i \in 1..Len(unknown), unknown[i] = d, After(unknown, i) \subseteq since[d]
          PROVE  \/ Cardinality(since'[d]) >= RememberedUnknownOutcomes
                 \/ \E k \in 1..Len(unknown') :
                      unknown'[k] = d /\ After(unknown', k) \subseteq since'[d]
      <4>1. After(unknown, i) \cup {c} \subseteq since'[d]
        BY <3>1, <3>4
      <4>2. CASE \E k \in 1..Len(unknown') :
                   unknown'[k] = unknown[i] /\ After(unknown', k) \subseteq After(unknown, i) \cup {c}
        BY <4>1, <4>2, <3>4
      <4>3. CASE /\ Len(unknown') = RememberedUnknownOutcomes
                 /\ {unknown'[j] : j \in 1..Len(unknown')} \subseteq After(unknown, i) \cup {c}
        <5> DEFINE values == {unknown'[j] : j \in 1..Len(unknown')}
        <5>1. IsFiniteSet(values) /\ Cardinality(values) = RememberedUnknownOutcomes
          BY <4>3, <1>3, DistinctCount
        <5>2. values \subseteq since'[d]
          BY <4>1, <4>3
        <5> HIDE DEF values
        <5>3. Cardinality(values) <= Cardinality(since'[d])
          BY <5>1, <5>2, <3>2, FS_Subset
        <5>4. QED
          BY <5>1, <5>3, <3>2, <1>2
      <4>4. QED
        BY <2>2, <3>4, <4>2, <4>3, <1>3 DEF Kept
    <3>5. QED
      BY <3>1, <3>2, <3>3, <3>4 DEF MemoryInv
  <2>3. QED
    BY <2>1, <2>2
<1>6. \A s \in Submissions : pc'[s] = "idle" => call'[s] = None
  BY <1>4 DEF MemoryInv
<1>7. QED
  BY <1>3, <1>5, <1>6, <1>2 DEF MemoryInv

LEMMA NextMemory == TypeInv /\ ResultsInOrder /\ MemoryInv /\ [Next]_vars => MemoryInv'
<1> SUFFICES ASSUME TypeInv, ResultsInOrder, MemoryInv, [Next]_vars PROVE MemoryInv'
  OBVIOUS
<1>1. ASSUME UNCHANGED <<unknown, reported, since>>,
             \A s \in Submissions : pc'[s] = "idle" => call'[s] = None
      PROVE  MemoryInv'
  BY <1>1 DEF MemoryInv
<1>2. CASE UNCHANGED vars
  <2>1. UNCHANGED <<unknown, reported, since, pc, call>>
    BY <1>2 DEF vars, subVars, queueVars, histVars
  <2>2. QED
    BY <2>1, <1>1 DEF MemoryInv
<1>3. ASSUME NEW s \in Submissions, Submit(s) \/ Proceed(s) \/ DropFuture(s)
      PROVE  MemoryInv'
  <2>1. UNCHANGED <<unknown, reported, since>>
    <3>1. CASE Submit(s)
      BY <3>1 DEF Submit, SubmitFifo, SubmitForAction, queueVars, histVars
    <3>2. CASE Proceed(s) \/ DropFuture(s)
      BY <3>2 DEF Proceed, CheckGrant, CheckPriorUnknown, EnqueueFifo, EnqueueRole, ParkFifoUnless,
         ParkRoleUnless, Receive, TimerElapses, DropFuture, DropReceiver, LeaveFifo, LeaveRole,
         queueVars, histVars
    <3>3. QED
      BY <1>3, <3>1, <3>2
  <2>2. PICK next \in PCs : pc' = [pc EXCEPT ![s] = next]
    BY <1>3, StepNonce
  <2>3. pc'[s] # "idle" /\ \A t \in Submissions : t # s => call'[t] = call[t] /\ pc'[t] = pc[t]
    BY <1>3, <2>2, StepResult DEF TypeInv, TypeOK, SubsOK
  <2>4. QED
    BY <2>1, <2>3, <1>1 DEF MemoryInv
<1>4. CASE Decide
  <2>1. ASSUME NEW c \in ChainCalls, ReportUnknown(c)
        PROVE  MemoryInv'
    BY <2>1, ReportMemory, CallsAssumption
  <2>2. CASE \/ \E c \in FifoCalls : ApproveById(c) \/ RejectById(c)
             \/ \E c \in ChainCalls : ResolveUnknown(c)
             \/ \E c \in RoleCalls : RejectAction(c)
             \/ \E c \in RoleCalls, sig \in Signatures, over \in RoleCalls : AddSignature(c, sig, over)
    <3>1. UNCHANGED <<unknown, reported, since, pc, call>>
      BY <2>2 DEF ApproveById, RejectById, ResolveUnknown, RejectAction, AddSignature
    <3>2. QED
      BY <3>1, <1>1 DEF MemoryInv
  <2>3. QED
    BY <1>4, <2>1, <2>2 DEF Decide
<1>5. CASE Freeze \/ Drain \/ Thaw \/ \E tool \in Tools : AddGrant(tool) \/ GrantExpires(tool)
  <2>1. UNCHANGED <<unknown, reported, since, pc, call>>
    BY <1>5 DEF Freeze, Drain, DrainFifo, DrainRole, Thaw, AddGrant, GrantExpires, subVars, histVars
  <2>2. QED
    BY <2>1, <1>1 DEF MemoryInv
<1>6. QED
  BY <1>2, <1>3, <1>4, <1>5 DEF Next

\* A grant never approves unattended a call that was reported with an unknown
\* outcome, until as many other calls as the memory holds have been reported
\* since; reporting one call again pushes no other out (mod.rs:379-384, 499-518).
THEOREM UnknownOutcomesSuppressGrants == Spec => UnknownOutcomeSuppressesGrant
<1> DEFINE Suppressed(s) ==
      call[s] \in FifoCalls /\ outcome[s] = None /\ outcome'[s] = "AutoApproved"
      /\ call[s] \in reported => Cardinality(since[call[s]]) >= RememberedUnknownOutcomes
<1>1. TypeInv /\ ResultsInOrder /\ MemoryInv /\ [Next]_vars => [\A s \in Submissions : Suppressed(s)]_vars
  <2> SUFFICES ASSUME TypeInv, ResultsInOrder, MemoryInv, [Next]_vars, NEW s \in Submissions,
                      call[s] \in FifoCalls, outcome[s] = None, outcome'[s] = "AutoApproved",
                      call[s] \in reported
               PROVE  Cardinality(since[call[s]]) >= RememberedUnknownOutcomes
    OBVIOUS
  <2>1. None # "AutoApproved" /\ "AutoApproved" \notin Decisions /\ call[s] # None
    BY CallsAssumption DEF Decisions, Calls
  <2>2. outcome'[s] # outcome[s]
    BY <2>1
  <2>3. Submit(s) \/ Proceed(s) \/ DropFuture(s)
    <3>1. ~UNCHANGED vars
      BY <2>2 DEF vars, subVars
    <3>2. ~(Decide \/ Freeze \/ Drain \/ Thaw \/ \E tool \in Tools : AddGrant(tool) \/ GrantExpires(tool))
      BY <2>2, DecideFrame
    <3>3. ASSUME NEW t \in Submissions, t # s
          PROVE  ~(Submit(t) \/ Proceed(t) \/ DropFuture(t))
      BY <2>2, <3>3, StepResult
    <3>4. QED
      BY <3>1, <3>2, <3>3 DEF Next
  <2>4. pc[s] # "idle"
    BY <2>1 DEF MemoryInv
  <2>5. CheckPriorUnknown(s)
    <3>1. ~Submit(s)
      BY <2>4 DEF Submit, SubmitFifo, SubmitForAction
    <3>2. ~(CheckGrant(s) \/ DropReceiver(s) \/ LeaveFifo(s) \/ LeaveRole(s))
      BY <2>2 DEF CheckGrant, DropReceiver, LeaveFifo, LeaveRole
    <3>3. ~(EnqueueFifo(s) \/ EnqueueRole(s))
      <4>1. SUFFICES ASSUME EnqueueFifo(s) \/ EnqueueRole(s) PROVE FALSE
        OBVIOUS
      <4>2. outcome' = [outcome EXCEPT ![s] = "Rejected"] \/ UNCHANGED outcome
        BY <4>1, Zenon DEF EnqueueFifo, EnqueueRole, ParkFifoUnless, ParkRoleUnless, ReturnAt
      <4>3. QED
        BY <4>2, <2>2 DEF TypeInv, TypeOK, SubsOK
    <3>4. ~(Receive(s) \/ TimerElapses(s) \/ DropFuture(s))
      BY <2>1 DEF Receive, TimerElapses, DropFuture, TypeInv, TypeOK, SubsOK
    <3>5. QED
      BY <2>3, <3>1, <3>2, <3>3, <3>4 DEF Proceed
  <2>6. call[s] \notin Remembered
    <3>1. call[s] \in Remembered => UNCHANGED outcome
      BY <2>5, Zenon DEF CheckPriorUnknown
    <3>2. QED
      BY <3>1, <2>2
  <2>7. QED
    BY <2>6 DEF MemoryInv, Remembered
<1>2. Init => MemoryInv /\ ResultsInOrder
  BY EmptySeq, BoundAssumption DEF Init, MemoryInv, Distinct, ResultsInOrder
<1>3. ([\A s \in Submissions : Suppressed(s)]_vars) <=>
      [\A s \in Submissions :
         call[s] \in FifoCalls /\ outcome[s] = None /\ outcome'[s] = "AutoApproved"
         /\ call[s] \in reported => Cardinality(since[call[s]]) >= RememberedUnknownOutcomes]_vars
  OBVIOUS
<1> HIDE DEF Suppressed
<1>4. QED
  BY <1>1, <1>2, <1>3, InitTypeInv, NextTypeInv, NextResults, NextMemory, PTL
     DEF Spec, UnknownOutcomeSuppressesGrant


-----------------------------------------------------------------------------
(* The break-glass registry, for any actions, payloads, keys, roster, window   *)
(* and readings of the clock. AffirmedByTwoOthers is not inductive: while an    *)
(* action is Invoked nothing would be known of the affirmations collected so    *)
(* far. RegistryInv says of every state what is known of the invocation and of  *)
(* each affirmation.                                                           *)

\* The invocation was signed by a security officer, and there is none before it.
InvocationHolds(a) ==
  /\ phase[a] = "Pending" => SignedRoles(affirmations[a]) = {}
  /\ phase[a] # "Pending" => /\ a \in Eligible \ Itar
                             /\ Signed(invoked[a], "invoke", a, "SecurityOfficer")

\* Each affirmation is by an enrolled key, over what was invoked, not the invoker's.
AffirmationsHold(a) ==
  \A r \in SignedRoles(affirmations[a]) :
    /\ Signed(affirmations[a][r], "affirm", a, r)
    /\ affirmations[a][r].payload = invoked[a].payload
    /\ affirmations[a][r].signer # invoked[a].signer

AffirmersDiffer(a) ==
  \A r, q \in SignedRoles(affirmations[a]) :
    affirmations[a][r].signer = affirmations[a][q].signer => r = q

AffirmedIsComplete(a) == phase[a] = "Affirmed" => SignedRoles(affirmations[a]) = AffirmationQuorum

RegistryInv ==
  \A a \in Actions : /\ InvocationHolds(a) /\ AffirmationsHold(a)
                     /\ AffirmersDiffer(a) /\ AffirmedIsComplete(a)

-----------------------------------------------------------------------------
\* BreakGlassInit and every step keep the variables in their types.
LEMMA TypeStep == BreakGlassTypeOK /\ [BreakGlassNext]_breakGlassVars => BreakGlassTypeOK'
<1> SUFFICES ASSUME BreakGlassTypeOK, [BreakGlassNext]_breakGlassVars PROVE BreakGlassTypeOK'
  OBVIOUS
<1> USE DEF BreakGlassTypeOK
<1>1. ASSUME NEW a \in Actions, NEW att \in Attestations, NEW role \in Roles,
             NEW now \in Readings, NEW p \in Payloads, Invoke(a, p, att, role, now)
      PROVE  BreakGlassTypeOK'
  BY <1>1 DEF Invoke, Phases, Readings
<1>2. ASSUME NEW a \in Actions, NEW att \in Attestations, NEW role \in Roles,
             NEW now \in Readings, Affirm(a, att, role, now)
      PROVE  BreakGlassTypeOK'
  <2>1. affirmations' \in [Actions -> [AffirmationQuorum -> Attestations \cup {NoAttestation}]]
    BY <1>2 DEF Affirm
  <2>2. phase' \in [Actions -> Phases]
    BY <1>2 DEF Affirm, Phases
  <2> QED BY <1>2, <2>1, <2>2 DEF Affirm
<1>3. ASSUME NEW now \in Readings, Tick(now) PROVE BreakGlassTypeOK'
  BY <1>3 DEF Tick, Phases
<1>4. CASE Surface
  BY <1>4 DEF Surface, Phases
<1>5. CASE TimePasses
  BY <1>5 DEF TimePasses
<1>6. CASE UNCHANGED breakGlassVars
  BY <1>6 DEF breakGlassVars
<1> QED BY <1>1, <1>2, <1>3, <1>4, <1>5, <1>6 DEF BreakGlassNext

LEMMA TypeInit == BreakGlassInit => BreakGlassTypeOK
BY DEF BreakGlassInit, BreakGlassTypeOK, Phases

\* Every state of the registry is well typed, whatever is enrolled or signed.
THEOREM RegistryTypeCorrect == BreakGlassSpec => []BreakGlassTypeOK
BY TypeInit, TypeStep, PTL DEF BreakGlassSpec

-----------------------------------------------------------------------------
LEMMA RegistryInit == BreakGlassInit => RegistryInv
<1> SUFFICES ASSUME BreakGlassInit, NEW a \in Actions
             PROVE  /\ InvocationHolds(a) /\ AffirmationsHold(a)
                    /\ AffirmersDiffer(a) /\ AffirmedIsComplete(a)
  BY DEF RegistryInv
<1>1. phase[a] = "Pending" /\ affirmations[a] = [r \in AffirmationQuorum |-> NoAttestation]
  BY DEF BreakGlassInit
<1>2. SignedRoles(affirmations[a]) = {}
  BY <1>1 DEF SignedRoles
<1> QED BY <1>1, <1>2 DEF InvocationHolds, AffirmationsHold, AffirmersDiffer, AffirmedIsComplete

\* A real attestation is not the placeholder.
LEMMA AttestationIsReal == \A att \in Attestations : att # NoAttestation
BY ActionAssumption DEF Attestations, NoAttestation

\* Only the phases change, and no action leaves or enters Pending or enters Affirmed.
LEMMA PhaseStep ==
  ASSUME RegistryInv, UNCHANGED <<invoked, affirmations>>,
         \A a \in Actions : /\ phase'[a] = "Pending" <=> phase[a] = "Pending"
                            /\ phase'[a] = "Affirmed" => phase[a] = "Affirmed"
  PROVE  RegistryInv'
BY DEF RegistryInv, InvocationHolds, AffirmationsHold, AffirmersDiffer, AffirmedIsComplete,
       SignedRoles, Signed

LEMMA InvokeStep ==
  ASSUME BreakGlassTypeOK, RegistryInv,
         NEW a \in Actions, NEW att \in Attestations, NEW role \in Roles, NEW now,
         NEW p \in Payloads, Invoke(a, p, att, role, now)
  PROVE  RegistryInv'
<1> SUFFICES ASSUME NEW b \in Actions
             PROVE  /\ InvocationHolds(b)' /\ AffirmationsHold(b)'
                    /\ AffirmersDiffer(b)' /\ AffirmedIsComplete(b)'
  BY DEF RegistryInv
<1>0. InvocationHolds(b) /\ AffirmationsHold(b) /\ AffirmersDiffer(b) /\ AffirmedIsComplete(b)
  BY DEF RegistryInv
<1>1. affirmations' = affirmations
  BY DEF Invoke
<1>2. CASE b # a
  <2>1. phase'[b] = phase[b] /\ invoked'[b] = invoked[b]
    BY <1>2 DEF Invoke, BreakGlassTypeOK
  <2> QED BY <1>0, <1>1, <2>1 DEF InvocationHolds, AffirmationsHold, AffirmersDiffer,
                                 AffirmedIsComplete, SignedRoles, Signed
<1>3. CASE b = a
  <2>1. phase'[b] = "Invoked" /\ invoked'[b] = att /\ phase[b] = "Pending"
    BY <1>3 DEF Invoke, BreakGlassTypeOK
  <2>2. SignedRoles(affirmations[b]) = {}
    BY <1>0, <2>1 DEF InvocationHolds
  <2>3. SignedRoles(affirmations[b])' = {}
    BY <1>1, <2>2 DEF SignedRoles
  <2>4. InvocationHolds(b)'
    BY <1>3, <2>1 DEF InvocationHolds, Invoke, Authorize, Signed
  <2> QED BY <2>1, <2>3, <2>4 DEF AffirmationsHold, AffirmersDiffer, AffirmedIsComplete
<1> QED BY <1>2, <1>3

LEMMA AffirmStep ==
  ASSUME BreakGlassTypeOK, RegistryInv,
         NEW a \in Actions, NEW att \in Attestations, NEW role \in Roles, NEW now,
         Affirm(a, att, role, now)
  PROVE  RegistryInv'
<1> SUFFICES ASSUME NEW b \in Actions
             PROVE  /\ InvocationHolds(b)' /\ AffirmationsHold(b)'
                    /\ AffirmersDiffer(b)' /\ AffirmedIsComplete(b)'
  BY DEF RegistryInv
<1>0. InvocationHolds(b) /\ AffirmationsHold(b) /\ AffirmersDiffer(b) /\ AffirmedIsComplete(b)
  BY DEF RegistryInv
<1>1. invoked' = invoked
  BY DEF Affirm
<1>2. CASE b # a
  <2>1. phase'[b] = phase[b] /\ affirmations'[b] = affirmations[b]
    BY <1>2 DEF Affirm, BreakGlassTypeOK
  <2> QED BY <1>0, <1>1, <2>1 DEF InvocationHolds, AffirmationsHold, AffirmersDiffer,
                                 AffirmedIsComplete, SignedRoles, Signed
<1>3. CASE b = a
  <2> DEFINE old == affirmations[a]
             new == affirmations'[a]
  <2>1. role \in AffirmationQuorum /\ phase[a] = "Invoked"
    BY DEF Affirm
  <2>2. new = [old EXCEPT ![role] = att] /\ old \in [AffirmationQuorum -> Attestations \cup {NoAttestation}]
    BY DEF Affirm, BreakGlassTypeOK
  <2>3. new[role] = att /\ \A r \in AffirmationQuorum \ {role} : new[r] = old[r]
    BY <2>1, <2>2
  <2>4. old[role] = NoAttestation /\ \A r \in SignedRoles(old) : old[r].signer # att.signer
    BY DEF Affirm, Duplicate
  <2>5. Signed(att, "affirm", a, role) /\ att.payload = invoked[a].payload
        /\ att.signer # invoked[a].signer
    BY DEF Affirm, Authorize, Signed
  <2> HIDE DEF old, new
  <2>6. SignedRoles(new) = SignedRoles(old) \cup {role}
    BY <2>1, <2>3, AttestationIsReal DEF SignedRoles
  <2>7. role \notin SignedRoles(old) /\ SignedRoles(old) \subseteq AffirmationQuorum
    BY <2>4 DEF SignedRoles
  <2>8. AffirmationsHold(b)'
    <3> SUFFICES ASSUME NEW r \in SignedRoles(new)
                 PROVE  /\ Signed(new[r], "affirm", a, r)
                        /\ new[r].payload = invoked[a].payload
                        /\ new[r].signer # invoked[a].signer
      BY <1>1, <1>3 DEF AffirmationsHold, new, SignedRoles, Signed
    <3>1. CASE r = role
      BY <2>3, <2>5, <3>1
    <3>2. CASE r # role
      BY <1>0, <1>3, <2>3, <2>6, <2>7, <3>2 DEF AffirmationsHold, old
    <3> QED BY <3>1, <3>2
  <2>9. AffirmersDiffer(b)'
    <3> SUFFICES ASSUME NEW r \in SignedRoles(new), NEW q \in SignedRoles(new),
                        new[r].signer = new[q].signer
                 PROVE  r = q
      BY <1>3 DEF AffirmersDiffer, new, SignedRoles
    <3>1. CASE r # role /\ q # role
      <4>1. new[r] = old[r] /\ new[q] = old[q] /\ r \in SignedRoles(old) /\ q \in SignedRoles(old)
        BY <2>3, <2>6, <2>7, <3>1
      <4> QED BY <1>0, <1>3, <4>1 DEF AffirmersDiffer, old
    <3>2. CASE r = role /\ q # role
      BY <2>3, <2>4, <2>6, <2>7, <3>2
    <3>3. CASE r # role /\ q = role
      BY <2>3, <2>4, <2>6, <2>7, <3>3
    <3> QED BY <3>1, <3>2, <3>3
  <2>10. phase'[a] = IF AffirmationQuorum \subseteq SignedRoles(new) THEN "Affirmed" ELSE phase[a]
    BY DEF Affirm, BreakGlassTypeOK, new
  <2>11. InvocationHolds(b)'
    BY <1>0, <1>1, <1>3, <2>1, <2>10 DEF InvocationHolds, Signed
  <2>12. AffirmedIsComplete(b)'
    <3>1. phase'[a] = "Affirmed" => SignedRoles(new) = AffirmationQuorum
      BY <2>1, <2>6, <2>7, <2>10
    <3> QED BY <1>3, <3>1 DEF AffirmedIsComplete, new, SignedRoles
  <2> QED BY <2>8, <2>9, <2>11, <2>12
<1> QED BY <1>2, <1>3

LEMMA RegistryStep == BreakGlassTypeOK /\ RegistryInv /\ [BreakGlassNext]_breakGlassVars => RegistryInv'
<1> SUFFICES ASSUME BreakGlassTypeOK, RegistryInv, [BreakGlassNext]_breakGlassVars PROVE RegistryInv'
  OBVIOUS
<1>1. ASSUME NEW now \in Readings, Tick(now) PROVE RegistryInv'
  <2>1. \A a \in Actions : /\ phase'[a] = "Pending" <=> phase[a] = "Pending"
                           /\ phase'[a] = "Affirmed" => phase[a] = "Affirmed"
    BY <1>1 DEF Tick
  <2> QED BY <1>1, <2>1, PhaseStep DEF Tick
<1>2. CASE Surface
  <2>1. \A a \in Actions : /\ phase'[a] = "Pending" <=> phase[a] = "Pending"
                           /\ phase'[a] = "Affirmed" => phase[a] = "Affirmed"
    BY <1>2 DEF Surface
  <2> QED BY <1>2, <2>1, PhaseStep DEF Surface
<1>3. CASE TimePasses \/ UNCHANGED breakGlassVars
  BY <1>3, PhaseStep DEF TimePasses, breakGlassVars
<1> QED BY <1>1, <1>2, <1>3, InvokeStep, AffirmStep DEF BreakGlassNext

LEMMA RegistryInvIsEnough == RegistryInv => AffirmedByTwoOthers
<1> SUFFICES ASSUME RegistryInv, NEW a \in Actions, phase[a] = "Affirmed"
             PROVE  /\ a \in Eligible \ Itar
                    /\ Signed(invoked[a], "invoke", a, "SecurityOfficer")
                    /\ \A r \in AffirmationQuorum : /\ Signed(affirmations[a][r], "affirm", a, r)
                                         /\ affirmations[a][r].payload = invoked[a].payload
                                         /\ affirmations[a][r].signer # invoked[a].signer
                    /\ \A r, q \in AffirmationQuorum :
                         affirmations[a][r].signer = affirmations[a][q].signer => r = q
  BY DEF AffirmedByTwoOthers
<1>1. SignedRoles(affirmations[a]) = AffirmationQuorum
  BY DEF RegistryInv, AffirmedIsComplete
<1> QED BY <1>1 DEF RegistryInv, InvocationHolds, AffirmationsHold, AffirmersDiffer

\* An affirmed action has an enrolled security officer behind its invocation and
\* two further people behind the payload that was invoked, for any roster.
THEOREM AffirmationIsByTwoOthers == BreakGlassSpec => []AffirmedByTwoOthers
<1>1. BreakGlassSpec => []RegistryInv
  BY RegistryInit, RegistryStep, RegistryTypeCorrect, PTL DEF BreakGlassSpec
<1> QED BY <1>1, RegistryInvIsEnough, PTL

-----------------------------------------------------------------------------
\* What has been affirmed, or reported as not affirmed, is never changed again.
THEOREM OutcomesStand == BreakGlassSpec => ReportedOutcomeStands
<1> DEFINE Stands == \A a \in Actions :
             /\ phase[a] = "Unaffirmed" => phase'[a] \in {"Unaffirmed", "Surfaced"}
             /\ phase[a] \in {"Affirmed", "Surfaced"} => phase'[a] = phase[a]
<1>1. BreakGlassTypeOK /\ [BreakGlassNext]_breakGlassVars => [Stands]_breakGlassVars
  <2> SUFFICES ASSUME BreakGlassTypeOK, BreakGlassNext PROVE Stands
    BY DEF breakGlassVars
  <2>1. ASSUME NEW a \in Actions, NEW att \in Attestations, NEW role \in Roles,
               NEW now \in Readings, NEW p \in Payloads, Invoke(a, p, att, role, now)
        PROVE  Stands
    BY <2>1 DEF Invoke, BreakGlassTypeOK
  <2>2. ASSUME NEW a \in Actions, NEW att \in Attestations, NEW role \in Roles,
               NEW now \in Readings, Affirm(a, att, role, now)
        PROVE  Stands
    BY <2>2 DEF Affirm, BreakGlassTypeOK
  <2>3. ASSUME NEW now \in Readings, Tick(now) PROVE Stands
    BY <2>3 DEF Tick
  <2>4. CASE Surface
    BY <2>4 DEF Surface
  <2>5. CASE TimePasses
    BY <2>5 DEF TimePasses
  <2> QED BY <2>1, <2>2, <2>3, <2>4, <2>5 DEF BreakGlassNext
<1> QED BY <1>1, RegistryTypeCorrect, PTL DEF BreakGlassSpec, ReportedOutcomeStands
=============================================================================
