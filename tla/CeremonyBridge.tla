---------------------------- MODULE CeremonyBridge ----------------------------
(***************************************************************************)
(* The ceremony bridge of agent-sidecar (lib.rs, hic_records.rs): skills     *)
(* that propose effects, the member's approve and reject requests, the       *)
(* decision log they are written to and the emergency stop.                   *)
(*                                                                         *)
(* A skill is a task started by run_skill. Its capsule proposes effects one  *)
(* after the other; each is a submission to the approval queue, parked under *)
(* its call id (a hash of the effect, so proposing an effect again gives the *)
(* same id) until it is answered or its timer elapses. A request is one       *)
(* execution of resolve_body, which looks at the head of the queue, writes    *)
(* the log and resolves the queue without one lock over the three.            *)
(*                                                                         *)
(* The queue keeps here its FIFO order and its answers; ApprovalQueue has the *)
(* rest. The log keeps its order and its outcomes; DecisionLog has the rest.  *)
(* Abstracted: authorization, parsing (a request that does not parse changes  *)
(* nothing), the sessions and the browser, which the stop halts as well.      *)
(***************************************************************************)
EXTENDS Naturals, FiniteSets, SequencesExt

CONSTANTS Skills,      \* tasks that run_skill starts
          Proposals,   \* submissions to the queue
          EffectsOf,   \* the call ids a proposal may have
          Requests,    \* approve and reject requests
          MaxConcurrentSkills,  \* MAX_CONCURRENT_SKILLS
          MaxLogErrors,         \* bound: appends to the log that fail
          None

Calls == UNION {EffectsOf[p] : p \in Proposals}

ASSUME BoundAssumption == MaxConcurrentSkills \in Nat \ {0} /\ MaxLogErrors \in Nat
ASSUME NoneAssumption ==
  None \notin Proposals \cup Calls \cup Nat
     \cup {"approve", "reject", "unknown", "ok", "conflict", "unavailable", "stopped",
           "Completed", "Failed", "OutcomeUnknown"}

VARIABLES
  triggered,   \* the EmergencyStop flag
  frozen,      \* ApprovalQueue::frozen
  stopped,     \* the queue has been drained: the stop handler has returned
  skill,       \* where a skill is
  current,     \* the proposal a skill waits for
  status,      \* how far a proposal has come (see ApprovalPromise)
  call,        \* its call id
  queue,       \* the FIFO track: the entries of proposals
  shown,       \* history: call ids that GET /approvals has shown the member
  request,     \* the requests
  log,         \* the decision records, each with its outcome
  remembered,  \* calls with an unknown outcome
  logErrors

stopVars  == <<triggered, frozen, stopped>>
skillVars == <<skill, current, status, call>>
vars == <<stopVars, skillVars, queue, shown, request, log, remembered, logErrors>>

SkillSteps   == {"absent", "accepted", "running", "admitted", "blocked", "leaving", "done"}
RequestSteps == {"new", "peek", "record", "remember", "resolve", "receipt", "outcome", "done"}
Kinds        == {"approve", "reject", "unknown"}
Answers      == {None, "ok", "conflict", "unavailable", "stopped"}

Init ==
  /\ triggered = FALSE /\ frozen = FALSE /\ stopped = FALSE
  /\ skill = [t \in Skills |-> "absent"]
  /\ current = [t \in Skills |-> None]
  /\ status = [p \in Proposals |-> "new"]
  /\ call = [p \in Proposals |-> None]
  /\ queue = <<>> /\ shown = {}
  /\ request = [q \in Requests |-> [pc |-> "new", kind |-> None, call |-> None,
                                     matched |-> FALSE, seq |-> None, told |-> None]]
  /\ log = <<>> /\ remembered = {}
  /\ logErrors = 0

-----------------------------------------------------------------------------
(* Skills: run_skill and the approval gate *)

Goto(t, step) == skill' = [skill EXCEPT ![t] = step]

RunSkill(t) ==
  /\ skill[t] = "absent" /\ ~triggered
  /\ Cardinality({u \in Skills : skill[u] \notin {"absent", "done"}}) < MaxConcurrentSkills
  /\ Goto(t, "accepted")
  /\ UNCHANGED <<stopVars, current, status, call, queue, shown, request, log, remembered, logErrors>>

\* The stop is looked at again when the task starts.
StartSkill(t) ==
  /\ skill[t] = "accepted"
  /\ Goto(t, IF triggered THEN "done" ELSE "running")
  /\ UNCHANGED <<stopVars, current, status, call, queue, shown, request, log, remembered, logErrors>>

SetStatus(p, s) == status' = [status EXCEPT ![p] = s]

\* The capsule proposes an effect; the first look at the freeze.
Propose(t, p, c) ==
  /\ skill[t] = "running" /\ status[p] = "new" /\ c \in EffectsOf[p]
  /\ call' = [call EXCEPT ![p] = c]
  /\ IF frozen
     THEN SetStatus(p, "refused") /\ UNCHANGED <<skill, current>>
     ELSE SetStatus(p, "admitted") /\ Goto(t, "admitted") /\ current' = [current EXCEPT ![t] = p]
  /\ UNCHANGED <<stopVars, queue, shown, request, log, remembered, logErrors>>

Queued(c) == \E i \in DOMAIN queue : call[queue[i]] = c

\* Faulty: the freeze is not looked at again under the lock.
EnqueueNoRecheck(t) ==
  /\ skill[t] = "admitted"
  /\ LET p == current[t] IN
     IF Queued(call[p])
     THEN SetStatus(p, "refused") /\ Goto(t, "leaving") /\ UNCHANGED queue
     ELSE SetStatus(p, "parked") /\ Goto(t, "blocked") /\ queue' = Append(queue, p)
  /\ UNCHANGED <<stopVars, current, call, shown, request, log, remembered, logErrors>>

\* Under the lock: the freeze again, a duplicate, and the entry.
Enqueue(t) ==
  /\ skill[t] = "admitted"
  /\ LET p == current[t] IN
     IF frozen \/ Queued(call[p])
     THEN SetStatus(p, "refused") /\ Goto(t, "leaving") /\ UNCHANGED queue
     ELSE SetStatus(p, "parked") /\ Goto(t, "blocked") /\ queue' = Append(queue, p)
  /\ UNCHANGED <<stopVars, current, call, shown, request, log, remembered, logErrors>>

\* The timer elapses; the entry is still there.
Expire(t) ==
  /\ skill[t] = "blocked" /\ status[current[t]] = "parked"
  /\ SetStatus(current[t], "refused") /\ Goto(t, "leaving")
  /\ UNCHANGED <<stopVars, current, call, queue, shown, request, log, remembered, logErrors>>

Wake(t) ==
  /\ skill[t] = "blocked" /\ status[current[t]] # "parked"
  /\ Goto(t, "leaving")
  /\ UNCHANGED <<stopVars, current, status, call, queue, shown, request, log, remembered, logErrors>>

\* The guard removes the submission's own entry, if it is still there, and the
\* capsule goes on.
Leave(t) ==
  /\ skill[t] = "leaving"
  /\ \/ \E i \in 1..Len(queue) : queue[i] = current[t] /\ queue' = RemoveAt(queue, i)
     \/ (\A i \in 1..Len(queue) : queue[i] # current[t]) /\ UNCHANGED queue
  /\ Goto(t, "running") /\ current' = [current EXCEPT ![t] = None]
  /\ UNCHANGED <<stopVars, status, call, shown, request, log, remembered, logErrors>>

FinishSkill(t) ==
  /\ skill[t] = "running" /\ Goto(t, "done")
  /\ UNCHANGED <<stopVars, current, status, call, queue, shown, request, log, remembered, logErrors>>

-----------------------------------------------------------------------------
(* The routes *)

HeadIs(c) == queue # <<>> /\ call[Head(queue)] = c

\* GET /approvals
Show ==
  /\ ~triggered /\ queue # <<>>
  /\ shown' = shown \cup {call[Head(queue)]}
  /\ UNCHANGED <<stopVars, skillVars, queue, request, log, remembered, logErrors>>

Answer(q, told) == request' = [request EXCEPT ![q].pc = "done", ![q].told = told]
ToStep(q, step) == request' = [request EXCEPT ![q].pc = step]

\* A member answers a call the approvals route has shown. An unknown outcome is
\* reported for a transaction that citrate-core has already submitted.
Post(q, kind, c) ==
  /\ request[q].pc = "new" /\ c \in shown
  /\ request' = [request EXCEPT ![q].kind = kind, ![q].call = c,
                   ![q].pc   = IF triggered THEN "done" ELSE "peek",
                   ![q].told = IF triggered THEN "stopped" ELSE None]
  /\ UNCHANGED <<stopVars, skillVars, queue, shown, log, remembered, logErrors>>

AfterRecord(kind) == IF kind = "unknown" THEN "remember" ELSE "resolve"

\* Is the call at the head? Only then is the decision written ahead, unless it
\* is a denial.
Peek(q) ==
  /\ request[q].pc = "peek"
  /\ LET matched == HeadIs(request[q].call)
         kind == request[q].kind IN
     request' = [request EXCEPT ![q].matched = matched,
                   ![q].pc = IF matched /\ kind # "reject" THEN "record" ELSE AfterRecord(kind)]
  /\ UNCHANGED <<stopVars, skillVars, queue, shown, log, remembered, logErrors>>

Append1(c, allow) ==
  /\ log' = Append(log, [call |-> c, allow |-> allow, outcome |-> None])
  /\ UNCHANGED logErrors
LogError == logErrors < MaxLogErrors /\ logErrors' = logErrors + 1 /\ UNCHANGED log

\* Faulty: an approval that cannot be recorded goes on.
RecordAheadAnyway(q) ==
  /\ request[q].pc = "record"
  /\ LET next == AfterRecord(request[q].kind) IN
     \/ /\ Append1(request[q].call, TRUE)
        /\ request' = [request EXCEPT ![q].seq = Len(log) + 1, ![q].pc = next]
     \/ LogError /\ ToStep(q, next)
  /\ UNCHANGED <<stopVars, skillVars, queue, shown, remembered>>

\* record_ceremony_decision, before anything is released. An approval that
\* cannot be recorded is refused; an unknown outcome goes on.
RecordAhead(q) ==
  /\ request[q].pc = "record"
  /\ LET kind == request[q].kind IN
     \/ /\ Append1(request[q].call, TRUE)
        /\ request' = [request EXCEPT ![q].seq = Len(log) + 1, ![q].pc = AfterRecord(kind)]
     \/ LogError /\ kind = "unknown" /\ ToStep(q, AfterRecord(kind))
     \/ LogError /\ kind # "unknown" /\ Answer(q, "unavailable")
  /\ UNCHANGED <<stopVars, skillVars, queue, shown, remembered>>

\* remember_unknown_outcome
Remember(q) ==
  /\ request[q].pc = "remember" /\ ToStep(q, "resolve")
  /\ remembered' = remembered \cup {request[q].call}
  /\ UNCHANGED <<stopVars, skillVars, queue, shown, log, logErrors>>

\* Faulty: whatever is at the head is resolved.
ResolveHead(q) ==
  /\ request[q].pc = "resolve"
  /\ IF queue # <<>>
     THEN /\ queue' = Tail(queue)
          /\ SetStatus(Head(queue), CASE status[Head(queue)] # "parked" -> status[Head(queue)]
                                      [] status[Head(queue)] = "parked" /\ request[q].kind = "approve" -> "released"
                                      [] status[Head(queue)] = "parked" /\ request[q].kind # "approve" -> "refused")
          /\ request' = [request EXCEPT ![q].pc = "receipt", ![q].told = "ok"]
     ELSE request' = [request EXCEPT ![q].pc = "receipt", ![q].told = "conflict"]
          /\ UNCHANGED <<queue, status>>
  /\ UNCHANGED <<stopVars, skill, current, call, shown, log, remembered, logErrors>>

\* resolve_head_by_id: the head is popped and answered, if it is the call the
\* member reviewed. A send to a submission whose timer has elapsed may still
\* succeed (see ApprovalQueue).
Resolve(q) ==
  /\ request[q].pc = "resolve"
  /\ \/ /\ ~HeadIs(request[q].call)
        /\ request' = [request EXCEPT ![q].pc = "receipt", ![q].told = "conflict"]
        /\ UNCHANGED <<queue, status>>
     \/ /\ HeadIs(request[q].call)
        /\ queue' = Tail(queue)
        /\ \/ /\ status[Head(queue)] = "parked"
              /\ SetStatus(Head(queue), IF request[q].kind = "approve" THEN "released" ELSE "refused")
              /\ request' = [request EXCEPT ![q].pc = "receipt", ![q].told = "ok"]
           \/ /\ status[Head(queue)] # "parked"
              /\ UNCHANGED status
              /\ \E told \in {"ok", "conflict"} :
                   request' = [request EXCEPT ![q].pc = "receipt", ![q].told = told]
  /\ UNCHANGED <<stopVars, skill, current, call, shown, log, remembered, logErrors>>

\* Faulty: the receipt of an unknown outcome needs a call at the head.
ReceiptOfHead(q) ==
  /\ request[q].pc = "receipt"
  /\ ToStep(q, IF request[q].seq # None THEN "outcome" ELSE "done")
  /\ UNCHANGED <<stopVars, skillVars, queue, shown, log, remembered, logErrors>>

\* The decision of an unknown outcome that has no record yet, and the denial
\* after the fact.
Receipt(q) ==
  /\ request[q].pc = "receipt"
  /\ LET r == request[q] IN
     \/ r.seq # None /\ ToStep(q, "outcome") /\ UNCHANGED <<log, logErrors>>
     \/ /\ r.seq = None /\ r.kind = "unknown"
        /\ \/ /\ Append1(r.call, TRUE)
              /\ request' = [request EXCEPT ![q].pc = "outcome", ![q].seq = Len(log) + 1]
           \/ LogError /\ ToStep(q, "done")
     \/ /\ r.kind = "reject" /\ r.matched /\ r.told = "ok"
        /\ Append1(r.call, FALSE) \/ LogError
        /\ ToStep(q, "done")
     \/ /\ r.seq = None
        /\ r.kind = "approve" \/ (r.kind = "reject" /\ ~(r.matched /\ r.told = "ok"))
        /\ ToStep(q, "done") /\ UNCHANGED <<log, logErrors>>
  /\ UNCHANGED <<stopVars, skillVars, queue, shown, remembered>>

OutcomeOf(r) ==
  CASE r.kind = "unknown" -> "OutcomeUnknown"
    [] r.kind = "approve" /\ r.told = "ok" -> "Completed"
    [] r.kind = "approve" /\ r.told = "conflict" -> "Failed"

\* Faulty: the outcome is only written for a call that was resolved.
RecordOutcomeIfOk(q) ==
  /\ request[q].pc = "outcome" /\ ToStep(q, "done")
  /\ log' = IF request[q].told = "ok"
            THEN [log EXCEPT ![request[q].seq].outcome = OutcomeOf(request[q])] ELSE log
  /\ UNCHANGED <<logErrors, stopVars, skillVars, queue, shown, remembered>>

\* record_outcome closes the decision.
RecordOutcome(q) ==
  /\ request[q].pc = "outcome" /\ ToStep(q, "done")
  /\ \/ /\ log' = [log EXCEPT ![request[q].seq].outcome = OutcomeOf(request[q])]
        /\ UNCHANGED logErrors
     \/ LogError
  /\ UNCHANGED <<stopVars, skillVars, queue, shown, remembered>>

-----------------------------------------------------------------------------
(* POST /stop. The sidecar never resets the flag nor thaws the queue. *)

Trigger ==
  /\ ~triggered /\ triggered' = TRUE
  /\ UNCHANGED <<frozen, stopped, skillVars, queue, shown, request, log, remembered, logErrors>>

Freeze ==
  /\ triggered /\ ~frozen /\ frozen' = TRUE
  /\ UNCHANGED <<triggered, stopped, skillVars, queue, shown, request, log, remembered, logErrors>>

Drain ==
  /\ frozen /\ ~stopped /\ stopped' = TRUE
  /\ status' = [p \in Proposals |-> IF status[p] = "parked" THEN "refused" ELSE status[p]]
  /\ queue' = <<>>
  /\ UNCHANGED <<triggered, frozen, skill, current, call, shown, request, log, remembered, logErrors>>

-----------------------------------------------------------------------------
StepSkill(t) ==
  \/ StartSkill(t) \/ Enqueue(t) \/ Expire(t) \/ Wake(t) \/ Leave(t) \/ FinishSkill(t)
  \/ \E p \in Proposals : \E c \in EffectsOf[p] : Propose(t, p, c)

StepRequest(q) ==
  \/ Peek(q) \/ RecordAhead(q) \/ Remember(q) \/ Resolve(q) \/ Receipt(q) \/ RecordOutcome(q)

Next ==
  \/ \E t \in Skills : RunSkill(t) \/ StepSkill(t)
  \/ \E q \in Requests :
       \/ StepRequest(q)
       \/ \E kind \in Kinds, c \in Calls : Post(q, kind, c)
  \/ Show \/ Trigger \/ Freeze \/ Drain

Spec == Init /\ [][Next]_vars

-----------------------------------------------------------------------------
(* Safety *)

\* The type invariant.
TypeOK ==
  /\ {triggered, frozen, stopped} \subseteq BOOLEAN
  /\ skill \in [Skills -> SkillSteps]
  /\ current \in [Skills -> Proposals \cup {None}]
  /\ status \in [Proposals -> {"new", "admitted", "parked", "released", "refused"}]
  /\ call \in [Proposals -> Calls \cup {None}]
  /\ queue \in Seq(Proposals) /\ IsInjective(queue)
  /\ shown \subseteq Calls /\ remembered \subseteq Calls
  /\ request \in [Requests -> [pc : RequestSteps, kind : Kinds \cup {None},
                                call : Calls \cup {None}, matched : BOOLEAN,
                                seq : 1..Len(log) \cup {None}, told : Answers]]
  /\ log \in Seq([call : Calls, allow : BOOLEAN,
                  outcome : {None, "Completed", "Failed", "OutcomeUnknown"}])
  /\ logErrors \in 0..MaxLogErrors

\* AR-B-023, PBA-L6b-009: an effect is released only by an approval of that very
\* call, and one approval releases one effect at most, whatever was evicted,
\* proposed again or moved to the head while the member was looking.
EveryReleaseWasReviewed ==
  \A c \in Calls :
    Cardinality({p \in Proposals : status[p] = "released" /\ call[p] = c})
      <= Cardinality({q \in Requests : /\ request[q].kind = "approve" /\ request[q].told = "ok"
                                       /\ request[q].call = c})

\* A request that has been answered leaves no decision open: what happened to
\* each is on the record, also when the call had stopped waiting in between.
NoDecisionLeftOpen ==
  logErrors = 0 =>
    \A i \in DOMAIN log : log[i].allow /\ log[i].outcome = None =>
      \E q \in Requests : request[q].seq = i /\ request[q].pc # "done"

\* C1-V3-R: an unknown outcome that the route has taken is remembered, so an
\* identical proposal is never approved unattended, and has a receipt, also when
\* the call is no longer waiting and when the first write of it failed.
UnknownHasReceipt ==
  \A q \in Requests :
    LET r == request[q] IN
    r.kind = "unknown" /\ r.pc = "done" /\ r.told # "stopped" =>
      /\ r.call \in remembered
      /\ logErrors = 0 => /\ r.seq # None
                          /\ log[r.seq] = [call |-> r.call, allow |-> TRUE, outcome |-> "OutcomeUnknown"]

\* Both: what the route answered about a decision is what the log and the memory
\* of unknown outcomes say.
AnswersAreOnRecord == NoDecisionLeftOpen /\ UnknownHasReceipt

\* hic_records.rs:16: "A member decision that allows something is written before
\* it takes effect". The code breaks this when an effect is proposed again, see
\* README.md.
ReleaseIsWriteAhead ==
  \A q \in Requests : request[q].kind = "approve" /\ request[q].told = "ok" => request[q].seq # None

\* It keeps it for the effects that are proposed once, whatever else is queued.
FirstReleaseIsWriteAhead ==
  \A q \in Requests :
    /\ request[q].kind = "approve" /\ request[q].told = "ok"
    /\ Cardinality({p \in Proposals : call[p] = request[q].call}) = 1
    => request[q].seq # None

\* The queue of the bridge implements the promise that ApprovalQueue implements.
Promise == INSTANCE ApprovalPromise WITH Submissions <- Proposals
KeepsPromise == Promise!Spec

-----------------------------------------------------------------------------
(* Statements of the documentation that the code does not keep in every case;  *)
(* README.md gives the instance that refutes each.                              *)

\* lib.rs:715: "no approval can be resolved after the operator pulled the kill
\* switch."
NothingReleasedAfterTrigger ==
  [][triggered => \A p \in Proposals : status'[p] = "released" => status[p] = "released"]_vars

\* lib.rs:729-730: "a receipt naming the tx is written for its call id even when
\* the waiter is gone": a report of a submitted transaction is on the record.
EveryReportHasReceipt ==
  \A q \in Requests :
    request[q].kind = "unknown" /\ request[q].pc = "done" /\ logErrors = 0 =>
      \E i \in DOMAIN log : log[i].call = request[q].call
=============================================================================
