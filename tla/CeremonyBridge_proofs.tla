------------------------ MODULE CeremonyBridge_proofs ------------------------
(***************************************************************************)
(* Proofs about CeremonyBridge, for any number of skills, proposals, requests *)
(* and failed writes of the log.                                              *)
(***************************************************************************)
EXTENDS CeremonyBridge, SequenceTheorems, FiniteSetTheorems, TLAPS

-----------------------------------------------------------------------------
(* The inductive invariant                                                     *)

Request == [pc : RequestSteps, kind : Kinds \cup {None}, call : Calls \cup {None}, matched : BOOLEAN,
            seq : Nat \cup {None}, told : Answers]
Record  == [call : Calls, allow : BOOLEAN, outcome : {None, "Completed", "Failed", "OutcomeUnknown"}]

Types ==
  /\ triggered \in BOOLEAN /\ frozen \in BOOLEAN /\ stopped \in BOOLEAN
  /\ skill \in [Skills -> SkillSteps]
  /\ current \in [Skills -> Proposals \cup {None}]
  /\ status \in [Proposals -> {"new", "admitted", "parked", "released", "refused"}]
  /\ call \in [Proposals -> Calls \cup {None}]
  /\ queue \in Seq(Proposals)
  /\ shown \subseteq Calls

RecordTypes ==
  /\ remembered \subseteq Calls
  /\ request \in [Requests -> Request]
  /\ log \in Seq(Record)
  /\ logErrors \in 0..MaxLogErrors

\* A skill that has an effect in the queue or on its way there, and which one.
SkillInv ==
  /\ \A t \in Skills :
       /\ skill[t] \in {"admitted", "blocked", "leaving"} <=> current[t] \in Proposals
       /\ skill[t] = "admitted" => status[current[t]] = "admitted"
       /\ skill[t] \in {"blocked", "leaving"} => status[current[t]] \notin {"new", "admitted"}
  /\ \A t, u \in Skills : current[t] = current[u] /\ current[t] \in Proposals => t = u
  /\ \A p \in Proposals : status[p] = "new" <=> call[p] = None

\* An entry of the queue waits or has been refused; after the stop nothing waits.
QueueInv ==
  /\ \A i \in 1..Len(queue) : status[queue[i]] \in {"parked", "refused"}
  /\ \A i, j \in 1..Len(queue) : queue[i] = queue[j] => i = j
  /\ stopped => frozen
  /\ stopped => \A p \in Proposals : status[p] # "parked"

StateInv == Types /\ SkillInv /\ QueueInv

\* Where a request is, what it has written and what it has been told.
RequestInv(r) ==
  /\ r.pc = "new" => r.kind = None /\ r.told = None
  /\ r.pc # "new" => r.kind \in Kinds /\ r.call \in shown
  /\ r.pc \in {"new", "peek", "record"} => r.seq = None
  /\ r.pc \in {"peek", "record", "remember", "resolve"} => r.told = None
  /\ r.pc \in {"receipt", "outcome"} => r.told \in {"ok", "conflict"}
  /\ r.pc = "record" => r.kind # "reject"
  /\ r.pc = "remember" => r.kind = "unknown"
  /\ r.pc = "outcome" => r.seq # None
  /\ r.kind = "reject" => r.seq = None
  /\ r.seq # None => r.seq \in 1..Len(log) /\ log[r.seq].call = r.call /\ log[r.seq].allow
  /\ r.kind = "unknown" /\ r.pc \in {"resolve", "receipt", "outcome"} => r.call \in remembered
  /\ r.kind = "unknown" /\ r.pc = "done" /\ r.told # "stopped" =>
       /\ r.call \in remembered
       /\ logErrors = 0 => r.seq # None /\ log[r.seq].outcome = "OutcomeUnknown"

\* A decision is the work of one request.
LogInv ==
  /\ \A q \in Requests : RequestInv(request[q])
  /\ \A q, s \in Requests : request[q].seq = request[s].seq /\ request[q].seq # None => q = s
  /\ NoDecisionLeftOpen

\* A proposal that has been in the queue, and is at its head or out of it.
Entered(p) == status[p] \notin {"new", "admitted"}
WasHead(p) == Entered(p) /\ \A i \in 2..Len(queue) : queue[i] # p
IsOut(p)   == Entered(p) /\ \A i \in 1..Len(queue) : queue[i] # p

ProposedTwice(c) == \E p, r \in Proposals : p # r /\ call[p] = c /\ call[r] = c

\* What the member has been shown was at the head; a call that was not there when
\* its request looked is out of the queue, if it has not been proposed again.
ShownInv ==
  /\ \A c \in shown : \E p \in Proposals : call[p] = c /\ WasHead(p)
  /\ \A q \in Requests : request[q].kind = "approve" /\ request[q].seq = None =>
       /\ request[q].pc = "resolve" => \E p \in Proposals : call[p] = request[q].call /\ IsOut(p)
       /\ request[q].told = "ok" => ProposedTwice(request[q].call)

ReleasedOf(c) == {p \in Proposals : status[p] = "released" /\ call[p] = c}
AllowedOf(c)  == {q \in Requests : /\ request[q].kind = "approve" /\ request[q].told = "ok"
                                   /\ request[q].call = c}

CountInv ==
  /\ IsFiniteSet({p \in Proposals : status[p] # "new"})
  /\ IsFiniteSet({q \in Requests : request[q].pc # "new"})
  /\ \A c \in Calls : Cardinality(ReleasedOf(c)) <= Cardinality(AllowedOf(c))

BridgeInv == StateInv /\ RecordTypes /\ LogInv /\ ShownInv /\ CountInv

-----------------------------------------------------------------------------
(* The queue                                                                   *)

\* r holds entries of q only, each once, and what is behind the head of r was
\* behind the head of q.
Shrinks(q, r) ==
  /\ r \in Seq(Proposals)
  /\ \A j \in 1..Len(r) : \E i \in 1..Len(q) : r[j] = q[i] /\ (j > 1 => i > 1)
  /\ \A i, j \in 1..Len(r) : r[i] = r[j] => i = j

Once(q) == q \in Seq(Proposals) /\ \A i, j \in 1..Len(q) : q[i] = q[j] => i = j

\* r is q without its entry i.
Without(q, i, r) ==
  /\ r \in Seq(Proposals) /\ Len(r) = Len(q) - 1
  /\ \A j \in 1..Len(r) : r[j] = IF j < i THEN q[j] ELSE q[j+1]

LEMMA WithoutShrinks ==
  ASSUME NEW q, Once(q), NEW i \in 1..Len(q), NEW r, Without(q, i, r)
  PROVE  Shrinks(q, r) /\ \A j \in 1..Len(r) : r[j] # q[i]
<1> DEFINE from(j) == IF j < i THEN j ELSE j + 1
<1>1. Len(q) \in Nat /\ Len(r) = Len(q) - 1 /\ r \in Seq(Proposals)
  BY LenProperties DEF Without, Once
<1>2. \A j \in 1..Len(r) : from(j) \in 1..Len(q) /\ r[j] = q[from(j)] /\ from(j) # i /\ (j > 1 => from(j) > 1)
  BY <1>1 DEF Without
<1>3. \A j, k \in 1..Len(r) : from(j) = from(k) => j = k
  BY <1>1
<1> HIDE DEF from
<1>4. \A j, k \in 1..Len(r) : r[j] = r[k] => j = k
  BY <1>2, <1>3 DEF Once
<1>5. \A j \in 1..Len(r) : r[j] # q[i]
  BY <1>2 DEF Once
<1>6. QED
  BY <1>1, <1>2, <1>4, <1>5 DEF Shrinks

LEMMA TailIsWithout ==
  ASSUME NEW q, Once(q), q # <<>>
  PROVE  /\ Without(q, 1, Tail(q)) /\ 1 \in 1..Len(q) /\ Head(q) = q[1] /\ Head(q) \in Proposals
<1>1. q \in Seq(Proposals) /\ Len(q) \in Nat \ {0}
  BY EmptySeq, LenProperties DEF Once
<1>2. QED
  BY <1>1, HeadTailProperties, LenProperties DEF Without

\* Leave takes an entry out of the queue with RemoveAt.
LEMMA RemoveAtIsWithout ==
  ASSUME NEW q, Once(q), NEW i \in 1..Len(q)
  PROVE  Without(q, i, RemoveAt(q, i))
<1> DEFINE a == SubSeq(q, 1, i-1)
           b == SubSeq(q, i+1, Len(q))
<1>1. q \in Seq(Proposals) /\ Len(q) \in Nat
  BY LenProperties DEF Once
<1>2. a \in Seq(Proposals) /\ Len(a) = i - 1 /\ \A j \in 1..i-1 : a[j] = q[j]
  BY <1>1, SubSeqProperties
<1>3. b \in Seq(Proposals) /\ Len(b) = Len(q) - i /\ \A j \in 1..Len(q)-i : b[j] = q[i+j]
  BY <1>1, SubSeqProperties
<1>4. /\ a \o b \in Seq(Proposals) /\ Len(a \o b) = Len(a) + Len(b)
      /\ \A j \in 1..Len(a)+Len(b) : (a \o b)[j] = IF j <= Len(a) THEN a[j] ELSE b[j-Len(a)]
  BY <1>2, <1>3, ConcatProperties
<1>5. RemoveAt(q, i) = a \o b
  BY DEF RemoveAt
<1> HIDE DEF a, b
<1>6. Len(a \o b) = Len(q) - 1
  BY <1>1, <1>2, <1>3, <1>4
<1>7. ASSUME NEW j \in 1..Len(q)-1
      PROVE  (a \o b)[j] = IF j < i THEN q[j] ELSE q[j+1]
  <2>1. CASE j < i
    BY <1>1, <1>2, <1>3, <1>4, <2>1
  <2>2. CASE ~(j < i)
    <3>1. (a \o b)[j] = b[j-Len(a)] /\ j - Len(a) \in 1..Len(q)-i /\ i + (j - Len(a)) = j + 1
      BY <1>1, <1>2, <1>3, <1>4, <2>2
    <3>2. QED
      BY <1>3, <2>2, <3>1
  <2>3. QED
    BY <2>1, <2>2
<1>8. QED
  BY <1>4, <1>5, <1>6, <1>7 DEF Without

LEMMA StandsShrinks ==
  ASSUME NEW q, Once(q)
  PROVE  Shrinks(q, q) /\ Shrinks(q, <<>>)
<1>1. <<>> \in Seq(Proposals) /\ Len(<<>>) = 0
  BY EmptySeq
<1>2. QED
  BY <1>1 DEF Shrinks, Once

\* A new entry goes behind the others.
LEMMA AppendsOne ==
  ASSUME NEW q, Once(q), NEW p \in Proposals
  PROVE  /\ Append(q, p) \in Seq(Proposals) /\ Len(q) \in Nat /\ Len(Append(q, p)) = Len(q) + 1
         /\ \A i \in 1..Len(q) + 1 : Append(q, p)[i] = IF i <= Len(q) THEN q[i] ELSE p
BY AppendProperties, LenProperties DEF Once

-----------------------------------------------------------------------------
(* Skills, the queue and the stop                                              *)

USE DEF stopVars, skillVars

\* A skill goes on and has or has not an effect with the queue, as before.
LEMMA SkillMoves ==
  ASSUME StateInv, NEW t \in Skills, NEW to \in SkillSteps, Goto(t, to),
         \/ {skill[t], to} \cap {"admitted", "blocked", "leaving"} = {}
         \/ {skill[t], to} \subseteq {"blocked", "leaving"},
         UNCHANGED <<stopVars, current, status, call, queue, shown>>
  PROVE  StateInv'
<1> USE DEF StateInv, Goto
<1>1. Types'
  BY DEF Types
<1>2. SkillInv'
  BY DEF SkillInv, Types
<1>3. QueueInv'
  BY DEF QueueInv
<1>4. QED
  BY <1>1, <1>2, <1>3

LEMMA ProposeState ==
  ASSUME StateInv, NEW t \in Skills, NEW p \in Proposals, NEW c \in EffectsOf[p], Propose(t, p, c)
  PROVE  StateInv'
<1> USE DEF StateInv
<1>1. /\ skill[t] = "running" /\ status[p] = "new" /\ c \in Calls /\ c # None
      /\ call' = [call EXCEPT ![p] = c] /\ UNCHANGED <<stopVars, queue, shown>>
      /\ \/ status' = [status EXCEPT ![p] = "refused"] /\ UNCHANGED <<skill, current>>
         \/ /\ ~frozen /\ status' = [status EXCEPT ![p] = "admitted"]
            /\ skill' = [skill EXCEPT ![t] = "admitted"] /\ current' = [current EXCEPT ![t] = p]
  BY NoneAssumption DEF Propose, SetStatus, Goto, Calls
<1>2. current[t] \notin Proposals /\ \A u \in Skills : current[u] # p
  BY <1>1 DEF SkillInv, Types, SkillSteps
<1>3. Types'
  BY <1>1 DEF Types, SkillSteps
<1>4. SkillInv'
  <2>1. CASE status' = [status EXCEPT ![p] = "refused"] /\ UNCHANGED <<skill, current>>
    BY <1>1, <1>2, <2>1 DEF SkillInv, Types
  <2>2. CASE /\ status' = [status EXCEPT ![p] = "admitted"]
             /\ skill' = [skill EXCEPT ![t] = "admitted"] /\ current' = [current EXCEPT ![t] = p]
    <3>1. \A u \in Skills :
            /\ skill'[u] \in {"admitted", "blocked", "leaving"} <=> current'[u] \in Proposals
            /\ skill'[u] = "admitted" => status'[current'[u]] = "admitted"
            /\ skill'[u] \in {"blocked", "leaving"} => status'[current'[u]] \notin {"new", "admitted"}
      BY <1>1, <1>2, <2>2 DEF SkillInv, Types
    <3>2. \A v, u \in Skills : current'[v] = current'[u] /\ current'[v] \in Proposals => v = u
      BY <1>2, <2>2 DEF SkillInv, Types
    <3>3. \A r \in Proposals : status'[r] = "new" <=> call'[r] = None
      BY <1>1, <2>2 DEF SkillInv, Types
    <3>4. QED
      BY <3>1, <3>2, <3>3 DEF SkillInv
  <2>3. QED
    BY <1>1, <2>1, <2>2
<1>5. QueueInv'
  <2>1. \A i \in 1..Len(queue) : queue[i] # p /\ queue[i] \in Proposals
    BY <1>1 DEF QueueInv, Types
  <2>2. QED
    BY <1>1, <2>1 DEF QueueInv, Types
<1>6. QED
  BY <1>3, <1>4, <1>5

\* The status of a proposal that a skill has with the queue.
LEMMA EnqueueState ==
  ASSUME StateInv, NEW t \in Skills, Enqueue(t)
  PROVE  /\ StateInv' /\ UNCHANGED call
         /\ current[t] \in Proposals /\ status[current[t]] = "admitted"
         /\ \E s \in {"refused", "parked"} : status' = [status EXCEPT ![current[t]] = s]
         /\ UNCHANGED queue \/ queue' = Append(queue, current[t])
<1> USE DEF StateInv
<1> DEFINE p == current[t]
<1>1. p \in Proposals /\ status[p] = "admitted" /\ skill[t] = "admitted"
  BY DEF Enqueue, SkillInv
<1>2. /\ UNCHANGED <<stopVars, current, call, shown>>
      /\ \/ /\ status' = [status EXCEPT ![p] = "refused"] /\ skill' = [skill EXCEPT ![t] = "leaving"]
            /\ UNCHANGED queue
         \/ /\ ~frozen /\ status' = [status EXCEPT ![p] = "parked"] /\ skill' = [skill EXCEPT ![t] = "blocked"]
            /\ queue' = Append(queue, p)
  BY DEF Enqueue, SetStatus, Goto
<1>3. \E s \in {"refused", "parked"}, to \in {"leaving", "blocked"} :
        status' = [status EXCEPT ![p] = s] /\ skill' = [skill EXCEPT ![t] = to]
  BY <1>2
<1>4. Once(queue)
  BY DEF Types, QueueInv, Once
<1>5. /\ Append(queue, p) \in Seq(Proposals) /\ Len(queue) \in Nat /\ Len(Append(queue, p)) = Len(queue) + 1
      /\ \A i \in 1..Len(queue) + 1 : Append(queue, p)[i] = IF i <= Len(queue) THEN queue[i] ELSE p
  BY <1>1, <1>4, AppendsOne
<1>6. \A i \in 1..Len(queue) : queue[i] # p /\ queue[i] \in Proposals
  BY <1>1 DEF QueueInv, Types
<1> HIDE DEF p
<1>7. Types'
  BY <1>1, <1>2, <1>3, <1>5 DEF Types, SkillSteps
<1>8. SkillInv'
  <2>1. \A u \in Skills : u # t => current[u] # p
    BY <1>1 DEF SkillInv, p
  <2>2. \A u \in Skills :
            /\ skill'[u] \in {"admitted", "blocked", "leaving"} <=> current'[u] \in Proposals
            /\ skill'[u] = "admitted" => status'[current'[u]] = "admitted"
            /\ skill'[u] \in {"blocked", "leaving"} => status'[current'[u]] \notin {"new", "admitted"}
    <3>1. ASSUME NEW u \in Skills, u # t
          PROVE  skill'[u] = skill[u] /\ (current[u] \in Proposals => status'[current[u]] = status[current[u]])
      BY <1>1, <1>3, <2>1, <3>1 DEF Types
    <3>2. skill'[t] \in {"leaving", "blocked"} /\ status'[p] \in {"refused", "parked"}
      BY <1>1, <1>3 DEF Types
    <3>3. QED
      BY <1>1, <1>2, <3>1, <3>2 DEF SkillInv, p
  <2>3. \A r \in Proposals : status'[r] = "new" <=> call'[r] = None
    BY <1>1, <1>2, <1>3 DEF SkillInv, Types
  <2>4. QED
    BY <1>2, <2>2, <2>3 DEF SkillInv
<1>9. QueueInv'
  <2>1. CASE status' = [status EXCEPT ![p] = "refused"] /\ UNCHANGED queue
    BY <1>1, <1>2, <1>6, <2>1 DEF QueueInv, Types
  <2>2. CASE ~frozen /\ status' = [status EXCEPT ![p] = "parked"] /\ queue' = Append(queue, p)
    <3>1. \A i \in 1..Len(queue) + 1 : status'[queue'[i]] \in {"parked", "refused"}
      BY <1>1, <1>5, <1>6, <2>2 DEF QueueInv, Types
    <3>2. \A i, j \in 1..Len(queue) + 1 : queue'[i] = queue'[j] => i = j
      BY <1>5, <1>6, <2>2 DEF QueueInv
    <3>3. ~stopped'
      BY <1>2, <2>2 DEF QueueInv, Types
    <3>4. QED
      BY <1>2, <1>5, <2>2, <3>1, <3>2, <3>3 DEF QueueInv
  <2>3. QED
    BY <1>2, <2>1, <2>2
<1>10. QED
  BY <1>1, <1>2, <1>7, <1>8, <1>9 DEF p

\* An entry is decided or given up where it is.
LEMMA StatusChanges ==
  ASSUME StateInv, NEW p \in Proposals, Entered(p), NEW s \in {"refused", "released"},
         status' = [status EXCEPT ![p] = s], UNCHANGED <<stopVars, current, call, shown>>,
         skill' = skill \/ \E t \in Skills : skill[t] = "blocked" /\ skill' = [skill EXCEPT ![t] = "leaving"],
         Shrinks(queue, queue'), s = "released" => \A i \in 1..Len(queue') : queue'[i] # p
  PROVE  StateInv'
<1> USE DEF StateInv, Entered
<1>1. Types'
  BY DEF Types, SkillSteps, Shrinks
<1>2. SkillInv'
  <2>1. \A u \in Skills :
            /\ skill'[u] \in {"admitted", "blocked", "leaving"} <=> skill[u] \in {"admitted", "blocked", "leaving"}
            /\ skill'[u] = "admitted" => skill[u] = "admitted"
            /\ skill'[u] \in {"blocked", "leaving"} => skill[u] \in {"blocked", "leaving"}
    BY DEF Types
  <2>2. \A r \in Proposals :
            /\ status[r] = "admitted" => status'[r] = "admitted"
            /\ status[r] \notin {"new", "admitted"} => status'[r] \notin {"new", "admitted"}
            /\ status[r] = "new" <=> status'[r] = "new"
    BY DEF Types
  <2>3. QED
    BY <2>1, <2>2 DEF SkillInv
<1>3. QueueInv'
  <2>1. \A r \in Proposals : status'[r] \in {status[r], s} /\ (r # p => status'[r] = status[r])
    BY DEF Types
  <2>2. ASSUME NEW j \in 1..Len(queue')
        PROVE  status'[queue'[j]] \in {"parked", "refused"}
    <3>1. PICK i \in 1..Len(queue) : queue'[j] = queue[i]
      BY DEF Shrinks
    <3>2. queue[i] \in Proposals /\ status[queue[i]] \in {"parked", "refused"}
      BY DEF QueueInv, Types
    <3>3. QED
      BY <2>1, <3>1, <3>2
  <2>3. \A i, j \in 1..Len(queue') : queue'[i] = queue'[j] => i = j
    BY DEF Shrinks
  <2>4. QED
    BY <2>1, <2>2, <2>3 DEF QueueInv
<1>4. QED
  BY <1>1, <1>2, <1>3

LEMMA StateIsOnce ==
  ASSUME StateInv
  PROVE  Once(queue) /\ Shrinks(queue, queue)
BY StandsShrinks DEF StateInv, Types, QueueInv, Once

LEMMA ExpireState ==
  ASSUME StateInv, NEW t \in Skills, Expire(t)
  PROVE  /\ StateInv' /\ current[t] \in Proposals /\ Entered(current[t])
         /\ status[current[t]] = "parked" /\ status' = [status EXCEPT ![current[t]] = "refused"]
         /\ UNCHANGED <<stopVars, call, queue>>
<1>1. /\ current[t] \in Proposals /\ Entered(current[t]) /\ skill[t] = "blocked" /\ status[current[t]] = "parked"
      /\ status' = [status EXCEPT ![current[t]] = "refused"] /\ skill' = [skill EXCEPT ![t] = "leaving"]
      /\ UNCHANGED <<stopVars, current, call, queue, shown>>
  BY DEF Expire, SetStatus, Goto, Entered, StateInv, SkillInv
<1>2. Shrinks(queue, queue')
  BY <1>1, StateIsOnce
<1>3. QED
  BY <1>1, <1>2, StatusChanges

LEMMA LeaveState ==
  ASSUME StateInv, NEW t \in Skills, Leave(t)
  PROVE  StateInv' /\ Shrinks(queue, queue') /\ UNCHANGED <<stopVars, status, call>>
<1> USE DEF StateInv
<1>1. /\ skill[t] = "leaving" /\ skill' = [skill EXCEPT ![t] = "running"]
      /\ current' = [current EXCEPT ![t] = None] /\ UNCHANGED <<stopVars, status, call, shown>>
  BY DEF Leave, Goto
<1>2. Shrinks(queue, queue')
  <2>1. CASE UNCHANGED queue
    BY <2>1, StateIsOnce
  <2>2. CASE \E i \in 1..Len(queue) : queue' = RemoveAt(queue, i)
    BY <2>2, StateIsOnce, RemoveAtIsWithout, WithoutShrinks
  <2>3. QED
    BY <2>1, <2>2 DEF Leave
<1>3. Types'
  BY <1>1, <1>2 DEF Types, SkillSteps, Shrinks
<1>4. SkillInv'
  BY <1>1, NoneAssumption DEF SkillInv, Types
<1>5. QueueInv'
  BY <1>1, <1>2 DEF QueueInv, Shrinks
<1>6. QED
  BY <1>1, <1>2, <1>3, <1>4, <1>5

\* The head is popped, and answered if it waits.
LEMMA ResolveState ==
  ASSUME StateInv, NEW q \in Requests, Resolve(q), HeadIs(request[q].call)
  PROVE  /\ StateInv' /\ Shrinks(queue, queue') /\ UNCHANGED <<stopVars, call>>
         /\ Head(queue) \in Proposals /\ call[Head(queue)] = request[q].call /\ Entered(Head(queue))
         /\ 1 \in 1..Len(queue) /\ Head(queue) = queue[1]
         /\ \/ UNCHANGED status
            \/ /\ status[Head(queue)] = "parked" /\ status' = [status EXCEPT ![Head(queue)] = "refused"]
               /\ request[q].kind # "approve"
            \/ /\ status[Head(queue)] = "parked" /\ status' = [status EXCEPT ![Head(queue)] = "released"]
               /\ request[q].kind = "approve" /\ request' = [request EXCEPT ![q].pc = "receipt", ![q].told = "ok"]
<1> DEFINE p == Head(queue)
<1>1. /\ queue # <<>> /\ call[p] = request[q].call /\ queue' = Tail(queue)
      /\ UNCHANGED <<stopVars, skill, current, call, shown>>
  BY DEF Resolve, HeadIs
<1>2. Without(queue, 1, queue') /\ 1 \in 1..Len(queue) /\ p = queue[1] /\ p \in Proposals
  BY <1>1, StateIsOnce, TailIsWithout
<1>3. Shrinks(queue, queue') /\ \A i \in 1..Len(queue') : queue'[i] # p
  BY <1>2, StateIsOnce, WithoutShrinks
<1>4. Entered(p)
  BY <1>2 DEF Entered, StateInv, QueueInv
<1>5. \/ UNCHANGED status
      \/ /\ status[p] = "parked" /\ status' = [status EXCEPT ![p] = "refused"] /\ request[q].kind # "approve"
      \/ /\ status[p] = "parked" /\ status' = [status EXCEPT ![p] = "released"]
         /\ request[q].kind = "approve" /\ request' = [request EXCEPT ![q].pc = "receipt", ![q].told = "ok"]
  BY <1>1 DEF Resolve, SetStatus
<1> HIDE DEF p
<1>6. CASE UNCHANGED status
  <2>1. QueueInv'
    BY <1>1, <1>3, <1>6 DEF StateInv, QueueInv, Shrinks
  <2>2. Types' /\ SkillInv'
    BY <1>1, <1>3, <1>6 DEF StateInv, Types, SkillInv, Shrinks
  <2>3. QED
    BY <1>1, <1>2, <1>3, <1>4, <1>5, <2>1, <2>2 DEF StateInv, p
<1>7. CASE \E s \in {"refused", "released"} : status' = [status EXCEPT ![p] = s]
  <2>1. StateInv'
    BY <1>1, <1>2, <1>3, <1>4, <1>7, StatusChanges
  <2>2. QED
    BY <1>1, <1>2, <1>3, <1>4, <1>5, <2>1 DEF p
<1>8. QED
  BY <1>5, <1>6, <1>7

LEMMA DrainState ==
  ASSUME StateInv, Drain
  PROVE  StateInv' /\ Shrinks(queue, queue')
<1> USE DEF StateInv
<1>1. /\ frozen /\ stopped' = TRUE /\ queue' = <<>>
      /\ status' = [p \in Proposals |-> IF status[p] = "parked" THEN "refused" ELSE status[p]]
      /\ UNCHANGED <<triggered, frozen, skill, current, call, shown>>
  BY DEF Drain
<1>2. queue' \in Seq(Proposals) /\ Len(queue') = 0 /\ Shrinks(queue, queue')
  BY <1>1, EmptySeq, StateIsOnce, StandsShrinks
<1>3. Types'
  BY <1>1, <1>2 DEF Types
<1>4. SkillInv'
  BY <1>1 DEF SkillInv, Types
<1>5. QueueInv'
  BY <1>1, <1>2 DEF QueueInv, Types
<1>6. QED
  BY <1>2, <1>3, <1>4, <1>5

\* GET /approvals, and what comes before the drain of the stop.
LEMMA RouteState ==
  ASSUME StateInv, Show \/ Trigger \/ Freeze
  PROVE  StateInv' /\ UNCHANGED <<skillVars, queue>>
<1> USE DEF StateInv
<1>1. CASE Show
  <2>1. call[Head(queue)] \in Calls /\ shown' = shown \cup {call[Head(queue)]}
        /\ UNCHANGED <<stopVars, skillVars, queue>>
    <3>1. queue # <<>> /\ shown' = shown \cup {call[Head(queue)]} /\ UNCHANGED <<stopVars, skillVars, queue>>
      BY <1>1 DEF Show
    <3>2. Head(queue) \in Proposals /\ 1 \in 1..Len(queue) /\ Head(queue) = queue[1]
      BY <3>1, StateIsOnce, TailIsWithout
    <3>3. status[Head(queue)] # "new"
      BY <3>2 DEF QueueInv
    <3>4. QED
      BY <3>1, <3>2, <3>3 DEF SkillInv, Types
  <2>2. Types'
    BY <2>1 DEF Types
  <2>3. SkillInv' /\ QueueInv'
    BY <2>1 DEF SkillInv, QueueInv
  <2>4. QED
    BY <2>1, <2>2, <2>3
<1>2. CASE Trigger \/ Freeze
  <2>1. /\ UNCHANGED <<stopped, skillVars, queue, shown>> /\ triggered' \in BOOLEAN /\ frozen' \in BOOLEAN
        /\ frozen => frozen'
    BY <1>2 DEF Trigger, Freeze, Types
  <2>2. Types'
    BY <2>1 DEF Types
  <2>3. SkillInv' /\ QueueInv'
    BY <2>1 DEF SkillInv, QueueInv, Types
  <2>4. QED
    BY <2>1, <2>2, <2>3
<1>3. QED
  BY <1>1, <1>2

\* The steps of a request that leave the queue alone.
LEMMA RequestState ==
  ASSUME StateInv, UNCHANGED <<stopVars, skillVars, queue, shown>>
  PROVE  StateInv'
<1>1. Types'
  BY DEF StateInv, Types
<1>2. SkillInv' /\ QueueInv'
  BY DEF StateInv, SkillInv, QueueInv
<1>3. QED
  BY <1>1, <1>2 DEF StateInv

\* What every step leaves of the proposals and of their order in the queue.
Moves ==
  /\ \A p \in Proposals : call[p] \in Calls => call'[p] = call[p]
  /\ \A p \in Proposals : status[p] \notin {"new", "admitted"} => status'[p] \notin {"new", "admitted"}
  /\ \/ Shrinks(queue, queue')
     \/ \E p \in Proposals : status[p] = "admitted" /\ queue' = Append(queue, p)
  /\ \E x : \A p \in Proposals : status'[p] # "new" => status[p] # "new" \/ p = x
  /\ UNCHANGED shown \/ (queue # <<>> /\ shown' = shown \cup {call[Head(queue)]})

\* The steps of a request but for the answer to the queue.
MemberStep(q) ==
  \/ Peek(q) \/ RecordAhead(q) \/ Remember(q) \/ Receipt(q) \/ RecordOutcome(q)
  \/ \E kind \in Kinds, c \in Calls : Post(q, kind, c)
  \/ Resolve(q) /\ ~HeadIs(request[q].call)

LEMMA MemberStepState ==
  ASSUME NEW q \in Requests, MemberStep(q)
  PROVE  UNCHANGED <<stopVars, skillVars, queue, shown>>
BY DEF MemberStep, Peek, RecordAhead, Remember, Receipt, RecordOutcome, Post, Resolve

QuietSkillStep(t) == RunSkill(t) \/ StartSkill(t) \/ Wake(t) \/ FinishSkill(t)

LEMMA QuietSkillState ==
  ASSUME StateInv, NEW t \in Skills, QuietSkillStep(t)
  PROVE  StateInv' /\ UNCHANGED <<stopVars, status, call, queue, shown>>
<1>1. /\ UNCHANGED <<stopVars, current, status, call, queue, shown>>
      /\ \E to \in SkillSteps :
           /\ Goto(t, to)
           /\ \/ {skill[t], to} \cap {"admitted", "blocked", "leaving"} = {}
              \/ {skill[t], to} \subseteq {"blocked", "leaving"}
  <2>1. CASE RunSkill(t)
    BY <2>1 DEF RunSkill, SkillSteps
  <2>2. CASE StartSkill(t)
    <3>1. Goto(t, "done") \/ Goto(t, "running")
      BY <2>2 DEF StartSkill
    <3>2. QED
      BY <2>2, <3>1 DEF StartSkill, SkillSteps
  <2>3. CASE Wake(t)
    BY <2>3 DEF Wake, SkillSteps
  <2>4. CASE FinishSkill(t)
    BY <2>4 DEF FinishSkill, SkillSteps
  <2>5. QED
    BY <2>1, <2>2, <2>3, <2>4 DEF QuietSkillStep
<1>2. QED
  BY <1>1, SkillMoves

\* Every step is one of these.
LEMMA StepKinds ==
  ASSUME [Next]_vars
  PROVE  \/ \E t \in Skills : QuietSkillStep(t) \/ Enqueue(t) \/ Expire(t) \/ Leave(t)
         \/ \E t \in Skills, p \in Proposals : \E c \in EffectsOf[p] : Propose(t, p, c)
         \/ \E q \in Requests : MemberStep(q) \/ (Resolve(q) /\ HeadIs(request[q].call))
         \/ Show \/ Trigger \/ Freeze \/ Drain \/ UNCHANGED vars
<1>1. CASE \E t \in Skills : RunSkill(t) \/ StepSkill(t)
  BY <1>1 DEF StepSkill, QuietSkillStep
<1>2. CASE \E q \in Requests : StepRequest(q) \/ \E kind \in Kinds, c \in Calls : Post(q, kind, c)
  BY <1>2 DEF StepRequest, MemberStep
<1>3. QED
  BY <1>1, <1>2 DEF Next

LEMMA StateNext ==
  ASSUME StateInv, [Next]_vars
  PROVE  StateInv' /\ Moves
<1>1. Shrinks(queue, queue) /\ \A p \in Proposals : status[p] = "new" <=> call[p] = None
  BY StateIsOnce DEF StateInv, SkillInv
<1>2. CASE \E t \in Skills : QuietSkillStep(t)
  BY <1>1, <1>2, QuietSkillState DEF Moves
<1>3. CASE \E t \in Skills : Enqueue(t)
  <2>1. PICK t \in Skills : Enqueue(t)
    BY <1>3
  <2>2. PICK s \in {"refused", "parked"} : status' = [status EXCEPT ![current[t]] = s]
    BY <2>1, EnqueueState
  <2>3. /\ StateInv' /\ UNCHANGED <<call, shown>> /\ current[t] \in Proposals /\ status[current[t]] = "admitted"
        /\ UNCHANGED queue \/ queue' = Append(queue, current[t])
    BY <2>1, EnqueueState DEF Enqueue
  <2>4. \A p \in Proposals :
          /\ status[p] \notin {"new", "admitted"} => status'[p] = status[p]
          /\ status'[p] # "new" => status[p] # "new"
    BY <2>2, <2>3 DEF StateInv, Types
  <2>5. QED
    BY <1>1, <2>3, <2>4 DEF Moves
<1>4. CASE \E t \in Skills : Expire(t)
  <2>1. PICK t \in Skills : Expire(t)
    BY <1>4
  <2>2. /\ StateInv' /\ current[t] \in Proposals /\ status[current[t]] = "parked"
        /\ status' = [status EXCEPT ![current[t]] = "refused"] /\ UNCHANGED <<call, queue, shown>>
    BY <2>1, ExpireState DEF Expire
  <2>3. \A p \in Proposals : status'[p] = status[p] \/ (status[p] = "parked" /\ status'[p] = "refused")
    BY <2>2 DEF StateInv, Types
  <2>4. QED
    BY <1>1, <2>2, <2>3 DEF Moves
<1>5. CASE \E t \in Skills : Leave(t)
  BY <1>5, LeaveState DEF Moves, Leave
<1>6. CASE \E t \in Skills, p \in Proposals : \E c \in EffectsOf[p] : Propose(t, p, c)
  <2>1. PICK t \in Skills, p \in Proposals : \E c \in EffectsOf[p] : Propose(t, p, c)
    BY <1>6
  <2>2. PICK c \in EffectsOf[p] : Propose(t, p, c)
    BY <2>1
  <2>3. StateInv'
    BY <2>2, ProposeState
  <2>4. /\ status[p] = "new" /\ call' = [call EXCEPT ![p] = c] /\ UNCHANGED <<queue, shown>>
        /\ \E s \in {"refused", "admitted"} : status' = [status EXCEPT ![p] = s]
    BY <2>2 DEF Propose, SetStatus
  <2>5. call[p] \notin Calls
    BY <1>1, <2>4, NoneAssumption
  <2>6. \A r \in Proposals : r # p => call'[r] = call[r] /\ status'[r] = status[r]
    BY <2>4 DEF StateInv, Types
  <2>7. QED
    BY <1>1, <2>3, <2>4, <2>5, <2>6 DEF Moves
<1>7. CASE \E q \in Requests : MemberStep(q)
  <2>1. UNCHANGED <<stopVars, skillVars, queue, shown>>
    BY <1>7, MemberStepState
  <2>2. QED
    BY <1>1, <2>1, RequestState DEF Moves
<1>8. CASE \E q \in Requests : Resolve(q) /\ HeadIs(request[q].call)
  <2>1. PICK q \in Requests : Resolve(q) /\ HeadIs(request[q].call)
    BY <1>8
  <2>2. /\ StateInv' /\ Shrinks(queue, queue') /\ UNCHANGED <<call, shown>> /\ Head(queue) \in Proposals
        /\ \/ UNCHANGED status
           \/ /\ status[Head(queue)] = "parked"
              /\ \E s \in {"refused", "released"} : status' = [status EXCEPT ![Head(queue)] = s]
    BY <2>1, ResolveState DEF Resolve
  <2>3. \A p \in Proposals : status'[p] = status[p] \/ (status[p] = "parked" /\ status'[p] \in {"refused", "released"})
    BY <2>2 DEF StateInv, Types
  <2>4. QED
    BY <2>2, <2>3 DEF Moves
<1>9. CASE Drain
  <2>1. StateInv' /\ Shrinks(queue, queue')
    BY <1>9, DrainState
  <2>2. \A p \in Proposals : status'[p] = status[p] \/ (status[p] = "parked" /\ status'[p] = "refused")
    BY <1>9 DEF Drain
  <2>3. QED
    BY <1>9, <2>1, <2>2 DEF Moves, Drain
<1>10. CASE Show \/ Trigger \/ Freeze
  <2>1. StateInv' /\ UNCHANGED <<skillVars, queue>>
    BY <1>10, RouteState
  <2>2. UNCHANGED shown \/ (queue # <<>> /\ shown' = shown \cup {call[Head(queue)]})
    BY <1>10 DEF Show, Trigger, Freeze
  <2>3. QED
    BY <1>1, <2>1, <2>2 DEF Moves
<1>11. CASE UNCHANGED vars
  BY <1>1, <1>11, RequestState DEF vars, Moves
<1>12. QED
  BY <1>2, <1>3, <1>4, <1>5, <1>6, <1>7, <1>8, <1>9, <1>10, <1>11, StepKinds

-----------------------------------------------------------------------------
(* Requests and the log                                                        *)

RecordsInv == RecordTypes /\ LogInv

LEMMA NoneIsNoString ==
  None \notin Nat \cup Kinds
     \cup {"ok", "conflict", "unavailable", "stopped", "Completed", "Failed", "OutcomeUnknown"}
BY NoneAssumption DEF Kinds

LEMMA LogIsIndexed ==
  ASSUME RecordTypes
  PROVE  Len(log) \in Nat /\ DOMAIN log = 1..Len(log) /\ \A i \in 1..Len(log) : log[i] \in Record
BY LenProperties, ElementOfSeq DEF RecordTypes

LEMMA LogIsIndexedNext ==
  ASSUME RecordTypes'
  PROVE  Len(log') \in Nat /\ DOMAIN log' = 1..Len(log') /\ \A i \in 1..Len(log') : log'[i] \in Record
BY LenProperties, ElementOfSeq DEF RecordTypes

\* Nothing is forgotten, and no decision but that of q gets its outcome.
LogGrows(q) ==
  /\ Len(log) <= Len(log') /\ remembered \subseteq remembered' /\ logErrors <= logErrors'
  /\ \A i \in 1..Len(log) :
       /\ log'[i].call = log[i].call /\ log'[i].allow = log[i].allow
       /\ i # request[q].seq => log'[i] = log[i]

LEMMA OthersKeep ==
  ASSUME RecordsInv, NEW q \in Requests, LogGrows(q), RecordTypes', shown \subseteq shown',
         NEW s \in Requests, s # q, request'[s] = request[s]
  PROVE  RequestInv(request[s])'
<1> DEFINE r == request[s]
<1>1. /\ RequestInv(r) /\ logErrors \in Nat /\ logErrors' \in Nat /\ logErrors <= logErrors'
      /\ Len(log) \in Nat /\ Len(log') \in Nat /\ Len(log) <= Len(log')
  BY LogIsIndexed, LogIsIndexedNext DEF RecordsInv, LogInv, RecordTypes, LogGrows
<1>2. r.seq # None => r.seq # request[q].seq
  BY DEF RecordsInv, LogInv
<1>3. r.seq # None => /\ r.seq \in 1..Len(log) /\ r.seq \in 1..Len(log') /\ log'[r.seq] = log[r.seq]
  BY <1>1, <1>2 DEF RequestInv, LogGrows
<1>4. logErrors' = 0 => logErrors = 0
  BY <1>1
<1>5. remembered \subseteq remembered'
  BY DEF LogGrows
<1>6. QED
  BY <1>1, <1>3, <1>4, <1>5 DEF RequestInv

\* One request goes on. A decision that is open afterwards was open and is another
\* request's, or is its own and it has not been answered.
LEMMA OneRequestSteps ==
  ASSUME RecordsInv, NEW q \in Requests, RecordTypes', shown \subseteq shown', LogGrows(q),
         \A s \in Requests \ {q} : request'[s] = request[s],
         RequestInv(request[q])',
         request'[q].seq \in {request[q].seq, Len(log) + 1},
         \A i \in 1..Len(log') : logErrors' = 0 /\ log'[i].allow /\ log'[i].outcome = None =>
           \/ i \in 1..Len(log) /\ log[i].allow /\ log[i].outcome = None /\ i # request[q].seq
           \/ i = request'[q].seq /\ request'[q].pc # "done"
  PROVE  RecordsInv'
<1>1. /\ Len(log) \in Nat /\ Len(log') \in Nat /\ DOMAIN log = 1..Len(log) /\ DOMAIN log' = 1..Len(log')
      /\ logErrors \in Nat /\ logErrors' \in Nat /\ logErrors <= logErrors'
  BY LogIsIndexed, LogIsIndexedNext DEF RecordsInv, RecordTypes, LogGrows
<1>2. \A s \in Requests : RequestInv(request[s])'
  BY OthersKeep
<1>3. ASSUME NEW s \in Requests, NEW u \in Requests, request'[s].seq = request'[u].seq, request'[s].seq # None
      PROVE  s = u
  <2>1. \A v \in Requests : v # q => /\ request'[v] = request[v]
                                     /\ request[v].seq # None => request[v].seq \in 1..Len(log)
    BY DEF RecordsInv, LogInv, RequestInv
  <2>2. Len(log) + 1 \notin 1..Len(log)
    BY <1>1
  <2>3. \A v, w \in Requests : request[v].seq = request[w].seq /\ request[v].seq # None => v = w
    BY DEF RecordsInv, LogInv
  <2>4. QED
    BY <1>3, <2>1, <2>2, <2>3
<1>4. NoDecisionLeftOpen'
  <2>1. SUFFICES ASSUME logErrors' = 0, NEW i \in 1..Len(log'), log'[i].allow, log'[i].outcome = None
                 PROVE  \E s \in Requests : request'[s].seq = i /\ request'[s].pc # "done"
    BY <1>1 DEF NoDecisionLeftOpen
  <2>2. CASE i = request'[q].seq /\ request'[q].pc # "done"
    BY <2>2
  <2>3. CASE i \in 1..Len(log) /\ log[i].allow /\ log[i].outcome = None /\ i # request[q].seq
    <3>1. logErrors = 0
      BY <1>1, <2>1
    <3>2. PICK s \in Requests : request[s].seq = i /\ request[s].pc # "done"
      BY <1>1, <2>3, <3>1 DEF RecordsInv, LogInv, NoDecisionLeftOpen
    <3>3. QED
      BY <2>3, <3>2
  <2>4. QED
    BY <2>1, <2>2, <2>3
<1>5. QED
  BY <1>2, <1>3, <1>4 DEF RecordsInv, LogInv

\* A request that leaves the log alone.
LEMMA LogStands ==
  ASSUME RecordsInv, NEW q \in Requests, RecordTypes', shown \subseteq shown',
         UNCHANGED log, remembered \subseteq remembered', logErrors <= logErrors',
         \A s \in Requests \ {q} : request'[s] = request[s],
         RequestInv(request[q])', request'[q].seq = request[q].seq,
         request'[q].pc = "done" => request[q].seq = None \/ logErrors' > 0
  PROVE  RecordsInv'
<1>1. LogGrows(q)
  BY LogIsIndexed DEF LogGrows, RecordsInv
<1>2. logErrors' \in Nat
  BY DEF RecordTypes
<1>3. \A i \in 1..Len(log') : logErrors' = 0 /\ log'[i].allow /\ log'[i].outcome = None =>
           \/ i \in 1..Len(log) /\ log[i].allow /\ log[i].outcome = None /\ i # request[q].seq
           \/ i = request'[q].seq /\ request'[q].pc # "done"
  BY <1>2, LogIsIndexed, NoneIsNoString DEF RecordsInv
<1>4. QED
  BY <1>1, <1>3, OneRequestSteps

LEMMA NoRequestSteps ==
  ASSUME RecordsInv, shown \subseteq shown', UNCHANGED <<request, log, remembered, logErrors>>
  PROVE  RecordsInv'
<1>1. RecordTypes'
  BY DEF RecordsInv, RecordTypes
<1>2. \A q \in Requests : RequestInv(request[q])'
  BY DEF RecordsInv, LogInv, RequestInv
<1>3. QED
  BY <1>1, <1>2 DEF RecordsInv, LogInv, NoDecisionLeftOpen

\* A record is appended.
LEMMA AppendedRecord ==
  ASSUME RecordsInv, NEW c \in Calls, NEW allow \in BOOLEAN, Append1(c, allow)
  PROVE  /\ log' \in Seq(Record) /\ Len(log') = Len(log) + 1 /\ Len(log) \in Nat
         /\ \A i \in 1..Len(log) : log'[i] = log[i]
         /\ log'[Len(log) + 1] = [call |-> c, allow |-> allow, outcome |-> None]
         /\ UNCHANGED logErrors
<1>1. [call |-> c, allow |-> allow, outcome |-> None] \in Record
  BY DEF Record
<1>2. log \in Seq(Record) /\ Len(log) \in Nat
  BY LogIsIndexed DEF RecordsInv, RecordTypes
<1>3. QED
  BY <1>1, <1>2, AppendProperties DEF Append1

\* The request q has become r.
Becomes(q, r) ==
  /\ request' \in [Requests -> Request] /\ request'[q] = r
  /\ \A s \in Requests \ {q} : request'[s] = request[s]

LEMMA RequestBecomes ==
  ASSUME request \in [Requests -> Request], NEW q \in Requests, NEW r \in Request,
         request' = [request EXCEPT ![q] = r]
  PROVE  Becomes(q, r)
BY DEF Becomes

LEMMA RecordTypesKept ==
  ASSUME RecordsInv, request' \in [Requests -> Request], UNCHANGED <<log, logErrors>>,
         remembered' \subseteq Calls
  PROVE  RecordTypes'
BY DEF RecordsInv, RecordTypes

LEMMA PostRecords ==
  ASSUME RecordsInv, StateInv, NEW q \in Requests, NEW kind \in Kinds, NEW c \in Calls, Post(q, kind, c)
  PROVE  RecordsInv'
<1> DEFINE r == [request[q] EXCEPT !.kind = kind, !.call = c, !.pc = IF triggered THEN "done" ELSE "peek",
                                   !.told = IF triggered THEN "stopped" ELSE None]
<1>1. /\ request \in [Requests -> Request] /\ RequestInv(request[q]) /\ request[q].pc = "new" /\ c \in shown
      /\ request' = [request EXCEPT ![q] = r] /\ UNCHANGED <<shown, log, remembered, logErrors>>
      /\ remembered \subseteq Calls /\ logErrors \in Nat
  <2>1. /\ request \in [Requests -> Request] /\ RequestInv(request[q]) /\ logErrors \in Nat
        /\ remembered \subseteq Calls
    BY DEF RecordsInv, RecordTypes, LogInv
  <2>2. /\ request[q].pc = "new" /\ c \in shown /\ UNCHANGED <<shown, log, remembered, logErrors>>
        /\ request' = [request EXCEPT ![q].kind = kind, ![q].call = c,
                         ![q].pc = IF triggered THEN "done" ELSE "peek",
                         ![q].told = IF triggered THEN "stopped" ELSE None]
    BY DEF Post
  <2>3. request' = [request EXCEPT ![q] = r]
    BY <2>1, <2>2
  <2>4. QED
    BY <2>1, <2>2, <2>3
<1>2. r \in Request /\ r.call = c /\ r.kind = kind /\ r.seq = None
      /\ \/ r.pc = "done" /\ r.told = "stopped"
         \/ r.pc = "peek" /\ r.told = None
  <2>1. c \in Calls /\ request[q] \in Request /\ request[q].seq = None
    BY <1>1 DEF RequestInv, StateInv, Types
  <2>2. QED
    BY <2>1 DEF Request, RequestSteps, Answers
<1> HIDE DEF r
<1>3. Becomes(q, r) /\ RecordTypes'
  BY <1>1, <1>2, RequestBecomes, RecordTypesKept DEF Becomes
<1>4. RequestInv(request[q])'
  BY <1>1, <1>2, <1>3 DEF RequestInv, Becomes
<1>5. QED
  BY <1>1, <1>2, <1>3, <1>4, LogStands DEF Becomes, RequestInv

LEMMA PeekRecords ==
  ASSUME RecordsInv, StateInv, NEW q \in Requests, Peek(q)
  PROVE  RecordsInv'
<1> DEFINE m == HeadIs(request[q].call)
           r == [request[q] EXCEPT !.matched = m,
                   !.pc = IF m /\ request[q].kind # "reject" THEN "record" ELSE AfterRecord(request[q].kind)]
<1>1. /\ request \in [Requests -> Request] /\ RequestInv(request[q]) /\ request[q].pc = "peek"
      /\ request' = [request EXCEPT ![q] = r] /\ UNCHANGED <<shown, log, remembered, logErrors>>
      /\ remembered \subseteq Calls /\ logErrors \in Nat
  <2>1. /\ request \in [Requests -> Request] /\ RequestInv(request[q]) /\ logErrors \in Nat
        /\ remembered \subseteq Calls
    BY DEF RecordsInv, RecordTypes, LogInv
  <2>2. /\ request[q].pc = "peek" /\ UNCHANGED <<shown, log, remembered, logErrors>>
        /\ request' = [request EXCEPT ![q].matched = m,
             ![q].pc = IF m /\ request[q].kind # "reject" THEN "record" ELSE AfterRecord(request[q].kind)]
    BY DEF Peek
  <2>3. request' = [request EXCEPT ![q] = r]
    BY <2>1, <2>2
  <2>4. QED
    BY <2>1, <2>2, <2>3
<1>2. m \in BOOLEAN
  BY DEF HeadIs
<1> HIDE DEF m
<1>3. r \in Request /\ r.call = request[q].call /\ r.kind = request[q].kind /\ r.seq = None /\ r.told = None
      /\ r.pc \in {"record", "remember", "resolve"} /\ (r.pc = "record" => r.kind # "reject")
      /\ (r.pc = "remember" => r.kind = "unknown") /\ (r.pc = "resolve" => r.kind # "unknown")
  BY <1>1, <1>2 DEF Request, RequestSteps, RequestInv, AfterRecord
<1> HIDE DEF r
<1>4. Becomes(q, r) /\ RecordTypes'
  BY <1>1, <1>3, RequestBecomes, RecordTypesKept DEF Becomes
<1>5. RequestInv(request[q])'
  BY <1>1, <1>3, <1>4 DEF RequestInv, Becomes
<1>6. QED
  BY <1>1, <1>3, <1>4, <1>5, LogStands DEF Becomes, RequestInv

LEMMA RememberRecords ==
  ASSUME RecordsInv, StateInv, NEW q \in Requests, Remember(q)
  PROVE  RecordsInv'
<1> DEFINE r == [request[q] EXCEPT !.pc = "resolve"]
<1>1. /\ request \in [Requests -> Request] /\ RequestInv(request[q]) /\ request[q].pc = "remember"
      /\ request' = [request EXCEPT ![q] = r] /\ UNCHANGED <<shown, log, logErrors>>
      /\ remembered' = remembered \cup {request[q].call} /\ remembered \subseteq Calls /\ logErrors \in Nat
      /\ shown \subseteq Calls
  BY DEF Remember, ToStep, RecordsInv, RecordTypes, LogInv, StateInv, Types
<1>2. r \in Request /\ r.call = request[q].call /\ r.kind = "unknown" /\ r.pc = "resolve"
      /\ r.seq = request[q].seq /\ r.told = None /\ r.call \in shown
  BY <1>1 DEF Request, RequestSteps, RequestInv
<1> HIDE DEF r
<1>3. Becomes(q, r) /\ RecordTypes'
  BY <1>1, <1>2, RequestBecomes, RecordTypesKept DEF Becomes
<1>4. RequestInv(request[q])'
  BY <1>1, <1>2, <1>3 DEF RequestInv, Becomes
<1>5. QED
  BY <1>1, <1>2, <1>3, <1>4, LogStands DEF Becomes

LEMMA ResolveRecords ==
  ASSUME RecordsInv, StateInv, NEW q \in Requests, Resolve(q)
  PROVE  RecordsInv'
<1>0. PICK told \in {"ok", "conflict"} : request' = [request EXCEPT ![q].pc = "receipt", ![q].told = told]
  BY DEF Resolve
<1> DEFINE r == [request[q] EXCEPT !.pc = "receipt", !.told = told]
<1>1. /\ request \in [Requests -> Request] /\ RequestInv(request[q]) /\ request[q].pc = "resolve"
      /\ request' = [request EXCEPT ![q] = r] /\ UNCHANGED <<shown, log, remembered, logErrors>>
      /\ remembered \subseteq Calls /\ logErrors \in Nat
  <2>1. /\ request \in [Requests -> Request] /\ RequestInv(request[q]) /\ logErrors \in Nat
        /\ remembered \subseteq Calls
    BY DEF RecordsInv, RecordTypes, LogInv
  <2>2. request[q].pc = "resolve" /\ UNCHANGED <<shown, log, remembered, logErrors>>
    BY DEF Resolve
  <2>3. request' = [request EXCEPT ![q] = r]
    BY <1>0, <2>1
  <2>4. QED
    BY <2>1, <2>2, <2>3
<1>2. r \in Request /\ r.call = request[q].call /\ r.kind = request[q].kind /\ r.pc = "receipt"
      /\ r.seq = request[q].seq /\ r.told = told
  BY <1>1 DEF Request, RequestSteps, Answers
<1> HIDE DEF r
<1>3. Becomes(q, r) /\ RecordTypes'
  BY <1>1, <1>2, RequestBecomes, RecordTypesKept DEF Becomes
<1>4. RequestInv(request[q])'
  BY <1>1, <1>2, <1>3 DEF RequestInv, Becomes
<1>5. QED
  BY <1>1, <1>2, <1>3, <1>4, LogStands DEF Becomes

\* A write of the log has failed.
LEMMA LogFails ==
  ASSUME RecordsInv, LogError
  PROVE  logErrors' \in 0..MaxLogErrors /\ logErrors' > 0 /\ logErrors <= logErrors' /\ UNCHANGED log
BY BoundAssumption DEF LogError, RecordsInv, RecordTypes

\* A request writes its decision, and its answer is still to come.
LEMMA WritesDecision ==
  ASSUME RecordsInv, NEW q \in Requests, request[q].seq = None, Append1(request[q].call, TRUE),
         request[q].call \in Calls, UNCHANGED <<shown, remembered>>,
         NEW r \in Request, request' = [request EXCEPT ![q] = r], r.call = request[q].call,
         r.seq = Len(log) + 1, r.pc # "done", r.kind # "reject",
         RequestInv(request[q]), r.kind = request[q].kind, r.told = request[q].told,
         r.pc \in {"remember", "resolve"} => r.told = None,
         r.pc = "outcome" => r.told \in {"ok", "conflict"}, r.pc \in {"remember", "resolve", "outcome"},
         r.pc = "remember" => r.kind = "unknown",
         request[q].pc # "new",
         r.kind = "unknown" /\ r.pc \in {"resolve", "outcome"} => r.call \in remembered
  PROVE  RecordsInv'
<1>1. /\ log' \in Seq(Record) /\ Len(log') = Len(log) + 1 /\ Len(log) \in Nat
      /\ \A i \in 1..Len(log) : log'[i] = log[i]
      /\ log'[Len(log) + 1] = [call |-> r.call, allow |-> TRUE, outcome |-> None]
      /\ UNCHANGED logErrors
  BY AppendedRecord
<1>2. Becomes(q, r) /\ logErrors \in 0..MaxLogErrors /\ logErrors \in Nat /\ remembered \subseteq Calls
  <2>1. /\ request \in [Requests -> Request] /\ logErrors \in 0..MaxLogErrors /\ remembered \subseteq Calls
    BY DEF RecordsInv, RecordTypes
  <2>2. Becomes(q, r)
    BY <2>1, RequestBecomes
  <2>3. QED
    BY <2>1, <2>2
<1>3. RecordTypes'
  BY <1>1, <1>2 DEF RecordTypes, Becomes
<1>4. RequestInv(request[q])'
  <2>1. r.kind \in Kinds /\ r.call \in shown
    BY DEF RequestInv
  <2>2. r.seq \in 1..Len(log') /\ log'[r.seq].call = r.call /\ log'[r.seq].allow /\ r.seq # None
    BY <1>1, NoneIsNoString
  <2>3. QED
    BY <1>1, <1>2, <2>1, <2>2, NoneIsNoString DEF RequestInv, Becomes
<1>5. LogGrows(q)
  BY <1>1, <1>2 DEF LogGrows
<1>6. \A i \in 1..Len(log') : log'[i].allow /\ log'[i].outcome = None =>
           \/ i \in 1..Len(log) /\ log[i].allow /\ log[i].outcome = None /\ i # request[q].seq
           \/ i = request'[q].seq /\ request'[q].pc # "done"
  BY <1>1, <1>2, NoneIsNoString DEF Becomes
<1>7. QED
  BY <1>1, <1>2, <1>3, <1>4, <1>5, <1>6, OneRequestSteps DEF Becomes

LEMMA RecordAheadRecords ==
  ASSUME RecordsInv, StateInv, NEW q \in Requests, RecordAhead(q)
  PROVE  RecordsInv'
<1>1. /\ request \in [Requests -> Request] /\ RequestInv(request[q]) /\ request[q].pc = "record"
      /\ UNCHANGED <<shown, remembered>> /\ remembered \subseteq Calls
      /\ request[q].seq = None /\ request[q].told = None /\ request[q].kind \in {"approve", "unknown"}
      /\ request[q].call \in shown /\ shown \subseteq Calls
  BY DEF RecordAhead, RecordsInv, RecordTypes, LogInv, StateInv, Types, RequestInv, Kinds
<1>2. CASE Append1(request[q].call, TRUE)
             /\ request' = [request EXCEPT ![q].seq = Len(log) + 1, ![q].pc = AfterRecord(request[q].kind)]
  <2> DEFINE r == [request[q] EXCEPT !.seq = Len(log) + 1, !.pc = AfterRecord(request[q].kind)]
  <2>1. Len(log) \in Nat
    BY LogIsIndexed DEF RecordsInv
  <2>2. /\ r \in Request /\ r.call = request[q].call /\ r.kind = request[q].kind /\ r.told = None
        /\ r.seq = Len(log) + 1 /\ r.pc \in {"remember", "resolve"}
        /\ (r.pc = "resolve" => r.kind # "unknown") /\ (r.pc = "remember" => r.kind = "unknown")
    <3>1. request[q] \in Request /\ request[q].call \in Calls /\ Len(log) + 1 \in Nat
      BY <1>1, <2>1
    <3>2. AfterRecord(request[q].kind) = IF request[q].kind = "unknown" THEN "remember" ELSE "resolve"
      BY DEF AfterRecord
    <3>3. QED
      BY <1>1, <3>1, <3>2 DEF Request, RequestSteps
  <2>3. request' = [request EXCEPT ![q] = r]
    BY <1>1, <1>2
  <2> HIDE DEF r
  <2>4. QED
    BY <1>1, <1>2, <2>2, <2>3, WritesDecision
<1>3. CASE LogError /\ request[q].kind = "unknown" /\ ToStep(q, AfterRecord(request[q].kind))
  <2> DEFINE r == [request[q] EXCEPT !.pc = "remember"]
  <2>1. r \in Request /\ r.call = request[q].call /\ r.kind = "unknown" /\ r.told = None /\ r.seq = None
        /\ r.pc = "remember"
    BY <1>1, <1>3 DEF Request, RequestSteps
  <2>2. request' = [request EXCEPT ![q] = r]
    BY <1>1, <1>3 DEF ToStep, AfterRecord
  <2> HIDE DEF r
  <2>3. Becomes(q, r) /\ logErrors' \in 0..MaxLogErrors /\ logErrors' > 0 /\ logErrors <= logErrors' /\ UNCHANGED log
    BY <1>1, <1>3, <2>1, <2>2, RequestBecomes, LogFails
  <2>4. RecordTypes'
    BY <1>1, <2>3 DEF RecordsInv, RecordTypes, Becomes
  <2>5. RequestInv(request[q])'
    BY <1>1, <2>1, <2>3 DEF RequestInv, Becomes, Kinds
  <2>6. QED
    BY <1>1, <2>1, <2>3, <2>4, <2>5, LogStands DEF Becomes
<1>4. CASE LogError /\ request[q].kind # "unknown" /\ Answer(q, "unavailable")
  <2> DEFINE r == [request[q] EXCEPT !.pc = "done", !.told = "unavailable"]
  <2>1. r \in Request /\ r.call = request[q].call /\ r.kind # "unknown" /\ r.told = "unavailable" /\ r.seq = None
        /\ r.pc = "done" /\ r.kind \in Kinds
    BY <1>1, <1>4 DEF Request, RequestSteps, Answers, Kinds
  <2>2. request' = [request EXCEPT ![q] = r]
    BY <1>1, <1>4 DEF Answer
  <2> HIDE DEF r
  <2>3. Becomes(q, r) /\ logErrors' \in 0..MaxLogErrors /\ logErrors' > 0 /\ logErrors <= logErrors' /\ UNCHANGED log
    BY <1>1, <1>4, <2>1, <2>2, RequestBecomes, LogFails
  <2>4. RecordTypes'
    BY <1>1, <2>3 DEF RecordsInv, RecordTypes, Becomes
  <2>5. RequestInv(request[q])'
    BY <1>1, <2>1, <2>3 DEF RequestInv, Becomes
  <2>6. QED
    BY <1>1, <2>1, <2>3, <2>4, <2>5, LogStands DEF Becomes
<1>5. QED
  BY <1>2, <1>3, <1>4 DEF RecordAhead

LEMMA ReceiptRecords ==
  ASSUME RecordsInv, StateInv, NEW q \in Requests, Receipt(q)
  PROVE  RecordsInv'
<1>1. /\ request \in [Requests -> Request] /\ request[q] \in Request /\ RequestInv(request[q])
      /\ remembered \subseteq Calls /\ logErrors \in Nat
      /\ request[q].call \in Calls /\ request[q].call \in shown /\ request[q].kind \in Kinds
      /\ request[q].told \in {"ok", "conflict"} /\ request[q].pc = "receipt"
      /\ UNCHANGED <<shown, remembered>>
  BY DEF Receipt, RecordsInv, RecordTypes, LogInv, StateInv, Types, RequestInv
<1> DEFINE ended == [request[q] EXCEPT !.pc = "done"]
<1>2. /\ ended \in Request /\ ended.call = request[q].call /\ ended.kind = request[q].kind
      /\ ended.seq = request[q].seq /\ ended.told = request[q].told /\ ended.pc = "done"
  BY <1>1 DEF Request, RequestSteps
<1>3. ToStep(q, "done") => request' = [request EXCEPT ![q] = ended]
  BY <1>1 DEF ToStep
<1> HIDE DEF ended
<1>4. CASE request[q].seq # None /\ ToStep(q, "outcome") /\ UNCHANGED <<log, logErrors>>
  <2> DEFINE r == [request[q] EXCEPT !.pc = "outcome"]
  <2>1. /\ r \in Request /\ r.call = request[q].call /\ r.kind = request[q].kind
        /\ r.seq = request[q].seq /\ r.told = request[q].told /\ r.pc = "outcome"
    BY <1>1 DEF Request, RequestSteps
  <2>2. request' = [request EXCEPT ![q] = r]
    BY <1>1, <1>4 DEF ToStep
  <2> HIDE DEF r
  <2>3. Becomes(q, r) /\ RecordTypes'
    BY <1>1, <1>4, <2>1, <2>2, RequestBecomes, RecordTypesKept DEF Becomes
  <2>4. RequestInv(request[q])'
    BY <1>1, <1>4, <2>1, <2>3 DEF RequestInv, Becomes
  <2>5. QED
    BY <1>1, <1>4, <2>1, <2>3, <2>4, LogStands DEF Becomes
<1>5. CASE /\ request[q].seq = None /\ request[q].kind = "unknown" /\ Append1(request[q].call, TRUE)
           /\ request' = [request EXCEPT ![q].pc = "outcome", ![q].seq = Len(log) + 1]
  <2> DEFINE r == [request[q] EXCEPT !.pc = "outcome", !.seq = Len(log) + 1]
  <2>1. Len(log) + 1 \in Nat
    BY LogIsIndexed DEF RecordsInv
  <2>2. /\ r \in Request /\ r.call = request[q].call /\ r.kind = "unknown"
        /\ r.seq = Len(log) + 1 /\ r.told = request[q].told /\ r.pc = "outcome"
    BY <1>1, <1>5, <2>1 DEF Request, RequestSteps
  <2>3. request' = [request EXCEPT ![q] = r]
    BY <1>1, <1>5
  <2> HIDE DEF r
  <2>4. request[q].call \in remembered
    BY <1>1, <1>5 DEF RequestInv
  <2>5. QED
    BY <1>1, <1>5, <2>2, <2>3, <2>4, WritesDecision
<1>6. CASE /\ LogError /\ ToStep(q, "done")
           /\ \/ request[q].seq = None /\ request[q].kind = "unknown"
              \/ request[q].kind = "reject"
  <2>1. Becomes(q, ended) /\ logErrors' \in 0..MaxLogErrors /\ logErrors' > 0 /\ logErrors <= logErrors' /\ UNCHANGED log
    BY <1>1, <1>2, <1>3, <1>6, RequestBecomes, LogFails
  <2>2. RecordTypes'
    BY <1>1, <2>1 DEF RecordsInv, RecordTypes, Becomes
  <2>3. RequestInv(request[q])'
    BY <1>1, <1>2, <1>6, <2>1 DEF RequestInv, Becomes
  <2>4. QED
    BY <1>1, <1>2, <2>1, <2>2, <2>3, LogStands DEF Becomes
<1>7. CASE request[q].kind = "reject" /\ Append1(request[q].call, FALSE) /\ ToStep(q, "done")
  <2>1. /\ log' \in Seq(Record) /\ Len(log') = Len(log) + 1 /\ Len(log) \in Nat
        /\ \A i \in 1..Len(log) : log'[i] = log[i]
        /\ log'[Len(log) + 1] = [call |-> request[q].call, allow |-> FALSE, outcome |-> None]
        /\ UNCHANGED logErrors
    BY <1>1, <1>7, AppendedRecord
  <2>2. Becomes(q, ended)
    BY <1>1, <1>2, <1>3, <1>7, RequestBecomes
  <2>3. RecordTypes'
    BY <1>1, <2>1, <2>2 DEF RecordsInv, RecordTypes, Becomes
  <2>4. request[q].seq = None
    BY <1>1, <1>7 DEF RequestInv
  <2>5. RequestInv(request[q])'
    BY <1>1, <1>2, <1>7, <2>1, <2>2, <2>4 DEF RequestInv, Becomes
  <2>6. LogGrows(q)
    BY <1>1, <2>1 DEF LogGrows
  <2>7. \A i \in 1..Len(log') : log'[i].allow /\ log'[i].outcome = None =>
           \/ i \in 1..Len(log) /\ log[i].allow /\ log[i].outcome = None /\ i # request[q].seq
           \/ i = request'[q].seq /\ request'[q].pc # "done"
    BY <2>1, <2>4, NoneIsNoString
  <2>8. QED
    BY <1>1, <1>2, <2>1, <2>2, <2>3, <2>5, <2>6, <2>7, OneRequestSteps DEF Becomes
<1>8. CASE /\ request[q].seq = None /\ request[q].kind \in {"approve", "reject"}
           /\ ToStep(q, "done") /\ UNCHANGED <<log, logErrors>>
  <2>1. Becomes(q, ended) /\ RecordTypes'
    BY <1>1, <1>2, <1>3, <1>8, RequestBecomes, RecordTypesKept DEF Becomes
  <2>2. RequestInv(request[q])'
    BY <1>1, <1>2, <1>8, <2>1 DEF RequestInv, Becomes
  <2>3. QED
    BY <1>1, <1>2, <1>8, <2>1, <2>2, LogStands DEF Becomes
<1>9. QED
  BY <1>1, <1>4, <1>5, <1>6, <1>7, <1>8 DEF Receipt

LEMMA RecordOutcomeRecords ==
  ASSUME RecordsInv, StateInv, NEW q \in Requests, RecordOutcome(q)
  PROVE  RecordsInv'
<1> DEFINE r == [request[q] EXCEPT !.pc = "done"]
<1>1. /\ request \in [Requests -> Request] /\ request[q] \in Request /\ RequestInv(request[q])
      /\ remembered \subseteq Calls /\ logErrors \in Nat /\ log \in Seq(Record)
  BY DEF RecordsInv, RecordTypes, LogInv
<1>2. request[q].pc = "outcome" /\ ToStep(q, "done") /\ UNCHANGED <<shown, remembered>>
  BY DEF RecordOutcome
<1>3. /\ r \in Request /\ r.call = request[q].call /\ r.kind = request[q].kind
      /\ r.seq = request[q].seq /\ r.told = request[q].told /\ r.pc = "done"
  BY <1>1 DEF Request, RequestSteps
<1>4. request' = [request EXCEPT ![q] = r]
  BY <1>1, <1>2 DEF ToStep
<1> HIDE DEF r
<1>5. Becomes(q, r)
  BY <1>1, <1>3, <1>4, RequestBecomes
<1>6. /\ request[q].seq \in 1..Len(log) /\ request[q].seq # None /\ request[q].told \in {"ok", "conflict"}
      /\ request[q].kind \in {"approve", "unknown"} /\ request[q].call \in shown
      /\ log[request[q].seq].call = request[q].call /\ log[request[q].seq].allow
      /\ (request[q].kind = "unknown" => request[q].call \in remembered)
  BY <1>1, <1>2 DEF RequestInv, Kinds
<1>7. CASE LogError
  <2>1. logErrors' \in 0..MaxLogErrors /\ logErrors' > 0 /\ logErrors <= logErrors' /\ UNCHANGED log
    BY <1>7, LogFails
  <2>2. RecordTypes'
    BY <1>1, <1>2, <1>5, <2>1 DEF RecordsInv, RecordTypes, Becomes
  <2>3. RequestInv(request[q])'
    BY <1>2, <1>3, <1>5, <1>6, <2>1 DEF RequestInv, Becomes, Kinds
  <2>4. QED
    BY <1>2, <1>3, <1>5, <2>1, <2>2, <2>3, LogStands DEF Becomes
<1>8. CASE log' = [log EXCEPT ![request[q].seq].outcome = OutcomeOf(request[q])] /\ UNCHANGED logErrors
  <2> DEFINE n == request[q].seq
             o == OutcomeOf(request[q])
  <2>1. o \in {"OutcomeUnknown", "Completed", "Failed"} /\ (request[q].kind = "unknown" => o = "OutcomeUnknown")
    BY <1>6 DEF OutcomeOf
  <2> HIDE DEF o
  <2>2. DOMAIN log = 1..Len(log) /\ Len(log) \in Nat /\ log[n] \in Record /\ n \in 1..Len(log)
    BY <1>6, LogIsIndexed DEF RecordsInv
  <2>3. log' = [log EXCEPT ![n] = [log[n] EXCEPT !.outcome = o]]
    BY <1>8, <2>2 DEF o
  <2>4. [log[n] EXCEPT !.outcome = o] \in Record /\ [log[n] EXCEPT !.outcome = o].outcome = o
        /\ [log[n] EXCEPT !.outcome = o].call = log[n].call /\ [log[n] EXCEPT !.outcome = o].allow = log[n].allow
    BY <2>1, <2>2 DEF Record
  <2>5. log' \in Seq(Record) /\ Len(log') = Len(log)
    BY <1>1, <2>2, <2>3, <2>4, ExceptSeq
  <2>6. /\ \A i \in 1..Len(log) : i # n => log'[i] = log[i]
        /\ log'[n].outcome = o /\ log'[n].call = log[n].call /\ log'[n].allow = log[n].allow
    BY <2>2, <2>3, <2>4
  <2>7. RecordTypes'
    BY <1>1, <1>2, <1>5, <1>8, <2>5 DEF RecordsInv, RecordTypes, Becomes
  <2>8. RequestInv(request[q])'
    BY <1>2, <1>3, <1>5, <1>6, <2>1, <2>5, <2>6 DEF RequestInv, Becomes, Kinds
  <2>9. LogGrows(q)
    BY <1>1, <1>2, <1>8, <2>2, <2>5, <2>6 DEF LogGrows
  <2>10. o # None
    BY <2>1, NoneIsNoString
  <2>11. \A i \in 1..Len(log') : log'[i].allow /\ log'[i].outcome = None =>
           \/ i \in 1..Len(log) /\ log[i].allow /\ log[i].outcome = None /\ i # request[q].seq
           \/ i = request'[q].seq /\ request'[q].pc # "done"
    BY <2>5, <2>6, <2>10
  <2>12. QED
    BY <1>2, <1>3, <1>5, <1>8, <2>7, <2>8, <2>9, <2>11, OneRequestSteps DEF Becomes
<1>9. QED
  BY <1>7, <1>8 DEF RecordOutcome

LEMMA RecordsNext ==
  ASSUME RecordsInv, StateInv, [Next]_vars
  PROVE  RecordsInv'
<1>1. shown \subseteq shown'
  BY StateNext DEF Moves
<1>2. CASE \E t \in Skills : QuietSkillStep(t) \/ Enqueue(t) \/ Expire(t) \/ Leave(t)
  <2>1. UNCHANGED <<request, log, remembered, logErrors>>
    BY <1>2 DEF QuietSkillStep, RunSkill, StartSkill, Wake, FinishSkill, Enqueue, Expire, Leave
  <2>2. QED
    BY <1>1, <2>1, NoRequestSteps
<1>3. CASE \E t \in Skills, p \in Proposals : \E c \in EffectsOf[p] : Propose(t, p, c)
  <2>1. UNCHANGED <<request, log, remembered, logErrors>>
    BY <1>3 DEF Propose
  <2>2. QED
    BY <1>1, <2>1, NoRequestSteps
<1>4. CASE \E q \in Requests : MemberStep(q) \/ (Resolve(q) /\ HeadIs(request[q].call))
  BY <1>4, PostRecords, PeekRecords, RecordAheadRecords, RememberRecords, ResolveRecords, ReceiptRecords,
     RecordOutcomeRecords DEF MemberStep
<1>5. CASE Show \/ Trigger \/ Freeze \/ Drain \/ UNCHANGED vars
  <2>1. UNCHANGED <<request, log, remembered, logErrors>>
    BY <1>5 DEF Show, Trigger, Freeze, Drain, vars
  <2>2. QED
    BY <1>1, <2>1, NoRequestSteps
<1>6. QED
  BY <1>2, <1>3, <1>4, <1>5, StepKinds

-----------------------------------------------------------------------------
(* What the member has been shown                                              *)

\* What a step leaves of a request that approves.
Carries(s) ==
  /\ request'[s].kind = "approve" /\ request'[s].seq = None /\ request'[s].pc = "resolve" =>
       /\ request[s].kind = "approve" /\ request[s].seq = None /\ request[s].call = request'[s].call
       /\ request[s].pc = "resolve" \/ (request[s].pc = "peek" /\ ~HeadIs(request[s].call))
  /\ request'[s].kind = "approve" /\ request'[s].seq = None /\ request'[s].told = "ok" =>
       /\ request[s].kind = "approve" /\ request[s].seq = None /\ request[s].call = request'[s].call
       /\ request[s].told = "ok" \/ (request[s].pc = "resolve" /\ HeadIs(request[s].call))
  /\ request[s].told = "ok" =>
       request'[s].told = "ok" /\ request'[s].kind = request[s].kind /\ request'[s].call = request[s].call

LEMMA StepCarries ==
  ASSUME RecordsInv, NEW q \in Requests, MemberStep(q) \/ Resolve(q)
  PROVE  \A s \in Requests : Carries(s) /\ (s # q => request'[s] = request[s])
<1>1. /\ request \in [Requests -> Request] /\ \A s \in Requests : request[s] \in Request
      /\ RequestInv(request[q])
  BY DEF RecordsInv, RecordTypes, LogInv
<1>2. SUFFICES Carries(q) /\ \A s \in Requests : s # q => request'[s] = request[s]
  BY DEF Carries
<1>3. ASSUME NEW kind \in Kinds, NEW c \in Calls, Post(q, kind, c)
      PROVE  Carries(q) /\ \A s \in Requests : s # q => request'[s] = request[s]
  <2>1. /\ request[q].pc = "new"
        /\ request' = [request EXCEPT ![q].kind = kind, ![q].call = c,
                         ![q].pc = IF triggered THEN "done" ELSE "peek",
                         ![q].told = IF triggered THEN "stopped" ELSE None]
    BY <1>3 DEF Post
  <2>2. /\ request'[q].pc \in {"done", "peek"} /\ request'[q].told \in {"stopped", None} /\ request[q].told = None
        /\ \A s \in Requests : s # q => request'[s] = request[s]
    BY <1>1, <2>1 DEF RequestInv, Request
  <2>3. QED
    BY <2>2, NoneIsNoString DEF Carries
<1>4. CASE Peek(q)
  <2> DEFINE m == HeadIs(request[q].call)
  <2>1. /\ request[q].pc = "peek"
        /\ request' = [request EXCEPT ![q].matched = m,
             ![q].pc = IF m /\ request[q].kind # "reject" THEN "record" ELSE AfterRecord(request[q].kind)]
    BY <1>4 DEF Peek
  <2> HIDE DEF m
  <2>2. /\ request'[q].kind = request[q].kind /\ request'[q].seq = request[q].seq
        /\ request'[q].call = request[q].call /\ request'[q].told = request[q].told /\ request[q].told = None
        /\ (request[q].kind = "approve" /\ request'[q].pc = "resolve" => ~m)
        /\ \A s \in Requests : s # q => request'[s] = request[s]
    BY <1>1, <2>1 DEF RequestInv, Request
  <2>3. QED
    BY <2>1, <2>2, NoneIsNoString DEF Carries, m
<1>5. CASE RecordAhead(q)
  <2>1. \/ request' = [request EXCEPT ![q].seq = Len(log) + 1, ![q].pc = AfterRecord(request[q].kind)]
        \/ request[q].kind = "unknown" /\ request' = [request EXCEPT ![q].pc = AfterRecord(request[q].kind)]
        \/ request' = [request EXCEPT ![q].pc = "done", ![q].told = "unavailable"]
    BY <1>5 DEF RecordAhead, ToStep, Answer
  <2>2. request[q].told = None /\ Len(log) \in Nat
    BY <1>1, <1>5, LogIsIndexed DEF RecordAhead, RequestInv, RecordsInv
  <2>3. /\ request'[q].kind = request[q].kind /\ request'[q].told \in {None, "unavailable"}
        /\ request'[q].pc = "done" \/ request'[q].seq = Len(log) + 1 \/ request[q].kind = "unknown"
        /\ \A s \in Requests : s # q => request'[s] = request[s]
    BY <1>1, <2>1, <2>2 DEF Request
  <2>4. QED
    BY <2>2, <2>3, NoneIsNoString DEF Carries
<1>6. CASE Remember(q)
  <2>1. request[q].kind = "unknown" /\ request' = [request EXCEPT ![q].pc = "resolve"]
    BY <1>1, <1>6 DEF Remember, ToStep, RequestInv
  <2>2. /\ request'[q].kind = "unknown" /\ request'[q].told = request[q].told /\ request'[q].call = request[q].call
        /\ \A s \in Requests : s # q => request'[s] = request[s]
    BY <1>1, <2>1 DEF Request
  <2>3. QED
    BY <2>1, <2>2 DEF Carries
<1>7. CASE Resolve(q)
  <2>1. request[q].pc = "resolve" /\ request[q].told = None
    BY <1>1, <1>7 DEF Resolve, RequestInv
  <2>2. PICK told \in {"ok", "conflict"} :
          /\ request' = [request EXCEPT ![q].pc = "receipt", ![q].told = told]
          /\ told = "ok" => HeadIs(request[q].call)
    BY <1>7 DEF Resolve
  <2>3. /\ request'[q].pc = "receipt" /\ request'[q].told = told /\ request'[q].kind = request[q].kind
        /\ request'[q].call = request[q].call /\ request'[q].seq = request[q].seq
        /\ \A s \in Requests : s # q => request'[s] = request[s]
    BY <1>1, <2>2 DEF Request
  <2>4. QED
    BY <2>1, <2>2, <2>3, NoneIsNoString DEF Carries
<1>8. CASE Receipt(q) \/ RecordOutcome(q)
  <2>1. /\ Len(log) \in Nat
        /\ \/ \E next \in {"outcome", "done"} : request' = [request EXCEPT ![q].pc = next]
           \/ request' = [request EXCEPT ![q].pc = "outcome", ![q].seq = Len(log) + 1]
    BY <1>8, LogIsIndexed DEF Receipt, RecordOutcome, ToStep, RecordsInv
  <2>2. /\ request'[q].pc # "resolve" /\ request'[q].told = request[q].told /\ request'[q].kind = request[q].kind
        /\ request'[q].call = request[q].call /\ request'[q].seq \in {request[q].seq, Len(log) + 1}
        /\ \A s \in Requests : s # q => request'[s] = request[s]
    BY <1>1, <2>1 DEF Request
  <2>3. QED
    BY <2>1, <2>2, NoneIsNoString DEF Carries
<1>9. QED
  BY <1>3, <1>4, <1>5, <1>6, <1>7, <1>8 DEF MemberStep

\* Every step but those of requests leaves the requests alone.
LEMMA NextCarries ==
  ASSUME RecordsInv, [Next]_vars
  PROVE  /\ \A s \in Requests : Carries(s)
         /\ \E x : \A s \in Requests : s # x => request'[s] = request[s]
<1>1. CASE \E q \in Requests : MemberStep(q) \/ Resolve(q)
  BY <1>1, StepCarries
<1>2. CASE UNCHANGED request
  BY <1>2 DEF Carries
<1>3. QED
  BY <1>1, <1>2, StepKinds DEF QuietSkillStep, RunSkill, StartSkill, Wake, FinishSkill, Enqueue, Expire,
     Leave, Propose, Show, Trigger, Freeze, Drain, vars

\* What has been at the head of the queue does not come behind another entry, and
\* what is out of it does not come in again.
LEMMA Passed ==
  ASSUME StateInv, Moves, NEW p \in Proposals, StateInv'
  PROVE  (WasHead(p) => WasHead(p)') /\ (IsOut(p) => IsOut(p)')
<1>1. Entered(p) => Entered(p)'
  BY DEF Moves, Entered
<1>2. Len(queue) \in Nat /\ Len(queue') \in Nat
  BY LenProperties DEF StateInv, Types
<1>3. CASE Shrinks(queue, queue')
  <2>1. \A j \in 1..Len(queue') : \E i \in 1..Len(queue) : queue'[j] = queue[i] /\ (j > 1 => i > 1)
    BY <1>3 DEF Shrinks
  <2>2. QED
    BY <1>1, <1>2, <2>1 DEF WasHead, IsOut
<1>4. CASE \E r \in Proposals : status[r] = "admitted" /\ queue' = Append(queue, r)
  <2>1. PICK r \in Proposals : status[r] = "admitted" /\ queue' = Append(queue, r)
    BY <1>4
  <2>2. /\ Len(queue') = Len(queue) + 1
        /\ \A i \in 1..Len(queue) + 1 : queue'[i] = IF i <= Len(queue) THEN queue[i] ELSE r
    BY <2>1, StateIsOnce, AppendsOne
  <2>3. Entered(p) => p # r
    BY <2>1 DEF Entered
  <2>4. QED
    BY <1>1, <1>2, <2>2, <2>3 DEF WasHead, IsOut
<1>5. QED
  BY <1>3, <1>4 DEF Moves

LEMMA HeadWasHead ==
  ASSUME StateInv, queue # <<>>
  PROVE  /\ Head(queue) \in Proposals /\ WasHead(Head(queue)) /\ 1 \in 1..Len(queue) /\ Head(queue) = queue[1]
<1>1. Head(queue) \in Proposals /\ 1 \in 1..Len(queue) /\ Head(queue) = queue[1]
  BY StateIsOnce, TailIsWithout
<1>2. QED
  BY <1>1 DEF StateInv, QueueInv, WasHead, Entered

LEMMA ShownNext ==
  ASSUME BridgeInv, [Next]_vars
  PROVE  ShownInv'
<1>1. /\ StateInv /\ RecordsInv /\ ShownInv /\ StateInv' /\ Moves /\ RecordsInv'
  BY StateNext, RecordsNext DEF BridgeInv, RecordsInv
<1>2. \A p \in Proposals : /\ WasHead(p) => WasHead(p)'
                           /\ IsOut(p) => IsOut(p)'
                           /\ call[p] \in Calls => call'[p] = call[p]
  BY <1>1, Passed DEF Moves
<1>3. shown \subseteq Calls
  BY <1>1 DEF StateInv, Types
<1>4. ASSUME NEW c \in shown'
      PROVE  \E p \in Proposals : call'[p] = c /\ WasHead(p)'
  <2>1. PICK p \in Proposals : call[p] = c /\ WasHead(p)
    <3>1. CASE c \in shown
      BY <1>1, <3>1 DEF ShownInv
    <3>2. CASE c \notin shown
      <4>1. queue # <<>> /\ c = call[Head(queue)]
        BY <1>1, <1>4, <3>2 DEF Moves
      <4>2. QED
        BY <1>1, <4>1, HeadWasHead
    <3>3. QED
      BY <3>1, <3>2
  <2>2. c \in Calls
    BY <1>1 DEF StateInv, Types
  <2>3. QED
    BY <1>2, <2>1, <2>2
<1>5. ASSUME NEW q \in Requests, request'[q].kind = "approve", request'[q].seq = None
      PROVE  /\ request'[q].pc = "resolve" => \E p \in Proposals : call'[p] = request'[q].call /\ IsOut(p)'
             /\ request'[q].told = "ok" => ProposedTwice(request[q].call)'
  <2>1. Carries(q)
    BY <1>1, NextCarries
  <2>2. RequestInv(request[q])
    BY <1>1 DEF RecordsInv, LogInv
  <2>3. request'[q].pc = "resolve" => \E p \in Proposals : call'[p] = request'[q].call /\ IsOut(p)'
    <3>1. SUFFICES ASSUME request'[q].pc = "resolve"
                   PROVE  \E p \in Proposals : call'[p] = request'[q].call /\ IsOut(p)'
      OBVIOUS
    <3>2. /\ request[q].kind = "approve" /\ request[q].seq = None /\ request[q].call = request'[q].call
          /\ request[q].pc = "resolve" \/ (request[q].pc = "peek" /\ ~HeadIs(request[q].call))
      BY <1>5, <2>1, <3>1 DEF Carries
    <3>3. request[q].call \in shown /\ request[q].call \in Calls
      BY <1>3, <2>2, <3>2 DEF RequestInv
    <3>4. PICK p \in Proposals : call[p] = request[q].call /\ IsOut(p)
      <4>1. CASE request[q].pc = "resolve"
        BY <1>1, <3>2, <4>1 DEF ShownInv
      <4>2. CASE ~HeadIs(request[q].call)
        <5>1. PICK p \in Proposals : call[p] = request[q].call /\ WasHead(p)
          BY <1>1, <3>3 DEF ShownInv
        <5>2. queue \in Seq(Proposals) /\ Len(queue) \in Nat
          BY <1>1, LenProperties DEF StateInv, Types
        <5>3. \A i \in 1..Len(queue) : queue[i] # p
          <6>1. CASE queue = <<>>
            BY <6>1, EmptySeq
          <6>2. CASE queue # <<>>
            BY <1>1, <4>2, <5>1, <5>2, <6>2, HeadWasHead DEF HeadIs, WasHead
          <6>3. QED
            BY <6>1, <6>2
        <5>4. QED
          BY <5>1, <5>3 DEF IsOut, WasHead
      <4>3. QED
        BY <3>2, <4>1, <4>2
    <3>5. QED
      BY <1>2, <3>2, <3>3, <3>4
  <2>4. request'[q].told = "ok" => ProposedTwice(request[q].call)'
    <3>1. SUFFICES ASSUME request'[q].told = "ok"
                   PROVE  ProposedTwice(request[q].call)'
      OBVIOUS
    <3>2. /\ request[q].kind = "approve" /\ request[q].seq = None /\ request[q].call = request'[q].call
          /\ request[q].told = "ok" \/ (request[q].pc = "resolve" /\ HeadIs(request[q].call))
      BY <1>5, <2>1, <3>1 DEF Carries
    <3>3. request[q].call \in Calls
      BY <1>3, <2>2, <3>2, NoneIsNoString DEF RequestInv
    <3>4. ProposedTwice(request[q].call)
      <4>1. CASE request[q].told = "ok"
        BY <1>1, <3>2, <4>1 DEF ShownInv
      <4>2. CASE request[q].pc = "resolve" /\ HeadIs(request[q].call)
        <5>1. PICK p \in Proposals : call[p] = request[q].call /\ IsOut(p)
          BY <1>1, <3>2, <4>2 DEF ShownInv
        <5>2. Head(queue) \in Proposals /\ call[Head(queue)] = request[q].call /\ Head(queue) # p
          BY <1>1, <4>2, <5>1, HeadWasHead DEF HeadIs, IsOut
        <5>3. QED
          BY <5>1, <5>2 DEF ProposedTwice
      <4>3. QED
        BY <3>2, <4>1, <4>2
    <3>5. PICK p, r \in Proposals : p # r /\ call[p] = request[q].call /\ call[r] = request[q].call
      BY <3>4 DEF ProposedTwice
    <3>6. QED
      BY <1>2, <3>2, <3>3, <3>5 DEF ProposedTwice
  <2>5. QED
    BY <2>3, <2>4
<1>6. QED
  BY <1>4, <1>5 DEF ShownInv

-----------------------------------------------------------------------------
(* One effect for each approval                                                *)

\* Only the answer to the head of the queue releases, and it tells an approval so.
LEMMA Releases ==
  ASSUME BridgeInv, [Next]_vars, StateInv'
  PROVE  \/ \A c \in Calls : ReleasedOf(c)' \subseteq ReleasedOf(c)
         \/ \E q \in Requests, p \in Proposals :
              /\ request[q].told = None /\ request'[q].told = "ok"
              /\ request'[q].kind = "approve" /\ request'[q].call = request[q].call /\ call[p] = request[q].call
              /\ \A c \in Calls :
                   ReleasedOf(c)' \subseteq ReleasedOf(c) \cup (IF c = call[p] THEN {p} ELSE {})
<1> DEFINE NoneReleased == \A p \in Proposals : status'[p] = "released" => status[p] = "released" /\ call'[p] = call[p]
<1>1. StateInv /\ RecordsInv /\ Moves
  BY StateNext DEF BridgeInv, RecordsInv
<1>2. \A p \in Proposals : status[p] = "released" => call[p] \in Calls
  BY <1>1 DEF StateInv, SkillInv, Types
<1>3. \A p \in Proposals : status[p] = "released" => call'[p] = call[p]
  BY <1>1, <1>2 DEF Moves
<1>4. NoneReleased => \A c \in Calls : ReleasedOf(c)' \subseteq ReleasedOf(c)
  BY DEF ReleasedOf
<1>5. CASE \E t \in Skills : QuietSkillStep(t) \/ Leave(t)
  <2>1. UNCHANGED status
    BY <1>1, <1>5, QuietSkillState, LeaveState
  <2>2. QED
    BY <1>3, <1>4, <2>1
<1>6. CASE \E t \in Skills : Enqueue(t) \/ Expire(t)
  <2>1. \E p \in Proposals, s \in {"refused", "parked"} : status' = [status EXCEPT ![p] = s]
    BY <1>1, <1>6, EnqueueState, ExpireState
  <2>2. \A p \in Proposals : status'[p] = "released" => status[p] = "released"
    BY <1>1, <2>1 DEF StateInv, Types
  <2>3. QED
    BY <1>3, <1>4, <2>2
<1>7. CASE \E t \in Skills, p \in Proposals : \E c \in EffectsOf[p] : Propose(t, p, c)
  <2>1. \E p \in Proposals, s \in {"refused", "admitted"} : status' = [status EXCEPT ![p] = s]
    BY <1>7 DEF Propose, SetStatus
  <2>2. \A p \in Proposals : status'[p] = "released" => status[p] = "released"
    BY <1>1, <2>1 DEF StateInv, Types
  <2>3. QED
    BY <1>3, <1>4, <2>2
<1>8. CASE \E q \in Requests : MemberStep(q)
  <2>1. UNCHANGED status
    BY <1>8, MemberStepState
  <2>2. QED
    BY <1>3, <1>4, <2>1
<1>9. CASE \E q \in Requests : Resolve(q) /\ HeadIs(request[q].call)
  <2>1. PICK q \in Requests : Resolve(q) /\ HeadIs(request[q].call)
    BY <1>9
  <2> DEFINE p == Head(queue)
  <2>2. p \in Proposals /\ call[p] = request[q].call /\ UNCHANGED call
    BY <1>1, <2>1, ResolveState
  <2>3. \/ UNCHANGED status \/ status' = [status EXCEPT ![p] = "refused"]
        \/ /\ status' = [status EXCEPT ![p] = "released"] /\ request[q].kind = "approve"
           /\ request' = [request EXCEPT ![q].pc = "receipt", ![q].told = "ok"]
    BY <1>1, <2>1, ResolveState
  <2> HIDE DEF p
  <2>4. CASE UNCHANGED status \/ status' = [status EXCEPT ![p] = "refused"]
    <3>1. \A r \in Proposals : status'[r] = "released" => status[r] = "released"
      BY <1>1, <2>2, <2>4 DEF StateInv, Types
    <3>2. QED
      BY <1>3, <1>4, <3>1
  <2>5. CASE /\ status' = [status EXCEPT ![p] = "released"] /\ request[q].kind = "approve"
             /\ request' = [request EXCEPT ![q].pc = "receipt", ![q].told = "ok"]
    <3>1. request[q] \in Request /\ request \in [Requests -> Request] /\ request[q].told = None
      BY <1>1, <2>1 DEF RecordsInv, RecordTypes, LogInv, RequestInv, Resolve
    <3>2. /\ request'[q].told = "ok" /\ request'[q].kind = "approve" /\ request'[q].call = request[q].call
      BY <2>5, <3>1 DEF Request
    <3>3. \A r \in Proposals : r # p /\ status'[r] = "released" => status[r] = "released"
      BY <1>1, <2>2, <2>5 DEF StateInv, Types
    <3>4. ASSUME NEW c \in Calls
          PROVE  ReleasedOf(c)' \subseteq ReleasedOf(c) \cup (IF c = call[p] THEN {p} ELSE {})
      BY <2>2, <3>3 DEF ReleasedOf
    <3>5. QED
      BY <2>2, <3>1, <3>2, <3>4
  <2>6. QED
    BY <2>3, <2>4, <2>5
<1>10. CASE Show \/ Trigger \/ Freeze \/ UNCHANGED vars
  <2>1. UNCHANGED status
    BY <1>10 DEF Show, Trigger, Freeze, vars
  <2>2. QED
    BY <1>3, <1>4, <2>1
<1>11. CASE Drain
  <2>1. \A p \in Proposals : status'[p] = "released" => status[p] = "released"
    BY <1>11 DEF Drain
  <2>2. QED
    BY <1>3, <1>4, <2>1
<1>12. QED
  BY <1>5, <1>6, <1>7, <1>8, <1>9, <1>10, <1>11, StepKinds

LEMMA CountNext ==
  ASSUME BridgeInv, [Next]_vars
  PROVE  CountInv'
<1>1. /\ StateInv /\ RecordsInv /\ CountInv /\ StateInv' /\ Moves /\ RecordsInv'
  BY StateNext, RecordsNext DEF BridgeInv, RecordsInv
<1> DEFINE begun == {p \in Proposals : status[p] # "new"}
           came  == {q \in Requests : request[q].pc # "new"}
<1>2. IsFiniteSet(begun')
  <2>1. PICK x : \A p \in Proposals : status'[p] # "new" => status[p] # "new" \/ p = x
    BY <1>1 DEF Moves
  <2>2. begun' \subseteq begun \cup {x} /\ IsFiniteSet(begun)
    BY <1>1, <2>1 DEF CountInv
  <2>3. QED
    BY <2>2, FS_AddElement, FS_Subset
<1>3. IsFiniteSet(came')
  <2>1. PICK x : \A s \in Requests : s # x => request'[s] = request[s]
    BY <1>1, NextCarries
  <2>2. came' \subseteq came \cup {x} /\ IsFiniteSet(came)
    BY <1>1, <2>1 DEF CountInv
  <2>3. QED
    BY <2>2, FS_AddElement, FS_Subset
<1>4. \A c \in Calls : /\ IsFiniteSet(ReleasedOf(c)) /\ Cardinality(ReleasedOf(c)) \in Nat
                       /\ IsFiniteSet(ReleasedOf(c)') /\ Cardinality(ReleasedOf(c)') \in Nat
  <2>1. ASSUME NEW c \in Calls
        PROVE  ReleasedOf(c) \subseteq begun /\ ReleasedOf(c)' \subseteq begun'
    BY DEF ReleasedOf
  <2>2. IsFiniteSet(begun)
    BY <1>1 DEF CountInv
  <2>3. QED
    BY <1>2, <2>1, <2>2, FS_Subset, FS_CardinalityType
<1>5. \A c \in Calls : /\ IsFiniteSet(AllowedOf(c)) /\ Cardinality(AllowedOf(c)) \in Nat
                       /\ IsFiniteSet(AllowedOf(c)') /\ Cardinality(AllowedOf(c)') \in Nat
  <2>1. ASSUME NEW c \in Calls
        PROVE  AllowedOf(c) \subseteq came /\ AllowedOf(c)' \subseteq came'
    <3>1. \A q \in Requests : /\ request[q].told = "ok" => request[q].pc # "new"
                              /\ request'[q].told = "ok" => request'[q].pc # "new"
      BY <1>1, NoneIsNoString DEF RecordsInv, LogInv, RequestInv
    <3>2. QED
      BY <3>1 DEF AllowedOf
  <2>2. IsFiniteSet(came)
    BY <1>1 DEF CountInv
  <2>3. QED
    BY <1>3, <2>1, <2>2, FS_Subset, FS_CardinalityType
<1>6. \A c \in Calls : AllowedOf(c) \subseteq AllowedOf(c)'
  BY <1>1, NextCarries DEF AllowedOf, Carries
<1>7. ASSUME NEW c \in Calls
      PROVE  Cardinality(ReleasedOf(c)') <= Cardinality(AllowedOf(c)')
  <2>1. Cardinality(ReleasedOf(c)) <= Cardinality(AllowedOf(c))
    BY <1>1 DEF CountInv
  <2>2. Cardinality(AllowedOf(c)) <= Cardinality(AllowedOf(c)')
    BY <1>5, <1>6, FS_Subset
  <2>3. CASE ReleasedOf(c)' \subseteq ReleasedOf(c)
    <3>1. Cardinality(ReleasedOf(c)') <= Cardinality(ReleasedOf(c))
      BY <1>4, <2>3, FS_Subset
    <3>2. QED
      BY <1>4, <1>5, <2>1, <2>2, <3>1
  <2>4. ASSUME NEW q \in Requests, NEW p \in Proposals,
               request[q].told = None, request'[q].told = "ok", request'[q].kind = "approve",
               request'[q].call = c, ReleasedOf(c)' \subseteq ReleasedOf(c) \cup {p}
        PROVE  Cardinality(ReleasedOf(c)') <= Cardinality(AllowedOf(c)')
    <3>1. /\ IsFiniteSet(ReleasedOf(c) \cup {p})
          /\ Cardinality(ReleasedOf(c) \cup {p}) <= Cardinality(ReleasedOf(c)) + 1
          /\ Cardinality(ReleasedOf(c) \cup {p}) \in Nat
      BY <1>4, FS_AddElement, FS_CardinalityType
    <3>2. Cardinality(ReleasedOf(c)') <= Cardinality(ReleasedOf(c) \cup {p})
      BY <2>4, <3>1, FS_Subset
    <3>3. q \notin AllowedOf(c) /\ AllowedOf(c) \cup {q} \subseteq AllowedOf(c)'
      BY <1>6, <2>4, NoneIsNoString DEF AllowedOf
    <3>4. Cardinality(AllowedOf(c) \cup {q}) = Cardinality(AllowedOf(c)) + 1
      BY <1>5, <3>3, FS_AddElement
    <3>5. Cardinality(AllowedOf(c) \cup {q}) <= Cardinality(AllowedOf(c)')
      BY <1>5, <3>3, FS_Subset
    <3>6. QED
      BY <1>4, <1>5, <2>1, <3>1, <3>2, <3>4, <3>5
  <2>5. QED
    BY <1>1, <2>3, <2>4, Releases
<1>8. QED
  BY <1>2, <1>3, <1>7 DEF CountInv

-----------------------------------------------------------------------------
(* The invariant holds                                                         *)

LEMMA InvInit ==
  ASSUME Init
  PROVE  BridgeInv
<1> USE DEF Init
<1>1. queue \in Seq(Proposals) /\ Len(queue) = 0 /\ log \in Seq(Record) /\ Len(log) = 0 /\ DOMAIN log = {}
  BY EmptySeq
<1>2. StateInv
  <2>1. Types
    BY <1>1 DEF Types, SkillSteps
  <2>2. SkillInv
    BY NoneAssumption DEF SkillInv
  <2>3. QueueInv
    BY <1>1 DEF QueueInv
  <2>4. QED
    BY <2>1, <2>2, <2>3 DEF StateInv
<1>3. RecordTypes
  <2>1. request \in [Requests -> Request]
    BY DEF Request, RequestSteps, Answers
  <2>2. logErrors \in 0..MaxLogErrors
    BY BoundAssumption
  <2>3. QED
    BY <1>1, <2>1, <2>2 DEF RecordTypes
<1>4. LogInv
  <2>1. \A q \in Requests : RequestInv(request[q])
    BY NoneIsNoString DEF RequestInv
  <2>2. QED
    BY <1>1, <2>1 DEF LogInv, NoDecisionLeftOpen
<1>5. ShownInv
  BY NoneIsNoString DEF ShownInv
<1>6. CountInv
  <2>1. /\ {p \in Proposals : status[p] # "new"} = {}
        /\ {q \in Requests : request[q].pc # "new"} = {}
        /\ \A c \in Calls : ReleasedOf(c) = {} /\ AllowedOf(c) = {}
    BY NoneIsNoString DEF ReleasedOf, AllowedOf
  <2>2. IsFiniteSet({}) /\ Cardinality({}) <= Cardinality({})
    BY FS_EmptySet
  <2>3. QED
    BY <2>1, <2>2 DEF CountInv
<1>7. QED
  BY <1>2, <1>3, <1>4, <1>5, <1>6 DEF BridgeInv

\* The inductive invariant of the bridge.
THEOREM BridgeInvariant == Spec => []BridgeInv
<1>1. BridgeInv /\ [Next]_vars => BridgeInv'
  BY StateNext, RecordsNext, ShownNext, CountNext DEF BridgeInv, RecordsInv
<1>2. QED
  BY InvInit, <1>1, PTL DEF Spec

-----------------------------------------------------------------------------
(* Results                                                                     *)

\* The types declared in the specification hold of every state.
THEOREM TypeCorrect == Spec => []TypeOK
<1>1. ASSUME BridgeInv
      PROVE  TypeOK
  <2>1. Types /\ RecordTypes /\ DOMAIN queue = 1..Len(queue)
    BY <1>1, LenProperties DEF BridgeInv, StateInv, Types
  <2>2. IsInjective(queue)
    BY <1>1, <2>1 DEF IsInjective, BridgeInv, StateInv, QueueInv
  <2>3. request \in [Requests -> [pc : RequestSteps, kind : Kinds \cup {None},
                                  call : Calls \cup {None}, matched : BOOLEAN,
                                  seq : 1..Len(log) \cup {None}, told : Answers]]
    <3>1. ASSUME NEW q \in Requests
          PROVE  request[q] \in Request /\ (request[q].seq # None => request[q].seq \in 1..Len(log))
      BY <1>1 DEF BridgeInv, LogInv, RequestInv, RecordTypes
    <3>2. QED
      BY <2>1, <3>1 DEF RecordTypes, Request
  <2>4. QED
    BY <2>1, <2>2, <2>3 DEF TypeOK, Types, RecordTypes, Record
<1>2. QED
  BY <1>1, BridgeInvariant, PTL

\* AR-B-023: an effect is released only by an approval of that very call, one
\* effect by each approval, for any number of skills, proposals and requests.
THEOREM ReleasesWereReviewed == Spec => []EveryReleaseWasReviewed
<1>1. BridgeInv => EveryReleaseWasReviewed
  BY DEF BridgeInv, CountInv, EveryReleaseWasReviewed, ReleasedOf, AllowedOf
<1>2. QED
  BY <1>1, BridgeInvariant, PTL

\* resolve_body: what was answered about a decision is what the log and the memory
\* of unknown outcomes say.
THEOREM AnswersAreRecorded == Spec => []AnswersAreOnRecord
<1>1. ASSUME BridgeInv
      PROVE  UnknownHasReceipt
  <2>1. SUFFICES ASSUME NEW q \in Requests, request[q].kind = "unknown", request[q].pc = "done",
                        request[q].told # "stopped", logErrors = 0
                 PROVE  log[request[q].seq] = [call |-> request[q].call, allow |-> TRUE, outcome |-> "OutcomeUnknown"]
    BY <1>1 DEF UnknownHasReceipt, BridgeInv, LogInv, RequestInv
  <2>2. /\ request[q].seq \in 1..Len(log) /\ log[request[q].seq].call = request[q].call
        /\ log[request[q].seq].allow /\ log[request[q].seq].outcome = "OutcomeUnknown"
    BY <1>1, <2>1 DEF BridgeInv, LogInv, RequestInv
  <2>3. log[request[q].seq] \in Record
    BY <1>1, <2>2, LogIsIndexed DEF BridgeInv
  <2>4. log[request[q].seq].allow = TRUE
    BY <2>2, <2>3 DEF Record
  <2>5. QED
    BY <2>2, <2>3, <2>4 DEF Record
<1>2. BridgeInv => AnswersAreOnRecord
  BY <1>1 DEF AnswersAreOnRecord, BridgeInv, LogInv
<1>3. QED
  BY <1>2, BridgeInvariant, PTL

\* hic_records.rs:16: an effect that is proposed once is released only after the
\* approval of it was written.
THEOREM FirstReleasesAreWriteAhead == Spec => []FirstReleaseIsWriteAhead
<1>1. ASSUME BridgeInv
      PROVE  FirstReleaseIsWriteAhead
  <2>1. SUFFICES ASSUME NEW q \in Requests, request[q].kind = "approve", request[q].told = "ok",
                        request[q].seq = None,
                        Cardinality({p \in Proposals : call[p] = request[q].call}) = 1
                 PROVE  FALSE
    BY DEF FirstReleaseIsWriteAhead
  <2> DEFINE same == {p \in Proposals : call[p] = request[q].call}
  <2>2. PICK p, r \in Proposals : p # r /\ call[p] = request[q].call /\ call[r] = request[q].call
    BY <1>1, <2>1 DEF BridgeInv, ShownInv, ProposedTwice
  <2>3. request[q].call # None
    BY <1>1, <2>1, NoneIsNoString, NoneAssumption DEF BridgeInv, LogInv, RequestInv, StateInv, Types
  <2>4. same \subseteq {s \in Proposals : status[s] # "new"}
    BY <1>1, <2>3 DEF BridgeInv, StateInv, SkillInv
  <2>5. IsFiniteSet(same)
    BY <1>1, <2>4, FS_Subset DEF BridgeInv, CountInv
  <2>6. p \in same /\ r \in same
    BY <2>2
  <2>7. \E x : same = {x}
    BY <2>1, <2>5, FS_Singleton
  <2>8. QED
    BY <2>2, <2>6, <2>7
<1>2. QED
  BY <1>1, BridgeInvariant, PTL

\* The queue of the bridge implements ApprovalPromise: nothing is parked or
\* released while a stop is in force, and each proposal is decided once.
THEOREM BridgeQueueKeepsPromise == Spec => KeepsPromise
<1>1. Init => Promise!Init
  BY DEF Init, Promise!Init
<1>2. ASSUME BridgeInv, [Next]_vars
      PROVE  [Promise!Next]_<<status, stopped>>
  <2>1. StateInv /\ status \in [Proposals -> {"new", "admitted", "parked", "released", "refused"}]
    BY <1>2 DEF BridgeInv, StateInv, Types
  <2>2. CASE \E t \in Skills : QuietSkillStep(t) \/ Leave(t)
    BY <2>1, <2>2, QuietSkillState, LeaveState
  <2>3. CASE \E t \in Skills : Enqueue(t)
    <3>1. PICK t \in Skills : Enqueue(t)
      BY <2>3
    <3>2. /\ current[t] \in Proposals /\ status[current[t]] = "admitted" /\ UNCHANGED stopped
          /\ \/ status' = [status EXCEPT ![current[t]] = "refused"]
             \/ ~frozen /\ status' = [status EXCEPT ![current[t]] = "parked"]
      BY <2>1, <3>1, EnqueueState DEF Enqueue, SetStatus
    <3>3. ~frozen => ~stopped
      BY <2>1 DEF StateInv, QueueInv
    <3>4. CASE status' = [status EXCEPT ![current[t]] = "refused"]
      <4>1. Promise!Refuse({current[t]})
        BY <2>1, <3>2, <3>4 DEF Promise!Refuse, Promise!Become
      <4>2. QED
        BY <3>2, <4>1 DEF Promise!Next
    <3>5. CASE ~frozen /\ status' = [status EXCEPT ![current[t]] = "parked"]
      <4>1. Promise!Park(current[t])
        BY <2>1, <3>2, <3>3, <3>5 DEF Promise!Park, Promise!Become
      <4>2. QED
        BY <3>2, <4>1 DEF Promise!Next
    <3>6. QED
      BY <3>2, <3>4, <3>5
  <2>4. CASE \E t \in Skills : Expire(t)
    <3>1. PICK t \in Skills : Expire(t)
      BY <2>4
    <3>2. /\ current[t] \in Proposals /\ status[current[t]] = "parked" /\ UNCHANGED stopped
          /\ status' = [status EXCEPT ![current[t]] = "refused"]
      BY <2>1, <3>1, ExpireState
    <3>3. Promise!Refuse({current[t]})
      BY <2>1, <3>2 DEF Promise!Refuse, Promise!Become
    <3>4. QED
      BY <3>2, <3>3 DEF Promise!Next
  <2>5. CASE \E t \in Skills, p \in Proposals : \E c \in EffectsOf[p] : Propose(t, p, c)
    <3>1. PICK p \in Proposals : \E t \in Skills : \E c \in EffectsOf[p] : Propose(t, p, c)
      BY <2>5
    <3>2. /\ status[p] = "new" /\ UNCHANGED stopped
          /\ \/ status' = [status EXCEPT ![p] = "refused"]
             \/ ~frozen /\ status' = [status EXCEPT ![p] = "admitted"]
      BY <3>1 DEF Propose, SetStatus
    <3>3. ~frozen => ~stopped
      BY <2>1 DEF StateInv, QueueInv
    <3>4. CASE status' = [status EXCEPT ![p] = "refused"]
      <4>1. Promise!Refuse({p})
        BY <2>1, <3>2, <3>4 DEF Promise!Refuse, Promise!Become
      <4>2. QED
        BY <4>1 DEF Promise!Next
    <3>5. CASE ~frozen /\ status' = [status EXCEPT ![p] = "admitted"]
      <4>1. Promise!Admit(p)
        BY <2>1, <3>2, <3>3, <3>5 DEF Promise!Admit, Promise!Become
      <4>2. QED
        BY <4>1 DEF Promise!Next
    <3>6. QED
      BY <3>2, <3>4, <3>5
  <2>6. CASE \E q \in Requests : MemberStep(q)
    BY <2>6, MemberStepState
  <2>7. CASE \E q \in Requests : Resolve(q) /\ HeadIs(request[q].call)
    <3>1. PICK q \in Requests : Resolve(q) /\ HeadIs(request[q].call)
      BY <2>7
    <3> DEFINE p == Head(queue)
    <3>2. /\ p \in Proposals /\ UNCHANGED stopped
          /\ \/ UNCHANGED status
             \/ status[p] = "parked" /\ status' = [status EXCEPT ![p] = "refused"]
             \/ status[p] = "parked" /\ status' = [status EXCEPT ![p] = "released"]
      BY <2>1, <3>1, ResolveState
    <3>3. status[p] = "parked" => ~stopped
      BY <2>1, <3>2 DEF StateInv, QueueInv
    <3> HIDE DEF p
    <3>4. CASE status[p] = "parked" /\ status' = [status EXCEPT ![p] = "refused"]
      <4>1. Promise!Refuse({p})
        BY <2>1, <3>2, <3>4 DEF Promise!Refuse, Promise!Become
      <4>2. QED
        BY <3>2, <4>1 DEF Promise!Next
    <3>5. CASE status[p] = "parked" /\ status' = [status EXCEPT ![p] = "released"]
      <4>1. Promise!Release(p)
        BY <2>1, <3>2, <3>3, <3>5 DEF Promise!Release, Promise!Become
      <4>2. QED
        BY <3>2, <4>1 DEF Promise!Next
    <3>6. QED
      BY <3>2, <3>4, <3>5
  <2>8. CASE Show \/ Trigger \/ Freeze \/ UNCHANGED vars
    BY <2>8 DEF Show, Trigger, Freeze, vars
  <2>9. CASE Drain
    <3>1. Promise!Stop
      BY <2>1, <2>9 DEF Drain, Promise!Stop, Promise!Become
    <3>2. QED
      BY <3>1 DEF Promise!Next
  <2>10. QED
    BY <1>2, <2>2, <2>3, <2>4, <2>5, <2>6, <2>7, <2>8, <2>9, StepKinds
<1>3. QED
  BY <1>1, <1>2, BridgeInvariant, PTL DEF Spec, KeepsPromise, Promise!Spec

=============================================================================
