----------------------- MODULE WorkerSupervisor_proofs -----------------------
(***************************************************************************)
(* Proofs about WorkerSupervisor, for any number of calling threads, any     *)
(* restart policy and any limit of concurrent calls.                         *)
(***************************************************************************)
EXTENDS WorkerSupervisor, SequenceTheorems, TLAPS

-----------------------------------------------------------------------------
(* The child's unread input *)

Unread(c) == \E i \in 1..Len(inbox) : inbox[i] = c

\* No call is twice in a queue of requests.
CallsOnce(q) == \A i, j \in 1..Len(q) : q[i] \in Calls /\ q[i] = q[j] => i = j

\* r holds requests of q only, and no call twice.
Shrinks(q, r) == CallsOnce(r) /\ \A j \in 1..Len(r) : \E i \in 1..Len(q) : r[j] = q[i]

LEMMA TailShrinks ==
  ASSUME NEW q \in Seq(Ids), q # <<>>, CallsOnce(q)
  PROVE  /\ Tail(q) \in Seq(Ids) /\ Shrinks(q, Tail(q))
         /\ Head(q) \in Ids /\ Head(q) = q[1] /\ 1 \in 1..Len(q)
         /\ Head(q) \in Calls => \A j \in 1..Len(Tail(q)) : Tail(q)[j] # Head(q)
<1>1. /\ Len(q) \in Nat \ {0} /\ Head(q) = q[1] /\ Head(q) \in Ids
      /\ Tail(q) \in Seq(Ids) /\ Len(Tail(q)) = Len(q) - 1
      /\ \A j \in 1..Len(q)-1 : Tail(q)[j] = q[j+1]
  BY HeadTailProperties, EmptySeq, LenProperties
<1>2. CallsOnce(Tail(q))
  BY <1>1 DEF CallsOnce
<1>3. \A j \in 1..Len(q)-1 : j + 1 \in 1..Len(q) /\ 1 # j + 1
  BY <1>1
<1>4. Head(q) \in Calls => \A j \in 1..Len(Tail(q)) : Tail(q)[j] # Head(q)
  BY <1>1, <1>3 DEF CallsOnce
<1>5. QED
  BY <1>1, <1>2, <1>3, <1>4 DEF Shrinks

LEMMA RemoveAtShrinks ==
  ASSUME NEW q \in Seq(Ids), CallsOnce(q), NEW i \in 1..Len(q)
  PROVE  RemoveAt(q, i) \in Seq(Ids) /\ Shrinks(q, RemoveAt(q, i))
<1> DEFINE a == SubSeq(q, 1, i-1)
           b == SubSeq(q, i+1, Len(q))
           r == a \o b
           from(j) == IF j < i THEN j ELSE j + 1
<1>1. Len(q) \in Nat
  BY LenProperties
<1>2. /\ a \in Seq(Ids) /\ Len(a) = i - 1
      /\ \A j \in 1..i-1 : a[j] = q[j]
  BY <1>1, SubSeqProperties
<1>3. /\ b \in Seq(Ids) /\ Len(b) = Len(q) - i
      /\ \A j \in 1..Len(q)-i : b[j] = q[i+j]
  BY <1>1, SubSeqProperties
<1>4. /\ r \in Seq(Ids) /\ Len(r) = Len(a) + Len(b)
      /\ \A j \in 1..Len(a)+Len(b) : r[j] = IF j <= Len(a) THEN a[j] ELSE b[j-Len(a)]
  BY <1>2, <1>3, ConcatProperties
<1> HIDE DEF a, b
<1>5. Len(r) = Len(q) - 1
  BY <1>1, <1>2, <1>3, <1>4
<1> HIDE DEF r
<1>6. ASSUME NEW j \in 1..Len(q)-1
      PROVE  r[j] = IF j < i THEN q[j] ELSE q[j+1]
  <2>1. CASE j < i
    BY <2>1, <1>1, <1>2, <1>3, <1>4
  <2>2. CASE ~(j < i)
    <3> DEFINE k == j - (i - 1)
    <3>1. k \in 1..Len(q)-i /\ i + k = j + 1 /\ ~(j <= i - 1) /\ j \in 1..(i-1)+(Len(q)-i)
      BY <2>2, <1>1
    <3>2. r[j] = b[j-Len(a)] /\ j - Len(a) = k
      BY <3>1, <1>2, <1>3, <1>4
    <3> HIDE DEF k
    <3>3. QED
      BY <3>1, <3>2, <1>3, <2>2
  <2>3. QED
    BY <2>1, <2>2
<1>7. \A j, k \in 1..Len(q)-1 : from(j) = from(k) => j = k
  BY <1>1
<1>8. \A j \in 1..Len(q)-1 : r[j] = q[from(j)] /\ from(j) \in 1..Len(q)
  BY <1>1, <1>6
<1> HIDE DEF from
<1>9. CallsOnce(r)
  BY <1>5, <1>8, <1>7 DEF CallsOnce
<1>10. r \in Seq(Ids) /\ Shrinks(q, r)
  BY <1>4, <1>5, <1>8, <1>9 DEF Shrinks
<1>11. RemoveAt(q, i) = r
  BY DEF RemoveAt, r, a, b
<1>12. QED
  BY <1>10, <1>11

LEMMA AppendKeeps ==
  ASSUME NEW q \in Seq(Ids), CallsOnce(q), NEW id \in Ids,
         id \in Calls => \A i \in 1..Len(q) : q[i] # id
  PROVE  /\ Append(q, id) \in Seq(Ids) /\ CallsOnce(Append(q, id))
         /\ \A j \in 1..Len(Append(q, id)) : Append(q, id)[j] = id \/ \E i \in 1..Len(q) : Append(q, id)[j] = q[i]
<1>1. /\ Len(q) \in Nat /\ Append(q, id) \in Seq(Ids) /\ Len(Append(q, id)) = Len(q) + 1
      /\ Append(q, id)[Len(q)+1] = id
      /\ \A j \in 1..Len(q) : Append(q, id)[j] = q[j]
  BY AppendProperties, LenProperties
<1>2. CallsOnce(Append(q, id))
  BY <1>1 DEF CallsOnce
<1>3. QED
  BY <1>1, <1>2

\* A queue shrinks to itself and to the empty one.
LEMMA StaysOrEmpties ==
  ASSUME NEW q \in Seq(Ids), CallsOnce(q)
  PROVE  Shrinks(q, q) /\ Shrinks(q, <<>>) /\ <<>> \in Seq(Ids)
BY EmptySeq DEF Shrinks, CallsOnce

-----------------------------------------------------------------------------
(* The inductive invariant                                                     *)
(*                                                                         *)
(* CallHistory follows one call: until it is written it is unread by nobody  *)
(* and unknown to the child, while it is unread it has not run and was told   *)
(* neither a result nor a refusal, and a result exists only of a call that    *)
(* ran, a refusal only of one that did not. Registered is what fail_pending    *)
(* relies on.                                                                  *)

Early == {"idle", "wait", "insert", "write", "writing"}

Replied(c) == <<c, "result">> \in replies \/ <<c, "refused">> \in replies

CallHistory(c) ==
  /\ caller[c] \in Early =>
       /\ c \notin ran /\ ~Unread(c) /\ ~Replied(c)
       /\ told[c] = None /\ mail[c] \in {None, "crashed"}
  /\ caller[c] = "receive" => told[c] = None
  /\ Unread(c) =>
       /\ c \notin ran /\ ~Replied(c)
       /\ mail[c] \in {None, "crashed"} /\ told[c] \in {None, "crashed", "timeout"}
  /\ c \in running => c \in ran
  /\ (<<c, "result">> \in replies \/ mail[c] = "result" \/ told[c] = "result") => c \in ran
  /\ (<<c, "refused">> \in replies \/ mail[c] = "refused"
        \/ told[c] \in {"refused", "notRunning"}) => c \notin ran

Registered(c) ==
  /\ caller[c] \in {"write", "writing", "receive"} /\ mail[c] = None => c \in pending
  /\ caller[c] = "receive" /\ mail[c] = None => c \in sent

MissesBounded == monitor \in {"ping", "pong", "watch"} => misses < MaxMisses

GoneWhenDone == monitor \in {"top", "spawn", "decide", "backoff", "done"} => child = "none"

\* The join handle is taken once, and by a thread that then joins.
HandleJoins ==
  /\ handle => \A s \in Stoppers : stopper[s] = "idle"
  /\ ~handle => monitor = "done" \/ \E s \in Stoppers : stopper[s] = "join"

TypeInv == TypeOK /\ MissesBounded /\ CallsOnce(inbox)

WorkerInv ==
  /\ TypeInv
  /\ \A c \in Calls : CallHistory(c) /\ Registered(c)
  /\ GoneWhenDone
  /\ HandleJoins

-----------------------------------------------------------------------------
(* What happens to the unread input                                            *)

InboxQuiet ==
  /\ inbox' \in Seq(Ids) /\ CallsOnce(inbox')
  /\ \A c \in Calls : Unread(c)' => Unread(c)

LEMMA ShrinkIsQuiet ==
  ASSUME inbox' \in Seq(Ids), Shrinks(inbox, inbox')
  PROVE  InboxQuiet
<1>1. CallsOnce(inbox')
  BY DEF Shrinks
<1>2. ASSUME NEW c \in Calls, Unread(c)'
      PROVE  Unread(c)
  BY <1>2 DEF Shrinks, Unread
<1>3. QED
  BY <1>1, <1>2 DEF InboxQuiet

LEMMA SameIsQuiet ==
  ASSUME TypeInv, UNCHANGED inbox
  PROVE  InboxQuiet
<1>1. inbox \in Seq(Ids) /\ CallsOnce(inbox)
  BY DEF TypeInv, TypeOK
<1>2. QED
  BY <1>1, StaysOrEmpties, ShrinkIsQuiet

LEMMA EndsIsQuiet ==
  ASSUME TypeInv, inbox' = <<>>
  PROVE  InboxQuiet
<1>1. inbox \in Seq(Ids) /\ CallsOnce(inbox)
  BY DEF TypeInv, TypeOK
<1>2. QED
  BY <1>1, StaysOrEmpties, ShrinkIsQuiet

LEMMA AppendIsQuiet ==
  ASSUME TypeInv, NEW id \in {"ping", "shutdown"}, inbox' = Append(inbox, id)
  PROVE  InboxQuiet
<1>1. inbox \in Seq(Ids) /\ CallsOnce(inbox) /\ id \in Ids /\ id \notin Calls
  BY CallsAssumption DEF TypeInv, TypeOK, Ids
<1>2. /\ inbox' \in Seq(Ids) /\ CallsOnce(inbox')
      /\ \A j \in 1..Len(inbox') : inbox'[j] = id \/ \E i \in 1..Len(inbox) : inbox'[j] = inbox[i]
  BY <1>1, AppendKeeps
<1>3. ASSUME NEW c \in Calls, Unread(c)'
      PROVE  Unread(c)
  BY <1>1, <1>2, <1>3 DEF Unread
<1>4. QED
  BY <1>2, <1>3 DEF InboxQuiet

\* What Tolerate does to the input.
Forgets ==
  \/ \E i \in 1..Len(inbox) : inbox[i] = "ping" /\ inbox' = RemoveAt(inbox, i)
  \/ (\A i \in 1..Len(inbox) : inbox[i] # "ping") /\ UNCHANGED inbox

LEMMA ForgetsIsQuiet ==
  ASSUME TypeInv, Forgets
  PROVE  InboxQuiet
<1>1. inbox \in Seq(Ids) /\ CallsOnce(inbox)
  BY DEF TypeInv, TypeOK
<1>2. CASE UNCHANGED inbox
  BY <1>2, SameIsQuiet
<1>3. CASE \E i \in 1..Len(inbox) : inbox[i] = "ping" /\ inbox' = RemoveAt(inbox, i)
  <2>1. PICK i \in 1..Len(inbox) : inbox' = RemoveAt(inbox, i)
    BY <1>3
  <2>2. QED
    BY <1>1, <2>1, RemoveAtShrinks, ShrinkIsQuiet
<1>4. QED
  BY <1>2, <1>3 DEF Forgets

-----------------------------------------------------------------------------
(* Steps that are quiet for every call                                         *)
(*                                                                         *)
(* Most steps write nothing to the child for a call, let none run, invent no  *)
(* answer and leave each call registered, unless they tell it of a crash.     *)

KeptOrCrashed(c) ==
  \/ mail'[c] = mail[c] /\ (c \in pending => c \in pending') /\ (c \in sent => c \in sent')
  \/ mail'[c] = "crashed"
  \/ mail'[c] = mail[c] /\ c \notin pending

QuietFor(c) ==
  /\ Unread(c)' => Unread(c)
  /\ caller'[c] = caller[c] /\ told'[c] = told[c] /\ (c \in ran' <=> c \in ran)
  /\ \A a \in {"result", "refused"} : <<c, a>> \in replies' => <<c, a>> \in replies
  /\ c \in running' => c \in running
  /\ KeptOrCrashed(c)

Quiet ==
  /\ InboxQuiet
  /\ UNCHANGED <<caller, told, ran>>
  /\ replies' \subseteq replies /\ running' \subseteq running
  /\ \A c \in Calls : KeptOrCrashed(c)

LEMMA QuietForAll ==
  ASSUME Quiet, NEW c \in Calls
  PROVE  QuietFor(c)
BY DEF Quiet, QuietFor, InboxQuiet

LEMMA QuietKeepsCalls ==
  ASSUME NEW c \in Calls, QuietFor(c), CallHistory(c), Registered(c)
  PROVE  CallHistory(c)' /\ Registered(c)'
<1>1. Unread(c)' => Unread(c)
  BY DEF QuietFor
<1>2. /\ caller'[c] = caller[c] /\ told'[c] = told[c] /\ (c \in ran' <=> c \in ran)
      /\ <<c, "result">> \in replies' => <<c, "result">> \in replies
      /\ <<c, "refused">> \in replies' => <<c, "refused">> \in replies
      /\ c \in running' => c \in running
      /\ KeptOrCrashed(c)
  BY DEF QuietFor
<1>3. Replied(c)' => Replied(c)
  BY <1>2 DEF Replied
<1>4. mail'[c] \in {mail[c], "crashed"}
  BY <1>2 DEF KeptOrCrashed
<1>5. CallHistory(c)'
  <2>1. None # "crashed"
    BY NoneAssumption DEF Answers, Results
  <2>2. caller'[c] \in Early => c \notin ran' /\ ~Unread(c)' /\ ~Replied(c)' /\ told'[c] = None
                               /\ mail'[c] \in {None, "crashed"}
    BY <1>1, <1>2, <1>3, <1>4 DEF CallHistory
  <2>3. caller'[c] = "receive" => told'[c] = None
    BY <1>2 DEF CallHistory
  <2>4. Unread(c)' => /\ c \notin ran' /\ ~Replied(c)'
                      /\ mail'[c] \in {None, "crashed"} /\ told'[c] \in {None, "crashed", "timeout"}
    BY <1>1, <1>2, <1>3, <1>4 DEF CallHistory
  <2>5. (c \in running' => c \in ran')
    BY <1>2 DEF CallHistory
  <2>6. (<<c, "result">> \in replies' \/ mail'[c] = "result" \/ told'[c] = "result") => c \in ran'
    BY <1>2, <1>4 DEF CallHistory
  <2>7. (<<c, "refused">> \in replies' \/ mail'[c] = "refused"
           \/ told'[c] \in {"refused", "notRunning"}) => c \notin ran'
    BY <1>2, <1>4 DEF CallHistory
  <2>8. QED
    BY <2>2, <2>3, <2>4, <2>5, <2>6, <2>7 DEF CallHistory
<1>6. Registered(c)'
  <2>1. None # "crashed"
    BY NoneAssumption DEF Answers, Results
  <2>2. QED
    BY <1>2, <2>1 DEF Registered, KeptOrCrashed
<1>7. QED
  BY <1>5, <1>6

-----------------------------------------------------------------------------
(* The steps of the monitor, of the child and of the threads that shut down    *)

QuietStep == TypeInv' /\ Quiet /\ GoneWhenDone'

\* What the types say of None, the only value that is not a string.
LEMMA NoneIsNoAnswer == None # "crashed" /\ None # "result" /\ None # "refused"
BY NoneAssumption DEF Answers, Results

USE DEF Go, Ends, Others, sharedVars, stdinVars, childVars, callVars, stopVars, histVars, monitorVars

\* Steps that leave the child and the calls alone.
LEMMA PlainSteps ==
  ASSUME WorkerInv,
         Top \/ Watch \/ Decide \/ BackOff \/ CloseInput("close", "grace")
           \/ CloseInput("end", "sweep")
  PROVE  QuietStep
<1> USE DEF WorkerInv
<1>1. /\ UNCHANGED <<pending, mail, writer, childVars, sent, Others>>
      /\ monitor' \in MonitorSteps /\ state' \in States /\ open' \in BOOLEAN
      /\ recent' \in 0..MaxRestarts
      /\ UNCHANGED misses
      /\ monitor' = "ping" => misses < MaxMisses
      /\ monitor' = "watch" => misses < MaxMisses
      /\ monitor' # "pong"
      /\ monitor' \in {"top", "spawn", "decide", "backoff", "done"} => child = "none"
  <2> USE DEF TypeInv, TypeOK, MonitorSteps, States, MissesBounded, GoneWhenDone
  <2>1. CASE Top
    BY <2>1 DEF Top
  <2>2. CASE Watch
    BY <2>2 DEF Watch
  <2>3. CASE Decide
    BY <2>3, PolicyAssumption DEF Decide
  <2>4. CASE BackOff
    BY <2>4 DEF BackOff
  <2>5. CASE CloseInput("close", "grace") \/ CloseInput("end", "sweep")
    BY <2>5 DEF CloseInput
  <2>6. QED
    BY <2>1, <2>2, <2>3, <2>4, <2>5
<1>2. InboxQuiet
  BY <1>1, SameIsQuiet
<1>3. TypeInv'
  BY <1>1, <1>2 DEF TypeInv, TypeOK, InboxQuiet, MissesBounded
<1>4. Quiet
  BY <1>1, <1>2 DEF Quiet, KeptOrCrashed
<1>5. GoneWhenDone'
  BY <1>1 DEF GoneWhenDone
<1>6. QED
  BY <1>3, <1>4, <1>5 DEF QuietStep

LEMMA SpawnQuiet ==
  ASSUME WorkerInv, Spawn
  PROVE  QuietStep
<1> USE DEF WorkerInv
<1>1. InboxQuiet
  BY SameIsQuiet DEF Spawn
<1>2. TypeInv'
  <2>1. /\ misses' \in 0..MaxMisses
        /\ UNCHANGED <<state, pending, mail, writer, recent, running, inFlight, replies, sent, Others>>
    BY PolicyAssumption DEF Spawn
  <2>2. open' \in BOOLEAN /\ child' \in {"none", "up", "hung", "leaving", "exited"}
    BY DEF Spawn, TypeInv, TypeOK
  <2>3. monitor' \in MonitorSteps
    BY DEF Spawn, MonitorSteps
  <2>4. TypeOK'
    BY <1>1, <2>1, <2>2, <2>3 DEF TypeInv, TypeOK, InboxQuiet
  <2>5. MissesBounded'
    BY PolicyAssumption DEF Spawn, MissesBounded
  <2>6. QED
    BY <1>1, <2>4, <2>5 DEF TypeInv, InboxQuiet
<1>3. Quiet
  BY <1>1 DEF Spawn, Quiet, KeptOrCrashed
<1>4. GoneWhenDone'
  BY DEF Spawn, GoneWhenDone
<1>5. QED
  BY <1>2, <1>3, <1>4 DEF QuietStep

LEMMA StopAskingQuiet ==
  ASSUME WorkerInv, StopAsking
  PROVE  QuietStep
<1> USE DEF WorkerInv
<1>1. InboxQuiet
  BY SameIsQuiet DEF StopAsking
<1>2. TypeInv'
  BY <1>1 DEF StopAsking, TypeInv, TypeOK, InboxQuiet, MissesBounded, MonitorSteps
<1>3. Quiet
  BY <1>1, CallsAssumption DEF StopAsking, Quiet, KeptOrCrashed
<1>4. GoneWhenDone'
  BY DEF StopAsking, GoneWhenDone
<1>5. QED
  BY <1>2, <1>3, <1>4 DEF QuietStep

LEMMA GraceQuiet ==
  ASSUME WorkerInv, Grace
  PROVE  QuietStep
<1> USE DEF WorkerInv, Replace, ChildEnds
<1>1. InboxQuiet
  BY EndsIsQuiet DEF Grace
<1>2. TypeInv'
  BY <1>1 DEF Grace, TypeInv, TypeOK, InboxQuiet, MissesBounded, MonitorSteps
<1>3. Quiet
  BY <1>1 DEF Grace, Quiet, KeptOrCrashed
<1>4. GoneWhenDone'
  BY DEF Grace, GoneWhenDone
<1>5. QED
  BY <1>2, <1>3, <1>4 DEF QuietStep

LEMMA AskQuiet ==
  ASSUME WorkerInv, Ask
  PROVE  QuietStep
<1> USE DEF WorkerInv
<1>1. InboxQuiet
  BY SameIsQuiet, AppendIsQuiet DEF Ask
<1>2. TypeInv'
  BY <1>1 DEF Ask, TypeInv, TypeOK, InboxQuiet, MissesBounded, MonitorSteps, Ids
<1>3. Quiet
  BY <1>1 DEF Ask, Quiet, KeptOrCrashed
<1>4. GoneWhenDone'
  BY DEF Ask, GoneWhenDone
<1>5. QED
  BY <1>2, <1>3, <1>4 DEF QuietStep

LEMMA SweepQuiet ==
  ASSUME WorkerInv, Sweep
  PROVE  QuietStep
<1> USE DEF WorkerInv
<1>1. InboxQuiet
  BY SameIsQuiet DEF Sweep
<1>2. mail' \in [Ids -> Results \cup {None}]
  BY DEF Sweep, TypeInv, TypeOK, Results
<1>3. TypeInv'
  BY <1>1, <1>2 DEF Sweep, TypeInv, TypeOK, InboxQuiet, MissesBounded, MonitorSteps
<1>4. \A c \in Calls : mail'[c] = IF c \in pending THEN "crashed" ELSE mail[c]
  BY DEF Sweep, Ids
<1>5. Quiet
  BY <1>1, <1>4 DEF Sweep, Quiet, KeptOrCrashed
<1>6. GoneWhenDone'
  BY DEF Sweep, GoneWhenDone
<1>7. QED
  BY <1>3, <1>5, <1>6 DEF QuietStep

\* Giving up a ping concerns no call.
LEMMA AbandonKeepsCalls ==
  ASSUME TypeInv, AbandonPing
  PROVE  /\ pending' \subseteq Ids /\ mail' \in [Ids -> Results \cup {None}]
         /\ replies' \subseteq replies
         /\ \A c \in Calls : mail'[c] = mail[c] /\ (c \in pending => c \in pending')
BY CallsAssumption DEF AbandonPing, TypeInv, TypeOK, Ids

\* The places a ping leads to, the count of misses and the child.
PingLeads ==
  /\ monitor' \in {"pong", "watch", "stop", "end"} /\ misses' \in 0..MaxMisses
  /\ monitor' \in {"pong", "watch"} => misses' < MaxMisses
  /\ child' \in {child, "exited"} /\ running' \subseteq inFlight' /\ inFlight' \subseteq inFlight
  /\ running' \subseteq running

LEMMA ToleratedPing ==
  ASSUME TypeInv, NEW step, NEW next, Tolerate(step, next)
  PROVE  InboxQuiet /\ monitor' = next /\ UNCHANGED <<child, running, inFlight>>
<1>1. Forgets /\ monitor' = next /\ UNCHANGED <<child, running, inFlight>>
  BY DEF Tolerate, Forgets
<1>2. QED
  BY <1>1, ForgetsIsQuiet

LEMMA ReplacedChild ==
  ASSUME TypeInv, NEW step, Replace(step)
  PROVE  InboxQuiet /\ monitor' = "end" /\ child' = "exited" /\ running' = {} /\ inFlight' = {}
BY EndsIsQuiet DEF Replace, ChildEnds

LEMMA MissedLeads ==
  ASSUME TypeInv, NEW step, monitor \in {"ping", "pong"}, Missed(step)
  PROVE  InboxQuiet /\ PingLeads /\ AbandonPing /\ UNCHANGED state
<1>1. AbandonPing /\ UNCHANGED state
  BY DEF Missed
<1>2. misses \in 0..MaxMisses /\ MaxMisses \in Nat \ {0} /\ misses < MaxMisses
      /\ running \subseteq inFlight
  BY PolicyAssumption DEF TypeInv, TypeOK, MissesBounded
<1>3. CASE state = "Starting"
  <2>1. UNCHANGED misses /\ (Tolerate(step, "stop") \/ Replace(step))
    BY <1>3 DEF Missed
  <2>2. CASE Tolerate(step, "stop")
    <3>1. InboxQuiet /\ monitor' = "stop" /\ UNCHANGED <<child, running, inFlight>>
      BY <2>2, ToleratedPing
    <3>2. QED
      BY <1>1, <1>2, <2>1, <3>1 DEF PingLeads
  <2>3. CASE Replace(step)
    BY <1>1, <1>2, <2>1, <2>3, ReplacedChild DEF PingLeads
  <2>4. QED
    BY <2>1, <2>2, <2>3
<1>4. CASE state # "Starting"
  <2>1. /\ misses' = misses + 1
        /\ \/ misses + 1 < MaxMisses /\ Tolerate(step, "watch")
           \/ Replace(step)
    BY <1>4 DEF Missed
  <2>2. CASE misses + 1 < MaxMisses /\ Tolerate(step, "watch")
    <3>1. InboxQuiet /\ monitor' = "watch" /\ UNCHANGED <<child, running, inFlight>>
      BY <2>2, ToleratedPing
    <3>2. QED
      BY <1>1, <1>2, <2>1, <2>2, <3>1 DEF PingLeads
  <2>3. CASE Replace(step)
    BY <1>1, <1>2, <2>1, <2>3, ReplacedChild DEF PingLeads
  <2>4. QED
    BY <2>1, <2>2, <2>3
<1>5. QED
  BY <1>3, <1>4

LEMMA PingQuiet ==
  ASSUME WorkerInv, Ping
  PROVE  QuietStep
<1>1. /\ UNCHANGED <<stdinVars, recent, sent, Others>>
      /\ \/ SendPing \/ Missed("ping") \/ Missed("pong") \/ Answered
         \/ AbandonPing /\ Tolerate("pong", "end") /\ UNCHANGED <<state, misses>>
  BY DEF Ping
<1>2. TypeInv /\ running \subseteq inFlight /\ misses \in 0..MaxMisses /\ MaxMisses \in Nat \ {0}
      /\ state \in States
  BY PolicyAssumption DEF WorkerInv, TypeInv, TypeOK
<1>3. /\ InboxQuiet /\ PingLeads /\ state' \in States
      /\ pending' \subseteq Ids /\ mail' \in [Ids -> Results \cup {None}]
      /\ replies' \subseteq replies
      /\ \A c \in Calls : mail'[c] = mail[c] /\ (c \in pending => c \in pending')
  <2>1. CASE SendPing
    <3>1. InboxQuiet
      BY <1>2, <2>1, AppendIsQuiet DEF SendPing
    <3>2. PingLeads
      BY <1>2, <2>1 DEF SendPing, PingLeads, WorkerInv, TypeInv, MissesBounded
    <3>3. QED
      BY <1>2, <2>1, <3>1, <3>2 DEF SendPing, TypeInv, TypeOK, Ids
  <2>2. CASE Missed("ping") \/ Missed("pong")
    <3>1. PICK step \in {"ping", "pong"} : Missed(step)
      BY <2>2
    <3>2. monitor \in {"ping", "pong"}
      BY <1>2, <2>2, <3>1 DEF Missed, Tolerate, Replace
    <3>3. QED
      BY <1>2, <3>1, <3>2, MissedLeads, AbandonKeepsCalls
  <2>3. CASE Answered
    <3>1. InboxQuiet /\ monitor' = "watch" /\ UNCHANGED <<child, running, inFlight>>
      BY <1>2, <2>3, ToleratedPing DEF Answered
    <3>2. PingLeads /\ state' \in States
      BY <1>2, <2>3, <3>1 DEF Answered, PingLeads, States
    <3>3. QED
      BY <1>2, <2>3, <3>1, <3>2, AbandonKeepsCalls DEF Answered
  <2>4. CASE AbandonPing /\ Tolerate("pong", "end") /\ UNCHANGED <<state, misses>>
    <3>1. InboxQuiet /\ monitor' = "end" /\ UNCHANGED <<child, running, inFlight>>
      BY <1>2, <2>4, ToleratedPing
    <3>2. PingLeads
      BY <1>2, <2>4, <3>1 DEF PingLeads
    <3>3. QED
      BY <1>2, <2>4, <3>1, <3>2, AbandonKeepsCalls
  <2>5. QED
    BY <1>1, <2>1, <2>2, <2>3, <2>4
<1>4. TypeInv'
  <2>1. monitor' \in MonitorSteps
    BY <1>3 DEF PingLeads, MonitorSteps
  <2>2. child' \in {"none", "up", "hung", "leaving", "exited"} /\ inFlight' \subseteq Calls
    BY <1>2, <1>3 DEF PingLeads, TypeInv, TypeOK
  <2>3. TypeOK'
    BY <1>1, <1>2, <1>3, <2>1, <2>2 DEF PingLeads, TypeInv, TypeOK, InboxQuiet
  <2>4. MissesBounded'
    BY <1>3 DEF PingLeads, MissesBounded
  <2>5. QED
    BY <1>3, <2>3, <2>4 DEF TypeInv, InboxQuiet
<1>5. Quiet
  BY <1>1, <1>3 DEF Quiet, KeptOrCrashed, PingLeads
<1>6. GoneWhenDone'
  BY <1>3 DEF PingLeads, GoneWhenDone
<1>7. QED
  BY <1>4, <1>5, <1>6 DEF QuietStep

\* The monitor, the process and the stop leave every call's history in order.
LEMMA MonitorQuiet ==
  ASSUME WorkerInv, Monitor
  PROVE  QuietStep /\ UNCHANGED <<stopper, handle>> /\ (monitor = "done" => monitor' = "done")
<1>1. QuietStep
  BY PlainSteps, SpawnQuiet, StopAskingQuiet, GraceQuiet, AskQuiet, SweepQuiet, PingQuiet
     DEF Monitor
<1>2. UNCHANGED <<stopper, handle>>
  BY DEF Monitor, Top, Spawn, Ping, Watch, Ask, StopAsking, CloseInput, Grace, Sweep, Decide,
         BackOff
<1>3. monitor # "done"
  <2>1. CASE Ping
    BY <2>1 DEF Ping, SendPing, Missed, Answered, Tolerate, Replace
  <2>2. CASE ~Ping
    BY <2>2 DEF Monitor, Top, Spawn, Watch, Ask, StopAsking, CloseInput, Grace, Replace, Sweep,
                Decide, BackOff
  <2>3. QED
    BY <2>1, <2>2
<1>4. QED
  BY <1>1, <1>2, <1>3

LEMMA ProcessQuiet ==
  ASSUME WorkerInv, Exit \/ Hang \/ \E c \in Calls : GiveBack(c)
  PROVE  QuietStep /\ UNCHANGED <<monitor, stopper, handle>>
<1> USE DEF WorkerInv
<1>1. UNCHANGED <<replies, sharedVars, stdinVars, monitorVars, callVars, stopVars, histVars>>
  BY DEF Exit, Hang, GiveBack
<1>2. InboxQuiet
  <2>1. inbox' = <<>> \/ UNCHANGED inbox
    BY DEF Exit, ChildEnds, Hang, GiveBack
  <2>2. QED
    BY <2>1, EndsIsQuiet, SameIsQuiet
<1>3. /\ child \in {"up", "hung", "leaving"} /\ child' \in {"up", "hung", "leaving", "exited"}
      /\ running' \subseteq inFlight' /\ inFlight' \subseteq inFlight /\ running' \subseteq running
  BY DEF Exit, Alive, ChildEnds, Hang, GiveBack, TypeInv, TypeOK
<1>4. TypeOK' /\ MissesBounded'
  BY <1>1, <1>2, <1>3 DEF TypeInv, TypeOK, InboxQuiet, MissesBounded
<1>5. Quiet
  BY <1>1, <1>2, <1>3 DEF Quiet, KeptOrCrashed
<1>6. GoneWhenDone'
  BY <1>1, <1>3 DEF GoneWhenDone
<1>7. QED
  BY <1>1, <1>2, <1>4, <1>5, <1>6 DEF QuietStep, TypeInv, InboxQuiet

LEMMA StopQuiet ==
  ASSUME WorkerInv, NEW s \in Stoppers, Shutdown(s) \/ Join(s)
  PROVE  QuietStep /\ HandleJoins'
<1> USE DEF WorkerInv
<1>1. UNCHANGED <<state, pending, mail, stdinVars, monitorVars, childVars, callVars, histVars>>
  BY DEF Shutdown, Join
<1>2. InboxQuiet
  BY <1>1, SameIsQuiet
<1>3. TypeOK'
  BY <1>1, <1>2 DEF TypeInv, TypeOK, InboxQuiet, Shutdown, Join
<1>4. MissesBounded' /\ GoneWhenDone'
  BY <1>1 DEF TypeInv, MissesBounded, GoneWhenDone
<1>5. Quiet
  BY <1>1, <1>2 DEF Quiet, KeptOrCrashed
<1>6. HandleJoins'
  BY DEF HandleJoins, Shutdown, Join, TypeInv, TypeOK
<1>7. QED
  BY <1>2, <1>3, <1>4, <1>5, <1>6 DEF QuietStep, TypeInv, InboxQuiet

-----------------------------------------------------------------------------
(* The steps that serve, answer and deliver                                    *)

CallsInOrder == \A c \in Calls : CallHistory(c) /\ Registered(c)

LEMMA ReadRequestKeeps ==
  ASSUME WorkerInv, ReadRequest
  PROVE  TypeInv' /\ CallsInOrder' /\ child = "up"
<1> USE DEF WorkerInv
<1> DEFINE id == Head(inbox)
<1>1. /\ inbox \in Seq(Ids) /\ CallsOnce(inbox) /\ inbox # <<>> /\ inbox' = Tail(inbox)
      /\ child = "up"
      /\ UNCHANGED <<sharedVars, stdinVars, monitorVars, callVars, stopVars, sent>>
  BY DEF ReadRequest, TypeInv, TypeOK
<1>2. /\ inbox' \in Seq(Ids) /\ Shrinks(inbox, inbox')
      /\ id \in Ids /\ id = inbox[1] /\ 1 \in 1..Len(inbox)
      /\ id \in Calls => \A j \in 1..Len(inbox') : inbox'[j] # id
  BY <1>1, TailShrinks
<1>3. InboxQuiet
  BY <1>2, ShrinkIsQuiet
<1>4. \/ /\ id \notin Calls /\ replies' = replies \cup {<<id, "result">>}
         /\ child' \in {"up", "leaving"} /\ UNCHANGED <<running, inFlight, ran>>
      \/ /\ id \in Calls /\ replies' = replies \cup {<<id, "refused">>}
         /\ UNCHANGED <<child, running, inFlight, ran>>
      \/ /\ id \in Calls /\ running' = running \cup {id} /\ inFlight' = inFlight \cup {id}
         /\ ran' = ran \cup {id} /\ UNCHANGED <<child, replies>>
  BY <1>1 DEF ReadRequest
<1> HIDE DEF id
<1>5. TypeInv'
  <2>1. /\ child' \in {"none", "up", "hung", "leaving", "exited"}
        /\ running' \subseteq inFlight' /\ inFlight' \subseteq Calls /\ ran' \subseteq Calls
    BY <1>1, <1>4 DEF TypeInv, TypeOK
  <2>2. replies' \subseteq Ids \X {"result", "refused"}
    BY <1>2, <1>4 DEF TypeInv, TypeOK
  <2>3. TypeOK'
    BY <1>1, <1>3, <2>1, <2>2 DEF TypeInv, TypeOK, InboxQuiet
  <2>4. QED
    BY <1>1, <1>3, <2>3 DEF TypeInv, InboxQuiet, MissesBounded
<1>6. ASSUME NEW c \in Calls
      PROVE  CallHistory(c)' /\ Registered(c)'
  <2>1. CASE c # id
    <3>1. QuietFor(c)
      BY <1>1, <1>3, <1>4, <2>1 DEF QuietFor, InboxQuiet, KeptOrCrashed
    <3>2. QED
      BY <3>1, QuietKeepsCalls
  <2>2. CASE c = id
    <3>1. Unread(c) /\ ~Unread(c)' /\ CallHistory(c)
      BY <1>2, <2>2 DEF Unread
    <3>2. /\ c \notin ran /\ ~Replied(c) /\ caller[c] \notin Early
          /\ mail[c] \in {None, "crashed"} /\ told[c] \in {None, "crashed", "timeout"}
          /\ caller[c] = "receive" => told[c] = None
          /\ c \in running => c \in ran
      BY <3>1 DEF CallHistory
    <3>3. UNCHANGED <<caller, told, mail, pending, sent>>
      BY <1>1
    <3>4. Registered(c)'
      BY <3>3 DEF Registered
    <3>5. mail[c] \notin {"result", "refused"} /\ told[c] \notin {"result", "refused", "notRunning"}
      BY <3>2, NoneAssumption DEF Answers, Results
    <3>6. CASE replies' = replies \cup {<<c, "refused">>} /\ UNCHANGED <<running, ran>>
      <4>1. c \notin ran' /\ c \notin running' /\ <<c, "result">> \notin replies'
        BY <3>2, <3>6 DEF Replied
      <4>2. QED
        BY <3>1, <3>2, <3>3, <3>4, <3>5, <4>1 DEF CallHistory
    <3>7. CASE running' = running \cup {c} /\ ran' = ran \cup {c} /\ UNCHANGED replies
      <4>1. c \in ran' /\ <<c, "refused">> \notin replies'
        BY <3>2, <3>7 DEF Replied
      <4>2. QED
        BY <3>1, <3>2, <3>3, <3>4, <3>5, <4>1 DEF CallHistory
    <3>8. CallHistory(c)'
      BY <1>4, <2>2, <3>6, <3>7
    <3>9. QED
      BY <3>4, <3>8
  <2>3. QED
    BY <2>1, <2>2
<1>7. QED
  BY <1>1, <1>5, <1>6 DEF CallsInOrder

LEMMA AnswerKeeps ==
  ASSUME WorkerInv, NEW d \in Calls, Answer(d)
  PROVE  TypeInv' /\ CallsInOrder'
<1> USE DEF WorkerInv
<1>1. /\ d \in running /\ running' = running \ {d} /\ replies' = replies \cup {<<d, "result">>}
      /\ UNCHANGED <<sharedVars, stdinVars, monitorVars, child, inbox, inFlight, callVars,
                     stopVars, histVars>>
  BY DEF Answer
<1>2. InboxQuiet
  BY <1>1, SameIsQuiet
<1>3. TypeOK' /\ MissesBounded'
  BY <1>1, <1>2 DEF TypeInv, TypeOK, InboxQuiet, MissesBounded, Ids
<1>4. ASSUME NEW c \in Calls
      PROVE  CallHistory(c)' /\ Registered(c)'
  <2>1. CASE c # d
    <3>1. QuietFor(c)
      BY <1>1, <1>2, <2>1 DEF QuietFor, InboxQuiet, KeptOrCrashed
    <3>2. QED
      BY <3>1, QuietKeepsCalls
  <2>2. CASE c = d
    <3>1. CallHistory(c) /\ c \in ran /\ ~Unread(c) /\ caller[c] \notin Early
      BY <1>1, <2>2 DEF CallHistory
    <3>2. ~Unread(c)'
      BY <1>2, <3>1 DEF InboxQuiet
    <3>3. UNCHANGED <<caller, told, mail, pending, sent, ran>>
      BY <1>1
    <3>4. Registered(c)'
      BY <3>3 DEF Registered
    <3>5. CallHistory(c)'
      BY <1>1, <2>2, <3>1, <3>2, <3>3 DEF CallHistory
    <3>6. QED
      BY <3>4, <3>5
  <2>3. QED
    BY <2>1, <2>2
<1>5. QED
  BY <1>2, <1>3, <1>4 DEF CallsInOrder, TypeInv, InboxQuiet

LEMMA DeliverKeeps ==
  ASSUME WorkerInv, Deliver
  PROVE  TypeInv' /\ CallsInOrder'
<1> USE DEF WorkerInv
<1>1. PICK r \in replies :
        /\ replies' = replies \ {r} /\ pending' = pending \ {r[1]}
        /\ mail' = IF r[1] \in pending THEN [mail EXCEPT ![r[1]] = r[2]] ELSE mail
        /\ UNCHANGED <<state, shuttingDown, stdinVars, monitorVars, child, inbox, running,
                       inFlight, callVars, stopVars, histVars>>
  BY DEF Deliver
<1>2. InboxQuiet
  BY <1>1, SameIsQuiet
<1>3. PICK id \in Ids, a \in {"result", "refused"} : r = <<id, a>>
  BY DEF TypeInv, TypeOK
<1>4. mail \in [Ids -> Results \cup {None}] /\ mail' \in [Ids -> Results \cup {None}]
      /\ replies' \subseteq replies
  BY <1>1, <1>3 DEF TypeInv, TypeOK, Results
<1>5. TypeOK' /\ MissesBounded'
  BY <1>1, <1>2, <1>4 DEF TypeInv, TypeOK, InboxQuiet, MissesBounded
<1>6. ASSUME NEW c \in Calls
      PROVE  CallHistory(c)' /\ Registered(c)'
  <2>1. CASE c # id
    <3>1. mail'[c] = mail[c] /\ (c \in pending => c \in pending')
      BY <1>1, <1>3, <1>4, <2>1 DEF Ids
    <3>2. QuietFor(c)
      BY <1>1, <1>2, <1>4, <3>1 DEF QuietFor, InboxQuiet, KeptOrCrashed
    <3>3. QED
      BY <3>2, QuietKeepsCalls
  <2>2. CASE c = id
    <3>1. CallHistory(c) /\ Registered(c) /\ Replied(c) /\ ~Unread(c) /\ caller[c] \notin Early
      BY <1>1, <1>3, <2>2 DEF CallHistory, Replied
    <3>2. ~Unread(c)'
      BY <1>2, <3>1 DEF InboxQuiet
    <3>3. UNCHANGED <<caller, told, sent, ran, running>>
      BY <1>1
    <3>4. \/ c \in pending /\ mail'[c] = a
          \/ c \notin pending /\ c \notin pending' /\ mail'[c] = mail[c]
      BY <1>1, <1>3, <1>4, <2>2 DEF Ids
    <3>5. Registered(c)'
      BY <3>1, <3>3, <3>4, NoneIsNoAnswer DEF Registered
    <3>6. a = "result" => c \in ran
      BY <1>1, <1>3, <2>2, <3>1 DEF CallHistory
    <3>7. a = "refused" => c \notin ran
      BY <1>1, <1>3, <2>2, <3>1 DEF CallHistory
    <3>8. CallHistory(c)'
      BY <1>1, <3>1, <3>2, <3>3, <3>4, <3>6, <3>7 DEF CallHistory
    <3>9. QED
      BY <3>5, <3>8
  <2>3. QED
    BY <2>1, <2>2
<1>7. QED
  BY <1>2, <1>5, <1>6 DEF CallsInOrder, TypeInv, InboxQuiet

-----------------------------------------------------------------------------
(* The steps of a caller                                                        *)

\* What a caller's step may touch.
CallerFrame(d) ==
  /\ UNCHANGED <<state, shuttingDown, mail, open, monitorVars, child, running, inFlight,
                 replies, stopVars, ran>>
  /\ \E next \in CallerSteps : caller' = [caller EXCEPT ![d] = next]
  /\ UNCHANGED told \/ \E a \in Answers : told' = [told EXCEPT ![d] = a]
  /\ pending' \in {pending, pending \cup {d}, pending \ {d}}
  /\ sent' \in {sent, sent \cup {d}}
  /\ writer' \in BigCalls \cup {None}
  /\ UNCHANGED inbox \/ (inbox' = Append(inbox, d) /\ caller[d] \in {"write", "writing"})

LEMMA CallerStepFrame ==
  ASSUME WorkerInv, NEW d \in Calls, Call(d) \/ Caller(d)
  PROVE  CallerFrame(d)
<1> USE DEF CallerFrame, At, TellCaller
<1>1. writer \in BigCalls \cup {None} /\ mail[d] \in Results \cup {None}
      /\ Results \subseteq Answers /\ {"notRunning", "timeout"} \subseteq Answers
      /\ {"refused", "crashed"} \subseteq Answers
  BY DEF WorkerInv, TypeInv, TypeOK, Ids, Answers, Results
<1>2. CASE Call(d)
  BY <1>1, <1>2 DEF Call, CallerSteps
<1>3. CASE Admitted(d) \/ NotAdmitted(d)
  BY <1>1, <1>3 DEF Admitted, NotAdmitted, CallerSteps
<1>4. CASE Insert(d)
  BY <1>1, <1>4 DEF Insert, CallerSteps
<1>5. CASE NotWritten(d)
  BY <1>1, <1>5 DEF NotWritten, CallerSteps
<1>6. CASE caller[d] \in {"write", "writing"} /\ Written(d)
  BY <1>1, <1>6 DEF Written, CallerSteps
<1>7. CASE d \in BigCalls /\ BeginWriting(d)
  BY <1>1, <1>7 DEF BeginWriting, CallerSteps
<1>8. CASE Receive(d)
  BY <1>1, <1>8 DEF Receive, CallerSteps
<1>9. CASE Timeout(d)
  BY <1>1, <1>9 DEF Timeout, CallerSteps
<1>10. QED
  BY <1>2, <1>3, <1>4, <1>5, <1>6, <1>7, <1>8, <1>9 DEF Caller, Write, FinishWriting

LEMMA CallerTyped ==
  ASSUME WorkerInv, NEW d \in Calls, CallerFrame(d)
  PROVE  /\ TypeInv'
         /\ \A c \in Calls : Unread(c)' => Unread(c) \/ c = d
<1> USE DEF WorkerInv
<1>1. inbox \in Seq(Ids) /\ CallsOnce(inbox) /\ d \in Ids
  BY DEF TypeInv, TypeOK, Ids
<1>2. /\ inbox' \in Seq(Ids) /\ CallsOnce(inbox')
      /\ \A c \in Calls : Unread(c)' => Unread(c) \/ c = d
  <2>1. CASE UNCHANGED inbox
    BY <1>1, <2>1 DEF Unread
  <2>2. CASE inbox' = Append(inbox, d) /\ caller[d] \in {"write", "writing"}
    <3>1. ~Unread(d)
      BY <2>2 DEF CallHistory, Early
    <3>2. \A i \in 1..Len(inbox) : inbox[i] # d
      BY <3>1 DEF Unread
    <3>3. /\ inbox' \in Seq(Ids) /\ CallsOnce(inbox')
          /\ \A j \in 1..Len(inbox') : inbox'[j] = d \/ \E i \in 1..Len(inbox) : inbox'[j] = inbox[i]
      BY <1>1, <2>2, <3>2, AppendKeeps
    <3>4. QED
      BY <3>3 DEF Unread
  <2>3. QED
    BY <2>1, <2>2 DEF CallerFrame
<1>3. /\ UNCHANGED <<state, shuttingDown, mail, open, monitorVars, child, running, inFlight,
                     replies, stopVars, ran>>
  BY DEF CallerFrame
<1>4. caller' \in [Calls -> CallerSteps] /\ told' \in [Calls -> Answers \cup {None}]
  BY DEF CallerFrame, TypeInv, TypeOK
<1>5. pending' \subseteq Ids /\ sent' \subseteq Calls /\ writer' \in BigCalls \cup {None}
  BY <1>1 DEF CallerFrame, TypeInv, TypeOK
<1>6. TypeOK'
  BY <1>2, <1>3, <1>4, <1>5 DEF TypeInv, TypeOK
<1>7. MissesBounded'
  BY <1>3 DEF TypeInv, MissesBounded
<1>8. QED
  BY <1>2, <1>6, <1>7 DEF TypeInv

LEMMA OtherCalls ==
  ASSUME WorkerInv, NEW d \in Calls, CallerFrame(d), NEW c \in Calls, c # d
  PROVE  CallHistory(c)' /\ Registered(c)'
<1>1. Unread(c)' => Unread(c)
  BY CallerTyped
<1>2. caller'[c] = caller[c] /\ told'[c] = told[c] /\ KeptOrCrashed(c)
  BY DEF CallerFrame, KeptOrCrashed, WorkerInv, TypeInv, TypeOK
<1>3. QuietFor(c)
  BY <1>1, <1>2 DEF CallerFrame, QuietFor
<1>4. QED
  BY <1>3, QuietKeepsCalls DEF WorkerInv

\* The history of the call whose caller takes the step.
LEMMA OwnCall ==
  ASSUME WorkerInv, NEW d \in Calls, Call(d) \/ Caller(d)
  PROVE  CallHistory(d)' /\ Registered(d)'
<1> USE DEF At, TellCaller, Early
<1>1. /\ CallerFrame(d)
      /\ UNCHANGED <<mail, replies, running, ran>>
      /\ UNCHANGED inbox => (Unread(d)' <=> Unread(d))
      /\ Replied(d)' <=> Replied(d)
  BY CallerStepFrame DEF CallerFrame, Unread, Replied
<1>2. /\ CallHistory(d) /\ Registered(d)
      /\ caller \in [Calls -> CallerSteps] /\ told \in [Calls -> Answers \cup {None}]
  BY DEF WorkerInv, TypeInv, TypeOK
<1>3. None \notin {"result", "refused", "crashed", "notRunning", "timeout"}
  BY NoneAssumption DEF Answers, Results
<1>4. CASE Call(d)
  <2>1. caller[d] = "idle" /\ caller'[d] = "wait" /\ UNCHANGED <<told, inbox>>
    BY <1>2, <1>4 DEF Call
  <2>2. QED
    BY <1>1, <1>2, <2>1 DEF CallHistory, Registered
<1>5. CASE Admitted(d) \/ NotAdmitted(d)
  <2>1. /\ caller[d] = "wait" /\ UNCHANGED inbox
        /\ \/ caller'[d] = "insert" /\ UNCHANGED told
           \/ caller'[d] = "done" /\ told'[d] \in {"refused", "notRunning"}
    BY <1>2, <1>5 DEF Admitted, NotAdmitted
  <2>2. Registered(d)'
    BY <2>1 DEF Registered
  <2>3. CallHistory(d)'
    BY <1>1, <1>2, <1>3, <2>1 DEF CallHistory
  <2>4. QED
    BY <2>2, <2>3
<1>6. CASE Insert(d)
  <2>1. /\ caller[d] = "insert" /\ caller'[d] = "write" /\ UNCHANGED <<told, inbox>>
        /\ d \in pending'
    BY <1>2, <1>6 DEF Insert
  <2>2. QED
    BY <1>1, <1>2, <2>1 DEF CallHistory, Registered
<1>7. CASE caller[d] \in {"write", "writing"} /\ NotWritten(d)
  <2>1. /\ caller'[d] = "done" /\ told'[d] = "crashed" /\ UNCHANGED inbox
    BY <1>2, <1>7 DEF NotWritten
  <2>2. Registered(d)'
    BY <2>1 DEF Registered
  <2>3. CallHistory(d)'
    BY <1>1, <1>2, <1>3, <1>7, <2>1 DEF CallHistory
  <2>4. QED
    BY <2>2, <2>3
<1>8. CASE caller[d] \in {"write", "writing"} /\ Written(d)
  <2>1. /\ caller'[d] = "receive" /\ UNCHANGED <<told, pending>> /\ d \in sent'
    BY <1>2, <1>8 DEF Written
  <2>2. Registered(d)'
    BY <1>1, <1>2, <1>8, <2>1 DEF Registered
  <2>3. CallHistory(d)'
    BY <1>1, <1>2, <1>3, <1>8, <2>1 DEF CallHistory
  <2>4. QED
    BY <2>2, <2>3
<1>9. CASE caller[d] = "write" /\ BeginWriting(d)
  <2>1. /\ caller'[d] = "writing" /\ UNCHANGED <<told, inbox, pending>>
    BY <1>2, <1>9 DEF BeginWriting
  <2>2. QED
    BY <1>1, <1>2, <1>9, <2>1 DEF CallHistory, Registered
<1>10. CASE Receive(d)
  <2>1. /\ caller[d] = "receive" /\ caller'[d] = "done" /\ UNCHANGED inbox
        /\ mail[d] # None /\ told'[d] = mail[d]
    BY <1>2, <1>10 DEF Receive
  <2>2. Registered(d)'
    BY <2>1 DEF Registered
  <2>3. mail[d] # "notRunning"
    BY <2>1 DEF WorkerInv, TypeInv, TypeOK, Ids, Results
  <2>4. CallHistory(d)'
    BY <1>1, <1>2, <1>3, <2>1, <2>3 DEF CallHistory
  <2>5. QED
    BY <2>2, <2>4
<1>11. CASE Timeout(d)
  <2>1. /\ caller[d] = "receive" /\ caller'[d] = "done" /\ told'[d] = "timeout"
        /\ UNCHANGED inbox
    BY <1>2, <1>11 DEF Timeout
  <2>2. Registered(d)'
    BY <2>1 DEF Registered
  <2>3. CallHistory(d)'
    BY <1>1, <1>2, <1>3, <2>1 DEF CallHistory
  <2>4. QED
    BY <2>2, <2>3
<1>12. QED
  BY <1>4, <1>5, <1>6, <1>7, <1>8, <1>9, <1>10, <1>11 DEF Caller, Write, FinishWriting

-----------------------------------------------------------------------------
(* The invariant holds                                                          *)

LEMMA InvInit ==
  ASSUME Init
  PROVE  WorkerInv
<1> USE DEF Init
<1>1. TypeOK
  <2>1. inbox \in Seq(Ids)
    BY EmptySeq
  <2>2. /\ mail \in [Ids -> Results \cup {None}] /\ caller \in [Calls -> CallerSteps]
        /\ told \in [Calls -> Answers \cup {None}]
        /\ stopper \in [Stoppers -> {"idle", "join", "returned"}]
    BY DEF CallerSteps
  <2>3. misses \in 0..MaxMisses /\ recent \in 0..MaxRestarts
    BY PolicyAssumption
  <2>4. state \in States /\ monitor \in MonitorSteps
    BY DEF States, MonitorSteps
  <2>5. QED
    BY <2>1, <2>2, <2>3, <2>4 DEF TypeOK
<1>2. inbox = <<>> /\ Len(inbox) = 0
  BY EmptySeq
<1>3. CallsOnce(inbox) /\ \A c \in Calls : ~Unread(c)
  BY <1>2 DEF CallsOnce, Unread
<1>4. MissesBounded /\ GoneWhenDone /\ HandleJoins
  BY DEF MissesBounded, GoneWhenDone, HandleJoins
<1>5. ASSUME NEW c \in Calls
      PROVE  CallHistory(c) /\ Registered(c)
  <2>1. caller[c] = "idle" /\ told[c] = None /\ mail[c] = None
    BY DEF Ids
  <2>2. None \notin {"result", "refused", "crashed", "notRunning", "timeout"}
    BY NoneAssumption DEF Answers, Results
  <2>3. QED
    BY <1>3, <2>1, <2>2 DEF CallHistory, Registered, Replied
<1>6. QED
  BY <1>1, <1>3, <1>4, <1>5 DEF WorkerInv, TypeInv

LEMMA InvNext ==
  ASSUME WorkerInv, Next
  PROVE  WorkerInv'
<1>1. CASE Monitor
  <2>1. QuietStep /\ HandleJoins'
    BY <1>1, MonitorQuiet DEF WorkerInv, HandleJoins
  <2>2. QED
    BY <2>1, QuietForAll, QuietKeepsCalls DEF WorkerInv, QuietStep
<1>2. CASE Exit \/ Hang \/ \E c \in Calls : GiveBack(c)
  <2>1. QuietStep /\ HandleJoins'
    BY <1>2, ProcessQuiet DEF WorkerInv, HandleJoins
  <2>2. QED
    BY <2>1, QuietForAll, QuietKeepsCalls DEF WorkerInv, QuietStep
<1>3. CASE \E s \in Stoppers : Shutdown(s) \/ Join(s)
  <2>1. QuietStep /\ HandleJoins'
    BY <1>3, StopQuiet
  <2>2. QED
    BY <2>1, QuietForAll, QuietKeepsCalls DEF WorkerInv, QuietStep
<1>4. CASE ReadRequest
  <2>1. TypeInv' /\ CallsInOrder' /\ child = "up"
    BY <1>4, ReadRequestKeeps
  <2>2. HandleJoins' /\ GoneWhenDone'
    BY <1>4, <2>1 DEF ReadRequest, WorkerInv, HandleJoins, GoneWhenDone
  <2>3. QED
    BY <2>1, <2>2 DEF WorkerInv, CallsInOrder
<1>5. CASE Deliver \/ \E c \in Calls : Answer(c)
  <2>1. TypeInv' /\ CallsInOrder'
    BY <1>5, DeliverKeeps, AnswerKeeps
  <2>2. HandleJoins' /\ GoneWhenDone'
    BY <1>5 DEF Deliver, Answer, WorkerInv, HandleJoins, GoneWhenDone
  <2>3. QED
    BY <2>1, <2>2 DEF WorkerInv, CallsInOrder
<1>6. CASE \E c \in Calls : Call(c) \/ Caller(c)
  <2>1. PICK d \in Calls : Call(d) \/ Caller(d)
    BY <1>6
  <2>2. CallerFrame(d)
    BY <2>1, CallerStepFrame
  <2>3. TypeInv'
    BY <2>2, CallerTyped
  <2>4. \A c \in Calls : CallHistory(c)' /\ Registered(c)'
    BY <2>1, <2>2, OwnCall, OtherCalls
  <2>5. HandleJoins' /\ GoneWhenDone'
    BY <2>2 DEF CallerFrame, WorkerInv, HandleJoins, GoneWhenDone
  <2>6. QED
    BY <2>3, <2>4, <2>5 DEF WorkerInv
<1>7. QED
  BY <1>1, <1>2, <1>3, <1>4, <1>5, <1>6 DEF Next, Child

LEMMA InvStutter ==
  ASSUME WorkerInv, UNCHANGED vars
  PROVE  WorkerInv'
BY DEF WorkerInv, TypeInv, TypeOK, MissesBounded, CallHistory, Registered, GoneWhenDone,
       HandleJoins, Unread, Replied, vars

\* The inductive invariant of the worker, its monitor and its callers.
THEOREM WorkerInvariant == Spec => []WorkerInv
<1>1. WorkerInv /\ [Next]_vars => WorkerInv'
  BY InvNext, InvStutter
<1>2. QED
  BY InvInit, <1>1, PTL DEF Spec

-----------------------------------------------------------------------------
(* Results                                                                      *)

\* The types declared above hold of every state.
THEOREM TypeCorrect == Spec => []TypeOK
<1>1. WorkerInv => TypeOK
  BY DEF WorkerInv, TypeInv
<1>2. QED
  BY <1>1, WorkerInvariant, PTL

\* A caller that waits is registered and its request is with the present child,
\* or its answer is on the way (Inner::request and fail_pending).
THEOREM CallsAreNotStranded == Spec => []NoCallStranded
<1>1. WorkerInv => NoCallStranded
  BY DEF WorkerInv, Registered, NoCallStranded
<1>2. QED
  BY <1>1, WorkerInvariant, PTL

\* One call is refused, answered and run in the order WorkerPromise allows.
LEMMA InitPromises ==
  ASSUME Init
  PROVE  Promise!Init
BY DEF Init, Promise!Init

LEMMA TellIsPromised ==
  ASSUME WorkerInv, NEW d \in Calls, NEW a \in Answers, told[d] = None, UNCHANGED ran,
         told' = [told EXCEPT ![d] = a],
         a = "result" => d \in ran, a \in {"refused", "notRunning"} => d \notin ran
  PROVE  Promise!Next
<1>1. told \in [Calls -> Answers \cup {None}] /\ a # None /\ a # "none"
  BY NoneAssumption DEF WorkerInv, TypeInv, TypeOK, Answers, Results
<1> DEFINE shown == [c \in Calls |-> IF told[c] = None THEN "none" ELSE told[c]]
<1>2. shown[d] = "none"
  OBVIOUS
<1>3. shown' = [shown EXCEPT ![d] = a]
  BY <1>1
<1> HIDE DEF shown
<1>4. Promise!Tell(d, a)
  BY <1>2, <1>3 DEF Promise!Tell, Promise!NotRun, shown
<1>5. a \in Promise!Answers \ {"none"}
  BY <1>1 DEF Answers, Results, Promise!Answers
<1>6. QED
  BY <1>4, <1>5 DEF Promise!Next

\* A step of a caller tells it nothing or what its call has come to.
LEMMA CallerPromises ==
  ASSUME WorkerInv, NEW d \in Calls, Call(d) \/ Caller(d)
  PROVE  UNCHANGED <<ran, told>> \/ Promise!Next
<1> USE DEF At, TellCaller
<1>1. UNCHANGED ran /\ CallHistory(d)
  BY CallerStepFrame DEF CallerFrame, WorkerInv
<1>2. {"refused", "notRunning", "crashed", "timeout"} \subseteq Answers /\ Results \subseteq Answers
  BY DEF Answers, Results
<1>3. CASE UNCHANGED told
  BY <1>1, <1>3
<1>4. CASE /\ caller[d] \in {"wait", "write", "writing", "receive"}
           /\ \E a \in {"refused", "notRunning", "crashed", "timeout"} :
                 told' = [told EXCEPT ![d] = a]
           /\ caller[d] = "wait" \/ told' \in {[told EXCEPT ![d] = a] : a \in {"crashed", "timeout"}}
  <2>1. told[d] = None /\ (caller[d] = "wait" => d \notin ran)
    BY <1>1, <1>4 DEF CallHistory, Early
  <2>2. PICK a \in {"refused", "notRunning", "crashed", "timeout"} :
          told' = [told EXCEPT ![d] = a] /\ (caller[d] = "wait" \/ a \in {"crashed", "timeout"})
    BY <1>4
  <2>3. a = "result" => d \in ran
    BY <2>2
  <2>4. a \in {"refused", "notRunning"} => d \notin ran
    BY <2>1, <2>2
  <2>5. QED
    BY <1>1, <1>2, <2>1, <2>2, <2>3, <2>4, TellIsPromised
<1>5. CASE Receive(d)
  <2>1. /\ told[d] = None /\ mail[d] \in Results /\ told' = [told EXCEPT ![d] = mail[d]]
        /\ mail[d] = "result" => d \in ran
        /\ mail[d] = "refused" => d \notin ran
        /\ mail[d] # "notRunning"
    BY <1>1, <1>5 DEF Receive, CallHistory, WorkerInv, TypeInv, TypeOK, Ids, Results
  <2>2. QED
    BY <1>1, <1>2, <2>1, TellIsPromised
<1>6. CASE Call(d) \/ Insert(d) \/ Written(d) \/ BeginWriting(d)
  BY <1>3, <1>6 DEF Call, Insert, Written, BeginWriting
<1>7. CASE Admitted(d) \/ NotAdmitted(d)
  BY <1>3, <1>4, <1>7 DEF Admitted, NotAdmitted
<1>8. CASE caller[d] \in {"write", "writing"} /\ NotWritten(d)
  BY <1>4, <1>8 DEF NotWritten
<1>9. CASE Timeout(d)
  BY <1>4, <1>9 DEF Timeout
<1>10. QED
  BY <1>5, <1>6, <1>7, <1>8, <1>9 DEF Caller, Write, FinishWriting

\* A handler is started for a call that has not run and that no caller was
\* told the outcome of.
LEMMA ReadPromises ==
  ASSUME WorkerInv, ReadRequest
  PROVE  UNCHANGED <<ran, told>> \/ Promise!Next
<1> DEFINE id == Head(inbox)
           shown == [c \in Calls |-> IF told[c] = None THEN "none" ELSE told[c]]
<1>1. UNCHANGED told /\ (UNCHANGED ran \/ (id \in Calls /\ ran' = ran \cup {id}))
  BY DEF ReadRequest
<1>2. id = inbox[1] /\ 1 \in 1..Len(inbox)
  BY TailShrinks DEF ReadRequest, WorkerInv, TypeInv, TypeOK
<1> HIDE DEF id
<1>3. CASE id \in Calls /\ ran' = ran \cup {id}
  <2>1. Unread(id) /\ CallHistory(id)
    BY <1>2, <1>3 DEF Unread, WorkerInv
  <2>2. id \notin ran /\ told[id] \in {None, "crashed", "timeout"}
    BY <2>1 DEF CallHistory
  <2>3. shown[id] \in {"none", "crashed", "timeout"} /\ shown' = shown
    BY <1>1, <1>3, <2>2
  <2> HIDE DEF shown
  <2>4. Promise!Run(id)
    BY <1>3, <2>2, <2>3 DEF Promise!Run, Promise!NotRun, shown
  <2>5. QED
    BY <1>3, <2>4 DEF Promise!Next
<1>4. QED
  BY <1>1, <1>3

LEMMA StepPromises ==
  ASSUME WorkerInv, [Next]_vars
  PROVE  UNCHANGED <<ran, told>> \/ Promise!Next
<1>1. CASE Monitor
  BY <1>1, MonitorQuiet DEF QuietStep, Quiet
<1>2. CASE Child \/ Deliver
  <2>1. CASE ReadRequest
    BY <2>1, ReadPromises
  <2>2. CASE Exit \/ Hang \/ \E c \in Calls : Answer(c) \/ GiveBack(c)
    BY <2>2 DEF Exit, Hang, Answer, GiveBack
  <2>3. CASE Deliver
    BY <2>3 DEF Deliver
  <2>4. QED
    BY <1>2, <2>1, <2>2, <2>3 DEF Child
<1>3. CASE \E c \in Calls : Call(c) \/ Caller(c)
  BY <1>3, CallerPromises
<1>4. CASE \E s \in Stoppers : Shutdown(s) \/ Join(s)
  BY <1>4 DEF Shutdown, Join
<1>5. CASE UNCHANGED vars
  BY <1>5 DEF vars
<1>6. QED
  BY <1>1, <1>2, <1>3, <1>4, <1>5 DEF Next

\* WorkerSupervisor implements WorkerPromise: whatever the process, the monitor
\* and the pipes do, a call runs at most once, is answered at most once, has run
\* if it is told a result, and never runs if it is told that it was refused or
\* that no worker was running (Worker::call).
THEOREM CallersAreNotMisled == Spec => KeepsPromise
<1> DEFINE shown == [c \in Calls |-> IF told[c] = None THEN "none" ELSE told[c]]
<1>1. Init => Promise!Init
  BY InitPromises
<1>2. WorkerInv /\ [Next]_vars => [Promise!Next]_<<ran, shown>>
  BY StepPromises
<1>3. QED
  BY <1>1, <1>2, WorkerInvariant, PTL DEF Spec, KeepsPromise, Promise!Spec

\* Once the join handle has been taken and no thread waits in join any more, the
\* supervisor has finished and the process is reaped, however many threads called
\* shutdown (Worker::shutdown).
ShutDown == ~handle /\ (\A s \in Stoppers : stopper[s] # "join")
              => monitor = "done" /\ child = "none"

THEOREM JoinedMeansGone == Spec => []ShutDown
<1>1. WorkerInv => ShutDown
  BY DEF WorkerInv, HandleJoins, GoneWhenDone, ShutDown
<1>2. QED
  BY <1>1, WorkerInvariant, PTL

\* With one thread that shuts down, its return means just that. A second thread
\* finds the handle gone and returns at once: the property is false of two.
THEOREM ShutdownIsWaitedFor ==
  ASSUME \A s, t \in Stoppers : s = t
  PROVE  Spec => []ShutdownWaits
<1>1. WorkerInv => ShutdownWaits
  BY DEF WorkerInv, HandleJoins, GoneWhenDone, ShutdownWaits
<1>2. QED
  BY <1>1, WorkerInvariant, PTL

=============================================================================
