---------------------------- MODULE AgentSession ----------------------------
(***************************************************************************)
(* One agent session of the sidecar: the loop of agent-loop (lib.rs) on its   *)
(* turn thread, the session's shared state (agent-sidecar sessions.rs), the   *)
(* member's approval cards (action_approvals.rs, shell_run.rs) and the routes  *)
(* that reach them from outside (lib.rs): tool_results, the decisions on a     *)
(* card, taint_clear, stop and close.                                          *)
(*                                                                         *)
(* A turn, or one attempt of a workflow step, asks the model, runs the calls   *)
(* of its reply one after the other and asks again. A call goes to citrate-   *)
(* core, which is told of it by an event and posts the result, or to a tool    *)
(* of the sidecar. Once untrusted content is in the context, a call with an    *)
(* effect needs the member's explicit approval: core asks for its own calls    *)
(* (announced with hic), a card asks for the sidecar's.                        *)
(*                                                                         *)
(* Abstracted: texts (a message is who said it), the tool's own work, the      *)
(* event log except the tool_call events core acts on, the token counts (any   *)
(* budget is possible), and refused posts and decisions, which change nothing. *)
(* A card is named by its call: a call asks once. The queue of cards never     *)
(* fills, since the one turn thread waits for one card at a time.              *)
(***************************************************************************)
EXTENDS Integers, Sequences, FiniteSets

CONSTANTS
  CoreTools,     \* tools that citrate-core runs
  FileTools,     \* sidecar tools that ask on an action card after taint (fs_write, ...)
  ShellTools,    \* sidecar tools with a card of their own (shell_run)
  NoTools,       \* names a model makes up, and calls whose arguments are not JSON
  Effectful,     \* the tools not annotated effect: none
  Untrusted,     \* the tools not annotated trust: trusted
  Guarded,       \* the tools the deploy guard may decline
  Goals,         \* per workflow step, the tool its verifier wants to see succeed
  MaxAttempts,   \* Step::max_attempts
  MaxSteps, MaxCallsPerStep,   \* LoopConfig
  OwnIds,        \* the provider names each call; otherwise its index in the reply does
  \* Bounds: calls in a reply and in all, tasks of a session, decisions on its cards.
  MaxReply, MaxCalls, MaxTasks, MaxDecisions,
  None

\* The requests that decide on a card, in the order they arrive.
Deciders == 1..MaxDecisions

Names == CoreTools \cup FileTools \cup ShellTools \cup NoTools

ASSUME BoundAssumption ==
  /\ MaxSteps \in Nat \ {0} /\ MaxAttempts \in 1..5 /\ MaxCallsPerStep \in 1..16
  /\ MaxReply \in Nat /\ MaxCalls \in Nat /\ MaxTasks \in Nat /\ MaxDecisions \in Nat
ASSUME ProviderAssumption == OwnIds \in BOOLEAN
ASSUME GoalsAssumption == Goals \in Seq(Names)

\* What core may post, what a call may come to; cards, posts and attempts.
Posted   == {"ok", "untrusted", "denied", "error"}
Outcomes == Posted \cup {"vouched", "refusal"}
Cards    == [n : 1..MaxCalls, answer : {None, "allow", "deny"}]
Posts    == [n : 1..MaxCalls, outcome : Posted]
Target   == [step : 1..Len(Goals), attempt : 1..MaxAttempts + 1, start : Nat]

ASSUME NoneAssumption ==
  None \notin Names \cup Outcomes \cup {"Approved", "Completed", "Denied", "Failed", "allow", "deny"}
ASSUME RecordAssumption == None \notin Cards /\ None \notin Posts /\ None \notin Target

VARIABLES
  hicAware,   \* the client promised to show cards (CreateSessionReq)
  pc,         \* where the turn thread is
  step,       \* the loop's step
  todo,       \* the calls of the reply still to run
  cur,        \* the call in hand, and whether it needs a person
  outcome,    \* what it came to
  history,    \* the transcript
  issued,     \* how many calls the model has made
  goal,       \* the workflow attempt that the turn is part of, or None
  verdict,    \* how the last workflow ended
  tasks,      \* turns taken on, for messages and workflows
  stopped,    \* the StopFlag
  sources,    \* the taint: the tools that brought untrusted content in
  exposed,    \* history: untrusted content has come in since the last clear
  pending,    \* the calls registered as waiting for core
  mail,       \* the result in the channel of the call in hand
  heard,      \* the calls core has read the tool_call event of and not answered
  card,       \* the card that waits for the member
  obeyed,     \* history: the cards whose allow released their call
  decider,    \* the decision requests, each with its entry in the decision log
  clearing    \* the sources a taint_clear request has read, or None

loopVars  == <<pc, step, todo, cur, outcome, history, issued>>
taskVars  == <<goal, verdict, tasks>>
flagVars  == <<hicAware, stopped>>
taintVars == <<sources, exposed, clearing>>
coreVars  == <<pending, mail, heard>>
cardVars  == <<card, obeyed>>
vars == <<loopVars, taskVars, flagVars, taintVars, coreVars, cardVars, decider>>

NoCall == [n |-> 0, id |-> 0, tool |-> None, hic |-> FALSE]
Fresh  == [pc |-> "new", card |-> 0, allow |-> FALSE, rec |-> None]

Init ==
  /\ hicAware \in BOOLEAN /\ stopped = FALSE
  /\ pc = "idle" /\ step = 0 /\ todo = <<>> /\ cur = NoCall /\ outcome = None
  /\ history = <<>> /\ issued = 0
  /\ goal = None /\ verdict = None /\ tasks = 0
  /\ sources \in {{}, {"unattended"}} /\ exposed = FALSE /\ clearing = None
  /\ pending = {} /\ mail = None /\ heard = {}
  /\ card = None /\ obeyed = {}
  /\ decider = [d \in Deciders |-> Fresh]

-----------------------------------------------------------------------------
(* The transcript and what of it is sent to the model.                        *)

User         == [role |-> "user", calls |-> {}]
Said(cs)     == [role |-> "assistant", calls |-> {cs[i].n : i \in DOMAIN cs}]
Result(c, o) == [role |-> "tool", calls |-> {c.n},
                 did |-> IF o \in {"ok", "untrusted", "vouched"} THEN {c.tool} ELSE {}]

LastUser(h) == CHOOSE i \in DOMAIN h : h[i].role = "user" /\ \A j \in i+1..Len(h) : h[j].role # "user"

\* Mutant: the results of a dropped message stay.
RequestsOrphaned(h) == {SubSeq(h, k, Len(h)) : k \in 1..LastUser(h)}

\* compact_to_budget: what may be sent of the transcript h, whatever the counts.
\* Old tool output is elided first, which leaves the messages in place. Then the
\* oldest message is dropped, with the tool results that would be left without the
\* message that asked for them, as far as the latest message of the user.
Requests(h) ==
  {SubSeq(h, k, Len(h)) : k \in {i \in 1..LastUser(h) : i = 1 \/ h[i].role # "tool"}}

\* The calls of a reply, numbered over the session.
CallsOf(names) ==
  [i \in DOMAIN names |-> [n |-> issued + i, tool |-> names[i],
                           id |-> IF OwnIds THEN issued + i ELSE i]]

-----------------------------------------------------------------------------
(* What a call needs and what its outcome brings in.                           *)

Tainted == sources # {}

\* After taint, an effectful call needs a member's explicit decision.
NeedsPerson(t) == t \in Effectful /\ Tainted

\* ToolHost::honors_explicit_approval of core and of the sidecar's host.
CanAsk == hicAware

\* Mutant: an error is the tool's own text.
IngestsSuccess(t, o) == o = "untrusted" \/ (o = "ok" /\ t \in Untrusted)

\* ingested_untrusted, for a call that a host ran.
Ingests(t, o) == o = "untrusted" \/ (o \in {"ok", "error", "refusal"} /\ t \in Untrusted)

-----------------------------------------------------------------------------
(* Tasks: messages and workflows.                                               *)

\* SessionManager::send, as far as the turn thread: a second task is refused while
\* one runs.
Send ==
  /\ pc = "idle" /\ tasks < MaxTasks
  /\ tasks' = tasks + 1
  /\ history' = Append(history, User) /\ step' = 1 /\ pc' = "step"
  /\ UNCHANGED <<todo, cur, outcome, issued, goal, verdict, flagVars, taintVars, coreVars, cardVars, decider>>

\* The deploy guard answers a request to deploy in the model's place.
SendToGuard ==
  /\ pc = "idle" /\ tasks < MaxTasks /\ Guarded # {}
  /\ tasks' = tasks + 1
  /\ history' = history \o <<User, Said(<<>>)>>
  /\ UNCHANGED <<pc, step, todo, cur, outcome, issued, goal, verdict, flagVars, taintVars, coreVars,
                 cardVars, decider>>

\* SessionManager::run_workflow: the same, for the session's workflow.
RunWorkflow ==
  /\ pc = "idle" /\ Goals # <<>>
  /\ tasks = 0 /\ tasks' = MaxTasks
  /\ goal' = [step |-> 1, attempt |-> 1, start |-> 0] /\ verdict' = "running"
  /\ pc' = "attempt"
  /\ UNCHANGED <<step, todo, cur, outcome, history, issued, flagVars, taintVars, coreVars, cardVars, decider>>

\* The workflow ends: its verdict is stored and the session is free again.
EndWorkflow(v) ==
  /\ verdict' = v /\ goal' = None /\ pc' = "idle"

\* One more turn at the step, its instruction with what did not pass.
Attempt ==
  /\ pc = "attempt"
  /\ \/ goal.attempt > MaxAttempts /\ EndWorkflow("failed") /\ UNCHANGED <<history, step>>
     \/ goal.attempt <= MaxAttempts /\ stopped /\ EndWorkflow("stopped") /\ UNCHANGED <<history, step>>
     \/ /\ goal.attempt <= MaxAttempts /\ ~stopped
        /\ goal' = [goal EXCEPT !.start = Len(history)]
        /\ history' = Append(history, User) /\ step' = 1 /\ pc' = "step"
        /\ UNCHANGED verdict
  /\ UNCHANGED <<todo, cur, outcome, issued, tasks, flagVars, taintVars, coreVars, cardVars, decider>>

NextAttempt == goal' = [goal EXCEPT !.attempt = @ + 1]

\* A turn ends (finish): answered, stopped, at the step limit or failed.
EndTurn(how) ==
  /\ todo' = <<>> /\ cur' = NoCall
  /\ \/ goal = None /\ pc' = "idle" /\ UNCHANGED <<goal, verdict>>
     \/ goal # None /\ how = "stopped" /\ EndWorkflow("stopped")
     \/ goal # None /\ how = "answered" /\ pc' = "judge" /\ UNCHANGED <<goal, verdict>>
     \/ goal # None /\ how \in {"step_limit", "failed"} /\ NextAttempt /\ pc' = "attempt" /\ UNCHANGED verdict

\* Mutant: the calls of the whole session count.
EvidenceOfSession == {history[i] : i \in {j \in DOMAIN history : history[j].role = "tool"}}

\* records_since: the calls of the attempt, with how they ended.
Evidence == {history[i] : i \in {j \in goal.start + 1..Len(history) : history[j].role = "tool"}}

\* Verifier::verify for ToolSucceeded.
Passes(t) == \E r \in Evidence : t \in r.did

\* Every verifier of the step judges the attempt.
Judge ==
  /\ pc = "judge"
  /\ \/ /\ Passes(Goals[goal.step])
        /\ \/ goal.step = Len(Goals) /\ EndWorkflow("succeeded")
           \/ /\ goal.step < Len(Goals)
              /\ goal' = [goal EXCEPT !.step = @ + 1, !.attempt = 1] /\ pc' = "attempt" /\ UNCHANGED verdict
     \/ ~Passes(Goals[goal.step]) /\ NextAttempt /\ pc' = "attempt" /\ UNCHANGED verdict
  /\ UNCHANGED <<step, todo, cur, outcome, history, issued, tasks, flagVars, taintVars, coreVars, cardVars,
                 decider>>

-----------------------------------------------------------------------------
(* The loop: run_turn_with.                                                     *)

\* The top of a step: out of steps, stopped, over the context budget, or on to the
\* model.
StepTop ==
  /\ pc = "step"
  /\ \/ step > MaxSteps /\ EndTurn("step_limit")
     \/ step <= MaxSteps /\ stopped /\ EndTurn("stopped")
     \/ step <= MaxSteps /\ ~stopped /\ EndTurn("failed")
     \/ step <= MaxSteps /\ ~stopped /\ pc' = "model" /\ UNCHANGED <<todo, cur, goal, verdict>>
  /\ UNCHANGED <<step, outcome, history, issued, tasks, flagVars, taintVars, coreVars, cardVars, decider>>

\* The model fails, answers, or calls tools.
ModelFails ==
  /\ pc = "model" /\ EndTurn("failed")
  /\ UNCHANGED <<step, outcome, history, issued, tasks, flagVars, taintVars, coreVars, cardVars, decider>>

ModelAnswers ==
  /\ pc = "model" /\ history' = Append(history, Said(<<>>)) /\ EndTurn("answered")
  /\ UNCHANGED <<step, outcome, issued, tasks, flagVars, taintVars, coreVars, cardVars, decider>>

ModelCalls ==
  /\ pc = "model" /\ pc' = "call"
  /\ \E k \in {i \in 1..MaxReply : issued + i <= MaxCalls} : \E names \in [1..k -> Names] :
       /\ \A i \in MaxCallsPerStep + 1..k : names[i] \in NoTools
       /\ todo' = CallsOf(names) /\ issued' = issued + k
       /\ history' = Append(history, Said(todo'))
  /\ UNCHANGED <<step, cur, outcome, taskVars, flagVars, taintVars, coreVars, cardVars, decider>>

\* Calls of the reply that come before the next one to run.
Taken == Cardinality(history[CHOOSE i \in DOMAIN history :
                               history[i].role = "assistant" /\ \A j \in i+1..Len(history) : history[j].role = "tool"].calls)
         - Len(todo)

\* Refused before it is announced: over the cap, or nothing that a host can run.
Refuses(c) == Taken >= MaxCallsPerStep \/ c.tool \in NoTools

\* The next call of the reply. What the loop refuses gets its result at once and
\* reaches no host. A call for core is registered before it is announced.
Take(c, to, o) ==
  /\ cur' = [n |-> c.n, id |-> c.id, tool |-> c.tool, hic |-> NeedsPerson(c.tool)]
  /\ todo' = Tail(todo) /\ pc' = to /\ outcome' = o

Register(c) == pending' = pending \cup {[n |-> c.n, id |-> c.id]}

NextCall ==
  /\ pc = "call"
  /\ \/ todo = <<>> /\ step' = step + 1 /\ pc' = "step" /\ UNCHANGED <<todo, cur, outcome, goal, verdict, pending>>
     \/ todo # <<>> /\ stopped /\ EndTurn("stopped") /\ UNCHANGED <<step, outcome, pending>>
     \/ /\ todo # <<>> /\ ~stopped
        /\ LET c == Head(todo) IN
           \/ Refuses(c) /\ Take(c, "refused", "error") /\ UNCHANGED pending
           \/ ~Refuses(c) /\ c.tool \in Guarded /\ Take(c, "refused", "denied") /\ UNCHANGED pending
           \/ ~Refuses(c) /\ NeedsPerson(c.tool) /\ ~CanAsk /\ Take(c, "refused", "denied") /\ UNCHANGED pending
           \/ /\ ~Refuses(c) /\ (CanAsk \/ ~NeedsPerson(c.tool))
              /\ \/ c.tool \in CoreTools /\ Take(c, "announce", None) /\ Register(c)
                 \/ c.tool \notin CoreTools /\ Take(c, "host", None) /\ UNCHANGED pending
        /\ UNCHANGED <<step, goal, verdict>>
  /\ UNCHANGED <<history, issued, tasks, flagVars, taintVars, mail, heard, cardVars, decider>>

\* What is true of it, for the properties: content from outside is in the result.
BringsIn(t, o) == o \notin {"vouched", "denied", "refusal"} /\ (o = "untrusted" \/ t \in Untrusted)

\* The result of a call reaches the transcript, and the taint what it brought in.
\* A call that was refused has run nowhere.
Finish ==
  /\ pc \in {"ran", "refused"}
  /\ history' = Append(history, Result(cur, outcome))
  /\ sources' = IF pc = "ran" /\ Ingests(cur.tool, outcome) THEN sources \cup {cur.tool} ELSE sources
  /\ exposed' = (exposed \/ (pc = "ran" /\ BringsIn(cur.tool, outcome)))
  /\ pc' = "call" /\ cur' = NoCall /\ outcome' = None
  /\ UNCHANGED <<step, todo, issued, taskVars, flagVars, clearing, coreVars, cardVars, decider>>

-----------------------------------------------------------------------------
(* A call that core runs: CoreHost.                                             *)

Settle(o) == outcome' = o /\ UNCHANGED <<step, todo, cur, history, issued>>

Announce ==
  /\ pc = "announce" /\ pc' = "parked"
  /\ heard' = heard \cup {[n |-> cur.n, id |-> cur.id]}
  /\ UNCHANGED <<step, todo, cur, outcome, history, issued, taskVars, flagVars, taintVars, pending, mail,
                 cardVars, decider>>

TakeMail ==
  /\ pc = "parked" /\ mail # None /\ pc' = "leave" /\ Settle(mail.outcome)
  /\ UNCHANGED <<taskVars, flagVars, taintVars, coreVars, cardVars, decider>>

\* Mutant: only a stop ends the wait.
GiveUpWhenStopped ==
  /\ pc = "parked" /\ mail = None /\ stopped /\ pc' = "leave" /\ Settle("error")
  /\ UNCHANGED <<taskVars, flagVars, taintVars, coreVars, cardVars, decider>>

\* The deadline has passed, or the session is stopped.
GiveUp ==
  /\ pc = "parked" /\ mail = None /\ pc' = "leave" /\ Settle("error")
  /\ UNCHANGED <<taskVars, flagVars, taintVars, coreVars, cardVars, decider>>

\* Mutant: the next call finds the channel of this one.
LeaveRegistered ==
  /\ pc = "leave" /\ pc' = "ran"
  /\ UNCHANGED <<step, todo, cur, outcome, history, issued, taskVars, flagVars, taintVars, coreVars, cardVars,
                 decider>>

\* The wait is over. With ids of their own a later post changes nothing and is
\* forgotten here.
Leave ==
  /\ pc = "leave" /\ pc' = "ran"
  /\ pending' = {p \in pending : p.id # cur.id} /\ mail' = None
  /\ heard' = IF OwnIds THEN {c \in heard : c.n # cur.n} ELSE heard
  /\ UNCHANGED <<step, todo, cur, outcome, history, issued, taskVars, flagVars, taintVars, cardVars, decider>>

\* POST tool_results: Session::deliver.
Post(c, o) ==
  /\ c \in heard
  /\ \E p \in pending :
       /\ p.id = c.id
       /\ pending' = pending \ {p}
       /\ mail' = [n |-> c.n, outcome |-> o]
  /\ heard' = heard \ {c}
  /\ UNCHANGED <<loopVars, taskVars, flagVars, taintVars, cardVars, decider>>

-----------------------------------------------------------------------------
(* A call that the sidecar runs: SidecarHost, ShellRunHost.                      *)

\* The tool does its work, or fails.
Execute(os) ==
  /\ pc' = "ran" /\ \E o \in os : Settle(o)
  /\ UNCHANGED <<taskVars, flagVars, taintVars, coreVars, cardVars, decider>>

ShowCard ==
  /\ card' = [n |-> cur.n, answer |-> None] /\ pc' = "asked"
  /\ UNCHANGED <<step, todo, cur, outcome, history, issued, taskVars, flagVars, taintVars, coreVars, obeyed,
                 decider>>

RunFileTool ==
  /\ pc = "host" /\ cur.tool \in FileTools
  /\ \/ ~cur.hic /\ Execute({"ok", "untrusted", "error"})
     \/ cur.hic /\ ShowCard

\* A command on the auto-approve list runs without a card before taint, and its
\* output is vouched for; every other command asks, unless its arguments, the
\* grants or the sandbox forbid it.
RunShell ==
  /\ pc = "host" /\ cur.tool \in ShellTools
  /\ \/ ~cur.hic /\ ~Tainted /\ Execute({"vouched", "error"})
     \/ Execute({"refusal"})
     \/ ShowCard

\* The waiter leaves with the member's answer, which counts also when the session
\* has been stopped or the time is up.
TakeAnswer ==
  /\ pc = "asked" /\ card.answer # None
  /\ \/ card.answer = "allow" /\ pc' = "released" /\ obeyed' = obeyed \cup {card.n}
        /\ UNCHANGED <<step, todo, cur, outcome, history, issued>>
     \/ card.answer = "deny" /\ pc' = "ran" /\ Settle("denied") /\ UNCHANGED obeyed
  /\ card' = None
  /\ UNCHANGED <<taskVars, flagVars, taintVars, coreVars, decider>>

\* Stopped, or no decision in time.
CardLapses ==
  /\ pc = "asked" /\ card.answer = None
  /\ pc' = "ran" /\ Settle("denied") /\ card' = None
  /\ UNCHANGED <<taskVars, flagVars, taintVars, coreVars, obeyed, decider>>

RunReleased ==
  /\ pc = "released"
  /\ \/ stopped /\ pc' = "ran" /\ Settle("denied")
        /\ UNCHANGED <<taskVars, flagVars, taintVars, coreVars, cardVars, decider>>
     \/ ~stopped /\ cur.tool \in FileTools /\ Execute({"ok", "untrusted", "error"})
     \/ ~stopped /\ cur.tool \in ShellTools /\ Execute({"ok", "error", "refusal"})

-----------------------------------------------------------------------------
(* The member's routes. A request that decides on a card: action_decide, and    *)
(* shell_decide, which is the same but for the look at the waiting card.          *)

\* The request names the card it was shown, which must still wait (an action card),
\* and writes an allow ahead.
LookAndRecord(d, allow) ==
  /\ decider[d].pc = "new" /\ \A e \in 1..d-1 : decider[e].pc # "new"
  /\ card # None /\ card.answer = None
  /\ decider' = [decider EXCEPT ![d] =
       [pc |-> "decide", card |-> card.n, allow |-> allow, rec |-> IF allow THEN "Approved" ELSE None]]
  /\ UNCHANGED <<loopVars, taskVars, flagVars, taintVars, coreVars, cardVars>>

\* Mutant: a card can be decided on until its waiter has left.
WaitsForWaiter(n) == card # None /\ card.n = n

\* ActionApprovals::decide, ShellApprovals::decide.
Waits(n) == card # None /\ card.n = n /\ card.answer = None

\* Then the outcome of the allow, or the record of a denial that took effect.
Decide(d) ==
  /\ decider[d].pc = "decide"
  /\ \/ /\ Waits(decider[d].card)
        /\ card' = [card EXCEPT !.answer = IF decider[d].allow THEN "allow" ELSE "deny"]
        /\ decider' = [decider EXCEPT ![d].pc = "done", ![d].rec = IF @ = None THEN "Denied" ELSE "Completed"]
     \/ /\ ~Waits(decider[d].card)
        /\ decider' = [decider EXCEPT ![d].pc = "done", ![d].rec = IF @ = None THEN None ELSE "Failed"]
        /\ UNCHANGED card
  /\ UNCHANGED <<loopVars, taskVars, flagVars, taintVars, coreVars, obeyed>>

\* taint_clear: the sources are read and recorded, then all are cleared. Refused
\* for a scheduled run.
LookAtTaint ==
  /\ clearing = None /\ Tainted /\ "unattended" \notin sources
  /\ clearing' = sources
  /\ UNCHANGED <<loopVars, taskVars, flagVars, sources, exposed, coreVars, cardVars, decider>>

ClearTaint ==
  /\ clearing # None
  /\ sources' = {} /\ exposed' = FALSE /\ clearing' = None
  /\ UNCHANGED <<loopVars, taskVars, flagVars, coreVars, cardVars, decider>>

\* The stop switch of this session, of every session, or of a session that goes.
Stop ==
  /\ ~stopped /\ stopped' = TRUE
  /\ UNCHANGED <<loopVars, taskVars, hicAware, taintVars, coreVars, cardVars, decider>>

-----------------------------------------------------------------------------

TurnThread ==
  \/ Attempt \/ Judge \/ StepTop \/ ModelFails \/ ModelAnswers \/ ModelCalls \/ NextCall \/ Finish
  \/ Announce \/ TakeMail \/ GiveUp \/ Leave
  \/ RunFileTool \/ RunShell \/ TakeAnswer \/ CardLapses \/ RunReleased

Decision(d) ==
  \/ \E allow \in BOOLEAN : LookAndRecord(d, allow)
  \/ Decide(d)

Next ==
  \/ Send \/ SendToGuard \/ RunWorkflow \/ TurnThread
  \/ \E c \in heard, o \in Posted : Post(c, o)
  \/ \E d \in Deciders : Decision(d)
  \/ LookAtTaint \/ ClearTaint \/ Stop

\* The turn thread goes on: its waits have deadlines (GiveUp, CardLapses), the
\* model's client and the tools time out.
Spec == Init /\ [][Next]_vars /\ WF_vars(TurnThread)

-----------------------------------------------------------------------------
(* Properties.                                                                  *)

TypeOK ==
  /\ hicAware \in BOOLEAN /\ stopped \in BOOLEAN
  /\ pc \in {"idle", "attempt", "judge", "step", "model", "call", "announce", "parked", "leave", "host",
             "asked", "released", "ran", "refused"}
  /\ step \in Nat /\ issued \in Nat /\ tasks \in Nat
  /\ cur.n \in 0..issued /\ \A i \in DOMAIN todo : todo[i].n \in cur.n + 1..issued
  /\ outcome \in Outcomes \cup {None}
  /\ \A i \in DOMAIN history : history[i].calls \subseteq 1..issued
  /\ goal # None => goal.step \in DOMAIN Goals /\ goal.attempt \in 1..MaxAttempts + 1
  /\ sources \subseteq Names \cup {"unattended"} /\ exposed \in BOOLEAN
  /\ Cardinality(pending) <= 1
  /\ pc = "asked" <=> card # None

\* The thread hands the call in hand to the host that does the work: core acts on
\* the event, a sidecar tool runs.
HandsOver ==
  \/ pc = "announce" /\ pc' = "parked"
  \/ pc \in {"host", "released"} /\ pc' = "ran" /\ outcome' \notin {"denied", "refusal"}

\* HUP-S2.7: while the context holds untrusted content that the member has not
\* cleared, no effect happens without the member's explicit approval of this very
\* call: core is told to ask, a sidecar tool has been released by its own card.
NoUnapprovedEffect ==
  [][HandsOver /\ cur.tool \in Effectful /\ exposed =>
       \/ pc = "announce" /\ cur.hic
       \/ pc = "released" /\ cur.n \in obeyed]_vars

\* What the model is asked is a whole conversation, also when old exchanges have
\* been dropped and after refused, declined and timed-out calls: each call in it
\* has one result, behind it, and each result its call.
Whole(h) ==
  /\ \A i \in DOMAIN h : h[i].role = "assistant" =>
       \A n \in h[i].calls :
         Cardinality({j \in i+1..Len(h) : h[j].role = "tool" /\ h[j].calls = {n}}) = 1
  /\ \A j \in DOMAIN h : h[j].role = "tool" =>
       \E i \in 1..j-1 : h[i].role = "assistant" /\ h[j].calls \subseteq h[i].calls

RequestsAreWhole == pc = "model" => \A r \in Requests(history) : Whole(r)

\* sessions.rs:943: a result posted as soon as the call is announced finds it
\* waiting, and what the turn takes for the result of a call was posted for it.
AnswerIsItsOwn ==
  /\ pc = "parked" /\ mail = None => \E p \in pending : p.n = cur.n
  /\ mail # None => mail.n = cur.n

\* A card releases its call only for an allow that was recorded ahead, and the
\* record of each decision tells what became of it, whichever request wins and
\* whether or not the card lapses or the session stops meanwhile: a Completed or a
\* denial is obeyed, a Failed released nothing.
DecisionsHold ==
  /\ \A n \in obeyed : \E d \in Deciders : decider[d].card = n /\ decider[d].rec \in {"Approved", "Completed"}
  /\ \A d \in Deciders :
       LET n == decider[d].card IN
       /\ decider[d].rec = "Completed" => n \in obeyed \/ card = [n |-> n, answer |-> "allow"]
       /\ decider[d].rec = "Denied" => n \notin obeyed
       /\ decider[d].rec = "Failed" /\ n \in obeyed =>
            \E e \in Deciders \ {d} : decider[e].card = n /\ decider[e].rec \in {"Approved", "Completed"}

\* HUP-S1.3: "only verifiers say done". A workflow has succeeded only if the tool
\* its last step wants ran, in the attempt that was judged, and succeeded there.
SuccessIsEarned ==
  [][verdict' = "succeeded" /\ verdict # "succeeded" =>
       \E i \in DOMAIN history :
         /\ history[i].role = "tool" /\ Goals[Len(Goals)] \in history[i].did
         /\ \A j \in i..Len(history) : history[j].role # "user"]_vars

\* A message or a workflow that was taken on ends, whatever core, the member and
\* the model do or fail to do.
EveryTaskEnds == []<>(pc = "idle")

-----------------------------------------------------------------------------
(* Statements of the documentation that the code does not keep in every case;  *)
(* README.md gives the instance that refutes each.                              *)

\* lib.rs:1124, the answer to a post for a call that has timed out is a refusal:
\* what was acknowledged as delivered is what the turn goes on with.
DeliveredIsUsed == [][pc = "leave" /\ pc' = "ran" /\ mail # None => mail.outcome = outcome]_vars

\* lib.rs:1365-1385, the sources that the clearing of a taint is recorded with are
\* the sources it clears.
ClearedWasRecorded == [][clearing # None /\ clearing' = None => sources \subseteq clearing]_vars
=============================================================================
