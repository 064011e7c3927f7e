--------------------------- MODULE WorkerSupervisor ---------------------------
(***************************************************************************)
(* agent-workers: a worker process, the thread that supervises it, the       *)
(* threads that call it and the threads that shut it down.                    *)
(*                                                                         *)
(* A call registers itself in `pending`, writes its request to the child's   *)
(* input under the lock of the stdin slot and waits for the reader thread    *)
(* (an answer) or the monitor (a crash). Registration, writing and the        *)
(* monitor's sweep of `pending` hold different locks; all their orders are    *)
(* explored. Time is abstract: a deadline may pass whenever somebody waits    *)
(* for it, and the restart window may have moved on by any amount.            *)
(*                                                                         *)
(* A request that fits the pipe is written at once. A larger one (BigCalls)   *)
(* is written as fast as the child reads, with the slot locked meanwhile.     *)
(*                                                                         *)
(* Abstracted: the text of requests, answers and exit descriptions, the       *)
(* health and restart figures of the status report, the programs a worker     *)
(* leaves in its session (stopped before the child is reaped), a failing      *)
(* waitid and a reader thread that cannot be started.                          *)
(***************************************************************************)
EXTENDS Naturals, FiniteSets, SequencesExt

CONSTANTS Calls,           \* threads that make one call each
          BigCalls,        \* those whose request does not fit the pipe
          Stoppers,        \* threads that call shutdown
          MaxRestarts,     \* RestartPolicy::max_restarts
          MaxMisses,       \* RestartPolicy::health_failures_to_kill
          MaxConcurrentCalls,
          None

ASSUME BigAssumption == BigCalls \subseteq Calls
ASSUME PolicyAssumption ==
  MaxRestarts \in Nat /\ MaxMisses \in Nat \ {0} /\ MaxConcurrentCalls \in Nat \ {0}
ASSUME CallsAssumption == Calls \cap {"ping", "shutdown"} = {}

VARIABLES
  \* Shared, under its mutex: the worker's state, shutting_down, the pending
  \* requests, and the value sent to each waiting receiver
  state, shuttingDown, pending, mail,
  \* the stdin slot: whether it holds a pipe, and who is writing under its lock
  open, writer,
  \* the monitor thread: its place, missed pings in a row, restarts in the window
  monitor, misses, recent,
  \* the child: its life, its unread input, the calls whose handlers run, the
  \* calls counted in in_flight; and the answers on the way to the readers
  child, inbox, running, inFlight, replies,
  \* the callers and what each was told; the shutdown threads; the join handle
  caller, told, stopper, handle,
  \* history: calls written to the present child, calls a handler was started for
  sent, ran

sharedVars  == <<state, shuttingDown, pending, mail>>
stdinVars   == <<open, writer>>
monitorVars == <<monitor, misses, recent>>
childVars   == <<child, inbox, running, inFlight, replies>>
callVars    == <<caller, told>>
stopVars    == <<stopper, handle>>
histVars    == <<sent, ran>>
vars == <<sharedVars, stdinVars, monitorVars, childVars, callVars, stopVars, histVars>>

Ids     == Calls \cup {"ping", "shutdown"}
States  == {"Starting", "Running", "Restarting", "Failed", "Stopped"}
Results == {"result", "refused", "crashed"}
Answers == Results \cup {"notRunning", "timeout"}
ASSUME NoneAssumption == None \notin Calls \cup Answers

MonitorSteps == {"top", "spawn", "ping", "pong", "watch", "stop", "stopWait", "close",
                 "grace", "end", "sweep", "decide", "backoff", "done"}
CallerSteps  == {"idle", "wait", "insert", "write", "writing", "receive", "done"}

TypeOK ==
  /\ state \in States /\ shuttingDown \in BOOLEAN
  /\ pending \subseteq Ids /\ mail \in [Ids -> Results \cup {None}]
  /\ open \in BOOLEAN /\ writer \in BigCalls \cup {None}
  /\ monitor \in MonitorSteps /\ misses \in 0..MaxMisses /\ recent \in 0..MaxRestarts
  /\ child \in {"none", "up", "hung", "leaving", "exited"}
  /\ inbox \in Seq(Ids) /\ running \subseteq inFlight /\ inFlight \subseteq Calls
  /\ replies \subseteq Ids \X {"result", "refused"}
  /\ caller \in [Calls -> CallerSteps] /\ told \in [Calls -> Answers \cup {None}]
  /\ stopper \in [Stoppers -> {"idle", "join", "returned"}] /\ handle \in BOOLEAN
  /\ sent \subseteq Calls /\ ran \subseteq Calls

Init ==
  /\ state = "Starting" /\ shuttingDown = FALSE
  /\ pending = {} /\ mail = [i \in Ids |-> None]
  /\ open = FALSE /\ writer = None
  /\ monitor = "top" /\ misses = 0 /\ recent = 0
  /\ child = "none" /\ inbox = <<>> /\ running = {} /\ inFlight = {} /\ replies = {}
  /\ caller = [c \in Calls |-> "idle"] /\ told = [c \in Calls |-> None]
  /\ stopper = [s \in Stoppers |-> "idle"] /\ handle = TRUE
  /\ sent = {} /\ ran = {}

-----------------------------------------------------------------------------
(* The process *)

Alive == child \in {"up", "hung", "leaving"}

\* The process is gone: unread input and running handlers go with it. What it
\* had written can still be read from its output.
ChildEnds == child' = "exited" /\ inbox' = <<>> /\ running' = {} /\ inFlight' = {}

AtLimit == Cardinality(inFlight) >= MaxConcurrentCalls

\* serve: the reading thread takes the next request. It never gets to see the
\* end of its input: a request to shut down is written before the pipe is closed.
ReadRequest ==
  /\ child = "up" /\ inbox # <<>>
  /\ inbox' = Tail(inbox)
  /\ LET id == Head(inbox) IN
     IF id \notin Calls
     THEN /\ replies' = replies \cup {<<id, "result">>}
          /\ child' = IF id = "shutdown" THEN "leaving" ELSE child
          /\ UNCHANGED <<running, inFlight, ran>>
     ELSE IF AtLimit
     THEN /\ replies' = replies \cup {<<id, "refused">>}
          /\ UNCHANGED <<child, running, inFlight, ran>>
     ELSE /\ running' = running \cup {id} /\ inFlight' = inFlight \cup {id}
          /\ ran' = ran \cup {id}
          /\ UNCHANGED <<child, replies>>
  /\ UNCHANGED <<sharedVars, stdinVars, monitorVars, callVars, stopVars, sent>>

\* A handler answers; its place in in_flight is given back afterwards.
Answer(c) ==
  /\ child \in {"up", "leaving"} /\ c \in running
  /\ running' = running \ {c}
  /\ replies' = replies \cup {<<c, "result">>}
  /\ UNCHANGED <<sharedVars, stdinVars, monitorVars, child, inbox, inFlight, callVars,
                 stopVars, histVars>>

GiveBack(c) ==
  /\ child \in {"up", "leaving"} /\ c \in inFlight \ running
  /\ inFlight' = inFlight \ {c}
  /\ UNCHANGED <<sharedVars, stdinVars, monitorVars, child, inbox, running, replies,
                 callVars, stopVars, histVars>>

\* The process exits: it was told to, or it crashed.
Exit ==
  /\ Alive /\ ChildEnds
  /\ UNCHANGED <<replies, sharedVars, stdinVars, monitorVars, callVars, stopVars, histVars>>

\* The process stops making progress, or comes back.
Hang ==
  /\ child' = CASE child = "up" -> "hung" [] child = "hung" -> "up" [] OTHER -> "none"
  /\ child \in {"up", "hung"}
  /\ UNCHANGED <<sharedVars, stdinVars, monitorVars, inbox, running, inFlight, replies,
                 callVars, stopVars, histVars>>

Child == ReadRequest \/ Exit \/ Hang \/ \E c \in Calls : Answer(c) \/ GiveBack(c)

\* The reader thread of this child or of an earlier one.
Deliver ==
  \E r \in replies :
     /\ replies' = replies \ {r}
     /\ pending' = pending \ {r[1]}
     /\ mail' = IF r[1] \in pending THEN [mail EXCEPT ![r[1]] = r[2]] ELSE mail
     /\ UNCHANGED <<state, shuttingDown, stdinVars, monitorVars, child, inbox, running,
                    inFlight, callVars, stopVars, histVars>>

-----------------------------------------------------------------------------
(* Worker::call and Inner::request *)

At(c, step, next) == caller[c] = step /\ caller' = [caller EXCEPT ![c] = next]

TellCaller(c, step, answer) ==
  /\ At(c, step, "done")
  /\ told' = [told EXCEPT ![c] = answer]

Call(c) ==
  /\ At(c, "idle", "wait")
  /\ UNCHANGED <<sharedVars, stdinVars, monitorVars, childVars, told, stopVars, histVars>>

\* The wait for a running worker; a request too long for the wire is refused.
Admitted(c) ==
  /\ state = "Running"
  /\ \/ At(c, "wait", "insert") /\ UNCHANGED told
     \/ TellCaller(c, "wait", "refused")
  /\ UNCHANGED <<sharedVars, stdinVars, monitorVars, childVars, stopVars, histVars>>

NotAdmittedNoDeadline(c) ==     \* mutant: waits for a running worker however long
  /\ state \in {"Failed", "Stopped"}
  /\ TellCaller(c, "wait", "notRunning")
  /\ UNCHANGED <<sharedVars, stdinVars, monitorVars, childVars, stopVars, histVars>>

NotAdmitted(c) ==
  /\ state # "Running"     \* given up, stopped, or the deadline has passed
  /\ TellCaller(c, "wait", "notRunning")
  /\ UNCHANGED <<sharedVars, stdinVars, monitorVars, childVars, stopVars, histVars>>

Insert(c) ==
  /\ At(c, "insert", "write")
  /\ pending' = pending \cup {c}
  /\ UNCHANGED <<state, shuttingDown, mail, stdinVars, monitorVars, childVars, told,
                 stopVars, histVars>>

\* No pipe in the slot, or nobody left to read from it.
NotWritten(c) ==
  /\ TellCaller(c, caller[c], "crashed")
  /\ pending' = pending \ {c} /\ writer' = None
  /\ UNCHANGED <<state, shuttingDown, mail, open, monitorVars, childVars, stopVars, histVars>>

Written(c) ==
  /\ At(c, caller[c], "receive")
  /\ inbox' = Append(inbox, c) /\ sent' = sent \cup {c} /\ writer' = None
  /\ UNCHANGED <<sharedVars, open, monitorVars, child, running, inFlight, replies, told,
                 stopVars, ran>>

BeginWriting(c) ==
  /\ At(c, "write", "writing")
  /\ writer' = c
  /\ UNCHANGED <<sharedVars, open, monitorVars, childVars, told, stopVars, histVars>>

Write(c) ==
  /\ caller[c] = "write" /\ writer = None
  /\ \/ ~(open /\ Alive) /\ NotWritten(c)
     \/ open /\ Alive /\ c \notin BigCalls /\ Written(c)
     \/ open /\ Alive /\ c \in BigCalls /\ BeginWriting(c)

FinishWriting(c) ==
  /\ caller[c] = "writing"
  /\ \/ ~Alive /\ NotWritten(c)
     \/ child = "up" /\ Written(c)

Receive(c) ==
  /\ mail[c] # None /\ TellCaller(c, "receive", mail[c])
  /\ UNCHANGED <<sharedVars, stdinVars, monitorVars, childVars, stopVars, histVars>>

TimeoutAsNotRunning(c) ==     \* mutant: no answer in time taken for a refusal
  /\ TellCaller(c, "receive", "notRunning")
  /\ pending' = pending \ {c}
  /\ UNCHANGED <<state, shuttingDown, mail, stdinVars, monitorVars, childVars, stopVars,
                 histVars>>

Timeout(c) ==
  /\ TellCaller(c, "receive", "timeout")
  /\ pending' = pending \ {c}
  /\ UNCHANGED <<state, shuttingDown, mail, stdinVars, monitorVars, childVars, stopVars,
                 histVars>>

Caller(c) ==
  \/ Admitted(c) \/ NotAdmitted(c) \/ Insert(c) \/ Write(c) \/ FinishWriting(c)
  \/ Receive(c) \/ Timeout(c)

-----------------------------------------------------------------------------
(* The monitor thread *)

Go(step, next) == monitor = step /\ monitor' = next

\* Everything outside the monitor and the state it reports.
Others == <<shuttingDown, callVars, stopVars, ran>>

Ends(step, final) == Go(step, "done") /\ state' = final

Top ==
  /\ \/ shuttingDown /\ Ends("top", "Stopped")
     \/ ~shuttingDown /\ Go("top", "spawn") /\ state' = "Starting"
  /\ UNCHANGED <<pending, mail, stdinVars, misses, recent, childVars, sent, Others>>

Spawn ==
  /\ \/ Go("spawn", "ping") /\ open' = TRUE /\ child' = "up"
     \/ Go("spawn", "sweep") /\ UNCHANGED <<open, child>>     \* it cannot be started
  /\ writer = None /\ misses' = 0
  /\ UNCHANGED <<state, pending, mail, writer, recent, inbox, running, inFlight, replies,
                 sent, Others>>

SendPing ==
  /\ open /\ Alive
  /\ Go("ping", "pong")
  /\ inbox' = Append(inbox, "ping") /\ pending' = pending \cup {"ping"}
  /\ UNCHANGED <<state, mail, misses, child, running, inFlight, replies>>

\* The ping is given up: nobody looks at its answer any more.
AbandonPing ==
  /\ pending' = pending \ {"ping"} /\ mail' = [mail EXCEPT !["ping"] = None]
  /\ replies' = {r \in replies : r[1] # "ping"}

\* There is one ping at a time, and this child has or has not read it.
Tolerate(step, next) ==
  /\ Go(step, next)
  /\ \/ \E i \in 1..Len(inbox) : inbox[i] = "ping" /\ inbox' = RemoveAt(inbox, i)
     \/ (\A i \in 1..Len(inbox) : inbox[i] # "ping") /\ UNCHANGED inbox
  /\ UNCHANGED <<child, running, inFlight>>

Replace(step) == Go(step, "end") /\ ChildEnds

MissedForgotten(step) ==     \* mutant: the count does not survive to the next ping
  /\ AbandonPing /\ UNCHANGED <<state, misses>>
  /\ IF state = "Starting"
     THEN IF shuttingDown THEN Tolerate(step, "stop") ELSE Replace(step)
     ELSE IF misses + 1 < MaxMisses THEN Tolerate(step, "watch") ELSE Replace(step)

\* A missed ping. At start-up it ends the child or begins the stop, later the
\* child is replaced when it has missed too many in a row.
Missed(step) ==
  /\ AbandonPing /\ UNCHANGED state
  /\ IF state = "Starting"
     THEN /\ UNCHANGED misses
          /\ IF shuttingDown THEN Tolerate(step, "stop") ELSE Replace(step)
     ELSE /\ misses' = misses + 1
          /\ IF misses + 1 < MaxMisses THEN Tolerate(step, "watch") ELSE Replace(step)

Answered ==
  /\ mail["ping"] # None
  /\ AbandonPing /\ Tolerate("pong", "watch")
  /\ state' = "Running" /\ misses' = 0

Ping ==
  /\ \/ writer = None /\ (SendPing \/ (~(open /\ Alive) /\ Missed("ping")))
     \/ Answered \/ Missed("pong")
     \/ /\ child = "exited" /\ AbandonPing /\ Tolerate("pong", "end")
        /\ UNCHANGED <<state, misses>>
  /\ UNCHANGED <<stdinVars, recent, sent, Others>>

WatchToTheEnd ==     \* mutant: a healthy child is watched although a stop was asked for
  /\ \/ child = "exited" /\ Go("watch", "end")
     \/ child # "exited" /\ Go("watch", "ping")
  /\ UNCHANGED <<state, pending, mail, stdinVars, misses, recent, childVars, sent, Others>>

Watch ==
  /\ \/ child = "exited" /\ Go("watch", "end")
     \/ child # "exited" /\ Go("watch", IF shuttingDown THEN "stop" ELSE "ping")
  /\ UNCHANGED <<state, pending, mail, stdinVars, misses, recent, childVars, sent, Others>>

\* graceful_stop: ask, close the input, wait out the grace period, kill.
Ask ==
  /\ writer = None
  /\ \/ /\ open /\ Alive /\ Go("stop", "stopWait")
        /\ inbox' = Append(inbox, "shutdown") /\ pending' = pending \cup {"shutdown"}
     \/ ~(open /\ Alive) /\ Go("stop", "close") /\ UNCHANGED <<inbox, pending>>
  /\ UNCHANGED <<state, mail, stdinVars, misses, recent, child, running, inFlight, replies,
                 sent, Others>>

StopAsking ==     \* the answer, or a second without one
  /\ Go("stopWait", "close")
  /\ pending' = pending \ {"shutdown"}
  /\ UNCHANGED <<state, mail, stdinVars, misses, recent, childVars, sent, Others>>

CloseInput(step, next) ==
  /\ Go(step, next) /\ writer = None /\ open' = FALSE
  /\ UNCHANGED <<state, pending, mail, writer, misses, recent, childVars, sent, Others>>

Grace ==     \* it has exited, or is killed at the end of the grace period
  /\ Replace("grace")
  /\ UNCHANGED <<state, pending, mail, stdinVars, misses, recent, replies, sent, Others>>

SweepUnlessStopping ==     \* mutant: calls are failed only on the way to a restart
  /\ Go("sweep", "decide")
  /\ child' = "none" /\ sent' = {}
  /\ LET swept == IF shuttingDown THEN {} ELSE pending IN
     /\ mail' = [i \in Ids |-> IF i \in swept THEN "crashed" ELSE mail[i]]
     /\ pending' = pending \ swept
  /\ UNCHANGED <<state, stdinVars, misses, recent, inbox, running, inFlight, replies, Others>>

\* The child is reaped and every call still registered is told of the crash.
Sweep ==
  /\ Go("sweep", "decide")
  /\ child' = "none" /\ sent' = {}
  /\ mail' = [i \in Ids |-> IF i \in pending THEN "crashed" ELSE mail[i]]
  /\ pending' = {}
  /\ UNCHANGED <<state, stdinVars, misses, recent, inbox, running, inFlight, replies, Others>>

\* Stop, give up, or back off and try again. Any number of the restarts may
\* have left the window.
Decide ==
  /\ \/ shuttingDown /\ Ends("decide", "Stopped") /\ UNCHANGED recent
     \/ /\ ~shuttingDown
        /\ \E still \in 0..recent :
             IF still >= MaxRestarts
             THEN Ends("decide", "Failed") /\ recent' = still
             ELSE Go("decide", "backoff") /\ state' = "Restarting" /\ recent' = still + 1
  /\ UNCHANGED <<pending, mail, stdinVars, misses, childVars, sent, Others>>

BackOff ==
  /\ \/ shuttingDown /\ Ends("backoff", "Stopped")
     \/ ~shuttingDown /\ Go("backoff", "top") /\ UNCHANGED state
  /\ UNCHANGED <<pending, mail, stdinVars, misses, recent, childVars, sent, Others>>

Monitor ==
  \/ Top \/ Spawn \/ Ping \/ Watch
  \/ Ask \/ StopAsking \/ CloseInput("close", "grace") \/ Grace
  \/ CloseInput("end", "sweep") \/ Sweep \/ Decide \/ BackOff

-----------------------------------------------------------------------------
(* Worker::shutdown: the first thread takes the handle and joins the monitor. *)

ShutdownUnjoined(s) ==     \* mutant: the request is made, its end not awaited
  /\ stopper[s] = "idle"
  /\ shuttingDown' = TRUE
  /\ stopper' = [stopper EXCEPT ![s] = "returned"]
  /\ handle' = FALSE
  /\ UNCHANGED <<state, pending, mail, stdinVars, monitorVars, childVars, callVars, histVars>>

Shutdown(s) ==
  /\ stopper[s] = "idle"
  /\ shuttingDown' = TRUE
  /\ stopper' = [stopper EXCEPT ![s] = IF handle THEN "join" ELSE "returned"]
  /\ handle' = FALSE
  /\ UNCHANGED <<state, pending, mail, stdinVars, monitorVars, childVars, callVars, histVars>>

Join(s) ==
  /\ stopper[s] = "join" /\ monitor = "done"
  /\ stopper' = [stopper EXCEPT ![s] = "returned"]
  /\ UNCHANGED <<sharedVars, stdinVars, monitorVars, childVars, callVars, handle, histVars>>

Next ==
  \/ Monitor \/ Child \/ Deliver
  \/ \E c \in Calls : Call(c) \/ Caller(c)
  \/ \E s \in Stoppers : Shutdown(s) \/ Join(s)

Spec == Init /\ [][Next]_vars

\* The threads of the sidecar run and their deadlines pass. Nothing is assumed
\* of the worker process or of those who call and shut down.
Fairness ==
  /\ WF_vars(Monitor) /\ WF_vars(Deliver)
  /\ \A c \in Calls : WF_vars(Caller(c))
  /\ \A s \in Stoppers : WF_vars(Join(s))

FairSpec == Spec /\ Fairness

-----------------------------------------------------------------------------
(* Properties *)

\* A caller that waits is either registered and its request is with the
\* present child, or its answer has been sent: a crash is told to every call it
\* strands, promptly and not at the call's own timeout (fail_pending).
NoCallStranded ==
  \A c \in Calls : caller[c] = "receive" /\ mail[c] = None => c \in pending \cap sent

\* When shutdown has returned, the supervisor has finished and the process is
\* gone ("stop the worker cleanly and wait for the supervisor to finish").
ShutdownWaits ==
  \A s \in Stoppers : stopper[s] = "returned" => monitor = "done" /\ child = "none"

\* The promise to each caller (see WorkerPromise).
Promise == INSTANCE WorkerPromise WITH
  told <- [c \in Calls |-> IF told[c] = None THEN "none" ELSE told[c]]
KeepsPromise == Promise!Spec

\* A request larger than the pipe is being written to a process that no longer
\* reads (it hangs, or is about to exit): the writer keeps the stdin slot locked.
Wedged == writer # None /\ child \in {"hung", "leaving"}

\* Every call and every shutdown returns, whatever the worker process does: a
\* call waits for a running worker and then for its answer, both at most until
\* its timeout, and shutdown joins the monitor. And a process that stops making
\* progress is noticed and replaced ("killed for failing health_failures_to_kill
\* health checks in a row"). The exception to both is a slot that stays wedged, or
\* is wedged again and again.
NobodyHangs ==
  \/ []<>Wedged
  \/ /\ <>[](/\ \A c \in Calls : caller[c] \in {"idle", "done"}
             /\ \A s \in Stoppers : stopper[s] # "join")
     /\ (child = "hung") ~> (child # "hung")

\* The health checks as documented make no exception for large requests.
HungWorkerIsKilled == (child = "hung") ~> (child # "hung")

-----------------------------------------------------------------------------
(* Statements of the documentation that the code does not keep in every case;  *)
(* README.md gives the instance that refutes each.                              *)

\* A call that is told of a crash is not run by the next child.
CrashEndsTheCall ==
  \A c \in Calls : told[c] = "crashed" => c \notin running

\* A call is refused only when as many are being run as the limit allows.
RefusedOnlyAtLimit ==
  [][\A c \in Calls : <<c, "refused">> \in replies' \ replies =>
        Cardinality(running) >= MaxConcurrentCalls]_vars
=============================================================================
