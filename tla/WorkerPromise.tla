---------------------------- MODULE WorkerPromise ----------------------------
(***************************************************************************)
(* What a supervised worker promises the caller of one tool call, without   *)
(* processes, pipes or locks: the call runs at most once, it is answered at  *)
(* most once, a result is only reported for a call that ran, and a call that  *)
(* is reported as not run never ran and never will. After a crash or a        *)
(* timeout nothing is promised about whether it ran.                          *)
(***************************************************************************)
CONSTANT Calls
VARIABLES ran,    \* the calls a handler was started for
          told    \* what the caller of each call was told

Answers == {"none", "result", "refused", "notRunning", "crashed", "timeout"}
NotRun  == {"refused", "notRunning"}

Init == ran = {} /\ told = [c \in Calls |-> "none"]

Run(c) ==
  /\ c \notin ran /\ told[c] \notin NotRun \cup {"result"}
  /\ ran' = ran \cup {c}
  /\ UNCHANGED told

Tell(c, answer) ==
  /\ told[c] = "none"
  /\ answer = "result" => c \in ran
  /\ answer \in NotRun => c \notin ran
  /\ told' = [told EXCEPT ![c] = answer]
  /\ UNCHANGED ran

Next == \E c \in Calls : Run(c) \/ \E a \in Answers \ {"none"} : Tell(c, a)

Spec == Init /\ [][Next]_<<ran, told>>
=============================================================================
