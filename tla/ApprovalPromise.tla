--------------------------- MODULE ApprovalPromise ---------------------------
(***************************************************************************)
(* What the approval queue promises its callers, without its locks, its     *)
(* timers or its data: a submission is decided once; a parked one is        *)
(* released only while no emergency stop is in force; when a stop has taken *)
(* effect nothing is parked, and nothing is parked until it is lifted.      *)
(***************************************************************************)
CONSTANT Submissions
VARIABLES status, stopped

Statuses == {"new", "admitted", "parked", "released", "refused", "gone"}

PromiseTypeOK ==
  /\ status \in [Submissions -> Statuses]
  /\ stopped \in BOOLEAN

Init ==
  /\ status = [s \in Submissions |-> "new"]
  /\ stopped = FALSE

Become(who, next) ==
  status' = [s \in Submissions |-> IF s \in who THEN next ELSE status[s]]

\* The submission has passed its first look at the stop.
Admit(s) == status[s] = "new" /\ ~stopped /\ Become({s}, "admitted") /\ UNCHANGED stopped

Park(s) == status[s] = "admitted" /\ ~stopped /\ Become({s}, "parked") /\ UNCHANGED stopped

\* A member decided for it.
Release(s) == status[s] = "parked" /\ ~stopped /\ Become({s}, "released") /\ UNCHANGED stopped

\* An unattended approval: a low-tier action at once, a granted call after it
\* was admitted.
ReleaseUnattended(s) ==
  /\ \/ status[s] = "new" /\ ~stopped
     \/ status[s] = "admitted"
  /\ Become({s}, "released")
  /\ UNCHANGED stopped

\* Any number of undecided submissions are refused together.
Refuse(who) ==
  /\ \A s \in who : status[s] \in {"new", "admitted", "parked"}
  /\ Become(who, "refused")
  /\ UNCHANGED stopped

\* The submitter goes away before it has read its answer; the answer, if there
\* is one, goes with it.
Vanish(s) ==
  /\ status[s] \in {"parked", "released", "refused"}
  /\ Become({s}, "gone")
  /\ UNCHANGED stopped

Stop ==
  /\ Become({s \in Submissions : status[s] = "parked"}, "refused")
  /\ stopped' = TRUE

Resume == stopped' = FALSE /\ UNCHANGED status

Next ==
  \/ \E s \in Submissions : Admit(s) \/ Park(s) \/ Release(s) \/ ReleaseUnattended(s) \/ Vanish(s)
  \/ \E who \in SUBSET Submissions : Refuse(who)
  \/ Stop \/ Resume

Spec == Init /\ [][Next]_<<status, stopped>>
=============================================================================
