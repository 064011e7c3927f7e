---------------------------- MODULE LearningStore ----------------------------
(***************************************************************************)
(* The learner of agent-learn: what the agent proposes to keep (a skill,   *)
(* one keyed memory), what the member decides about it, and what is left   *)
(* of both after a restart.                                                *)
(*                                                                         *)
(* Three stores hold a proposal's fate: the map in memory, the proposals   *)
(* file (rewritten as a whole after every change) and the decision log.    *)
(* The log is written before an effect and the file after it, either write *)
(* can fail, and the process can stop between any two of them; opening     *)
(* again moves the file's proposals forward to what the log says.  All     *)
(* operations run under one lock, the member's own hand on the skills      *)
(* folder does not.                                                        *)
(*                                                                         *)
(* `latest' is what reconcile_with_log reads of the log: the last decision *)
(* recorded about a proposal and whether an outcome closed it.             *)
(***************************************************************************)
EXTENDS Naturals, FiniteSets

CONSTANTS Skills,       \* proposals of a skill
          Memories,     \* proposals of a memory
          Known,        \* memories of the app that were not learned here
          Subject,      \* the name of a skill, the key of a memory
          Content,      \* what a proposal or a known memory says
          Mine,         \* a skill the member wrote by hand
          MaxPending,   \* most proposals waiting for the member
          MaxKept,      \* most decided proposals kept
          MaxProposed,  \* proposals of a behaviour that is explored
          MaxRestarts,  \* and its restarts
          None

Proposals == Skills \cup Memories
Names == {Subject[s] : s \in Skills}

States == {"proposed", "rejected", "failed", "persisted", "prepared",
           "retracted"}
Sides == Memories \cup Known
Records == [state : States, kept : Sides \cup {None}, made : 1..MaxProposed,
            pending : SUBSET Proposals, contra : SUBSET Sides,
            setAside : SUBSET Known]
Decisions == [kind : {"denied", "accepted", "publish", "resolved"},
              kept : Sides \cup {None}, completed : BOOLEAN]
Accepts == [of : Proposals, ok : BOOLEAN,
            stage : {"recorded", "written", "ended", "closed", "unclosed"}]
Handed == [contra : SUBSET Sides, dropped : SUBSET Memories]

ASSUME LimitsAreNumbers ==
  {MaxPending, MaxKept, MaxProposed, MaxRestarts} \subseteq Nat
ASSUME KindsAreDisjoint ==
  /\ Skills \cap Memories = {} /\ Proposals \cap Known = {}
  /\ Names \cap {Subject[m] : m \in Memories \cup Known} = {}
  /\ {Mine, None} \cap {Content[p] : p \in Proposals} = {}
ASSUME NoneIsNothing ==
  /\ None \notin Records /\ None \notin Decisions
  /\ None \notin Accepts /\ None \notin Handed

VARIABLES prop,      \* the proposals in memory
          file,      \* the proposals file
          used,      \* ids ever given out
          latest,    \* the last decision the log has about a proposal
          asides,    \* known memories set aside in the log, with what was kept
          logOk,     \* the log still accepts records
          op,        \* the accept that is running
          disk,      \* the member's skills folder
          written,   \* skills that were written and validated (history)
          core,      \* what the app was handed of a memory
          restarts   \* restarts so far

vars == <<prop, file, used, latest, asides, logOk, op, disk, written, core,
          restarts>>
stores == <<prop, file>>
log == <<latest, asides, logOk>>
effects == <<disk, written, core>>
kept == <<used, restarts>>

State(p) == IF prop[p] = None THEN "none" ELSE prop[p].state
AwaitsDecision(q) == q # None /\ q.state \in {"proposed", "failed"}
Awaiting(p) == AwaitsDecision(prop[p])
Shown(q) == q.pending \cup q.contra

-----------------------------------------------------------------------------
(* What a proposal clashes with.                                           *)

\* Another proposal on the same name or key.
Rivals(p) == {q \in Proposals \ {p} : prop[q] # None /\ Subject[q] = Subject[p]}

\* A memory whose persist failed was accepted too: core may hold it already.
AcceptedPersisted(q) == q \in Memories /\ State(q) = "persisted"
Accepted(q) == q \in Memories /\ State(q) \in {"persisted", "failed"}

PendingRivals(p) == {q \in Rivals(p) : Awaiting(q) /\ ~Accepted(q)}
Contradicted(p, known) ==
  {q \in Rivals(p) : Accepted(q)}
    \cup {k \in known : Subject[k] = Subject[p]}

AlreadyKnown(p, known) ==
  \/ p \in Skills /\ disk[Subject[p]] = Content[p]
  \/ \E q \in PendingRivals(p) \cup Contradicted(p, known) :
       Content[q] = Content[p]

\* A different skill of this name is in the folder.
Blocked(p) == p \in Skills /\ disk[Subject[p]] # None

\* Contradictions of the first look are kept, clashes that went away are not.
Refreshed(p) ==
  [prop[p] EXCEPT
     !.pending = PendingRivals(p),
     !.contra = Contradicted(p, {}) \cup (prop[p].contra \ PendingRivals(p))]

-----------------------------------------------------------------------------
(* The two stores.                                                         *)

\* The oldest decided proposals beyond the limit go.
Pruned(m) ==
  LET decided == {p \in Proposals : m[p] # None /\ ~AwaitsDecision(m[p])}
      newer(p) == {q \in decided : m[q].made > m[p].made}
  IN [p \in Proposals |->
        IF p \in decided /\ Cardinality(newer(p)) >= MaxKept THEN None
        ELSE m[p]]

\* Pruned in memory, then written; a failed write leaves the old file.
Save(m) == /\ prop' = Pruned(m)
           /\ file' \in {file, prop'}

\* An append is kept, or reported as failed with the record whole or torn on
\* disk (and the log then refuses everything until it is opened again).  An
\* append that failed and was rolled back changes nothing.
Record(p, decision, fate) ==
  /\ logOk
  /\ latest' = IF fate = "torn" THEN latest
               ELSE [latest EXCEPT ![p] = decision]
  /\ logOk' = (fate = "kept")
Fates == {"kept", "whole", "torn"}

Denial == [kind |-> "denied", kept |-> None, completed |-> FALSE]
Approval == [kind |-> "accepted", kept |-> None, completed |-> FALSE]
Publication == [kind |-> "publish", kept |-> None, completed |-> FALSE]
Retraction(k) == [kind |-> "resolved", kept |-> k, completed |-> FALSE]

-----------------------------------------------------------------------------
Init ==
  /\ prop = [p \in Proposals |-> None]
  /\ file = [p \in Proposals |-> None]
  /\ used = {}
  /\ latest = [p \in Proposals |-> None]
  /\ asides = {}
  /\ logOk = TRUE
  /\ op = None
  /\ disk = [n \in Names |-> None]
  /\ written = {}
  /\ core = [m \in Memories |-> None]
  /\ restarts = 0

\* The lock is held for a whole operation; only an accept is taken apart.
Free == op = None

\* A proposal is not a decision: one that cannot be saved is forgotten.
Propose(p, known) ==
  /\ Free /\ p \notin used /\ Cardinality(used) < MaxProposed
  /\ Cardinality({q \in Proposals : Awaiting(q)}) < MaxPending
  /\ ~AlreadyKnown(p, known)
  /\ LET new == [state |-> "proposed", kept |-> None,
                 made |-> Cardinality(used) + 1,
                 pending |-> PendingRivals(p),
                 contra |-> Contradicted(p, known),
                 setAside |-> {}]
         all == Pruned([prop EXCEPT ![p] = new])
     IN \/ prop' = all /\ file' = all
        \/ prop' = [all EXCEPT ![p] = None] /\ UNCHANGED file
  /\ used' = used \cup {p}
  /\ UNCHANGED <<log, op, effects, restarts>>

Reject(p) ==
  /\ Free /\ Awaiting(p)
  /\ \E fate \in Fates :
       /\ Record(p, Denial, fate)
       /\ IF fate = "kept" THEN Save([prop EXCEPT ![p].state = "rejected"])
          ELSE UNCHANGED stores
  /\ UNCHANGED <<kept, asides, op, effects>>

\* The member acknowledges the clashes this proposal last showed them.  The
\* fresh look replaces them whatever it finds.
GoesOnRegardless(fate) == fate \in Fates
GoesOn(fate) == fate = "kept"

Accept(p) ==
  /\ Free /\ Awaiting(p) /\ ~AlreadyKnown(p, {})
  /\ prop' = [prop EXCEPT ![p] = Refreshed(p)]
  /\ IF Blocked(p) \/ ~(Shown(Refreshed(p)) \subseteq Shown(prop[p]))
     THEN UNCHANGED <<log, op>>
     ELSE /\ \E fate \in Fates :
               /\ Record(p, Approval, fate)
               /\ op' = IF GoesOn(fate)
                        THEN [of |-> p,
                              stage |-> IF p \in Skills THEN "recorded"
                                        ELSE "ended",
                              ok |-> p \in Memories]
                        ELSE None
          /\ UNCHANGED asides
  /\ UNCHANGED <<file, kept, effects>>

At(stage) == op # None /\ op.stage = stage

\* Staged in a hidden folder and renamed into place, unless the name is taken
\* by now or the disk refuses.
WriteSkill ==
  /\ At("recorded")
  /\ LET n == Subject[op.of] IN
     \/ /\ disk[n] = None
        /\ disk' = [disk EXCEPT ![n] = Content[op.of]]
        /\ op' = [op EXCEPT !.stage = "written"]
     \/ /\ op' = [op EXCEPT !.stage = "ended"]
        /\ UNCHANGED disk
  /\ UNCHANGED <<stores, kept, log, written, core>>

\* Read back through the loader the agent uses; what does not load is removed.
ValidateSkill ==
  /\ At("written")
  /\ LET n == Subject[op.of] IN
     \/ /\ disk[n] = Content[op.of]
        /\ written' = written \cup {op.of}
        /\ op' = [op EXCEPT !.stage = "ended", !.ok = TRUE]
        /\ UNCHANGED disk
     \/ /\ disk' = [disk EXCEPT ![n] = None]
        /\ op' = [op EXCEPT !.stage = "ended"]
        /\ UNCHANGED written
  /\ UNCHANGED <<stores, kept, log, core>>

\* The outcome closes the decision, or the append fails.
CloseDecision ==
  /\ At("ended")
  /\ \/ \E fate \in Fates :
          /\ Record(op.of, [latest[op.of] EXCEPT !.completed = op.ok], fate)
          /\ op' = [op EXCEPT !.stage = IF fate = "kept" THEN "closed"
                                        ELSE "unclosed"]
     \/ op' = [op EXCEPT !.stage = "unclosed"] /\ UNCHANGED <<latest, logOk>>
  /\ UNCHANGED <<stores, kept, asides, effects>>

\* The state follows the effect even when the decision was not closed; the
\* memory's record goes only with the answer of a call that succeeded, and
\* the answer may not arrive.
FinishAccept ==
  /\ At("closed") \/ At("unclosed")
  /\ Save([prop EXCEPT ![op.of].state = IF op.ok THEN "persisted" ELSE "failed"])
  /\ op' = None
  /\ \/ UNCHANGED core
     \/ /\ At("closed") /\ op.of \in Memories
        /\ core' = [core EXCEPT ![op.of] =
                     [contra |-> prop[op.of].contra,
                      dropped |-> {m \in Memories \cap used : prop[m] = None}]]
  /\ UNCHANGED <<kept, log, disk, written>>

\* What follows a recorded decision of resolve and publish: the save, then an
\* outcome whose append may break the log.
Decided(p, decision, next) ==
  \E fate \in Fates :
    \/ Record(p, decision, fate) /\ IF fate = "kept" THEN Save(next)
                                    ELSE UNCHANGED stores
    \/ /\ fate = "whole" /\ Record(p, decision, fate) /\ Save(next)

\* Keep k, retract d: both accepted and still standing.
Resolve(k, d) ==
  /\ Free
  /\ State(k) = "persisted" /\ State(d) = "persisted"
  /\ Subject[k] = Subject[d] /\ Content[k] # Content[d]
  /\ Decided(d, Retraction(k),
             [prop EXCEPT ![d].state = "retracted", ![d].kept = k])
  /\ UNCHANGED <<kept, asides, op, effects>>

\* m's accept acknowledged that it contradicts k, which the app held before.
MayResolveKnown(m, k) ==
  /\ Free /\ State(m) = "persisted"
  /\ k \in prop[m].contra \ prop[m].setAside

KeepKnown(m, k) ==
  /\ MayResolveKnown(m, k)
  /\ Decided(m, Retraction(k),
             [prop EXCEPT ![m].state = "retracted", ![m].kept = k])
  /\ UNCHANGED <<kept, asides, op, effects>>

\* No decision about m itself: the log keeps the pair.
SetKnownAside(m, k) ==
  /\ MayResolveKnown(m, k) /\ logOk
  /\ \/ /\ asides' = asides \cup {<<m, k>>} /\ logOk' \in BOOLEAN
        /\ Save([prop EXCEPT ![m].setAside = @ \cup {k}])
     \/ /\ asides' \in {asides, asides \cup {<<m, k>>}} /\ logOk' = FALSE
        /\ UNCHANGED stores
  /\ UNCHANGED <<kept, latest, op, effects>>

\* Only the bytes that were accepted are published.
PreparePublish(s) ==
  /\ Free
  /\ State(s) \in {"persisted", "prepared"}
  /\ disk[Subject[s]] = Content[s]
  /\ Decided(s, Publication, [prop EXCEPT ![s].state = "prepared"])
  /\ UNCHANGED <<kept, asides, op, effects>>

\* The member's own hand on the skills folder.
MemberEdits(n) ==
  /\ disk' \in {[disk EXCEPT ![n] = Mine], [disk EXCEPT ![n] = None]}
  /\ UNCHANGED <<stores, kept, log, op, written, core>>

-----------------------------------------------------------------------------
(* A restart: the file, moved forward by the log.                          *)

OnDisk(s) == disk[Subject[s]] = Content[s]

Forward(p) ==
  LET q == file[p]
      d == latest[p]
      to(s) == [q EXCEPT !.state = s]
  IN IF q = None \/ d = None THEN q
     ELSE CASE d.kind = "denied" /\ AwaitsDecision(q) -> to("rejected")
            [] d.kind = "accepted" /\ q.state = "proposed" ->
                 to(IF p \in Skills /\ d.completed /\ OnDisk(p)
                    THEN "persisted" ELSE "failed")
            [] d.kind = "publish" /\ q.state = "persisted" -> to("prepared")
            [] d.kind = "resolved"
               /\ q.state \in {"proposed", "failed", "persisted"} ->
                 [to("retracted") EXCEPT !.kept = d.kept]
            [] OTHER -> q

WithAsides(p, q) ==
  IF q = None \/ p \notin Memories THEN q
  ELSE [q EXCEPT !.setAside = @ \cup {k \in Known : <<p, k>> \in asides}]

\* What a bug in reconciling would make of it: a denial of a proposal whose
\* persist failed is missed, whatever is on disk counts as persisted,
\* resolutions or the known memories set aside are left to the file.
ReconcileProposed(p) ==
  IF file[p] # None /\ file[p].state = "failed" THEN WithAsides(p, file[p])
  ELSE WithAsides(p, Forward(p))
ReconcileByDisk(p) ==
  LET q == Forward(p)
  IN IF p \in Skills /\ AwaitsDecision(q) /\ OnDisk(p)
     THEN [q EXCEPT !.state = "persisted"] ELSE WithAsides(p, q)
ReconcileResolved(p) ==
  IF latest[p] # None /\ latest[p].kind = "resolved" THEN file[p]
  ELSE WithAsides(p, Forward(p))
ReconcileLatest(p) == Forward(p)

Reconcile(p) == WithAsides(p, Forward(p))

\* The process stops, in the middle of an accept or not, and opens again.
Restart ==
  /\ restarts < MaxRestarts /\ restarts' = restarts + 1
  /\ LET found == [p \in Proposals |-> Reconcile(p)]
     IN IF found = file THEN prop' = file /\ UNCHANGED file
        ELSE Save(found)
  /\ op' = None /\ logOk' = TRUE
  /\ UNCHANGED <<used, latest, asides, effects>>

Next ==
  \/ \E p \in Proposals, known \in SUBSET Known : Propose(p, known)
  \/ \E p \in Proposals : Reject(p) \/ Accept(p)
  \/ WriteSkill \/ ValidateSkill \/ CloseDecision \/ FinishAccept
  \/ \E k, d \in Memories : k # d /\ Resolve(k, d)
  \/ \E m \in Memories, k \in Known : KeepKnown(m, k) \/ SetKnownAside(m, k)
  \/ \E s \in Skills : PreparePublish(s)
  \/ \E n \in Names : MemberEdits(n)
  \/ Restart

Spec == Init /\ [][Next]_vars
-----------------------------------------------------------------------------
TypeOK ==
  /\ prop \in [Proposals -> Records \cup {None}]
  /\ file \in [Proposals -> Records \cup {None}]
  /\ used \subseteq Proposals /\ IsFiniteSet(used)
  /\ latest \in [Proposals -> Decisions \cup {None}]
  /\ asides \subseteq Memories \X Known
  /\ logOk \in BOOLEAN /\ restarts \in 0..MaxRestarts
  /\ op \in Accepts \cup {None}
  /\ op # None /\ op.stage \in {"recorded", "written"} => op.of \in Skills
  /\ disk \in [Names -> {None, Mine} \cup {Content[s] : s \in Skills}]
  /\ written \subseteq Skills
  /\ core \in [Memories -> Handed \cup {None}]

(***************************************************************************)
(* After any restart, whatever saves were lost, the member sees what they  *)
(* decided: "a recorded reject is final", a recorded resolution has        *)
(* retracted its memory, and a known memory set aside is listed            *)
(* (learner.rs:583-589, 715).  While the log refuses records this waits    *)
(* for the restart that must come first.                                   *)
(***************************************************************************)
MemberSeesDecisions ==
  op = None /\ logOk =>
    \A p \in Proposals : prop[p] # None =>
      /\ latest[p] # None =>
           /\ latest[p].kind = "denied" => prop[p].state = "rejected"
           /\ latest[p].kind = "resolved" =>
                /\ prop[p].state = "retracted"
                /\ prop[p].kept = latest[p].kept
      /\ {k \in Known : <<p, k>> \in asides} \subseteq prop[p].setAside

(***************************************************************************)
(* What the member sees as kept was kept and what was kept was approved:   *)
(* a skill shown as persisted was written and read back by this learner,   *)
(* even when the process stopped inside its accept, and nothing is written *)
(* or handed to the app before a decision about it is in the log           *)
(* (learner.rs:583-586, 1184-1188).                                        *)
(***************************************************************************)
KeptIsReal ==
  /\ \A s \in Skills : State(s) \in {"persisted", "prepared"} => s \in written
  /\ \A s \in Skills : s \in written => latest[s] # None
  /\ \A m \in Memories : core[m] # None => latest[m] # None

(***************************************************************************)
(* Two memories on one key with different values never both reach the app  *)
(* as plainly true: unless the member decided against one of them, or the  *)
(* limit on decided proposals had dropped it, one of the two records names *)
(* the other, also when a crash left one of them to be accepted again      *)
(* (learner.rs:899-906).                                                   *)
(***************************************************************************)
DecidedAgainst(m) ==
  latest[m] # None /\ latest[m].kind \in {"denied", "resolved"}

NoSilentMerge ==
  \A m, n \in Memories :
    /\ m # n /\ Subject[m] = Subject[n]
    /\ core[m] # None /\ core[n] # None
    /\ m \notin core[n].dropped /\ n \notin core[m].dropped
    /\ ~DecidedAgainst(m) /\ ~DecidedAgainst(n)
    => m \in core[n].contra \/ n \in core[m].contra

(***************************************************************************)
(* Resolving a contradiction keeps a side: no set of memories was          *)
(* retracted each in favour of another of the set, across any restarts     *)
(* (learner.rs:696-706, 1342-1346).                                        *)
(***************************************************************************)
OneSideStands ==
  \A gone \in SUBSET Memories : gone # {} =>
    \E m \in gone :
      ~(latest[m] # None /\ latest[m].kind = "resolved"
                        /\ latest[m].kept \in gone)

(***************************************************************************)
(* A denial and a resolution are the last decision about their proposal:   *)
(* a restart with an older file never offers it again (learner.rs:669-671, *)
(* 696-706).                                                               *)
(***************************************************************************)
DecisionsAreFinal ==
  [][\A p \in Proposals :
       latest[p] # None /\ latest[p].kind \in {"denied", "resolved"}
         => latest'[p] = latest[p]]_vars

\* Both: a contradiction between accepted memories is visible to the app until it
\* is resolved, and then exactly one side of it went.
ContradictionsHold == NoSilentMerge /\ OneSideStands

-----------------------------------------------------------------------------
(* Statements of the documentation the code does not keep; no run of the   *)
(* project checks them, the README says what breaks each.                  *)

\* learner.rs:586: "a recorded publish is prepared".
PublishIsPrepared ==
  op = None /\ logOk =>
    \A s \in Skills : prop[s] # None /\ latest[s] # None
                       /\ latest[s].kind = "publish"
                         => prop[s].state = "prepared"

\* learner.rs:116: "Accepted, but persisting failed; the member may accept
\* again".
MayAcceptAgain ==
  op = None /\ logOk =>
    \A p \in Proposals : State(p) = "failed" => ~AlreadyKnown(p, {})

\* learner.rs:826: a skill in the member's folder "is never overwritten".
NeverOverwritten ==
  [][\A n \in Names : disk[n] = Mine /\ op # None /\ op' # op
                         => disk'[n] = Mine]_vars
=============================================================================
