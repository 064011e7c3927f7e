------------------------- MODULE LearningStore_proofs -------------------------
(***************************************************************************)
(* The learner for any proposals, names, limits, lost saves, failing       *)
(* appends, edits of the folder and restarts: type correctness,            *)
(* MemberSeesDecisions, KeptIsReal, ContradictionsHold and                 *)
(* DecisionsAreFinal.                                                      *)
(*                                                                         *)
(* None of the four is inductive.  The map in memory and the file may both *)
(* be behind the log, and the file behind the map, so the invariant says   *)
(* of each how far: what the log says of a proposal is a decision that     *)
(* opening again can still carry out on the copy (Agrees), the file's copy *)
(* is not ahead of the map's (Behind), and while the log takes records the *)
(* map is behind it by nothing but the accept that is running (CaughtUp).  *)
(* Of that accept it says that its decision is recorded, that what it      *)
(* reports as written was, and that a memory's record already names every  *)
(* memory the app holds of the same key.                                   *)
(***************************************************************************)
EXTENDS LearningStore, FiniteSetTheorems, TLAPS

Is(p, kind) == latest[p] # None /\ latest[p].kind = kind
AcceptRuns(p) == op # None /\ op.of = p
AsidesOf(p) == {k \in Known : <<p, k>> \in asides}

\* Opening again with q as the copy of p in the file can carry out what the
\* log says of p, and q claims nothing the log does not know of.
Agrees(p, q) ==
  /\ q.state = "rejected" => Is(p, "denied")
  /\ q.state = "retracted" => Is(p, "resolved") /\ q.kept = latest[p].kept
  /\ Is(p, "denied") => q.state \in {"proposed", "failed", "rejected"}
  /\ Is(p, "resolved") =>
       q.state \in {"proposed", "failed", "persisted", "retracted"}
  /\ p \in Memories => q.state # "prepared"
  /\ p \in Skills /\ q.state \in {"persisted", "prepared"} => p \in written

\* A copy in state s of the file is not ahead of one in state r of the map.
Behind(s, r) ==
  /\ r \in {"proposed", "failed"} => s \in {"proposed", "failed"}
  /\ r = "persisted" => s \in {"proposed", "failed", "persisted"}

CaughtUp(p, q) ==
  /\ Is(p, "denied") => q.state = "rejected"
  /\ Is(p, "resolved") => q.state = "retracted"
  /\ p \in Memories /\ Is(p, "accepted") /\ ~AcceptRuns(p)
       => q.state # "proposed"
  /\ AsidesOf(p) \subseteq q.setAside

\* What the log itself says of p.
Logged(p) ==
  /\ p \in Memories => ~Is(p, "publish")
  /\ p \in Skills /\ latest[p] # None /\ latest[p].completed => p \in written
  /\ p \in written => latest[p] # None

Untouched(p) ==
  prop[p] = None /\ file[p] = None /\ latest[p] = None /\ AsidesOf(p) = {}

Good(p) ==
  /\ p \notin used => Untouched(p)
  /\ prop[p] # None => Agrees(p, prop[p])
  /\ file[p] # None => Agrees(p, file[p])
  /\ prop[p] # None /\ file[p] # None => Behind(file[p].state, prop[p].state)
  /\ prop[p] # None /\ logOk => CaughtUp(p, prop[p])
  /\ Logged(p)

\* The memories the app holds on m's key as plainly true.
Plain(m) == {n \in Memories \ {m} :
  core[n] # None /\ Subject[n] = Subject[m] /\ prop[n] # None /\ ~DecidedAgainst(n)}

OpInv ==
  op # None =>
    /\ Awaiting(op.of) /\ Is(op.of, "accepted")
    /\ op.of \in Skills /\ op.ok => op.of \in written
    /\ op.of \in Memories => Plain(op.of) \subseteq prop[op.of].contra

CoreInv == \A m \in Memories : core[m] # None => m \in used /\ latest[m] # None

LearnInv ==
  /\ \A p \in Proposals : Good(p)
  /\ OpInv /\ CoreInv /\ NoSilentMerge /\ OneSideStands

Copies == [Proposals -> Records \cup {None}]

-----------------------------------------------------------------------------
(* Records, and what a save does to the two stores.                        *)

LEMMA MovedRecord ==
  ASSUME NEW q \in Records, NEW s \in States
  PROVE  /\ [q EXCEPT !.state = s] \in Records
         /\ [q EXCEPT !.state = s].state = s
         /\ \A f \in {"kept", "contra", "setAside"} : [q EXCEPT !.state = s][f] = q[f]
  BY DEF Records

\* Moving one proposal to another state changes no other.
LEMMA Moved ==
  ASSUME TypeOK, NEW p \in Proposals, prop[p] # None, NEW s \in States
  PROVE  LET m == [prop EXCEPT ![p].state = s]
         IN /\ m \in Copies
            /\ m[p] \in Records /\ m[p].state = s /\ m[p].kept = prop[p].kept
            /\ m[p].setAside = prop[p].setAside /\ m[p].contra = prop[p].contra
            /\ \A r \in Proposals \ {p} : m[r] = prop[r]
<1> DEFINE q == [prop[p] EXCEPT !.state = s]
<1>1. prop \in Copies /\ prop[p] \in Records
  BY DEF TypeOK, Copies
<1>2. [prop EXCEPT ![p].state = s] = [prop EXCEPT ![p] = q]
  BY <1>1 DEF Copies
<1>3. /\ q \in Records /\ q.state = s /\ q.kept = prop[p].kept
      /\ q.setAside = prop[p].setAside /\ q.contra = prop[p].contra
  BY <1>1 DEF Records
<1> HIDE DEF q
<1> QED BY <1>1, <1>2, <1>3 DEF Copies

\* Retracting one proposal in favour of a side.
LEMMA Retracted ==
  ASSUME TypeOK, NEW p \in Proposals, prop[p] # None, NEW k \in Sides
  PROVE  LET m == [prop EXCEPT ![p].state = "retracted", ![p].kept = k]
         IN /\ m \in Copies
            /\ m[p] \in Records
            /\ m[p].state = "retracted" /\ m[p].kept = k
            /\ m[p].setAside = prop[p].setAside /\ m[p].contra = prop[p].contra
            /\ \A r \in Proposals \ {p} : m[r] = prop[r]
<1> DEFINE q == [prop[p] EXCEPT !.state = "retracted", !.kept = k]
<1>1. prop \in Copies /\ prop[p] \in Records
  BY DEF TypeOK, Copies
<1>2. [prop EXCEPT ![p].state = "retracted", ![p].kept = k] = [prop EXCEPT ![p] = q]
  BY <1>1 DEF Copies
<1>3. /\ q \in Records /\ q.state = "retracted" /\ q.kept = k
      /\ q.setAside = prop[p].setAside /\ q.contra = prop[p].contra
  BY <1>1 DEF Records, States
<1> HIDE DEF q
<1> QED BY <1>1, <1>2, <1>3 DEF Copies

LEMMA ListedAside ==
  ASSUME TypeOK, NEW p \in Proposals, prop[p] # None, NEW k \in Known
  PROVE  LET m == [prop EXCEPT ![p].setAside = @ \cup {k}]
         IN /\ m \in Copies
            /\ m[p] \in Records
            /\ m[p].state = prop[p].state /\ m[p].kept = prop[p].kept
            /\ m[p].setAside = prop[p].setAside \cup {k}
            /\ m[p].contra = prop[p].contra
            /\ \A r \in Proposals \ {p} : m[r] = prop[r]
<1> DEFINE q == [prop[p] EXCEPT !.setAside = @ \cup {k}]
<1>1. prop \in Copies /\ prop[p] \in Records
  BY DEF TypeOK, Copies
<1>2. [prop EXCEPT ![p].setAside = @ \cup {k}] = [prop EXCEPT ![p] = q]
  BY <1>1 DEF Copies
<1>3. /\ q \in Records /\ q.state = prop[p].state /\ q.kept = prop[p].kept
      /\ q.setAside = prop[p].setAside \cup {k} /\ q.contra = prop[p].contra
  BY <1>1 DEF Records
<1> HIDE DEF q
<1> QED BY <1>1, <1>2, <1>3 DEF Copies

\* Pruning drops proposals and changes none.
LEMMA PruneOnlyDrops ==
  ASSUME NEW m \in Copies
  PROVE  Pruned(m) \in Copies /\ \A p \in Proposals : Pruned(m)[p] \in {None, m[p]}
  BY DEF Pruned, Copies

LEMMA SaveFacts ==
  ASSUME TypeOK, NEW m \in Copies, Save(m)
  PROVE  /\ prop' \in Copies /\ file' \in Copies
         /\ \A p \in Proposals : /\ prop'[p] \in {None, m[p]}
                                 /\ file'[p] \in {file[p], prop'[p]}
<1>1. file \in Copies
  BY DEF TypeOK, Copies
<1> QED BY <1>1, PruneOnlyDrops DEF Save

LEMMA RefreshedFacts ==
  ASSUME TypeOK, NEW p \in Proposals, prop[p] # None
  PROVE  /\ Refreshed(p) \in Records
         /\ Refreshed(p).state = prop[p].state /\ Refreshed(p).kept = prop[p].kept
         /\ Refreshed(p).setAside = prop[p].setAside
         /\ Contradicted(p, {}) \subseteq Refreshed(p).contra
<1>1. prop[p] \in Records
  BY DEF TypeOK
<1>2. PendingRivals(p) \subseteq Proposals /\ Contradicted(p, {}) \subseteq Sides
  BY DEF PendingRivals, Contradicted, Rivals, Accepted, Sides
<1> QED BY <1>1, <1>2 DEF Refreshed, Records

\* What a restart makes of the file's copy of a proposal.
LEMMA ForwardFacts ==
  ASSUME TypeOK, NEW p \in Proposals
  PROVE  /\ file[p] = None => Reconcile(p) = None
         /\ file[p] # None =>
              /\ Reconcile(p) \in Records
              /\ Reconcile(p).state = Forward(p).state
              /\ Reconcile(p).kept = Forward(p).kept
              /\ AsidesOf(p) \subseteq Reconcile(p).setAside
<1>1. file[p] \in Records \cup {None} /\ latest[p] \in Decisions \cup {None}
  BY DEF TypeOK
<1>2. ASSUME file[p] # None PROVE Forward(p) \in Records
  <2>1. \A s \in States : [file[p] EXCEPT !.state = s] \in Records
    BY <1>1, <1>2, MovedRecord
  <2>2. ASSUME latest[p] # None
        PROVE  [[file[p] EXCEPT !.state = "retracted"] EXCEPT !.kept = latest[p].kept] \in Records
    <3>1. latest[p].kept \in Sides \cup {None}
      BY <1>1, <2>2 DEF Decisions
    <3> QED BY <1>1, <1>2, <3>1 DEF Records, States
  <2> QED BY <1>1, <1>2, <2>1, <2>2 DEF Forward, States
<1>3. CASE file[p] = None
  BY <1>3 DEF Reconcile, WithAsides, Forward
<1>4. CASE file[p] # None
  <2> DEFINE q == Forward(p)
  <2>1. q \in Records /\ q # None
    BY <1>2, <1>4, NoneIsNothing
  <2>2. CASE p \notin Memories
    <3>1. AsidesOf(p) = {}
      BY <2>2 DEF AsidesOf, TypeOK
    <3> QED BY <1>4, <2>1, <2>2, <3>1 DEF Reconcile, WithAsides
  <2>3. CASE p \in Memories
    <3>1. Reconcile(p) = [q EXCEPT !.setAside = @ \cup AsidesOf(p)]
      BY <2>1, <2>3 DEF Reconcile, WithAsides, AsidesOf
    <3>2. AsidesOf(p) \subseteq Known
      BY DEF AsidesOf
    <3> HIDE DEF q
    <3>3. /\ [q EXCEPT !.setAside = @ \cup AsidesOf(p)] \in Records
          /\ [q EXCEPT !.setAside = @ \cup AsidesOf(p)].state = q.state
          /\ [q EXCEPT !.setAside = @ \cup AsidesOf(p)].kept = q.kept
          /\ [q EXCEPT !.setAside = @ \cup AsidesOf(p)].setAside = q.setAside \cup AsidesOf(p)
      BY <2>1, <3>2 DEF Records
    <3> QED BY <1>4, <3>1, <3>3 DEF q
  <2> QED BY <2>2, <2>3
<1> QED BY <1>3, <1>4

\* What it finds in the file, moved forward, is typed.
LEMMA FoundType == TypeOK => [p \in Proposals |-> Reconcile(p)] \in Copies
  BY ForwardFacts DEF Copies

\* A restart keeps, of each proposal, what was found or nothing.
LEMMA RestartFacts ==
  ASSUME TypeOK, Restart
  PROVE  /\ prop' \in Copies /\ file' \in Copies
         /\ \A p \in Proposals : /\ prop'[p] \in {None, Reconcile(p)}
                                 /\ file'[p] \in {file[p], prop'[p]}
<1> DEFINE found == [p \in Proposals |-> Reconcile(p)]
<1>1. found \in Copies /\ file \in Copies
  BY FoundType DEF TypeOK, Copies
<1>2. (prop' = found /\ file' = found /\ found = file) \/ Save(found)
  BY DEF Restart
<1>3. CASE prop' = found /\ file' = found /\ found = file
  BY <1>1, <1>3
<1>4. CASE Save(found)
  <2> HIDE DEF found
  <2>1. /\ prop' \in Copies /\ file' \in Copies
        /\ \A p \in Proposals : prop'[p] \in {None, found[p]} /\ file'[p] \in {file[p], prop'[p]}
    BY <1>1, <1>4, SaveFacts
  <2> QED BY <2>1 DEF found
<1> QED BY <1>2, <1>3, <1>4

-----------------------------------------------------------------------------
(* Types.                                                                  *)

LEMMA DecisionTypes ==
  /\ Denial \in Decisions /\ Approval \in Decisions /\ Publication \in Decisions
  /\ \A k \in Sides : Retraction(k) \in Decisions
  BY DEF Denial, Approval, Publication, Retraction, Decisions

LEMMA RecordType ==
  ASSUME TypeOK, NEW p \in Proposals, NEW d \in Decisions, NEW fate \in Fates,
         Record(p, d, fate)
  PROVE  latest' \in [Proposals -> Decisions \cup {None}] /\ logOk' \in BOOLEAN
  BY DEF TypeOK, Record

LEMMA InitType == Init => TypeOK
<1> SUFFICES ASSUME Init PROVE TypeOK
  OBVIOUS
<1>1. IsFiniteSet(used) /\ 0 \in 0..MaxRestarts
  BY FS_EmptySet, LimitsAreNumbers DEF Init
<1> QED BY <1>1 DEF Init, TypeOK

LEMMA ProposeType ==
  ASSUME TypeOK, NEW p \in Proposals, NEW known \in SUBSET Known, Propose(p, known)
  PROVE  TypeOK'
<1> DEFINE new == [state |-> "proposed", kept |-> None,
                   made |-> Cardinality(used) + 1,
                   pending |-> PendingRivals(p),
                   contra |-> Contradicted(p, known),
                   setAside |-> {}]
           all == Pruned([prop EXCEPT ![p] = new])
<1>1. new \in Records
  <2>1. Cardinality(used) \in Nat /\ MaxProposed \in Nat /\ Cardinality(used) < MaxProposed
    BY FS_CardinalityType, LimitsAreNumbers DEF TypeOK, Propose
  <2>2. PendingRivals(p) \subseteq Proposals /\ Contradicted(p, known) \subseteq Sides
    BY DEF PendingRivals, Contradicted, Rivals, Accepted, Sides
  <2> QED BY <2>1, <2>2 DEF Records, States
<1>2. prop' \in {all, [all EXCEPT ![p] = None]} /\ file' \in {file, all}
  BY DEF Propose
<1> HIDE DEF new
<1>3. [prop EXCEPT ![p] = new] \in Copies /\ file \in Copies
  BY <1>1 DEF TypeOK, Copies
<1>4. all \in Copies
  BY <1>3, PruneOnlyDrops
<1> HIDE DEF all
<1>5. prop' \in Copies /\ file' \in Copies
  BY <1>2, <1>3, <1>4 DEF Copies
<1>6. IsFiniteSet(used') /\ used' \subseteq Proposals
  BY FS_AddElement DEF TypeOK, Propose
<1> QED BY <1>5, <1>6 DEF TypeOK, Propose, log, effects, Copies

LEMMA RejectType ==
  ASSUME TypeOK, NEW p \in Proposals, Reject(p) PROVE TypeOK'
<1> PICK fate \in Fates :
      /\ Record(p, Denial, fate)
      /\ IF fate = "kept" THEN Save([prop EXCEPT ![p].state = "rejected"])
         ELSE UNCHANGED stores
  BY DEF Reject
<1>1. prop[p] # None
  BY DEF Reject, Awaiting, AwaitsDecision
<1>2. latest' \in [Proposals -> Decisions \cup {None}] /\ logOk' \in BOOLEAN
  BY RecordType, DecisionTypes
<1>3. prop' \in Copies /\ file' \in Copies
  <2>1. [prop EXCEPT ![p].state = "rejected"] \in Copies
    BY <1>1, Moved DEF States
  <2> QED BY <2>1, SaveFacts DEF stores, TypeOK, Copies
<1> QED BY <1>2, <1>3 DEF TypeOK, Reject, kept, effects, Copies

LEMMA AcceptType ==
  ASSUME TypeOK, NEW p \in Proposals, Accept(p) PROVE TypeOK'
<1>1. prop[p] # None /\ prop' = [prop EXCEPT ![p] = Refreshed(p)]
  BY DEF Accept, Awaiting, AwaitsDecision
<1>2. prop' \in [Proposals -> Records \cup {None}]
  BY <1>1, RefreshedFacts DEF TypeOK
<1>3. CASE UNCHANGED <<log, op>>
  BY <1>2, <1>3 DEF TypeOK, Accept, log, kept, effects
<1>4. CASE UNCHANGED asides /\ \E fate \in Fates :
             /\ Record(p, Approval, fate)
             /\ op' = IF GoesOn(fate)
                      THEN [of |-> p,
                            stage |-> IF p \in Skills THEN "recorded" ELSE "ended",
                            ok |-> p \in Memories]
                      ELSE None
  <2>1. latest' \in [Proposals -> Decisions \cup {None}] /\ logOk' \in BOOLEAN
    BY <1>4, RecordType, DecisionTypes
  <2>2. op' \in Accepts \cup {None}
    BY <1>4 DEF Accepts
  <2> QED BY <1>2, <1>4, <2>1, <2>2 DEF TypeOK, Accept, kept, effects
<1> QED BY <1>3, <1>4 DEF Accept

\* The accept that is running, at another stage.
LEMMA Staged ==
  ASSUME TypeOK, op # None,
         NEW s \in {"recorded", "written", "ended", "closed", "unclosed"}
  PROVE  /\ op \in Accepts /\ [op EXCEPT !.stage = s] \in Accepts
         /\ [op EXCEPT !.stage = s].of = op.of /\ [op EXCEPT !.stage = s].ok = op.ok
         /\ [op EXCEPT !.stage = s].stage = s
  BY DEF TypeOK, Accepts

LEMMA WriteType == TypeOK /\ WriteSkill => TypeOK'
<1> SUFFICES ASSUME TypeOK, WriteSkill PROVE TypeOK'
  OBVIOUS
<1>1. op # None /\ op' \in {[op EXCEPT !.stage = "written"], [op EXCEPT !.stage = "ended"]}
  BY DEF WriteSkill, At
<1>2. op' \in Accepts /\ op' # None
  BY <1>1, Staged, NoneIsNothing
<1>3. disk' \in [Names -> {None, Mine} \cup {Content[s] : s \in Skills}]
  BY DEF WriteSkill, At, TypeOK
<1>4. op'.stage \in {"recorded", "written"} => op'.of \in Skills
  BY <1>1, Staged DEF WriteSkill, At, TypeOK
<1> QED BY <1>2, <1>3, <1>4 DEF WriteSkill, TypeOK, stores, kept, log

LEMMA ValidateType == TypeOK /\ ValidateSkill => TypeOK'
<1> SUFFICES ASSUME TypeOK, ValidateSkill PROVE TypeOK'
  OBVIOUS
<1>1. op # None /\ op.of \in Skills
  BY DEF ValidateSkill, At, TypeOK
<1>2. /\ [op EXCEPT !.stage = "ended", !.ok = TRUE] \in Accepts
      /\ [op EXCEPT !.stage = "ended", !.ok = TRUE].stage = "ended"
  BY <1>1 DEF TypeOK, Accepts
<1>3. op' \in Accepts /\ op'.stage = "ended"
  BY <1>1, <1>2, Staged DEF ValidateSkill
<1>4. disk' \in [Names -> {None, Mine} \cup {Content[s] : s \in Skills}]
  BY DEF ValidateSkill, TypeOK
<1>5. written' \subseteq Skills
  BY <1>1 DEF ValidateSkill, TypeOK
<1> QED BY <1>3, <1>4, <1>5, NoneIsNothing DEF ValidateSkill, TypeOK, stores, kept, log

LEMMA CloseType ==
  ASSUME TypeOK, CloseDecision, latest[op.of] # None PROVE TypeOK'
<1>1. op # None /\ op.of \in Proposals /\ op.ok \in BOOLEAN
  BY DEF CloseDecision, At, TypeOK, Accepts
<1>2. [latest[op.of] EXCEPT !.completed = op.ok] \in Decisions
  BY <1>1 DEF TypeOK, Decisions
<1>3. latest' \in [Proposals -> Decisions \cup {None}] /\ logOk' \in BOOLEAN
  BY <1>1, <1>2, RecordType DEF CloseDecision, TypeOK
<1>4. op' \in {[op EXCEPT !.stage = "closed"], [op EXCEPT !.stage = "unclosed"]}
  BY DEF CloseDecision
<1>5. op' \in Accepts /\ op'.stage \in {"closed", "unclosed"}
  BY <1>1, <1>4, Staged
<1> QED BY <1>3, <1>5 DEF CloseDecision, TypeOK, stores, kept, effects

LEMMA FinishType ==
  ASSUME TypeOK, FinishAccept, prop[op.of] # None PROVE TypeOK'
<1>1. op # None /\ op \in Accepts /\ op.of \in Proposals
  BY DEF FinishAccept, At, TypeOK, Accepts
<1> DEFINE s == IF op.ok THEN "persisted" ELSE "failed"
<1>2. [prop EXCEPT ![op.of].state = s] \in Copies
  BY <1>1, Moved DEF States
<1>3. prop' \in Copies /\ file' \in Copies
  BY <1>2, SaveFacts DEF FinishAccept
<1>4. core' \in [Memories -> Handed \cup {None}]
  <2>1. prop[op.of].contra \subseteq Sides
    BY <1>1 DEF TypeOK, Records
  <2> QED BY <2>1 DEF FinishAccept, TypeOK, Handed
<1> QED BY <1>3, <1>4 DEF FinishAccept, TypeOK, kept, log, Copies

\* A decision of resolve or publish, with the save it allows.
LEMMA DecidedFacts ==
  ASSUME TypeOK, NEW p \in Proposals, NEW d \in Decisions, NEW next \in Copies,
         Decided(p, d, next)
  PROVE  /\ logOk /\ latest' \in [Proposals -> Decisions \cup {None}]
         /\ logOk' \in BOOLEAN
         /\ prop' \in Copies /\ file' \in Copies
         /\ \A r \in Proposals : r # p => latest'[r] = latest[r]
         /\ \/ /\ prop' = prop /\ file' = file /\ logOk' = FALSE
               /\ latest'[p] \in {latest[p], d}
            \/ /\ latest'[p] = d
               /\ \A r \in Proposals : /\ prop'[r] \in {None, next[r]}
                                       /\ file'[r] \in {file[r], prop'[r]}
<1> PICK fate \in Fates :
      \/ Record(p, d, fate) /\ IF fate = "kept" THEN Save(next) ELSE UNCHANGED stores
      \/ fate = "whole" /\ Record(p, d, fate) /\ Save(next)
  BY DEF Decided
<1>1. Record(p, d, fate)
  OBVIOUS
<1>2. /\ logOk /\ latest' \in [Proposals -> Decisions \cup {None}] /\ logOk' \in BOOLEAN
      /\ \A r \in Proposals : r # p => latest'[r] = latest[r]
      /\ latest'[p] \in {latest[p], d}
  BY <1>1 DEF Record, TypeOK
<1>3. CASE fate # "kept" /\ UNCHANGED stores
  <2>1. logOk' = FALSE
    BY <1>1, <1>3 DEF Record
  <2> QED BY <1>2, <1>3, <2>1 DEF stores, TypeOK, Copies
<1>4. CASE fate # "torn" /\ Save(next)
  <2>1. latest'[p] = d
    BY <1>1, <1>4 DEF Record, TypeOK
  <2> QED BY <1>2, <1>4, <2>1, SaveFacts
<1> QED BY <1>3, <1>4 DEF Fates

LEMMA ResolveNext ==
  ASSUME TypeOK, NEW m \in Proposals, prop[m] # None, NEW k \in Sides
  PROVE  [prop EXCEPT ![m].state = "retracted", ![m].kept = k] \in Copies
  BY Retracted

LEMMA ResolveType ==
  ASSUME TypeOK, NEW k \in Memories, NEW d \in Memories, Resolve(k, d) PROVE TypeOK'
<1>1. prop[d] # None /\ d \in Proposals /\ k \in Sides
  BY DEF Resolve, State, Proposals, Sides
<1>2. /\ latest' \in [Proposals -> Decisions \cup {None}] /\ logOk' \in BOOLEAN
      /\ prop' \in Copies /\ file' \in Copies
  BY <1>1, ResolveNext, DecidedFacts, DecisionTypes DEF Resolve
<1> QED BY <1>2 DEF Resolve, TypeOK, kept, effects, Copies

LEMMA KeepKnownType ==
  ASSUME TypeOK, NEW m \in Memories, NEW k \in Known, KeepKnown(m, k) PROVE TypeOK'
<1>1. prop[m] # None /\ m \in Proposals /\ k \in Sides
  BY DEF KeepKnown, MayResolveKnown, State, Proposals, Sides
<1>2. /\ latest' \in [Proposals -> Decisions \cup {None}] /\ logOk' \in BOOLEAN
      /\ prop' \in Copies /\ file' \in Copies
  BY <1>1, ResolveNext, DecidedFacts, DecisionTypes DEF KeepKnown
<1> QED BY <1>2 DEF KeepKnown, TypeOK, kept, effects, Copies

LEMMA SetAsideType ==
  ASSUME TypeOK, NEW m \in Memories, NEW k \in Known, SetKnownAside(m, k) PROVE TypeOK'
<1>1. prop[m] # None /\ m \in Proposals
  BY DEF SetKnownAside, MayResolveKnown, State, Proposals
<1>2. [prop EXCEPT ![m].setAside = @ \cup {k}] \in Copies
  BY <1>1, ListedAside
<1>3. prop' \in Copies /\ file' \in Copies
  BY <1>2, SaveFacts DEF SetKnownAside, stores, TypeOK, Copies
<1>4. asides' \in {asides, asides \cup {<<m, k>>}} /\ logOk' \in BOOLEAN
  BY DEF SetKnownAside
<1>5. asides' \subseteq Memories \X Known
  BY <1>4 DEF TypeOK
<1> QED BY <1>3, <1>4, <1>5 DEF SetKnownAside, TypeOK, kept, effects, Copies

LEMMA PublishType ==
  ASSUME TypeOK, NEW s \in Skills, PreparePublish(s) PROVE TypeOK'
<1>1. prop[s] # None /\ s \in Proposals
  BY DEF PreparePublish, State, Proposals
<1>2. [prop EXCEPT ![s].state = "prepared"] \in Copies
  BY <1>1, Moved DEF States
<1>3. /\ latest' \in [Proposals -> Decisions \cup {None}] /\ logOk' \in BOOLEAN
      /\ prop' \in Copies /\ file' \in Copies
  BY <1>1, <1>2, DecidedFacts, DecisionTypes DEF PreparePublish
<1> QED BY <1>3 DEF PreparePublish, TypeOK, kept, effects, Copies

LEMMA EditType ==
  ASSUME TypeOK, NEW n \in Names, MemberEdits(n) PROVE TypeOK'
  BY DEF MemberEdits, TypeOK, stores, kept, log

LEMMA RestartType == TypeOK /\ Restart => TypeOK'
<1> SUFFICES ASSUME TypeOK, Restart PROVE TypeOK'
  OBVIOUS
<1>1. prop' \in Copies /\ file' \in Copies
  BY RestartFacts
<1>2. restarts' \in 0..MaxRestarts
  BY LimitsAreNumbers DEF Restart, TypeOK
<1> QED BY <1>1, <1>2 DEF Restart, TypeOK, effects, Copies

LEMMA OpFacts ==
  ASSUME TypeOK, OpInv, op # None
  PROVE  /\ op.of \in Proposals /\ op.ok \in BOOLEAN
         /\ prop[op.of] \in Records /\ latest[op.of] # None
         /\ latest[op.of].kind = "accepted"
  BY DEF TypeOK, Accepts, OpInv, Awaiting, AwaitsDecision, Is

LEMMA TypeStep == TypeOK /\ OpInv /\ [Next]_vars => TypeOK'
<1> SUFFICES ASSUME TypeOK, OpInv, [Next]_vars PROVE TypeOK'
  OBVIOUS
<1>1. CASE \E p \in Proposals, known \in SUBSET Known : Propose(p, known)
  BY <1>1, ProposeType
<1>2. CASE \E p \in Proposals : Reject(p) \/ Accept(p)
  BY <1>2, RejectType, AcceptType
<1>3. CASE WriteSkill \/ ValidateSkill
  BY <1>3, WriteType, ValidateType
<1>4. CASE CloseDecision
  BY <1>4, OpFacts, CloseType DEF CloseDecision, At
<1>5. CASE FinishAccept
  <2>1. op # None /\ prop[op.of] # None
    BY <1>5, OpFacts, NoneIsNothing DEF FinishAccept, At
  <2> QED BY <1>5, <2>1, FinishType
<1>6. CASE \E k, d \in Memories : k # d /\ Resolve(k, d)
  BY <1>6, ResolveType
<1>7. CASE \E m \in Memories, k \in Known : KeepKnown(m, k) \/ SetKnownAside(m, k)
  BY <1>7, KeepKnownType, SetAsideType
<1>8. CASE \E s \in Skills : PreparePublish(s)
  BY <1>8, PublishType
<1>9. CASE \E n \in Names : MemberEdits(n)
  BY <1>9, EditType
<1>10. CASE Restart
  BY <1>10, RestartType
<1>11. CASE UNCHANGED vars
  BY <1>11 DEF TypeOK, vars
<1> QED BY <1>1, <1>2, <1>3, <1>4, <1>5, <1>6, <1>7, <1>8, <1>9, <1>10, <1>11 DEF Next

-----------------------------------------------------------------------------
(* Every proposal stays Good.                                              *)

\* A step that decides nothing about r leaves r Good, also when it prunes r
\* or saves it.
LEMMA OthersGood ==
  ASSUME TypeOK, NEW r \in Proposals, Good(r),
         prop'[r] \in {None, prop[r]}, file'[r] \in {file[r], prop'[r]},
         latest'[r] = latest[r], AsidesOf(r)' = AsidesOf(r),
         logOk' => logOk, used \subseteq used', written \subseteq written',
         r \in written' => r \in written,
         AcceptRuns(r) => AcceptRuns(r)'
  PROVE  Good(r)'
<1>1. (r \notin used => Untouched(r))'
  BY DEF Good, Untouched
<1>2. (prop[r] # None => Agrees(r, prop[r]))'
  BY DEF Good, Agrees, Is
<1>3. (file[r] # None => Agrees(r, file[r]))'
  BY DEF Good, Agrees, Is
<1>4. (prop[r] # None /\ file[r] # None => Behind(file[r].state, prop[r].state))'
  BY DEF Good, Behind
<1>5. (prop[r] # None /\ logOk => CaughtUp(r, prop[r]))'
  BY DEF Good, CaughtUp, Is
<1>6. Logged(r)'
  BY DEF Good, Logged, Is
<1> QED BY <1>1, <1>2, <1>3, <1>4, <1>5, <1>6 DEF Good

\* A proposal with its new record, saved or not, on which nothing is decided.
LEMMA ProposeGood ==
  ASSUME TypeOK, NEW p \in Proposals, NEW known \in SUBSET Known, Propose(p, known),
         \A r \in Proposals : Good(r), NEW r \in Proposals
  PROVE  Good(r)'
<1> DEFINE new == [state |-> "proposed", kept |-> None,
                   made |-> Cardinality(used) + 1,
                   pending |-> PendingRivals(p),
                   contra |-> Contradicted(p, known),
                   setAside |-> {}]
           m == [prop EXCEPT ![p] = new]
           all == Pruned(m)
<1>0. UNCHANGED <<log, op, written>> /\ used' = used \cup {p} /\ op = None
  BY DEF Propose, effects, Free
<1>1. /\ prop' \in {all, [all EXCEPT ![p] = None]}
      /\ file' = file \/ (prop' = all /\ file' = all)
  BY DEF Propose
<1>2. m \in Copies /\ m[p] = new /\ \A x \in Proposals \ {p} : m[x] = prop[x]
  <2>1. Cardinality(used) \in Nat /\ MaxProposed \in Nat /\ Cardinality(used) < MaxProposed
    BY FS_CardinalityType, LimitsAreNumbers DEF TypeOK, Propose
  <2>2. PendingRivals(p) \subseteq Proposals /\ Contradicted(p, known) \subseteq Sides
    BY DEF PendingRivals, Contradicted, Rivals, Accepted, Sides
  <2>3. new \in Records
    BY <2>1, <2>2 DEF Records, States
  <2> HIDE DEF new
  <2> QED BY <2>3 DEF TypeOK, Copies
<1> HIDE DEF m
<1>3. all \in Copies /\ \A x \in Proposals : all[x] \in {None, m[x]}
  BY <1>2, PruneOnlyDrops
<1> HIDE DEF all
<1>4. prop'[r] \in {None, m[r]} /\ file'[r] \in {file[r], prop'[r]}
  BY <1>1, <1>3 DEF Copies
<1>5. CASE r # p
  <2>1. prop'[r] \in {None, prop[r]}
    BY <1>2, <1>4, <1>5
  <2> QED BY <1>0, <1>4, <2>1, OthersGood DEF log, AsidesOf, AcceptRuns
<1>6. CASE r = p
  <2>1. Untouched(p)
    BY DEF Good, Propose
  <2>2. r \in used' /\ latest'[r] = None /\ AsidesOf(r)' = {} /\ file[r] = None
    BY <1>0, <1>6, <2>1 DEF Untouched, AsidesOf, log
  <2>3. prop'[r] \in {None, new} /\ file'[r] \in {None, prop'[r]}
    BY <1>2, <1>4, <1>6, <2>2
  <2>4. (prop[r] # None => Agrees(r, prop[r]))'
    BY <2>2, <2>3 DEF Agrees, Is
  <2>5. (file[r] # None => Agrees(r, file[r]))'
    BY <2>2, <2>3 DEF Agrees, Is
  <2>6. (prop[r] # None /\ file[r] # None => Behind(file[r].state, prop[r].state))'
    BY <2>2, <2>3 DEF Behind
  <2>7. (prop[r] # None /\ logOk => CaughtUp(r, prop[r]))'
    BY <2>2, <2>3 DEF CaughtUp, Is
  <2>8. Logged(r)'
    BY <1>0, <2>2 DEF Good, Logged, Is, log
  <2> QED BY <2>2, <2>4, <2>5, <2>6, <2>7, <2>8 DEF Good
<1> QED BY <1>5, <1>6

\* A step that records decision d about p, and may move p to a record q.
LEMMA DecidedGood ==
  ASSUME TypeOK, NEW p \in Proposals, Good(p), prop[p] # None, logOk,
         NEW d \in Decisions, NEW q \in Records,
         used' = used, asides' = asides, written' = written,
         latest'[p] \in {latest[p], d},
         \/ prop'[p] = prop[p] /\ file'[p] = file[p] /\ logOk' = FALSE
         \/ latest'[p] = d /\ prop'[p] \in {None, q} /\ file'[p] \in {file[p], prop'[p]},
         AsidesOf(p) \subseteq q.setAside,
         p \in Memories => d.kind # "publish",
         p \in Skills /\ d.completed => p \in written,
         \/ d.kind = "denied" /\ Awaiting(p) /\ q.state = "rejected"
         \/ d.kind = "resolved" /\ p \in Memories /\ State(p) = "persisted"
              /\ q.state = "retracted" /\ q.kept = d.kept
         \/ d.kind = "publish" /\ State(p) \in {"persisted", "prepared"}
              /\ p \in Skills /\ q.state = "prepared"
  PROVE  Good(p)'
<1>0. /\ prop[p] \in Records /\ file[p] \in Records \cup {None} /\ d # None /\ q # None
      /\ latest[p] \in Decisions \cup {None}
  BY NoneIsNothing DEF TypeOK
<1>1. p \in used' /\ latest[p] = latest[p]
  BY DEF Good, Untouched
<1>2. Agrees(p, prop[p]) /\ CaughtUp(p, prop[p]) /\ (file[p] # None => Agrees(p, file[p]) /\ Behind(file[p].state, prop[p].state))
  BY DEF Good
<1>3. ~Is(p, "denied") /\ ~Is(p, "resolved") /\ prop[p].state \notin {"rejected", "retracted"}
  BY <1>0, <1>2 DEF CaughtUp, Agrees, Awaiting, AwaitsDecision, State
<1>4. file[p] # None => file[p].state \notin {"rejected", "retracted"}
  BY <1>0, <1>2, <1>3 DEF Agrees
<1>5. file[p] # None /\ d.kind = "denied" => file[p].state \in {"proposed", "failed"}
  BY <1>0, <1>2 DEF Behind, Awaiting, AwaitsDecision
<1>6. file[p] # None /\ d.kind = "resolved" => file[p].state \in {"proposed", "failed", "persisted"}
  BY <1>0, <1>2 DEF Behind, State
<1>7. d.kind = "publish" => p \in Skills /\ p \in written
  BY <1>0, <1>2 DEF Agrees, State
<1>8. Skills \cap Memories = {}
  BY KindsAreDisjoint
<1>9. Logged(p)'
  BY <1>0, <1>7, <1>8 DEF Logged, Is, Good
<1>10. (file[p] # None => Agrees(p, file[p]))' /\ (prop[p] # None => Agrees(p, prop[p]))'
  <2>1. ASSUME NEW x \in {prop[p], file[p]}, x # None
        PROVE  Agrees(p, x)'
    BY <1>0, <1>2, <1>3, <1>4, <1>5, <1>6, <2>1 DEF Agrees, Is, Awaiting, AwaitsDecision, State
  <2>2. latest'[p] = d => Agrees(p, q)'
    BY <1>0, <1>7, <1>8 DEF Agrees, Is
  <2> QED BY <2>1, <2>2 DEF Agrees, Is
<1>11. (prop[p] # None /\ file[p] # None => Behind(file[p].state, prop[p].state))'
  BY <1>0, <1>2 DEF Behind, Awaiting, AwaitsDecision, State
<1>12. (prop[p] # None /\ logOk => CaughtUp(p, prop[p]))'
  BY <1>0, <1>8 DEF CaughtUp, Is, AsidesOf
<1> QED BY <1>1, <1>9, <1>10, <1>11, <1>12 DEF Good

LEMMA RejectGood ==
  ASSUME TypeOK, NEW p \in Proposals, Reject(p), \A r \in Proposals : Good(r),
         NEW r \in Proposals
  PROVE  Good(r)'
<1> DEFINE m == [prop EXCEPT ![p].state = "rejected"]
<1>1. /\ Free /\ Awaiting(p) /\ used' = used /\ asides' = asides /\ op' = op
      /\ written' = written
  BY DEF Reject, kept, effects
<1>2. PICK fate \in Fates : /\ Record(p, Denial, fate)
                            /\ IF fate = "kept" THEN Save(m) ELSE UNCHANGED stores
  BY DEF Reject
<1>3. prop[p] # None
  BY <1>1 DEF Awaiting, AwaitsDecision
<1>4. m \in Copies /\ \A x \in Proposals \ {p} : m[x] = prop[x]
  BY <1>3, Moved DEF States
<1>6. m[p] \in Records /\ m[p].state = "rejected" /\ m[p].setAside = prop[p].setAside
  BY <1>3, Moved DEF States
<1> HIDE DEF m
<1>7. /\ logOk /\ \A x \in Proposals \ {p} : latest'[x] = latest[x]
      /\ latest'[p] \in {latest[p], Denial}
      /\ fate # "kept" => logOk' = FALSE
      /\ fate = "kept" => latest'[p] = Denial
  BY <1>2 DEF Record, TypeOK
<1>8. /\ fate # "kept" => prop' = prop /\ file' = file
      /\ fate = "kept" => \A x \in Proposals : /\ prop'[x] \in {None, m[x]}
                                              /\ file'[x] \in {file[x], prop'[x]}
  BY <1>2, <1>4, SaveFacts DEF stores
<1>9. CASE r # p
  <2>1. prop'[r] \in {None, prop[r]} /\ file'[r] \in {file[r], prop'[r]}
    BY <1>4, <1>8, <1>9
  <2> QED BY <1>1, <1>7, <1>9, <2>1, OthersGood DEF AsidesOf, AcceptRuns
<1>10. CASE r = p
  <2>1. AsidesOf(p) \subseteq m[p].setAside
    BY <1>3, <1>6, <1>7 DEF Good, CaughtUp
  <2>2. Denial.kind = "denied" /\ Denial.completed = FALSE /\ Denial \in Decisions
    BY DecisionTypes DEF Denial
  <2> HIDE DEF Denial
  <2>3. Good(p)'
    BY <1>1, <1>3, <1>6, <1>7, <1>8, <2>1, <2>2, DecidedGood
  <2> QED BY <1>10, <2>3
<1> QED BY <1>9, <1>10

LEMMA DecidedAllGood ==
  ASSUME TypeOK, \A r \in Proposals : Good(r),
         NEW p \in Proposals, prop[p] # None,
         NEW d \in Decisions, NEW next \in Copies, Decided(p, d, next),
         used' = used, asides' = asides, written' = written, op' = op,
         next[p] \in Records, \A x \in Proposals \ {p} : next[x] = prop[x],
         next[p].setAside = prop[p].setAside,
         p \in Memories => d.kind # "publish",
         d.completed = FALSE,
         \/ d.kind = "resolved" /\ p \in Memories /\ State(p) = "persisted"
              /\ next[p].state = "retracted" /\ next[p].kept = d.kept
         \/ d.kind = "publish" /\ State(p) \in {"persisted", "prepared"}
              /\ p \in Skills /\ next[p].state = "prepared",
         NEW r \in Proposals
  PROVE  Good(r)'
<1>1. /\ logOk
      /\ \A x \in Proposals : x # p => latest'[x] = latest[x]
      /\ \/ /\ prop' = prop /\ file' = file /\ logOk' = FALSE
            /\ latest'[p] \in {latest[p], d}
         \/ /\ latest'[p] = d
            /\ \A x \in Proposals : /\ prop'[x] \in {None, next[x]}
                                    /\ file'[x] \in {file[x], prop'[x]}
  BY DecidedFacts
<1>2. CASE r # p
  <2>1. prop'[r] \in {None, prop[r]} /\ file'[r] \in {file[r], prop'[r]}
    BY <1>1, <1>2
  <2> QED BY <1>1, <1>2, <2>1, OthersGood DEF AsidesOf, AcceptRuns
<1>3. CASE r = p
  <2>1. AsidesOf(p) \subseteq next[p].setAside
    BY <1>1 DEF Good, CaughtUp
  <2>2. Good(p)'
    BY <1>1, <2>1, DecidedGood
  <2> QED BY <1>3, <2>2
<1> QED BY <1>2, <1>3

LEMMA RetractionFacts ==
  ASSUME NEW k \in Sides
  PROVE  /\ Retraction(k) \in Decisions /\ Retraction(k).kind = "resolved"
         /\ Retraction(k).kept = k /\ Retraction(k).completed = FALSE
  BY DecisionTypes DEF Retraction

LEMMA ResolveGood ==
  ASSUME TypeOK, NEW k \in Memories, NEW d \in Memories, Resolve(k, d),
         \A r \in Proposals : Good(r), NEW r \in Proposals
  PROVE  Good(r)'
<1> DEFINE n == [prop EXCEPT ![d].state = "retracted", ![d].kept = k]
<1>1. prop[d] # None /\ d \in Proposals /\ k \in Sides
  BY DEF Resolve, State, Proposals, Sides
<1>2. /\ used' = used /\ asides' = asides /\ written' = written /\ op' = op
      /\ State(d) = "persisted"
  BY DEF Resolve, kept, effects
<1>3. Decided(d, Retraction(k), n)
  BY DEF Resolve
<1>4. /\ n \in Copies /\ n[d] \in Records
      /\ n[d].state = "retracted" /\ n[d].kept = k
      /\ n[d].setAside = prop[d].setAside
      /\ \A x \in Proposals \ {d} : n[x] = prop[x]
  BY <1>1, Retracted
<1>5. /\ Retraction(k) \in Decisions /\ Retraction(k).kind = "resolved"
      /\ Retraction(k).kept = k /\ Retraction(k).completed = FALSE
  BY <1>1, RetractionFacts
<1> HIDE DEF n
<1> QED BY <1>1, <1>2, <1>3, <1>4, <1>5, DecidedAllGood

LEMMA KeepKnownGood ==
  ASSUME TypeOK, NEW m \in Memories, NEW k \in Known, KeepKnown(m, k),
         \A r \in Proposals : Good(r), NEW r \in Proposals
  PROVE  Good(r)'
<1> DEFINE n == [prop EXCEPT ![m].state = "retracted", ![m].kept = k]
<1>1. prop[m] # None /\ m \in Proposals /\ k \in Sides
  BY DEF KeepKnown, MayResolveKnown, State, Proposals, Sides
<1>2. /\ used' = used /\ asides' = asides /\ written' = written /\ op' = op
      /\ State(m) = "persisted"
  BY DEF KeepKnown, MayResolveKnown, kept, effects
<1>3. Decided(m, Retraction(k), n)
  BY DEF KeepKnown
<1>4. /\ n \in Copies /\ n[m] \in Records
      /\ n[m].state = "retracted" /\ n[m].kept = k
      /\ n[m].setAside = prop[m].setAside
      /\ \A x \in Proposals \ {m} : n[x] = prop[x]
  BY <1>1, Retracted
<1>5. /\ Retraction(k) \in Decisions /\ Retraction(k).kind = "resolved"
      /\ Retraction(k).kept = k /\ Retraction(k).completed = FALSE
  BY <1>1, RetractionFacts
<1> HIDE DEF n
<1> QED BY <1>1, <1>2, <1>3, <1>4, <1>5, DecidedAllGood

LEMMA PublishGood ==
  ASSUME TypeOK, NEW s \in Skills, PreparePublish(s),
         \A r \in Proposals : Good(r), NEW r \in Proposals
  PROVE  Good(r)'
<1> DEFINE m == [prop EXCEPT ![s].state = "prepared"]
<1>1. prop[s] # None /\ s \in Proposals /\ s \notin Memories
  BY KindsAreDisjoint DEF PreparePublish, State, Proposals
<1>2. /\ used' = used /\ asides' = asides /\ written' = written /\ op' = op
      /\ State(s) \in {"persisted", "prepared"}
  BY DEF PreparePublish, kept, effects
<1>3. Decided(s, Publication, m)
  BY DEF PreparePublish
<1>4. m \in Copies /\ \A x \in Proposals \ {s} : m[x] = prop[x]
  BY <1>1, Moved DEF States
<1>6. m[s] \in Records /\ m[s].state = "prepared" /\ m[s].setAside = prop[s].setAside
  BY <1>1, Moved DEF States
<1>7. /\ Publication \in Decisions /\ Publication.kind = "publish"
      /\ Publication.completed = FALSE
  BY DecisionTypes DEF Publication
<1> HIDE DEF m, Publication
<1> QED BY <1>1, <1>2, <1>3, <1>4, <1>6, <1>7, DecidedAllGood

LEMMA SetAsideGood ==
  ASSUME TypeOK, NEW m \in Memories, NEW k \in Known, SetKnownAside(m, k),
         \A r \in Proposals : Good(r), NEW r \in Proposals
  PROVE  Good(r)'
<1> DEFINE n == [prop EXCEPT ![m].setAside = @ \cup {k}]
<1>1. prop[m] # None /\ m \in Proposals
  BY DEF SetKnownAside, MayResolveKnown, State, Proposals
<1>2. /\ used' = used /\ latest' = latest /\ written' = written /\ op' = op /\ logOk
  BY DEF SetKnownAside, kept, effects
<1>3. \/ asides' = asides \cup {<<m, k>>} /\ Save(n)
      \/ asides' \in {asides, asides \cup {<<m, k>>}} /\ logOk' = FALSE /\ UNCHANGED stores
  BY DEF SetKnownAside
<1>4. /\ n \in Copies /\ n[m] \in Records
      /\ n[m].state = prop[m].state /\ n[m].kept = prop[m].kept
      /\ n[m].setAside = prop[m].setAside \cup {k}
      /\ \A x \in Proposals \ {m} : n[x] = prop[x]
  BY <1>1, ListedAside
<1> HIDE DEF n
<1>5. \/ /\ asides' = asides \cup {<<m, k>>}
         /\ \A x \in Proposals : prop'[x] \in {None, n[x]} /\ file'[x] \in {file[x], prop'[x]}
      \/ /\ asides' \in {asides, asides \cup {<<m, k>>}} /\ logOk' = FALSE
         /\ prop' = prop /\ file' = file
  BY <1>3, <1>4, SaveFacts DEF stores
<1>6. AsidesOf(r)' = AsidesOf(r) \/ (r = m /\ AsidesOf(r)' = AsidesOf(r) \cup {k})
  BY <1>5 DEF AsidesOf
<1>7. CASE r # m
  <2>1. prop'[r] \in {None, prop[r]} /\ file'[r] \in {file[r], prop'[r]}
    BY <1>4, <1>5, <1>7
  <2> QED BY <1>2, <1>6, <1>7, <2>1, OthersGood DEF AcceptRuns
<1>8. CASE r = m
  <2>1. Good(m) /\ m \in used
    BY <1>1 DEF Good, Untouched
  <2>2. prop[m] \in Records /\ file[m] \in Records \cup {None}
    BY <1>1 DEF TypeOK
  <2>3. prop'[m] \in {None, prop[m], n[m]} /\ file'[m] \in {file[m], prop'[m]}
    BY <1>1, <1>5
  <2>4. \A x \in Records : Agrees(m, x)' <=> Agrees(m, x)
    BY <1>2 DEF Agrees, Is
  <2>5. Agrees(m, prop[m]) /\ Agrees(m, n[m])
    BY <1>1, <1>4, <2>1 DEF Good, Agrees
  <2>6. (prop[m] # None => Agrees(m, prop[m]))' /\ (file[m] # None => Agrees(m, file[m]))'
    BY <1>2, <2>1, <2>2, <2>3, <2>5 DEF Good, Agrees, Is
  <2>7. (prop[m] # None /\ file[m] # None => Behind(file[m].state, prop[m].state))'
    BY <1>1, <1>4, <2>1, <2>2, <2>3 DEF Good, Behind
  <2>8. (prop[m] # None /\ logOk => CaughtUp(m, prop[m]))'
    BY <1>1, <1>2, <1>4, <1>5, <1>6, <1>8, <2>1 DEF Good, CaughtUp, Is, AcceptRuns
  <2>9. Logged(m)'
    BY <1>2, <2>1 DEF Good, Logged, Is
  <2> QED BY <1>2, <1>8, <2>1, <2>6, <2>7, <2>8, <2>9 DEF Good
<1> QED BY <1>7, <1>8

LEMMA AcceptGood ==
  ASSUME TypeOK, NEW p \in Proposals, Accept(p), \A r \in Proposals : Good(r),
         NEW r \in Proposals
  PROVE  Good(r)'
<1>1. /\ Free /\ Awaiting(p) /\ used' = used /\ asides' = asides /\ file' = file
      /\ written' = written /\ prop[p] # None
      /\ prop' = [prop EXCEPT ![p] = Refreshed(p)]
  BY DEF Accept, kept, effects, log, Awaiting, AwaitsDecision
<1>2. prop'[p] = Refreshed(p) /\ \A x \in Proposals \ {p} : prop'[x] = prop[x]
  BY <1>1 DEF TypeOK
<1>3. /\ Refreshed(p) \in Records /\ Refreshed(p).state = prop[p].state
      /\ Refreshed(p).kept = prop[p].kept /\ Refreshed(p).setAside = prop[p].setAside
  BY <1>1, RefreshedFacts
<1>4. \/ UNCHANGED <<log, op>>
      \/ /\ logOk /\ \A x \in Proposals \ {p} : latest'[x] = latest[x]
         /\ \/ logOk' /\ latest'[p] = Approval /\ op' # None /\ op'.of = p
            \/ logOk' = FALSE /\ latest'[p] \in {latest[p], Approval} /\ op' = None
  <2>1. CASE UNCHANGED <<log, op>>
    BY <2>1
  <2>2. CASE \E fate \in Fates :
               /\ Record(p, Approval, fate)
               /\ op' = IF GoesOn(fate)
                        THEN [of |-> p,
                              stage |-> IF p \in Skills THEN "recorded" ELSE "ended",
                              ok |-> p \in Memories]
                        ELSE None
    <3> PICK fate \in Fates :
          /\ Record(p, Approval, fate)
          /\ op' = IF GoesOn(fate)
                   THEN [of |-> p,
                         stage |-> IF p \in Skills THEN "recorded" ELSE "ended",
                         ok |-> p \in Memories]
                   ELSE None
      BY <2>2
    <3>1. /\ logOk /\ logOk' = (fate = "kept")
          /\ \A x \in Proposals \ {p} : latest'[x] = latest[x]
          /\ latest'[p] = IF fate = "torn" THEN latest[p] ELSE Approval
      BY DEF Record, TypeOK
    <3>2. CASE fate = "kept"
      <4> DEFINE o == [of |-> p,
                       stage |-> IF p \in Skills THEN "recorded" ELSE "ended",
                       ok |-> p \in Memories]
      <4>1. o \in Accepts /\ o.of = p /\ op' = o
        BY <3>2 DEF Accepts, GoesOn
      <4> HIDE DEF o
      <4> QED BY <3>1, <3>2, <4>1, NoneIsNothing
    <3>3. CASE fate # "kept"
      BY <3>1, <3>3 DEF GoesOn
    <3> QED BY <3>2, <3>3
  <2> QED BY <2>1, <2>2 DEF Accept
<1>5. CASE r # p
  <2>1. /\ latest'[r] = latest[r] /\ (logOk' => logOk) /\ ~AcceptRuns(r)
    BY <1>1, <1>4, <1>5 DEF log, Free, AcceptRuns
  <2>2. prop'[r] \in {None, prop[r]} /\ file'[r] \in {file[r], prop'[r]}
    BY <1>1, <1>2, <1>5
  <2> QED BY <1>1, <2>1, <2>2, OthersGood DEF AsidesOf
<1>6. CASE r = p
  <2>1. Good(p)
    OBVIOUS
  <2>2. /\ p \in used /\ prop[p] \in Records /\ file[p] \in Records \cup {None}
        /\ Refreshed(p) # None /\ Approval \in Decisions /\ Approval # None
        /\ Approval.kind = "accepted" /\ Approval.completed = FALSE
        /\ prop[p].state \in {"proposed", "failed"}
    BY <1>1, <1>3, DecisionTypes, NoneIsNothing DEF TypeOK, Good, Untouched, Approval, Awaiting, AwaitsDecision
  <2>3. logOk => ~Is(p, "denied") /\ ~Is(p, "resolved")
    BY <1>1, <2>1, <2>2 DEF Good, CaughtUp
  <2> HIDE DEF Approval
  <2>4. /\ latest'[p] \in {latest[p], Approval}
        /\ latest'[p] = Approval => logOk \/ latest'[p] = latest[p]
    BY <1>4 DEF log
  <2>5. file[p] # None => file[p].state \in {"proposed", "failed"}
    BY <1>1, <2>1, <2>2 DEF Good, Behind
  <2>6. \A x \in Records : x.state \in {"proposed", "failed"} => Agrees(p, x)'
    BY DEF Agrees
  <2>7. (prop[p] # None => Agrees(p, prop[p]))' /\ (file[p] # None => Agrees(p, file[p]))'
    BY <1>1, <1>2, <1>3, <2>2, <2>5, <2>6 DEF Agrees
  <2>8. (prop[p] # None /\ file[p] # None => Behind(file[p].state, prop[p].state))'
    BY <1>1, <1>2, <1>3, <2>2, <2>5 DEF Behind
  <2>9. (prop[p] # None /\ logOk => CaughtUp(p, prop[p]))'
    <3> SUFFICES ASSUME logOk' PROVE CaughtUp(p, prop[p])'
      OBVIOUS
    <3>0. logOk /\ AsidesOf(p) \subseteq prop[p].setAside
      BY <1>1, <1>4, <2>1 DEF Good, CaughtUp, log
    <3>1. CASE UNCHANGED <<log, op>>
      BY <1>1, <1>2, <1>3, <2>1, <2>2, <3>0, <3>1 DEF Good, CaughtUp, Is, AcceptRuns, AsidesOf, log, Free
    <3>2. CASE latest'[p] = Approval /\ op' # None /\ op'.of = p
      BY <1>1, <1>2, <1>3, <2>2, <3>0, <3>2 DEF CaughtUp, Is, AcceptRuns, AsidesOf
    <3> QED BY <1>4, <3>1, <3>2
  <2>10. Logged(p)'
    BY <1>1, <2>1, <2>2, <2>4 DEF Good, Logged, Is
  <2> QED BY <1>1, <1>6, <2>2, <2>7, <2>8, <2>9, <2>10 DEF Good
<1> QED BY <1>5, <1>6

\* The folder is written and read back; no proposal is saved or decided.
LEMMA WriteGood ==
  ASSUME TypeOK, WriteSkill \/ \E n \in Names : MemberEdits(n),
         \A r \in Proposals : Good(r), NEW r \in Proposals
  PROVE  Good(r)'
<1>1. UNCHANGED <<prop, file, used, latest, asides, logOk, written>>
  BY DEF WriteSkill, MemberEdits, stores, kept, log
<1>2. AcceptRuns(r) => AcceptRuns(r)'
  <2>1. CASE WriteSkill
    <3>1. op # None /\ op' \in {[op EXCEPT !.stage = "written"], [op EXCEPT !.stage = "ended"]}
      BY <2>1 DEF WriteSkill, At
    <3> QED BY <3>1, Staged, NoneIsNothing DEF AcceptRuns
  <2>2. CASE \E n \in Names : MemberEdits(n)
    BY <2>2 DEF MemberEdits, AcceptRuns
  <2> QED BY <2>1, <2>2
<1> QED BY <1>1, <1>2, OthersGood DEF AsidesOf

LEMMA ValidateGood ==
  ASSUME TypeOK, OpInv, ValidateSkill, \A r \in Proposals : Good(r), NEW r \in Proposals
  PROVE  Good(r)'
<1>1. /\ UNCHANGED <<prop, file, used, latest, asides, logOk>>
      /\ op # None /\ written' \in {written, written \cup {op.of}}
  BY DEF ValidateSkill, At, stores, kept, log
<1>2. op.of \in Skills /\ latest[op.of] # None
  BY <1>1, OpFacts DEF ValidateSkill, At, TypeOK
<1>3. op' # None /\ op'.of = op.of
  <2>1. /\ [op EXCEPT !.stage = "ended", !.ok = TRUE] \in Accepts
        /\ [op EXCEPT !.stage = "ended", !.ok = TRUE].of = op.of
    BY <1>1 DEF TypeOK, Accepts
  <2> QED BY <1>1, <2>1, Staged, NoneIsNothing DEF ValidateSkill
<1>4. Agrees(r, prop[r]) => Agrees(r, prop[r])'
  BY <1>1 DEF Agrees, Is
<1>5. Agrees(r, file[r]) => Agrees(r, file[r])'
  BY <1>1 DEF Agrees, Is
<1>6. CaughtUp(r, prop[r]) => CaughtUp(r, prop[r])'
  BY <1>1, <1>3 DEF CaughtUp, Is, AsidesOf, AcceptRuns
<1>7. Logged(r) => Logged(r)'
  BY <1>1, <1>2 DEF Logged, Is
<1>8. Untouched(r) => Untouched(r)'
  BY <1>1 DEF Untouched, AsidesOf
<1> QED BY <1>1, <1>4, <1>5, <1>6, <1>7, <1>8 DEF Good, Behind

LEMMA CloseGood ==
  ASSUME TypeOK, OpInv, CloseDecision, \A r \in Proposals : Good(r), NEW r \in Proposals
  PROVE  Good(r)'
<1> DEFINE d == [latest[op.of] EXCEPT !.completed = op.ok]
<1>1. UNCHANGED <<prop, file, used, asides, written>> /\ op # None
  BY DEF CloseDecision, At, stores, kept, effects
<1>2. /\ op.of \in Proposals /\ op.ok \in BOOLEAN
      /\ latest[op.of] # None /\ latest[op.of].kind = "accepted"
      /\ latest[op.of] \in Decisions
  BY <1>1, OpFacts DEF TypeOK
<1>3. d \in Decisions /\ d.kind = "accepted" /\ d.kept = latest[op.of].kept /\ d.completed = op.ok
  BY <1>2 DEF Decisions
<1>4. /\ logOk' => logOk
      /\ \A x \in Proposals : x # op.of => latest'[x] = latest[x]
      /\ latest'[op.of] \in {latest[op.of], d}
  BY <1>2 DEF CloseDecision, Record, TypeOK
<1> HIDE DEF d
<1>5. op' # None /\ op'.of = op.of
  <2>1. op' \in {[op EXCEPT !.stage = "closed"], [op EXCEPT !.stage = "unclosed"]}
    BY DEF CloseDecision
  <2> QED BY <1>1, <2>1, Staged, NoneIsNothing
<1>6. \A kind \in {"denied", "accepted", "publish", "resolved"} : Is(r, kind)' <=> Is(r, kind)
  BY <1>2, <1>3, <1>4, NoneIsNothing DEF Is
<1>7. latest[r] # None => latest'[r] # None /\ latest'[r].kept = latest[r].kept
  BY <1>2, <1>3, <1>4, NoneIsNothing
<1>8. latest[r] = None => latest'[r] = None
  BY <1>2, <1>4
<1>9. Agrees(r, prop[r]) => Agrees(r, prop[r])'
  BY <1>1, <1>6, <1>7 DEF Agrees, Is
<1>10. Agrees(r, file[r]) => Agrees(r, file[r])'
  BY <1>1, <1>6, <1>7 DEF Agrees, Is
<1>11. CaughtUp(r, prop[r]) => CaughtUp(r, prop[r])'
  BY <1>1, <1>5, <1>6 DEF CaughtUp, AsidesOf, AcceptRuns
<1>12. Logged(r) => Logged(r)'
  BY <1>1, <1>2, <1>3, <1>4, <1>6, <1>7 DEF Logged, OpInv
<1>13. Untouched(r) => Untouched(r)'
  BY <1>1, <1>8 DEF Untouched, AsidesOf
<1> QED BY <1>1, <1>4, <1>9, <1>10, <1>11, <1>12, <1>13 DEF Good, Behind

LEMMA FinishGood ==
  ASSUME TypeOK, OpInv, FinishAccept, \A r \in Proposals : Good(r), NEW r \in Proposals
  PROVE  Good(r)'
<1>0. op # None /\ op.of \in Proposals /\ op.ok \in BOOLEAN
  BY OpFacts DEF FinishAccept, At
<1> PICK p \in Proposals : p = op.of
  BY <1>0
<1> PICK s \in {"persisted", "failed"} : s = IF op.ok THEN "persisted" ELSE "failed"
  OBVIOUS
<1> DEFINE m == [prop EXCEPT ![p].state = s]
<1>1. UNCHANGED <<used, latest, asides, logOk, written>> /\ Save(m) /\ op' = None
  BY DEF FinishAccept, kept, log
<1>2. /\ prop[p] \in Records /\ prop[p] # None
      /\ latest[p] # None /\ latest[p].kind = "accepted"
      /\ prop[p].state \in {"proposed", "failed"}
      /\ p \in Skills /\ op.ok => p \in written
  BY <1>0, OpFacts, NoneIsNothing DEF OpInv, Awaiting, AwaitsDecision
<1>3. /\ m \in Copies /\ m[p] \in Records /\ m[p].state = s
      /\ m[p].setAside = prop[p].setAside
      /\ \A x \in Proposals \ {p} : m[x] = prop[x]
  <2>1. s \in States
    BY DEF States
  <2> QED BY <1>2, <2>1, Moved
<1>4. p \in Skills /\ s = "persisted" => p \in written
  BY <1>0, <1>2
<1> HIDE DEF m
<1>5. \A x \in Proposals : prop'[x] \in {None, m[x]} /\ file'[x] \in {file[x], prop'[x]}
  BY <1>1, <1>3, SaveFacts
<1>6. CASE r # p
  <2>1. prop'[r] \in {None, prop[r]} /\ file'[r] \in {file[r], prop'[r]}
    BY <1>3, <1>5, <1>6
  <2>2. ~AcceptRuns(r)
    BY <1>6 DEF AcceptRuns
  <2> QED BY <1>1, <2>1, <2>2, OthersGood DEF AsidesOf
<1>7. CASE r = p
  <2>1. Good(p) /\ p \in used /\ file[p] \in Records \cup {None}
    BY <1>2 DEF Good, Untouched, TypeOK
  <2>2. file[p] # None => file[p].state \in {"proposed", "failed"}
    BY <1>2, <2>1 DEF Good, Behind
  <2>3. ~Is(p, "denied")' /\ ~Is(p, "resolved")' /\ Skills \cap Memories = {}
    BY <1>1, <1>2, KindsAreDisjoint DEF Is
  <2>4. (prop[p] # None => Agrees(p, prop[p]))' /\ (file[p] # None => Agrees(p, file[p]))'
    BY <1>1, <1>2, <1>3, <1>4, <1>5, <2>2, <2>3 DEF Agrees
  <2>5. (prop[p] # None /\ file[p] # None => Behind(file[p].state, prop[p].state))'
    BY <1>2, <1>3, <1>4, <1>5, <2>2 DEF Behind
  <2>6. (prop[p] # None /\ logOk => CaughtUp(p, prop[p]))'
    BY <1>1, <1>2, <1>3, <1>4, <1>5, <2>1, <2>3 DEF CaughtUp, Good, AsidesOf
  <2>7. Logged(p)'
    BY <1>1, <2>1 DEF Good, Logged, Is
  <2> QED BY <1>1, <1>7, <2>1, <2>4, <2>5, <2>6, <2>7 DEF Good
<1> QED BY <1>6, <1>7

\* Moving the file's copy forward carries out what the log says of it.
LEMMA ForwardCatchesUp ==
  ASSUME TypeOK, NEW p \in Proposals, Good(p), file[p] # None
  PROVE  /\ Agrees(p, Forward(p)) /\ Behind(file[p].state, Forward(p).state)
         /\ Is(p, "denied") => Forward(p).state = "rejected"
         /\ Is(p, "resolved") => Forward(p).state = "retracted"
         /\ p \in Memories /\ Is(p, "accepted") => Forward(p).state # "proposed"
<1> DEFINE q == file[p]
           to(s) == [q EXCEPT !.state = s]
<1>1. q \in Records /\ Agrees(p, q) /\ Logged(p) /\ Skills \cap Memories = {}
  BY KindsAreDisjoint DEF TypeOK, Good
<1>2. \A s \in States : to(s) \in Records /\ to(s).state = s /\ to(s).kept = q.kept
  BY <1>1, MovedRecord
<1>3. q.state \in States
  BY <1>1 DEF Records
<1>4. CASE latest[p] = None
  <2>1. Forward(p) = q
    BY <1>4 DEF Forward
  <2> QED BY <1>1, <1>3, <1>4, <2>1 DEF Is, Behind, States
<1>5. CASE latest[p] # None
  <2>1. latest[p] \in Decisions
    BY <1>5 DEF TypeOK
  <2>2. CASE latest[p].kind = "denied"
    <3>1. Forward(p) = IF AwaitsDecision(q) THEN to("rejected") ELSE q
      BY <1>5, <2>2 DEF Forward
    <3>2. q.state \in {"proposed", "failed", "rejected"}
      BY <1>1, <1>5, <2>2 DEF Agrees, Is
    <3>3. Forward(p).state = "rejected" /\ (q.state = "rejected" => Forward(p) = q)
      BY <1>2, <3>1, <3>2 DEF AwaitsDecision, States
    <3> HIDE DEF q
    <3> QED BY <1>5, <2>2, <3>2, <3>3 DEF Agrees, Behind, Is, q
  <2>3. CASE latest[p].kind = "accepted"
    <3> DEFINE s == IF p \in Skills /\ latest[p].completed /\ OnDisk(p) THEN "persisted" ELSE "failed"
    <3>1. Forward(p) = IF q.state = "proposed" THEN to(s) ELSE q
      BY <1>5, <2>3 DEF Forward
    <3>2. /\ s \in {"persisted", "failed"}
          /\ s = "persisted" => p \in Skills /\ p \in written
      BY <1>1, <1>5 DEF Logged
    <3> HIDE DEF s
    <3>3. /\ q.state = "proposed" => Forward(p).state = s
          /\ q.state # "proposed" => Forward(p) = q
      BY <1>2, <3>1, <3>2 DEF States
    <3>4. Agrees(p, Forward(p))
      <4>1. CASE q.state = "proposed"
        BY <1>1, <1>5, <2>3, <3>2, <3>3, <4>1 DEF Agrees, Is
      <4>2. CASE q.state # "proposed"
        BY <1>1, <3>3, <4>2
      <4> QED BY <4>1, <4>2
    <3>5. Behind(q.state, Forward(p).state)
      BY <1>3, <3>2, <3>3 DEF Behind, States
    <3> QED BY <1>5, <2>3, <3>2, <3>3, <3>4, <3>5 DEF Is
  <2>4. CASE latest[p].kind = "publish"
    <3>1. Forward(p) = IF q.state = "persisted" THEN to("prepared") ELSE q
      BY <1>5, <2>4 DEF Forward
    <3>2. /\ q.state = "persisted" => Forward(p).state = "prepared"
          /\ q.state # "persisted" => Forward(p) = q
      BY <1>2, <3>1 DEF States
    <3>3. p \in Skills
      BY <1>1, <1>5, <2>4 DEF Logged, Is, Proposals
    <3>4. Agrees(p, Forward(p))
      <4>1. CASE q.state = "persisted"
        BY <1>1, <1>5, <2>4, <3>2, <3>3, <4>1 DEF Agrees, Is
      <4>2. CASE q.state # "persisted"
        BY <1>1, <3>2, <4>2
      <4> QED BY <4>1, <4>2
    <3>5. Behind(q.state, Forward(p).state)
      BY <1>3, <3>2 DEF Behind, States
    <3> QED BY <1>5, <2>4, <3>4, <3>5 DEF Is
  <2>5. CASE latest[p].kind = "resolved"
    <3>1. Forward(p) = IF q.state \in {"proposed", "failed", "persisted"}
                       THEN [to("retracted") EXCEPT !.kept = latest[p].kept] ELSE q
      BY <1>5, <2>5 DEF Forward
    <3>2. q.state \in {"proposed", "failed", "persisted", "retracted"}
      BY <1>1, <1>5, <2>5 DEF Agrees, Is
    <3>3. /\ [to("retracted") EXCEPT !.kept = latest[p].kept].state = "retracted"
          /\ [to("retracted") EXCEPT !.kept = latest[p].kept].kept = latest[p].kept
      <4>1. to("retracted") \in Records /\ to("retracted").state = "retracted"
        BY <1>2 DEF States
      <4> HIDE DEF to
      <4> QED BY <4>1 DEF Records
    <3>4. Forward(p).state = "retracted" /\ Forward(p).kept = latest[p].kept
      BY <1>1, <3>1, <3>2, <3>3 DEF Agrees
    <3> QED BY <1>5, <2>5, <3>2, <3>4 DEF Agrees, Behind, Is
  <2> QED BY <2>1, <2>2, <2>3, <2>4, <2>5 DEF Decisions
<1> QED BY <1>4, <1>5

LEMMA RestartGood ==
  ASSUME TypeOK, Restart, NEW r \in Proposals, Good(r)
  PROVE  Good(r)'
<1>1. /\ UNCHANGED <<used, latest, asides, written>> /\ op' = None /\ logOk' = TRUE
  BY DEF Restart, effects
<1>2. prop'[r] \in {None, Reconcile(r)} /\ file'[r] \in {file[r], prop'[r]}
  BY RestartFacts
<1>3. CASE file[r] = None
  <2>1. Reconcile(r) = None
    BY <1>3, ForwardFacts
  <2>2. prop'[r] = None /\ file'[r] = None
    BY <1>2, <1>3, <2>1
  <2>3. Logged(r)' /\ (r \notin used => Untouched(r))'
    BY <1>1, <2>2 DEF Good, Logged, Is, Untouched, AsidesOf
  <2> QED BY <2>2, <2>3 DEF Good
<1>4. CASE file[r] # None
  <2>1. /\ Reconcile(r) \in Records /\ Reconcile(r).state = Forward(r).state
        /\ Reconcile(r).kept = Forward(r).kept
        /\ AsidesOf(r) \subseteq Reconcile(r).setAside
    BY <1>4, ForwardFacts
  <2>2. /\ Agrees(r, Reconcile(r)) /\ Behind(file[r].state, Reconcile(r).state)
        /\ Is(r, "denied") => Reconcile(r).state = "rejected"
        /\ Is(r, "resolved") => Reconcile(r).state = "retracted"
        /\ r \in Memories /\ Is(r, "accepted") => Reconcile(r).state # "proposed"
    BY <1>4, <2>1, ForwardCatchesUp DEF Agrees
  <2>3. r \in used /\ Agrees(r, file[r])
    BY <1>4 DEF Good, Untouched
  <2> DEFINE c == Reconcile(r)
  <2>4. PICK q \in Records : q = c
    BY <2>1
  <2>5. (prop[r] # None => Agrees(r, prop[r]))' /\ (file[r] # None => Agrees(r, file[r]))'
    BY <1>1, <1>2, <2>2, <2>3, <2>4 DEF Agrees, Is
  <2>6. (prop[r] # None /\ file[r] # None => Behind(file[r].state, prop[r].state))'
    BY <1>2, <2>1, <2>2, <2>4 DEF Behind, Records, States
  <2>7. (prop[r] # None /\ logOk => CaughtUp(r, prop[r]))'
    BY <1>1, <1>2, <2>1, <2>2, <2>4 DEF CaughtUp, Is, AsidesOf
  <2>8. Logged(r)'
    BY <1>1 DEF Good, Logged, Is
  <2> QED BY <1>1, <2>3, <2>5, <2>6, <2>7, <2>8 DEF Good
<1> QED BY <1>3, <1>4

LEMMA GoodStep ==
  ASSUME TypeOK, OpInv, [Next]_vars, \A r \in Proposals : Good(r), NEW r \in Proposals
  PROVE  Good(r)'
<1>1. CASE \E p \in Proposals, known \in SUBSET Known : Propose(p, known)
  BY <1>1, ProposeGood
<1>2. CASE \E p \in Proposals : Reject(p) \/ Accept(p)
  BY <1>2, RejectGood, AcceptGood
<1>3. CASE WriteSkill \/ \E n \in Names : MemberEdits(n)
  BY <1>3, WriteGood
<1>4. CASE ValidateSkill
  BY <1>4, ValidateGood
<1>5. CASE CloseDecision
  BY <1>5, CloseGood
<1>6. CASE FinishAccept
  BY <1>6, FinishGood
<1>7. CASE \E k, d \in Memories : k # d /\ Resolve(k, d)
  BY <1>7, ResolveGood
<1>8. CASE \E m \in Memories, k \in Known : KeepKnown(m, k) \/ SetKnownAside(m, k)
  BY <1>8, KeepKnownGood, SetAsideGood
<1>9. CASE \E s \in Skills : PreparePublish(s)
  BY <1>9, PublishGood
<1>10. CASE Restart
  BY <1>10, RestartGood
<1>11. CASE UNCHANGED vars
  BY <1>11 DEF vars, Good, Agrees, Behind, CaughtUp, Logged, Untouched, Is, AcceptRuns, AsidesOf
<1> QED BY <1>1, <1>2, <1>3, <1>4, <1>5, <1>6, <1>7, <1>8, <1>9, <1>10, <1>11 DEF Next

-----------------------------------------------------------------------------
(* The log: what is recorded about a proposal, and what never is again.    *)

\* A proposal the log takes a decision on was not decided against.
LEMMA NotDecidedAgainst ==
  ASSUME TypeOK, NEW p \in Proposals, Good(p), logOk,
         State(p) \in {"proposed", "failed", "persisted", "prepared"}
  PROVE  ~DecidedAgainst(p)
  BY DEF Good, CaughtUp, Is, DecidedAgainst, State

\* A new decision falls on a proposal that was not decided against, and one
\* that keeps a side keeps a memory of the app or one still standing.
LogMoves(p) ==
  \/ latest'[p] = latest[p]
  \/ /\ latest'[p] # None /\ ~DecidedAgainst(p)
     /\ \/ latest'[p].kind # "resolved"
        \/ latest'[p].kept \in Known
        \/ \E k \in Memories \ {p} : /\ latest'[p].kept = k /\ ~Is(k, "resolved")
                                     /\ latest'[k] = latest[k]

LEMMA LogStep ==
  ASSUME TypeOK, OpInv, [Next]_vars, \A r \in Proposals : Good(r),
         NEW r \in Proposals
  PROVE  LogMoves(r)
<1> DEFINE Silent == latest' = latest
<1>1. CASE Silent
  BY <1>1 DEF LogMoves
<1>2. ASSUME NEW p \in Proposals, Reject(p) PROVE LogMoves(r)
  <2> PICK fate \in Fates : Record(p, Denial, fate)
    BY <1>2 DEF Reject
  <2>1. /\ logOk /\ latest'[p] \in {latest[p], Denial}
        /\ \A x \in Proposals \ {p} : latest'[x] = latest[x]
    BY DEF Record, TypeOK
  <2>2. State(p) \in {"proposed", "failed"}
    BY <1>2 DEF Reject, Awaiting, AwaitsDecision, State
  <2>3. ~DecidedAgainst(p)
    BY <2>1, <2>2, NotDecidedAgainst
  <2>4. Denial # None /\ Denial.kind = "denied"
    BY DecisionTypes, NoneIsNothing DEF Denial
  <2> HIDE DEF Denial
  <2> QED BY <2>1, <2>3, <2>4 DEF LogMoves
<1>3. ASSUME NEW p \in Proposals, Accept(p) PROVE LogMoves(r)
  <2>1. CASE UNCHANGED <<log, op>>
    BY <2>1 DEF log, LogMoves
  <2>2. CASE \E fate \in Fates : Record(p, Approval, fate)
    <3> PICK fate \in Fates : Record(p, Approval, fate)
      BY <2>2
    <3>1. /\ logOk /\ latest'[p] \in {latest[p], Approval}
          /\ \A x \in Proposals \ {p} : latest'[x] = latest[x]
      BY DEF Record, TypeOK
    <3>2. State(p) \in {"proposed", "failed"}
      BY <1>3 DEF Accept, Awaiting, AwaitsDecision, State
    <3>3. ~DecidedAgainst(p)
      BY <3>1, <3>2, NotDecidedAgainst
    <3>4. Approval # None /\ Approval.kind = "accepted"
      BY DecisionTypes, NoneIsNothing DEF Approval
    <3> HIDE DEF Approval
    <3> QED BY <3>1, <3>3, <3>4 DEF LogMoves
  <2> QED BY <1>3, <2>1, <2>2 DEF Accept
<1>4. ASSUME CloseDecision PROVE LogMoves(r)
  <2> DEFINE d == [latest[op.of] EXCEPT !.completed = op.ok]
  <2>1. op # None
    BY <1>4 DEF CloseDecision, At
  <2>2. /\ op.of \in Proposals /\ op.ok \in BOOLEAN /\ latest[op.of] \in Decisions
        /\ latest[op.of] # None /\ latest[op.of].kind = "accepted"
    BY <2>1, OpFacts DEF TypeOK
  <2>3. d \in Decisions /\ d # None /\ d.kind = "accepted"
    BY <2>2, NoneIsNothing DEF Decisions
  <2>4. /\ latest'[op.of] \in {latest[op.of], d}
        /\ \A x \in Proposals : x # op.of => latest'[x] = latest[x]
    BY <1>4, <2>2 DEF CloseDecision, Record, TypeOK
  <2> HIDE DEF d
  <2> QED BY <2>2, <2>3, <2>4 DEF LogMoves, DecidedAgainst
<1>5. ASSUME NEW k \in Memories, NEW d \in Memories, k # d, Resolve(k, d)
      PROVE  LogMoves(r)
  <2>1. prop[d] # None /\ d \in Proposals /\ k \in Proposals /\ k \in Sides
    BY <1>5 DEF Resolve, State, Proposals, Sides
  <2>2. Decided(d, Retraction(k), [prop EXCEPT ![d].state = "retracted", ![d].kept = k])
    BY <1>5 DEF Resolve
  <2>3. /\ logOk /\ latest'[d] \in {latest[d], Retraction(k)}
        /\ \A x \in Proposals : x # d => latest'[x] = latest[x]
    BY <2>1, <2>2, ResolveNext, RetractionFacts, DecidedFacts
  <2>4. ~DecidedAgainst(d) /\ ~DecidedAgainst(k)
    BY <1>5, <2>1, <2>3, NotDecidedAgainst DEF Resolve
  <2>5. Retraction(k) # None /\ Retraction(k).kept = k
    BY <2>1, RetractionFacts, NoneIsNothing
  <2> QED BY <1>5, <2>1, <2>3, <2>4, <2>5 DEF LogMoves, DecidedAgainst, Is
<1>6. ASSUME NEW m \in Memories, NEW k \in Known, KeepKnown(m, k) PROVE LogMoves(r)
  <2>1. prop[m] # None /\ m \in Proposals /\ k \in Sides
    BY <1>6 DEF KeepKnown, MayResolveKnown, State, Proposals, Sides
  <2>2. Decided(m, Retraction(k), [prop EXCEPT ![m].state = "retracted", ![m].kept = k])
    BY <1>6 DEF KeepKnown
  <2>3. /\ logOk /\ latest'[m] \in {latest[m], Retraction(k)}
        /\ \A x \in Proposals : x # m => latest'[x] = latest[x]
    BY <2>1, <2>2, ResolveNext, RetractionFacts, DecidedFacts
  <2>4. ~DecidedAgainst(m)
    BY <1>6, <2>1, <2>3, NotDecidedAgainst DEF KeepKnown, MayResolveKnown
  <2>5. Retraction(k) # None /\ Retraction(k).kept = k
    BY <2>1, RetractionFacts, NoneIsNothing
  <2> QED BY <2>3, <2>4, <2>5 DEF LogMoves
<1>7. ASSUME NEW s \in Skills, PreparePublish(s) PROVE LogMoves(r)
  <2>1. prop[s] # None /\ s \in Proposals
    BY <1>7 DEF PreparePublish, State, Proposals
  <2>2. Decided(s, Publication, [prop EXCEPT ![s].state = "prepared"])
    BY <1>7 DEF PreparePublish
  <2>3. [prop EXCEPT ![s].state = "prepared"] \in Copies
    BY <2>1, Moved DEF States
  <2>4. /\ logOk /\ latest'[s] \in {latest[s], Publication}
        /\ \A x \in Proposals : x # s => latest'[x] = latest[x]
    BY <2>1, <2>2, <2>3, DecisionTypes, DecidedFacts
  <2>5. ~DecidedAgainst(s)
    BY <1>7, <2>1, <2>4, NotDecidedAgainst DEF PreparePublish
  <2>6. Publication # None /\ Publication.kind = "publish"
    BY DecisionTypes, NoneIsNothing DEF Publication
  <2> HIDE DEF Publication
  <2> QED BY <2>4, <2>5, <2>6 DEF LogMoves
<1>8. CASE \/ \E p \in Proposals, known \in SUBSET Known : Propose(p, known)
           \/ WriteSkill \/ ValidateSkill \/ FinishAccept
           \/ \E m \in Memories, k \in Known : SetKnownAside(m, k)
           \/ \E n \in Names : MemberEdits(n)
           \/ Restart \/ UNCHANGED vars
  <2>1. Silent
    BY <1>8 DEF Propose, WriteSkill, ValidateSkill, FinishAccept, SetKnownAside,
                MemberEdits, Restart, vars, log
  <2> QED BY <1>1, <2>1
<1> QED BY <1>2, <1>3, <1>4, <1>5, <1>6, <1>7, <1>8 DEF Next

\* Resolving keeps a side: the new loser points at one that still stands.
LEMMA OneSideStep ==
  ASSUME OneSideStands, \A p \in Memories : LogMoves(p) PROVE OneSideStands'
<1> SUFFICES ASSUME NEW gone \in SUBSET Memories, gone # {}
             PROVE  \E m \in gone : ~(latest'[m] # None /\ latest'[m].kind = "resolved"
                                       /\ latest'[m].kept \in gone)
  BY DEF OneSideStands
<1> PICK m \in gone : ~(latest[m] # None /\ latest[m].kind = "resolved"
                         /\ latest[m].kept \in gone)
  BY DEF OneSideStands
<1>1. LogMoves(m) /\ Known \cap Memories = {}
  BY KindsAreDisjoint DEF Proposals
<1>2. CASE \/ latest'[m] = latest[m] \/ latest'[m].kind # "resolved"
           \/ latest'[m].kept \in Known
  BY <1>1, <1>2
<1>3. CASE \E k \in Memories \ {m} : /\ latest'[m].kept = k /\ ~Is(k, "resolved")
                                     /\ latest'[k] = latest[k]
  BY <1>3 DEF Is
<1> QED BY <1>1, <1>2, <1>3 DEF LogMoves

-----------------------------------------------------------------------------
(* The accept that is running, and what the app was handed.                *)

\* The accept starts with every memory the app holds of its key in its record.
LEMMA AcceptMeets ==
  ASSUME TypeOK, NEW p \in Memories, logOk, Free, CoreInv,
         \A r \in Proposals : Good(r)
  PROVE  Plain(p) \subseteq Contradicted(p, {})
<1> SUFFICES ASSUME NEW n \in Plain(p) PROVE n \in Contradicted(p, {})
  OBVIOUS
<1>1. /\ n \in Memories /\ n # p /\ n \in Proposals /\ core[n] # None
      /\ Subject[n] = Subject[p] /\ prop[n] # None /\ ~DecidedAgainst(n)
  BY DEF Plain, Proposals
<1>2. /\ prop[n] \in Records /\ latest[n] # None /\ latest[n] \in Decisions
      /\ Agrees(n, prop[n]) /\ CaughtUp(n, prop[n]) /\ Logged(n)
  BY <1>1 DEF TypeOK, CoreInv, Good
<1>3. latest[n].kind = "accepted"
  BY <1>1, <1>2 DEF Decisions, Logged, Is, DecidedAgainst
<1>4. prop[n].state \in {"failed", "persisted"}
  BY <1>1, <1>2, <1>3 DEF Agrees, CaughtUp, Is, AcceptRuns, Free, Records, States
<1> QED BY <1>1, <1>4 DEF Contradicted, Rivals, Accepted, State

LEMMA OpStepAccept ==
  ASSUME TypeOK, CoreInv, \A r \in Proposals : Good(r),
         NEW p \in Proposals, Accept(p)
  PROVE  OpInv'
<1>1. /\ op = None /\ Free /\ Awaiting(p) /\ prop[p] # None /\ core' = core
      /\ prop' = [prop EXCEPT ![p] = Refreshed(p)]
  BY DEF Accept, Awaiting, AwaitsDecision, Free, effects
<1>2. CASE UNCHANGED <<log, op>>
  BY <1>1, <1>2 DEF OpInv
<1>3. ASSUME NEW fate \in Fates, Record(p, Approval, fate),
             op' = IF GoesOn(fate)
                   THEN [of |-> p,
                         stage |-> IF p \in Skills THEN "recorded" ELSE "ended",
                         ok |-> p \in Memories]
                   ELSE None
      PROVE  OpInv'
  <2>1. CASE fate # "kept"
    BY <1>3, <2>1 DEF GoesOn, OpInv
  <2>2. CASE fate = "kept"
    <3> DEFINE o == [of |-> p,
                     stage |-> IF p \in Skills THEN "recorded" ELSE "ended",
                     ok |-> p \in Memories]
    <3>1. op' = o /\ o.of = p /\ o.ok = (p \in Memories)
      BY <1>3, <2>2 DEF GoesOn
    <3> HIDE DEF o
    <3>2. /\ logOk /\ latest'[p] = Approval
          /\ \A x \in Proposals \ {p} : latest'[x] = latest[x]
      BY <1>3, <2>2 DEF Record, TypeOK
    <3>3. Approval # None /\ Approval.kind = "accepted"
      BY DecisionTypes, NoneIsNothing DEF Approval
    <3> HIDE DEF Approval
    <3>4. /\ Refreshed(p) # None /\ Refreshed(p).state = prop[p].state
          /\ Contradicted(p, {}) \subseteq Refreshed(p).contra
          /\ prop'[p] = Refreshed(p)
          /\ \A x \in Proposals \ {p} : prop'[x] = prop[x]
      BY <1>1, RefreshedFacts, NoneIsNothing DEF TypeOK
    <3>5. Awaiting(p)' /\ Is(p, "accepted")'
      BY <1>1, <3>2, <3>3, <3>4 DEF Awaiting, AwaitsDecision, Is
    <3>6. p \in Skills => p \notin Memories
      BY KindsAreDisjoint
    <3>7. p \in Memories => Plain(p)' \subseteq prop'[p].contra
      <4> SUFFICES ASSUME p \in Memories PROVE Plain(p)' \subseteq prop'[p].contra
        OBVIOUS
      <4>1. Plain(p) \subseteq Contradicted(p, {})
        BY <1>1, <3>2, AcceptMeets
      <4>2. Plain(p)' \subseteq Plain(p)
        BY <1>1, <3>2, <3>4 DEF Plain, DecidedAgainst, Proposals
      <4> QED BY <3>4, <4>1, <4>2
    <3>8. op'.of = p /\ op'.ok = (p \in Memories)
      BY <3>1
    <3> QED BY <3>5, <3>6, <3>7, <3>8 DEF OpInv
  <2> QED BY <2>1, <2>2
<1> QED BY <1>2, <1>3 DEF Accept

\* A stage of the accept leaves the proposals and the app's records alone.
LEMMA OpStepStage ==
  ASSUME TypeOK, OpInv, op # None, op' # None, op'.of = op.of,
         prop' = prop, core' = core,
         \A r \in Proposals : \/ latest'[r] = latest[r]
                              \/ r = op.of /\ Is(r, "accepted")',
         op.of \in Skills /\ op'.ok => op.of \in written'
  PROVE  OpInv'
<1> PICK p \in Proposals : p = op.of
  BY OpFacts
<1>1. Awaiting(p) /\ Is(p, "accepted") /\ (p \in Memories => Plain(p) \subseteq prop[p].contra)
  BY DEF OpInv
<1>2. Awaiting(p)' /\ Is(p, "accepted")'
  BY <1>1 DEF Awaiting, Is
<1>3. p \in Memories => Plain(p)' \subseteq Plain(p)
  BY DEF Plain, DecidedAgainst, Proposals
<1> QED BY <1>1, <1>2, <1>3 DEF OpInv

LEMMA OpStep ==
  ASSUME TypeOK, OpInv, CoreInv, [Next]_vars, \A r \in Proposals : Good(r)
  PROVE  OpInv'
<1>1. CASE op' = None
  BY <1>1 DEF OpInv
<1>2. CASE \E p \in Proposals : Accept(p)
  BY <1>2, OpStepAccept
<1>3. CASE WriteSkill
  <2>1. op # None /\ op' \in {[op EXCEPT !.stage = "written"], [op EXCEPT !.stage = "ended"]}
    BY <1>3 DEF WriteSkill, At
  <2>2. op' # None /\ op'.of = op.of /\ op'.ok = op.ok
    BY <2>1, Staged, NoneIsNothing
  <2> QED BY <1>3, <2>1, <2>2, OpStepStage DEF WriteSkill, stores, log, OpInv
<1>4. CASE ValidateSkill
  <2>0. op # None
    BY <1>4 DEF ValidateSkill, At
  <2>1. /\ [op EXCEPT !.stage = "ended", !.ok = TRUE] \in Accepts
        /\ [op EXCEPT !.stage = "ended", !.ok = TRUE].of = op.of
    BY <2>0 DEF TypeOK, Accepts
  <2>2. op' # None /\ op'.of = op.of
    BY <1>4, <2>0, <2>1, Staged, NoneIsNothing DEF ValidateSkill
  <2>3. op.of \in Skills /\ op'.ok => op.of \in written'
    BY <1>4, <2>0, Staged DEF ValidateSkill, OpInv
  <2> QED BY <1>4, <2>0, <2>2, <2>3, OpStepStage DEF ValidateSkill, stores, log
<1>5. CASE CloseDecision
  <2> DEFINE d == [latest[op.of] EXCEPT !.completed = op.ok]
  <2>1. op # None /\ op' \in {[op EXCEPT !.stage = "closed"], [op EXCEPT !.stage = "unclosed"]}
    BY <1>5 DEF CloseDecision, At
  <2>2. op' # None /\ op'.of = op.of /\ op'.ok = op.ok
    BY <2>1, Staged, NoneIsNothing
  <2>3. /\ op.of \in Proposals /\ op.ok \in BOOLEAN /\ latest[op.of] \in Decisions
        /\ latest[op.of] # None /\ latest[op.of].kind = "accepted"
    BY <2>1, OpFacts DEF TypeOK
  <2>4. d # None /\ d.kind = "accepted"
    <3>1. d \in Decisions /\ d.kind = "accepted"
      BY <2>3 DEF Decisions
    <3> QED BY <3>1, NoneIsNothing
  <2>5. /\ latest'[op.of] \in {latest[op.of], d}
        /\ \A x \in Proposals : x # op.of => latest'[x] = latest[x]
    BY <1>5, <2>3 DEF CloseDecision, Record, TypeOK
  <2> HIDE DEF d
  <2>6. \A r \in Proposals : latest'[r] = latest[r] \/ (r = op.of /\ Is(r, "accepted")')
    BY <2>4, <2>5 DEF Is
  <2> QED BY <1>5, <2>1, <2>2, <2>6, OpStepStage DEF CloseDecision, stores, effects, OpInv
<1>6. CASE (\E n \in Names : MemberEdits(n)) \/ UNCHANGED vars
  <2>1. UNCHANGED <<op, prop, latest, core, written>>
    BY <1>6 DEF MemberEdits, stores, log, vars
  <2> QED BY <2>1 DEF OpInv, Awaiting, Is, Plain, DecidedAgainst
<1>7. CASE \/ \E p \in Proposals, known \in SUBSET Known : Propose(p, known)
           \/ \E p \in Proposals : Reject(p)
           \/ FinishAccept \/ Restart
           \/ \E k, d \in Memories : k # d /\ Resolve(k, d)
           \/ \E m \in Memories, k \in Known : KeepKnown(m, k) \/ SetKnownAside(m, k)
           \/ \E s \in Skills : PreparePublish(s)
  <2>1. op' = None
    BY <1>7 DEF Propose, Reject, FinishAccept, Restart, Resolve, KeepKnown,
                SetKnownAside, MayResolveKnown, PreparePublish, Free
  <2> QED BY <1>1, <2>1
<1> QED BY <1>2, <1>3, <1>4, <1>5, <1>6, <1>7 DEF Next

\* Only an answered accept hands the app a record, and of its own memory.
LEMMA CoreMoves ==
  ASSUME TypeOK, OpInv, [Next]_vars
  PROVE  \/ core' = core
         \/ /\ op # None /\ op.of \in Memories /\ latest' = latest /\ used' = used
            /\ core' = [core EXCEPT ![op.of] =
                          [contra |-> prop[op.of].contra,
                           dropped |-> {m \in Memories \cap used : prop[m] = None}]]
<1>1. CASE FinishAccept
  BY <1>1 DEF FinishAccept, At, kept, log
<1>2. CASE ~FinishAccept
  BY <1>2 DEF Next, Propose, Reject, Accept, WriteSkill, ValidateSkill, CloseDecision,
              Resolve, KeepKnown, SetKnownAside, PreparePublish, MemberEdits, Restart,
              vars, effects
<1> QED BY <1>1, <1>2

LEMMA CoreStep ==
  ASSUME TypeOK, OpInv, CoreInv, [Next]_vars, \A r \in Proposals : Good(r)
  PROVE  CoreInv'
<1> SUFFICES ASSUME NEW m \in Memories, core'[m] # None
             PROVE  m \in used' /\ latest'[m] # None
  BY DEF CoreInv
<1>0. m \in Proposals
  BY DEF Proposals
<1>1. latest[m] # None => latest'[m] # None
  BY <1>0, LogStep DEF LogMoves
<1>2. used \subseteq used'
  BY DEF Next, Propose, Reject, Accept, WriteSkill, ValidateSkill, CloseDecision, FinishAccept,
         Resolve, KeepKnown, SetKnownAside, PreparePublish, MemberEdits, Restart, vars, kept
<1>3. CASE core[m] # None
  BY <1>1, <1>2, <1>3 DEF CoreInv
<1>4. CASE core[m] = None
  <2>1. /\ op # None /\ latest' = latest /\ used' = used
        /\ core' = [core EXCEPT ![op.of] =
                      [contra |-> prop[op.of].contra,
                       dropped |-> {n \in Memories \cap used : prop[n] = None}]]
    BY <1>4, CoreMoves
  <2>2. m = op.of
    BY <1>4, <2>1 DEF TypeOK
  <2>3. prop[m] \in Records /\ latest[m] # None
    BY <2>1, <2>2, OpFacts
  <2>4. m \in used
    BY <1>0, <2>3, NoneIsNothing DEF Good, Untouched
  <2> QED BY <2>1, <2>3, <2>4
<1> QED BY <1>3, <1>4

LEMMA MergeStep ==
  ASSUME TypeOK, OpInv, CoreInv, NoSilentMerge, [Next]_vars, \A r \in Proposals : Good(r)
  PROVE  NoSilentMerge'
<1> SUFFICES ASSUME NEW m \in Memories, NEW n \in Memories,
                    m # n, Subject[m] = Subject[n],
                    core'[m] # None, core'[n] # None,
                    m \notin core'[n].dropped, n \notin core'[m].dropped,
                    ~DecidedAgainst(m)', ~DecidedAgainst(n)'
             PROVE  m \in core'[n].contra \/ n \in core'[m].contra
  BY DEF NoSilentMerge
<1>1. ~DecidedAgainst(m) /\ ~DecidedAgainst(n)
  <2>1. LogMoves(m) /\ LogMoves(n)
    BY LogStep DEF Proposals
  <2> QED BY <2>1 DEF LogMoves, DecidedAgainst
<1>2. CASE core'[m] = core[m] /\ core'[n] = core[n]
  BY <1>1, <1>2 DEF NoSilentMerge
\* One of the two was just handed over: its record has met the other.
<1>3. ASSUME NEW x \in {m, n}, NEW y \in {m, n} \ {x}, op # None, x = op.of,
             core' = [core EXCEPT ![op.of] =
                        [contra |-> prop[op.of].contra,
                         dropped |-> {z \in Memories \cap used : prop[z] = None}]]
      PROVE  y \in core'[x].contra
  <2>1. /\ core'[x] = [contra |-> prop[x].contra,
                       dropped |-> {z \in Memories \cap used : prop[z] = None}]
        /\ core'[y] = core[y]
    BY <1>3 DEF TypeOK
  <2>2. core[y] # None /\ y \in used /\ y \notin core'[x].dropped
    BY <1>3, <2>1 DEF CoreInv
  <2>3. prop[y] # None
    BY <2>1, <2>2
  <2>4. y \in Plain(x)
    BY <1>1, <1>3, <2>2, <2>3 DEF Plain
  <2>5. Plain(x) \subseteq prop[x].contra
    BY <1>3 DEF OpInv
  <2> QED BY <2>1, <2>4, <2>5
<1>4. CASE ~(core'[m] = core[m] /\ core'[n] = core[n])
  <2>1. /\ op # None
        /\ core' = [core EXCEPT ![op.of] =
                      [contra |-> prop[op.of].contra,
                       dropped |-> {z \in Memories \cap used : prop[z] = None}]]
    BY <1>4, CoreMoves
  <2>2. op.of = m \/ op.of = n
    BY <1>4, <2>1 DEF TypeOK
  <2> QED BY <1>3, <2>1, <2>2
<1> QED BY <1>2, <1>4

-----------------------------------------------------------------------------
(* The theorems.                                                           *)

LEMMA InitInv == Init => TypeOK /\ LearnInv
<1> SUFFICES ASSUME Init PROVE LearnInv
  BY InitType
<1>1. \A p \in Proposals : Good(p)
  BY DEF Init, Good, Untouched, Logged, AsidesOf, Is
<1>2. OpInv /\ CoreInv /\ NoSilentMerge
  BY DEF Init, OpInv, CoreInv, NoSilentMerge
<1>3. OneSideStands
  BY DEF Init, OneSideStands, Proposals
<1> QED BY <1>1, <1>2, <1>3 DEF LearnInv

LEMMA InvStep == TypeOK /\ LearnInv /\ [Next]_vars => TypeOK' /\ LearnInv'
<1> SUFFICES ASSUME TypeOK, LearnInv, [Next]_vars PROVE TypeOK' /\ LearnInv'
  OBVIOUS
<1>1. /\ OpInv /\ CoreInv /\ NoSilentMerge /\ OneSideStands
      /\ \A p \in Proposals : Good(p)
  BY DEF LearnInv
<1>2. TypeOK'
  BY <1>1, TypeStep
<1>3. (\A p \in Proposals : Good(p))'
  BY <1>1, GoodStep
<1>4. OpInv' /\ CoreInv' /\ NoSilentMerge'
  BY <1>1, OpStep, CoreStep, MergeStep
<1>5. OneSideStands'
  BY <1>1, LogStep, OneSideStep DEF Proposals
<1> QED BY <1>2, <1>3, <1>4, <1>5 DEF LearnInv

\* The inductive invariant: in every state the map, the file and the log are
\* no further apart than opening again can close, the accept that is running
\* is on record, and the app holds no unmarked contradiction.
THEOREM LearnerInvariant == Spec => [](TypeOK /\ LearnInv)
  BY InitInv, InvStep, PTL DEF Spec

\* Every variable keeps its type.
THEOREM TypeCorrect == Spec => []TypeOK
  BY LearnerInvariant, PTL

\* reject, resolve, resolve_known and open: once the log takes records, the
\* member sees every denial, resolution and known memory set aside, whatever
\* saves were lost, for any number of proposals and restarts.
THEOREM DecisionsAreSeen == Spec => []MemberSeesDecisions
<1>1. TypeOK /\ LearnInv => MemberSeesDecisions
  <2> SUFFICES ASSUME TypeOK, LearnInv, logOk, NEW p \in Proposals, prop[p] # None
               PROVE  /\ latest[p] # None =>
                           /\ latest[p].kind = "denied" => prop[p].state = "rejected"
                           /\ latest[p].kind = "resolved" =>
                                /\ prop[p].state = "retracted"
                                /\ prop[p].kept = latest[p].kept
                      /\ AsidesOf(p) \subseteq prop[p].setAside
    BY DEF MemberSeesDecisions, AsidesOf
  <2>1. Agrees(p, prop[p]) /\ CaughtUp(p, prop[p])
    BY DEF LearnInv, Good
  <2> QED BY <2>1 DEF Agrees, CaughtUp, Is
<1> QED BY <1>1, LearnerInvariant, PTL

\* accept, persist_skill and open: what is shown as kept was written and read
\* back, and nothing is written or handed to the app before its decision is
\* in the log.
THEOREM KeptWasKept == Spec => []KeptIsReal
<1>1. TypeOK /\ LearnInv => KeptIsReal
  <2> SUFFICES ASSUME TypeOK, LearnInv PROVE KeptIsReal
    OBVIOUS
  <2>1. ASSUME NEW s \in Skills
        PROVE  /\ State(s) \in {"persisted", "prepared"} => s \in written
               /\ s \in written => latest[s] # None
    BY DEF LearnInv, Good, Agrees, Logged, State, Proposals
  <2>2. \A m \in Memories : core[m] # None => latest[m] # None
    BY DEF LearnInv, CoreInv
  <2> QED BY <2>1, <2>2 DEF KeptIsReal
<1> QED BY <1>1, LearnerInvariant, PTL

\* memory_conflicts, resolve and open: no two memories of one key reach the
\* app unmarked while neither was decided against, and no circle of memories
\* is retracted each for the next.
THEOREM ContradictionsAreMarked == Spec => []ContradictionsHold
<1>1. LearnInv => ContradictionsHold
  BY DEF LearnInv, ContradictionsHold
<1> QED BY <1>1, LearnerInvariant, PTL

\* reconcile_with_log: no step records anything about a proposal that was
\* denied or resolved, so an older file never brings it back to the member.
THEOREM DecisionsStand == Spec => DecisionsAreFinal
<1>1. TypeOK /\ LearnInv /\ [Next]_vars =>
        \A p \in Proposals :
          latest[p] # None /\ latest[p].kind \in {"denied", "resolved"}
            => latest'[p] = latest[p]
  <2> SUFFICES ASSUME TypeOK, LearnInv, [Next]_vars, NEW p \in Proposals,
                      latest[p] # None, latest[p].kind \in {"denied", "resolved"}
               PROVE  latest'[p] = latest[p]
    OBVIOUS
  <2>1. LogMoves(p)
    BY LogStep DEF LearnInv
  <2> QED BY <2>1 DEF LogMoves, DecidedAgainst
<1>2. TypeOK /\ LearnInv /\ [Next]_vars =>
        [\A p \in Proposals :
           latest[p] # None /\ latest[p].kind \in {"denied", "resolved"}
             => latest'[p] = latest[p]]_vars
  BY <1>1
<1>3. [](TypeOK /\ LearnInv) /\ [][Next]_vars => DecisionsAreFinal
  BY <1>2, PTL DEF DecisionsAreFinal
<1> QED BY <1>3, LearnerInvariant, PTL DEF Spec

=============================================================================
