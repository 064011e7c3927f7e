------------------------------ MODULE DecisionLog ------------------------------
(***************************************************************************)
(* The decision log of agent-records: store.rs (the one writer), seg.rs     *)
(* (the directory and the walk) and verify.rs.                              *)
(*                                                                         *)
(* The log is a chain of records in segment files, a HEAD file that names   *)
(* the last record and, after pruning, a CHECKPOINT that says where the      *)
(* retained chain starts. Every system call that changes a file is an        *)
(* action, so the process can be killed, the power can fail and the call     *)
(* can return an error at each of them.                                     *)
(*                                                                         *)
(* `seen' is the directory as a process sees it and `durable' what has been  *)
(* flushed. The file system is journalled: any flush makes every earlier      *)
(* change of a name (a file created, renamed or removed) durable, and a flush *)
(* of a segment its lines. Losing power keeps of what was not flushed either  *)
(* nothing, or all names and any part of a line.                             *)
(*                                                                         *)
(* Abstracted: the bytes of a record (a line has a length), its hash (a      *)
(* number of its own for every record sealed), its actor and its text.       *)
(***************************************************************************)
EXTENDS Naturals, FiniteSets, SequencesExt

CONSTANTS MaxSegmentBytes,  \* LogConfig::max_segment_bytes
          MaxSegments,      \* LogConfig::max_segments, or None
          Sizes,            \* lengths of a line
          Times,            \* readings of the clock
          MaxSealed,        \* bound: records sealed
          MaxKills,         \* bound: processes killed or ended
          MaxPowerLosses,   \* bound: power losses
          MaxIoErrors,      \* bound: system calls that fail
          MixedCrashes,     \* bound: whether kills and power losses meet in a behaviour
          None

ASSUME LengthAssumption == MaxSegmentBytes \in Nat \ {0} /\ Sizes \subseteq Nat \ {0}
ASSUME RetentionAssumption == MaxSegments = None \/ MaxSegments \in Nat \ {0}
ASSUME TimeAssumption == Times \subseteq Nat
ASSUME MixedAssumption == MixedCrashes \in BOOLEAN
\* Where the code has an Option or no file.
ASSUME NoneAssumption ==
  /\ None \notin [seq : Nat, hash : Nat]
  /\ None \notin [next : Nat, prev : Nat, ts : Nat, open : SUBSET Nat]

VARIABLES
  seen, durable,  \* the records directory: [head, checkpoint, segs]
  pc,             \* where the process is: see Steps
  home,           \* where an append returns to: "close" while opening, or "ready"
  mem,            \* Inner, the state under the lock of an open log
  rec,            \* the record being appended
  sealed,         \* the records sealed so far
  kept,           \* history: records acknowledged, or found by a recovery
  kills, powerLosses, ioErrors

files  == <<seen, durable>>
counts == <<kills, powerLosses, ioErrors>>
vars   == <<files, pc, home, mem, rec, sealed, kept, counts>>

Steps == {"down", "quarantine", "cut", "stale", "staleSync", "repair", "repairSync",
          "segment", "segmentSync", "close", "ready",
          "rotate", "rotateSync", "prune", "pruneSync", "pruneRemove", "pruneRemoveSync",
          "write", "sync", "rollback", "rollbackSync", "head", "headSync"}

Kinds   == {"allow", "deny", "outcome"}
Records == [seq : Nat, ts : Times \cup {0}, prev : Nat, hash : Nat, kind : Kinds,
            ref : Nat \cup {None}, size : Sizes]
Lower(S) == CHOOSE x \in S : \A y \in S : x <= y
Upper(S) == CHOOSE x \in S : \A y \in S : y <= x

-----------------------------------------------------------------------------
(* The directory and the walk: seg.rs *)

\* A segment: its complete lines and their length, and whether part of a line follows.
Empty == [recs |-> <<>>, torn |-> FALSE, len |-> 0]

\* Where the retained chain starts.
Start(d) == IF d.checkpoint = None THEN [next |-> 0, prev |-> 0, ts |-> 0, open |-> {}]
                                   ELSE d.checkpoint

\* A segment a crash left behind between the CHECKPOINT and the deletion.
Stale(d) == {i \in DOMAIN d.segs :
               /\ d.segs[i].recs # <<>>
               /\ \A r \in ToSet(d.segs[i].recs) : r.seq < Start(d).next}

TornSegments(d) == {i \in DOMAIN d.segs : d.segs[i].torn}
IsLast(d, i) == \A j \in DOMAIN d.segs : j <= i

Live(d)     == DOMAIN d.segs \ Stale(d)
Filled(d)   == {i \in Live(d) : d.segs[i].recs # <<>>}
Retained(d) == UNION {ToSet(d.segs[i].recs) : i \in Live(d)}

\* The allowing decisions without an outcome, after the given retained records.
OpenAfter(d, recs) ==
  (Start(d).open \cup {r.seq : r \in {q \in recs : q.kind = "allow"}})
    \ {r.ref : r \in {q \in recs : q.kind = "outcome"}}
OpenDecisions(d) == OpenAfter(d, Retained(d))

Names(r)  == [seq |-> r.seq, hash |-> r.hash]
Newest(d) == Last(d.segs[Upper(Filled(d))].recs)
Tip(d)    == IF Filled(d) = {} THEN None ELSE Names(Newest(d))

HeadLags(d) == Tip(d) # None /\ d.head # Tip(d)

\* The segments: only the last one may be torn, and only for a recovery; what
\* precedes the checkpoint comes first and ends where the checkpoint says.
SegmentsFit(d, mode) ==
  /\ \A i \in TornSegments(d) : mode = "Recover" /\ IsLast(d, i)
  /\ \A i \in Stale(d) :
       /\ \A j \in DOMAIN d.segs \ Stale(d) : d.segs[j].recs # <<>> => i < j
       /\ \A r \in ToSet(d.segs[i].recs) :
            r.seq + 1 = Start(d).next => r.hash = Start(d).prev

\* What the k-th record of segment i has to continue.
Continues(r) == [next |-> r.seq + 1, prev |-> r.hash, ts |-> r.ts]
Expected(d, i, k) ==
  LET earlier == {j \in Filled(d) : j < i} IN
  CASE k > 1                    -> Continues(d.segs[i].recs[k-1])
    [] k = 1 /\ earlier # {} -> Continues(Last(d.segs[Upper(earlier)].recs))
    [] k = 1 /\ earlier = {} -> Start(d)

\* Every link: numbers, hashes, times and what an outcome closes.
ChainFits(d) ==
  \A i \in Live(d) : \A k \in DOMAIN d.segs[i].recs :
    LET r == d.segs[i].recs[k]
        x == Expected(d, i, k) IN
    /\ r.seq = x.next /\ r.prev = x.prev /\ r.ts >= x.ts
    /\ r.kind = "outcome" => r.ref \in OpenAfter(d, {q \in Retained(d) : q.seq < r.seq})

\* HEAD names the tip or the record before it.
HeadFits(d) ==
  IF Tip(d) = None
  THEN \/ d.head = None /\ d.checkpoint = None
       \/ /\ d.head # None /\ d.checkpoint # None
          /\ d.head = [seq |-> d.checkpoint.next - 1, hash |-> d.checkpoint.prev]
  ELSE \E r \in Retained(d) : d.head = Names(r) /\ r.seq + 1 >= Tip(d).seq

WalkOk(d, mode) == SegmentsFit(d, mode) /\ ChainFits(d) /\ HeadFits(d)

-----------------------------------------------------------------------------
Directory == [head |-> None, checkpoint |-> None, segs |-> <<>>]

Init ==
  /\ seen = Directory /\ durable = Directory
  /\ pc = "down" /\ home = "close"
  /\ mem = None /\ rec = None
  /\ sealed = 0 /\ kept = {}
  /\ kills = 0 /\ powerLosses = 0 /\ ioErrors = 0

\* The names and the renamed files are durable, a new file being empty.
Journalled ==
  [seen EXCEPT !.segs = [i \in DOMAIN seen.segs |->
                           IF i \in DOMAIN durable.segs THEN durable.segs[i] ELSE Empty]]
SyncDir == durable' = Journalled

SetSegment(d, i, content) == [d EXCEPT !.segs = [@ EXCEPT ![i] = content]]
AddSegment(d, i) == [d EXCEPT !.segs =
                       [j \in DOMAIN @ \cup {i} |-> IF j = i THEN Empty ELSE @[j]]]
DropSegment(d, i) == [d EXCEPT !.segs = [j \in DOMAIN @ \ {i} |-> @[j]]]

Goto(step) == pc' = step

\* A system call fails, within the bound.
IoError == ioErrors < MaxIoErrors /\ ioErrors' = ioErrors + 1 /\ UNCHANGED <<kills, powerLosses>>
NoError == UNCHANGED counts

-----------------------------------------------------------------------------
(* open_with_clock: store.rs *)

\* What recovery has left to do before it opens a segment.
Recovery(d) ==
  CASE TornSegments(d) # {}                     -> "quarantine"
    [] TornSegments(d) = {} /\ Stale(d) # {}    -> "stale"
    [] TornSegments(d) = {} /\ Stale(d) = {} /\ HeadLags(d)  -> "repair"
    [] TornSegments(d) = {} /\ Stale(d) = {} /\ ~HeadLags(d) -> "segment"

\* Faulty: a torn line is refused on recovery as well.
OpenStrict ==
  /\ pc = "down" /\ WalkOk(seen, "Strict")
  /\ Goto(Recovery(seen))
  /\ home' = "close"
  /\ kept' = kept \cup Retained(seen)
  /\ NoError
  /\ UNCHANGED <<files, mem, rec, sealed>>

\* The lock is taken and the walk accepts the directory. (When it does not,
\* open returns the integrity error and nothing changes.)
Open ==
  /\ pc = "down" /\ WalkOk(seen, "Recover")
  /\ Goto(Recovery(seen))
  /\ home' = "close"
  /\ kept' = kept \cup Retained(seen)
  /\ NoError
  /\ UNCHANGED <<files, mem, rec, sealed>>

OpenFails == Goto("down") /\ UNCHANGED <<home, mem, rec, sealed, kept>>
Opening(step) == Goto(step) /\ NoError /\ UNCHANGED <<home, rec, sealed, kept>>

\* quarantine_torn: the torn bytes go to a file of their own (write_atomic, which
\* flushes the directory) ...
Quarantine ==
  /\ pc = "quarantine"
  /\ \/ SyncDir /\ Opening("cut") /\ UNCHANGED <<seen, mem>>
     \/ IoError /\ OpenFails /\ UNCHANGED files

\* ... and the segment is cut back to its last complete record and flushed.
CutTail ==
  /\ pc = "cut"
  /\ \E i \in TornSegments(seen) :
       LET whole == [seen.segs[i] EXCEPT !.torn = FALSE] IN
       \/ /\ seen' = SetSegment(seen, i, whole)
          /\ durable' = SetSegment(Journalled, i, whole)
          /\ Opening(Recovery(seen')) /\ UNCHANGED mem
       \/ IoError /\ OpenFails /\ UNCHANGED files
       \/ IoError /\ OpenFails /\ seen' = SetSegment(seen, i, whole) /\ UNCHANGED durable

RemoveStale ==
  /\ pc = "stale"
  /\ \/ /\ seen' = DropSegment(seen, Lower(Stale(seen)))
        /\ Opening(IF Stale(seen') = {} THEN "staleSync" ELSE "stale")
        /\ UNCHANGED <<durable, mem>>
     \/ IoError /\ OpenFails /\ UNCHANGED files

SyncStale ==
  /\ pc = "staleSync"
  /\ \/ SyncDir /\ Opening(Recovery(seen)) /\ UNCHANGED <<seen, mem>>
     \/ IoError /\ OpenFails /\ UNCHANGED files

\* write_head for the tip, when HEAD lags.
RepairHead ==
  /\ pc = "repair"
  /\ \/ seen' = [seen EXCEPT !.head = Tip(seen)] /\ Opening("repairSync") /\ UNCHANGED <<durable, mem>>
     \/ IoError /\ OpenFails /\ UNCHANGED files

SyncRepair ==
  /\ pc = "repairSync"
  /\ \/ SyncDir /\ Opening("segment") /\ UNCHANGED <<seen, mem>>
     \/ IoError /\ OpenFails /\ UNCHANGED files

\* Faulty: the time of the last record is forgotten.
MemFromNoClock(d, i) ==
  [seg |-> i, len |-> d.segs[i].len, count |-> Cardinality(DOMAIN d.segs),
   next |-> IF Tip(d) # None THEN Tip(d).seq + 1 ELSE Start(d).next,
   prev |-> IF Tip(d) # None THEN Tip(d).hash ELSE Start(d).prev,
   ts   |-> 0, open |-> OpenDecisions(d), failed |-> FALSE]

\* Inner, from the walk and the last segment.
MemFrom(d, i) ==
  [seg |-> i, len |-> d.segs[i].len, count |-> Cardinality(DOMAIN d.segs),
   next |-> IF Tip(d) # None THEN Tip(d).seq + 1 ELSE Start(d).next,
   prev |-> IF Tip(d) # None THEN Tip(d).hash ELSE Start(d).prev,
   ts   |-> IF Tip(d) # None THEN Newest(d).ts ELSE Start(d).ts,
   open |-> OpenDecisions(d), failed |-> FALSE]

\* open_append on the last segment, or on a first one whose name is then flushed.
OpenSegment ==
  /\ pc = "segment"
  /\ \/ /\ DOMAIN seen.segs # {}
        /\ mem' = MemFrom(seen, Upper(DOMAIN seen.segs))
        /\ Opening("close") /\ UNCHANGED files
     \/ /\ DOMAIN seen.segs = {}
        /\ seen' = AddSegment(seen, 1)
        /\ Opening("segmentSync") /\ UNCHANGED <<durable, mem>>
     \/ IoError /\ OpenFails /\ UNCHANGED files

SyncSegment ==
  /\ pc = "segmentSync"
  /\ \/ SyncDir /\ mem' = MemFrom(seen, 1) /\ Opening("close") /\ UNCHANGED seen
     \/ IoError /\ OpenFails /\ UNCHANGED files

\* Every decision found open has been closed: open returns the log.
Opened ==
  /\ pc = "close" /\ mem.open = {}
  /\ Goto("ready") /\ home' = "ready"
  /\ NoError
  /\ UNCHANGED <<files, mem, rec, sealed, kept>>

-----------------------------------------------------------------------------
(* append: store.rs. A caller that is refused (the log has failed, or the       *)
(* outcome names no open decision) changes nothing.                            *)

\* An append that ends with an error; an open that is closing decisions fails
\* with it.
AppendFails(failed) ==
  /\ Goto(IF home = "close" THEN "down" ELSE "ready")
  /\ mem' = [mem EXCEPT !.failed = failed]
  /\ rec' = None
  /\ UNCHANGED <<home, sealed, kept>>
Appending(step) == Goto(step) /\ NoError /\ UNCHANGED <<home, rec, sealed, kept>>

Seal(kind, ref, size, now) ==
  /\ sealed < MaxSealed
  /\ sealed' = sealed + 1
  /\ rec' = [seq |-> mem.next, ts |-> IF now > mem.ts THEN now ELSE mem.ts,
             prev |-> mem.prev, hash |-> sealed + 1, kind |-> kind, ref |-> ref, size |-> size]
  /\ Goto(IF mem.len > 0 /\ mem.len + size > MaxSegmentBytes THEN "rotate" ELSE "write")
  /\ NoError
  /\ UNCHANGED <<files, home, mem, kept>>

\* record_decision and record_outcome, up to the first write.
RecordDecision(kind, size, now) ==
  pc = "ready" /\ ~mem.failed /\ Seal(kind, None, size, now)

RecordOutcome(ref, size, now) ==
  pc = "ready" /\ ~mem.failed /\ ref \in mem.open /\ Seal("outcome", ref, size, now)

\* Faulty: recovery closes nothing.
CloseNothing(size, now) ==
  /\ pc = "close" /\ mem.open # {}
  /\ Goto("ready") /\ home' = "ready" /\ NoError
  /\ UNCHANGED <<files, mem, rec, sealed, kept>>

\* Recovery closes the decisions it found open, in order.
CloseOnRecovery(size, now) ==
  pc = "close" /\ mem.open # {} /\ Seal("outcome", Lower(mem.open), size, now)

\* rotate: create the next segment, which must not exist ...
Rotate ==
  /\ pc = "rotate"
  /\ \/ /\ mem.seg + 1 \notin DOMAIN seen.segs
        /\ seen' = AddSegment(seen, mem.seg + 1)
        /\ Appending("rotateSync") /\ UNCHANGED <<durable, mem>>
     \/ /\ mem.seg + 1 \in DOMAIN seen.segs
        /\ AppendFails(FALSE) /\ NoError /\ UNCHANGED files
     \/ IoError /\ AppendFails(FALSE) /\ UNCHANGED files

Retains(n) == MaxSegments = None \/ n <= MaxSegments

\* ... flush its name and move to it.
SyncRotate ==
  /\ pc = "rotateSync"
  /\ \/ /\ SyncDir
        /\ mem' = [mem EXCEPT !.seg = @ + 1, !.len = 0, !.count = @ + 1]
        /\ Appending(IF Retains(mem.count + 1) THEN "write" ELSE "prune")
        /\ UNCHANGED seen
     \/ IoError /\ AppendFails(FALSE) /\ UNCHANGED files

\* Faulty: the decisions an earlier checkpoint left open are forgotten; closed
\* decisions stay open; the segment goes before the checkpoint is written.
CheckpointForgetsOpen(d, recs) ==
  LET own == {r \in ToSet(recs) : r.seq >= Start(d).next} IN
  [next |-> Last(recs).seq + 1, prev |-> Last(recs).hash, ts |-> Last(recs).ts,
   open |-> OpenAfter(d, own) \ Start(d).open]
CheckpointKeepsClosed(d, recs) ==
  LET own == {r \in ToSet(recs) : r.seq >= Start(d).next} IN
  [next |-> Last(recs).seq + 1, prev |-> Last(recs).hash, ts |-> Last(recs).ts,
   open |-> Start(d).open \cup {r.seq : r \in {q \in own : q.kind = "allow"}}]
PruneRemovesFirst ==
  /\ pc = "prune"
  /\ seen' = DropSegment(seen, Lower(DOMAIN seen.segs))
  /\ Appending("pruneRemoveSync") /\ UNCHANGED <<durable, mem>>

\* What prune_oldest puts in the checkpoint for the segment it drops, whose records
\* are in order.
CheckpointAfter(d, recs) ==
  [next |-> Last(recs).seq + 1, prev |-> Last(recs).hash, ts |-> Last(recs).ts,
   open |-> OpenAfter(d, {r \in ToSet(recs) : r.seq >= Start(d).next})]

Prune ==
  /\ pc = "prune"
  /\ LET recs == seen.segs[Lower(DOMAIN seen.segs)].recs
         some == \E r \in ToSet(recs) : r.seq >= Start(seen).next IN
     \/ /\ seen' = IF some THEN [seen EXCEPT !.checkpoint = CheckpointAfter(seen, recs)] ELSE seen
        /\ Appending(IF some THEN "pruneSync" ELSE "pruneRemove")
        /\ UNCHANGED <<durable, mem>>
     \/ IoError /\ AppendFails(TRUE) /\ UNCHANGED files

SyncPrune ==
  /\ pc = "pruneSync"
  /\ \/ SyncDir /\ Appending("pruneRemove") /\ UNCHANGED <<seen, mem>>
     \/ IoError /\ AppendFails(TRUE) /\ UNCHANGED files

PruneRemove ==
  /\ pc = "pruneRemove"
  /\ \/ /\ seen' = DropSegment(seen, Lower(DOMAIN seen.segs))
        /\ Appending("pruneRemoveSync") /\ UNCHANGED <<durable, mem>>
     \/ IoError /\ AppendFails(TRUE) /\ UNCHANGED files

SyncPruneRemove ==
  /\ pc = "pruneRemoveSync"
  /\ \/ /\ SyncDir
        /\ mem' = [mem EXCEPT !.count = @ - 1]
        /\ Appending(IF Retains(mem.count - 1) THEN "write" ELSE "prune")
        /\ UNCHANGED seen
     \/ IoError /\ AppendFails(TRUE) /\ UNCHANGED files

WithLine(segment)     == [segment EXCEPT !.recs = Append(@, rec), !.len = @ + rec.size]
WithHalfLine(segment) == [segment EXCEPT !.torn = TRUE]
\* What a line that was not flushed may leave.
Leftovers(segment) == {segment, WithHalfLine(segment), WithLine(segment)}

\* write_all: on an error, any part of the line is in the file.
WriteLine ==
  /\ pc = "write"
  /\ \/ /\ seen' = SetSegment(seen, mem.seg, WithLine(seen.segs[mem.seg]))
        /\ Appending("sync") /\ UNCHANGED <<durable, mem>>
     \/ /\ IoError /\ Goto("rollback")
        /\ \E left \in Leftovers(seen.segs[mem.seg]) : seen' = SetSegment(seen, mem.seg, left)
        /\ UNCHANGED <<durable, home, mem, rec, sealed, kept>>

\* Faulty: the line is not flushed before HEAD names it.
SyncLineSkipped == pc = "sync" /\ Appending("head") /\ UNCHANGED <<files, mem>>

\* sync_data: on an error, any part of the line is on disk.
SyncLine ==
  /\ pc = "sync"
  /\ \/ /\ durable' = SetSegment(Journalled, mem.seg, seen.segs[mem.seg])
        /\ Appending("head") /\ UNCHANGED <<seen, mem>>
     \/ /\ IoError /\ Goto("rollback")
        /\ \E left \in Leftovers(Journalled.segs[mem.seg]) :
             durable' = SetSegment(Journalled, mem.seg, left)
        /\ UNCHANGED <<seen, home, mem, rec, sealed, kept>>

\* Faulty: only a torn line is cut off.
BeforeKeepsLine(segment) == [segment EXCEPT !.torn = FALSE]

\* The segment cut back to the length it had before this append.
Before(segment) ==
  [recs |-> IF segment.len > mem.len THEN Front(segment.recs) ELSE segment.recs,
   torn |-> FALSE, len |-> mem.len]

\* set_len back to seg_len ...
RollBack ==
  /\ pc = "rollback"
  /\ \/ seen' = SetSegment(seen, mem.seg, Before(seen.segs[mem.seg]))
        /\ Appending("rollbackSync") /\ UNCHANGED <<durable, mem>>
     \/ IoError /\ AppendFails(TRUE) /\ UNCHANGED files

\* ... and its flush; the append fails either way.
SyncRollBack ==
  /\ pc = "rollbackSync"
  /\ \/ /\ durable' = SetSegment(Journalled, mem.seg, seen.segs[mem.seg])
        /\ AppendFails(FALSE) /\ NoError /\ UNCHANGED seen
     \/ IoError /\ AppendFails(TRUE) /\ UNCHANGED files

\* Faulty: the log goes on although HEAD could not be written.
RenameHeadForgiving ==
  /\ pc = "head"
  /\ \/ /\ seen' = [seen EXCEPT !.head = Names(rec)]
        /\ Appending("headSync") /\ UNCHANGED <<durable, mem>>
     \/ IoError /\ AppendFails(FALSE) /\ UNCHANGED files

\* write_head: temporary file, rename ...
RenameHead ==
  /\ pc = "head"
  /\ \/ /\ seen' = [seen EXCEPT !.head = Names(rec)]
        /\ Appending("headSync") /\ UNCHANGED <<durable, mem>>
     \/ IoError /\ AppendFails(TRUE) /\ UNCHANGED files

\* ... and flush of the directory, with which the record is acknowledged.
SyncHead ==
  /\ pc = "headSync"
  /\ \/ /\ SyncDir
        /\ mem' = [mem EXCEPT !.len = @ + rec.size, !.next = @ + 1, !.prev = rec.hash,
                     !.ts = rec.ts,
                     !.open = CASE rec.kind = "allow"   -> @ \cup {rec.seq}
                                [] rec.kind = "deny"    -> @
                                [] rec.kind = "outcome" -> @ \ {rec.ref}]
        /\ Goto(home) /\ rec' = None /\ kept' = kept \cup {rec}
        /\ NoError /\ UNCHANGED <<seen, home, sealed>>
     \/ IoError /\ AppendFails(TRUE) /\ UNCHANGED files

-----------------------------------------------------------------------------
(* Crashes *)

\* The process ends or is killed, in the middle of a write perhaps. What it has
\* written stays visible.
Kill ==
  /\ pc # "down" /\ kills < MaxKills /\ (MixedCrashes \/ powerLosses = 0)
  /\ kills' = kills + 1
  /\ \/ UNCHANGED seen
     \/ pc = "write" /\ seen' = SetSegment(seen, mem.seg, WithHalfLine(seen.segs[mem.seg]))
  /\ Goto("down") /\ home' = "close" /\ mem' = None /\ rec' = None
  /\ UNCHANGED <<durable, sealed, kept, powerLosses, ioErrors>>

\* What a segment whose name survives may hold after a power loss.
Survives(i) ==
  LET flushed == IF i \in DOMAIN durable.segs THEN durable.segs[i] ELSE Empty IN
  {flushed, seen.segs[i]} \cup
  {half \in {WithHalfLine(flushed)} : Len(seen.segs[i].recs) > Len(flushed.recs)}

PowerLoss ==
  /\ powerLosses < MaxPowerLosses /\ (MixedCrashes \/ kills = 0)
  /\ powerLosses' = powerLosses + 1
  /\ \/ seen' = durable
     \/ \E content \in [DOMAIN seen.segs -> UNION {Survives(i) : i \in DOMAIN seen.segs}] :
          /\ \A i \in DOMAIN seen.segs : content[i] \in Survives(i)
          /\ seen' = [seen EXCEPT !.segs = content]
  /\ durable' = seen'
  /\ Goto("down") /\ home' = "close" /\ mem' = None /\ rec' = None
  /\ UNCHANGED <<sealed, kept, kills, ioErrors>>

-----------------------------------------------------------------------------
Recover ==
  \/ Open \/ Quarantine \/ CutTail \/ RemoveStale \/ SyncStale \/ RepairHead \/ SyncRepair
  \/ OpenSegment \/ SyncSegment \/ Opened
  \/ \E size \in Sizes, now \in Times : CloseOnRecovery(size, now)

Finish ==
  \/ Rotate \/ SyncRotate \/ Prune \/ SyncPrune \/ PruneRemove \/ SyncPruneRemove
  \/ WriteLine \/ SyncLine \/ RollBack \/ SyncRollBack \/ RenameHead \/ SyncHead

Record ==
  \E size \in Sizes, now \in Times :
    \/ \E kind \in {"allow", "deny"} : RecordDecision(kind, size, now)
    \/ mem # None /\ \E ref \in mem.open : RecordOutcome(ref, size, now)

Next == Recover \/ Finish \/ Record \/ Kill \/ PowerLoss

\* A call that has begun runs to its end and the process is started again.
Fairness == WF_vars(Recover) /\ WF_vars(Finish)

Spec == Init /\ [][Next]_vars /\ Fairness

-----------------------------------------------------------------------------
(* Safety *)

SegmentOK(s) == s.torn \in BOOLEAN /\ s.len \in Nat /\ ToSet(s.recs) \subseteq Records
DirectoryOK(d) ==
  /\ d.head # None => d.head.seq \in Nat /\ d.head.hash \in 1..MaxSealed
  /\ d.checkpoint # None => d.checkpoint.next \in Nat /\ d.checkpoint.open \subseteq Nat
  /\ \A i \in DOMAIN d.segs : SegmentOK(d.segs[i])

\* The type invariant.
TypeOK ==
  /\ DirectoryOK(seen) /\ DirectoryOK(durable)
  /\ pc \in Steps /\ home \in {"close", "ready"}
  /\ rec = None \/ rec \in Records
  /\ mem # None => /\ mem.seg \in Nat \ {0} /\ mem.len \in Nat /\ mem.count \in Nat \ {0}
                   /\ mem.next \in Nat /\ mem.open \subseteq Nat /\ mem.failed \in BOOLEAN
  /\ sealed \in 0..MaxSealed /\ kept \subseteq Records

Written == Retained(seen)

\* record_decision and record_outcome are write-ahead: what was acknowledged, or
\* found by a recovery, is in the chain until it is pruned behind the checkpoint,
\* whatever fails or crashes afterwards.
AcknowledgedSurvives == \A r \in kept : r \in Written \/ r.seq < Start(seen).next

\* A sequence number, once given, is never given to another record.
ChainIsNeverRewritten == \A a, b \in kept \cup Written : a.seq = b.seq => a = b

\* A decision has at most one outcome, also when the first attempt to record it
\* returned an error or the process died in the middle of it.
ClosedOnce ==
  \A a, b \in kept \cup Written :
    a.kind = "outcome" /\ b.kind = "outcome" /\ a.ref = b.ref => a = b

\* The log never loses track of an effect that may have happened: an allowing
\* decision is open on disk (in the chain or in the checkpoint) until an outcome
\* closes it.
NoDecisionForgotten ==
  \A r \in kept : r.kind = "allow" =>
    \/ r.seq \in OpenDecisions(seen)
    \/ \E o \in kept \cup Written : o.kind = "outcome" /\ o.ref = r.seq

\* What a caller was told of a record stays true: it is not lost, and no other
\* record ever has its number.
AcknowledgedStands == AcknowledgedSurvives /\ ChainIsNeverRewritten

\* Every allowing decision is open or closed by exactly one outcome.
DecisionsAreAccounted == ClosedOnce /\ NoDecisionForgotten

\* verify: between two calls of a log that has not failed, the strict walk
\* accepts the directory and agrees with what the writer has in memory.
WriterAgreesWithDisk ==
  pc = "ready" /\ ~mem.failed =>
    /\ WalkOk(seen, "Strict")
    /\ ~HeadLags(seen)
    /\ OpenDecisions(seen) = mem.open
    /\ mem.next = IF Tip(seen) = None THEN Start(seen).next ELSE Tip(seen).seq + 1
    /\ mem.len = seen.segs[mem.seg].len

\* The very first record is on disk and HEAD has never been written.
FirstRecordUnnamed(d) ==
  d.head = None /\ d.checkpoint = None /\ \E r \in Retained(d) : Retained(d) = {r}

\* One record follows the checkpoint and HEAD names the last one pruned.
HeadAtCheckpoint(d) ==
  /\ d.head # None /\ d.checkpoint # None /\ \E r \in Retained(d) : Retained(d) = {r}
  /\ d.head = [seq |-> d.checkpoint.next - 1, hash |-> d.checkpoint.prev]

\* A torn line in a segment that a rotation failed to leave: its successor was
\* created and its name could not be flushed.
TornBehindRotation(d) ==
  \E i \in TornSegments(d) : ~IsLast(d, i) /\ \A j \in DOMAIN d.segs : j > i => d.segs[j] = Empty

\* Recovery accepts whatever a crash or a failed call leaves, with the exceptions
\* the next three properties are about.
Refused == FirstRecordUnnamed(seen) \/ HeadAtCheckpoint(seen) \/ TornBehindRotation(seen)
Recoverable == pc = "down" => WalkOk(seen, "Recover") \/ Refused

\* store.rs:117-118: "a `HEAD` one record behind is moved forward". The record
\* behind which there is no HEAD yet is the first.
FirstRecordIsRecovered == pc = "down" => ~FirstRecordUnnamed(seen)

\* The same when the record before it has been pruned.
HeadAtCheckpointIsRepaired == pc = "down" => ~HeadAtCheckpoint(seen)

\* store.rs:286-287: "Roll back a partial line so the next append does not land
\* after garbage. If even that fails, refuse further writes; recovery on reopen
\* quarantines the torn tail."
TornTailIsQuarantined == pc = "down" => ~TornBehindRotation(seen)

\* seg.rs:6: "`HEAD`: `{seq, hash}` of the last durable record".
HeadNamesDurableRecord ==
  durable.head # None =>
    \/ durable.head.seq < Start(durable).next
    \/ \E r \in Retained(durable) : durable.head = Names(r)

\* When open returns, every allowing decision of an earlier process is closed.
OpenClosesEarlierDecisions ==
  [][pc # "ready" /\ pc' = "ready" /\ home = "close" =>
       \A r \in kept : r.kind = "allow" =>
         \E o \in kept : o.kind = "outcome" /\ o.ref = r.seq]_vars

-----------------------------------------------------------------------------
(* Liveness *)

\* Crashes and failing calls are finitely many: after them the log opens, and has
\* closed the decisions it found open, unless the directory is one of the three
\* that recovery refuses.
OpensAgain == []<>(pc = "ready" \/ sealed = MaxSealed \/ (pc = "down" /\ Refused))
=============================================================================
