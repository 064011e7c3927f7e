---------------------------- MODULE NightlyAnchor ----------------------------
(***************************************************************************)
(* The nightly anchor (agent-anchor nightly.rs, ledger.rs; agent-sidecar   *)
(* anchor.rs) beside the writer of the decision log (agent-records         *)
(* store.rs).                                                              *)
(*                                                                         *)
(* The writer appends under its own lock; it does not know of the          *)
(* planners. Planners and provers read the log's files one after the other *)
(* without a lock (walk in seg.rs, Mode::Live), stop at the first one that *)
(* does not go on with the chain, and settle the day in the ledger, which  *)
(* is written whole under a guard. Core anchors the commitment of a        *)
(* planned day and reports the transaction.                                *)
(*                                                                         *)
(* Abstracted: a record is its seq, its day, its hash and its              *)
(* predecessor's (the hash is a number of its own); a batch, its tree and  *)
(* its commitment are the set of the day's records, which their seq        *)
(* orders; a line that is not yet complete has not been written (a live    *)
(* reader skips it). The writer's recovery is DecisionLog's; here a        *)
(* restart is one step. A sidecar that dies in a plan leaves nothing       *)
(* behind, which is a planner that takes no more steps.                    *)
(***************************************************************************)
EXTENDS Integers, Sequences, SequencesExt, FiniteSets

CONSTANTS
  Readers,       \* threads of the sidecar that plan or prove
  MaxSegments,   \* LogConfig::max_segments
  Txs,           \* transactions core may report
  \* Bounds: the last day, records stamped, failed or interrupted appends, readings.
  MaxDay, MaxRecords, MaxFaults, MaxReadings,
  None

Days == 0..MaxDay

\* Lines of the log, and what CHECKPOINT says of the last line that was pruned.
Records     == [seq : Nat, hash : Nat, prev : Nat, day : Nat]
Checkpoints == [next : Nat, prev : Nat, day : Nat]

ASSUME BoundAssumption == MaxSegments \in Nat \ {0} /\ MaxDay \in Nat /\ MaxRecords \in Nat
ASSUME NoneAssumption == None \notin Checkpoints

VARIABLES
  clock,    \* the UTC day
  log,      \* history: the records that are in the log for good, by seq
  writer,   \* the append in hand
  segs,     \* the segment files, by index
  head,     \* HEAD
  cp,       \* CHECKPOINT
  stamped,  \* records sealed so far
  faults,   \* appends that failed or were interrupted
  ledger,   \* ANCHOR_LEDGER.json: the entries, by day
  readings, \* readings begun
  reader,   \* what each reader is about and has read
  ready,    \* history: the commitments handed to core
  proofs    \* history: the days and batches that proofs were handed out for

logVars    == <<clock, log, writer, segs, head, cp, stamped, faults>>
ledgerVars == <<ledger, ready, proofs>>
vars == <<logVars, ledgerVars, reader, readings>>

NoAppend == [pc |-> "idle"]

\* What a reader is about (the day to plan, with its entry if it has one; None for a
\* proof) and has read so far: the files still to read, and the records of those it has read.
Reading(pc, plan, entry, h) ==
  [pc |-> pc, plan |-> plan, entry |-> entry, head |-> h, cp |-> None, todo |-> {}, leaves |-> <<>>]

NoWork == Reading("idle", None, {}, None)

Init ==
  /\ clock = 0 /\ log = <<>> /\ writer = NoAppend /\ stamped = 0 /\ faults = 0
  /\ segs = [i \in {1} |-> <<>>] /\ head = None /\ cp = None
  /\ ledger = [d \in {} |-> None]
  /\ reader = [p \in Readers |-> NoWork] /\ readings = 0
  /\ ready = {} /\ proofs = {}

-----------------------------------------------------------------------------
(* The writer.                                                                 *)

Lower(S) == CHOOSE i \in S : \A j \in S : i <= j
Upper(S) == CHOOSE i \in S : \A j \in S : j <= i

Newest == Upper(DOMAIN segs)
Oldest == Lower(DOMAIN segs)

Midnight ==
  /\ clock < MaxDay /\ clock' = clock + 1
  /\ UNCHANGED <<log, writer, segs, head, cp, stamped, faults, ledgerVars, reader, readings>>

LastHash == IF log = <<>> THEN 0 ELSE Last(log).hash
LastDay  == IF log = <<>> THEN 0 ELSE Last(log).day

\* The record is sealed: time never runs backwards in the log.
Stamp ==
  /\ writer.pc = "idle" /\ stamped < MaxRecords
  /\ stamped' = stamped + 1
  /\ writer' = [pc |-> "sealed",
                rec |-> [seq |-> Len(log), hash |-> stamped + 1, prev |-> LastHash,
                         day |-> IF clock > LastDay THEN clock ELSE LastDay]]
  /\ UNCHANGED <<clock, log, segs, head, cp, faults, ledgerVars, reader, readings>>

\* A full segment is followed by a new one, and too many segments by a prune.
Rotate ==
  /\ writer.pc = "sealed" /\ segs[Newest] # <<>>
  /\ segs' = [i \in DOMAIN segs \cup {Newest + 1} |-> IF i \in DOMAIN segs THEN segs[i] ELSE <<>>]
  /\ writer' = [writer EXCEPT !.pc = IF Cardinality(DOMAIN segs) + 1 > MaxSegments THEN "prune" ELSE @]
  /\ UNCHANGED <<clock, log, head, cp, stamped, faults, ledgerVars, reader, readings>>

\* prune_oldest: the checkpoint first, then the segment.
WriteCheckpoint ==
  /\ writer.pc = "prune" /\ writer' = [writer EXCEPT !.pc = "drop"]
  /\ LET r == Last(segs[Oldest]) IN cp' = [next |-> r.seq + 1, prev |-> r.hash, day |-> r.day]
  /\ UNCHANGED <<clock, log, segs, head, stamped, faults, ledgerVars, reader, readings>>

DropOldest ==
  /\ writer.pc = "drop" /\ writer' = [writer EXCEPT !.pc = "sealed"]
  /\ segs' = [i \in DOMAIN segs \ {Oldest} |-> segs[i]]
  /\ UNCHANGED <<clock, log, head, cp, stamped, faults, ledgerVars, reader, readings>>

WriteLine ==
  /\ writer.pc = "sealed" /\ writer' = [writer EXCEPT !.pc = "written"]
  /\ segs' = [segs EXCEPT ![Newest] = Append(@, writer.rec)]
  /\ UNCHANGED <<clock, log, head, cp, stamped, faults, ledgerVars, reader, readings>>

\* The line could not be made durable and is taken back.
RollBack ==
  /\ writer.pc = "written" /\ faults < MaxFaults
  /\ segs' = [segs EXCEPT ![Newest] = Front(@)]
  /\ faults' = faults + 1 /\ writer' = NoAppend
  /\ UNCHANGED <<clock, log, head, cp, stamped, ledgerVars, reader, readings>>

Names(r) == [seq |-> r.seq, hash |-> r.hash]

\* The line is durable: HEAD follows, and the record is acknowledged.
WriteHead ==
  /\ writer.pc = "written" /\ writer' = NoAppend
  /\ head' = Names(writer.rec) /\ log' = Append(log, writer.rec)
  /\ UNCHANGED <<clock, segs, cp, stamped, faults, ledgerVars, reader, readings>>

\* The writer dies or has refused to go on, and is opened again: a complete line
\* stays, HEAD is moved up to it, a segment behind the checkpoint goes. (Where HEAD
\* names no retained record the log does not open again, see DecisionLog.)
Reopen ==
  /\ writer.pc # "idle" /\ faults < MaxFaults
  /\ writer.pc = "written" => head # None /\ (cp # None => head.seq >= cp.next)
  /\ faults' = faults + 1 /\ writer' = NoAppend
  /\ IF writer.pc = "written" THEN head' = Names(writer.rec) /\ log' = Append(log, writer.rec)
     ELSE UNCHANGED <<head, log>>
  /\ segs' = IF writer.pc = "drop" THEN [i \in DOMAIN segs \ {Oldest} |-> segs[i]] ELSE segs
  /\ UNCHANGED <<clock, cp, stamped, ledgerVars, reader, readings>>

-----------------------------------------------------------------------------
(* A reader: retained_leaves, over files that change meanwhile.                 *)

Step(p, r)  == reader' = [reader EXCEPT ![p] = r] /\ UNCHANGED <<logVars, readings>>
Quit(p)     == Step(p, NoWork)
Begin(p, r) ==
  /\ reader[p].pc = "idle" /\ readings < MaxReadings
  /\ reader' = [reader EXCEPT ![p] = r] /\ readings' = readings + 1 /\ UNCHANGED <<logVars, ledgerVars>>

Settled(d) == d \in DOMAIN ledger
Batched(d) == Settled(d) /\ ledger[d].status = "batched"

\* plan_day, up to the records: a closed day whose entry does not answer at once.
Plan(p, d) ==
  /\ d < clock
  /\ Settled(d) => Batched(d) /\ ledger[d].confirmed = None
  /\ Begin(p, Reading("head", d, {ledger[e] : e \in {d} \cap DOMAIN ledger}, None))

\* prove: the record it is asked for matters only at the end.
Prove(p) == Begin(p, Reading("checkpoint", None, {}, head))

ReadHead(p) ==
  /\ reader[p].pc = "head"
  /\ Step(p, [reader[p] EXCEPT !.pc = "checkpoint", !.head = head])
  /\ UNCHANGED ledgerVars

ReadCheckpoint(p) ==
  /\ reader[p].pc = "checkpoint"
  /\ Step(p, [reader[p] EXCEPT !.pc = "list", !.cp = cp])
  /\ UNCHANGED ledgerVars

ListSegments(p) ==
  /\ reader[p].pc = "list"
  /\ Step(p, [reader[p] EXCEPT !.pc = "read", !.todo = DOMAIN segs])
  /\ UNCHANGED ledgerVars

Floor(r) == IF r.cp = None THEN 0 ELSE r.cp.next
Base(r)  == IF r.cp = None THEN 0 ELSE r.cp.prev

\* A segment that a prune left, or has not yet removed, behind the checkpoint.
Stale(s, r) == s # <<>> /\ Last(s).seq < Floor(r)

\* Mutant: the chain may begin anywhere.
LinkedFromAnywhere(c, r) == \A i \in 2..Len(c) : c[i].prev = c[i-1].hash /\ c[i].seq = c[i-1].seq + 1

\* Every record follows its predecessor, the first one what was pruned.
Linked(c, r) ==
  \A i \in DOMAIN c : /\ c[i].seq = Floor(r) + i - 1
                      /\ c[i].prev = IF i = 1 THEN Base(r) ELSE c[i-1].hash

\* A stale segment is passed over, in front of the chain and only if the checkpoint
\* agrees with it; any other goes on with the chain.
Fits(s, r) ==
  IF Stale(s, r) THEN r.leaves = <<>> /\ (Last(s).seq + 1 = Floor(r) => Last(s).hash = Base(r))
  ELSE Linked(r.leaves \o s, r)

\* A file that has gone since it was listed is an error, and so is one that does not fit.
ReadSegment(p) ==
  /\ reader[p].pc = "read" /\ reader[p].todo # {}
  /\ LET r == reader[p]
         i == Lower(r.todo) IN
     IF i \in DOMAIN segs /\ Fits(segs[i], r)
     THEN Step(p, [r EXCEPT !.todo = @ \ {i},
                            !.leaves = IF Stale(segs[i], r) THEN @ ELSE @ \o segs[i]])
     ELSE Quit(p)
  /\ UNCHANGED ledgerVars

\* HEAD, read before the segments, is in the chain or behind it.
HeadFits(r) ==
  LET c == r.leaves IN
  /\ r.head = None => c = <<>> /\ r.cp = None
  /\ r.head # None /\ c = <<>> => r.cp # None /\ r.head.seq + 1 = r.cp.next /\ r.head.hash = r.cp.prev
  /\ r.head # None /\ c # <<>> =>
       /\ r.head.seq <= Last(c).seq
       /\ r.head.seq >= Floor(r) => \E i \in DOMAIN c : Names(c[i]) = r.head

\* build_day_batch.
DayOf(c, d) == {x \in Range(c) : x.day = d}

FirstOf(b) == Lower({x.seq : x \in b})
LastOf(b)  == Upper({x.seq : x \in b})

\* Mutant: the day that the prune ended in passes for whole.
PartialBefore(r, d) == r.cp # None /\ r.cp.day > d

\* Mutant: any prune makes every day partial.
PartialAlways(r, d) == r.cp # None

\* Records of the day may have been pruned.
Partial(r, d) == r.cp # None /\ r.cp.day >= d

-----------------------------------------------------------------------------
(* The ledger.                                                                 *)

Overlaps(d, first, last) ==
  \E e \in DOMAIN ledger \ {d} : ledger[e].first <= last /\ first <= ledger[e].last

Entry(status, b, batch) ==
  [status |-> status, first |-> FirstOf(b), last |-> LastOf(b), batch |-> batch, confirmed |-> None]

\* AnchorLedger::insert, into a day that has no entry.
Insert(d, e) ==
  /\ ~Settled(d) /\ ~Overlaps(d, e.first, e.last)
  /\ ledger' = [c \in DOMAIN ledger \cup {d} |-> IF c = d THEN e ELSE ledger[c]]

HandOut(d, b) == ready' = ready \cup {[day |-> d, batch |-> b]}

\* Mutant: any batch recorded for the day will do.
SameDay(d, b) == Batched(d)

\* record_batched is idempotent for the same commitment.
Same(d, b) == Batched(d) /\ ledger[d].batch = b

RecordBatched(d, b) ==
  \/ Same(d, b) /\ HandOut(d, b) /\ UNCHANGED ledger
  \/ Insert(d, Entry("batched", b, b)) /\ HandOut(d, b)
  \/ ~Same(d, b) /\ (Settled(d) \/ Overlaps(d, FirstOf(b), LastOf(b))) /\ UNCHANGED <<ledger, ready>>

RecordIncomplete(d, b) ==
  \/ Insert(d, Entry("incomplete", b, None))
  \/ (Settled(d) \/ Overlaps(d, FirstOf(b), LastOf(b))) /\ UNCHANGED ledger

\* plan_day, from the records on: an entry is rechecked as far as the records are
\* all there, a new day is batched, or reported when some of it has been pruned.
Settle(p) ==
  /\ reader[p].pc = "read" /\ reader[p].todo = {} /\ reader[p].plan # None
  /\ LET r == reader[p]
         d == r.plan
         b == DayOf(r.leaves, d) IN
     \/ ~HeadFits(r) /\ UNCHANGED <<ledger, ready>>
     \/ /\ HeadFits(r) /\ \E e \in r.entry :
             IF b # {} /\ ~Partial(r, d) /\ b # e.batch THEN UNCHANGED ready ELSE HandOut(d, e.batch)
        /\ UNCHANGED ledger
     \/ HeadFits(r) /\ r.entry = {} /\ b = {} /\ UNCHANGED <<ledger, ready>>
     \/ HeadFits(r) /\ r.entry = {} /\ b # {} /\ Partial(r, d) /\ RecordIncomplete(d, b) /\ UNCHANGED ready
     \/ HeadFits(r) /\ r.entry = {} /\ b # {} /\ ~Partial(r, d) /\ RecordBatched(d, b)
  /\ Quit(p) /\ UNCHANGED proofs

\* Mutant: the rebuilt day is not compared with the recorded one.
MatchesRange(b, e) == b # {}

\* The rebuilt day is the recorded one.
Matches(b, e) == b = e.batch

\* prove, from the records on, for a record of day d: the day is batched, and all of
\* it is there.
Provable(r, d) == HeadFits(r) /\ Batched(d) /\ ~Partial(r, d) /\ Matches(DayOf(r.leaves, d), ledger[d])

HandProof(p, d) ==
  /\ reader[p].pc = "read" /\ reader[p].todo = {} /\ reader[p].plan = None
  /\ proofs' = IF Provable(reader[p], d) THEN proofs \cup {[day |-> d, batch |-> DayOf(reader[p].leaves, d)]}
               ELSE proofs
  /\ Quit(p) /\ UNCHANGED <<ledger, ready>>

\* Mutant: a later confirmation replaces the first.
ConfirmableAgain(d, b) == Batched(d) /\ ledger[d].batch = b

\* AnchorService::confirm: the commitment is the day's, and has no transaction yet.
Confirmable(d, b) == Batched(d) /\ ledger[d].batch = b /\ ledger[d].confirmed = None

\* Core reports the transaction that carries a commitment it was handed.
Confirm(c, tx) ==
  /\ c \in ready /\ Confirmable(c.day, c.batch)
  /\ ledger' = [ledger EXCEPT ![c.day].confirmed = tx]
  /\ UNCHANGED <<logVars, reader, readings, ready, proofs>>

-----------------------------------------------------------------------------

Writer ==
  \/ Stamp \/ Rotate \/ WriteCheckpoint \/ DropOldest \/ WriteLine \/ RollBack \/ WriteHead \/ Reopen

Reads(p) ==
  \/ ReadHead(p) \/ ReadCheckpoint(p) \/ ListSegments(p) \/ ReadSegment(p)
  \/ Settle(p) \/ \E d \in Days : HandProof(p, d)

Next ==
  \/ Midnight \/ Writer
  \/ \E p \in Readers :
       \/ \E d \in Days : Plan(p, d)
       \/ Prove(p)
       \/ Reads(p)
  \/ \E c \in ready, tx \in Txs : Confirm(c, tx)

Spec == Init /\ [][Next]_vars

-----------------------------------------------------------------------------
(* Properties.                                                                  *)

\* A batch misses nothing at the front of its day, whatever was pruned while the
\* day was read ("a root over part of a day would claim less than the day"), and as
\* long as no append failed its leaves are the records of the log.
BatchStartsItsDay ==
  \A d \in Days : Batched(d) =>
    /\ \A i \in DOMAIN log : log[i].day = d => log[i].seq >= ledger[d].first
    /\ faults = 0 => \A r \in ledger[d].batch : r.seq < Len(log) => log[r.seq + 1] = r

\* A day is reported as incomplete only if a prune took records of it.
LossIsReal ==
  \A d \in DOMAIN ledger : ledger[d].status = "incomplete" =>
    \E i \in DOMAIN log : log[i].day = d /\ cp # None /\ log[i].seq < cp.next

\* Core is handed one commitment for a day, though two planners may have read the
\* day with and without its last record.
OneCommitment == \A a, b \in ready : a.day = b.day => a.batch = b.batch

\* Every proof leads to the commitment in the ledger.
ProofsLeadToLedger == \A x \in proofs : Settled(x.day) /\ ledger[x.day].batch = x.batch

\* Both: whatever core was handed of a day, to commit or to prove, is the one batch
\* of the ledger.
LedgerIsWhatWasHandedOut == OneCommitment /\ ProofsLeadToLedger

\* A settled day stays as it was settled, and an anchored one keeps its transaction.
EntriesStand ==
  [][\A d \in DOMAIN ledger :
       /\ d \in DOMAIN ledger' /\ ledger'[d].status = ledger[d].status /\ ledger'[d].batch = ledger[d].batch
       /\ ledger[d].confirmed # None => ledger'[d].confirmed = ledger[d].confirmed]_vars

-----------------------------------------------------------------------------
(* Statements of the documentation that the code does not keep in every case;  *)
(* README.md gives the instance that refutes each.                              *)

\* nightly.rs:50, "only a closed day is batched, so no record can join a day after
\* its root is fixed".
ClosedDayIsWhole ==
  \A d \in Days : Batched(d) =>
    \A i \in DOMAIN log : log[i].day = d => log[i].seq <= ledger[d].last

\* The plan that a reader which has read all files comes to for a day not settled yet.
Concluding(p) ==
  reader[p].pc = "read" /\ reader[p].todo = {} /\ reader[p].plan # None /\ HeadFits(reader[p])

\* nightly.rs:20, a day is reported as pruned only if it had records.
PrunedHadRecords ==
  \A p \in Readers :
    Concluding(p) /\ Partial(reader[p], reader[p].plan) /\ DayOf(reader[p].leaves, reader[p].plan) = {}
      => \E i \in DOMAIN log : log[i].day = reader[p].plan

\* merkle.rs:183, "a root over a broken chain must never be produced": what was
\* batched is in the log, also when an append failed.
BatchIsLogged ==
  \A d \in Days : Batched(d) =>
    \A r \in ledger[d].batch : r.seq < Len(log) => log[r.seq + 1] = r

\* nightly.rs:121, a closed day with records can be settled: its records are in no
\* other day's batch.
DaysNeverOverlap ==
  \A p \in Readers :
    LET b == DayOf(reader[p].leaves, reader[p].plan) IN
    Concluding(p) /\ b # {} => ~Overlaps(reader[p].plan, FirstOf(b), LastOf(b))

\* seg.rs:199, what a reader beside the live writer reads is never taken for a
\* broken chain.
NoFalseAlarm ==
  \A p \in Readers : LET r == reader[p] IN
    r.pc = "read" =>
      IF r.todo = {} THEN HeadFits(r)
      ELSE Lower(r.todo) \in DOMAIN segs => Fits(segs[Lower(r.todo)], r)
=============================================================================
