------------------------- MODULE NightlyAnchor_proofs -------------------------
(***************************************************************************)
(* The nightly anchor for any readers, transactions and bounds.            *)
(*                                                                         *)
(* First the ledger, whatever the log does: EntriesStand and               *)
(* LedgerIsWhatWasHandedOut. Neither follows from the step that hands a    *)
(* batch out: a planner hands out the entry that it read before it read    *)
(* the log. The invariant LedgerInv ties what every reader carries, and    *)
(* all that was ever handed out, to the ledger of now, and Grows says that *)
(* no step takes an entry back. Nothing is assumed of what the readers saw *)
(* of the log.                                                             *)
(*                                                                         *)
(* Then what the entries say of the log: BatchStartsItsDay, LossIsReal and *)
(* BatchIsLoggedButForItsLast. A reader's HEAD, CHECKPOINT and files are   *)
(* of different moments, so what it holds need not be the log of any       *)
(* moment. But a line was sealed behind a line of the log (Line), and      *)
(* stays so whatever the writer does; so in a chain of lines every one but *)
(* the last is of the log (HeldIsLogged), and a checkpoint behind which    *)
(* the chain begins has only days before it that are no later than its own *)
(* (HoldsDay).                                                             *)
(***************************************************************************)
EXTENDS NightlyAnchor, FiniteSetTheorems, WellFoundedInduction, TLAPS

EntryFields  == {"status", "first", "batch", "confirmed"}
ReaderFields == {"pc", "plan", "entry", "head", "cp", "todo", "leaves"}

\* The fields that the steps below look at are there.
EntriesAreWhole == \A d \in DOMAIN ledger : EntryFields \subseteq DOMAIN ledger[d]

\* The ledger has the batch for the day.
Stands(d, b) == Settled(d) /\ ledger[d].batch = b

\* What was handed out stands.
HandedOutStands == /\ \A a \in ready : Stands(a.day, a.batch)
                   /\ \A x \in proofs : Stands(x.day, x.batch)

\* The entry that a planner carries stands.
CarriedStands(r) == /\ ReaderFields \subseteq DOMAIN r
                    /\ \A e \in r.entry : Stands(r.plan, e.batch)

ReadersHold == /\ DOMAIN reader = Readers
               /\ \A p \in Readers : CarriedStands(reader[p])

LedgerInv == EntriesAreWhole /\ HandedOutStands /\ ReadersHold

-----------------------------------------------------------------------------
\* No entry is taken back, changed, or anchored twice.
Grows ==
  \A d \in DOMAIN ledger :
    /\ d \in DOMAIN ledger' /\ ledger'[d].status = ledger[d].status /\ ledger'[d].batch = ledger[d].batch
    /\ ledger'[d].first = ledger[d].first
    /\ ledger[d].confirmed # None => ledger'[d].confirmed = ledger[d].confirmed

LEMMA UnchangedGrows == UNCHANGED ledger => Grows
BY DEF Grows

\* An entry for a day that had none leaves the others alone.
LEMMA InsertGrows ==
  ASSUME EntriesAreWhole, NEW d, NEW e, EntryFields \subseteq DOMAIN e, Insert(d, e)
  PROVE  Grows /\ EntriesAreWhole' /\ Settled(d)' /\ ledger'[d] = e
<1>1. /\ d \notin DOMAIN ledger
      /\ ledger' = [c \in DOMAIN ledger \cup {d} |-> IF c = d THEN e ELSE ledger[c]]
  BY DEF Insert, Settled
<1>2. /\ DOMAIN ledger' = DOMAIN ledger \cup {d} /\ ledger'[d] = e
      /\ \A c \in DOMAIN ledger : ledger'[c] = ledger[c]
  BY <1>1
<1> QED BY <1>1, <1>2 DEF Grows, EntriesAreWhole, Settled

\* A confirmation changes nothing but a transaction that was missing.
LEMMA ConfirmGrows ==
  ASSUME EntriesAreWhole, NEW c, NEW tx, Confirm(c, tx)
  PROVE  Grows /\ EntriesAreWhole'
<1>1. /\ c.day \in DOMAIN ledger /\ ledger[c.day].confirmed = None
      /\ ledger' = [ledger EXCEPT ![c.day].confirmed = tx]
  BY DEF Confirm, Confirmable, Batched, Settled
<1>2. /\ DOMAIN ledger' = DOMAIN ledger
      /\ \A d \in DOMAIN ledger \ {c.day} : ledger'[d] = ledger[d]
      /\ ledger'[c.day] = [ledger[c.day] EXCEPT !.confirmed = tx]
  BY <1>1
<1>3. EntryFields \subseteq DOMAIN ledger[c.day]
  BY <1>1 DEF EntriesAreWhole
<1>4. /\ DOMAIN ledger'[c.day] = DOMAIN ledger[c.day]
      /\ ledger'[c.day].status = ledger[c.day].status /\ ledger'[c.day].batch = ledger[c.day].batch
      /\ ledger'[c.day].first = ledger[c.day].first
  BY <1>2, <1>3 DEF EntryFields
<1> QED BY <1>1, <1>2, <1>4 DEF Grows, EntriesAreWhole

\* What stands goes on standing.
LEMMA StandsOn == ASSUME Grows, NEW d, NEW b, Stands(d, b) PROVE Stands(d, b)'
BY DEF Grows, Stands, Settled

LEMMA CarriedStandsOn == ASSUME Grows, NEW r, CarriedStands(r) PROVE CarriedStands(r)'
BY StandsOn DEF CarriedStands

-----------------------------------------------------------------------------
\* A step of one reader keeps the readers' part when what it goes on with holds.
LEMMA ReaderStep ==
  ASSUME ReadersHold, Grows, NEW p \in Readers, NEW r,
         reader' = [reader EXCEPT ![p] = r], CarriedStands(r)'
  PROVE  ReadersHold'
<1>1. /\ DOMAIN reader' = Readers /\ reader'[p] = r
      /\ \A q \in Readers \ {p} : reader'[q] = reader[q]
  BY DEF ReadersHold
<1> SUFFICES ASSUME NEW q \in Readers PROVE CarriedStands(reader[q])'
  BY <1>1 DEF ReadersHold
<1>2. CASE q = p
  BY <1>1, <1>2 DEF CarriedStands, Stands, Settled
<1>3. CASE q # p
  <2>1. CarriedStands(reader[q])
    BY DEF ReadersHold
  <2> DEFINE s == reader[q]
  <2>2. reader'[q] = s
    BY <1>1, <1>3
  <2>3. CarriedStands(s)'
    BY <2>1, <2>2, CarriedStandsOn
  <2> QED BY <2>2, <2>3
<1> QED BY <1>2, <1>3

LEMMA NoWorkHolds == CarriedStands(NoWork)
BY DEF CarriedStands, ReaderFields, NoWork, Reading

-----------------------------------------------------------------------------
LEMMA LedgerInit == Init => LedgerInv
<1> SUFFICES ASSUME Init PROVE LedgerInv
  OBVIOUS
<1>1. EntriesAreWhole
  BY DEF Init, EntriesAreWhole
<1>2. HandedOutStands
  BY DEF Init, HandedOutStands
<1>3. DOMAIN reader = Readers /\ \A p \in Readers : reader[p] = NoWork
  BY DEF Init
<1>4. ReadersHold
  BY <1>3, NoWorkHolds DEF ReadersHold
<1> QED BY <1>1, <1>2, <1>4 DEF LedgerInv

\* The writer of the log and the clock know nothing of the anchor.
LEMMA LogStep ==
  ASSUME LedgerInv, UNCHANGED ledgerVars, UNCHANGED reader
  PROVE  LedgerInv' /\ Grows
<1>1. UNCHANGED <<ledger, ready, proofs, reader>>
  BY DEF ledgerVars
<1> QED BY <1>1, UnchangedGrows DEF LedgerInv, EntriesAreWhole, HandedOutStands, ReadersHold,
                                    CarriedStands, Stands, Settled

\* A reader that changes nothing but what it carries.
LEMMA ReadStep ==
  ASSUME LedgerInv, UNCHANGED ledgerVars, NEW p \in Readers, NEW r,
         reader' = [reader EXCEPT ![p] = r], CarriedStands(r)
  PROVE  LedgerInv' /\ Grows
<1>1. UNCHANGED <<ledger, ready, proofs>>
  BY DEF ledgerVars
<1>2. Grows
  BY <1>1, UnchangedGrows
<1>3. ReadersHold'
  BY <1>2, CarriedStandsOn, ReaderStep DEF LedgerInv
<1> QED BY <1>1, <1>2, <1>3 DEF LedgerInv, EntriesAreWhole, HandedOutStands, Stands, Settled

\* A planner begins with the entry of its day, a prover with none.
LEMMA BeginStep ==
  ASSUME LedgerInv, NEW p \in Readers, (\E d \in Days : Plan(p, d)) \/ Prove(p)
  PROVE  LedgerInv' /\ Grows
<1>1. ASSUME NEW d \in Days, Plan(p, d) PROVE LedgerInv' /\ Grows
  <2> DEFINE r == Reading("head", d, {ledger[e] : e \in {d} \cap DOMAIN ledger}, None)
  <2>1. CarriedStands(r)
    BY DEF CarriedStands, ReaderFields, Reading, Stands, Settled
  <2>2. UNCHANGED ledgerVars /\ reader' = [reader EXCEPT ![p] = r]
    BY <1>1 DEF Plan, Begin
  <2> HIDE DEF r
  <2> QED BY <2>1, <2>2, ReadStep
<1>2. CASE Prove(p)
  <2> DEFINE r == Reading("checkpoint", None, {}, head)
  <2>1. CarriedStands(r)
    BY DEF CarriedStands, ReaderFields, Reading
  <2>2. UNCHANGED ledgerVars /\ reader' = [reader EXCEPT ![p] = r]
    BY <1>2 DEF Prove, Begin
  <2> HIDE DEF r
  <2> QED BY <2>1, <2>2, ReadStep
<1> QED BY <1>1, <1>2

\* Reading on keeps the plan and its entry; a reader may also give up.
LEMMA ReadOnStep ==
  ASSUME LedgerInv, NEW p \in Readers,
         ReadHead(p) \/ ReadCheckpoint(p) \/ ListSegments(p) \/ ReadSegment(p)
  PROVE  LedgerInv' /\ Grows
<1>0. CarriedStands(reader[p])
  BY DEF LedgerInv, ReadersHold
<1>1. UNCHANGED ledgerVars
  BY DEF ReadHead, ReadCheckpoint, ListSegments, ReadSegment
<1>2. PICK r : reader' = [reader EXCEPT ![p] = r] /\ CarriedStands(r)
  <2>1. CASE ReadHead(p)
    <3> DEFINE r == [reader[p] EXCEPT !.pc = "checkpoint", !.head = head]
    <3>1. CarriedStands(r)
      BY <1>0 DEF CarriedStands, ReaderFields
    <3> QED BY <2>1, <3>1 DEF ReadHead, Step
  <2>2. CASE ReadCheckpoint(p)
    <3> DEFINE r == [reader[p] EXCEPT !.pc = "list", !.cp = cp]
    <3>1. CarriedStands(r)
      BY <1>0 DEF CarriedStands, ReaderFields
    <3> QED BY <2>2, <3>1 DEF ReadCheckpoint, Step
  <2>3. CASE ListSegments(p)
    <3> DEFINE r == [reader[p] EXCEPT !.pc = "read", !.todo = DOMAIN segs]
    <3>1. CarriedStands(r)
      BY <1>0 DEF CarriedStands, ReaderFields
    <3> QED BY <2>3, <3>1 DEF ListSegments, Step
  <2>4. CASE ReadSegment(p)
    <3> DEFINE i == Lower(reader[p].todo)
               r == [reader[p] EXCEPT !.todo = @ \ {i},
                                      !.leaves = IF Stale(segs[i], reader[p]) THEN @ ELSE @ \o segs[i]]
    <3>1. CarriedStands(r)
      BY <1>0 DEF CarriedStands, ReaderFields
    <3>2. reader' = [reader EXCEPT ![p] = r] \/ reader' = [reader EXCEPT ![p] = NoWork]
      BY <2>4 DEF ReadSegment, Step, Quit
    <3> QED BY <3>1, <3>2, NoWorkHolds
  <2> QED BY <2>1, <2>2, <2>3, <2>4
<1> QED BY <1>1, <1>2, ReadStep

-----------------------------------------------------------------------------
LEMMA EntryIsWhole ==
  \A status, b, batch : /\ EntryFields \subseteq DOMAIN Entry(status, b, batch)
                        /\ Entry(status, b, batch).batch = batch
BY DEF EntryFields, Entry

\* At most one batch is handed out for the day, and it is the one in the ledger.
HandsOut(d) == \/ UNCHANGED ready
               \/ \E b : HandOut(d, b) /\ Stands(d, b)'

LEMMA RecordBatchedStep ==
  ASSUME EntriesAreWhole, NEW d, NEW b, RecordBatched(d, b)
  PROVE  Grows /\ EntriesAreWhole' /\ HandsOut(d)
<1>1. CASE Same(d, b) /\ HandOut(d, b) /\ UNCHANGED ledger
  <2>1. Stands(d, b)'
    BY <1>1 DEF Same, Batched, Stands, Settled
  <2> QED BY <1>1, <2>1, UnchangedGrows DEF HandsOut, EntriesAreWhole
<1>2. CASE Insert(d, Entry("batched", b, b)) /\ HandOut(d, b)
  <2> DEFINE e == Entry("batched", b, b)
  <2>1. EntryFields \subseteq DOMAIN e /\ e.batch = b
    BY EntryIsWhole
  <2>2. Insert(d, e)
    BY <1>2
  <2> HIDE DEF e
  <2>3. Grows /\ EntriesAreWhole' /\ Settled(d)' /\ ledger'[d] = e
    BY <2>1, <2>2, InsertGrows
  <2>4. Stands(d, b)'
    BY <2>1, <2>3 DEF Stands
  <2> QED BY <1>2, <2>3, <2>4 DEF HandsOut
<1>3. CASE UNCHANGED <<ledger, ready>>
  BY <1>3, UnchangedGrows DEF HandsOut, EntriesAreWhole
<1> QED BY <1>1, <1>2, <1>3 DEF RecordBatched

LEMMA RecordIncompleteStep ==
  ASSUME EntriesAreWhole, NEW d, NEW b, RecordIncomplete(d, b), UNCHANGED ready
  PROVE  Grows /\ EntriesAreWhole' /\ HandsOut(d)
<1>1. CASE Insert(d, Entry("incomplete", b, None))
  <2> DEFINE e == Entry("incomplete", b, None)
  <2>1. EntryFields \subseteq DOMAIN e
    BY EntryIsWhole
  <2>2. Insert(d, e)
    BY <1>1
  <2> HIDE DEF e
  <2> QED BY <2>1, <2>2, InsertGrows DEF HandsOut
<1>2. CASE UNCHANGED ledger
  BY <1>2, UnchangedGrows DEF HandsOut, EntriesAreWhole
<1> QED BY <1>1, <1>2 DEF RecordIncomplete

\* A day is settled with a new entry, or with the entry that its planner carried.
LEMMA SettleStep ==
  ASSUME LedgerInv, NEW p \in Readers, Settle(p)
  PROVE  LedgerInv' /\ Grows
<1> DEFINE r == reader[p]
<1>d. PICK d : d = r.plan
  OBVIOUS
<1> DEFINE b == DayOf(r.leaves, d)
<1>0. EntriesAreWhole /\ HandedOutStands /\ ReadersHold /\ CarriedStands(r)
  BY DEF LedgerInv, ReadersHold
<1>1. Grows /\ EntriesAreWhole' /\ HandsOut(d)
  <2>1. CASE UNCHANGED <<ledger, ready>>
    BY <1>0, <2>1, UnchangedGrows DEF HandsOut, EntriesAreWhole
  <2>2. ASSUME NEW e \in r.entry, HandOut(d, e.batch), UNCHANGED ledger
        PROVE  Grows /\ EntriesAreWhole' /\ HandsOut(d)
    <3>1. Stands(d, e.batch)
      BY <1>0, <1>d DEF CarriedStands
    <3>2. Grows /\ EntriesAreWhole'
      BY <1>0, <2>2, UnchangedGrows DEF EntriesAreWhole
    <3>3. \E c : HandOut(d, c) /\ Stands(d, c)'
      BY <2>2, <3>1 DEF Stands, Settled
    <3> QED BY <3>2, <3>3 DEF HandsOut
  <2>3. CASE RecordIncomplete(d, b) /\ UNCHANGED ready
    BY <1>0, <2>3, RecordIncompleteStep
  <2>4. CASE RecordBatched(d, b)
    BY <1>0, <2>4, RecordBatchedStep
  <2> QED BY <1>d, <2>1, <2>2, <2>3, <2>4, Zenon DEF Settle
<1>2. UNCHANGED proofs /\ reader' = [reader EXCEPT ![p] = NoWork]
  BY DEF Settle, Quit, Step
<1>3. ReadersHold'
  <2>1. CarriedStands(NoWork)'
    BY DEF CarriedStands, ReaderFields, NoWork, Reading
  <2> QED BY <1>0, <1>1, <1>2, <2>1, ReaderStep
<1>4. \A a \in ready' : Stands(a.day, a.batch)'
  BY <1>0, <1>1, StandsOn DEF HandsOut, HandOut, HandedOutStands
<1>5. HandedOutStands'
  BY <1>0, <1>1, <1>2, <1>4, StandsOn DEF HandedOutStands
<1> QED BY <1>1, <1>3, <1>5 DEF LedgerInv

LEMMA ProofStep ==
  ASSUME LedgerInv, NEW p \in Readers, NEW d \in Days, HandProof(p, d)
  PROVE  LedgerInv' /\ Grows
<1> DEFINE b == DayOf(reader[p].leaves, d)
<1>0. EntriesAreWhole /\ HandedOutStands /\ ReadersHold
  BY DEF LedgerInv
<1>1. UNCHANGED <<ledger, ready>> /\ reader' = [reader EXCEPT ![p] = NoWork]
  BY DEF HandProof, Quit, Step
<1>2. Grows /\ EntriesAreWhole'
  BY <1>0, <1>1, UnchangedGrows DEF EntriesAreWhole
<1>3. ReadersHold'
  <2>1. CarriedStands(NoWork)'
    BY DEF CarriedStands, ReaderFields, NoWork, Reading
  <2> QED BY <1>0, <1>1, <1>2, <2>1, ReaderStep
<1>4. proofs' = proofs \/ (proofs' = proofs \cup {[day |-> d, batch |-> b]} /\ Stands(d, b))
  <2>1. Provable(reader[p], d) => Stands(d, b)
    BY DEF Provable, Batched, Matches, Stands
  <2> QED BY <2>1 DEF HandProof
<1> HIDE DEF b
<1>5. HandedOutStands'
  BY <1>0, <1>1, <1>4 DEF HandedOutStands, Stands, Settled
<1> QED BY <1>2, <1>3, <1>5 DEF LedgerInv

LEMMA ConfirmStep ==
  ASSUME LedgerInv, NEW c \in ready, NEW tx \in Txs, Confirm(c, tx)
  PROVE  LedgerInv' /\ Grows
<1>1. Grows /\ EntriesAreWhole'
  BY ConfirmGrows DEF LedgerInv
<1>2. UNCHANGED <<ready, proofs, reader>>
  BY DEF Confirm
<1>3. HandedOutStands'
  BY <1>1, <1>2, StandsOn DEF LedgerInv, HandedOutStands
<1>4. ReadersHold'
  BY <1>1, <1>2, CarriedStandsOn DEF LedgerInv, ReadersHold
<1> QED BY <1>1, <1>3, <1>4 DEF LedgerInv

-----------------------------------------------------------------------------
LEMMA LedgerStep == LedgerInv /\ [Next]_vars => LedgerInv' /\ Grows
<1> SUFFICES ASSUME LedgerInv, [Next]_vars PROVE LedgerInv' /\ Grows
  OBVIOUS
<1>1. CASE Midnight \/ Writer
  <2>1. UNCHANGED ledgerVars /\ UNCHANGED reader
    BY <1>1 DEF Midnight, Writer, Stamp, Rotate, WriteCheckpoint, DropOldest, WriteLine, RollBack,
                WriteHead, Reopen, ledgerVars
  <2> QED BY <2>1, LogStep
<1>2. ASSUME NEW p \in Readers, NEW d \in Days, Plan(p, d) PROVE LedgerInv' /\ Grows
  BY <1>2, BeginStep
<1>3. ASSUME NEW p \in Readers, Prove(p) PROVE LedgerInv' /\ Grows
  BY <1>3, BeginStep
<1>4. ASSUME NEW p \in Readers, Reads(p) PROVE LedgerInv' /\ Grows
  BY <1>4, ReadOnStep, SettleStep, ProofStep DEF Reads
<1>5. ASSUME NEW c \in ready, NEW tx \in Txs, Confirm(c, tx) PROVE LedgerInv' /\ Grows
  BY <1>5, ConfirmStep
<1>6. CASE UNCHANGED vars
  BY <1>6, LogStep DEF vars, ledgerVars
<1> QED BY <1>1, <1>2, <1>3, <1>4, <1>5, <1>6 DEF Next

\* At all times what was handed out stands in the ledger, and so does every entry
\* that a planner still carries.
THEOREM LedgerInvariant == Spec => []LedgerInv
<1>1. LedgerInv /\ [Next]_vars => LedgerInv'
  BY LedgerStep
<1> QED BY LedgerInit, <1>1, PTL DEF Spec

LEMMA LedgerInvSuffices == LedgerInv => LedgerIsWhatWasHandedOut
BY DEF LedgerInv, HandedOutStands, Stands, LedgerIsWhatWasHandedOut, OneCommitment, ProofsLeadToLedger

\* All that AnchorService::plan and prove ever hand out of a day is the one batch that
\* the ledger has for it, however many planners race over whatever state of the log.
THEOREM HandedOutIsLedger == Spec => []LedgerIsWhatWasHandedOut
BY LedgerInvariant, LedgerInvSuffices, PTL

\* A settled day keeps its status and batch, and an anchored one its transaction:
\* record_batched, record_incomplete and mark_confirmed overwrite nothing.
THEOREM SettledStands == Spec => EntriesStand
<1> DEFINE Kept == \A d \in DOMAIN ledger :
       /\ d \in DOMAIN ledger' /\ ledger'[d].status = ledger[d].status /\ ledger'[d].batch = ledger[d].batch
       /\ ledger[d].confirmed # None => ledger'[d].confirmed = ledger[d].confirmed
<1>1. LedgerInv /\ [Next]_vars => [Kept]_vars
  BY LedgerStep DEF Grows
<1>2. Spec => [][Kept]_vars
  BY <1>1, LedgerInvariant, PTL DEF Spec
<1> QED BY <1>2 DEF EntriesStand
-----------------------------------------------------------------------------
(* What is in the log, in the files and in the readers' hands.                  *)

InLog(x) == x.seq < Len(log) /\ log[x.seq + 1] = x

\* x was sealed behind the record that is in the log before it; no other record that
\* is in the log, or comes into it, has its hash.
Line(x) ==
  /\ x \in Records /\ x.seq <= Len(log) /\ x.hash <= stamped
  /\ x.seq # 0 => x.prev = log[x.seq].hash /\ log[x.seq].day <= x.day
  /\ \A i \in DOMAIN log : log[i].hash = x.hash => log[i] = x
  /\ writer.pc # "idle" /\ writer.rec.hash = x.hash => writer.rec = x
  /\ faults = 0 => InLog(x) \/ (writer.pc = "written" /\ writer.rec = x)

\* The checkpoint speaks of a record of the log.
CheckpointFits(c) ==
  /\ c = None \/ c \in Checkpoints
  /\ c # None => c.next \in DOMAIN log /\ c.prev = log[c.next].hash /\ c.day = log[c.next].day

LogTypeOK ==
  /\ clock \in Nat /\ stamped \in Nat /\ faults \in Nat /\ log \in Seq(Records)
  /\ writer = NoAppend \/ writer \in [pc : {"sealed", "prune", "drop", "written"}, rec : Records]
  /\ DOMAIN segs \subseteq Nat /\ \E lo, hi \in DOMAIN segs : segs \in [lo..hi -> Seq(Records)]

LogFits ==
  /\ \A i \in DOMAIN log : log[i].seq = i - 1 /\ Line(log[i])
  /\ \A i, j \in DOMAIN log : i <= j => log[i].day <= log[j].day

WriterFits ==
  writer.pc # "idle" =>
    /\ writer.rec.seq = Len(log) /\ writer.rec.prev = LastHash /\ writer.rec.day >= LastDay
    /\ writer.rec.hash = stamped /\ \A i \in DOMAIN log : log[i].hash < stamped

\* All but the newest segment are of the log, the newest but for the line in hand.
SegsFit ==
  /\ \A k \in DOMAIN segs : k # Newest => segs[k] # <<>>
  /\ \A k \in DOMAIN segs : \A i \in DOMAIN segs[k] :
       /\ Line(segs[k][i])
       /\ InLog(segs[k][i]) \/ (writer.pc = "written" /\ k = Newest /\ i = Len(segs[k]))
  /\ \A k, l \in DOMAIN segs : k < l =>
       \A i \in DOMAIN segs[k], j \in DOMAIN segs[l] : segs[k][i].seq < segs[l][j].seq
  /\ writer.pc \in {"prune", "drop"} => Oldest # Newest
  /\ writer.pc = "written" => segs[Newest] # <<>> /\ Last(segs[Newest]) = writer.rec

\* The checkpoint is in front of all segments but one that is about to be dropped.
PruneFits ==
  /\ CheckpointFits(cp)
  /\ cp # None => \A k \in DOMAIN segs : (writer.pc = "drop" => k # Oldest) =>
                    \A i \in DOMAIN segs[k] : cp.next <= segs[k][i].seq

\* A reader holds lines that follow its checkpoint, which is no later than the one of now.
HoldsChain(r) ==
  /\ r.leaves \in Seq(Records) /\ Linked(r.leaves, r)
  /\ \A i \in DOMAIN r.leaves : Line(r.leaves[i])
  /\ r.pc # "read" => r.leaves = <<>>
  /\ CheckpointFits(r.cp)
  /\ r.cp # None => cp # None /\ r.cp.next <= cp.next

\* The batch is what the log has of the day, from its first record up to the last one of
\* the batch; only that one may have been taken back since.
MakesDay(d, first, b) ==
  /\ first \in Nat /\ first <= Len(log)
  /\ \A i \in DOMAIN log : log[i].day = d => log[i].seq >= first
  /\ \A x \in b : Line(x) /\ x.day = d
  /\ \A x, y \in b : x.seq < y.seq => InLog(x)
  /\ \A i \in DOMAIN log, y \in b : log[i].day = d /\ log[i].seq < y.seq => log[i] \in b

\* A record of the day was pruned.
Lost(d) == \E i \in DOMAIN log : log[i].day = d /\ cp # None /\ log[i].seq < cp.next

SettledFits(d, e) ==
  /\ e.status = "batched" => MakesDay(d, e.first, e.batch)
  /\ e.status = "incomplete" => Lost(d)

LogInv == LogTypeOK /\ LogFits /\ WriterFits /\ SegsFit /\ PruneFits

AnchorInv ==
  /\ LogInv
  /\ \A p \in Readers : HoldsChain(reader[p])
  /\ \A d \in DOMAIN ledger : SettledFits(d, ledger[d])

-----------------------------------------------------------------------------
(* Operators.                                                                  *)

LEMMA EndsOfRun ==
  ASSUME NEW lo \in Nat, NEW hi \in Nat, lo <= hi
  PROVE  Lower(lo..hi) = lo /\ Upper(lo..hi) = hi
BY DEF Lower, Upper

\* The segments' indices have no gap.
LEMMA SegsAreARun ==
  ASSUME LogTypeOK
  PROVE  \E lo, hi \in Nat : lo <= hi /\ segs \in [lo..hi -> Seq(Records)] /\ Oldest = lo /\ Newest = hi
<1>1. PICK lo \in DOMAIN segs, hi \in DOMAIN segs : segs \in [lo..hi -> Seq(Records)]
  BY DEF LogTypeOK
<1>2. lo \in Nat /\ hi \in Nat /\ DOMAIN segs = lo..hi
  BY <1>1 DEF LogTypeOK
<1>3. lo <= hi
  BY <1>1, <1>2
<1> QED BY <1>1, <1>2, <1>3, EndsOfRun DEF Oldest, Newest

LEMMA RunOfSegs ==
  ASSUME NEW lo \in Nat, NEW hi \in Nat, lo <= hi, segs' \in [lo..hi -> Seq(Records)]
  PROVE  /\ DOMAIN segs' = lo..hi /\ Oldest' = lo /\ Newest' = hi
         /\ DOMAIN segs' \subseteq Nat /\ \E a, b \in DOMAIN segs' : segs' \in [a..b -> Seq(Records)]
<1>1. DOMAIN segs' = lo..hi /\ lo \in DOMAIN segs' /\ hi \in DOMAIN segs'
  OBVIOUS
<1> QED BY <1>1, EndsOfRun DEF Oldest, Newest

LEMMA RecordFields ==
  ASSUME NEW x \in Records
  PROVE  x.seq \in Nat /\ x.hash \in Nat /\ x.prev \in Nat /\ x.day \in Nat
BY DEF Records

LEMMA BusyWriter ==
  ASSUME LogTypeOK, writer.pc # "idle"
  PROVE  /\ writer \in [pc : {"sealed", "prune", "drop", "written"}, rec : Records]
         /\ writer.rec \in Records
BY DEF LogTypeOK, NoAppend

-----------------------------------------------------------------------------
(* Steps of the log: what holds of one record, checkpoint or batch goes on      *)
(* holding.                                                                    *)

\* Only the line in hand comes into the log, a new line has a new hash, and a line
\* that is taken back counts as a fault.
Onward ==
  /\ log' = log \/ (writer.pc # "idle" /\ log' = Append(log, writer.rec))
  /\ stamped <= stamped' /\ stamped' \in Nat
  /\ writer'.pc # "idle" => \/ writer.pc # "idle" /\ writer'.rec = writer.rec
                            \/ writer'.rec.hash = stamped + 1
  /\ \/ faults' # 0
     \/ /\ faults = 0
        /\ writer.pc = "written" =>
             (writer'.pc = "written" /\ writer'.rec = writer.rec) \/ log' = Append(log, writer.rec)

\* The checkpoint never goes back.
NoEarlier == cp # None => cp' # None /\ cp.next <= cp'.next

LEMMA LogGrows ==
  ASSUME LogTypeOK, Onward
  PROVE  /\ log' \in Seq(Records) /\ Len(log) <= Len(log')
         /\ DOMAIN log = 1..Len(log) /\ DOMAIN log' = 1..Len(log')
         /\ \A i \in DOMAIN log : log'[i] = log[i]
         /\ \A i \in DOMAIN log' : i \in DOMAIN log \/ (i = Len(log) + 1 /\ writer.pc # "idle" /\ log'[i] = writer.rec)
<1>1. log \in Seq(Records)
  BY DEF LogTypeOK
<1>2. CASE log' = log
  BY <1>1, <1>2
<1>3. CASE writer.pc # "idle" /\ log' = Append(log, writer.rec)
  BY <1>1, <1>3, BusyWriter
<1> QED BY <1>2, <1>3 DEF Onward

LEMMA InLogOn ==
  ASSUME LogTypeOK, Onward, NEW x \in Records, InLog(x)
  PROVE  InLog(x)'
<1>1. x.seq + 1 \in DOMAIN log
  BY RecordFields, LogGrows DEF InLog
<1> QED BY <1>1, RecordFields, LogGrows DEF InLog, LogTypeOK

LEMMA LineOn ==
  ASSUME LogTypeOK, WriterFits, Onward, NEW x, Line(x)
  PROVE  Line(x)'
<1>0. /\ x \in Records /\ x.seq \in Nat /\ x.hash \in Nat /\ x.prev \in Nat /\ x.day \in Nat
      /\ x.seq <= Len(log) /\ x.hash <= stamped
      /\ log \in Seq(Records) /\ stamped \in Nat /\ stamped' \in Nat /\ stamped <= stamped'
  BY RecordFields DEF Line, LogTypeOK, Onward
<1>1. x.seq <= Len(log') /\ x.hash <= stamped'
  BY <1>0, LogGrows
<1>2. x.seq # 0 => x.prev = log'[x.seq].hash /\ log'[x.seq].day <= x.day
  <2>1. x.seq # 0 => x.seq \in DOMAIN log
    BY <1>0
  <2> QED BY <2>1, LogGrows DEF Line
<1>3. ASSUME NEW i \in DOMAIN log', log'[i].hash = x.hash PROVE log'[i] = x
  BY <1>3, LogGrows DEF Line
<1>4. ASSUME writer'.pc # "idle", writer'.rec.hash = x.hash PROVE writer'.rec = x
  <2>1. CASE writer.pc # "idle" /\ writer'.rec = writer.rec
    BY <1>4, <2>1 DEF Line
  <2>2. CASE writer'.rec.hash = stamped + 1
    BY <1>0, <1>4, <2>2
  <2> QED BY <1>4, <2>1, <2>2 DEF Onward
<1>5. ASSUME faults' = 0 PROVE InLog(x)' \/ (writer'.pc = "written" /\ writer'.rec = x)
  <2>1. faults = 0 /\ (InLog(x) \/ (writer.pc = "written" /\ writer.rec = x))
    BY <1>5 DEF Onward, Line
  <2>2. CASE InLog(x)
    BY <1>0, <2>2, InLogOn
  <2>3. CASE writer.pc = "written" /\ writer.rec = x /\ log' = Append(log, writer.rec)
    <3>1. x.seq = Len(log)
      BY <2>3 DEF WriterFits
    <3> QED BY <1>0, <2>3, <3>1 DEF InLog
  <2> QED BY <1>5, <2>1, <2>2, <2>3 DEF Onward
<1> QED BY <1>0, <1>1, <1>2, <1>3, <1>4, <1>5 DEF Line

LEMMA CheckpointFitsOn ==
  ASSUME LogTypeOK, Onward, NEW c, CheckpointFits(c)
  PROVE  CheckpointFits(c)'
<1>1. c # None => c.next \in DOMAIN log' /\ log'[c.next] = log[c.next]
  BY LogGrows DEF CheckpointFits, LogTypeOK
<1> QED BY <1>1 DEF CheckpointFits

LEMMA HoldsChainOn ==
  ASSUME LogTypeOK, WriterFits, CheckpointFits(cp), CheckpointFits(cp)', Onward, NoEarlier,
         NEW r, HoldsChain(r)
  PROVE  HoldsChain(r)'
<1>1. \A i \in DOMAIN r.leaves : Line(r.leaves[i])'
  BY LineOn DEF HoldsChain
<1>2. CheckpointFits(r.cp)'
  BY CheckpointFitsOn DEF HoldsChain
<1>3. r.cp # None => cp' # None /\ r.cp.next <= cp'.next
  <2> SUFFICES ASSUME r.cp # None PROVE cp' # None /\ r.cp.next <= cp'.next
    OBVIOUS
  <2>1. cp # None /\ r.cp.next <= cp.next /\ cp' # None /\ cp.next <= cp'.next
    BY DEF HoldsChain, NoEarlier
  <2>2. r.cp.next \in Nat /\ cp.next \in Nat /\ cp'.next \in Nat
    BY <2>1 DEF HoldsChain, CheckpointFits, Checkpoints
  <2> QED BY <2>1, <2>2
<1>4. /\ r.leaves \in Seq(Records) /\ Linked(r.leaves, r)' /\ (r.pc # "read" => r.leaves = <<>>)
  BY DEF HoldsChain, Linked, Floor, Base
<1> QED BY <1>1, <1>2, <1>3, <1>4 DEF HoldsChain

LEMMA MakesDayOn ==
  ASSUME LogTypeOK, WriterFits, Onward, NEW d, NEW first, NEW b, MakesDay(d, first, b)
  PROVE  MakesDay(d, first, b)'
<1>1. \A x \in b : Line(x)' /\ x.day = d /\ x \in Records /\ x.seq \in Nat /\ x.seq <= Len(log)
  BY LineOn, RecordFields DEF MakesDay, Line
<1>2. \A x, y \in b : x.seq < y.seq => InLog(x)'
  BY <1>1, InLogOn DEF MakesDay
\* What comes into the log comes behind all lines there are.
<1>3. ASSUME NEW i \in DOMAIN log'
      PROVE  (i \in DOMAIN log /\ log'[i] = log[i]) \/ log'[i].seq = Len(log)
  BY LogGrows DEF WriterFits
<1>4. \A i \in DOMAIN log' : log'[i].day = d => log'[i].seq >= first
  BY <1>3 DEF MakesDay, LogTypeOK
<1>5. \A i \in DOMAIN log', y \in b : log'[i].day = d /\ log'[i].seq < y.seq => log'[i] \in b
  <2> TAKE i \in DOMAIN log', y \in b
  <2>1. CASE i \in DOMAIN log /\ log'[i] = log[i]
    BY <2>1 DEF MakesDay
  <2>2. CASE log'[i].seq = Len(log)
    BY <1>1, <2>2 DEF LogTypeOK
  <2> QED BY <1>3, <2>1, <2>2
<1>6. first \in Nat /\ first <= Len(log')
  BY LogGrows DEF MakesDay, LogTypeOK
<1> QED BY <1>1, <1>2, <1>4, <1>5, <1>6 DEF MakesDay

LEMMA LostOn ==
  ASSUME LogTypeOK, LogFits, CheckpointFits(cp), CheckpointFits(cp)', Onward, NoEarlier, NEW d, Lost(d)
  PROVE  Lost(d)'
<1>1. PICK i \in DOMAIN log : log[i].day = d /\ cp # None /\ log[i].seq < cp.next
  BY DEF Lost
<1>2. i \in DOMAIN log' /\ log'[i] = log[i]
  BY LogGrows
<1>3. cp' # None /\ cp.next <= cp'.next /\ cp.next \in Nat /\ cp'.next \in Nat
  BY <1>1 DEF NoEarlier, CheckpointFits, Checkpoints
<1>4. log[i].seq \in Nat
  BY RecordFields DEF LogTypeOK
<1> QED BY <1>1, <1>2, <1>3, <1>4 DEF Lost

LEMMA SettledFitsOn ==
  ASSUME LogTypeOK, LogFits, WriterFits, CheckpointFits(cp), CheckpointFits(cp)', Onward, NoEarlier,
         NEW d, NEW e, SettledFits(d, e)
  PROVE  SettledFits(d, e)'
BY MakesDayOn, LostOn DEF SettledFits

-----------------------------------------------------------------------------
(* The writer. Every step goes on from the log as it is and keeps the files in  *)
(* order.                                                                      *)

LEMMA LogStays ==
  ASSUME LogTypeOK, LogFits, WriterFits, Onward, log' = log
  PROVE  LogFits'
<1>1. \A i \in DOMAIN log : Line(log[i])'
  BY LineOn DEF LogFits
<1>2. \A i \in DOMAIN log : log'[i].seq = i - 1
  BY DEF LogFits
<1>3. \A i \in DOMAIN log' : Line(log[i])'
  BY <1>1
<1> QED BY <1>2, <1>3 DEF LogFits

\* The line in hand becomes a line of the log.
LEMMA LogAppends ==
  ASSUME LogTypeOK, LogFits, WriterFits, Onward, writer.pc # "idle", log' = Append(log, writer.rec),
         Line(writer.rec)
  PROVE  LogFits'
<1> DEFINE rec == writer.rec
<1>0. log \in Seq(Records) /\ rec \in Records /\ DOMAIN log = 1..Len(log)
  BY BusyWriter DEF LogTypeOK
<1>g. /\ DOMAIN log' = 1..(Len(log) + 1) /\ log'[Len(log) + 1] = rec
      /\ \A i \in DOMAIN log : log'[i] = log[i]
  BY <1>0
<1>1. ASSUME NEW i \in DOMAIN log' PROVE Line(log[i])'
  <2>1. PICK x : x = log'[i]
    OBVIOUS
  <2>2. Line(x)
    BY <1>0, <1>g, <2>1 DEF LogFits
  <2>3. Line(x)'
    BY <2>2, LineOn
  <2> QED BY <2>1, <2>3
<1>2. \A i \in DOMAIN log' : log'[i].seq = i - 1
  BY <1>0, <1>g DEF LogFits, WriterFits
<1>3. ASSUME NEW i \in DOMAIN log', NEW j \in DOMAIN log', i <= j PROVE log'[i].day <= log'[j].day
  <2>1. CASE j \in DOMAIN log
    BY <1>0, <1>g, <1>3, <2>1 DEF LogFits
  <2>2. CASE i = Len(log) + 1 /\ j = Len(log) + 1
    BY <1>0, <1>g, <2>2, RecordFields
  <2>3. CASE i \in DOMAIN log /\ j = Len(log) + 1
    <3>1. log # <<>> /\ LastDay = log[Len(log)].day
      BY <1>0, <2>3 DEF LastDay, Last
    <3>2. log[i].day <= log[Len(log)].day
      BY <1>0, <2>3 DEF LogFits
    <3>3. log[Len(log)].day <= rec.day
      BY <3>1 DEF WriterFits
    <3>4. log[i].day \in Nat /\ log[Len(log)].day \in Nat /\ rec.day \in Nat
      BY <1>0, <2>3, RecordFields
    <3> QED BY <1>g, <2>3, <3>2, <3>3, <3>4
  <2>4. j \in DOMAIN log \/ j = Len(log) + 1
    BY <1>0, <1>g
  <2>5. i \in DOMAIN log \/ i = Len(log) + 1
    BY <1>0, <1>g
  <2> QED BY <1>0, <1>3, <2>1, <2>2, <2>3, <2>4, <2>5
<1> QED BY <1>1, <1>2, <1>3 DEF LogFits

\* All but the line in hand is of the log.
LEMMA SegLines ==
  ASSUME LogInv, NEW k \in DOMAIN segs, NEW i \in DOMAIN segs[k]
  PROVE  /\ Line(segs[k][i]) /\ segs[k][i] \in Records
         /\ writer.pc # "written" \/ k # Newest \/ i # Len(segs[k]) => InLog(segs[k][i])
<1>1. Line(segs[k][i])
  BY DEF LogInv, SegsFit
<1> QED BY <1>1 DEF LogInv, SegsFit, Line

\* Nothing comes into the files.
NoneAdded ==
  \A k \in DOMAIN segs' : \A i \in DOMAIN segs'[k] :
    k \in DOMAIN segs /\ i \in DOMAIN segs[k] /\ segs'[k][i] = segs[k][i]

LEMMA FilesKept ==
  ASSUME LogInv, Onward, NoneAdded
  PROVE  /\ \A k \in DOMAIN segs' : \A i \in DOMAIN segs'[k] : Line(segs[k][i])'
         /\ \A k \in DOMAIN segs' : \A i \in DOMAIN segs'[k] :
              writer.pc # "written" \/ k # Newest \/ i # Len(segs[k]) => InLog(segs[k][i])'
         /\ \A k, l \in DOMAIN segs' : k < l =>
              \A i \in DOMAIN segs'[k], j \in DOMAIN segs'[l] : segs'[k][i].seq < segs'[l][j].seq
<1>0. LogTypeOK /\ WriterFits
  BY DEF LogInv
<1>1. ASSUME NEW k \in DOMAIN segs', NEW i \in DOMAIN segs'[k]
      PROVE  /\ Line(segs[k][i])'
             /\ writer.pc # "written" \/ k # Newest \/ i # Len(segs[k]) => InLog(segs[k][i])'
  <2>1. PICK x : x = segs'[k][i] /\ x = segs[k][i] /\ k \in DOMAIN segs /\ i \in DOMAIN segs[k]
    BY DEF NoneAdded
  <2>2. Line(x) /\ x \in Records /\ (writer.pc # "written" \/ k # Newest \/ i # Len(segs[k]) => InLog(x))
    BY <2>1, SegLines
  <2>3. Line(x)' /\ (InLog(x) => InLog(x)')
    BY <1>0, <2>2, LineOn, InLogOn
  <2> QED BY <2>1, <2>2, <2>3
<1>2. \A k, l \in DOMAIN segs' : k < l =>
        \A i \in DOMAIN segs'[k], j \in DOMAIN segs'[l] : segs'[k][i].seq < segs'[l][j].seq
  BY DEF NoneAdded, LogInv, SegsFit
<1> QED BY <1>1, <1>2

\* The checkpoint stays in front when no line is added and none is kept that was
\* about to be dropped.
LEMMA PruneKept ==
  ASSUME LogInv, Onward, NoneAdded, UNCHANGED cp,
         writer.pc = "drop" => \/ writer'.pc = "drop" /\ Oldest' = Oldest
                              \/ Oldest \notin DOMAIN segs'
  PROVE  PruneFits' /\ NoEarlier
<1>1. CheckpointFits(cp)'
  <2>1. PICK c : c = cp
    OBVIOUS
  <2>2. CheckpointFits(c)'
    BY <2>1, CheckpointFitsOn DEF LogInv, PruneFits
  <2> QED BY <2>1, <2>2
<1>2. NoEarlier
  BY DEF NoEarlier, LogInv, PruneFits, CheckpointFits, Checkpoints
<1>3. ASSUME cp' # None, NEW k \in DOMAIN segs', writer'.pc = "drop" => k # Oldest', NEW i \in DOMAIN segs'[k]
      PROVE  cp'.next <= segs'[k][i].seq
  <2>1. k \in DOMAIN segs /\ i \in DOMAIN segs[k] /\ segs'[k][i] = segs[k][i]
    BY DEF NoneAdded
  <2>2. writer.pc = "drop" => k # Oldest
    BY <1>3
  <2> QED BY <1>3, <2>1, <2>2 DEF LogInv, PruneFits
<1> QED BY <1>1, <1>2, <1>3 DEF PruneFits

-----------------------------------------------------------------------------
LEMMA LogSame ==
  ASSUME LogInv, UNCHANGED <<log, writer, segs, cp, stamped, faults>>, clock' \in Nat
  PROVE  LogInv' /\ Onward /\ NoEarlier
<1>1. Onward
  BY DEF Onward, LogInv, LogTypeOK
<1>2. NoneAdded
  BY DEF NoneAdded
<1>3. PruneFits' /\ NoEarlier
  BY <1>1, <1>2, PruneKept DEF Oldest
<1>4. LogTypeOK' /\ WriterFits'
  BY DEF LogInv, LogTypeOK, WriterFits, LastHash, LastDay
<1>5. LogFits'
  BY <1>1, LogStays DEF LogInv
<1>6. SegsFit'
  BY DEF LogInv, SegsFit, Line, InLog, Newest, Oldest
<1> QED BY <1>1, <1>3, <1>4, <1>5, <1>6 DEF LogInv

LEMMA StampStep ==
  ASSUME LogInv, Stamp
  PROVE  LogInv' /\ Onward /\ NoEarlier
<1> DEFINE rec == [seq |-> Len(log), hash |-> stamped + 1, prev |-> LastHash,
                   day |-> IF clock > LastDay THEN clock ELSE LastDay]
<1>0. /\ log \in Seq(Records) /\ stamped \in Nat /\ clock \in Nat /\ DOMAIN log = 1..Len(log)
      /\ UNCHANGED <<clock, log, segs, cp, faults>> /\ stamped' = stamped + 1
      /\ writer.pc = "idle" /\ writer' = [pc |-> "sealed", rec |-> rec]
  BY DEF Stamp, LogInv, LogTypeOK
<1>1. LastHash \in Nat /\ LastDay \in Nat
  <2>1. log # <<>> => Last(log) \in Records
    BY <1>0 DEF Last
  <2> QED BY <2>1, RecordFields DEF LastHash, LastDay
<1>2. rec \in Records /\ rec.seq = Len(log) /\ rec.hash = stamped + 1 /\ rec.prev = LastHash /\ rec.day >= LastDay
  BY <1>0, <1>1 DEF Records
<1> HIDE DEF rec
<1>3. writer'.pc = "sealed" /\ writer'.rec = rec
  BY <1>0
<1>4. Onward
  BY <1>0, <1>2, <1>3 DEF Onward, LogInv, LogTypeOK
<1>5. NoneAdded
  BY <1>0 DEF NoneAdded
<1>6. PruneFits' /\ NoEarlier
  BY <1>0, <1>4, <1>5, PruneKept
<1>7. LogTypeOK'
  BY <1>0, <1>2 DEF LogInv, LogTypeOK
<1>8. LogFits'
  BY <1>0, <1>4, LogStays DEF LogInv
<1>9. WriterFits'
  <2>1. \A i \in DOMAIN log : log[i].hash < stamped + 1
    <3> TAKE i \in DOMAIN log
    <3>1. log[i] \in Records /\ log[i].hash <= stamped
      BY <1>0 DEF LogInv, LogFits, Line
    <3> QED BY <1>0, <3>1, RecordFields
  <2> QED BY <1>0, <1>2, <1>3, <2>1 DEF WriterFits, LastHash, LastDay
<1>10. SegsFit'
  <2>1. Newest' = Newest /\ Oldest' = Oldest
    BY <1>0 DEF Newest, Oldest
  <2> QED BY <1>0, <1>3, <1>4, <1>5, <2>1, FilesKept DEF LogInv, SegsFit
<1> QED BY <1>4, <1>6, <1>7, <1>8, <1>9, <1>10 DEF LogInv

\* What a step of a busy writer that adds nothing to the log leaves true.
LEMMA SealedStays ==
  ASSUME LogInv, writer.pc # "idle", UNCHANGED <<log, stamped, faults>>,
         NEW next \in {"sealed", "prune", "drop", "written"}, writer' = [writer EXCEPT !.pc = next],
         writer.pc = "written" => next = "written"
  PROVE  /\ writer' \in [pc : {"sealed", "prune", "drop", "written"}, rec : Records]
         /\ writer'.pc = next /\ writer'.rec = writer.rec
         /\ Onward /\ LogFits' /\ WriterFits'
<1>1. writer \in [pc : {"sealed", "prune", "drop", "written"}, rec : Records]
  BY BusyWriter DEF LogInv
<1>2. /\ writer' \in [pc : {"sealed", "prune", "drop", "written"}, rec : Records]
      /\ writer'.pc = next /\ writer'.rec = writer.rec
  BY <1>1
<1>3. Onward
  BY <1>2 DEF Onward, LogInv, LogTypeOK
<1>4. LogFits'
  BY <1>3, LogStays DEF LogInv
<1>5. WriterFits'
  BY <1>2 DEF LogInv, WriterFits, LastHash, LastDay
<1> QED BY <1>2, <1>3, <1>4, <1>5

LEMMA RotateStep ==
  ASSUME LogInv, Rotate
  PROVE  LogInv' /\ Onward /\ NoEarlier
<1>0. PICK lo \in Nat, hi \in Nat :
        lo <= hi /\ segs \in [lo..hi -> Seq(Records)] /\ Oldest = lo /\ Newest = hi
  BY SegsAreARun DEF LogInv
<1>1. PICK next \in {"sealed", "prune"} : writer' = [writer EXCEPT !.pc = next]
  BY DEF Rotate
<1>2. /\ writer.pc = "sealed" /\ segs[hi] # <<>> /\ UNCHANGED <<clock, log, cp, stamped, faults>>
      /\ segs' = [i \in (lo..hi) \cup {hi + 1} |-> IF i \in lo..hi THEN segs[i] ELSE <<>>]
  BY <1>0 DEF Rotate
<1>3. /\ writer' \in [pc : {"sealed", "prune", "drop", "written"}, rec : Records]
      /\ writer'.pc = next /\ Onward /\ LogFits' /\ WriterFits'
  BY <1>1, <1>2, SealedStays
<1>4. (lo..hi) \cup {hi + 1} = lo..(hi + 1)
  BY <1>0
<1>5. /\ segs' \in [lo..(hi + 1) -> Seq(Records)] /\ hi + 1 \in Nat /\ lo <= hi + 1
      /\ segs'[hi + 1] = <<>> /\ \A k \in lo..hi : segs'[k] = segs[k]
  BY <1>0, <1>2, <1>4
<1>6. /\ DOMAIN segs' = lo..(hi + 1) /\ Oldest' = lo /\ Newest' = hi + 1
      /\ DOMAIN segs' \subseteq Nat /\ \E a, b \in DOMAIN segs' : segs' \in [a..b -> Seq(Records)]
  BY <1>0, <1>5, RunOfSegs
<1>7. LogTypeOK'
  BY <1>2, <1>3, <1>6 DEF LogInv, LogTypeOK
<1>8. NoneAdded
  BY <1>0, <1>5, <1>6 DEF NoneAdded
<1>9. PruneFits' /\ NoEarlier
  BY <1>2, <1>3, <1>8, PruneKept
<1>10. SegsFit'
  <2>1. ASSUME NEW k \in DOMAIN segs', k # Newest' PROVE segs'[k] # <<>>
    <3>1. k \in DOMAIN segs /\ segs'[k] = segs[k]
      BY <1>0, <1>5, <1>6, <2>1
    <3>2. k # hi => segs[k] # <<>>
      BY <1>0, <3>1 DEF LogInv, SegsFit
    <3> QED BY <1>2, <3>1, <3>2
  <2>2. Oldest' # Newest'
    BY <1>0, <1>6
  <2> QED BY <1>1, <1>2, <1>3, <1>8, <2>1, <2>2, FilesKept DEF SegsFit
<1> QED BY <1>3, <1>7, <1>9, <1>10 DEF LogInv

LEMMA WriteCheckpointStep ==
  ASSUME LogInv, WriteCheckpoint
  PROVE  LogInv' /\ Onward /\ NoEarlier
<1>0. PICK lo \in Nat, hi \in Nat :
        lo <= hi /\ segs \in [lo..hi -> Seq(Records)] /\ Oldest = lo /\ Newest = hi
  BY SegsAreARun DEF LogInv
<1> DEFINE r == Last(segs[lo])
<1>1. /\ writer.pc = "prune" /\ writer' = [writer EXCEPT !.pc = "drop"]
      /\ cp' = [next |-> r.seq + 1, prev |-> r.hash, day |-> r.day]
      /\ UNCHANGED <<clock, log, segs, stamped, faults>>
  BY <1>0 DEF WriteCheckpoint
<1>2. /\ writer' \in [pc : {"sealed", "prune", "drop", "written"}, rec : Records]
      /\ writer'.pc = "drop" /\ Onward /\ LogFits' /\ WriterFits'
  BY <1>1, SealedStays
<1>3. lo # hi /\ segs[lo] # <<>> /\ segs[lo] \in Seq(Records) /\ DOMAIN segs = lo..hi
  BY <1>0, <1>1 DEF LogInv, SegsFit
<1>4. Len(segs[lo]) \in DOMAIN segs[lo] /\ r = segs[lo][Len(segs[lo])]
  BY <1>3 DEF Last
<1> HIDE DEF r
<1>5. r \in Records /\ InLog(r)
  BY <1>0, <1>1, <1>3, <1>4, SegLines
<1>6. /\ r.seq \in Nat /\ r.hash \in Nat /\ r.day \in Nat /\ r.seq + 1 \in DOMAIN log /\ log[r.seq + 1] = r
  BY <1>5, RecordFields DEF InLog, LogInv, LogTypeOK
<1>7. CheckpointFits(cp)'
  BY <1>1, <1>6 DEF CheckpointFits, Checkpoints
<1>8. NoEarlier
  <2>1. cp' # None
    BY <1>1, <1>6, NoneAssumption DEF NoneAssumption, Checkpoints
  <2>2. cp # None => cp.next \in Nat
    BY DEF LogInv, PruneFits, CheckpointFits, Checkpoints
  <2>3. lo \in DOMAIN segs /\ writer.pc # "drop"
    BY <1>0, <1>1
  <2>4. cp # None => cp.next <= segs[lo][Len(segs[lo])].seq
    BY <1>4, <2>3 DEF LogInv, PruneFits
  <2> QED BY <1>1, <1>4, <1>6, <2>1, <2>2, <2>4 DEF NoEarlier
<1>9. PruneFits'
  <2>1. ASSUME NEW k \in DOMAIN segs, k # lo, NEW i \in DOMAIN segs[k] PROVE r.seq + 1 <= segs[k][i].seq
    <3>1. lo < k
      BY <1>0, <1>3, <2>1
    <3>2. r.seq < segs[k][i].seq
      BY <1>3, <1>4, <2>1, <3>1 DEF LogInv, SegsFit
    <3>3. segs[k][i].seq \in Nat
      BY <2>1, SegLines, RecordFields
    <3> QED BY <1>6, <3>2, <3>3
  <2>2. Oldest' = lo
    BY <1>0, <1>1 DEF Oldest
  <2> QED BY <1>1, <1>2, <1>7, <2>1, <2>2 DEF PruneFits
<1>10. LogTypeOK'
  BY <1>1, <1>2 DEF LogInv, LogTypeOK
<1>11. SegsFit'
  <2>1. Newest' = Newest /\ Oldest' = Oldest
    BY <1>1 DEF Newest, Oldest
  <2>2. NoneAdded
    BY <1>1 DEF NoneAdded
  <2> QED BY <1>1, <1>2, <2>1, <2>2, FilesKept DEF LogInv, SegsFit
<1> QED BY <1>2, <1>8, <1>9, <1>10, <1>11 DEF LogInv

LEMMA FilesWithoutOldest ==
  ASSUME LogInv, writer.pc = "drop", segs' = [i \in DOMAIN segs \ {Oldest} |-> segs[i]]
  PROVE  /\ DOMAIN segs' \subseteq Nat /\ \E a, b \in DOMAIN segs' : segs' \in [a..b -> Seq(Records)]
         /\ Newest' = Newest /\ Oldest \notin DOMAIN segs' /\ NoneAdded
         /\ \A k \in DOMAIN segs' : k \in DOMAIN segs /\ segs'[k] = segs[k]
<1>0. PICK lo \in Nat, hi \in Nat :
        lo <= hi /\ segs \in [lo..hi -> Seq(Records)] /\ Oldest = lo /\ Newest = hi
  BY SegsAreARun DEF LogInv
<1>1. lo # hi
  BY <1>0 DEF LogInv, SegsFit
<1>2. lo + 1 \in Nat /\ lo + 1 <= hi /\ (lo..hi) \ {lo} = (lo + 1)..hi
  BY <1>0, <1>1
<1>3. segs' \in [(lo + 1)..hi -> Seq(Records)] /\ \A k \in (lo + 1)..hi : segs'[k] = segs[k] /\ k \in DOMAIN segs
  BY <1>0, <1>2
<1>4. DOMAIN segs' = (lo + 1)..hi /\ Newest' = hi /\ DOMAIN segs' \subseteq Nat
      /\ \E a, b \in DOMAIN segs' : segs' \in [a..b -> Seq(Records)]
  BY <1>2, <1>3, RunOfSegs
<1>5. NoneAdded
  BY <1>3, <1>4 DEF NoneAdded
<1> QED BY <1>0, <1>3, <1>4, <1>5

LEMMA DropOldestStep ==
  ASSUME LogInv, DropOldest
  PROVE  LogInv' /\ Onward /\ NoEarlier
<1>1. /\ writer.pc = "drop" /\ writer' = [writer EXCEPT !.pc = "sealed"]
      /\ segs' = [i \in DOMAIN segs \ {Oldest} |-> segs[i]]
      /\ UNCHANGED <<clock, log, cp, stamped, faults>>
  BY DEF DropOldest
<1>2. /\ writer' \in [pc : {"sealed", "prune", "drop", "written"}, rec : Records]
      /\ writer'.pc = "sealed" /\ Onward /\ LogFits' /\ WriterFits'
  BY <1>1, SealedStays
<1>3. LogTypeOK'
  BY <1>1, <1>2, FilesWithoutOldest DEF LogInv, LogTypeOK
<1>4. PruneFits' /\ NoEarlier
  BY <1>1, <1>2, FilesWithoutOldest, PruneKept
<1>5. SegsFit'
  <2>1. \A k \in DOMAIN segs' : k # Newest' => segs'[k] # <<>>
    BY <1>1, FilesWithoutOldest DEF LogInv, SegsFit
  <2> QED BY <1>1, <1>2, <2>1, FilesWithoutOldest, FilesKept DEF SegsFit
<1> QED BY <1>2, <1>3, <1>4, <1>5 DEF LogInv

LEMMA WriteLineStep ==
  ASSUME LogInv, WriteLine
  PROVE  LogInv' /\ Onward /\ NoEarlier
<1>0. PICK lo \in Nat, hi \in Nat :
        lo <= hi /\ segs \in [lo..hi -> Seq(Records)] /\ Oldest = lo /\ Newest = hi
  BY SegsAreARun DEF LogInv
<1>r. PICK rec : rec = writer.rec
  OBVIOUS
<1> DEFINE n == Len(segs[hi])
<1>1. /\ writer.pc = "sealed" /\ writer' = [writer EXCEPT !.pc = "written"]
      /\ segs' = [segs EXCEPT ![hi] = Append(@, rec)]
      /\ UNCHANGED <<clock, log, cp, stamped, faults>>
  BY <1>0, <1>r DEF WriteLine
<1>2. /\ writer' \in [pc : {"sealed", "prune", "drop", "written"}, rec : Records]
      /\ writer'.pc = "written" /\ writer'.rec = rec /\ Onward /\ LogFits' /\ WriterFits'
  BY <1>1, <1>r, SealedStays
<1>3. rec \in Records /\ rec.seq = Len(log) /\ log \in Seq(Records)
  BY <1>1, <1>r, BusyWriter DEF LogInv, WriterFits, LogTypeOK
<1>4. /\ segs' \in [lo..hi -> Seq(Records)] /\ hi \in DOMAIN segs /\ segs[hi] \in Seq(Records)
      /\ segs'[hi] = Append(segs[hi], rec) /\ \A k \in lo..hi : k # hi => segs'[k] = segs[k]
  BY <1>0, <1>1, <1>3
<1>5. /\ DOMAIN segs' = lo..hi /\ DOMAIN segs = lo..hi /\ Oldest' = lo /\ Newest' = hi
      /\ DOMAIN segs' \subseteq Nat /\ \E a, b \in DOMAIN segs' : segs' \in [a..b -> Seq(Records)]
  BY <1>0, <1>4, RunOfSegs
<1>6. LogTypeOK'
  BY <1>1, <1>2, <1>5 DEF LogInv, LogTypeOK
<1>7. /\ n \in Nat /\ Len(segs'[hi]) = n + 1 /\ segs'[hi][n + 1] = rec /\ DOMAIN segs'[hi] = 1..(n + 1)
      /\ \A i \in 1..n : i \in DOMAIN segs[hi] /\ segs'[hi][i] = segs[hi][i]
  BY <1>3, <1>4
\* A line is an old one or the one in hand.
<1>8. ASSUME NEW k \in DOMAIN segs', NEW i \in DOMAIN segs'[k]
      PROVE  \/ k = hi /\ i = n + 1 /\ segs'[k][i] = rec
             \/ k \in DOMAIN segs /\ i \in DOMAIN segs[k] /\ segs'[k][i] = segs[k][i]
  <2>1. CASE k = hi
    BY <1>4, <1>7, <2>1
  <2>2. CASE k # hi
    BY <1>4, <1>5, <2>2
  <2> QED BY <2>1, <2>2
<1>9. Line(rec)'
  <2>1. stamped \in Nat /\ rec.hash = stamped /\ rec.seq \in Nat /\ DOMAIN log = 1..Len(log)
    BY <1>1, <1>r, <1>3, RecordFields DEF LogInv, LogTypeOK, WriterFits
  <2>2. \A i \in DOMAIN log : log[i].hash # rec.hash
    <3> TAKE i \in DOMAIN log
    <3>1. log[i] \in Records /\ log[i].hash < stamped
      BY <1>1, <1>3, <2>1 DEF LogInv, WriterFits
    <3> QED BY <2>1, <3>1, RecordFields
  <2>3. rec.seq # 0 => rec.prev = log[rec.seq].hash /\ log[rec.seq].day <= rec.day
    <3> SUFFICES ASSUME rec.seq # 0 PROVE rec.prev = log[rec.seq].hash /\ log[rec.seq].day <= rec.day
      OBVIOUS
    <3>1. log # <<>> /\ LastHash = log[rec.seq].hash /\ LastDay = log[rec.seq].day
      BY <1>3, <2>1 DEF LastHash, LastDay, Last
    <3> QED BY <1>1, <1>r, <1>3, <2>1, <3>1, RecordFields DEF LogInv, WriterFits
  <2> QED BY <1>1, <1>2, <1>3, <2>1, <2>2, <2>3 DEF Line
<1> HIDE DEF n
<1>10. ASSUME NEW k \in DOMAIN segs', NEW i \in DOMAIN segs'[k]
       PROVE  /\ Line(segs[k][i])'
              /\ InLog(segs[k][i])' \/ (writer'.pc = "written" /\ k = Newest' /\ i = Len(segs'[k]))
  <2>0. PICK x : x = segs'[k][i]
    OBVIOUS
  <2>1. CASE k = hi /\ i = n + 1 /\ segs'[k][i] = rec
    <3>1. Line(segs[k][i])'
      BY <1>9, <2>1
    <3> QED BY <1>2, <1>5, <1>7, <2>1, <3>1
  <2>2. CASE k \in DOMAIN segs /\ i \in DOMAIN segs[k] /\ segs'[k][i] = segs[k][i]
    <3>1. Line(x) /\ InLog(x) /\ x \in Records
      BY <1>1, <2>0, <2>2, SegLines
    <3>2. Line(x)' /\ InLog(x)'
      BY <1>2, <3>1, LineOn, InLogOn DEF LogInv
    <3> QED BY <2>0, <3>2
  <2> QED BY <1>8, <2>1, <2>2
<1>11. ASSUME NEW k \in DOMAIN segs', NEW l \in DOMAIN segs', k < l,
              NEW i \in DOMAIN segs'[k], NEW j \in DOMAIN segs'[l]
       PROVE  segs'[k][i].seq < segs'[l][j].seq
  <2>1. k # hi /\ k \in DOMAIN segs /\ i \in DOMAIN segs[k] /\ segs'[k][i] = segs[k][i]
    BY <1>4, <1>5, <1>11
  <2>2. CASE l = hi /\ j = n + 1 /\ segs'[l][j] = rec
    <3>1. InLog(segs[k][i])
      BY <1>0, <2>1, SegLines
    <3> QED BY <1>3, <2>1, <2>2, <3>1 DEF InLog
  <2>3. CASE l \in DOMAIN segs /\ j \in DOMAIN segs[l] /\ segs'[l][j] = segs[l][j]
    BY <1>11, <2>1, <2>3 DEF LogInv, SegsFit
  <2> QED BY <1>8, <2>2, <2>3
<1>12. SegsFit'
  <2>1. \A k \in DOMAIN segs' : k # Newest' => segs'[k] # <<>>
    BY <1>0, <1>4, <1>5 DEF LogInv, SegsFit
  <2>2. segs'[Newest'] # <<>> /\ Last(segs'[Newest']) = rec
    BY <1>4, <1>5, <1>7 DEF Last
  <2> QED BY <1>2, <1>10, <1>11, <2>1, <2>2 DEF SegsFit
<1>13. CheckpointFits(cp)'
  <2>1. PICK c : c = cp
    OBVIOUS
  <2>2. CheckpointFits(c)'
    BY <1>2, <2>1, CheckpointFitsOn DEF LogInv, PruneFits
  <2> QED BY <1>1, <2>1, <2>2
<1>14. NoEarlier
  BY <1>1 DEF NoEarlier, LogInv, PruneFits, CheckpointFits, Checkpoints
<1>15. PruneFits'
  <2>1. ASSUME cp # None, NEW k \in DOMAIN segs', NEW i \in DOMAIN segs'[k] PROVE cp.next <= segs'[k][i].seq
    <3>1. CASE segs'[k][i] = rec
      BY <1>3, <2>1, <3>1 DEF LogInv, PruneFits, CheckpointFits
    <3>2. CASE k \in DOMAIN segs /\ i \in DOMAIN segs[k] /\ segs'[k][i] = segs[k][i]
      BY <1>1, <2>1, <3>2 DEF LogInv, PruneFits
    <3> QED BY <1>8, <3>1, <3>2
  <2> QED BY <1>1, <1>13, <2>1 DEF PruneFits
<1> QED BY <1>2, <1>6, <1>12, <1>14, <1>15 DEF LogInv

\* The writer gives the append up: the line, if there is one, goes or is of the log now.
LEMMA AppendOver ==
  ASSUME LogInv, writer.pc # "idle", writer' = NoAppend, NoneAdded, Onward, UNCHANGED <<clock, cp, stamped>>,
         faults' \in Nat, LogFits',
         DOMAIN segs' \subseteq Nat, \E a, b \in DOMAIN segs' : segs' \in [a..b -> Seq(Records)],
         \A k \in DOMAIN segs' : k # Newest' => segs'[k] # <<>>,
         \A k \in DOMAIN segs' : \A i \in DOMAIN segs'[k] : InLog(segs[k][i])',
         writer.pc = "drop" => Oldest \notin DOMAIN segs'
  PROVE  LogInv' /\ NoEarlier
<1>0. writer'.pc = "idle"
  BY DEF NoAppend
<1>1. LogTypeOK'
  BY LogGrows DEF LogInv, LogTypeOK, Onward
<1>2. WriterFits'
  BY <1>0 DEF WriterFits
<1>3. PruneFits' /\ NoEarlier
  BY PruneKept
<1>4. SegsFit'
  BY <1>0, FilesKept DEF SegsFit
<1> QED BY <1>1, <1>2, <1>3, <1>4 DEF LogInv

\* Where no line is in hand, all lines in the files are of the log.
LEMMA FilesLogged ==
  ASSUME LogInv, Onward, NoneAdded, writer.pc # "written"
  PROVE  \A k \in DOMAIN segs' : \A i \in DOMAIN segs'[k] : InLog(segs[k][i])'
BY FilesKept

LEMMA RollBackStep ==
  ASSUME LogInv, RollBack
  PROVE  LogInv' /\ Onward /\ NoEarlier
<1>0. PICK lo \in Nat, hi \in Nat :
        lo <= hi /\ segs \in [lo..hi -> Seq(Records)] /\ Oldest = lo /\ Newest = hi
  BY SegsAreARun DEF LogInv
<1>1. /\ writer.pc = "written" /\ writer' = NoAppend /\ faults' = faults + 1 /\ faults \in Nat
      /\ segs' = [segs EXCEPT ![hi] = Front(@)]
      /\ UNCHANGED <<clock, log, cp, stamped>>
  BY <1>0 DEF RollBack, LogInv, LogTypeOK
<1>2. Onward
  BY <1>1 DEF Onward, NoAppend, LogInv, LogTypeOK
<1>3. segs[hi] \in Seq(Records) /\ segs[hi] # <<>>
  BY <1>0, <1>1 DEF LogInv, SegsFit
<1>4. /\ Front(segs[hi]) \in Seq(Records) /\ Len(Front(segs[hi])) = Len(segs[hi]) - 1
      /\ \A i \in DOMAIN Front(segs[hi]) : /\ i \in DOMAIN segs[hi] /\ i # Len(segs[hi])
                                           /\ Front(segs[hi])[i] = segs[hi][i]
  BY <1>3 DEF Front
<1>5. /\ segs' \in [lo..hi -> Seq(Records)] /\ segs'[hi] = Front(segs[hi])
      /\ \A k \in lo..hi : k # hi => segs'[k] = segs[k]
  BY <1>0, <1>1, <1>4
<1>6. /\ DOMAIN segs' = lo..hi /\ Oldest' = lo /\ Newest' = hi /\ DOMAIN segs' \subseteq Nat
      /\ \E a, b \in DOMAIN segs' : segs' \in [a..b -> Seq(Records)]
  BY <1>0, <1>5, RunOfSegs
<1>7. ASSUME NEW k \in DOMAIN segs', NEW i \in DOMAIN segs'[k]
      PROVE  /\ k \in DOMAIN segs /\ i \in DOMAIN segs[k] /\ segs'[k][i] = segs[k][i]
             /\ k # Newest \/ i # Len(segs[k])
  <2>1. CASE k = hi
    BY <1>0, <1>4, <1>5, <2>1
  <2>2. CASE k # hi
    BY <1>0, <1>5, <1>6, <2>2
  <2> QED BY <2>1, <2>2
<1>8. NoneAdded
  BY <1>7 DEF NoneAdded
<1>9. LogFits'
  BY <1>1, <1>2, LogStays DEF LogInv
<1>10. \A k \in DOMAIN segs' : k # Newest' => segs'[k] # <<>>
  BY <1>0, <1>5, <1>6 DEF LogInv, SegsFit
<1>11. \A k \in DOMAIN segs' : \A i \in DOMAIN segs'[k] : InLog(segs[k][i])'
  BY <1>2, <1>7, <1>8, FilesKept
<1>12. faults' \in Nat /\ writer.pc # "drop"
  BY <1>1
<1> QED BY <1>1, <1>2, <1>6, <1>8, <1>9, <1>10, <1>11, <1>12, AppendOver

\* The line becomes durable: acknowledged, or found again by a restart.
LEMMA LineStays ==
  ASSUME LogInv, writer.pc = "written", writer' = NoAppend, log' = Append(log, writer.rec),
         faults' \in {faults, faults + 1}, UNCHANGED <<clock, segs, cp, stamped>>
  PROVE  LogInv' /\ Onward /\ NoEarlier
<1>0. PICK lo \in Nat, hi \in Nat :
        lo <= hi /\ segs \in [lo..hi -> Seq(Records)] /\ Oldest = lo /\ Newest = hi
  BY SegsAreARun DEF LogInv
<1>1. Onward
  BY DEF Onward, NoAppend, LogInv, LogTypeOK
<1>2. /\ segs[hi] \in Seq(Records) /\ hi \in DOMAIN segs /\ segs[hi] # <<>> /\ segs[hi][Len(segs[hi])] = writer.rec
      /\ Len(segs[hi]) \in DOMAIN segs[hi]
  BY <1>0 DEF LogInv, SegsFit, Last
<1>3. Line(writer.rec)
  BY <1>2, SegLines
<1>4. LogFits'
  BY <1>1, <1>3, LogAppends DEF LogInv
<1>5. NoneAdded
  BY DEF NoneAdded
<1>6. writer.rec \in Records /\ writer.rec.seq = Len(log) /\ log \in Seq(Records)
  BY BusyWriter DEF LogInv, WriterFits, LogTypeOK
<1>7. ASSUME NEW k \in DOMAIN segs', NEW i \in DOMAIN segs'[k] PROVE InLog(segs[k][i])'
  <2>1. CASE k = hi /\ i = Len(segs[hi])
    <3>1. segs'[k][i] = writer.rec
      BY <1>2, <2>1
    <3> QED BY <1>6, <3>1 DEF InLog
  <2>2. CASE k # Newest \/ i # Len(segs[k])
    BY <1>1, <1>5, <2>2, FilesKept
  <2> QED BY <1>0, <2>1, <2>2
<1>8. /\ DOMAIN segs' \subseteq Nat /\ \E a, b \in DOMAIN segs' : segs' \in [a..b -> Seq(Records)]
      /\ \A k \in DOMAIN segs' : k # Newest' => segs'[k] # <<>>
  <2>1. Newest' = Newest
    BY DEF Newest
  <2> QED BY <2>1 DEF LogInv, LogTypeOK, SegsFit
<1>9. faults' \in Nat
  BY DEF LogInv, LogTypeOK
<1> QED BY <1>1, <1>4, <1>5, <1>7, <1>8, <1>9, AppendOver

LEMMA WriteHeadStep ==
  ASSUME LogInv, WriteHead
  PROVE  LogInv' /\ Onward /\ NoEarlier
BY LineStays DEF WriteHead

LEMMA ReopenStep ==
  ASSUME LogInv, Reopen
  PROVE  LogInv' /\ Onward /\ NoEarlier
<1>1. CASE writer.pc = "written"
  BY <1>1, LineStays DEF Reopen
<1>2. CASE writer.pc # "written"
  <2>1. /\ writer.pc # "idle" /\ writer' = NoAppend /\ faults' = faults + 1 /\ faults \in Nat
        /\ UNCHANGED <<clock, log, cp, stamped>>
    BY <1>2 DEF Reopen, LogInv, LogTypeOK
  <2>2. Onward
    BY <1>2, <2>1 DEF Onward, NoAppend, LogInv, LogTypeOK
  <2>3. LogFits'
    BY <2>1, <2>2, LogStays DEF LogInv
  <2>4. /\ DOMAIN segs' \subseteq Nat /\ \E a, b \in DOMAIN segs' : segs' \in [a..b -> Seq(Records)]
        /\ NoneAdded /\ (writer.pc = "drop" => Oldest \notin DOMAIN segs')
        /\ \A k \in DOMAIN segs' : k # Newest' => segs'[k] # <<>>
    <3>1. CASE writer.pc = "drop"
      <4>1. segs' = [i \in DOMAIN segs \ {Oldest} |-> segs[i]]
        BY <3>1 DEF Reopen
      <4> QED BY <3>1, <4>1, FilesWithoutOldest DEF LogInv, SegsFit
    <3>2. CASE writer.pc # "drop"
      <4>1. segs' = segs
        BY <3>2 DEF Reopen
      <4>2. Newest' = Newest
        BY <4>1 DEF Newest
      <4> QED BY <3>2, <4>1, <4>2 DEF NoneAdded, LogInv, LogTypeOK, SegsFit
    <3> QED BY <3>1, <3>2
  <2>5. \A k \in DOMAIN segs' : \A i \in DOMAIN segs'[k] : InLog(segs[k][i])'
    BY <1>2, <2>2, <2>4, FilesLogged
  <2>6. faults' \in Nat
    BY <2>1
  <2> QED BY <2>1, <2>2, <2>3, <2>4, <2>5, <2>6, AppendOver
<1> QED BY <1>1, <1>2

LEMMA WriterStep ==
  ASSUME LogInv, Midnight \/ Writer
  PROVE  LogInv' /\ Onward /\ NoEarlier
<1>1. CASE Midnight
  <2>1. UNCHANGED <<log, writer, segs, cp, stamped, faults>> /\ clock' = clock + 1 /\ clock \in Nat
    BY <1>1 DEF Midnight, LogInv, LogTypeOK
  <2>2. clock' \in Nat
    BY <2>1
  <2> QED BY <2>1, <2>2, LogSame
<1>2. CASE Writer
  BY <1>2, StampStep, RotateStep, WriteCheckpointStep, DropOldestStep, WriteLineStep, RollBackStep,
     WriteHeadStep, ReopenStep DEF Writer
<1> QED BY <1>1, <1>2

-----------------------------------------------------------------------------
(* Readers.                                                                    *)

LEMMA HoldsNothing == \A pc, plan, entry, h : HoldsChain(Reading(pc, plan, entry, h))
BY DEF HoldsChain, Reading, Linked, CheckpointFits

\* A reader that takes a step holds a chain if what it goes on with is one.
LEMMA ReaderMoves ==
  ASSUME LogInv, ReadersHold, \A q \in Readers : HoldsChain(reader[q]), UNCHANGED logVars,
         NEW p \in Readers, NEW r, HoldsChain(r), reader' = [reader EXCEPT ![p] = r]
  PROVE  \A q \in Readers : HoldsChain(reader[q])'
<1>1. LogInv' /\ Onward /\ NoEarlier
  BY LogSame DEF logVars, LogInv, LogTypeOK
<1> TAKE q \in Readers
<1>2. PICK x : x = reader'[q]
  OBVIOUS
<1>3. HoldsChain(x)
  BY <1>2 DEF ReadersHold
<1>4. HoldsChain(x)'
  BY <1>1, <1>3, HoldsChainOn DEF LogInv, PruneFits
<1> QED BY <1>2, <1>4

LEMMA ReadsChain ==
  ASSUME LogInv, ReadersHold, \A q \in Readers : HoldsChain(reader[q]),
         NEW p \in Readers, ReadHead(p) \/ ReadCheckpoint(p) \/ ListSegments(p) \/ ReadSegment(p)
  PROVE  \E r : HoldsChain(r) /\ reader' = [reader EXCEPT ![p] = r]
<1>0. PICK s : s = reader[p]
  OBVIOUS
<1>1. HoldsChain(s) /\ ReaderFields \subseteq DOMAIN s
  BY <1>0 DEF ReadersHold, CarriedStands
<1>2. CASE ReadHead(p)
  <2>1. PICK r : r = [s EXCEPT !.pc = "checkpoint", !.head = head]
    OBVIOUS
  <2>2. r.pc = "checkpoint" /\ r.cp = s.cp /\ r.leaves = s.leaves /\ s.pc = "head"
    BY <1>0, <1>1, <1>2, <2>1 DEF ReaderFields, ReadHead
  <2>3. HoldsChain(r)
    BY <1>1, <2>2 DEF HoldsChain, Linked, Floor, Base
  <2> QED BY <1>0, <1>2, <2>1, <2>3 DEF ReadHead, Step
<1>3. CASE ReadCheckpoint(p)
  <2>1. PICK r : r = [s EXCEPT !.pc = "list", !.cp = cp]
    OBVIOUS
  <2>2. r.pc = "list" /\ r.cp = cp /\ r.leaves = <<>>
    BY <1>0, <1>1, <1>3, <2>1 DEF ReaderFields, ReadCheckpoint, HoldsChain
  <2>3. CheckpointFits(r.cp) /\ (r.cp # None => r.cp.next \in Nat)
    BY <2>2 DEF LogInv, PruneFits, CheckpointFits, Checkpoints
  <2>4. HoldsChain(r)
    BY <2>2, <2>3 DEF HoldsChain, Linked
  <2> QED BY <1>0, <1>3, <2>1, <2>4 DEF ReadCheckpoint, Step
<1>4. CASE ListSegments(p)
  <2>1. PICK r : r = [s EXCEPT !.pc = "read", !.todo = DOMAIN segs]
    OBVIOUS
  <2>2. r.cp = s.cp /\ r.leaves = s.leaves /\ r.pc = "read"
    BY <1>1, <2>1 DEF ReaderFields
  <2>3. HoldsChain(r)
    BY <1>1, <2>2 DEF HoldsChain, Linked, Floor, Base
  <2> QED BY <1>0, <1>4, <2>1, <2>3 DEF ListSegments, Step
<1>5. CASE ReadSegment(p)
  <2>1. PICK i : i = Lower(s.todo)
    OBVIOUS
  <2>2. CASE ~(i \in DOMAIN segs /\ Fits(segs[i], s))
    <3>1. reader' = [reader EXCEPT ![p] = NoWork]
      BY <1>0, <1>5, <2>1, <2>2 DEF ReadSegment, Quit, Step
    <3> QED BY <3>1, HoldsNothing DEF NoWork
  <2>3. CASE i \in DOMAIN segs /\ Fits(segs[i], s)
    <3>1. PICK r : r = [s EXCEPT !.todo = @ \ {i}, !.leaves = IF Stale(segs[i], s) THEN @ ELSE @ \o segs[i]]
      OBVIOUS
    <3>2. /\ r.cp = s.cp /\ r.pc = s.pc /\ s.pc = "read"
          /\ r.leaves = IF Stale(segs[i], s) THEN s.leaves ELSE s.leaves \o segs[i]
      BY <1>0, <1>1, <1>5, <3>1 DEF ReaderFields, ReadSegment
    <3>3. CASE Stale(segs[i], s)
      <4>1. HoldsChain(r)
        BY <1>1, <3>2, <3>3 DEF HoldsChain, Linked, Floor, Base
      <4> QED BY <1>0, <1>5, <2>1, <2>3, <3>1, <4>1 DEF ReadSegment, Step
    <3>4. CASE ~Stale(segs[i], s)
      <4>1. PICK t : t = segs[i]
        OBVIOUS
      <4>2. t \in Seq(Records) /\ \A j \in DOMAIN t : Line(t[j])
        BY <2>3, <4>1 DEF LogInv, LogTypeOK, SegsFit
      <4>3. s.leaves \in Seq(Records) /\ \A j \in DOMAIN s.leaves : Line(s.leaves[j])
        BY <1>1 DEF HoldsChain
      <4>4. r.leaves = s.leaves \o t /\ r.leaves \in Seq(Records)
        <5>1. r.leaves = s.leaves \o t
          BY <3>2, <3>4, <4>1
        <5>2. s.leaves \o t \in Seq(Records)
          BY <4>2, <4>3
        <5> QED BY <5>1, <5>2
      <4>5. \A j \in DOMAIN r.leaves : Line(r.leaves[j])
        <5> TAKE j \in DOMAIN r.leaves
        <5>1. \/ j \in DOMAIN s.leaves /\ r.leaves[j] = s.leaves[j]
              \/ j - Len(s.leaves) \in DOMAIN t /\ r.leaves[j] = t[j - Len(s.leaves)]
          BY <4>2, <4>3, <4>4
        <5> QED BY <4>2, <4>3, <5>1
      <4>6. Linked(r.leaves, r)
        BY <2>3, <3>2, <3>4, <4>1, <4>4 DEF Fits, Linked, Floor, Base
      <4>7. HoldsChain(r)
        BY <1>1, <3>2, <4>4, <4>5, <4>6 DEF HoldsChain
      <4> QED BY <1>0, <1>5, <2>1, <2>3, <3>1, <4>7 DEF ReadSegment, Step
    <3> QED BY <3>3, <3>4
  <2> QED BY <2>2, <2>3
<1> QED BY <1>2, <1>3, <1>4, <1>5

-----------------------------------------------------------------------------
(* The ledger.                                                                 *)

\* A nonempty set of numbers has a least one.
LEMMA LeastIs ==
  ASSUME NEW S, S \subseteq Nat, S # {}
  PROVE  Lower(S) \in S /\ \A m \in S : Lower(S) <= m
<1> DEFINE Down(k) == 0..k
           T == {Down(k) : k \in S}
<1>1. T \subseteq FiniteSubsetsOf(Nat)
  <2>1. \A k \in S : IsFiniteSet(0..k) /\ 0..k \subseteq Nat
    BY FS_Interval
  <2> QED BY <2>1 DEF FiniteSubsetsOf
<1>2. PICK X \in T : \A Y \in T : <<Y, X>> \notin StrictSubsetOrdering(Nat)
  <2>1. T # {}
    OBVIOUS
  <2> HIDE DEF T
  <2>2. IsWellFoundedOn(StrictSubsetOrdering(Nat), FiniteSubsetsOf(Nat))
    BY FS_StrictSubsetOrderingWellFounded
  <2> QED BY <1>1, <2>1, <2>2, WFMin
<1>3. PICK k \in S : X = 0..k
  OBVIOUS
<1>4. \A m \in S : k <= m
  <2>1. SUFFICES ASSUME NEW m \in S, m < k PROVE FALSE
    OBVIOUS
  <2>2. m \in Nat /\ k \in Nat /\ k \in 0..k /\ k \notin 0..m
    BY <2>1
  <2>3. 0..m \in T /\ 0..m \subseteq 0..k /\ 0..m # 0..k
    <3>1. 0..m \in T
      OBVIOUS
    <3>2. 0..m \subseteq 0..k
      BY <2>1, <2>2
    <3> QED BY <2>2, <3>1, <3>2
  <2>4. <<0..m, 0..k>> \in StrictSubsetOrdering(Nat)
    BY <2>3 DEF StrictSubsetOrdering
  <2> QED BY <1>2, <1>3, <2>3, <2>4
<1> QED BY <1>4 DEF Lower

\* The records of a day that a reader holds.
LEMMA DayIs ==
  ASSUME NEW c, NEW d
  PROVE  /\ \A x \in DayOf(c, d) : \E m \in DOMAIN c : x = c[m] /\ c[m].day = d
         /\ \A m \in DOMAIN c : c[m].day = d => c[m] \in DayOf(c, d)
BY DEF DayOf, Range

\* Every line that a reader holds but the last is in the log: the one behind it was
\* sealed behind a line of the log with that hash.
LEMMA HeldIsLogged ==
  ASSUME LogInv, NEW r, HoldsChain(r), NEW m \in DOMAIN r.leaves, m + 1 \in DOMAIN r.leaves
  PROVE  InLog(r.leaves[m])
<1> DEFINE c == r.leaves
<1>1. c \in Seq(Records) /\ Line(c[m]) /\ Line(c[m + 1]) /\ c[m] \in Records /\ c[m + 1] \in Records
  BY DEF HoldsChain, Line
<1>2. m \in Nat /\ m >= 1 /\ m + 1 # 1 /\ (m + 1) - 1 = m
  BY <1>1
<1>3. c[m].seq = Floor(r) + m - 1 /\ c[m + 1].seq = Floor(r) + (m + 1) - 1 /\ c[m + 1].prev = c[m].hash
  BY <1>2 DEF HoldsChain, Linked
<1>4. Floor(r) \in Nat
  BY DEF Floor, HoldsChain, CheckpointFits, Checkpoints
<1>5. c[m + 1].seq = c[m].seq + 1 /\ c[m].seq \in Nat /\ c[m + 1].seq # 0 /\ c[m + 1].seq <= Len(log)
  BY <1>1, <1>2, <1>3, <1>4, RecordFields DEF Line
<1>6. log[c[m].seq + 1].hash = c[m].hash /\ c[m].seq + 1 \in DOMAIN log /\ c[m].seq < Len(log)
  BY <1>1, <1>3, <1>5 DEF Line, LogInv, LogTypeOK
<1> QED BY <1>1, <1>6 DEF Line, InLog

\* What the log has of the day in front of a line that a reader holds, the reader holds
\* too: in front of its checkpoint there is only what is of earlier days.
LEMMA HoldsDay ==
  ASSUME LogInv, NEW r, HoldsChain(r), NEW d, ~Partial(r, d), NEW m \in DOMAIN r.leaves,
         NEW i \in DOMAIN log, log[i].day = d, log[i].seq < r.leaves[m].seq
  PROVE  log[i] \in DayOf(r.leaves, d)
<1> DEFINE c == r.leaves
<1>0. PICK f \in Nat : f = Floor(r)
  BY DEF Floor, HoldsChain, CheckpointFits, Checkpoints
<1>1. /\ c \in Seq(Records) /\ DOMAIN c = 1..Len(c) /\ Len(c) \in Nat /\ m \in 1..Len(c)
      /\ c[m].seq = f + m - 1
  BY <1>0 DEF HoldsChain, Linked
<1>2. /\ log \in Seq(Records) /\ i \in 1..Len(log) /\ i \in Nat /\ log[i].seq = i - 1 /\ d \in Nat
  BY RecordFields DEF LogInv, LogTypeOK, LogFits
<1> HIDE DEF c
<1>3. CASE i <= f
  <2>1. r.cp # None /\ f = r.cp.next /\ f \in DOMAIN log /\ r.cp.day = log[f].day
    BY <1>0, <1>2, <1>3 DEF Floor, HoldsChain, CheckpointFits
  <2>2. log[i].day <= log[f].day
    BY <1>3, <2>1 DEF LogInv, LogFits
  <2> QED BY <2>1, <2>2 DEF Partial
<1>4. CASE i > f
  <2>1. PICK k : k = i - f
    OBVIOUS
  <2>2. k \in Nat /\ k >= 1 /\ k + 1 <= m /\ i - 1 = f + k - 1
    BY <1>1, <1>2, <1>4, <2>1 DEF c
  <2>3. k \in DOMAIN c /\ k + 1 \in DOMAIN c
    BY <1>1, <2>2
  <2>4. c[k].seq = i - 1
    BY <1>0, <2>2, <2>3 DEF c, HoldsChain, Linked
  <2>5. log[i] = c[k]
    BY <1>2, <2>3, <2>4, HeldIsLogged DEF c, InLog
  <2> QED BY <2>3, <2>5, DayIs DEF c
<1> QED BY <1>2, <1>3, <1>4

LEMMA DayIsMade ==
  ASSUME LogInv, NEW r, HoldsChain(r), NEW d, DayOf(r.leaves, d) # {}, ~Partial(r, d)
  PROVE  MakesDay(d, FirstOf(DayOf(r.leaves, d)), DayOf(r.leaves, d))
<1>b. PICK b : b = DayOf(r.leaves, d)
  OBVIOUS
<1> DEFINE c == r.leaves
           S == {x.seq : x \in b}
<1>1. c \in Seq(Records) /\ \A m \in DOMAIN c : Line(c[m]) /\ c[m] \in Records /\ c[m].seq \in Nat
  BY RecordFields DEF HoldsChain, Line
<1>2. \A x \in b : Line(x) /\ x.day = d /\ x.seq \in Nat /\ x.seq <= Len(log)
  BY <1>b, <1>1, DayIs DEF Line
<1>3. S \subseteq Nat /\ S # {}
  BY <1>b, <1>2
<1>4. PICK first : first = Lower(S)
  OBVIOUS
<1>5. first \in S /\ \A y \in S : first <= y
  <2> HIDE DEF S
  <2> QED BY <1>3, <1>4, LeastIs
<1>6. PICK z \in b : z.seq = first
  BY <1>5
<1>7. \A x \in b : first <= x.seq
  <2> TAKE x \in b
  <2>1. x.seq \in S
    OBVIOUS
  <2> HIDE DEF S
  <2> QED BY <1>5, <2>1
<1>8. first = FirstOf(b) /\ first \in Nat /\ first <= Len(log)
  BY <1>2, <1>4, <1>6 DEF FirstOf
<1>9. \A i \in DOMAIN log, y \in b : log[i].day = d /\ log[i].seq < y.seq => log[i] \in b
  <2> SUFFICES ASSUME NEW i \in DOMAIN log, NEW y \in b, log[i].day = d, log[i].seq < y.seq
               PROVE  log[i] \in b
    OBVIOUS
  <2>1. PICK m \in DOMAIN c : y = c[m]
    BY <1>b, DayIs
  <2> QED BY <1>b, <2>1, HoldsDay
<1>10. \A i \in DOMAIN log : log[i].day = d => log[i].seq >= first
  <2> SUFFICES ASSUME NEW i \in DOMAIN log, log[i].day = d, log[i].seq < first PROVE FALSE
    <3>1. \A i \in DOMAIN log : log[i].seq \in Nat
      BY RecordFields DEF LogInv, LogTypeOK
    <3> QED BY <1>8, <3>1
  <2>1. log[i] \in b /\ log[i].seq \in Nat
    BY <1>6, <1>9, RecordFields DEF LogInv, LogTypeOK
  <2> QED BY <1>7, <1>8, <2>1
<1>11. ASSUME NEW x \in b, NEW y \in b, x.seq < y.seq PROVE InLog(x)
  <2>1. PICK m \in DOMAIN c, n \in DOMAIN c : x = c[m] /\ y = c[n]
    BY <1>b, DayIs
  <2>2. /\ Floor(r) \in Nat /\ m \in 1..Len(c) /\ n \in 1..Len(c) /\ Len(c) \in Nat
        /\ c[m].seq = Floor(r) + m - 1 /\ c[n].seq = Floor(r) + n - 1
    BY <1>1, <2>1 DEF Floor, HoldsChain, CheckpointFits, Checkpoints, Linked
  <2>3. m + 1 \in 1..Len(c)
    BY <1>11, <2>1, <2>2
  <2>4. m + 1 \in DOMAIN c
    BY <1>1, <2>3
  <2> QED BY <2>1, <2>4, HeldIsLogged
<1> QED BY <1>b, <1>2, <1>8, <1>9, <1>10, <1>11 DEF MakesDay

\* Where a batch is partial, the day is the one the prune ended in.
LEMMA PartialIsLost ==
  ASSUME LogInv, NEW r, HoldsChain(r), NEW d, DayOf(r.leaves, d) # {}, Partial(r, d)
  PROVE  Lost(d)
<1>1. PICK m \in DOMAIN r.leaves : r.leaves[m].day = d
  BY DayIs
<1>x. PICK x : x = r.leaves[m]
  OBVIOUS
<1>2. Line(x) /\ x \in Records /\ x.day = d /\ x.seq \in Nat /\ d \in Nat
  BY <1>1, <1>x, RecordFields DEF HoldsChain, Line
<1>3. /\ r.cp # None /\ r.cp.day >= d /\ r.cp.next \in DOMAIN log /\ r.cp.day = log[r.cp.next].day
      /\ r.cp.next \in Nat /\ cp # None /\ r.cp.next <= cp.next /\ cp.next \in Nat
  BY DEF Partial, HoldsChain, CheckpointFits, Checkpoints, LogInv, PruneFits
<1>4. x.seq >= r.cp.next
  <2>1. m \in Nat /\ m >= 1
    BY <1>1 DEF HoldsChain
  <2>2. x.seq = r.cp.next + m - 1
    BY <1>1, <1>x, <1>3 DEF HoldsChain, Linked, Floor
  <2> QED BY <1>3, <2>1, <2>2
<1>5. /\ log \in Seq(Records) /\ r.cp.next >= 1 /\ x.seq <= Len(log) /\ x.seq \in DOMAIN log
      /\ log[r.cp.next] \in Records /\ log[x.seq] \in Records
  BY <1>2, <1>3, <1>4 DEF LogInv, LogTypeOK, Line
<1>6. log[x.seq].day <= d /\ log[r.cp.next].day <= log[x.seq].day
  BY <1>2, <1>3, <1>4, <1>5 DEF LogInv, LogFits, Line
<1>7. log[r.cp.next].day = d
  BY <1>2, <1>3, <1>5, <1>6, RecordFields
<1>8. log[r.cp.next].seq = r.cp.next - 1
  BY <1>3 DEF LogInv, LogFits
<1> QED BY <1>3, <1>7, <1>8 DEF Lost

LEMMA SettledFitsFields ==
  ASSUME NEW d, NEW e, NEW f, SettledFits(d, e), f.status = e.status, f.first = e.first, f.batch = e.batch
  PROVE  SettledFits(d, f)
BY DEF SettledFits

\* A settled day fits on as long as its entry stands.
LEMMA SettledStay ==
  ASSUME LogInv, LogInv', Onward, NoEarlier, Grows,
         NEW d \in DOMAIN ledger, SettledFits(d, ledger[d])
  PROVE  SettledFits(d, ledger[d])'
<1>1. PICK e : e = ledger[d]
  OBVIOUS
<1>2. PICK f : f = ledger'[d]
  OBVIOUS
<1>3. f.status = e.status /\ f.first = e.first /\ f.batch = e.batch
  BY <1>1, <1>2 DEF Grows
<1>4. SettledFits(d, f)
  BY <1>1, <1>3, SettledFitsFields
<1>5. SettledFits(d, f)'
  BY <1>4, SettledFitsOn DEF LogInv, PruneFits
<1> QED BY <1>2, <1>5

\* An entry for a day that had none.
LEMMA InsertFits ==
  ASSUME LogInv, LogInv', Onward, NoEarlier, EntriesAreWhole, \A d \in DOMAIN ledger : SettledFits(d, ledger[d]),
         NEW day, NEW e, EntryFields \subseteq DOMAIN e, Insert(day, e), SettledFits(day, e)
  PROVE  \A d \in DOMAIN ledger' : SettledFits(d, ledger[d])'
<1>1. Grows /\ ledger'[day] = e
  BY InsertGrows
<1>2. DOMAIN ledger' = DOMAIN ledger \cup {day}
  BY DEF Insert
<1> TAKE d \in DOMAIN ledger'
<1>3. CASE d = day
  <2>1. SettledFits(day, e)'
    BY SettledFitsOn DEF LogInv, PruneFits
  <2> QED BY <1>1, <1>3, <2>1
<1>4. CASE d \in DOMAIN ledger
  BY <1>1, <1>4, SettledStay
<1> QED BY <1>2, <1>3, <1>4

\* Where the ledger has no new day, it fits on.
LEMMA NoInsertFits ==
  ASSUME LogInv, LogInv', Onward, NoEarlier, Grows, \A d \in DOMAIN ledger : SettledFits(d, ledger[d]),
         DOMAIN ledger' \subseteq DOMAIN ledger
  PROVE  \A d \in DOMAIN ledger' : SettledFits(d, ledger[d])'
BY SettledStay

LEMMA EntryFits ==
  ASSUME LogInv, NEW r, HoldsChain(r), NEW d, DayOf(r.leaves, d) # {}
  PROVE  /\ ~Partial(r, d) => SettledFits(d, Entry("batched", DayOf(r.leaves, d), DayOf(r.leaves, d)))
         /\ Partial(r, d) => SettledFits(d, Entry("incomplete", DayOf(r.leaves, d), None))
<1> DEFINE b == DayOf(r.leaves, d)
<1>1. ASSUME ~Partial(r, d) PROVE SettledFits(d, Entry("batched", b, b))
  <2>1. MakesDay(d, FirstOf(b), b)
    BY <1>1, DayIsMade
  <2> HIDE DEF b
  <2> QED BY <2>1 DEF SettledFits, Entry
<1>2. ASSUME Partial(r, d) PROVE SettledFits(d, Entry("incomplete", b, None))
  <2>1. Lost(d)
    BY <1>2, PartialIsLost
  <2> HIDE DEF b
  <2> QED BY <2>1 DEF SettledFits, Entry
<1> QED BY <1>1, <1>2

LEMMA SettleFits ==
  ASSUME LogInv, LogInv', Onward, NoEarlier, LedgerInv, \A q \in Readers : HoldsChain(reader[q]),
         \A d \in DOMAIN ledger : SettledFits(d, ledger[d]), NEW p \in Readers, Settle(p)
  PROVE  \A d \in DOMAIN ledger' : SettledFits(d, ledger[d])'
<1>r. PICK r : r = reader[p]
  OBVIOUS
<1>d. PICK d : d = r.plan
  OBVIOUS
<1>b. PICK b : b = DayOf(r.leaves, d)
  OBVIOUS
<1>0. HoldsChain(r) /\ EntriesAreWhole
  BY <1>r DEF LedgerInv
<1>1. \/ UNCHANGED ledger
      \/ b # {} /\ Partial(r, d) /\ Insert(d, Entry("incomplete", b, None))
      \/ b # {} /\ ~Partial(r, d) /\ Insert(d, Entry("batched", b, b))
  BY <1>r, <1>d, <1>b, Zenon DEF Settle, RecordIncomplete, RecordBatched
<1>2. CASE UNCHANGED ledger
  <2>1. Grows /\ DOMAIN ledger' \subseteq DOMAIN ledger
    BY <1>2, UnchangedGrows
  <2> QED BY <2>1, NoInsertFits
<1>3. ASSUME NEW status, NEW batch, Insert(d, Entry(status, b, batch)), SettledFits(d, Entry(status, b, batch))
      PROVE  \A c \in DOMAIN ledger' : SettledFits(c, ledger[c])'
  <2>1. PICK e : e = Entry(status, b, batch)
    OBVIOUS
  <2>2. EntryFields \subseteq DOMAIN e
    BY <2>1, EntryIsWhole
  <2> QED BY <1>0, <1>3, <2>1, <2>2, InsertFits
<1> QED BY <1>0, <1>b, <1>1, <1>2, <1>3, EntryFits

-----------------------------------------------------------------------------
LEMMA AnchorInit == Init => AnchorInv
<1> SUFFICES ASSUME Init PROVE AnchorInv
  OBVIOUS
<1>1. /\ clock = 0 /\ log = <<>> /\ writer = NoAppend /\ stamped = 0 /\ faults = 0 /\ cp = None
      /\ segs = [i \in {1} |-> <<>>] /\ DOMAIN segs = {1} /\ segs[1] = <<>> /\ writer.pc = "idle"
      /\ DOMAIN ledger = {} /\ \A p \in Readers : reader[p] = NoWork
  BY DEF Init, NoAppend
<1>2. LogTypeOK
  <2>1. segs \in [1..1 -> Seq(Records)]
    BY <1>1
  <2> QED BY <1>1, <2>1 DEF LogTypeOK
<1>3. LogFits /\ WriterFits
  BY <1>1 DEF LogFits, WriterFits
<1>4. SegsFit
  <2>1. Newest = 1
    BY <1>1 DEF Newest, Upper
  <2> QED BY <1>1, <2>1 DEF SegsFit
<1>5. PruneFits
  BY <1>1 DEF PruneFits, CheckpointFits
<1>6. \A p \in Readers : HoldsChain(reader[p])
  BY <1>1, HoldsNothing DEF NoWork
<1> QED BY <1>1, <1>2, <1>3, <1>4, <1>5, <1>6 DEF AnchorInv, LogInv

LEMMA AnchorStep == AnchorInv /\ LedgerInv /\ [Next]_vars => AnchorInv'
<1> SUFFICES ASSUME AnchorInv, LedgerInv, [Next]_vars PROVE AnchorInv'
  OBVIOUS
<1>0. /\ LogInv /\ ReadersHold /\ EntriesAreWhole
      /\ \A q \in Readers : HoldsChain(reader[q])
      /\ \A d \in DOMAIN ledger : SettledFits(d, ledger[d])
      /\ LedgerInv' /\ Grows
  BY LedgerStep DEF AnchorInv, LedgerInv
<1>1. CASE Midnight \/ Writer
  <2>1. UNCHANGED <<ledger, reader>>
    BY <1>1 DEF Midnight, Writer, Stamp, Rotate, WriteCheckpoint, DropOldest, WriteLine, RollBack,
                WriteHead, Reopen, ledgerVars
  <2>2. LogInv' /\ Onward /\ NoEarlier
    BY <1>0, <1>1, WriterStep
  <2>3. \A q \in Readers : HoldsChain(reader[q])'
    <3> TAKE q \in Readers
    <3>1. PICK x : x = reader[q]
      OBVIOUS
    <3>2. HoldsChain(x)'
      BY <1>0, <2>2, <3>1, HoldsChainOn DEF LogInv, PruneFits
    <3> QED BY <2>1, <3>1, <3>2
  <2>4. \A d \in DOMAIN ledger' : SettledFits(d, ledger[d])'
    BY <1>0, <2>1, <2>2, NoInsertFits
  <2> QED BY <2>2, <2>3, <2>4 DEF AnchorInv
<1>l. ASSUME UNCHANGED logVars PROVE LogInv' /\ Onward /\ NoEarlier
  BY <1>0, <1>l, LogSame DEF logVars, LogInv, LogTypeOK
<1>n. ASSUME UNCHANGED logVars, DOMAIN ledger' \subseteq DOMAIN ledger
      PROVE  \A d \in DOMAIN ledger' : SettledFits(d, ledger[d])'
  BY <1>0, <1>l, <1>n, NoInsertFits
<1>m. ASSUME UNCHANGED logVars, NEW p \in Readers, NEW r, HoldsChain(r), reader' = [reader EXCEPT ![p] = r]
      PROVE  \A q \in Readers : HoldsChain(reader[q])'
  BY <1>0, <1>m, ReaderMoves
<1>2. ASSUME NEW p \in Readers, (\E d \in Days : Plan(p, d)) \/ Prove(p) PROVE AnchorInv'
  <2>1. PICK r : HoldsChain(r) /\ reader' = [reader EXCEPT ![p] = r]
    BY <1>2, HoldsNothing DEF Plan, Prove, Begin
  <2>2. UNCHANGED logVars /\ UNCHANGED ledger
    BY <1>2 DEF Plan, Prove, Begin, ledgerVars
  <2> QED BY <1>l, <1>n, <1>m, <2>1, <2>2 DEF AnchorInv
<1>3. ASSUME NEW p \in Readers, ReadHead(p) \/ ReadCheckpoint(p) \/ ListSegments(p) \/ ReadSegment(p)
      PROVE  AnchorInv'
  <2>1. PICK r : HoldsChain(r) /\ reader' = [reader EXCEPT ![p] = r]
    BY <1>0, <1>3, ReadsChain
  <2>2. UNCHANGED logVars /\ UNCHANGED ledger
    BY <1>3 DEF ReadHead, ReadCheckpoint, ListSegments, ReadSegment, Step, Quit, ledgerVars
  <2> QED BY <1>l, <1>n, <1>m, <2>1, <2>2 DEF AnchorInv
<1>4. ASSUME NEW p \in Readers, Settle(p) \/ \E d \in Days : HandProof(p, d) PROVE AnchorInv'
  <2>1. UNCHANGED logVars /\ reader' = [reader EXCEPT ![p] = NoWork]
    BY <1>4 DEF Settle, HandProof, Quit, Step
  <2>2. LogInv' /\ \A q \in Readers : HoldsChain(reader[q])'
    BY <1>l, <1>m, <2>1, HoldsNothing DEF NoWork
  <2>3. CASE Settle(p)
    <3>1. \A c \in DOMAIN ledger' : SettledFits(c, ledger[c])'
      BY <1>0, <1>l, <2>1, <2>3, SettleFits
    <3> QED BY <2>2, <3>1 DEF AnchorInv
  <2>4. CASE \E d \in Days : HandProof(p, d)
    <3>1. DOMAIN ledger' \subseteq DOMAIN ledger
      BY <2>4 DEF HandProof
    <3> QED BY <1>n, <2>1, <2>2, <3>1 DEF AnchorInv
  <2> QED BY <1>4, <2>3, <2>4
<1>5. ASSUME NEW c \in ready, NEW tx \in Txs, Confirm(c, tx) PROVE AnchorInv'
  <2>1. UNCHANGED <<logVars, reader>> /\ DOMAIN ledger' \subseteq DOMAIN ledger
    BY <1>5 DEF Confirm
  <2>2. \A q \in Readers : HoldsChain(reader[q])'
    <3> TAKE q \in Readers
    <3>1. PICK x : x = reader[q]
      OBVIOUS
    <3>2. HoldsChain(x)'
      BY <1>0, <1>l, <2>1, <3>1, HoldsChainOn DEF LogInv, PruneFits
    <3> QED BY <2>1, <3>1, <3>2
  <2> QED BY <1>l, <1>n, <2>1, <2>2 DEF AnchorInv
<1>6. CASE UNCHANGED vars
  <2>1. UNCHANGED <<logVars, reader, ledger>>
    BY <1>6 DEF vars, ledgerVars
  <2>2. \A q \in Readers : HoldsChain(reader[q])'
    <3> TAKE q \in Readers
    <3>1. PICK x : x = reader[q]
      OBVIOUS
    <3>2. HoldsChain(x)'
      BY <1>0, <1>l, <2>1, <3>1, HoldsChainOn DEF LogInv, PruneFits
    <3> QED BY <2>1, <3>1, <3>2
  <2> QED BY <1>l, <1>n, <2>1, <2>2 DEF AnchorInv
<1> QED BY <1>1, <1>2, <1>3, <1>4, <1>5, <1>6 DEF Next, Reads

\* At all times the log is one chain and the files hold it but for what was pruned; every
\* reader holds a chain of lines sealed behind lines of the log, whatever moments its
\* files are of; every batch is of the log, and every day given up lost records.
THEOREM AnchorInvariant == Spec => []AnchorInv
<1>1. AnchorInv /\ LedgerInv /\ [Next]_vars => AnchorInv'
  BY AnchorStep
<1> QED BY AnchorInit, <1>1, LedgerInvariant, PTL DEF Spec

LEMMA AnchorInvSuffices == AnchorInv => BatchStartsItsDay /\ LossIsReal
<1> SUFFICES ASSUME AnchorInv PROVE BatchStartsItsDay /\ LossIsReal
  OBVIOUS
<1>1. ASSUME NEW d \in Days, Batched(d)
      PROVE  /\ \A i \in DOMAIN log : log[i].day = d => log[i].seq >= ledger[d].first
             /\ faults = 0 => \A r \in ledger[d].batch : r.seq < Len(log) => log[r.seq + 1] = r
  <2>1. MakesDay(d, ledger[d].first, ledger[d].batch)
    BY <1>1 DEF AnchorInv, SettledFits, Batched, Settled
  <2>2. ASSUME faults = 0, NEW r \in ledger[d].batch, r.seq < Len(log) PROVE log[r.seq + 1] = r
    <3>1. Line(r) /\ Len(log) \in Nat
      BY <2>1 DEF MakesDay, AnchorInv, LogInv, LogTypeOK
    <3>2. CASE InLog(r)
      BY <3>2 DEF InLog
    <3>3. CASE writer.pc = "written" /\ writer.rec = r
      BY <2>2, <3>1, <3>3 DEF AnchorInv, LogInv, WriterFits
    <3> QED BY <2>2, <3>1, <3>2, <3>3 DEF Line
  <2> QED BY <2>1, <2>2 DEF MakesDay
<1>2. LossIsReal
  BY DEF AnchorInv, SettledFits, Lost, LossIsReal
<1> QED BY <1>1, <1>2 DEF BatchStartsItsDay

\* plan_day batches no part of a day: whatever the writer prunes, takes back or appends
\* while the files are read, a batch misses nothing at the front of its day, and its
\* leaves are the log's as long as no append failed.
THEOREM BatchStartsItsDayHolds == Spec => []BatchStartsItsDay
BY AnchorInvariant, AnchorInvSuffices, PTL

\* A day that record_incomplete gives up did lose records to a prune.
THEOREM LossIsRealHolds == Spec => []LossIsReal
BY AnchorInvariant, AnchorInvSuffices, PTL

\* Also when appends fail (BatchIsLogged does not hold then): of a batch only the last
\* record may be missing in the log, and the batch leaves out no record of the day
\* that is in front of that one.
BatchIsLoggedButForItsLast ==
  \A d \in Days : Batched(d) =>
    /\ \A x, y \in ledger[d].batch : x.seq < y.seq => x.seq < Len(log) /\ log[x.seq + 1] = x
    /\ \A i \in DOMAIN log, y \in ledger[d].batch :
         log[i].day = d /\ log[i].seq < y.seq => log[i] \in ledger[d].batch

THEOREM BatchIsLoggedButForItsLastHolds == Spec => []BatchIsLoggedButForItsLast
<1>1. AnchorInv => BatchIsLoggedButForItsLast
  BY DEF AnchorInv, SettledFits, MakesDay, InLog, Batched, Settled, BatchIsLoggedButForItsLast
<1> QED BY <1>1, AnchorInvariant, PTL
=============================================================================
