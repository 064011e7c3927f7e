------------------------ MODULE CheckpointStore_proofs ------------------------
(***************************************************************************)
(* The checkpoint store for any sessions, paths, contents, sizes and number *)
(* of steps, crashes, failing writes and edits: type correctness and the    *)
(* properties of its two runs.                                              *)
(*                                                                         *)
(* The invariant is built in layers, each on the ones before it:            *)
(*   Placed      what the operation that holds the mutex knows, and that a   *)
(*               step in flight is on record with its snapshots;             *)
(*   Exclusive   while no write failed, a path is busy exactly while one     *)
(*               step in flight has it, and memory and disk agree;           *)
(*   Contiguous  then, too, a session's steps have no gap;                   *)
(*   Restoring   and an undo under way only meets what its steps recorded;   *)
(*   Chained     for one session undone as a whole, the steps not undone     *)
(*               lead from what is in the folder to what was there first.    *)
(***************************************************************************)
EXTENDS CheckpointStore, FiniteSetTheorems, WellFoundedInduction, TLAPS

\* Where begin_step is before its step is on record.
Opening == {"fit", "evicted", "install", "manifest"}

\* The key of the step an operation is about.
Key == <<op.session, op.seq>>

\* The records of steps whose intended state is about their own paths.
Records == {r \in [status : Statuses, before : States, post : States] :
              r.post \in [Touched(r) -> Held]}
Entries == Records \cup {NoStep}

\* The operations, whatever number of bytes they need.
Ops(bytes) ==
  [at : {"idle", "fit", "evicted", "install", "manifest", "begun", "finished", "restore"},
   session : Sessions \cup {None}, seq : 0..MaxSteps, rec : Entries, needed : {bytes},
   victim : Sessions \cup {None}, todo : SUBSET (1..MaxSteps), left : SUBSET Paths]

\* TypeOK as a membership, with the counts the bounds are about.
Metas == [used : 0..tick, last : 0..MaxSteps, pruned : 0..MaxSteps]

Typed ==
  /\ file \in [Paths -> Held]
  /\ steps \in [Keys -> Entries] /\ disk \in [Keys -> Entries]
  /\ tick \in Nat /\ meta \in [Sessions -> Metas] /\ diskMeta \in [Sessions -> Metas]
  /\ blobs \subseteq Contents /\ diskBlobs \subseteq Contents /\ busy \subseteq Paths
  /\ op \in Ops(op.needed)
  /\ tool \in [Keys -> {"none", "working", "acted", "dropping"}]
  /\ errors \in 0..MaxErrors /\ edits \in 0..MaxEdits

\* The kinds of change a step in flight may make.
Shaped(r) ==
  \/ \E q \in Paths : Touched(r) = {q}
  \/ \E a, b \in Paths : /\ a # b /\ Touched(r) = {a, b} /\ r.before[a] # Absent
                         /\ r.post[a] = Absent /\ r.post[b] = r.before[a]

OpPlaced ==
  /\ op.at = "idle" => op = Idle
  /\ op.at # "idle" => op.session \in Sessions
  /\ op.at \in Opening =>
       /\ op.rec \in Records /\ op.rec.status = "Prepared" /\ Shaped(op.rec)
       /\ Free(op.rec) /\ meta[op.session].last < MaxSteps
  /\ op.at = "evicted" => op.victim \in Sessions
  /\ op.at = "manifest" => BlobsOf(op.rec) \subseteq diskBlobs
  /\ op.at = "begun" =>
       /\ Key \in Keys /\ steps[Key].status = "Prepared" /\ disk[Key] = steps[Key]
       /\ Shaped(steps[Key]) /\ tool[Key] = "none"
       /\ BlobsOf(steps[Key]) \subseteq diskBlobs
  /\ op.at = "restore" =>
       /\ \A n \in op.todo : steps[<<op.session, n>>].status \in {"Committed", "Interrupted"}
       /\ op.left \subseteq NextPaths(op.session, op.todo)

StepPlaced(k) ==
  /\ Live(k) => steps[k].status = "Prepared"
  /\ tool[k] \in {"working", "acted"} =>
       disk[k] = steps[k] /\ Shaped(steps[k]) /\ BlobsOf(steps[k]) \subseteq diskBlobs
  /\ steps[k].status # "none" \/ disk[k].status # "none" => k[2] <= meta[k[1]].last

Placed ==
  /\ Typed /\ OpPlaced
  /\ \A k \in Keys : StepPlaced(k)
  /\ \A s \in Sessions : diskMeta[s].last <= meta[s].last

\* Who has the paths of a step: its handle, or begin_step on its way to the tool.
InFlight(k) == Live(k) \/ (op.at = "begun" /\ k = Key)

Apart ==
  /\ disk = steps
  /\ Referenced(steps) \subseteq diskBlobs
  /\ \A k \in Keys : InFlight(k) <=> steps[k].status = "Prepared"
  /\ \A k \in Keys : InFlight(k) => Touched(steps[k]) \subseteq busy
  /\ \A j, k \in Keys : InFlight(j) /\ InFlight(k) /\ j # k
       => Touched(steps[j]) \cap Touched(steps[k]) = {}
  /\ \A p \in busy : \E k \in Keys : InFlight(k) /\ p \in Touched(steps[k])
  /\ op.at = "restore" => \A n \in op.todo : Free(steps[<<op.session, n>>])

Exclusive == errors = 0 => Apart

\* The steps of session s that are on record are those from n on.
From(s, n) ==
  /\ Seqs(steps, s) = n..meta[s].last
  /\ crashes = 0 => n = meta[s].pruned + 1

Gapless(s) ==
  /\ \E n \in (meta[s].pruned + 1)..(meta[s].last + 1) : From(s, n)
  /\ diskMeta[s].pruned <= diskMeta[s].last /\ diskMeta[s].pruned <= meta[s].pruned

Contiguous == crashes \in Nat /\ (errors = 0 => \A s \in Sessions : Gapless(s))

\* What is still to undo fits, and the paths done so far hold what their step found.
Restorable ==
  /\ NoConflict(op.session, op.todo)
  /\ op.todo # {} => \A p \in Touched(steps[Undoing]) \ op.left : file[p] = Before(p)

Restoring == errors = 0 /\ edits = 0 /\ op.at = "restore" => Restorable

\* For one session s, and no single step undone.
OnlySession(s) == Sessions = {s} /\ ~StepUndo

\* The steps not undone, and of all steps, that touch p.
OpenOn(s, p) == {n \in NotUndone(s) : p \in Touched(steps[<<s, n>>])}
AllOn(s, p)  == {n \in Seqs(steps, s) : p \in Touched(steps[<<s, n>>])}

\* What p holds when all that is not undone has been undone, and what its first
\* step found.
UndoneValue(s, p) ==
  IF OpenOn(s, p) = {} THEN file[p] ELSE steps[<<s, Lowest(OpenOn(s, p))>>].before[p]
FirstFound(s, p) == steps[<<s, Lowest(AllOn(s, p))>>].before[p]

\* A step in flight left its paths as it found or as it made them, and is the last
\* on them.
Holding(s) ==
  \A k \in Keys : steps[k].status = "Prepared" => \A p \in Touched(steps[k]) :
    /\ file[p] = IF tool[k] = "acted" THEN steps[k].post[p] ELSE steps[k].before[p]
    /\ \A n \in Seqs(steps, s) : p \in Touched(steps[<<s, n>>]) => n <= k[2]

\* Nothing on the paths of a step being begun has changed since they were read.
Captured == op.at \in Opening => \A p \in Touched(op.rec) : op.rec.before[p] = file[p]

\* While no step was pruned, undoing what is left leads to what was there first.
LeadsBack(s) ==
  1 \in Seqs(steps, s) =>
    \A p \in Paths : AllOn(s, p) # {} => UndoneValue(s, p) = FirstFound(s, p)

Chain(s) ==
  /\ NoConflict(s, NotUndone(s))
  /\ Holding(s)
  /\ Captured
  /\ op.at = "restore" => op.session = s /\ op.todo = NotUndone(s)
  /\ LeadsBack(s)

Chained == \A s \in Sessions : OnlySession(s) /\ errors = 0 /\ edits = 0 => Chain(s)

StoreInv == Placed /\ Exclusive /\ Contiguous /\ Restoring /\ Chained

-----------------------------------------------------------------------------
(* Sets of numbers, and the entries of the store *)

\* A nonempty set of numbers has a least one, and a greatest if it is bounded.
LEMMA LowestIs ==
  ASSUME NEW S, S \subseteq Nat, S # {}
  PROVE  /\ Lowest(S) \in S
         /\ \A m \in S : Lowest(S) <= m
<1> DEFINE Down(n) == 0..n
           T == {Down(n) : n \in S}
<1>1. T \subseteq FiniteSubsetsOf(Nat)
  <2>1. \A n \in S : IsFiniteSet(0..n) /\ 0..n \subseteq Nat
    BY FS_Interval
  <2> QED BY <2>1 DEF FiniteSubsetsOf
<1>2. PICK X \in T : \A Y \in T : <<Y, X>> \notin StrictSubsetOrdering(Nat)
  <2>1. T # {}
    OBVIOUS
  <2> HIDE DEF T
  <2>2. IsWellFoundedOn(StrictSubsetOrdering(Nat), FiniteSubsetsOf(Nat))
    BY FS_StrictSubsetOrderingWellFounded
  <2> QED BY <1>1, <2>1, <2>2, WFMin
<1>3. PICK n \in S : X = 0..n
  OBVIOUS
<1>4. \A m \in S : n <= m
  <2>1. SUFFICES ASSUME NEW m \in S, m < n PROVE FALSE
    OBVIOUS
  <2>2. 0..m \in T /\ 0..m \subseteq 0..n /\ 0..m # 0..n
    <3>1. m \in Nat /\ n \in Nat /\ n \in 0..n /\ n \notin 0..m
      BY <2>1
    <3>2. 0..m \in T
      OBVIOUS
    <3>3. 0..m \subseteq 0..n
      BY <2>1, <3>1
    <3> QED BY <3>1, <3>2, <3>3
  <2>3. <<0..m, 0..n>> \in StrictSubsetOrdering(Nat)
    BY <2>2 DEF StrictSubsetOrdering
  <2> QED BY <1>2, <1>3, <2>2, <2>3
<1> QED BY <1>4 DEF Lowest

\* A number above them does not change which is the least.
LEMMA LowestBelow ==
  ASSUME NEW S, S \subseteq Nat, NEW t \in Nat, \A m \in S : m < t
  PROVE  Lowest(S \cup {t}) = IF S = {} THEN t ELSE Lowest(S)
<1> DEFINE T == S \cup {t}
<1>1. T \subseteq Nat /\ T # {} /\ t \in T /\ \A m \in T : m \in S \/ m = t
  OBVIOUS
<1>2. S \subseteq T
  OBVIOUS
<1> HIDE DEF T
<1>3. Lowest(T) \in T /\ Lowest(T) \in Nat /\ \A m \in T : Lowest(T) <= m
  BY <1>1, LowestIs
<1>4. CASE S = {}
  BY <1>1, <1>3, <1>4 DEF T
<1>5. CASE S # {}
  <2>1. Lowest(S) \in S /\ Lowest(S) \in Nat /\ Lowest(S) < t /\ \A m \in S : Lowest(S) <= m
    BY <1>5, LowestIs
  <2>2. Lowest(T) <= Lowest(S)
    BY <1>2, <1>3, <2>1
  <2>3. Lowest(S) <= Lowest(T)
    BY <1>1, <1>3, <2>1
  <2>4. Lowest(T) = Lowest(S)
    BY <1>3, <2>1, <2>2, <2>3
  <2> QED BY <1>5, <2>4 DEF T
<1> QED BY <1>4, <1>5

LEMMA HighestIs ==
  ASSUME NEW S, S \subseteq Nat, S # {}, NEW b \in Nat, \A m \in S : m <= b
  PROVE  /\ Highest(S) \in S
         /\ \A m \in S : m <= Highest(S)
<1> DEFINE U == {n \in Nat : \A m \in S : m <= n}
           h == Lowest(U)
<1>1. U \subseteq Nat /\ b \in U
  OBVIOUS
<1>2. h \in U /\ \A n \in U : h <= n
  <2> HIDE DEF U
  <2> QED BY <1>1, LowestIs
<1>3. h \in Nat /\ \A m \in S : m <= h
  BY <1>2
<1>4. h \in S
  <2>1. SUFFICES ASSUME h \notin S PROVE FALSE
    OBVIOUS
  <2> HIDE DEF h
  <2>2. h # 0
    <3>1. PICK m \in S : TRUE
      OBVIOUS
    <3>2. m <= h /\ m # h /\ m \in Nat
      BY <1>3, <2>1
    <3> QED BY <1>3, <3>2
  <2>3. h - 1 \in Nat /\ \A m \in S : m <= h - 1
    BY <1>3, <2>1, <2>2
  <2>4. h - 1 \in U
    BY <2>3
  <2> QED BY <1>2, <1>3, <2>4
<1> HIDE DEF h
<1> QED BY <1>3, <1>4 DEF Highest

\* What an entry is made of.
LEMMA EntryIs ==
  ASSUME NEW r \in Entries
  PROVE  /\ r.status \in Statuses \cup {"none"}
         /\ (r.status = "none") <=> (r = NoStep)
         /\ r # NoStep => r \in Records
         /\ Touched(r) \subseteq Paths
         /\ r.before \in [Touched(r) -> Held] /\ r.post \in [Touched(r) -> Held]
         /\ r.before \in States
         /\ BlobsOf(r) \subseteq Contents
<1>1. Touched(r) \subseteq Paths /\ r.before \in [Touched(r) -> Held] /\ r.before \in States
  <2>1. CASE r = NoStep
    <3>1. r.before = [p \in {} |-> Absent] /\ {} \in SUBSET Paths
      BY <2>1 DEF NoStep
    <3>2. r.before \in [{} -> Held]
      BY <3>1
    <3> QED BY <3>1, <3>2 DEF States, Touched
  <2>2. CASE r \in Records
    <3>1. PICK P \in SUBSET Paths : r.before \in [P -> Held]
      BY <2>2 DEF Records, States
    <3> QED BY <2>2, <3>1 DEF Touched, Records
  <2> QED BY <2>1, <2>2 DEF Entries
<1>2. r.post \in [Touched(r) -> Held]
  <2>1. CASE r = NoStep
    BY <2>1 DEF NoStep, Touched
  <2>2. CASE r \in Records
    BY <2>2 DEF Records
  <2> QED BY <2>1, <2>2 DEF Entries
<1>3. BlobsOf(r) \subseteq Contents
  BY <1>1 DEF BlobsOf, Held
<1>4. /\ r.status \in Statuses \cup {"none"}
      /\ (r.status = "none") <=> (r = NoStep)
      /\ r # NoStep => r \in Records
  BY DEF Entries, Records, NoStep, Statuses
<1> QED BY <1>1, <1>2, <1>3, <1>4

\* The entry of a step that is not on record.
LEMMA NoStepIs ==
  /\ NoStep \in Entries /\ NoStep \notin Records /\ NoStep.status = "none"
  /\ Touched(NoStep) = {} /\ BlobsOf(NoStep) = {}
BY DEF NoStep, Entries, Records, Touched, BlobsOf, Statuses

\* A record with another status, and with what its paths hold now.
LEMMA StatusIs ==
  ASSUME NEW r \in Records, NEW st \in Statuses
  PROVE  LET q == [r EXCEPT !.status = st]
         IN  /\ q \in Records /\ q.status = st /\ q.before = r.before /\ q.post = r.post
             /\ Touched(q) = Touched(r) /\ BlobsOf(q) = BlobsOf(r)
BY DEF Records, Touched, BlobsOf

LEMMA CommittedIs ==
  ASSUME NEW r \in Records, file \in [Paths -> Held]
  PROVE  LET q == Committed(r)
         IN  /\ q \in Records /\ q.status = "Committed" /\ q.before = r.before
             /\ q.post = [p \in Touched(r) |-> file[p]]
             /\ Touched(q) = Touched(r) /\ BlobsOf(q) = BlobsOf(r)
<1>1. Touched(r) \subseteq Paths
  BY EntryIs DEF Entries
<1>2. Observed(r) \in [Touched(r) -> Held] /\ Touched(r) \in SUBSET Paths
  BY <1>1 DEF Observed
<1>3. Observed(r) \in States
  BY <1>2 DEF States
<1> HIDE DEF Observed
<1>4. Committed(r) = [status |-> "Committed", before |-> r.before, post |-> Observed(r)]
  BY DEF Committed
<1>5. Committed(r) \in Records
  BY <1>2, <1>3, <1>4 DEF Records, Touched, Statuses
<1> QED BY <1>4, <1>5 DEF Observed, Touched, BlobsOf

LEMMA BoundsAre == MaxSteps \in Nat /\ MaxErrors \in Nat /\ MaxEdits \in Nat
BY BoundsAssumption

LEMMA IdleIs == Idle \in Ops(Idle.needed) /\ Idle.at = "idle"
BY NoStepIs, BoundsAre DEF Idle, Ops

\* What the tools capture: the state of the paths, and one of their changes.
LEMMA CaptureIs ==
  ASSUME file \in [Paths -> Held], NEW change \in Changes
  PROVE  LET r == Capture(change)
         IN  /\ r \in Records /\ r.status = "Prepared" /\ Shaped(r)
             /\ \A p \in Touched(r) : r.before[p] = file[p]
<1> DEFINE r == Capture(change)
<1>1. \/ change \in Writes \/ change \in Deletes \/ change \in Renames
  BY KindsAssumption DEF Changes
<1>2. \/ \E q \in Paths, c \in Held : change = [p \in {q} |-> c]
      \/ \E a, b \in Paths : /\ a # b /\ file[a] # Absent
                             /\ change = [p \in {a, b} |-> IF p = a THEN Absent ELSE file[a]]
  <2>1. CASE change \in Writes
    BY <2>1 DEF Writes, Held
  <2>2. CASE change \in Deletes
    BY <2>2 DEF Deletes, Held
  <2>3. CASE change \in Renames
    BY <2>3 DEF Renames
  <2> QED BY <1>1, <2>1, <2>2, <2>3
<1>3. /\ DOMAIN change \in SUBSET Paths /\ change \in [DOMAIN change -> Held]
  BY <1>2 DEF Held
<1>4. r = [status |-> "Prepared", before |-> [p \in DOMAIN change |-> file[p]], post |-> change]
  BY DEF Capture
<1>5. Touched(r) = DOMAIN change /\ r.status = "Prepared" /\ r.post = change
      /\ \A p \in Touched(r) : r.before[p] = file[p]
  BY DEF Capture, Touched
<1>6. r \in Records
  <2>1. change \in States
    BY <1>3 DEF States
  <2>2. [p \in DOMAIN change |-> file[p]] \in [DOMAIN change -> Held]
    BY <1>3
  <2>3. [p \in DOMAIN change |-> file[p]] \in States
    BY <1>3, <2>2 DEF States
  <2> QED BY <1>3, <1>4, <1>5, <2>1, <2>3 DEF Records, Statuses
<1>7. Shaped(r)
  <2>1. CASE \E q \in Paths, c \in Held : change = [p \in {q} |-> c]
    <3>1. \E q \in Paths : Touched(r) = {q}
      BY <2>1, <1>5
    <3> QED BY <3>1 DEF Shaped
  <2>2. CASE \E a, b \in Paths : /\ a # b /\ file[a] # Absent
                             /\ change = [p \in {a, b} |-> IF p = a THEN Absent ELSE file[a]]
    <3>1. PICK a, b \in Paths : /\ a # b /\ file[a] # Absent
                             /\ change = [p \in {a, b} |-> IF p = a THEN Absent ELSE file[a]]
      BY <2>2
    <3>2. /\ Touched(r) = {a, b} /\ change[a] = Absent /\ change[b] = file[a]
          /\ r.before[a] = file[a] /\ r.post = change
      BY <3>1, <1>5
    <3> HIDE DEF r
    <3> QED BY <3>1, <3>2 DEF Shaped
  <2> QED BY <1>2, <2>1, <2>2
<1> QED BY <1>5, <1>6, <1>7

-----------------------------------------------------------------------------
(* The operation that holds the mutex *)

Ats == {"idle", "fit", "evicted", "install", "manifest", "begun", "finished", "restore"}

LEMMA AtIs ==
  ASSUME op \in Ops(op.needed), NEW a \in Ats, op' = [op EXCEPT !.at = a]
  PROVE  /\ op' \in Ops(op'.needed) /\ op'.at = a
         /\ op'.session = op.session /\ op'.seq = op.seq /\ op'.rec = op.rec
         /\ op'.victim = op.victim /\ op'.todo = op.todo /\ op'.left = op.left
BY DEF Ops, Ats

-----------------------------------------------------------------------------
(* The first layer: types, and what the operation knows *)

LEMMA OpIdle ==
  ASSUME op' = Idle
  PROVE  OpPlaced' /\ op' \in Ops(op'.needed)
BY IdleIs DEF OpPlaced, Opening

LEMMA CountsAre ==
  ASSUME Typed, Error \/ UNCHANGED <<errors, edits>>
  PROVE  errors' \in 0..MaxErrors /\ edits' \in 0..MaxEdits
BY BoundsAre DEF Typed, Error

LEMMA StepStays ==
  ASSUME NEW k \in Keys, StepPlaced(k),
         tool'[k] = tool[k], steps'[k] = steps[k],
         tool[k] \in {"working", "acted"} =>
           disk'[k] = disk[k] /\ (BlobsOf(steps[k]) \subseteq diskBlobs => BlobsOf(steps[k]) \subseteq diskBlobs'),
         disk'[k] = disk[k] \/ k[2] <= meta[k[1]].last,
         meta[k[1]].last <= meta'[k[1]].last,
         meta[k[1]].last \in Nat, meta'[k[1]].last \in Nat, k[2] \in Nat
  PROVE  StepPlaced(k)'
<1>1. k[2] <= meta[k[1]].last => k[2] <= meta'[k[1]].last
  OBVIOUS
<1> QED BY <1>1 DEF StepPlaced, Live

\* Where nothing changes but the operation, the folder and the counts.
LEMMA OpMoves ==
  ASSUME Placed, UNCHANGED <<memVars, diskVars, tool>>,
         file' \in [Paths -> Held], errors' \in 0..MaxErrors, edits' \in 0..MaxEdits,
         op' \in Ops(op'.needed), OpPlaced'
  PROVE  Placed'
<1>1. Typed'
  BY DEF Placed, Typed, memVars, diskVars, Metas
<1>2. \A k \in Keys : StepPlaced(k)'
  BY DEF Placed, StepPlaced, Live, memVars, diskVars
<1> QED BY <1>1, <1>2 DEF Placed, memVars, diskVars

LEMMA KeyIs ==
  ASSUME Typed, NEW k \in Keys
  PROVE  /\ k = <<k[1], k[2]>> /\ k[1] \in Sessions /\ k[2] \in 1..MaxSteps /\ k[2] \in Nat
         /\ steps[k] \in Entries /\ disk[k] \in Entries
         /\ meta[k[1]] \in Metas /\ meta[k[1]].last \in Nat /\ meta[k[1]].pruned \in Nat
         /\ BlobsOf(steps[k]) \subseteq Contents
<1>1. k = <<k[1], k[2]>> /\ k[1] \in Sessions /\ k[2] \in 1..MaxSteps
  BY DEF Keys
<1>2. steps[k] \in Entries /\ disk[k] \in Entries /\ meta[k[1]] \in Metas
  BY <1>1 DEF Typed
<1> QED BY <1>1, <1>2, BoundsAre, EntryIs DEF Metas

LEMMA SeqIs ==
  ASSUME NEW f, NEW s \in Sessions
  PROVE  /\ Seqs(f, s) \subseteq 1..MaxSteps /\ Seqs(f, s) \subseteq Nat
         /\ \A n \in 1..MaxSteps : <<s, n>> \in Keys
         /\ \A n : n \in Seqs(f, s) <=> <<s, n>> \in Keys /\ f[<<s, n>>].status # "none"
BY BoundsAre DEF Seqs, Keys

\* The step that is pruned is the oldest of its session and not in flight.
LEMMA VictimIs ==
  ASSUME NEW k \in Victims
  PROVE  /\ k \in Keys /\ k = <<k[1], k[2]>> /\ steps[k].status # "Prepared"
         /\ k[1] \in Sessions /\ k[2] \in Seqs(steps, k[1])
         /\ \A n \in Seqs(steps, k[1]) : k[2] <= n
<1>1. PICK s \in Sessions : Seqs(steps, s) # {} /\ k = <<s, Lowest(Seqs(steps, s))>>
  BY DEF Victims, Oldest
<1>2. /\ Lowest(Seqs(steps, s)) \in Seqs(steps, s)
      /\ \A n \in Seqs(steps, s) : Lowest(Seqs(steps, s)) <= n
  BY <1>1, SeqIs, LowestIs
<1>3. steps[k].status # "Prepared"
  BY DEF Victims
<1> HIDE DEF Victims
<1> QED BY <1>1, <1>2, <1>3, SeqIs

\* What is collected is no snapshot of a step in memory.
LEMMA CollectSpares ==
  ASSUME NEW B \in SUBSET Dead(steps), Collect(B)
  PROVE  /\ blobs' \subseteq blobs /\ diskBlobs' \subseteq diskBlobs
         /\ \A k \in Keys : BlobsOf(steps[k]) \subseteq diskBlobs => BlobsOf(steps[k]) \subseteq diskBlobs'
<1>1. \A k \in Keys : BlobsOf(steps[k]) \cap B = {}
  BY DEF Dead, Referenced
<1> QED BY <1>1 DEF Collect

LEMMA BeginPlaces ==
  ASSUME Placed, NEW s \in Sessions, NEW change \in Changes, Begin(s, change)
  PROVE  Placed'
<1> DEFINE r == Capture(change)
<1>1. r \in Records /\ r.status = "Prepared" /\ Shaped(r)
  BY CaptureIs DEF Placed, Typed
<1>2. /\ Free(r) /\ meta[s].last < MaxSteps
      /\ op' = [Idle EXCEPT !.at = "fit", !.session = s, !.rec = r, !.needed = Needed(r)]
      /\ UNCHANGED <<file, memVars, diskVars, tool, boundVars>>
  BY DEF Begin
<1> HIDE DEF r
<1>3. op' \in Ops(op'.needed) /\ op'.at = "fit" /\ op'.session = s /\ op'.rec = r
  <2>1. r \in Entries /\ op' = [Idle EXCEPT !.at = "fit", !.session = s, !.rec = r, !.needed = Needed(r)]
    BY <1>1, <1>2 DEF Entries
  <2> HIDE DEF Idle
  <2>2. Idle \in Ops(Idle.needed)
    BY IdleIs
  <2> QED BY <2>1, <2>2 DEF Ops
<1>4. OpPlaced'
  BY <1>1, <1>2, <1>3 DEF OpPlaced, Opening, Free, memVars
<1> QED BY <1>2, <1>3, <1>4, OpMoves DEF Placed, Typed, boundVars

LEMMA HasRoomPlaces ==
  ASSUME Placed, HasRoom
  PROVE  Placed'
<1>1. /\ op.at = "fit" /\ op' = [op EXCEPT !.at = "install"]
      /\ UNCHANGED <<file, memVars, diskVars, tool, boundVars>>
  BY DEF HasRoom
<1>2. /\ op' \in Ops(op'.needed) /\ op'.at = "install" /\ op'.session = op.session
      /\ op'.rec = op.rec
  <2>1. op \in Ops(op.needed) /\ "install" \in Ats
    BY DEF Placed, Typed, Ats
  <2> QED BY <1>1, <2>1, AtIs
<1>3. OpPlaced'
  BY <1>1, <1>2 DEF Placed, OpPlaced, Opening, Free, memVars
<1> QED BY <1>1, <1>2, <1>3, OpMoves DEF Placed, Typed, boundVars

LEMMA StoppedPlaces ==
  ASSUME Placed, StoreFull \/ EvictFails
  PROVE  Placed'
<1>1. /\ op' = Idle /\ UNCHANGED <<file, memVars, diskVars, tool>>
      /\ Error \/ UNCHANGED <<errors, edits>>
  BY DEF StoreFull, EvictFails, boundVars
<1> QED BY <1>1, OpIdle, CountsAre, OpMoves DEF Placed, Typed

LEMMA EvictPlaces ==
  ASSUME Placed, NEW k \in Victims, Evict(k)
  PROVE  Placed'
<1>1. /\ k \in Keys /\ steps[k].status # "Prepared" /\ k[1] \in Sessions /\ k[2] \in 1..MaxSteps
      /\ Typed
  BY VictimIs, KeyIs DEF Placed
<1>2. /\ op.at = "fit" /\ steps' = [steps EXCEPT ![k] = NoStep] /\ disk' = [disk EXCEPT ![k] = NoStep]
      /\ meta' = [meta EXCEPT ![k[1]].pruned = IF @ < k[2] THEN k[2] ELSE @]
      /\ op' = [op EXCEPT !.at = "evicted", !.victim = k[1]]
      /\ UNCHANGED <<file, blobs, busy, tick, diskMeta, diskBlobs, tool, boundVars>>
  BY DEF Evict
<1>3. /\ op' \in Ops(op'.needed) /\ op'.at = "evicted" /\ op'.session = op.session
      /\ op'.rec = op.rec /\ op'.victim = k[1]
  <2>1. op \in Ops(op.needed) /\ "evicted" \in Ats /\ k[1] \in Sessions \cup {None}
    BY <1>1 DEF Typed, Ats
  <2>2. op' = [op EXCEPT !.at = "evicted", !.victim = k[1]]
    BY <1>2
  <2> QED BY <2>1, <2>2 DEF Ops, Ats
<1>4. /\ meta' \in [Sessions -> Metas] /\ \A s \in Sessions : meta'[s].last = meta[s].last
  <2>1. \A s \in Sessions : meta[s] \in Metas
    BY <1>1 DEF Typed
  <2>2. \A s \in Sessions : /\ meta'[s] \in Metas /\ meta'[s].last = meta[s].last
    BY <1>1, <1>2, <2>1, BoundsAre DEF Metas, Typed
  <2> QED BY <1>2, <2>2, <1>1 DEF Typed
<1>5. Typed'
  BY <1>1, <1>2, <1>3, <1>4, NoStepIs DEF Typed, Metas, boundVars
<1>6. OpPlaced'
  BY <1>1, <1>2, <1>3, <1>4 DEF Placed, OpPlaced, Opening, Free
<1>7. ASSUME NEW j \in Keys
      PROVE  StepPlaced(j)'
  <2>1. CASE j = k
    <3>1. tool[k] = "none" /\ tool'[k] = "none"
      BY <1>1, <1>2 DEF Placed, StepPlaced, Live
    <3>2. steps'[k] = NoStep /\ disk'[k] = NoStep
      BY <1>1, <1>2 DEF Typed
    <3> QED BY <2>1, <3>1, <3>2, NoStepIs DEF StepPlaced, Live
  <2>2. CASE j # k
    <3>1. steps'[j] = steps[j] /\ disk'[j] = disk[j] /\ StepPlaced(j)
      BY <1>1, <1>2, <2>2 DEF Placed, Typed
    <3>2. j[1] \in Sessions /\ j[2] \in Nat /\ meta[j[1]].last \in Nat
      BY <1>1, KeyIs
    <3> QED BY <1>2, <1>4, <3>1, <3>2, StepStays
  <2> QED BY <2>1, <2>2
<1> QED BY <1>2, <1>4, <1>5, <1>6, <1>7 DEF Placed

LEMMA RecordEvictionPlaces ==
  ASSUME Placed, RecordEviction \/ RecordEvictionFails
  PROVE  Placed'
<1>1. /\ op.at = "evicted" /\ Typed /\ op \in Ops(op.needed) /\ op.victim \in Sessions
      /\ UNCHANGED <<file, steps, meta, busy, tick, disk, tool>>
  BY DEF RecordEviction, RecordEvictionFails, Placed, Typed, OpPlaced
<1>2. /\ diskMeta' \in {diskMeta, [diskMeta EXCEPT ![op.victim] = meta[op.victim]]}
      /\ \/ UNCHANGED <<blobs, diskBlobs>>
         \/ \E B \in SUBSET Dead(steps) : Collect(B)
  BY DEF RecordEviction, RecordEvictionFails
<1>3. /\ blobs' \subseteq blobs /\ diskBlobs' \subseteq diskBlobs
      /\ \A k \in Keys : BlobsOf(steps[k]) \subseteq diskBlobs => BlobsOf(steps[k]) \subseteq diskBlobs'
  BY <1>2, CollectSpares
<1>4. op' \in Ops(op'.needed) /\ OpPlaced'
  <2>1. CASE RecordEvictionFails
    BY <2>1, OpIdle DEF RecordEvictionFails
  <2>2. CASE RecordEviction
    <3>1. op' = [op EXCEPT !.at = "fit", !.victim = None]
      BY <2>2 DEF RecordEviction
    <3>2. /\ op' \in Ops(op'.needed) /\ op'.at = "fit" /\ op'.session = op.session
          /\ op'.rec = op.rec
      BY <1>1, <3>1 DEF Ops
    <3> QED BY <1>1, <3>2 DEF Placed, OpPlaced, Opening, Free
  <2> QED BY <2>1, <2>2
<1>5. errors' \in 0..MaxErrors /\ edits' \in 0..MaxEdits
  BY <1>1, CountsAre DEF RecordEviction, RecordEvictionFails, boundVars
<1>6. diskMeta' \in [Sessions -> Metas] /\ \A s \in Sessions : diskMeta'[s].last <= meta'[s].last
  <2>1. \A s \in Sessions : meta[s] \in Metas /\ diskMeta[s] \in Metas
    BY <1>1 DEF Typed
  <2>2. \A s \in Sessions : meta[s].last \in Nat
    BY <2>1, BoundsAre DEF Metas
  <2> QED BY <1>1, <1>2, <2>1, <2>2 DEF Placed, Typed
<1>7. Typed'
  BY <1>1, <1>3, <1>4, <1>5, <1>6 DEF Typed, Metas
<1>8. ASSUME NEW k \in Keys
      PROVE  StepPlaced(k)'
  <2>1. k[1] \in Sessions /\ k[2] \in Nat /\ meta[k[1]].last \in Nat
    BY <1>1, KeyIs
  <2> QED BY <1>1, <1>3, <2>1, StepStays DEF Placed
<1> QED BY <1>6, <1>7, <1>4, <1>8 DEF Placed

LEMMA InstallPlaces ==
  ASSUME Placed, Install \/ InstallFails
  PROVE  Placed'
<1>1. /\ op.at = "install" /\ Typed /\ op \in Ops(op.needed) /\ op.rec \in Records
      /\ UNCHANGED <<file, steps, meta, busy, tick, disk, diskMeta, tool>>
  BY DEF Install, InstallFails, Placed, Typed, OpPlaced, Opening
<1>2. BlobsOf(op.rec) \subseteq Contents
  BY <1>1, EntryIs DEF Entries
<1>3. /\ blobs' \subseteq Contents /\ diskBlobs \subseteq diskBlobs' /\ diskBlobs' \subseteq Contents
      /\ Install => BlobsOf(op.rec) \subseteq diskBlobs'
  <2>1. CASE Install
    BY <2>1, <1>1, <1>2 DEF Install, Typed
  <2>2. CASE InstallFails
    <3>1. PICK c \in BlobsOf(op.rec) : \E B \in SUBSET (BlobsOf(op.rec) \ {c}) :
             /\ blobs' = blobs \cup B
             /\ MaybeWritten(diskBlobs', diskBlobs \cup B, diskBlobs \cup B \cup {c})
      BY <2>2 DEF InstallFails
    <3>2. PICK B \in SUBSET (BlobsOf(op.rec) \ {c}) :
             /\ blobs' = blobs \cup B
             /\ diskBlobs' \in {diskBlobs \cup B, diskBlobs \cup B \cup {c}}
      BY <3>1 DEF MaybeWritten
    <3>3. ~Install
      BY <2>2, <3>2, <1>1 DEF Install, InstallFails, Error, boundVars, Typed
    <3> QED BY <3>2, <3>3, <1>1, <1>2 DEF Typed
  <2> QED BY <2>1, <2>2
<1>4. op' \in Ops(op'.needed) /\ OpPlaced'
  <2>1. CASE InstallFails
    BY <2>1, OpIdle DEF InstallFails
  <2>2. CASE Install
    <3>1. op' = [op EXCEPT !.at = "manifest"] /\ "manifest" \in Ats
      BY <2>2 DEF Install, Ats
    <3>2. /\ op' \in Ops(op'.needed) /\ op'.at = "manifest" /\ op'.session = op.session
          /\ op'.rec = op.rec
      BY <1>1, <3>1, AtIs
    <3> QED BY <1>1, <1>3, <2>2, <3>2 DEF Placed, OpPlaced, Opening, Free
  <2> QED BY <2>1, <2>2
<1>5. errors' \in 0..MaxErrors /\ edits' \in 0..MaxEdits
  BY <1>1, CountsAre DEF Install, InstallFails, boundVars
<1>6. Typed'
  BY <1>1, <1>3, <1>4, <1>5 DEF Typed, Metas
<1>7. ASSUME NEW k \in Keys
      PROVE  StepPlaced(k)'
  <2>1. k[1] \in Sessions /\ k[2] \in Nat /\ meta[k[1]].last \in Nat
    BY <1>1, KeyIs
  <2> QED BY <1>1, <1>3, <2>1, StepStays DEF Placed
<1> QED BY <1>1, <1>4, <1>6, <1>7 DEF Placed

\* The number the next step of the session gets: nothing is recorded under it.
LEMMA NextIs ==
  ASSUME Placed, op.at = "manifest", Allocate
  PROVE  LET k == <<op.session, NextSeq>>
         IN  /\ k \in Keys /\ op.session \in Sessions /\ NextSeq \in 1..MaxSteps
             /\ steps[k] = NoStep /\ disk[k] = NoStep /\ tool[k] = "none"
             /\ meta' \in [Sessions -> Metas] /\ meta'[op.session].last = NextSeq
             /\ meta[op.session].last < NextSeq
             /\ \A s \in Sessions : /\ s # op.session => meta'[s] = meta[s]
                                    /\ meta[s].last <= meta'[s].last
                                    /\ meta[s].last \in Nat /\ meta'[s].last \in Nat
                                    /\ meta'[s].pruned = meta[s].pruned
<1> DEFINE s == op.session
           k == <<op.session, NextSeq>>
<1>1. s \in Sessions /\ meta[s].last < MaxSteps /\ Typed
  BY DEF Placed, OpPlaced, Opening
<1>2. \A t \in Sessions : /\ meta[t] \in Metas /\ meta[t].last \in Nat
                          /\ meta[t].last \in 0..MaxSteps
  BY <1>1, BoundsAre DEF Typed, Metas
<1>3. NextSeq \in 1..MaxSteps /\ NextSeq = meta[s].last + 1
  BY <1>1, <1>2, BoundsAre DEF NextSeq
<1>4. k \in Keys /\ k[1] = s /\ k[2] = NextSeq
  BY <1>1, <1>3 DEF Keys
<1> HIDE DEF k
<1>5. steps[k].status = "none" /\ disk[k].status = "none"
  <2>1. ~(k[2] <= meta[k[1]].last)
    BY <1>1, <1>2, <1>3, <1>4
  <2> QED BY <1>4, <2>1 DEF Placed, StepPlaced
<1>6. steps[k] = NoStep /\ disk[k] = NoStep
  BY <1>1, <1>4, <1>5, KeyIs, EntryIs
<1>7. tool[k] = "none"
  BY <1>4, <1>5 DEF Placed, StepPlaced, Live
<1>8. /\ \A t \in Sessions : t # s => meta'[t] = meta[t]
      /\ meta'[s] = [meta[s] EXCEPT !.last = NextSeq]
      /\ DOMAIN meta' = Sessions /\ meta' = [t \in Sessions |-> meta'[t]]
  BY <1>1 DEF Allocate, Typed
<1>9. /\ meta'[s] \in Metas /\ meta'[s].last = NextSeq /\ meta'[s].pruned = meta[s].pruned
  BY <1>1, <1>2, <1>3, <1>8, BoundsAre DEF Metas
<1>10. meta' \in [Sessions -> Metas]
  BY <1>2, <1>8, <1>9
<1>11. meta[s].last < NextSeq /\ NextSeq \in Nat
  BY <1>1, <1>2, <1>3
<1>12. \A t \in Sessions : /\ t # s => meta'[t] = meta[t]
                           /\ meta[t].last <= meta'[t].last
                           /\ meta[t].last \in Nat /\ meta'[t].last \in Nat
                           /\ meta'[t].pruned = meta[t].pruned
  <2>1. meta'[s].last \in Nat /\ meta[s].last <= meta'[s].last
    BY <1>1, <1>2, <1>9, <1>11
  <2>2. ASSUME NEW t \in Sessions, t # s
        PROVE  meta'[t] = meta[t] /\ meta[t].last \in Nat /\ meta[t].last <= meta[t].last
    <3>1. meta'[t] = meta[t] /\ meta[t].last \in Nat
      BY <1>2, <1>8, <2>2
    <3> QED BY <3>1
  <2> HIDE DEF s
  <2>3. ASSUME NEW t \in Sessions, t = s
        PROVE  /\ meta[t].last <= meta'[t].last
               /\ meta[t].last \in Nat /\ meta'[t].last \in Nat
               /\ meta'[t].pruned = meta[t].pruned
    BY <1>2, <1>9, <2>1, <2>3
  <2> QED BY <2>2, <2>3
<1> QED BY <1>1, <1>3, <1>4, <1>6, <1>7, <1>9, <1>10, <1>11, <1>12 DEF k

LEMMA WriteManifestPlaces ==
  ASSUME Placed, WriteManifest
  PROVE  Placed'
<1> DEFINE k == <<op.session, NextSeq>>
<1>1. /\ op.at = "manifest" /\ Allocate /\ Typed
      /\ steps' = [steps EXCEPT ![k] = op.rec] /\ disk' = [disk EXCEPT ![k] = op.rec]
      /\ busy' = busy \cup Touched(op.rec)
      /\ op' = [op EXCEPT !.at = "begun", !.seq = NextSeq]
      /\ UNCHANGED <<file, blobs, tick, diskMeta, diskBlobs, tool, boundVars>>
  BY DEF WriteManifest, Placed
<1>2. /\ k \in Keys /\ NextSeq \in 1..MaxSteps /\ op.session \in Sessions /\ tool[k] = "none"
      /\ meta' \in [Sessions -> Metas] /\ meta'[op.session].last = NextSeq
      /\ \A s \in Sessions : /\ meta[s].last <= meta'[s].last
                             /\ meta[s].last \in Nat /\ meta'[s].last \in Nat
  BY <1>1, NextIs
<1>3. /\ op.rec \in Records /\ op.rec.status = "Prepared" /\ Shaped(op.rec)
      /\ BlobsOf(op.rec) \subseteq diskBlobs
  BY <1>1 DEF Placed, OpPlaced, Opening
<1>4. op.rec \in Entries /\ Touched(op.rec) \subseteq Paths
  BY <1>3, EntryIs DEF Entries
<1>5. /\ op' \in Ops(op'.needed) /\ op'.at = "begun" /\ op'.session = op.session
      /\ op'.seq = NextSeq
  <2>1. op \in Ops(op.needed) /\ NextSeq \in 0..MaxSteps /\ op' = [op EXCEPT !.at = "begun", !.seq = NextSeq]
    BY <1>1, <1>2 DEF Typed
  <2> QED BY <2>1 DEF Ops, Ats
<1>6. Key' = k /\ k[1] = op.session /\ k[2] = NextSeq
  BY <1>5 DEF Key
<1> HIDE DEF k
<1>7. /\ steps'[k] = op.rec /\ disk'[k] = op.rec
      /\ \A j \in Keys : j # k => steps'[j] = steps[j] /\ disk'[j] = disk[j]
  BY <1>1, <1>2 DEF Typed
<1>8. Typed'
  BY <1>1, <1>2, <1>4, <1>5 DEF Typed, Metas, boundVars
<1>9. OpPlaced'
  BY <1>1, <1>2, <1>3, <1>5, <1>6, <1>7 DEF OpPlaced, Opening
<1>10. ASSUME NEW j \in Keys
       PROVE  StepPlaced(j)'
  <2>1. CASE j = k
    <3>1. tool'[k] = "none" /\ NextSeq <= NextSeq
      BY <1>1, <1>2
    <3> QED BY <2>1, <3>1, <1>2, <1>6 DEF StepPlaced, Live
  <2>2. CASE j # k
    <3>1. j[1] \in Sessions /\ j[2] \in Nat /\ StepPlaced(j)
      BY <1>1, KeyIs DEF Placed
    <3> QED BY <1>1, <1>2, <1>7, <2>2, <3>1, StepStays
  <2> QED BY <2>1, <2>2
<1>11. \A s \in Sessions : diskMeta'[s].last <= meta'[s].last
  <2> SUFFICES ASSUME NEW s \in Sessions PROVE diskMeta[s].last <= meta'[s].last
    BY <1>1
  <2>1. diskMeta[s].last <= meta[s].last /\ diskMeta[s].last \in Nat
    BY BoundsAre, <1>1 DEF Placed, Typed, Metas
  <2> QED BY <1>2, <2>1
<1> QED BY <1>8, <1>9, <1>10, <1>11 DEF Placed

LEMMA WriteManifestFailsPlaces ==
  ASSUME Placed, WriteManifestFails
  PROVE  Placed'
<1> DEFINE k == <<op.session, NextSeq>>
<1>1. /\ op.at = "manifest" /\ Allocate /\ Typed /\ Error /\ op' = Idle
      /\ disk' \in {disk, [disk EXCEPT ![k] = op.rec]}
      /\ UNCHANGED <<file, steps, blobs, busy, tick, diskMeta, diskBlobs, tool>>
  BY DEF WriteManifestFails, Placed, MaybeWritten
<1>2. /\ k \in Keys /\ NextSeq \in 1..MaxSteps /\ op.session \in Sessions /\ tool[k] = "none"
      /\ steps[k] = NoStep
      /\ meta' \in [Sessions -> Metas] /\ meta'[op.session].last = NextSeq
      /\ \A s \in Sessions : /\ meta[s].last <= meta'[s].last
                             /\ meta[s].last \in Nat /\ meta'[s].last \in Nat
  BY <1>1, NextIs
<1>3. op.rec \in Entries
  BY <1>1 DEF Placed, OpPlaced, Opening, Entries
<1>4. op' \in Ops(op'.needed) /\ OpPlaced'
  BY <1>1, OpIdle
<1>5. errors' \in 0..MaxErrors /\ edits' \in 0..MaxEdits
  BY <1>1, CountsAre
<1>6. k[1] = op.session /\ k[2] = NextSeq
  OBVIOUS
<1> HIDE DEF k
<1>7. \A j \in Keys : j # k => disk'[j] = disk[j]
  BY <1>1, <1>2 DEF Typed
<1>8. Typed'
  BY <1>1, <1>2, <1>3, <1>4, <1>5 DEF Typed, Metas
<1>9. ASSUME NEW j \in Keys
      PROVE  StepPlaced(j)'
  <2>1. CASE j = k
    <3>1. tool'[k] = "none" /\ NextSeq <= NextSeq
      BY <1>1, <1>2
    <3> QED BY <2>1, <3>1, <1>2, <1>6 DEF StepPlaced, Live
  <2>2. CASE j # k
    <3>1. j[1] \in Sessions /\ j[2] \in Nat /\ StepPlaced(j)
      BY <1>1, KeyIs DEF Placed
    <3> QED BY <1>1, <1>2, <1>7, <2>2, <3>1, StepStays
  <2> QED BY <2>1, <2>2
<1>10. \A s \in Sessions : diskMeta'[s].last <= meta'[s].last
  <2> SUFFICES ASSUME NEW s \in Sessions PROVE diskMeta[s].last <= meta'[s].last
    BY <1>1
  <2>1. diskMeta[s].last <= meta[s].last /\ diskMeta[s].last \in Nat
    BY BoundsAre, <1>1 DEF Placed, Typed, Metas
  <2> QED BY <1>2, <2>1
<1> QED BY <1>4, <1>8, <1>9, <1>10 DEF Placed

\* Using a session changes nothing of what is recorded about it but its rank.
LEMMA UseIs ==
  ASSUME Typed, NEW s \in Sessions, Use(s)
  PROVE  /\ tick' \in Nat /\ meta' \in [Sessions -> Metas'] /\ diskMeta \in [Sessions -> Metas']
         /\ \A t \in Sessions : /\ meta'[t].last = meta[t].last /\ meta'[t].pruned = meta[t].pruned
                                /\ meta[t].last \in Nat /\ meta[t].pruned \in Nat
                                /\ diskMeta[t].last \in Nat
<1>1. /\ tick' = tick + 1 /\ tick \in Nat
      /\ meta' = [meta EXCEPT ![s].used = tick + 1]
      /\ \A t \in Sessions : meta[t] \in Metas /\ diskMeta[t] \in Metas
      /\ DOMAIN meta = Sessions /\ DOMAIN diskMeta = Sessions
  BY DEF Use, Typed
<1>2. Metas \subseteq Metas'
  BY <1>1 DEF Metas
<1>3. \A t \in Sessions : /\ meta'[t] \in Metas'
                          /\ meta'[t].last = meta[t].last /\ meta'[t].pruned = meta[t].pruned
  <2>1. \A t \in Sessions : t # s => meta'[t] = meta[t]
    BY <1>1
  <2>2. /\ meta'[s] = [meta[s] EXCEPT !.used = tick + 1]
        /\ tick + 1 \in 0..tick'
    BY <1>1
  <2>3. /\ meta'[s] \in Metas' /\ meta'[s].last = meta[s].last /\ meta'[s].pruned = meta[s].pruned
    BY <1>1, <2>2 DEF Metas
  <2> QED BY <1>1, <1>2, <2>1, <2>3
<1>4. meta' = [t \in Sessions |-> meta'[t]]
  BY <1>1
<1>5. meta' \in [Sessions -> Metas']
  BY <1>3, <1>4
<1>6. diskMeta \in [Sessions -> Metas']
  BY <1>2 DEF Typed
<1>7. \A t \in Sessions : /\ meta[t].last \in Nat /\ meta[t].pruned \in Nat
                          /\ diskMeta[t].last \in Nat
  BY <1>1, BoundsAre DEF Metas
<1> QED BY <1>1, <1>3, <1>5, <1>6, <1>7

LEMMA TouchPlaces ==
  ASSUME Placed, Touch \/ TouchFails
  PROVE  Placed'
<1>1. /\ op.at \in {"begun", "finished", "restore"} /\ Typed /\ op.session \in Sessions
      /\ Use(op.session) /\ op' = Idle
      /\ diskMeta' \in {diskMeta, [diskMeta EXCEPT ![op.session] = meta'[op.session]]}
      /\ UNCHANGED <<file, steps, blobs, busy, disk, diskBlobs>>
  BY DEF Touch, TouchFails, Touching, MaybeWritten, Placed, OpPlaced
<1>2. /\ tick' \in Nat /\ meta' \in [Sessions -> Metas'] /\ diskMeta \in [Sessions -> Metas']
      /\ \A t \in Sessions : /\ meta'[t].last = meta[t].last /\ meta[t].last \in Nat
                             /\ diskMeta[t].last \in Nat
  BY <1>1, UseIs
<1>3. diskMeta' \in [Sessions -> Metas'] /\ \A s \in Sessions : diskMeta'[s].last <= meta'[s].last
  <2>1. \A s \in Sessions : diskMeta[s].last <= meta[s].last
    BY DEF Placed
  <2>2. CASE diskMeta' = diskMeta
    BY <1>2, <2>1, <2>2
  <2>3. CASE diskMeta' = [diskMeta EXCEPT ![op.session] = meta'[op.session]]
    <3>1. meta'[op.session] \in Metas'
      BY <1>1, <1>2
    <3>2. diskMeta' \in [Sessions -> Metas']
      BY <1>1, <1>2, <2>3, <3>1
    <3>3. \A s \in Sessions : diskMeta'[s] = IF s = op.session THEN meta'[s] ELSE diskMeta[s]
      BY <1>1, <1>2, <2>3
    <3>4. \A s \in Sessions : diskMeta'[s].last <= meta'[s].last
      BY <1>2, <2>1, <3>3
    <3> QED BY <3>2, <3>4
  <2> QED BY <1>1, <2>2, <2>3
<1>4. /\ tool' \in [Keys -> {"none", "working", "acted", "dropping"}]
      /\ \A k \in Keys : \/ tool'[k] = tool[k]
                         \/ op.at = "begun" /\ k = Key /\ tool'[k] = "working"
  BY <1>1 DEF Touch, TouchFails, Typed, Key
<1>5. op' \in Ops(op'.needed) /\ OpPlaced'
  BY <1>1, OpIdle
<1>6. errors' \in 0..MaxErrors /\ edits' \in 0..MaxEdits
  BY <1>1, CountsAre DEF Touch, TouchFails, boundVars
<1>7. Typed'
  BY <1>1, <1>2, <1>3, <1>4, <1>5, <1>6 DEF Typed
<1>8. ASSUME NEW k \in Keys
      PROVE  StepPlaced(k)'
  <2>1. k[1] \in Sessions /\ k[2] \in Nat /\ meta[k[1]].last \in Nat /\ StepPlaced(k)
    BY <1>1, KeyIs DEF Placed
  <2>2. CASE tool'[k] = tool[k]
    BY <1>1, <1>2, <2>1, <2>2, StepStays
  <2>3. CASE op.at = "begun" /\ k = Key /\ tool'[k] = "working"
    <3>1. /\ steps[k].status = "Prepared" /\ disk[k] = steps[k]
          /\ Shaped(steps[k]) /\ BlobsOf(steps[k]) \subseteq diskBlobs
      BY <2>3 DEF Placed, OpPlaced
    <3> QED BY <1>1, <1>2, <2>1, <2>3, <3>1 DEF StepPlaced, Live
  <2> QED BY <1>4, <2>2, <2>3
<1> QED BY <1>3, <1>5, <1>7, <1>8 DEF Placed

\* What a change leaves: nothing but its paths is touched, and where the step's
\* paths hold what it captured, they come to hold what it intends.
LEMMA ChangedIs ==
  ASSUME file \in [Paths -> Held], NEW r \in Records, Shaped(r)
  PROVE  /\ Changed(r) \in [Paths -> Held]
         /\ \A p \in Paths \ Touched(r) : Changed(r)[p] = file[p]
         /\ (\A p \in Touched(r) : file[p] = r.before[p])
              => \A p \in Touched(r) : Changed(r)[p] = r.post[p]
<1>1. /\ Touched(r) \subseteq Paths /\ r.before \in [Touched(r) -> Held]
      /\ r.post \in [Touched(r) -> Held]
  BY EntryIs DEF Entries
<1>2. CASE \E q \in Paths : Touched(r) = {q}
  <2>1. Cardinality(Touched(r)) = 1
    BY <1>2, FS_Singleton
  <2>2. \A p \in Paths : Changed(r)[p] = IF p \in Touched(r) THEN r.post[p] ELSE file[p]
    BY <2>1 DEF Changed
  <2>3. Changed(r) = [p \in Paths |-> Changed(r)[p]]
    BY DEF Changed
  <2>4. \A p \in Paths : Changed(r)[p] \in Held
    BY <1>1, <2>2
  <2> HIDE DEF Changed
  <2> QED BY <1>1, <2>2, <2>3, <2>4
<1>3. CASE \E a, b \in Paths : /\ a # b /\ Touched(r) = {a, b} /\ r.before[a] # Absent
                               /\ r.post[a] = Absent /\ r.post[b] = r.before[a]
  <2>1. PICK a, b \in Paths : /\ a # b /\ Touched(r) = {a, b} /\ r.before[a] # Absent
                              /\ r.post[a] = Absent /\ r.post[b] = r.before[a]
    BY <1>3
  <2>2. (CHOOSE q \in Touched(r) : r.post[q] = Absent) = a
    BY <2>1
  <2>3. Cardinality(Touched(r)) # 1
    <3>1. IsFiniteSet({a, b})
      <4>1. {a, b} = {a} \cup {b} /\ IsFiniteSet({a})
        BY FS_Singleton
      <4> QED BY <4>1, FS_AddElement
    <3>2. ~ \E x : {a, b} = {x}
      BY <2>1
    <3> QED BY <2>1, <3>1, <3>2, FS_Singleton
  <2>4. \A p \in Paths : Changed(r)[p] = IF p \notin Touched(r) THEN file[p]
                                         ELSE IF p = a THEN Absent ELSE file[a]
    BY <2>1, <2>2, <2>3 DEF Changed
  <2>5. Changed(r) = [p \in Paths |-> Changed(r)[p]]
    BY DEF Changed
  <2> HIDE DEF Changed
  <2>6. \A p \in Paths : Changed(r)[p] \in Held
    BY <2>1, <2>4 DEF Held
  <2>7. ASSUME \A p \in Touched(r) : file[p] = r.before[p], NEW p \in Touched(r)
        PROVE  Changed(r)[p] = r.post[p]
    BY <1>1, <2>1, <2>4, <2>7
  <2> QED BY <2>4, <2>5, <2>6, <2>7
<1> QED BY <1>2, <1>3 DEF Shaped

LEMMA ActPlaces ==
  ASSUME Placed, NEW k \in Keys, Act(k)
  PROVE  Placed'
<1>1. /\ tool[k] = "working" /\ file' = Changed(steps[k]) /\ tool' = [tool EXCEPT ![k] = "acted"]
      /\ Typed /\ UNCHANGED <<memVars, diskVars, op, boundVars>>
  BY DEF Act, Placed
<1>2. Shaped(steps[k]) /\ steps[k].status = "Prepared" /\ steps[k] \in Records
  <2>1. StepPlaced(k)
    BY DEF Placed
  <2>2. Shaped(steps[k]) /\ steps[k].status = "Prepared"
    BY <1>1, <2>1 DEF StepPlaced, Live
  <2> QED BY <1>1, <2>2, KeyIs, EntryIs DEF NoStep
<1>3. file' \in [Paths -> Held]
  BY <1>1, <1>2, ChangedIs DEF Typed
<1>4. /\ tool' \in [Keys -> {"none", "working", "acted", "dropping"}]
      /\ \A j \in Keys : tool'[j] = tool[j] \/ (j = k /\ tool'[j] = "acted")
  BY <1>1 DEF Typed
<1>5. Typed'
  BY <1>1, <1>3, <1>4 DEF Typed, Metas, memVars, diskVars, boundVars
<1>6. OpPlaced'
  <2>1. op.at = "begun" => tool[Key] = "none" /\ Key \in Keys
    BY DEF Placed, OpPlaced
  <2>2. op.at = "begun" => tool'[Key] = "none"
    BY <1>1, <1>4, <2>1
  <2>3. Key' = Key
    BY <1>1 DEF Key
  <2> QED BY <1>1, <2>2, <2>3 DEF Placed, OpPlaced, Opening, Free, NextPaths, memVars, diskVars
<1>7. ASSUME NEW j \in Keys
      PROVE  StepPlaced(j)'
  <2>1. StepPlaced(j)
    BY DEF Placed
  <2> QED BY <1>1, <1>4, <2>1 DEF StepPlaced, Live, memVars, diskVars
<1> QED BY <1>1, <1>5, <1>6, <1>7 DEF Placed, memVars, diskVars

\* The step of a handle is on record, and so is what finish makes of it.
LEMMA FinishedIs ==
  ASSUME Placed, NEW k \in Keys, tool[k] # "none",
         NEW r \in {Committed(steps[k]), Interrupted(steps[k])}
  PROVE  /\ steps[k] \in Records /\ steps[k].status = "Prepared" /\ k[2] <= meta[k[1]].last
         /\ r \in Records /\ r.status \in {"Committed", "Interrupted"}
         /\ r.before = steps[k].before /\ Touched(r) = Touched(steps[k])
         /\ BlobsOf(r) = BlobsOf(steps[k])
<1>1. Typed /\ StepPlaced(k)
  BY DEF Placed
<1>2. steps[k].status = "Prepared" /\ k[2] <= meta[k[1]].last
  BY <1>1 DEF StepPlaced, Live
<1>3. steps[k] \in Records
  BY <1>1, <1>2, KeyIs, EntryIs DEF NoStep
<1>4. CASE r = Committed(steps[k])
  <2>1. file \in [Paths -> Held]
    BY <1>1 DEF Typed
  <2> QED BY <1>2, <1>3, <1>4, <2>1, CommittedIs
<1>5. CASE r = Interrupted(steps[k])
  <2>1. "Interrupted" \in Statuses
    BY DEF Statuses
  <2> QED BY <1>2, <1>3, <1>5, <2>1, StatusIs DEF Interrupted
<1> QED BY <1>4, <1>5

LEMMA FinishPlaces ==
  ASSUME Placed, NEW k \in Keys, Commit(k) \/ Abort(k)
  PROVE  Placed'
<1>1. PICK r \in {Committed(steps[k]), Interrupted(steps[k])} : Finish(k, r)
  BY DEF Commit, Abort
<1>2. tool[k] # "none" /\ op = Idle /\ Typed
  BY DEF Commit, Abort, Finish, Placed
<1>3. /\ steps' = [steps EXCEPT ![k] = r] /\ disk' = [disk EXCEPT ![k] = r]
      /\ tool' = [tool EXCEPT ![k] = "none"] /\ busy' = busy \ Touched(steps[k])
      /\ op' = [Idle EXCEPT !.at = "finished", !.session = k[1], !.seq = k[2]]
      /\ UNCHANGED <<file, meta, blobs, tick, diskMeta, diskBlobs, boundVars>>
  BY <1>1 DEF Finish, Release
<1>4. r \in Records /\ k[2] <= meta[k[1]].last /\ k[1] \in Sessions /\ k[2] \in 1..MaxSteps
  BY <1>2, FinishedIs, KeyIs
<1>5. op' \in Ops(op'.needed) /\ op'.at = "finished" /\ op'.session = k[1]
  <2>1. k[2] \in 0..MaxSteps /\ Idle \in Ops(Idle.needed)
    BY <1>4, IdleIs
  <2> HIDE DEF Idle
  <2> QED BY <1>3, <1>4, <2>1 DEF Ops
<1>6. /\ \A j \in Keys : j # k => /\ steps'[j] = steps[j] /\ disk'[j] = disk[j] /\ tool'[j] = tool[j]
      /\ tool'[k] = "none"
  BY <1>2, <1>3 DEF Typed
<1>7. Typed'
  BY <1>2, <1>3, <1>4, <1>5 DEF Typed, Metas, Entries, boundVars
<1>8. OpPlaced'
  BY <1>4, <1>5 DEF OpPlaced, Opening
<1>9. ASSUME NEW j \in Keys
      PROVE  StepPlaced(j)'
  <2>1. CASE j = k
    BY <1>3, <1>4, <1>6, <2>1 DEF StepPlaced, Live
  <2>2. CASE j # k
    BY <1>3, <1>6, <2>2 DEF Placed, StepPlaced, Live
  <2> QED BY <2>1, <2>2
<1> QED BY <1>3, <1>7, <1>8, <1>9 DEF Placed

LEMMA FinishFailsPlaces ==
  ASSUME Placed, NEW k \in Keys, CommitFails(k) \/ AbortFails(k)
  PROVE  Placed'
<1>1. PICK r \in {Committed(steps[k]), Interrupted(steps[k])}, next \in {"dropping", "none"} :
        tool[k] # "none" /\ FinishFails(k, r, next)
  BY DEF CommitFails, AbortFails
<1>2. /\ disk' \in {disk, [disk EXCEPT ![k] = r]} /\ Error /\ op = Idle /\ Typed
      /\ tool' = [tool EXCEPT ![k] = next] /\ busy' = busy \ Touched(steps[k])
      /\ UNCHANGED <<file, steps, meta, blobs, tick, diskMeta, diskBlobs, op>>
  BY <1>1 DEF FinishFails, Release, MaybeWritten, Placed
<1>3. r \in Records /\ steps[k].status = "Prepared" /\ k[2] <= meta[k[1]].last
  BY <1>1, FinishedIs
<1>4. /\ \A j \in Keys : j # k => disk'[j] = disk[j] /\ tool'[j] = tool[j]
      /\ tool'[k] = next
  BY <1>2 DEF Typed
<1>5. errors' \in 0..MaxErrors /\ edits' \in 0..MaxEdits
  BY <1>2, CountsAre
<1>6. Typed'
  BY <1>1, <1>2, <1>3, <1>5 DEF Typed, Metas, Entries
<1>7. OpPlaced'
  BY <1>2, OpIdle
<1>8. ASSUME NEW j \in Keys
      PROVE  StepPlaced(j)'
  <2>1. CASE j = k
    BY <1>2, <1>3, <1>4, <2>1 DEF StepPlaced, Live
  <2>2. CASE j # k
    BY <1>2, <1>4, <2>2 DEF Placed, StepPlaced, Live
  <2> QED BY <2>1, <2>2
<1> QED BY <1>2, <1>6, <1>7, <1>8 DEF Placed

LEMMA NewestIs ==
  ASSUME NEW N \in SUBSET (1..MaxSteps), N # {}
  PROVE  Newest(N) \in N /\ \A n \in N : n <= Newest(N)
<1>1. N \subseteq Nat /\ \A n \in N : n <= MaxSteps
  BY BoundsAre
<1> QED BY <1>1, BoundsAre, HighestIs DEF Newest

LEMMA UndoPlaces ==
  ASSUME Placed, NEW s \in Sessions, NEW N \in SUBSET (1..MaxSteps), Undo(s, N)
  PROVE  Placed'
<1>1. /\ N # {} /\ Undoable(s, N) /\ op = Idle /\ Typed
      /\ op' = [Idle EXCEPT !.at = "restore", !.session = s, !.todo = N, !.left = NextPaths(s, N)]
      /\ UNCHANGED <<file, memVars, diskVars, tool, boundVars>>
  BY DEF Undo, Placed
<1>2. NextPaths(s, N) \subseteq Paths
  <2>1. Newest(N) \in 1..MaxSteps
    BY <1>1, NewestIs
  <2>2. <<s, Newest(N)>> \in Keys
    BY <2>1 DEF Keys
  <2> QED BY <1>1, <2>2, KeyIs, EntryIs DEF NextPaths
<1>3. /\ op' \in Ops(op'.needed) /\ op'.at = "restore" /\ op'.session = s /\ op'.todo = N
      /\ op'.left = NextPaths(s, N)
  <2>1. Idle \in Ops(Idle.needed)
    BY IdleIs
  <2> HIDE DEF Idle, NextPaths
  <2> QED BY <1>1, <1>2, <2>1 DEF Ops
<1>4. OpPlaced'
  BY <1>1, <1>3 DEF OpPlaced, Opening, Undoable, NextPaths, memVars
<1> QED BY <1>1, <1>3, <1>4, OpMoves DEF Typed, boundVars

\* The step whose paths are being restored.
LEMMA UndoingIs ==
  ASSUME Placed, op.at = "restore", op.todo # {}
  PROVE  /\ Undoing \in Keys /\ Undoing = <<op.session, Newest(op.todo)>>
         /\ Undoing[1] = op.session /\ Undoing[2] = Newest(op.todo)
         /\ op.session \in Sessions /\ op.todo \subseteq 1..MaxSteps
         /\ Newest(op.todo) \in op.todo /\ \A n \in op.todo : n <= Newest(op.todo)
         /\ steps[Undoing].status \in {"Committed", "Interrupted"} /\ steps[Undoing] \in Records
         /\ op.left \subseteq Touched(steps[Undoing]) /\ Touched(steps[Undoing]) \subseteq Paths
         /\ NextPaths(op.session, op.todo) = Touched(steps[Undoing])
         /\ steps[Undoing].before \in [Touched(steps[Undoing]) -> Held]
<1>1. op.session \in Sessions /\ op.todo \subseteq 1..MaxSteps /\ Typed
  BY DEF Placed, OpPlaced, Typed, Ops
<1>2. Newest(op.todo) \in op.todo /\ \A n \in op.todo : n <= Newest(op.todo)
  BY <1>1, NewestIs
<1>3. Undoing \in Keys
  BY <1>1, <1>2 DEF Undoing, Keys
<1>4. steps[Undoing].status \in {"Committed", "Interrupted"}
  BY <1>2 DEF Undoing, Placed, OpPlaced
<1>5. steps[Undoing] \in Records
  BY <1>1, <1>3, <1>4, KeyIs, EntryIs DEF NoStep
<1>6. NextPaths(op.session, op.todo) = Touched(steps[Undoing])
  BY DEF NextPaths, Undoing
<1>7. op.left \subseteq NextPaths(op.session, op.todo)
  BY DEF Placed, OpPlaced
<1> QED BY <1>1, <1>2, <1>3, <1>4, <1>5, <1>6, <1>7, EntryIs DEF Undoing, Entries

LEMMA RestorePlaces ==
  ASSUME Placed, NEW p \in op.left, Restore(p) \/ RestoreFails(p)
  PROVE  Placed'
<1>1. /\ op.at = "restore" /\ Typed /\ file' \in {file, [file EXCEPT ![p] = Before(p)]}
      /\ UNCHANGED <<memVars, diskVars, tool>>
  BY DEF Restore, RestoreFails, MaybeWritten, Placed
<1>2. op.todo # {}
  BY <1>1 DEF Placed, OpPlaced, NextPaths
<1>3. p \in Paths /\ Before(p) \in Held
  BY <1>1, <1>2, UndoingIs DEF Before
<1>4. file' \in [Paths -> Held]
  BY <1>1, <1>3 DEF Typed
<1>5. errors' \in 0..MaxErrors /\ edits' \in 0..MaxEdits
  BY <1>1, CountsAre DEF Restore, RestoreFails, boundVars
<1>6. op' \in Ops(op'.needed) /\ OpPlaced'
  <2>1. CASE RestoreFails(p)
    BY <2>1, OpIdle DEF RestoreFails
  <2>2. CASE Restore(p)
    <3>1. op' = [op EXCEPT !.left = op.left \ {p}]
      BY <2>2 DEF Restore
    <3>2. /\ op' \in Ops(op'.needed) /\ op'.todo = op.todo /\ op'.left = op.left \ {p}
          /\ op'.at = op.at /\ op'.session = op.session
      <4>1. op \in Ops(op.needed) /\ op.left \ {p} \in SUBSET Paths
        BY <1>1 DEF Typed, Ops
      <4> QED BY <3>1, <4>1 DEF Ops
    <3> QED BY <1>1, <3>2 DEF Placed, OpPlaced, Opening, NextPaths, memVars
  <2> QED BY <2>1, <2>2
<1> QED BY <1>1, <1>4, <1>5, <1>6, OpMoves

LEMMA MarkUndonePlaces ==
  ASSUME Placed, MarkUndone
  PROVE  Placed'
<1> DEFINE k == Undoing
           r == [steps[k] EXCEPT !.status = "Undone"]
           rest == op.todo \ {Newest(op.todo)}
<1>1. /\ op.at = "restore" /\ op.todo # {} /\ Typed
      /\ steps' = [steps EXCEPT ![k] = r] /\ disk' = [disk EXCEPT ![k] = Undone(steps)[k]]
      /\ op' = [op EXCEPT !.todo = rest, !.left = NextPaths(op.session, rest)]
      /\ UNCHANGED <<file, meta, blobs, busy, tick, diskMeta, diskBlobs, tool, boundVars>>
  BY DEF MarkUndone, Undone, Placed
<1>2. /\ k \in Keys /\ k[1] = op.session /\ k[2] = Newest(op.todo) /\ op.session \in Sessions
      /\ op.todo \subseteq 1..MaxSteps /\ Newest(op.todo) \in op.todo
      /\ steps[k].status \in {"Committed", "Interrupted"} /\ steps[k] \in Records
  BY <1>1, UndoingIs
<1>3. Undone(steps)[k] = r
  BY <1>1, <1>2 DEF Undone, Typed
<1> HIDE DEF k
<1>4. r \in Records /\ r.status = "Undone" /\ Touched(r) = Touched(steps[k])
  BY <1>2, StatusIs DEF Statuses
<1> HIDE DEF r
<1>5. /\ steps'[k] = r /\ disk'[k] = r
      /\ \A j \in Keys : j # k => steps'[j] = steps[j] /\ disk'[j] = disk[j]
  BY <1>1, <1>2, <1>3 DEF Typed
<1>6. rest \subseteq 1..MaxSteps /\ NextPaths(op.session, rest) \subseteq Paths
  <2>1. rest \subseteq 1..MaxSteps
    BY <1>2
  <2>2. CASE rest = {}
    BY <2>1, <2>2 DEF NextPaths
  <2>3. CASE rest # {}
    <3> HIDE DEF rest
    <3>1. Newest(rest) \in 1..MaxSteps
      BY <2>1, <2>3, NewestIs
    <3>2. <<op.session, Newest(rest)>> \in Keys
      BY <1>2, <3>1 DEF Keys
    <3> QED BY <1>1, <2>1, <3>2, KeyIs, EntryIs DEF NextPaths
  <2> QED BY <2>2, <2>3
<1>7. /\ op' \in Ops(op'.needed) /\ op'.todo = rest /\ op'.left = NextPaths(op.session, rest)
      /\ op'.at = op.at /\ op'.session = op.session
  <2>1. op \in Ops(op.needed)
    BY <1>1 DEF Typed
  <2> HIDE DEF rest, NextPaths
  <2> QED BY <1>1, <1>6, <2>1 DEF Ops
<1>8. \A n \in rest : /\ <<op.session, n>> \in Keys
                      /\ steps'[<<op.session, n>>] = steps[<<op.session, n>>]
  BY <1>2, <1>5, <1>6 DEF Keys
<1>9. (op'.left \subseteq NextPaths(op.session, op.todo)')
  <2> HIDE DEF rest
  <2>1. CASE rest = {}
    BY <2>1, <1>7 DEF NextPaths
  <2>2. CASE rest # {}
    <3>1. Newest(rest) \in rest
      BY <2>2, <1>6, NewestIs
    <3>2. steps'[<<op.session, Newest(rest)>>] = steps[<<op.session, Newest(rest)>>]
      BY <1>8, <3>1
    <3>3. op'.left = Touched(steps'[<<op.session, Newest(rest)>>])
      BY <1>7, <2>2, <3>2 DEF NextPaths
    <3>4. NextPaths(op.session, op.todo)' = Touched(steps'[<<op'.session, Newest(op'.todo)>>])
      BY <1>7, <2>2 DEF NextPaths
    <3> QED BY <3>3, <3>4, <1>7
  <2> QED BY <2>1, <2>2
<1>10. Typed'
  BY <1>1, <1>2, <1>3, <1>4, <1>7 DEF Typed, Metas, Entries, boundVars
<1>11. OpPlaced'
  <2>1. \A n \in op'.todo : steps'[<<op'.session, n>>].status \in {"Committed", "Interrupted"}
    BY <1>1, <1>7, <1>8 DEF Placed, OpPlaced
  <2>2. op'.at = "restore" /\ op'.session \in Sessions
    BY <1>1, <1>2, <1>7
  <2> QED BY <1>9, <2>1, <2>2 DEF OpPlaced, Opening
<1>12. ASSUME NEW j \in Keys
       PROVE  StepPlaced(j)'
  <2>1. CASE j = k
    <3>1. tool[k] \in {"none", "working", "acted", "dropping"} /\ k[2] <= meta[k[1]].last /\ tool[k] = "none"
      BY <1>1, <1>2 DEF Placed, StepPlaced, Live, Typed
    <3> QED BY <2>1, <3>1, <1>1, <1>5 DEF StepPlaced, Live
  <2>2. CASE j # k
    BY <1>1, <1>5, <2>2 DEF Placed, StepPlaced, Live
  <2> QED BY <2>1, <2>2
<1> QED BY <1>1, <1>10, <1>11, <1>12 DEF Placed

LEMMA MarkUndoneFailsPlaces ==
  ASSUME Placed, MarkUndoneFails
  PROVE  Placed'
<1> DEFINE k == Undoing
           r == [steps[k] EXCEPT !.status = "Undone"]
<1>1. /\ op.at = "restore" /\ op.todo # {} /\ Typed /\ Error /\ op' = Idle
      /\ disk' \in {disk, [disk EXCEPT ![k] = Undone(steps)[k]]}
      /\ UNCHANGED <<file, memVars, diskMeta, diskBlobs, tool>>
  BY DEF MarkUndoneFails, MaybeWritten, Placed
<1>2. k \in Keys /\ steps[k].status \in {"Committed", "Interrupted"} /\ steps[k] \in Records
  BY <1>1, UndoingIs
<1>3. Undone(steps)[k] = r
  BY <1>1, <1>2 DEF Undone, Typed
<1> HIDE DEF k
<1>4. r \in Records
  BY <1>2, StatusIs DEF Statuses
<1> HIDE DEF r
<1>5. \A j \in Keys : j # k => disk'[j] = disk[j]
  BY <1>1, <1>2 DEF Typed
<1>6. errors' \in 0..MaxErrors /\ edits' \in 0..MaxEdits
  BY <1>1, CountsAre
<1>7. op' \in Ops(op'.needed) /\ OpPlaced'
  BY <1>1, OpIdle
<1>8. Typed'
  BY <1>1, <1>3, <1>4, <1>6, <1>7 DEF Typed, Metas, Entries, memVars
<1>9. ASSUME NEW j \in Keys
      PROVE  StepPlaced(j)'
  <2>1. CASE j = k
    <3>1. tool[k] = "none" /\ k[2] <= meta[k[1]].last
      BY <1>1, <1>2 DEF Placed, StepPlaced, Live, Typed
    <3> QED BY <2>1, <3>1, <1>1 DEF StepPlaced, Live, memVars
  <2>2. CASE j # k
    BY <1>1, <1>5, <2>2 DEF Placed, StepPlaced, Live, memVars
  <2> QED BY <2>1, <2>2
<1> QED BY <1>1, <1>7, <1>8, <1>9 DEF Placed, memVars

LEMMA EditPlaces ==
  ASSUME Placed, NEW p \in Paths, NEW c \in Held, Edit(p, c)
  PROVE  Placed'
<1>1. /\ Typed /\ edits < MaxEdits /\ edits' = edits + 1 /\ file' = [file EXCEPT ![p] = c]
      /\ UNCHANGED <<memVars, diskVars, op, tool, errors>>
  BY DEF Edit, Placed
<1>2. edits' \in 0..MaxEdits /\ errors' \in 0..MaxErrors /\ file' \in [Paths -> Held]
  BY <1>1, BoundsAre DEF Typed
<1>3. OpPlaced' /\ op' \in Ops(op'.needed)
  BY <1>1 DEF Placed, OpPlaced, Opening, Free, NextPaths, Key, memVars, diskVars, Typed
<1> QED BY <1>1, <1>2, <1>3, OpMoves

\* What a process that opens the store reads.
LEMMA LoadedIs ==
  ASSUME Placed
  PROVE  /\ Loaded \in [Keys -> Entries]
         /\ \A k \in Keys :
              /\ Touched(Loaded[k]) = Touched(disk[k]) /\ BlobsOf(Loaded[k]) = BlobsOf(disk[k])
              /\ Loaded[k].before = disk[k].before /\ Loaded[k].post = disk[k].post
              /\ Loaded[k].status = IF disk[k].status = "Prepared" THEN "Interrupted" ELSE disk[k].status
         /\ LoadedMeta \in [Sessions -> [used : Nat, last : 0..MaxSteps, pruned : 0..MaxSteps]]
         /\ \A s \in Sessions :
              /\ LoadedMeta[s].used = diskMeta[s].used /\ LoadedMeta[s].pruned = diskMeta[s].pruned
              /\ diskMeta[s].last <= LoadedMeta[s].last
              /\ LoadedMeta[s].last \in {diskMeta[s].last} \cup Seqs(disk, s)
              /\ \A n \in Seqs(disk, s) : n <= LoadedMeta[s].last
<1>1. Typed
  BY DEF Placed
<1>2. ASSUME NEW k \in Keys
      PROVE  /\ Loaded[k] \in Entries
             /\ Touched(Loaded[k]) = Touched(disk[k]) /\ BlobsOf(Loaded[k]) = BlobsOf(disk[k])
             /\ Loaded[k].before = disk[k].before /\ Loaded[k].post = disk[k].post
             /\ Loaded[k].status = IF disk[k].status = "Prepared" THEN "Interrupted" ELSE disk[k].status
  <2>1. disk[k] \in Entries
    BY <1>1, KeyIs
  <2>2. CASE disk[k].status = "Prepared"
    <3>1. Loaded[k] = [disk[k] EXCEPT !.status = "Interrupted"]
      BY <2>2 DEF Loaded, Interrupted
    <3>2. disk[k] \in Records
      BY <2>1, <2>2, EntryIs DEF NoStep
    <3>3. "Interrupted" \in Statuses
      BY DEF Statuses
    <3>4. /\ Loaded[k] \in Records /\ Loaded[k].status = "Interrupted"
          /\ Loaded[k].before = disk[k].before /\ Loaded[k].post = disk[k].post
          /\ Touched(Loaded[k]) = Touched(disk[k]) /\ BlobsOf(Loaded[k]) = BlobsOf(disk[k])
      BY <3>1, <3>2, <3>3, StatusIs
    <3> QED BY <2>2, <3>4 DEF Entries
  <2>3. CASE disk[k].status # "Prepared"
    <3>1. Loaded[k] = disk[k]
      BY <2>3 DEF Loaded
    <3> QED BY <2>1, <2>3, <3>1
  <2> QED BY <2>2, <2>3
<1>3. Loaded \in [Keys -> Entries]
  <2>1. Loaded = [k \in Keys |-> Loaded[k]]
    BY DEF Loaded
  <2> HIDE DEF Loaded
  <2> QED BY <1>2, <2>1
<1>4. ASSUME NEW s \in Sessions
      PROVE  /\ LoadedMeta[s] \in [used : Nat, last : 0..MaxSteps, pruned : 0..MaxSteps]
             /\ LoadedMeta[s].used = diskMeta[s].used /\ LoadedMeta[s].pruned = diskMeta[s].pruned
             /\ diskMeta[s].last <= LoadedMeta[s].last
             /\ LoadedMeta[s].last \in {diskMeta[s].last} \cup Seqs(disk, s)
             /\ \A n \in Seqs(disk, s) : n <= LoadedMeta[s].last
  <2> DEFINE N == {diskMeta[s].last} \cup Seqs(disk, s)
             h == Highest(N)
  <2>1. diskMeta[s] \in [used : Nat, last : 0..MaxSteps, pruned : 0..MaxSteps]
    <3>1. diskMeta[s] \in Metas /\ tick \in Nat
      BY <1>1 DEF Typed
    <3>2. 0..tick \subseteq Nat
      BY <3>1
    <3> QED BY <3>1, <3>2 DEF Metas
  <2>2. N \subseteq Nat /\ N # {} /\ \A n \in N : n <= MaxSteps /\ n \in 0..MaxSteps
    BY <2>1, BoundsAre, SeqIs
  <2>3. h \in N /\ \A n \in N : n <= h
    <3> HIDE DEF N
    <3> QED BY <2>2, BoundsAre, HighestIs
  <2>4. LoadedMeta[s] = [diskMeta[s] EXCEPT !.last = h]
    BY DEF LoadedMeta
  <2>5. h \in 0..MaxSteps
    BY <2>2, <2>3
  <2> HIDE DEF h
  <2>6. /\ LoadedMeta[s] \in [used : Nat, last : 0..MaxSteps, pruned : 0..MaxSteps]
        /\ LoadedMeta[s].last = h
        /\ LoadedMeta[s].used = diskMeta[s].used /\ LoadedMeta[s].pruned = diskMeta[s].pruned
    BY <2>1, <2>4, <2>5
  <2> QED BY <2>3, <2>6
<1>5. LoadedMeta \in [Sessions -> [used : Nat, last : 0..MaxSteps, pruned : 0..MaxSteps]]
  <2>1. LoadedMeta = [s \in Sessions |-> LoadedMeta[s]]
    BY DEF LoadedMeta
  <2> HIDE DEF LoadedMeta
  <2> QED BY <1>4, <2>1
<1> QED BY <1>2, <1>3, <1>4, <1>5

LEMMA CrashPlaces ==
  ASSUME Placed, CrashAndOpen
  PROVE  Placed'
<1>1. /\ Typed /\ steps' = Loaded /\ disk' = Loaded /\ meta' = LoadedMeta
      /\ blobs' = diskBlobs \cap Referenced(Loaded) /\ diskBlobs' = blobs'
      /\ busy' = {} /\ tick' = Highest({0} \cup {diskMeta[s].used : s \in Sessions})
      /\ op' = Idle /\ tool' = [k \in Keys |-> "none"]
      /\ UNCHANGED <<file, diskMeta, errors, edits>>
  BY DEF CrashAndOpen, Placed
<1>2. tick' \in Nat /\ \A s \in Sessions : diskMeta[s].used \in 0..tick'
  <2> DEFINE U == {0} \cup {diskMeta[s].used : s \in Sessions}
  <2>1. \A s \in Sessions : diskMeta[s].used \in 0..tick
    BY <1>1 DEF Typed, Metas
  <2>2. U \subseteq Nat /\ U # {} /\ tick \in Nat /\ \A u \in U : u <= tick
    BY <1>1, <2>1 DEF Typed
  <2>3. tick' \in U /\ \A u \in U : u <= tick'
    <3>1. tick' = Highest(U)
      BY <1>1
    <3> HIDE DEF U
    <3> QED BY <2>2, <3>1, HighestIs
  <2> QED BY <2>2, <2>3
<1>3. /\ meta' \in [Sessions -> Metas'] /\ diskMeta' \in [Sessions -> Metas']
  <2>1. \A s \in Sessions : diskMeta[s] \in Metas'
    <3> SUFFICES ASSUME NEW s \in Sessions PROVE diskMeta[s] \in Metas'
      OBVIOUS
    <3>1. diskMeta[s] \in Metas
      BY <1>1 DEF Typed
    <3> QED BY <1>2, <3>1 DEF Metas
  <2>2. \A s \in Sessions : LoadedMeta[s] \in Metas'
    <3> SUFFICES ASSUME NEW s \in Sessions PROVE LoadedMeta[s] \in Metas'
      OBVIOUS
    <3>1. /\ LoadedMeta[s] \in [used : Nat, last : 0..MaxSteps, pruned : 0..MaxSteps]
          /\ LoadedMeta[s].used \in 0..tick'
      BY <1>2, LoadedIs
    <3> QED BY <3>1 DEF Metas
  <2>3. /\ LoadedMeta = [s \in Sessions |-> LoadedMeta[s]]
        /\ diskMeta = [s \in Sessions |-> diskMeta[s]]
    BY <1>1, LoadedIs DEF Typed
  <2> QED BY <1>1, <2>1, <2>2, <2>3
<1>4. op' \in Ops(op'.needed) /\ OpPlaced'
  BY <1>1, OpIdle
<1>5. Typed'
  BY <1>1, <1>2, <1>3, <1>4, LoadedIs DEF Typed
<1>6. ASSUME NEW k \in Keys
      PROVE  StepPlaced(k)'
  <2>1. tool'[k] = "none" /\ k[1] \in Sessions /\ k = <<k[1], k[2]>>
    BY <1>1, KeyIs
  <2>2. ASSUME Loaded[k].status # "none" PROVE k[2] <= LoadedMeta[k[1]].last
    <3>1. disk[k].status # "none"
      BY <2>2, LoadedIs
    <3>2. k[2] \in Seqs(disk, k[1])
      BY <2>1, <3>1, SeqIs
    <3> QED BY <2>1, <3>2, LoadedIs
  <2> HIDE DEF Loaded, LoadedMeta
  <2> QED BY <1>1, <2>1, <2>2 DEF StepPlaced, Live
<1>7. \A s \in Sessions : diskMeta'[s].last <= meta'[s].last
  BY <1>1, LoadedIs
<1> QED BY <1>4, <1>5, <1>6, <1>7 DEF Placed

LEMMA InitPlaces ==
  ASSUME Init
  PROVE  Placed
<1>1. Typed
  BY NoStepIs, IdleIs, BoundsAre DEF Init, Typed, Metas
<1>2. OpPlaced
  BY IdleIs DEF Init, OpPlaced, Opening
<1>3. \A k \in Keys : StepPlaced(k)
  BY NoStepIs DEF Init, StepPlaced, Live
<1>4. \A s \in Sessions : diskMeta[s].last <= meta[s].last
  BY DEF Init
<1> QED BY <1>1, <1>2, <1>3, <1>4 DEF Placed

\* Every action, one by one: what a property has to be proved about.
LEMMA Actions ==
  ASSUME Next
  PROVE  \/ \E s \in Sessions, change \in Changes : Begin(s, change)
         \/ HasRoom \/ StoreFull \/ EvictFails \/ (\E k \in Victims : Evict(k))
         \/ RecordEviction \/ RecordEvictionFails \/ Install \/ InstallFails
         \/ WriteManifest \/ WriteManifestFails \/ Touch \/ TouchFails
         \/ (\E k \in Keys : Act(k))
         \/ (\E k \in Keys : Commit(k) \/ Abort(k))
         \/ (\E k \in Keys : CommitFails(k) \/ AbortFails(k))
         \/ (\E s \in Sessions, N \in SUBSET (1..MaxSteps) :
               Undo(s, N) /\ (N = NotUndone(s) \/ StepUndo))
         \/ (\E p \in op.left : Restore(p)) \/ (\E p \in op.left : RestoreFails(p))
         \/ MarkUndone \/ MarkUndoneFails
         \/ (\E p \in Paths, c \in Held : Edit(p, c))
         \/ CrashAndOpen
<1>1. \A s \in Sessions : UndoSession(s) =>
        \E N \in SUBSET (1..MaxSteps) : Undo(s, N) /\ (N = NotUndone(s) \/ StepUndo)
  <2>1. \A s \in Sessions : NotUndone(s) \in SUBSET (1..MaxSteps)
    BY SeqIs DEF NotUndone
  <2> QED BY <2>1 DEF UndoSession
<1>2. \A s \in Sessions, n \in 1..MaxSteps : UndoStepOf(s, n) =>
        \E N \in SUBSET (1..MaxSteps) : Undo(s, N) /\ (N = NotUndone(s) \/ StepUndo)
  BY DEF UndoStepOf
<1>3. UndoSteps =>
         \/ \E s \in Sessions, N \in SUBSET (1..MaxSteps) : Undo(s, N) /\ (N = NotUndone(s) \/ StepUndo)
         \/ (\E p \in op.left : Restore(p)) \/ MarkUndone
  BY <1>1, <1>2 DEF UndoSteps
<1> QED BY <1>3 DEF Next, BeginStep, FinishStep, IoError

LEMMA NextPlaces ==
  ASSUME Placed, [Next]_vars
  PROVE  Placed'
<1>1. CASE UNCHANGED vars
  <2>1. Typed' /\ OpPlaced'
    BY <1>1 DEF Placed, Typed, OpPlaced, Opening, Free, NextPaths, Key, Metas,
                vars, memVars, diskVars, boundVars
  <2>2. \A k \in Keys : StepPlaced(k)'
    BY <1>1 DEF Placed, StepPlaced, Live, vars, memVars, diskVars
  <2> QED BY <1>1, <2>1, <2>2 DEF Placed, vars, memVars, diskVars
<1>2. CASE Next
  BY <1>2, Actions, BeginPlaces, HasRoomPlaces, StoppedPlaces, EvictPlaces, RecordEvictionPlaces,
     InstallPlaces, WriteManifestPlaces, WriteManifestFailsPlaces, TouchPlaces, ActPlaces,
     FinishPlaces, FinishFailsPlaces, UndoPlaces, RestorePlaces, MarkUndonePlaces,
     MarkUndoneFailsPlaces, EditPlaces, CrashPlaces
<1> QED BY <1>1, <1>2

LEMMA PlacedTypes ==
  ASSUME Placed
  PROVE  TypeOK
<1>1. Typed
  BY DEF Placed
<1>2. ASSUME NEW f \in {steps, disk}, NEW k \in Keys
      PROVE  /\ f[k].status \in Statuses \cup {"none"}
             /\ f[k].before \in States /\ f[k].post \in [Touched(f[k]) -> Held]
             /\ (f[k].status = "none") = (f[k] = NoStep)
  <2>1. f[k] \in Entries
    BY <1>1 DEF Typed
  <2> QED BY <2>1, EntryIs
<1>3. op.at \in {"idle", "fit", "evicted", "install", "manifest", "begun", "finished", "restore"}
      /\ op.left \subseteq Paths /\ op.todo \subseteq 1..MaxSteps
  BY <1>1 DEF Typed, Ops
<1> QED BY <1>1, <1>2, <1>3 DEF Typed, TypeOK, Metas

-----------------------------------------------------------------------------
(* The second layer: who has a path, while no write failed *)

LEMMA NoErrors ==
  ASSUME Typed, Error
  PROVE  errors' # 0
BY BoundsAre DEF Typed, Error

\* Where the steps and the busy paths stay, and nobody begins or ends one.
LEMMA ApartStays ==
  ASSUME Apart, steps' = steps, disk' = disk, busy' = busy, Referenced(steps) \subseteq diskBlobs',
         \A k \in Keys : InFlight(k)' <=> InFlight(k),
         op'.at = "restore" => \A n \in op'.todo : Free(steps[<<op'.session, n>>])
  PROVE  Apart'
<1>1. Referenced(steps)' = Referenced(steps)
  BY DEF Referenced
<1>3. op'.at = "restore" => \A n \in op'.todo : Touched(steps'[<<op'.session, n>>]) \cap busy' = {}
  BY DEF Free
<1>4. /\ \A k \in Keys : InFlight(k)' <=> steps'[k].status = "Prepared"
      /\ \A k \in Keys : InFlight(k)' => Touched(steps'[k]) \subseteq busy'
  BY DEF Apart
<1>5. \A j, k \in Keys : InFlight(j)' /\ InFlight(k)' /\ j # k
        => Touched(steps'[j]) \cap Touched(steps'[k]) = {}
  BY DEF Apart
<1>6. \A p \in busy' : \E k \in Keys : InFlight(k)' /\ p \in Touched(steps'[k])
  BY DEF Apart
<1>7. disk' = steps' /\ Referenced(steps)' \subseteq diskBlobs'
  BY <1>1 DEF Apart
<1> QED BY <1>3, <1>4, <1>5, <1>6, <1>7 DEF Apart, Free

LEMMA QuietApart ==
  ASSUME Placed, Apart,
         \/ \E s \in Sessions, change \in Changes : Begin(s, change)
         \/ HasRoom \/ StoreFull \/ RecordEviction \/ Install
         \/ \E k \in Keys : Act(k)
         \/ \E s \in Sessions, N \in SUBSET (1..MaxSteps) : Undo(s, N)
         \/ \E p \in op.left : Restore(p)
         \/ \E p \in Paths, c \in Held : Edit(p, c)
  PROVE  Apart'
<1>1. steps' = steps /\ disk' = disk /\ busy' = busy
  BY DEF Begin, HasRoom, StoreFull, RecordEviction, Install, Act, Undo, Restore, Edit, memVars, diskVars
<1>2. Referenced(steps) \subseteq diskBlobs'
  <2>1. CASE RecordEviction
    <3>1. diskBlobs' = diskBlobs \ Dead(steps)
      BY <2>1 DEF RecordEviction, Collect
    <3> QED BY <3>1 DEF Apart, Dead
  <2>2. CASE Install
    BY <2>2 DEF Install, Apart
  <2>3. CASE diskBlobs' = diskBlobs
    BY <2>3 DEF Apart
  <2> QED BY <2>1, <2>2, <2>3
          DEF Begin, HasRoom, StoreFull, Act, Undo, Restore, Edit, diskVars
<1>3. \A k \in Keys : InFlight(k)' <=> InFlight(k)
  <2> SUFFICES ASSUME NEW k \in Keys PROVE InFlight(k)' <=> InFlight(k)
    OBVIOUS
  <2>1. tool'[k] = "none" <=> tool[k] = "none"
    <3>1. CASE \E j \in Keys : Act(j)
      BY <3>1 DEF Act, Placed, Typed
    <3>2. CASE tool' = tool
      BY <3>2
    <3> QED BY <3>1, <3>2 DEF Begin, HasRoom, StoreFull, RecordEviction, Install, Undo, Restore, Edit
  <2>2. \/ op' = op
        \/ op.at # "begun" /\ op'.at # "begun"
    <3>1. op \in Ops(op.needed)
      BY DEF Placed, Typed
    <3>2. CASE \E s \in Sessions, change \in Changes : Begin(s, change)
      BY <3>2, IdleIs DEF Begin, Idle
    <3>3. CASE HasRoom \/ StoreFull \/ RecordEviction \/ Install
      BY <3>1, <3>3, IdleIs DEF HasRoom, StoreFull, RecordEviction, Install, Ops
    <3>4. CASE \E s \in Sessions, N \in SUBSET (1..MaxSteps) : Undo(s, N)
      <4> SUFFICES ASSUME NEW s \in Sessions, NEW N \in SUBSET (1..MaxSteps), Undo(s, N)
                   PROVE  op.at # "begun" /\ op'.at # "begun"
        BY <3>4
      <4>1. op = Idle
            /\ op' = [Idle EXCEPT !.at = "restore", !.session = s, !.todo = N, !.left = NextPaths(s, N)]
        BY DEF Undo
      <4> HIDE DEF NextPaths
      <4> QED BY <4>1 DEF Idle
    <3>5. CASE \E p \in op.left : Restore(p)
      BY <3>1, <3>5 DEF Restore, Ops
    <3> QED BY <3>2, <3>3, <3>4, <3>5 DEF Act, Edit
  <2> QED BY <2>1, <2>2 DEF InFlight, Live, Key
<1>4. op'.at = "restore" => \A n \in op'.todo : Free(steps[<<op'.session, n>>])
  <2>1. op \in Ops(op.needed)
    BY DEF Placed, Typed
  <2>2. CASE \E s \in Sessions, change \in Changes : Begin(s, change)
    BY <2>2 DEF Begin, Idle
  <2>3. CASE HasRoom \/ StoreFull \/ RecordEviction \/ Install
    BY <2>1, <2>3, IdleIs DEF HasRoom, StoreFull, RecordEviction, Install, Ops
  <2>4. ASSUME NEW s \in Sessions, NEW N \in SUBSET (1..MaxSteps), Undo(s, N)
        PROVE  \A n \in op'.todo : Free(steps[<<op'.session, n>>])
    <3>1. op' = [Idle EXCEPT !.at = "restore", !.session = s, !.todo = N, !.left = NextPaths(s, N)]
          /\ Undoable(s, N)
      BY <2>4 DEF Undo
    <3>2. op'.todo = N /\ op'.session = s
      <4> HIDE DEF NextPaths
      <4> QED BY <3>1 DEF Idle
    <3> QED BY <3>1, <3>2 DEF Undoable
  <2>5. CASE \E p \in op.left : Restore(p)
    <3>1. op'.todo = op.todo /\ op'.session = op.session /\ op.at = "restore"
      BY <2>1, <2>5 DEF Restore, Ops
    <3> QED BY <3>1 DEF Apart
  <2>6. CASE op' = op
    BY <2>6 DEF Apart
  <2> QED BY <2>2, <2>3, <2>4, <2>5, <2>6 DEF Act, Edit
<1> QED BY <1>1, <1>2, <1>3, <1>4, ApartStays

\* Where one step that is not in flight gets another entry with no more snapshots.
LEMMA ApartReplaced ==
  ASSUME Apart, NEW k \in Keys, NEW r, ~InFlight(k), r.status # "Prepared",
         BlobsOf(r) \subseteq BlobsOf(steps[k]),
         steps'[k] = r, \A j \in Keys : j # k => steps'[j] = steps[j], disk' = steps',
         busy' = busy, diskBlobs' = diskBlobs,
         \A j \in Keys : InFlight(j)' <=> InFlight(j),
         op'.at = "restore" => \A n \in op'.todo : Free(steps'[<<op'.session, n>>])
  PROVE  Apart'
<1>1. \A j \in Keys : BlobsOf(steps'[j]) \subseteq BlobsOf(steps[j])
  OBVIOUS
<1>2. Referenced(steps)' \subseteq diskBlobs'
  BY <1>1 DEF Apart, Referenced
<1>3. \A j \in Keys : InFlight(j) => steps'[j] = steps[j] /\ j # k
  OBVIOUS
<1>4. \A j \in Keys : InFlight(j)' <=> steps'[j].status = "Prepared"
  BY <1>3 DEF Apart
<1>5. /\ \A j \in Keys : InFlight(j)' => Touched(steps'[j]) \subseteq busy'
      /\ \A i, j \in Keys : InFlight(i)' /\ InFlight(j)' /\ i # j
           => Touched(steps'[i]) \cap Touched(steps'[j]) = {}
      /\ \A p \in busy' : \E j \in Keys : InFlight(j)' /\ p \in Touched(steps'[j])
  BY <1>3 DEF Apart
<1>6. op'.at = "restore" => \A n \in op'.todo : Touched(steps'[<<op'.session, n>>]) \cap busy' = {}
  BY DEF Free
<1> QED BY <1>2, <1>4, <1>5, <1>6 DEF Apart, Free

LEMMA EvictApart ==
  ASSUME Placed, Apart, NEW k \in Victims, Evict(k)
  PROVE  Apart'
<1>1. k \in Keys /\ steps[k].status # "Prepared" /\ Typed
  BY VictimIs DEF Placed
<1>2. /\ op.at = "fit" /\ steps' = [steps EXCEPT ![k] = NoStep] /\ disk' = [disk EXCEPT ![k] = NoStep]
      /\ op' = [op EXCEPT !.at = "evicted", !.victim = k[1]]
      /\ busy' = busy /\ diskBlobs' = diskBlobs /\ tool' = tool
  BY DEF Evict
<1>3. op'.at = "evicted"
  BY <1>1, <1>2 DEF Typed, Ops
<1>4. /\ steps'[k] = NoStep /\ \A j \in Keys : j # k => steps'[j] = steps[j]
      /\ disk' = steps'
  BY <1>1, <1>2 DEF Typed, Apart
<1>5. \A j \in Keys : InFlight(j)' <=> InFlight(j)
  BY <1>2, <1>3 DEF InFlight, Live
<1>6. ~InFlight(k)
  BY <1>1 DEF Apart
<1> QED BY <1>1, <1>2, <1>3, <1>4, <1>5, <1>6, NoStepIs, ApartReplaced

\* What marking a step undone changes.
LEMMA UndoneIs ==
  ASSUME Placed, MarkUndone
  PROVE  /\ op.at = "restore" /\ op.todo # {} /\ op.left = {}
         /\ Undoing \in Keys /\ steps'[Undoing] \in Records /\ steps'[Undoing].status = "Undone"
         /\ steps'[Undoing].before = steps[Undoing].before
         /\ steps'[Undoing].post = steps[Undoing].post
         /\ Touched(steps'[Undoing]) = Touched(steps[Undoing])
         /\ BlobsOf(steps'[Undoing]) = BlobsOf(steps[Undoing])
         /\ \A j \in Keys : j # Undoing => steps'[j] = steps[j]
         /\ disk = steps => disk' = steps'
         /\ op'.at = "restore" /\ op'.session = op.session
         /\ op'.todo = op.todo \ {Newest(op.todo)}
         /\ op'.left = NextPaths(op.session, op.todo \ {Newest(op.todo)})
         /\ UNCHANGED <<file, meta, blobs, busy, tick, diskMeta, diskBlobs, tool, boundVars>>
<1> DEFINE k == Undoing
           r == [steps[k] EXCEPT !.status = "Undone"]
           rest == op.todo \ {Newest(op.todo)}
<1>1. /\ op.at = "restore" /\ op.todo # {} /\ op.left = {} /\ Typed
      /\ steps' = [steps EXCEPT ![k] = r] /\ disk' = [disk EXCEPT ![k] = Undone(steps)[k]]
      /\ op' = [op EXCEPT !.todo = rest, !.left = NextPaths(op.session, rest)]
      /\ UNCHANGED <<file, meta, blobs, busy, tick, diskMeta, diskBlobs, tool, boundVars>>
  BY DEF MarkUndone, Undone, Placed
<1>2. k \in Keys /\ steps[k] \in Records
  BY <1>1, UndoingIs
<1>3. Undone(steps)[k] = r
  BY <1>1, <1>2 DEF Undone, Typed
<1> HIDE DEF k
<1>4. /\ r \in Records /\ r.status = "Undone" /\ Touched(r) = Touched(steps[k])
      /\ r.before = steps[k].before /\ r.post = steps[k].post /\ BlobsOf(r) = BlobsOf(steps[k])
  BY <1>2, StatusIs DEF Statuses
<1> HIDE DEF r
<1>5. /\ steps'[k] = r /\ \A j \in Keys : j # k => steps'[j] = steps[j]
      /\ disk = steps => disk' = steps'
  BY <1>1, <1>2, <1>3 DEF Typed
<1>6. /\ op'.todo = rest /\ op'.left = NextPaths(op.session, rest)
      /\ op'.at = op.at /\ op'.session = op.session
  <2>1. op \in Ops(op.needed)
    BY <1>1 DEF Typed
  <2> HIDE DEF rest, NextPaths
  <2> QED BY <1>1, <2>1 DEF Ops
<1> QED BY <1>1, <1>2, <1>4, <1>5, <1>6 DEF k

LEMMA MarkUndoneApart ==
  ASSUME Placed, Apart, MarkUndone
  PROVE  Apart'
<1> DEFINE k == Undoing
           r == steps'[k]
<1>1. /\ op.at = "restore" /\ op'.at = "restore" /\ k \in Keys /\ r.status = "Undone"
      /\ BlobsOf(r) \subseteq BlobsOf(steps[k]) /\ Touched(r) = Touched(steps[k])
      /\ \A j \in Keys : j # k => steps'[j] = steps[j]
      /\ disk' = steps' /\ op'.todo \subseteq op.todo /\ op'.session = op.session
      /\ busy' = busy /\ diskBlobs' = diskBlobs /\ tool' = tool
  BY UndoneIs DEF Apart
<1>2. steps[k].status \in {"Committed", "Interrupted"}
  BY UndoneIs, UndoingIs
<1> HIDE DEF k
<1>3. \A j \in Keys : InFlight(j)' <=> InFlight(j)
  BY <1>1 DEF InFlight, Live
<1>4. ~InFlight(k)
  BY <1>1, <1>2 DEF Apart
<1>5. op.session \in Sessions /\ op.todo \subseteq 1..MaxSteps
  BY <1>1 DEF Placed, OpPlaced, Typed, Ops
<1>6. \A n \in op'.todo : Free(steps'[<<op'.session, n>>])
  <2> SUFFICES ASSUME NEW n \in op'.todo PROVE Free(steps'[<<op.session, n>>])
    BY <1>1
  <2>1. <<op.session, n>> \in Keys /\ Free(steps[<<op.session, n>>])
    BY <1>1, <1>5 DEF Keys, Apart
  <2>2. Touched(steps'[<<op.session, n>>]) = Touched(steps[<<op.session, n>>])
    BY <1>1, <2>1
  <2> QED BY <2>1, <2>2 DEF Free
<1> QED BY <1>1, <1>3, <1>4, <1>6, ApartReplaced

LEMMA TouchApart ==
  ASSUME Placed, Apart, Touch
  PROVE  Apart'
<1>1. /\ op.at \in {"begun", "finished", "restore"} /\ op' = Idle /\ op'.at = "idle"
      /\ UNCHANGED <<file, steps, blobs, busy, disk, diskBlobs>>
      /\ tool' = IF op.at = "begun" THEN [tool EXCEPT ![Key] = "working"] ELSE tool
  BY IdleIs DEF Touch, Touching, Key
<1>2. \A k \in Keys : InFlight(k)' <=> InFlight(k)
  BY <1>1 DEF InFlight, Live, Placed, Typed
<1> QED BY <1>1, <1>2, ApartStays DEF Apart

LEMMA WriteManifestApart ==
  ASSUME Placed, Apart, WriteManifest
  PROVE  Apart'
<1> DEFINE k == <<op.session, NextSeq>>
<1>1. /\ op.at = "manifest" /\ Allocate /\ Typed
      /\ steps' = [steps EXCEPT ![k] = op.rec] /\ disk' = [disk EXCEPT ![k] = op.rec]
      /\ busy' = busy \cup Touched(op.rec)
      /\ op' = [op EXCEPT !.at = "begun", !.seq = NextSeq]
      /\ UNCHANGED <<diskBlobs, tool>>
  BY DEF WriteManifest, Placed
<1>2. k \in Keys /\ tool[k] = "none"
  BY <1>1, NextIs
<1>3. op.rec.status = "Prepared" /\ Free(op.rec) /\ BlobsOf(op.rec) \subseteq diskBlobs
  BY <1>1 DEF Placed, OpPlaced, Opening
<1>4. op'.at = "begun" /\ op'.session = op.session /\ op'.seq = NextSeq
  BY <1>1 DEF Typed, Ops
<1>5. Key' = k
  BY <1>4 DEF Key
<1> HIDE DEF k
<1>6. /\ steps'[k] = op.rec /\ \A j \in Keys : j # k => steps'[j] = steps[j]
      /\ disk' = steps'
  BY <1>1, <1>2 DEF Typed, Apart
<1>7. ~InFlight(k) /\ \A j \in Keys : InFlight(j)' <=> InFlight(j) \/ j = k
  BY <1>1, <1>2, <1>4, <1>5 DEF InFlight, Live
<1>8. Referenced(steps)' \subseteq diskBlobs'
  BY <1>1, <1>3, <1>6 DEF Apart, Referenced
<1>9. \A j \in Keys : InFlight(j)' <=> steps'[j].status = "Prepared"
  BY <1>3, <1>6, <1>7 DEF Apart
<1>10. \A j \in Keys : InFlight(j)' => Touched(steps'[j]) \subseteq busy'
  BY <1>1, <1>6, <1>7 DEF Apart
<1>11. \A i, j \in Keys : InFlight(i)' /\ InFlight(j)' /\ i # j
         => Touched(steps'[i]) \cap Touched(steps'[j]) = {}
  <2>1. \A j \in Keys : InFlight(j) => Touched(steps[j]) \cap Touched(op.rec) = {}
    BY <1>3 DEF Apart, Free
  <2> QED BY <1>6, <1>7, <2>1 DEF Apart
<1>12. \A p \in busy' : \E j \in Keys : InFlight(j)' /\ p \in Touched(steps'[j])
  BY <1>1, <1>2, <1>6, <1>7 DEF Apart
<1> QED BY <1>4, <1>6, <1>8, <1>9, <1>10, <1>11, <1>12 DEF Apart

LEMMA FinishApart ==
  ASSUME Placed, Apart, NEW k \in Keys, Commit(k) \/ Abort(k)
  PROVE  Apart'
<1>1. PICK r \in {Committed(steps[k]), Interrupted(steps[k])} : Finish(k, r)
  BY DEF Commit, Abort
<1>2. tool[k] # "none" /\ op = Idle /\ Typed
  BY DEF Commit, Abort, Finish, Placed
<1>3. /\ steps' = [steps EXCEPT ![k] = r] /\ disk' = [disk EXCEPT ![k] = r]
      /\ tool' = [tool EXCEPT ![k] = "none"] /\ busy' = busy \ Touched(steps[k])
      /\ op' = [Idle EXCEPT !.at = "finished", !.session = k[1], !.seq = k[2]]
      /\ diskBlobs' = diskBlobs
  BY <1>1 DEF Finish, Release
<1>4. /\ r.status \in {"Committed", "Interrupted"}
      /\ Touched(r) = Touched(steps[k]) /\ BlobsOf(r) = BlobsOf(steps[k])
  BY <1>2, FinishedIs
<1>5. op'.at = "finished" /\ op.at = "idle"
  BY <1>2, <1>3 DEF Idle
<1>6. /\ steps'[k] = r /\ \A j \in Keys : j # k => steps'[j] = steps[j]
      /\ disk' = steps'
  BY <1>2, <1>3 DEF Typed, Apart
<1>7. InFlight(k) /\ \A j \in Keys : InFlight(j)' <=> InFlight(j) /\ j # k
  BY <1>2, <1>3, <1>5 DEF InFlight, Live, Typed
<1>8. Referenced(steps)' \subseteq diskBlobs'
  BY <1>3, <1>4, <1>6 DEF Apart, Referenced
<1>9. \A j \in Keys : InFlight(j)' <=> steps'[j].status = "Prepared"
  BY <1>4, <1>6, <1>7 DEF Apart
<1>10. \A j \in Keys : InFlight(j)' => Touched(steps'[j]) \subseteq busy'
  BY <1>3, <1>6, <1>7 DEF Apart
<1>11. \A i, j \in Keys : InFlight(i)' /\ InFlight(j)' /\ i # j
         => Touched(steps'[i]) \cap Touched(steps'[j]) = {}
  BY <1>6, <1>7 DEF Apart
<1>12. \A p \in busy' : \E j \in Keys : InFlight(j)' /\ p \in Touched(steps'[j])
  BY <1>3, <1>6, <1>7 DEF Apart
<1> QED BY <1>5, <1>6, <1>8, <1>9, <1>10, <1>11, <1>12 DEF Apart

LEMMA CrashApart ==
  ASSUME Placed, Apart, CrashAndOpen
  PROVE  Apart'
<1>1. /\ steps' = Loaded /\ disk' = Loaded /\ busy' = {} /\ op' = Idle
      /\ blobs' = diskBlobs \cap Referenced(Loaded) /\ diskBlobs' = blobs'
      /\ tool' = [k \in Keys |-> "none"]
  BY DEF CrashAndOpen
<1>2. op'.at = "idle"
  BY <1>1, IdleIs
<1>3. /\ \A k \in Keys : BlobsOf(Loaded[k]) = BlobsOf(disk[k]) /\ Loaded[k].status # "Prepared"
      /\ disk = steps
  BY LoadedIs DEF Apart
<1>4. \A k \in Keys : ~InFlight(k)'
  BY <1>1, <1>2 DEF InFlight, Live
<1> HIDE DEF Loaded
<1>5. Referenced(Loaded) = Referenced(steps)
  BY <1>3 DEF Referenced
<1>6. diskBlobs' = Referenced(Loaded)
  BY <1>1, <1>5 DEF Apart
<1>7. Referenced(steps)' = Referenced(Loaded)
  BY <1>1 DEF Referenced
<1> QED BY <1>1, <1>2, <1>3, <1>4, <1>6, <1>7 DEF Apart

\* While no write fails, one of the actions that succeed is taken.
LEMMA Successes ==
  ASSUME Typed, Next, errors' = 0
  PROVE  /\ errors = 0
         /\ \/ \E s \in Sessions, change \in Changes : Begin(s, change)
            \/ HasRoom \/ StoreFull \/ (\E k \in Victims : Evict(k)) \/ RecordEviction
            \/ Install \/ WriteManifest \/ Touch
            \/ (\E k \in Keys : Act(k)) \/ (\E k \in Keys : Commit(k) \/ Abort(k))
            \/ (\E s \in Sessions, N \in SUBSET (1..MaxSteps) :
                  Undo(s, N) /\ (N = NotUndone(s) \/ StepUndo))
            \/ (\E p \in op.left : Restore(p)) \/ MarkUndone
            \/ (\E p \in Paths, c \in Held : Edit(p, c))
            \/ CrashAndOpen
<1>1. ~Error
  BY NoErrors
<1>2. ~ \/ EvictFails \/ RecordEvictionFails \/ InstallFails \/ WriteManifestFails \/ TouchFails
        \/ (\E k \in Keys : CommitFails(k) \/ AbortFails(k))
        \/ (\E p \in op.left : RestoreFails(p)) \/ MarkUndoneFails
  BY <1>1 DEF EvictFails, RecordEvictionFails, InstallFails, WriteManifestFails, TouchFails,
          CommitFails, AbortFails, FinishFails, RestoreFails, MarkUndoneFails
<1>3. \/ \E s \in Sessions, change \in Changes : Begin(s, change)
      \/ HasRoom \/ StoreFull \/ (\E k \in Victims : Evict(k)) \/ RecordEviction
      \/ Install \/ WriteManifest \/ Touch
      \/ (\E k \in Keys : Act(k)) \/ (\E k \in Keys : Commit(k) \/ Abort(k))
      \/ (\E s \in Sessions, N \in SUBSET (1..MaxSteps) :
            Undo(s, N) /\ (N = NotUndone(s) \/ StepUndo))
      \/ (\E p \in op.left : Restore(p)) \/ MarkUndone
      \/ (\E p \in Paths, c \in Held : Edit(p, c))
      \/ CrashAndOpen
  BY <1>2, Actions
<1>4. errors' = errors
  BY <1>3 DEF Begin, HasRoom, StoreFull, Evict, RecordEviction, Install, WriteManifest, Touch, Act,
          Commit, Abort, Finish, Undo, Restore, MarkUndone, Edit, CrashAndOpen, boundVars
<1> QED BY <1>3, <1>4

LEMMA NextExclusive ==
  ASSUME Placed, Exclusive, [Next]_vars
  PROVE  Exclusive'
<1>1. CASE UNCHANGED vars
  BY <1>1 DEF Exclusive, Apart, InFlight, Live, Key, Free, Referenced, vars, memVars, diskVars, boundVars
<1>2. CASE Next
  <2> SUFFICES ASSUME errors' = 0 PROVE Apart'
    BY DEF Exclusive
  <2>1. Apart
    BY <1>2, Successes DEF Exclusive, Placed
  <2> QED BY <1>2, <2>1, Successes, QuietApart, EvictApart, WriteManifestApart, TouchApart,
             FinishApart, MarkUndoneApart, CrashApart DEF Placed
<1> QED BY <1>1, <1>2

-----------------------------------------------------------------------------
(* The third layer: a session's steps have no gap *)

\* Where a session keeps its steps, and what is written about it is what it says.
LEMMA GaplessStays ==
  ASSUME Placed, NEW s \in Sessions, Gapless(s), Seqs(steps', s) = Seqs(steps, s),
         meta'[s].last = meta[s].last, meta'[s].pruned = meta[s].pruned, crashes' = crashes,
         diskMeta'[s] \in {diskMeta[s], meta'[s]}
  PROVE  Gapless(s)'
<1>1. meta[s].last \in Nat /\ meta[s].pruned \in Nat
  BY BoundsAre DEF Placed, Typed, Metas
<1>2. PICK n \in (meta[s].pruned + 1)..(meta[s].last + 1) : From(s, n)
  BY DEF Gapless
<1>3. From(s, n)'
  BY <1>2 DEF From
<1>4. n \in (meta'[s].pruned + 1)..(meta'[s].last + 1)
  BY <1>2
<1>5. meta'[s].pruned <= meta'[s].last /\ meta'[s].pruned <= meta'[s].pruned
  BY <1>1, <1>2
<1>6. diskMeta'[s].pruned <= diskMeta'[s].last /\ diskMeta'[s].pruned <= meta'[s].pruned
  BY <1>5 DEF Gapless
<1>7. \E m \in (meta'[s].pruned + 1)..(meta'[s].last + 1) : From(s, m)'
  BY <1>3, <1>4
<1> QED BY <1>6, <1>7 DEF Gapless

\* A step that gets another entry stays one of its session's.
LEMMA SeqsStay ==
  ASSUME NEW s \in Sessions,
         \A k \in Keys : (steps'[k].status = "none") <=> (steps[k].status = "none")
  PROVE  Seqs(steps', s) = Seqs(steps, s)
BY SeqIs

LEMMA EvictGapless ==
  ASSUME Placed, NEW k \in Victims, Evict(k), \A s \in Sessions : Gapless(s)
  PROVE  \A s \in Sessions : Gapless(s)'
<1>1. /\ k \in Keys /\ k[1] \in Sessions /\ k[2] \in Seqs(steps, k[1])
      /\ k = <<k[1], k[2]>> /\ \A n \in Seqs(steps, k[1]) : k[2] <= n
      /\ Typed
  BY VictimIs DEF Placed
<1>2. /\ steps' = [steps EXCEPT ![k] = NoStep]
      /\ meta' = [meta EXCEPT ![k[1]].pruned = IF @ < k[2] THEN k[2] ELSE @]
      /\ UNCHANGED <<diskMeta, crashes>>
  BY DEF Evict, boundVars
<1>3. /\ steps'[k].status = "none" /\ \A j \in Keys : j # k => steps'[j] = steps[j]
  BY <1>1, <1>2, NoStepIs DEF Typed
<1>4. ASSUME NEW s \in Sessions, s # k[1]
      PROVE  Gapless(s)'
  <2>1. meta'[s] = meta[s]
    BY <1>1, <1>2, <1>4 DEF Typed
  <2>2. Seqs(steps', s) = Seqs(steps, s)
    <3>1. \A n \in 1..MaxSteps : <<s, n>> \in Keys /\ <<s, n>> # k
      BY <1>1, <1>4, SeqIs
    <3>2. \A n \in 1..MaxSteps : steps'[<<s, n>>] = steps[<<s, n>>]
      BY <1>3, <3>1
    <3> QED BY <3>2 DEF Seqs
  <2> QED BY <1>2, <2>1, <2>2, GaplessStays
<1>5. Gapless(k[1])'
  <2> DEFINE s == k[1]
             n == k[2]
  <2>1. /\ meta[s].last \in Nat /\ meta[s].pruned \in Nat /\ meta[s] \in Metas /\ n \in Nat
        /\ diskMeta[s].pruned \in Nat
    BY <1>1, BoundsAre, SeqIs DEF Typed, Metas
  <2>2. PICK m \in (meta[s].pruned + 1)..(meta[s].last + 1) : From(s, m)
    BY <1>1 DEF Gapless
  <2>3. m = n /\ n <= meta[s].last /\ Seqs(steps, s) = n..meta[s].last
    <3>1. Seqs(steps, s) = m..meta[s].last /\ m \in Nat
      BY <2>1, <2>2 DEF From
    <3>2. n \in m..meta[s].last
      BY <1>1, <3>1
    <3>3. m \in Seqs(steps, s)
      BY <2>1, <3>1, <3>2
    <3> QED BY <1>1, <2>1, <3>1, <3>2, <3>3
  <2>4. /\ meta'[s].last = meta[s].last
        /\ meta'[s].pruned = n
    <3>1. meta[s].pruned < n
      BY <2>1, <2>2, <2>3
    <3>2. meta'[s] = [meta[s] EXCEPT !.pruned = n]
      BY <1>1, <1>2, <3>1 DEF Typed
    <3> QED BY <2>1, <3>2 DEF Metas
  <2>5. Seqs(steps', s) = (n + 1)..meta'[s].last
    <3>1. \A i : i \in Seqs(steps', s) <=> i \in Seqs(steps, s) /\ i # n
      <4>1. ASSUME NEW i \in 1..MaxSteps
            PROVE  (steps'[<<s, i>>].status # "none") <=> (steps[<<s, i>>].status # "none" /\ i # n)
        <5>1. <<s, i>> \in Keys /\ (<<s, i>> = k <=> i = n)
          BY <1>1, SeqIs
        <5> QED BY <1>3, <5>1
      <4> QED BY <4>1 DEF Seqs
    <3>2. \A i : i \in n..meta[s].last /\ i # n <=> i \in (n + 1)..meta[s].last
      BY <2>1
    <3>3. \A i : i \in Seqs(steps', s) <=> i \in (n + 1)..meta[s].last
      BY <2>3, <3>1, <3>2
    <3> QED BY <2>4, <3>3
  <2>6. n + 1 \in (meta'[s].pruned + 1)..(meta'[s].last + 1)
    BY <2>1, <2>3, <2>4
  <2>7. From(s, n + 1)'
    BY <2>4, <2>5 DEF From
  <2>8. diskMeta'[s].pruned <= diskMeta'[s].last /\ diskMeta'[s].pruned <= meta'[s].pruned
    <3>1. diskMeta[s].pruned <= diskMeta[s].last /\ diskMeta[s].pruned <= meta[s].pruned
      BY <1>1 DEF Gapless
    <3>2. meta[s].pruned <= n
      BY <2>1, <2>2, <2>3
    <3> QED BY <1>2, <2>1, <2>4, <3>1, <3>2
  <2> HIDE DEF s, n
  <2>9. \E j \in (meta'[s].pruned + 1)..(meta'[s].last + 1) : From(s, j)'
    BY <2>6, <2>7
  <2> QED BY <2>8, <2>9 DEF Gapless, s
<1> QED BY <1>4, <1>5

LEMMA WriteManifestGapless ==
  ASSUME Placed, WriteManifest, \A s \in Sessions : Gapless(s)
  PROVE  \A s \in Sessions : Gapless(s)'
<1> DEFINE t == op.session
           k == <<t, NextSeq>>
<1>1. /\ op.at = "manifest" /\ Allocate /\ Typed
      /\ steps' = [steps EXCEPT ![k] = op.rec]
      /\ UNCHANGED <<diskMeta, crashes>>
  BY DEF WriteManifest, Placed, boundVars
<1>2. /\ k \in Keys /\ t \in Sessions /\ NextSeq \in 1..MaxSteps /\ steps[k] = NoStep
      /\ meta'[t].last = NextSeq /\ meta[t].last < NextSeq
      /\ \A s \in Sessions : /\ s # t => meta'[s] = meta[s]
                             /\ meta'[s].pruned = meta[s].pruned
                             /\ meta[s].last \in Nat
  BY <1>1, NextIs
<1>3. op.rec.status = "Prepared"
  BY <1>1 DEF Placed, OpPlaced, Opening
<1>4. /\ steps'[k] = op.rec /\ \A j \in Keys : j # k => steps'[j] = steps[j]
  BY <1>1, <1>2 DEF Typed
<1>5. ASSUME NEW s \in Sessions, s # t
      PROVE  Gapless(s)'
  <2>1. \A n \in 1..MaxSteps : steps'[<<s, n>>] = steps[<<s, n>>]
    BY <1>4, <1>5, SeqIs
  <2>2. Seqs(steps', s) = Seqs(steps, s)
    BY <2>1 DEF Seqs
  <2> QED BY <1>1, <1>2, <1>5, <2>2, GaplessStays
<1>6. ASSUME NEW s \in Sessions, s = t
      PROVE  Gapless(s)'
  <2> HIDE DEF t, k
  <2>0. k = <<s, NextSeq>>
    BY <1>6 DEF k
  <2>1. /\ meta[s].last \in Nat /\ meta[s].pruned \in Nat /\ NextSeq = meta[s].last + 1
    BY <1>1, <1>2, <1>6, BoundsAre DEF Typed, Metas, NextSeq, t
  <2>2. PICK m \in (meta[s].pruned + 1)..(meta[s].last + 1) : From(s, m)
    BY DEF Gapless
  <2>3. \A i : i \in Seqs(steps', s) <=> i \in Seqs(steps, s) \/ i = NextSeq
    <3>1. ASSUME NEW i \in 1..MaxSteps
          PROVE  (steps'[<<s, i>>].status # "none") <=> (steps[<<s, i>>].status # "none" \/ i = NextSeq)
      <4>1. <<s, i>> \in Keys /\ (<<s, i>> = k <=> i = NextSeq)
        BY <2>0, SeqIs
      <4> QED BY <1>3, <1>4, <4>1
    <3> QED BY <1>2, <3>1 DEF Seqs
  <2>4. \A i : i \in m..meta[s].last \/ i = NextSeq <=> i \in m..NextSeq
    BY <2>1, <2>2
  <2>5. Seqs(steps', s) = m..meta'[s].last
    <3>1. \A i : i \in Seqs(steps', s) <=> i \in m..NextSeq
      BY <2>2, <2>3, <2>4 DEF From
    <3> QED BY <1>2, <1>6, <3>1
  <2>6. From(s, m)' /\ m \in (meta'[s].pruned + 1)..(meta'[s].last + 1)
    BY <1>1, <1>2, <1>6, <2>1, <2>2, <2>5 DEF From
  <2>7. diskMeta'[s].pruned <= diskMeta'[s].last /\ diskMeta'[s].pruned <= meta'[s].pruned
    BY <1>1, <1>2, <1>6 DEF Gapless
  <2>8. \E j \in (meta'[s].pruned + 1)..(meta'[s].last + 1) : From(s, j)'
    BY <2>6
  <2> QED BY <2>7, <2>8 DEF Gapless
<1> QED BY <1>5, <1>6

\* A crash may forget that the oldest steps were pruned, but opens no gap.
LEMMA CrashGapless ==
  ASSUME Placed, Apart, crashes \in Nat, CrashAndOpen, \A s \in Sessions : Gapless(s)
  PROVE  \A s \in Sessions : Gapless(s)'
<1> SUFFICES ASSUME NEW s \in Sessions PROVE Gapless(s)'
  OBVIOUS
<1>1. /\ steps' = Loaded /\ meta' = LoadedMeta /\ diskMeta' = diskMeta /\ crashes' # 0 /\ Typed
  BY DEF CrashAndOpen, Placed
<1>2. /\ meta'[s].pruned = diskMeta[s].pruned /\ diskMeta[s].last <= meta'[s].last
      /\ meta'[s].last \in {diskMeta[s].last} \cup Seqs(disk, s)
      /\ \A n \in Seqs(disk, s) : n <= meta'[s].last
      /\ meta'[s].last \in Nat
  <2>1. LoadedMeta[s].last \in Nat
    BY LoadedIs, BoundsAre
  <2> QED BY <1>1, <2>1, LoadedIs
<1>3. /\ meta[s].last \in Nat /\ meta[s].pruned \in Nat /\ diskMeta[s].last \in Nat
      /\ diskMeta[s].pruned \in Nat /\ diskMeta[s].last <= meta[s].last
  BY <1>1, BoundsAre DEF Placed, Typed, Metas
<1>4. disk = steps
  BY DEF Apart
<1>5. Seqs(steps', s) = Seqs(disk, s)
  <2>1. \A k \in Keys : (Loaded[k].status = "none") <=> (disk[k].status = "none")
    BY LoadedIs
  <2>2. \A k \in Keys : (steps'[k].status = "none") <=> (steps[k].status = "none")
    BY <1>1, <1>4, <2>1
  <2> QED BY <1>4, <2>2, SeqsStay
<1>6. PICK m \in (meta[s].pruned + 1)..(meta[s].last + 1) : From(s, m)
  BY DEF Gapless
<1>7. Seqs(disk, s) = m..meta[s].last /\ m \in Nat
  BY <1>3, <1>4, <1>6 DEF From
<1>8. diskMeta[s].pruned <= diskMeta[s].last /\ diskMeta[s].pruned <= meta[s].pruned
  BY DEF Gapless
<1>9. \E n \in (meta'[s].pruned + 1)..(meta'[s].last + 1) : From(s, n)'
  <2>1. CASE m <= meta[s].last
    <3>1. meta'[s].last = meta[s].last
      <4>1. meta[s].last \in Seqs(disk, s)
        BY <1>3, <1>7, <2>1
      <4>2. meta[s].last <= meta'[s].last /\ meta'[s].last <= meta[s].last
        BY <1>2, <1>3, <1>7, <4>1
      <4> QED BY <1>2, <1>3, <4>2
    <3>2. From(s, m)'
      BY <1>1, <1>5, <1>7, <3>1 DEF From
    <3>3. m \in (meta'[s].pruned + 1)..(meta'[s].last + 1)
      BY <1>2, <1>3, <1>6, <1>8, <3>1
    <3> QED BY <3>2, <3>3
  <2>2. CASE ~(m <= meta[s].last)
    <3>1. Seqs(disk, s) = {} /\ meta'[s].last = diskMeta[s].last
      BY <1>2, <1>3, <1>7, <2>2
    <3>2. PICK n \in Nat : n = meta'[s].last + 1
      BY <1>2
    <3>3. n..meta'[s].last = {}
      BY <1>2, <3>2
    <3>4. From(s, n)'
      BY <1>1, <1>5, <3>1, <3>3 DEF From
    <3>5. n \in (meta'[s].pruned + 1)..(meta'[s].last + 1)
      BY <1>2, <1>3, <1>8, <3>1, <3>2
    <3> QED BY <3>4, <3>5
  <2> QED BY <2>1, <2>2
<1>10. diskMeta'[s].pruned <= diskMeta'[s].last /\ diskMeta'[s].pruned <= meta'[s].pruned
  BY <1>1, <1>2, <1>3, <1>8
<1> QED BY <1>9, <1>10 DEF Gapless

LEMMA QuietGapless ==
  ASSUME Placed, NEW s \in Sessions, Gapless(s),
         \/ \E t \in Sessions, change \in Changes : Begin(t, change)
         \/ HasRoom \/ StoreFull \/ RecordEviction \/ Install \/ Touch
         \/ (\E k \in Keys : Act(k)) \/ (\E k \in Keys : Commit(k) \/ Abort(k))
         \/ (\E t \in Sessions, N \in SUBSET (1..MaxSteps) : Undo(t, N))
         \/ (\E p \in op.left : Restore(p)) \/ MarkUndone
         \/ \E p \in Paths, c \in Held : Edit(p, c)
  PROVE  Gapless(s)'
<1>1. Typed
  BY DEF Placed
<1>2. /\ \A k \in Keys : (steps'[k].status = "none") <=> (steps[k].status = "none")
  <2>1. CASE \E k \in Keys : Commit(k) \/ Abort(k)
    <3>1. PICK k \in Keys : Commit(k) \/ Abort(k)
      BY <2>1
    <3>2. PICK r \in {Committed(steps[k]), Interrupted(steps[k])} : Finish(k, r)
      BY <3>1 DEF Commit, Abort
    <3>3. tool[k] # "none" /\ steps' = [steps EXCEPT ![k] = r]
      BY <3>1, <3>2 DEF Commit, Abort, Finish
    <3>4. r.status # "none" /\ steps[k].status # "none"
      BY <3>3, FinishedIs
    <3> QED BY <1>1, <3>3, <3>4 DEF Typed
  <2>2. CASE MarkUndone
    <3>1. /\ \A j \in Keys : j # Undoing => steps'[j] = steps[j]
          /\ steps'[Undoing].status = "Undone" /\ op.at = "restore" /\ op.todo # {}
      BY <2>2, UndoneIs
    <3>2. steps[Undoing].status \in {"Committed", "Interrupted"}
      BY <3>1, UndoingIs
    <3> QED BY <3>1, <3>2
  <2>3. CASE steps' = steps
    BY <2>3
  <2> QED BY <2>1, <2>2, <2>3 DEF Begin, HasRoom, StoreFull, RecordEviction, Install, Touch, Act,
             Undo, Restore, Edit, memVars
<1>3. Seqs(steps', s) = Seqs(steps, s)
  BY <1>2, SeqsStay
<1>4. meta'[s].last = meta[s].last /\ meta'[s].pruned = meta[s].pruned
  <2>1. CASE Touch
    <3>1. Use(op.session) /\ op.session \in Sessions
      BY <2>1 DEF Touch, Touching, Placed, OpPlaced
    <3> QED BY <1>1, <3>1, UseIs
  <2>2. CASE meta' = meta
    BY <2>2
  <2> QED BY <2>1, <2>2 DEF Begin, HasRoom, StoreFull, RecordEviction, Install, Act, Commit, Abort,
             Finish, Undo, Restore, MarkUndone, Edit, memVars
<1>5. diskMeta'[s] \in {diskMeta[s], meta'[s]}
  <2>1. CASE Touch
    <3>1. diskMeta' = [diskMeta EXCEPT ![op.session] = meta'[op.session]]
      BY <2>1 DEF Touch
    <3> QED BY <1>1, <3>1 DEF Typed
  <2>2. CASE RecordEviction
    <3>1. diskMeta' = [diskMeta EXCEPT ![op.victim] = meta[op.victim]] /\ meta' = meta
      BY <2>2 DEF RecordEviction
    <3> QED BY <1>1, <3>1 DEF Typed
  <2>3. CASE diskMeta' = diskMeta
    BY <2>3
  <2> QED BY <2>1, <2>2, <2>3 DEF Begin, HasRoom, StoreFull, Install, Act, Commit, Abort,
             Finish, Undo, Restore, MarkUndone, Edit, diskVars
<1>6. crashes' = crashes
  BY DEF Begin, HasRoom, StoreFull, RecordEviction, Install, Touch, Act, Commit, Abort,
             Finish, Undo, Restore, MarkUndone, Edit, boundVars
<1> QED BY <1>3, <1>4, <1>5, <1>6, GaplessStays

LEMMA NextContiguous ==
  ASSUME Placed, Exclusive, Contiguous, [Next]_vars
  PROVE  Contiguous'
<1>1. CASE UNCHANGED vars
  <2>1. \A s \in Sessions : Gapless(s) => Gapless(s)'
    BY <1>1, GaplessStays DEF vars, memVars, diskVars, boundVars
  <2> QED BY <1>1, <2>1 DEF Contiguous, vars, boundVars
<1>2. CASE Next
  <2>1. crashes' \in Nat
    <3>1. \/ crashes' = crashes \/ crashes' = crashes + 1
      BY <1>2, Actions DEF Begin, HasRoom, StoreFull, Evict, RecordEviction, Install, WriteManifest,
         Touch, Act, Commit, Abort, Finish, Undo, Restore, MarkUndone, Edit, CrashAndOpen,
         EvictFails, RecordEvictionFails, InstallFails, WriteManifestFails, TouchFails, CommitFails,
         AbortFails, FinishFails, RestoreFails, MarkUndoneFails, Error, boundVars
    <3> QED BY <3>1 DEF Contiguous
  <2>2. ASSUME errors' = 0 PROVE \A s \in Sessions : Gapless(s)'
    <3>1. Apart /\ \A s \in Sessions : Gapless(s)
      BY <1>2, <2>2, Successes DEF Exclusive, Contiguous, Placed
    <3> QED BY <1>2, <2>2, <3>1, Successes, QuietGapless, EvictGapless, WriteManifestGapless,
               CrashGapless DEF Placed, Contiguous
  <2> QED BY <2>1, <2>2 DEF Contiguous
<1> QED BY <1>1, <1>2

-----------------------------------------------------------------------------
(* The fourth layer: what an undo meets. A path "fits" the steps N of session s *)
(* when each of them, with the newer ones undone, meets what it recorded.       *)

Met(st, fl, s, N, n, p) ==
  LET newer == {m \in N : m > n /\ p \in Touched(st[<<s, m>>])}
  IN  IF newer = {} THEN fl[p] ELSE st[<<s, Lowest(newer)>>].before[p]

Fitting(st, fl, s, N) ==
  \A n \in N : \A p \in Touched(st[<<s, n>>]) :
    Met(st, fl, s, N, n, p) \in {st[<<s, n>>].before[p], st[<<s, n>>].post[p]}

LEMMA FittingIs ==
  \A s, N : NoConflict(s, N) <=> Fitting(steps, file, s, N)
BY DEF NoConflict, Virtual, Fitting, Met

LEMMA FittingNext ==
  NoConflict(op.session, op.todo)' <=> Fitting(steps', file', op'.session, op'.todo)
BY DEF NoConflict, Virtual, Fitting, Met

\* The steps' entries may be others that record the same.
LEMMA FittingAgrees ==
  ASSUME NEW st, NEW st2, NEW fl, NEW s, NEW N, N \subseteq Nat, Fitting(st, fl, s, N),
         \A n \in N : /\ st2[<<s, n>>].before = st[<<s, n>>].before
                      /\ st2[<<s, n>>].post = st[<<s, n>>].post
  PROVE  Fitting(st2, fl, s, N)
<1>1. \A n \in N : Touched(st2[<<s, n>>]) = Touched(st[<<s, n>>])
  BY DEF Touched
<1>2. ASSUME NEW n \in N, NEW p
      PROVE  Met(st2, fl, s, N, n, p) = Met(st, fl, s, N, n, p)
  <2> DEFINE newer == {m \in N : m > n /\ p \in Touched(st[<<s, m>>])}
  <2>1. {m \in N : m > n /\ p \in Touched(st2[<<s, m>>])} = newer
    BY <1>1
  <2>2. newer # {} => Lowest(newer) \in N
    <3>1. newer \subseteq N
      OBVIOUS
    <3> HIDE DEF newer
    <3>2. newer # {} => Lowest(newer) \in newer
      BY <3>1, LowestIs
    <3> QED BY <3>1, <3>2
  <2> QED BY <2>1, <2>2 DEF Met
<1> HIDE DEF Met
<1> QED BY <1>1, <1>2 DEF Fitting

\* What is in the folder matters for the newest step of a path only.
LEMMA FittingWith ==
  ASSUME NEW st, NEW fl, NEW fl2, NEW s, NEW N, Fitting(st, fl, s, N),
         \A n \in N : \A p \in Touched(st[<<s, n>>]) :
           (\A m \in N : m > n => p \notin Touched(st[<<s, m>>]))
             => fl2[p] \in {fl[p], st[<<s, n>>].before[p], st[<<s, n>>].post[p]}
  PROVE  Fitting(st, fl2, s, N)
<1> SUFFICES ASSUME NEW n \in N, NEW p \in Touched(st[<<s, n>>])
             PROVE  Met(st, fl2, s, N, n, p) \in {st[<<s, n>>].before[p], st[<<s, n>>].post[p]}
  BY DEF Fitting
<1> DEFINE newer == {m \in N : m > n /\ p \in Touched(st[<<s, m>>])}
<1>1. Met(st, fl, s, N, n, p) \in {st[<<s, n>>].before[p], st[<<s, n>>].post[p]}
  BY DEF Fitting
<1>2. CASE newer = {}
  BY <1>1, <1>2 DEF Met
<1>3. CASE newer # {}
  BY <1>1, <1>3 DEF Met
<1> QED BY <1>2, <1>3

\* The newest of some steps, and that it found what is in the folder.
IsTop(N, t) == t \in N /\ N \subseteq Nat /\ \A m \in N : m <= t
FoundNow(st, fl, s, t) == \A p \in Touched(st[<<s, t>>]) : st[<<s, t>>].before[p] = fl[p]

\* A newest step that found what is in the folder makes no difference to the others.
LEMMA MetBelow ==
  ASSUME NEW st, NEW fl, NEW s, NEW N, NEW t, IsTop(N, t), FoundNow(st, fl, s, t)
  PROVE  \A n \in N \ {t} : \A p : Met(st, fl, s, N, n, p) = Met(st, fl, s, N \ {t}, n, p)
<1> USE DEF IsTop, FoundNow
<1> SUFFICES ASSUME NEW n \in N \ {t}, NEW p
             PROVE  Met(st, fl, s, N, n, p) = Met(st, fl, s, N \ {t}, n, p)
  OBVIOUS
<1> DEFINE newer == {m \in N \ {t} : m > n /\ p \in Touched(st[<<s, m>>])}
           all   == {m \in N : m > n /\ p \in Touched(st[<<s, m>>])}
<1>1. all = newer \/ (p \in Touched(st[<<s, t>>]) /\ all = newer \cup {t})
  OBVIOUS
<1>2. CASE all = newer
  BY <1>2 DEF Met
<1>3. CASE p \in Touched(st[<<s, t>>]) /\ all = newer \cup {t} /\ newer = {}
  <2>1. t \in Nat /\ Lowest({t}) = t
    BY LowestIs
  <2>2. Met(st, fl, s, N, n, p) = st[<<s, t>>].before[p]
    BY <1>3, <2>1 DEF Met
  <2>3. Met(st, fl, s, N \ {t}, n, p) = fl[p]
    BY <1>3 DEF Met
  <2> QED BY <1>3, <2>2, <2>3
<1>4. CASE all = newer \cup {t} /\ newer # {}
  <2>1. newer \subseteq Nat /\ t \in Nat /\ \A m \in newer : m < t
    <3>1. \A m \in newer : m \in Nat /\ t \in Nat /\ m # t /\ m <= t
      OBVIOUS
    <3> HIDE DEF newer
    <3> QED BY <3>1
  <2>2. Lowest(all) = Lowest(newer)
    <3> HIDE DEF newer, all
    <3> QED BY <1>4, <2>1, LowestBelow
  <2> QED BY <1>4, <2>2 DEF Met
<1> QED BY <1>1, <1>2, <1>3, <1>4

\* Such a step may be added, and so may the oldest be left out.
LEMMA FittingTop ==
  ASSUME NEW st, NEW fl, NEW s, NEW N, NEW t, IsTop(N, t), FoundNow(st, fl, s, t),
         Fitting(st, fl, s, N \ {t})
  PROVE  Fitting(st, fl, s, N)
<1>1. \A n \in N \ {t} : \A p : Met(st, fl, s, N, n, p) = Met(st, fl, s, N \ {t}, n, p)
  BY MetBelow
<1>2. ASSUME NEW p \in Touched(st[<<s, t>>])
      PROVE  Met(st, fl, s, N, t, p) = st[<<s, t>>].before[p]
  <2>1. \A m \in N : ~(m > t)
    BY DEF IsTop
  <2>2. {m \in N : m > t /\ p \in Touched(st[<<s, m>>])} = {}
    BY <2>1
  <2> QED BY <2>2 DEF Met, FoundNow
<1> QED BY <1>1, <1>2 DEF Fitting

LEMMA FittingAbove ==
  ASSUME NEW st, NEW fl, NEW s, NEW N, NEW M \in SUBSET N, Fitting(st, fl, s, N),
         \A n \in M, m \in N : m > n => m \in M
  PROVE  Fitting(st, fl, s, M)
<1>1. ASSUME NEW n \in M, NEW p
      PROVE  Met(st, fl, s, M, n, p) = Met(st, fl, s, N, n, p)
  <2>1. {m \in M : m > n /\ p \in Touched(st[<<s, m>>])}
          = {m \in N : m > n /\ p \in Touched(st[<<s, m>>])}
    OBVIOUS
  <2> QED BY <2>1 DEF Met
<1> QED BY <1>1 DEF Fitting

\* With the newest step of an undo restored, the rest of it fits.
LEMMA FittingBelow ==
  ASSUME NEW st, NEW st2, NEW fl, NEW s, NEW N, NEW t, Fitting(st, fl, s, N),
         IsTop(N, t), FoundNow(st, fl, s, t),
         \A n \in N \ {t} : st2[<<s, n>>] = st[<<s, n>>]
  PROVE  Fitting(st2, fl, s, N \ {t})
<1>1. \A n \in N \ {t} : \A p : Met(st, fl, s, N, n, p) = Met(st, fl, s, N \ {t}, n, p)
  BY MetBelow
<1>2. Fitting(st, fl, s, N \ {t})
  BY <1>1 DEF Fitting
<1> DEFINE M == N \ {t}
<1>3. /\ M \subseteq Nat
      /\ \A n \in M : /\ st2[<<s, n>>].before = st[<<s, n>>].before
                      /\ st2[<<s, n>>].post = st[<<s, n>>].post
  BY DEF IsTop
<1>4. Fitting(st, fl, s, M)
  BY <1>2
<1> HIDE DEF M
<1>5. Fitting(st2, fl, s, M)
  BY <1>3, <1>4, FittingAgrees
<1> QED BY <1>5 DEF M

LEMMA UndoRestorable ==
  ASSUME Placed, NEW s \in Sessions, NEW N \in SUBSET (1..MaxSteps), Undo(s, N)
  PROVE  Restorable'
<1>1. /\ N # {} /\ NoConflict(s, N) /\ op = Idle
      /\ op' = [Idle EXCEPT !.at = "restore", !.session = s, !.todo = N, !.left = NextPaths(s, N)]
      /\ UNCHANGED <<file, memVars>>
  BY DEF Undo
<1>2. op'.session = s /\ op'.todo = N /\ op'.left = NextPaths(s, N)
  <2> HIDE DEF NextPaths
  <2> QED BY <1>1 DEF Idle
<1>3. Fitting(steps, file, s, N)
  BY <1>1, FittingIs
<1>4. NoConflict(op.session, op.todo)'
  BY <1>1, <1>2, <1>3, FittingNext DEF memVars
<1>5. Undoing' = <<s, Newest(N)>>
  BY <1>2 DEF Undoing
<1>6. Touched(steps'[Undoing']) \ op'.left = {}
  BY <1>1, <1>2, <1>5 DEF NextPaths, memVars
<1> QED BY <1>4, <1>6 DEF Restorable

LEMMA RestoreRestorable ==
  ASSUME Placed, Restorable, NEW p \in op.left, Restore(p)
  PROVE  Restorable'
<1>1. /\ op.at = "restore" /\ file' = [file EXCEPT ![p] = Before(p)]
      /\ op' = [op EXCEPT !.left = op.left \ {p}] /\ steps' = steps /\ Typed
  BY DEF Restore, memVars, Placed
<1>2. op.todo # {}
  BY <1>1 DEF Placed, OpPlaced, NextPaths
<1>3. /\ Undoing = <<op.session, Newest(op.todo)>> /\ op.session \in Sessions
      /\ op.todo \subseteq 1..MaxSteps /\ Newest(op.todo) \in op.todo
      /\ \A n \in op.todo : n <= Newest(op.todo)
      /\ p \in Touched(steps[Undoing]) /\ p \in Paths
  BY <1>1, <1>2, UndoingIs
<1>4. /\ op'.todo = op.todo /\ op'.left = op.left \ {p} /\ op'.session = op.session
  BY <1>1 DEF Typed, Ops
<1>5. file'[p] = Before(p) /\ \A q \in Paths : q # p => file'[q] = file[q]
  BY <1>1, <1>3 DEF Typed
<1>6. Undoing' = Undoing
  BY <1>4 DEF Undoing
<1>7. Fitting(steps, file', op.session, op.todo)
  <2> DEFINE s == op.session
             N == op.todo
  <2>1. Fitting(steps, file, s, N)
    BY FittingIs DEF Restorable
  <2>2. ASSUME NEW n \in N, NEW q \in Touched(steps[<<s, n>>]),
               \A m \in N : m > n => q \notin Touched(steps[<<s, m>>])
        PROVE  file'[q] \in {file[q], steps[<<s, n>>].before[q], steps[<<s, n>>].post[q]}
    <3>1. CASE q = p
      <4>1. ~(Newest(N) > n)
        BY <1>3, <2>2, <3>1
      <4>2. n \in Nat /\ Newest(N) \in Nat /\ n <= Newest(N)
        BY <1>3, BoundsAre
      <4>3. n = Newest(N)
        BY <4>1, <4>2
      <4>4. Undoing = <<s, n>>
        BY <1>3, <4>3
      <4> QED BY <1>5, <3>1, <4>4 DEF Before
    <3>2. CASE q # p
      <4>1. q \in Paths
        <5>1. <<s, n>> \in Keys
          BY <1>3 DEF Keys
        <5> QED BY <1>1, <5>1, KeyIs, EntryIs
      <4> QED BY <1>5, <3>2, <4>1
    <3> QED BY <3>1, <3>2
  <2> HIDE DEF s, N
  <2>3. Fitting(steps, file', s, N)
    BY <2>1, <2>2, FittingWith
  <2> QED BY <2>3 DEF s, N
<1>8. NoConflict(op.session, op.todo)'
  BY <1>1, <1>4, <1>7, FittingNext
<1>9. \A q \in Touched(steps'[Undoing']) \ op'.left : file'[q] = Before(q)'
  <2> SUFFICES ASSUME NEW q \in Touched(steps[Undoing]), q \notin op.left \/ q = p
               PROVE  file'[q] = steps[Undoing].before[q]
    BY <1>1, <1>4, <1>6 DEF Before
  <2>1. CASE q = p
    BY <1>5, <2>1 DEF Before
  <2>2. CASE q # p
    <3>1. q \in Paths /\ file[q] = Before(q)
      BY <1>1, <1>2, <2>2, UndoingIs DEF Restorable
    <3> QED BY <1>5, <2>2, <3>1 DEF Before
  <2> QED BY <2>1, <2>2
<1> QED BY <1>8, <1>9 DEF Restorable

LEMMA MarkUndoneRestorable ==
  ASSUME Placed, Restorable, MarkUndone
  PROVE  Restorable'
<1> DEFINE s == op.session
           N == op.todo
           t == Newest(op.todo)
           M == N \ {t}
<1>1. /\ op.at = "restore" /\ N # {} /\ op.left = {} /\ file' = file
      /\ \A j \in Keys : j # Undoing => steps'[j] = steps[j]
      /\ op'.session = s /\ op'.todo = M /\ op'.left = NextPaths(s, M)
  BY UndoneIs
<1>2. /\ Undoing = <<s, t>> /\ s \in Sessions /\ N \subseteq 1..MaxSteps /\ t \in N
      /\ \A n \in N : n <= t
  BY <1>1, UndoingIs
<1> HIDE DEF t, s
<1>3. /\ Fitting(steps, file, s, N)
      /\ \A p \in Touched(steps[<<s, t>>]) : steps[<<s, t>>].before[p] = file[p]
  BY <1>1, <1>2, FittingIs DEF Restorable, Before, s
<1>4. \A n \in M : <<s, n>> \in Keys /\ <<s, n>> # Undoing /\ steps'[<<s, n>>] = steps[<<s, n>>]
  BY <1>1, <1>2 DEF Keys
<1>5. Fitting(steps', file, s, M)
  <2>1. IsTop(N, t) /\ FoundNow(steps, file, s, t)
    BY <1>2, <1>3, BoundsAre DEF IsTop, FoundNow
  <2>2. \A n \in N \ {t} : steps'[<<s, n>>] = steps[<<s, n>>]
    BY <1>4
  <2> HIDE DEF N, M
  <2>3. Fitting(steps', file, s, N \ {t})
    BY <1>3, <2>1, <2>2, FittingBelow
  <2> QED BY <2>3 DEF M
<1>6. NoConflict(op.session, op.todo)'
  BY <1>1, <1>5, FittingNext
<1>7. M # {} => Touched(steps'[Undoing']) \ op'.left = {}
  <2> SUFFICES ASSUME M # {} PROVE Touched(steps'[Undoing']) \ op'.left = {}
    OBVIOUS
  <2>1. Newest(M) \in M
    BY <1>2, NewestIs
  <2>2. Undoing' = <<s, Newest(M)>>
    BY <1>1 DEF Undoing
  <2>3. op'.left = Touched(steps[<<s, Newest(M)>>])
    BY <1>1 DEF NextPaths
  <2> QED BY <1>4, <2>1, <2>2, <2>3
<1> QED BY <1>1, <1>6, <1>7 DEF Restorable

\* The tools at work meanwhile have other paths.
LEMMA ActRestorable ==
  ASSUME Placed, Apart, Restorable, op.at = "restore", NEW k \in Keys, Act(k)
  PROVE  Restorable'
<1>1. /\ tool[k] = "working" /\ file' = Changed(steps[k]) /\ Typed
      /\ steps' = steps /\ op' = op
  BY DEF Act, memVars, Placed
<1>2. Shaped(steps[k]) /\ steps[k] \in Records /\ InFlight(k)
  <2>1. StepPlaced(k)
    BY DEF Placed
  <2>2. Shaped(steps[k]) /\ steps[k].status = "Prepared"
    BY <1>1, <2>1 DEF StepPlaced, Live
  <2> QED BY <1>1, <2>2, KeyIs, EntryIs DEF NoStep, InFlight, Live
<1>3. \A p \in Paths : p \notin busy => file'[p] = file[p]
  BY <1>1, <1>2, ChangedIs DEF Typed, Apart
<1>4. op.session \in Sessions /\ op.todo \subseteq 1..MaxSteps
  BY <1>1 DEF Placed, OpPlaced, Typed, Ops
<1>5. \A n \in op.todo : \A p \in Touched(steps[<<op.session, n>>]) : file'[p] = file[p]
  <2> SUFFICES ASSUME NEW n \in op.todo, NEW p \in Touched(steps[<<op.session, n>>])
               PROVE  file'[p] = file[p]
    OBVIOUS
  <2>1. p \notin busy
    BY DEF Apart, Free
  <2>2. <<op.session, n>> \in Keys
    BY <1>4 DEF Keys
  <2>3. p \in Paths
    BY <1>1, <2>2, KeyIs, EntryIs
  <2> QED BY <1>3, <2>1, <2>3
<1>6. Fitting(steps, file', op.session, op.todo)
  <2>1. Fitting(steps, file, op.session, op.todo)
    BY FittingIs DEF Restorable
  <2> QED BY <1>5, <2>1, FittingWith
<1>7. NoConflict(op.session, op.todo)'
  BY <1>1, <1>6, FittingNext
<1>8. op.todo # {} => \A p \in Touched(steps[Undoing]) \ op.left : file'[p] = Before(p)
  <2> SUFFICES ASSUME op.todo # {}, NEW p \in Touched(steps[Undoing]) \ op.left
               PROVE  file'[p] = Before(p)
    OBVIOUS
  <2>1. Undoing = <<op.session, Newest(op.todo)>> /\ Newest(op.todo) \in op.todo
    BY UndoingIs
  <2> QED BY <1>5, <2>1 DEF Restorable
<1> QED BY <1>1, <1>7, <1>8 DEF Restorable, Undoing, Before

LEMMA NextRestoring ==
  ASSUME Placed, Exclusive, Restoring, [Next]_vars
  PROVE  Restoring'
<1>1. CASE UNCHANGED vars
  <2>1. op' = op /\ steps' = steps /\ file' = file /\ errors' = errors /\ edits' = edits
    BY <1>1 DEF vars, memVars, boundVars
  <2>2. NoConflict(op.session, op.todo)' <=> NoConflict(op.session, op.todo)
    BY <2>1, FittingIs, FittingNext
  <2> QED BY <2>1, <2>2 DEF Restoring, Restorable, Undoing, Before
<1>2. CASE Next
  <2> SUFFICES ASSUME errors' = 0, edits' = 0, op'.at = "restore"
               PROVE  Restorable'
    BY DEF Restoring
  <2>1. Typed /\ op \in Ops(op.needed)
    BY DEF Placed, Typed
  <2>2. errors = 0 /\ Apart
    BY <1>2, <2>1, Successes DEF Exclusive
  <2>3. ~ \E p \in Paths, c \in Held : Edit(p, c)
    BY <2>1, BoundsAre DEF Edit, Typed
  <2>4. \/ \E s \in Sessions, N \in SUBSET (1..MaxSteps) : Undo(s, N)
        \/ op.at = "restore" /\ edits = 0 /\ \E k \in Keys : Act(k)
        \/ op.at = "restore" /\ edits = 0 /\ \E p \in op.left : Restore(p)
        \/ op.at = "restore" /\ edits = 0 /\ MarkUndone
    <3>1. ASSUME \E s \in Sessions, change \in Changes : Begin(s, change)
          PROVE  FALSE
      BY <3>1 DEF Begin, Idle
    <3>2. ASSUME HasRoom \/ StoreFull \/ RecordEviction \/ Install \/ WriteManifest \/ Touch \/ CrashAndOpen
          PROVE  FALSE
      BY <2>1, <3>2, IdleIs DEF HasRoom, StoreFull, RecordEviction, Install, WriteManifest, Touch,
                                CrashAndOpen, Ops
    <3>3. ASSUME \E k \in Victims : Evict(k)
          PROVE  FALSE
      BY <2>1, <3>3 DEF Evict, Ops
    <3>4. ASSUME \E k \in Keys : Commit(k) \/ Abort(k)
          PROVE  FALSE
      BY <3>4 DEF Commit, Abort, Finish, Idle
    <3> QED BY <1>2, <2>1, <2>3, <3>1, <3>2, <3>3, <3>4, Successes
            DEF Act, Restore, MarkUndone, boundVars
  <2>5. op.at = "restore" /\ edits = 0 => Restorable
    BY <2>2 DEF Restoring
  <2> QED BY <2>2, <2>4, <2>5, UndoRestorable, ActRestorable, RestoreRestorable, MarkUndoneRestorable
<1> QED BY <1>1, <1>2


-----------------------------------------------------------------------------
(* The fifth layer: the chain of one session *)

LEMMA FittingChain ==
  ASSUME NEW s
  PROVE  NoConflict(s, NotUndone(s))' <=> Fitting(steps', file', s, NotUndone(s)')
BY DEF NoConflict, Virtual, Fitting, Met

LEMMA OnIs ==
  ASSUME NEW s \in Sessions
  PROVE  /\ NotUndone(s) \subseteq Seqs(steps, s) /\ Seqs(steps, s) \subseteq Nat
         /\ \A n \in Seqs(steps, s) : <<s, n>> \in Keys
         /\ \A p : /\ OpenOn(s, p) \subseteq NotUndone(s) /\ OpenOn(s, p) \subseteq AllOn(s, p)
                   /\ AllOn(s, p) \subseteq Seqs(steps, s)
                   /\ OpenOn(s, p) # {} => Lowest(OpenOn(s, p)) \in OpenOn(s, p)
                   /\ AllOn(s, p) # {} => Lowest(AllOn(s, p)) \in AllOn(s, p)
<1>1. /\ NotUndone(s) \subseteq Seqs(steps, s) /\ Seqs(steps, s) \subseteq Nat
      /\ \A n \in Seqs(steps, s) : <<s, n>> \in Keys
  BY SeqIs DEF NotUndone
<1>2. \A p : /\ OpenOn(s, p) \subseteq NotUndone(s) /\ OpenOn(s, p) \subseteq AllOn(s, p)
             /\ AllOn(s, p) \subseteq Seqs(steps, s)
  BY <1>1 DEF OpenOn, AllOn
<1>3. ASSUME NEW p
      PROVE  /\ OpenOn(s, p) # {} => Lowest(OpenOn(s, p)) \in OpenOn(s, p)
             /\ AllOn(s, p) # {} => Lowest(AllOn(s, p)) \in AllOn(s, p)
  <2>1. OpenOn(s, p) \subseteq Nat /\ AllOn(s, p) \subseteq Nat
    BY <1>1, <1>2
  <2> QED BY <2>1, LowestIs
<1> QED BY <1>1, <1>2, <1>3

\* Steps that record the same, and are undone or not as they were.
SameRecords ==
  \A k \in Keys : /\ steps'[k].before = steps[k].before /\ steps'[k].post = steps[k].post
                  /\ (steps'[k].status = "none") <=> (steps[k].status = "none")
                  /\ (steps'[k].status = "Undone") <=> (steps[k].status = "Undone")

LEMMA SameOn ==
  ASSUME NEW s \in Sessions, SameRecords
  PROVE  /\ Seqs(steps', s) = Seqs(steps, s) /\ NotUndone(s)' = NotUndone(s)
         /\ \A p : OpenOn(s, p)' = OpenOn(s, p) /\ AllOn(s, p)' = AllOn(s, p)
<1>1. Seqs(steps', s) = Seqs(steps, s)
  BY SeqsStay DEF SameRecords
<1>2. \A n \in Seqs(steps, s) : /\ steps'[<<s, n>>].before = steps[<<s, n>>].before
                                /\ (steps'[<<s, n>>].status = "Undone")
                                     <=> (steps[<<s, n>>].status = "Undone")
  BY OnIs DEF SameRecords
<1>3. \A n \in Seqs(steps, s) : Touched(steps'[<<s, n>>]) = Touched(steps[<<s, n>>])
  BY <1>2 DEF Touched
<1>4. NotUndone(s)' = NotUndone(s)
  BY <1>1, <1>2 DEF NotUndone
<1>5. \A n \in NotUndone(s) : n \in Seqs(steps, s)
  BY DEF NotUndone
<1> QED BY <1>1, <1>3, <1>4, <1>5 DEF OpenOn, AllOn

LEMMA LeadsBackStays ==
  ASSUME NEW s \in Sessions, SameRecords, LeadsBack(s),
         \A p \in Paths : OpenOn(s, p) = {} => file'[p] = file[p]
  PROVE  LeadsBack(s)'
<1>1. /\ Seqs(steps', s) = Seqs(steps, s)
      /\ \A p : OpenOn(s, p)' = OpenOn(s, p) /\ AllOn(s, p)' = AllOn(s, p)
  BY SameOn
<1>2. ASSUME NEW p \in Paths, AllOn(s, p) # {}
      PROVE  FirstFound(s, p)' = FirstFound(s, p) /\ UndoneValue(s, p)' = UndoneValue(s, p)
  <2>1. <<s, Lowest(AllOn(s, p))>> \in Keys
    BY <1>2, OnIs
  <2>2. OpenOn(s, p) # {} => <<s, Lowest(OpenOn(s, p))>> \in Keys
    BY OnIs
  <2>3. steps'[<<s, Lowest(AllOn(s, p))>>].before = steps[<<s, Lowest(AllOn(s, p))>>].before
    BY <2>1 DEF SameRecords
  <2>4. OpenOn(s, p) # {} => steps'[<<s, Lowest(OpenOn(s, p))>>].before
                               = steps[<<s, Lowest(OpenOn(s, p))>>].before
    BY <2>2 DEF SameRecords
  <2>5. FirstFound(s, p)' = FirstFound(s, p)
    BY <1>1, <2>3 DEF FirstFound
  <2>6. UndoneValue(s, p)' = UndoneValue(s, p)
    BY <1>1, <2>4 DEF UndoneValue
  <2> QED BY <2>5, <2>6
<1> QED BY <1>1, <1>2 DEF LeadsBack

\* Actions that leave the steps and the folder alone.
LEMMA QuietChain ==
  ASSUME NEW s \in Sessions, Chain(s), steps' = steps, file' = file,
         \A k \in Keys : (tool'[k] = "acted") <=> (tool[k] = "acted"),
         Captured', op'.at = "restore" => op'.session = s /\ op'.todo = NotUndone(s)
  PROVE  Chain(s)'
<1>1. SameRecords
  BY DEF SameRecords
<1>2. NotUndone(s)' = NotUndone(s) /\ Seqs(steps', s) = Seqs(steps, s)
  BY <1>1, SameOn
<1>3. NoConflict(s, NotUndone(s))'
  BY <1>2, FittingIs, FittingChain DEF Chain
<1>4. Holding(s)'
  BY <1>2 DEF Holding, Chain
<1>5. LeadsBack(s)'
  BY <1>1, LeadsBackStays DEF Chain
<1> QED BY <1>2, <1>3, <1>4, <1>5 DEF Chain

\* A step that is finished, and the start of the program, change statuses only.
LEMMA SettledChain ==
  ASSUME Placed, NEW s \in Sessions, Chain(s), SameRecords, file' = file,
         op'.at \notin Opening, op'.at # "restore",
         \A k \in Keys : steps'[k].status = "Prepared"
                          => steps[k].status = "Prepared" /\ tool'[k] = tool[k]
  PROVE  Chain(s)'
<1>1. NotUndone(s)' = NotUndone(s) /\ Seqs(steps', s) = Seqs(steps, s)
  BY SameOn
<1>2. NoConflict(s, NotUndone(s))'
  <2>1. NotUndone(s) \subseteq Nat /\ \A n \in NotUndone(s) : <<s, n>> \in Keys
    BY OnIs
  <2>2. \A n \in NotUndone(s) : /\ steps'[<<s, n>>].before = steps[<<s, n>>].before
                                /\ steps'[<<s, n>>].post = steps[<<s, n>>].post
    BY <2>1 DEF SameRecords
  <2>3. Fitting(steps, file, s, NotUndone(s))
    BY FittingIs DEF Chain
  <2>4. Fitting(steps', file, s, NotUndone(s))
    BY <2>1, <2>2, <2>3, FittingAgrees
  <2> QED BY <1>1, <2>4, FittingChain
<1>3. Holding(s)'
  <2>1. \A k \in Keys : Touched(steps'[k]) = Touched(steps[k])
    BY DEF SameRecords, Touched
  <2>2. \A n \in Seqs(steps, s) : <<s, n>> \in Keys
    BY OnIs
  <2>3. \A n \in Seqs(steps, s) : Touched(steps'[<<s, n>>]) = Touched(steps[<<s, n>>])
    BY <2>1, <2>2
  <2> SUFFICES ASSUME NEW k \in Keys, steps'[k].status = "Prepared", NEW p \in Touched(steps'[k])
               PROVE  /\ file'[p] = IF tool'[k] = "acted" THEN steps'[k].post[p] ELSE steps'[k].before[p]
                      /\ \A n \in Seqs(steps', s) : p \in Touched(steps'[<<s, n>>]) => n <= k[2]
    BY DEF Holding
  <2>4. steps[k].status = "Prepared" /\ p \in Touched(steps[k]) /\ tool'[k] = tool[k]
    BY <2>1
  <2>5. /\ file[p] = IF tool[k] = "acted" THEN steps[k].post[p] ELSE steps[k].before[p]
        /\ \A n \in Seqs(steps, s) : p \in Touched(steps[<<s, n>>]) => n <= k[2]
    BY <2>4 DEF Chain, Holding
  <2> QED BY <1>1, <2>3, <2>4, <2>5 DEF SameRecords
<1>4. LeadsBack(s)'
  BY LeadsBackStays DEF Chain
<1> QED BY <1>2, <1>3, <1>4 DEF Chain, Captured

LEMMA BeginChain ==
  ASSUME Placed, NEW s \in Sessions, Chain(s),
         NEW t \in Sessions, NEW change \in Changes, Begin(t, change)
  PROVE  Chain(s)'
<1> DEFINE r == Capture(change)
<1>1. /\ op' = [Idle EXCEPT !.at = "fit", !.session = t, !.rec = r, !.needed = Needed(r)]
      /\ UNCHANGED <<file, memVars, tool>>
  BY DEF Begin
<1>2. \A p \in Touched(r) : r.before[p] = file[p]
  BY CaptureIs DEF Placed, Typed
<1> HIDE DEF r
<1>3. op'.at = "fit" /\ op'.rec = r
  BY <1>1 DEF Idle
<1> QED BY <1>1, <1>2, <1>3, QuietChain DEF Captured, memVars

LEMMA QuietActionsChain ==
  ASSUME Placed, NEW s \in Sessions, Chain(s),
         HasRoom \/ StoreFull \/ RecordEviction \/ Install \/ Touch
  PROVE  Chain(s)'
<1>1. op \in Ops(op.needed) /\ Typed
  BY DEF Placed, Typed
<1>2. CASE HasRoom \/ RecordEviction \/ Install
  <2>1. op.at \in Opening /\ op'.at \in Opening /\ op'.rec = op.rec
    BY <1>1, <1>2 DEF HasRoom, RecordEviction, Install, Opening, Ops
  <2>2. steps' = steps /\ file' = file /\ tool' = tool
    BY <1>2 DEF HasRoom, RecordEviction, Install, memVars
  <2> QED BY <2>1, <2>2, QuietChain DEF Captured, Chain, Opening
<1>3. CASE StoreFull \/ Touch
  <2>1. op'.at = "idle"
    BY <1>3, IdleIs DEF StoreFull, Touch
  <2>2. steps' = steps /\ file' = file
    BY <1>3 DEF StoreFull, Touch, memVars
  <2>3. \A k \in Keys : (tool'[k] = "acted") <=> (tool[k] = "acted")
    <3>1. CASE StoreFull
      BY <3>1 DEF StoreFull
    <3>2. CASE Touch
      <4>1. op.at = "begun" => tool[Key] = "none"
        BY DEF Placed, OpPlaced
      <4>2. \/ tool' = tool
            \/ op.at = "begun" /\ tool' = [tool EXCEPT ![Key] = "working"]
        BY <3>2 DEF Touch, Key
      <4> QED BY <1>1, <4>1, <4>2 DEF Typed
    <3> QED BY <1>3, <3>1, <3>2
  <2> QED BY <2>1, <2>2, <2>3, QuietChain DEF Captured, Opening
<1> QED BY <1>2, <1>3

LEMMA UndoChain ==
  ASSUME NEW s \in Sessions, Chain(s), Undo(s, NotUndone(s))
  PROVE  Chain(s)'
<1>1. op' = [Idle EXCEPT !.at = "restore", !.session = s, !.todo = NotUndone(s),
                         !.left = NextPaths(s, NotUndone(s))]
  BY DEF Undo
<1>2. steps' = steps /\ file' = file /\ tool' = tool
  BY DEF Undo, memVars
<1>3. op'.at = "restore" /\ op'.session = s /\ op'.todo = NotUndone(s)
  <2> HIDE DEF NextPaths, NotUndone
  <2> QED BY <1>1 DEF Idle
<1> QED BY <1>2, <1>3, QuietChain DEF Captured, Opening

\* A tool that acts finds what its step recorded, and is the last on its paths.
LEMMA ActChain ==
  ASSUME Placed, Apart, NEW s \in Sessions, Sessions = {s}, Chain(s), NEW k \in Keys, Act(k)
  PROVE  Chain(s)'
<1>1. /\ tool[k] = "working" /\ file' = Changed(steps[k]) /\ Typed
      /\ tool' = [tool EXCEPT ![k] = "acted"] /\ steps' = steps /\ op' = op
  BY DEF Act, memVars, Placed
<1>2. Shaped(steps[k]) /\ steps[k] \in Records /\ steps[k].status = "Prepared" /\ InFlight(k)
  <2>1. StepPlaced(k)
    BY DEF Placed
  <2>2. Shaped(steps[k]) /\ steps[k].status = "Prepared"
    BY <1>1, <2>1 DEF StepPlaced, Live
  <2> QED BY <1>1, <2>2, KeyIs, EntryIs DEF NoStep, InFlight, Live
<1>3. k[1] = s /\ k = <<s, k[2]>> /\ k[2] \in NotUndone(s) /\ k[2] \in Nat
  <2>1. k = <<k[1], k[2]>> /\ k[1] = s /\ k[2] \in Nat
    BY <1>1, KeyIs
  <2>2. k[2] \in Seqs(steps, s)
    BY <1>2, <2>1, SeqIs
  <2> QED BY <1>2, <2>1, <2>2 DEF NotUndone
<1>4. \A p \in Touched(steps[k]) : file[p] = steps[k].before[p]
  BY <1>1, <1>2 DEF Chain, Holding
<1>5. /\ \A p \in Touched(steps[k]) : file'[p] = steps[k].post[p]
      /\ \A p \in Paths : p \notin Touched(steps[k]) => file'[p] = file[p]
  BY <1>1, <1>2, <1>4, ChangedIs DEF Typed
<1>6. \A j \in Keys : Touched(steps[j]) \subseteq Paths
  BY <1>1, KeyIs, EntryIs
<1>7. /\ tool'[k] = "acted" /\ \A j \in Keys : j # k => tool'[j] = tool[j]
  BY <1>1 DEF Typed
<1>8. SameRecords
  BY <1>1 DEF SameRecords
<1>9. NotUndone(s)' = NotUndone(s) /\ Seqs(steps', s) = Seqs(steps, s)
  BY <1>8, SameOn
<1>10. NoConflict(s, NotUndone(s))'
  <2>1. ASSUME NEW n \in NotUndone(s), NEW p \in Touched(steps[<<s, n>>]),
               \A m \in NotUndone(s) : m > n => p \notin Touched(steps[<<s, m>>])
        PROVE  file'[p] \in {file[p], steps[<<s, n>>].before[p], steps[<<s, n>>].post[p]}
    <3>1. <<s, n>> \in Keys /\ n \in Seqs(steps, s) /\ n \in Nat
      BY OnIs
    <3>2. CASE p \in Touched(steps[k])
      <4>1. n <= k[2] /\ ~(k[2] > n)
        BY <1>2, <1>3, <2>1, <3>1, <3>2 DEF Chain, Holding
      <4>2. n = k[2]
        BY <1>3, <3>1, <4>1
      <4> QED BY <1>3, <1>5, <3>2, <4>2
    <3>3. CASE p \notin Touched(steps[k])
      BY <1>5, <1>6, <3>1, <3>3
    <3> QED BY <3>2, <3>3
  <2>2. Fitting(steps, file, s, NotUndone(s))
    BY FittingIs DEF Chain
  <2>3. Fitting(steps, file', s, NotUndone(s))
    BY <2>1, <2>2, FittingWith
  <2> QED BY <1>1, <1>9, <2>3, FittingChain
<1>11. Holding(s)'
  <2> SUFFICES ASSUME NEW j \in Keys, steps[j].status = "Prepared", NEW p \in Touched(steps[j])
               PROVE  /\ file'[p] = IF tool'[j] = "acted" THEN steps[j].post[p] ELSE steps[j].before[p]
                      /\ \A n \in Seqs(steps, s) : p \in Touched(steps[<<s, n>>]) => n <= j[2]
    BY <1>1, <1>9 DEF Holding
  <2>1. \A n \in Seqs(steps, s) : p \in Touched(steps[<<s, n>>]) => n <= j[2]
    BY DEF Chain, Holding
  <2>2. file[p] = IF tool[j] = "acted" THEN steps[j].post[p] ELSE steps[j].before[p]
    BY DEF Chain, Holding
  <2>3. CASE j = k
    BY <1>5, <1>7, <2>1, <2>3
  <2>4. CASE j # k
    <3>1. p \notin Touched(steps[k])
      BY <1>2, <2>4 DEF Apart
    <3> QED BY <1>5, <1>6, <1>7, <2>1, <2>2, <2>4, <3>1
  <2> QED BY <2>3, <2>4
<1>12. Captured'
  <2> SUFFICES ASSUME op.at \in Opening, NEW p \in Touched(op.rec)
               PROVE  op.rec.before[p] = file'[p]
    BY <1>1 DEF Captured
  <2>1. op.rec \in Records /\ Free(op.rec)
    BY DEF Placed, OpPlaced
  <2>2. p \in Paths
    BY <2>1, EntryIs DEF Entries
  <2>3. p \notin Touched(steps[k])
    BY <1>2, <2>1 DEF Apart, Free
  <2> QED BY <1>5, <2>2, <2>3 DEF Chain, Captured
<1>13. LeadsBack(s)'
  <2>1. ASSUME NEW p \in Paths, OpenOn(s, p) = {}
        PROVE  file'[p] = file[p]
    <3>1. p \notin Touched(steps[k])
      BY <1>3, <2>1 DEF OpenOn
    <3> QED BY <1>5, <3>1
  <2> QED BY <1>8, <2>1, LeadsBackStays DEF Chain
<1> QED BY <1>1, <1>9, <1>10, <1>11, <1>12, <1>13 DEF Chain

\* A commit records what the tool left, which is what it announced.
LEMMA FinishChain ==
  ASSUME Placed, NEW s \in Sessions, Chain(s), NEW k \in Keys, Commit(k) \/ Abort(k)
  PROVE  Chain(s)'
<1>0. \/ Finish(k, Interrupted(steps[k]))
      \/ tool[k] = "acted" /\ Finish(k, Committed(steps[k]))
  BY DEF Commit, Abort
<1>1. PICK r \in {Committed(steps[k]), Interrupted(steps[k])} :
        /\ Finish(k, r)
        /\ r = Interrupted(steps[k]) \/ (tool[k] = "acted" /\ r = Committed(steps[k]))
  <2> HIDE DEF Finish, Committed, Interrupted
  <2> QED BY <1>0
<1>2. tool[k] # "none" /\ op = Idle /\ Typed
  BY DEF Commit, Abort, Finish, Placed
<1>3. /\ steps' = [steps EXCEPT ![k] = r] /\ tool' = [tool EXCEPT ![k] = "none"] /\ file' = file
      /\ op' = [Idle EXCEPT !.at = "finished", !.session = k[1], !.seq = k[2]]
  BY <1>1 DEF Finish
<1>4. /\ r.status \in {"Committed", "Interrupted"} /\ r.before = steps[k].before
      /\ steps[k] \in Records /\ steps[k].status = "Prepared"
  BY <1>2, FinishedIs
<1>5. r.post = steps[k].post
  <2>1. CASE r = Interrupted(steps[k])
    BY <1>4, <2>1, StatusIs DEF Interrupted, Statuses
  <2>2. CASE r = Committed(steps[k]) /\ tool[k] = "acted"
    <3>1. r.post = [p \in Touched(steps[k]) |-> file[p]]
      BY <1>2, <1>4, <2>2, CommittedIs DEF Typed
    <3>2. steps[k].post \in [Touched(steps[k]) -> Held]
      BY <1>4, EntryIs DEF Entries
    <3>3. \A p \in Touched(steps[k]) : file[p] = steps[k].post[p]
      BY <1>4, <2>2 DEF Chain, Holding
    <3> QED BY <3>1, <3>2, <3>3
  <2> QED BY <1>1, <2>1, <2>2
<1>6. op'.at = "finished"
  BY <1>3 DEF Idle
<1>7. /\ steps'[k] = r /\ \A j \in Keys : j # k => steps'[j] = steps[j] /\ tool'[j] = tool[j]
  BY <1>2, <1>3 DEF Typed
<1>8. SameRecords
  BY <1>4, <1>5, <1>7 DEF SameRecords
<1>9. \A j \in Keys : steps'[j].status = "Prepared" => steps[j].status = "Prepared" /\ tool'[j] = tool[j]
  BY <1>4, <1>7
<1> QED BY <1>3, <1>6, <1>8, <1>9, SettledChain DEF Opening

LEMMA CrashChain ==
  ASSUME Placed, Apart, NEW s \in Sessions, Chain(s), CrashAndOpen
  PROVE  Chain(s)'
<1>1. steps' = Loaded /\ op' = Idle /\ file' = file
  BY DEF CrashAndOpen
<1>2. op'.at = "idle"
  BY <1>1, IdleIs
<1>3. /\ disk = steps
      /\ \A k \in Keys : /\ Loaded[k].before = disk[k].before /\ Loaded[k].post = disk[k].post
              /\ Loaded[k].status = IF disk[k].status = "Prepared" THEN "Interrupted" ELSE disk[k].status
  BY LoadedIs DEF Apart
<1> HIDE DEF Loaded
<1>4. SameRecords /\ \A k \in Keys : steps'[k].status # "Prepared"
  BY <1>1, <1>3 DEF SameRecords
<1> QED BY <1>1, <1>2, <1>4, SettledChain DEF Opening

LEMMA RestoreChain ==
  ASSUME Placed, Apart, NEW s \in Sessions, Chain(s), NEW p \in op.left, Restore(p), Restorable'
  PROVE  Chain(s)'
<1>1. /\ op.at = "restore" /\ file' = [file EXCEPT ![p] = Before(p)]
      /\ op' = [op EXCEPT !.left = op.left \ {p}] /\ steps' = steps /\ tool' = tool /\ Typed
  BY DEF Restore, memVars, Placed
<1>2. op.session = s /\ op.todo = NotUndone(s)
  BY <1>1 DEF Chain
<1>3. op'.at = "restore" /\ op'.session = s /\ op'.todo = NotUndone(s)
  BY <1>1, <1>2 DEF Typed, Ops
<1>4. SameRecords
  BY <1>1 DEF SameRecords
<1>5. NotUndone(s)' = NotUndone(s) /\ Seqs(steps', s) = Seqs(steps, s)
  BY <1>4, SameOn
<1>6. NoConflict(s, NotUndone(s))'
  BY <1>3, <1>5, FittingNext, FittingChain DEF Restorable
<1>7. op.todo # {}
  BY <1>1 DEF Placed, OpPlaced, NextPaths
<1>8. p \in Touched(steps[<<s, Newest(op.todo)>>]) /\ Newest(op.todo) \in op.todo /\ p \in Paths
  BY <1>1, <1>2, <1>7, UndoingIs
<1>9. p \notin busy
  BY <1>1, <1>2, <1>8 DEF Apart, Free
<1>10. \A q \in Paths : q # p => file'[q] = file[q]
  BY <1>1 DEF Typed
<1>11. Holding(s)'
  <2> SUFFICES ASSUME NEW k \in Keys, steps[k].status = "Prepared", NEW q \in Touched(steps[k])
               PROVE  file'[q] = file[q]
    BY <1>1, <1>5 DEF Chain, Holding
  <2>1. q \in busy /\ q \in Paths
    BY <1>1 DEF Apart, Typed
  <2> QED BY <1>9, <1>10, <2>1
<1>12. LeadsBack(s)'
  <2>1. ASSUME NEW q \in Paths, OpenOn(s, q) = {}
        PROVE  file'[q] = file[q]
    <3>1. p \in Touched(steps[<<s, Newest(op.todo)>>]) /\ Newest(op.todo) \in NotUndone(s)
      BY <1>2, <1>8
    <3>2. q # p
      BY <2>1, <3>1 DEF OpenOn
    <3> QED BY <1>10, <3>2
  <2> QED BY <1>4, <2>1, LeadsBackStays DEF Chain
<1> QED BY <1>3, <1>5, <1>6, <1>11, <1>12 DEF Chain, Captured, Opening

\* The newest step is undone: what it found is what the path holds now.
LEMMA MarkUndoneChain ==
  ASSUME Placed, Apart, Restorable, NEW s \in Sessions, Chain(s), MarkUndone, Restorable'
  PROVE  Chain(s)'
<1> DEFINE t == Newest(NotUndone(s))
<1>1. /\ op.at = "restore" /\ op.todo # {} /\ op.left = {} /\ file' = file /\ tool' = tool
      /\ steps'[Undoing].status = "Undone" /\ steps'[Undoing].before = steps[Undoing].before
      /\ \A j \in Keys : j # Undoing => steps'[j] = steps[j]
      /\ op'.at = "restore" /\ op'.session = op.session
      /\ op'.todo = op.todo \ {Newest(op.todo)}
  BY UndoneIs
<1>2. op.session = s /\ op.todo = NotUndone(s)
  BY <1>1 DEF Chain
<1>3. /\ Undoing = <<s, t>> /\ Undoing \in Keys
      /\ t \in NotUndone(s) /\ NotUndone(s) \subseteq 1..MaxSteps
      /\ \A n \in NotUndone(s) : n <= t
      /\ steps[Undoing].status \in {"Committed", "Interrupted"}
  BY <1>1, <1>2, UndoingIs
<1> HIDE DEF t
<1>4. /\ \A n \in Seqs(steps, s) : <<s, n>> \in Keys /\ n \in Nat /\ (n # t => <<s, n>> # Undoing)
      /\ \A k \in Keys : /\ steps'[k].before = steps[k].before
                         /\ (steps'[k].status = "none") <=> (steps[k].status = "none")
  BY <1>1, <1>3, OnIs
<1>5. Seqs(steps', s) = Seqs(steps, s)
  BY <1>4, SeqsStay
<1>6. NotUndone(s)' = NotUndone(s) \ {t}
  BY <1>1, <1>3, <1>4, <1>5 DEF NotUndone
<1>7. NoConflict(s, NotUndone(s))'
  BY <1>1, <1>2, <1>6, FittingNext, FittingChain DEF Restorable, t
<1>8. \A n \in Seqs(steps, s) : /\ steps'[<<s, n>>].before = steps[<<s, n>>].before
                                /\ Touched(steps'[<<s, n>>]) = Touched(steps[<<s, n>>])
  BY <1>4 DEF Touched
<1>9. Holding(s)'
  <2>1. \A k \in Keys : steps'[k].status = "Prepared" => steps'[k] = steps[k]
    BY <1>1
  <2> QED BY <1>1, <1>5, <1>8, <2>1 DEF Chain, Holding
<1>10. LeadsBack(s)'
  <2> SUFFICES ASSUME 1 \in Seqs(steps, s), NEW p \in Paths, AllOn(s, p)' # {}
               PROVE  UndoneValue(s, p)' = FirstFound(s, p)'
    BY <1>5 DEF LeadsBack
  <2>1. AllOn(s, p)' = AllOn(s, p)
    BY <1>5, <1>8 DEF AllOn
  <2>2. OpenOn(s, p)' = OpenOn(s, p) \ {t}
    <3>1. \A n \in NotUndone(s) : n \in Seqs(steps, s)
      BY OnIs
    <3> QED BY <1>6, <1>8, <3>1 DEF OpenOn
  <2>3. Lowest(AllOn(s, p)) \in Seqs(steps, s)
    BY <2>1, OnIs
  <2>4. FirstFound(s, p)' = FirstFound(s, p)
    BY <1>8, <2>1, <2>3 DEF FirstFound
  <2>5. UndoneValue(s, p) = FirstFound(s, p)
    BY <2>1 DEF Chain, LeadsBack
  <2>6. UndoneValue(s, p)' = UndoneValue(s, p)
    <3> DEFINE below == OpenOn(s, p) \ {t}
    <3>1. /\ OpenOn(s, p) \subseteq NotUndone(s) /\ NotUndone(s) \subseteq Seqs(steps, s)
          /\ NotUndone(s) \subseteq Nat
      BY OnIs
    <3>2. below \subseteq Nat /\ t \in Nat /\ \A m \in below : m < t
      <4>1. \A m \in below : m \in Nat /\ t \in Nat /\ m # t /\ m <= t
        BY <1>3, <3>1
      <4> HIDE DEF below
      <4> QED BY <4>1, <1>3, <3>1
    <3>3. OpenOn(s, p)' = below
      BY <2>2
    <3>4. below # {} => Lowest(below) \in Seqs(steps, s)
      <4>1. below \subseteq Seqs(steps, s)
        BY <3>1
      <4> HIDE DEF below
      <4> QED BY <3>2, <4>1, LowestIs
    <3>5. UndoneValue(s, p)' = IF below = {} THEN file[p] ELSE steps[<<s, Lowest(below)>>].before[p]
      BY <1>1, <1>8, <3>3, <3>4 DEF UndoneValue
    <3>6. CASE t \notin OpenOn(s, p)
      <4>1. below = OpenOn(s, p)
        BY <3>6
      <4> QED BY <3>5, <4>1 DEF UndoneValue
    <3>7. CASE t \in OpenOn(s, p)
      <4>1. below \cup {t} = OpenOn(s, p)
        BY <3>7
      <4>2. file[p] = steps[<<s, t>>].before[p]
        BY <1>1, <1>2, <1>3, <3>7 DEF OpenOn, Restorable, Before
      <4> HIDE DEF below
      <4>3. Lowest(OpenOn(s, p)) = IF below = {} THEN t ELSE Lowest(below)
        BY <3>2, <4>1, LowestBelow
      <4> QED BY <3>5, <3>7, <4>2, <4>3 DEF UndoneValue
    <3> QED BY <3>6, <3>7
  <2> QED BY <2>4, <2>5, <2>6
<1> QED BY <1>1, <1>2, <1>6, <1>7, <1>9, <1>10 DEF Chain, Captured, Opening, t

LEMMA EvictChain ==
  ASSUME Placed, NEW s \in Sessions, Sessions = {s}, Chain(s), NEW k \in Victims, Evict(k)
  PROVE  Chain(s)'
<1> DEFINE o == k[2]
<1>1. /\ k \in Keys /\ k = <<s, o>> /\ o \in Seqs(steps, s) /\ Typed
      /\ \A n \in Seqs(steps, s) : o <= n
  BY VictimIs DEF Placed
<1>2. /\ steps' = [steps EXCEPT ![k] = NoStep] /\ file' = file /\ tool' = tool
      /\ op' = [op EXCEPT !.at = "evicted", !.victim = k[1]] /\ op.at = "fit"
  BY DEF Evict
<1>3. /\ steps'[k] = NoStep /\ \A j \in Keys : j # k => steps'[j] = steps[j]
  BY <1>1, <1>2 DEF Typed
<1>4. op'.at = "evicted" /\ op'.rec = op.rec
  BY <1>1, <1>2 DEF Typed, Ops
<1> HIDE DEF o
<1>5. /\ \A n \in Seqs(steps, s) : <<s, n>> \in Keys /\ n \in Nat /\ (n # o => <<s, n>> # k)
      /\ NotUndone(s) \subseteq Seqs(steps, s)
  BY <1>1, OnIs
<1>6. Seqs(steps', s) = Seqs(steps, s) \ {o}
  <2>1. ASSUME NEW n \in 1..MaxSteps
        PROVE  (steps'[<<s, n>>].status # "none") <=> (steps[<<s, n>>].status # "none" /\ n # o)
    <3>1. <<s, n>> \in Keys /\ (<<s, n>> = k <=> n = o)
      BY <1>1, SeqIs
    <3> QED BY <1>3, <3>1, NoStepIs
  <2> QED BY <2>1 DEF Seqs
<1>7. \A n \in Seqs(steps', s) : n \in Seqs(steps, s) /\ steps'[<<s, n>>] = steps[<<s, n>>]
  BY <1>3, <1>5, <1>6
<1>8. NotUndone(s)' = NotUndone(s) \ {o}
  BY <1>6, <1>7 DEF NotUndone
<1>9. NoConflict(s, NotUndone(s))'
  <2> DEFINE M == NotUndone(s) \ {o}
  <2>1. M \in SUBSET NotUndone(s)
    OBVIOUS
  <2>2. \A n \in M, m \in NotUndone(s) : m > n => m \in M
    <3>1. \A n \in M : n \in Nat /\ o \in Nat /\ o <= n /\ n # o
      BY <1>1, <1>5
    <3>2. \A n \in M : ~(o > n)
      BY <3>1
    <3> QED BY <3>2
  <2>3. M \subseteq Nat /\ \A n \in M : steps'[<<s, n>>] = steps[<<s, n>>]
    BY <1>5, <1>6, <1>7
  <2> HIDE DEF M
  <2>4. Fitting(steps, file, s, NotUndone(s))
    BY FittingIs DEF Chain
  <2>5. Fitting(steps, file, s, M)
    BY <2>1, <2>2, <2>4, FittingAbove
  <2>6. Fitting(steps', file, s, M)
    BY <2>3, <2>5, FittingAgrees
  <2> QED BY <1>2, <1>8, <2>6, FittingChain DEF M
<1>10. Holding(s)'
  <2>1. \A j \in Keys : steps'[j].status = "Prepared" => steps'[j] = steps[j]
    BY <1>3, NoStepIs
  <2> SUFFICES ASSUME NEW j \in Keys, steps'[j].status = "Prepared", NEW p \in Touched(steps'[j])
               PROVE  /\ file'[p] = IF tool'[j] = "acted" THEN steps'[j].post[p] ELSE steps'[j].before[p]
                      /\ \A n \in Seqs(steps', s) : p \in Touched(steps'[<<s, n>>]) => n <= j[2]
    BY DEF Holding
  <2>2. steps[j].status = "Prepared" /\ p \in Touched(steps[j]) /\ steps'[j] = steps[j]
    BY <2>1
  <2>3. /\ file[p] = IF tool[j] = "acted" THEN steps[j].post[p] ELSE steps[j].before[p]
        /\ \A n \in Seqs(steps, s) : p \in Touched(steps[<<s, n>>]) => n <= j[2]
    BY <2>2 DEF Chain, Holding
  <2>4. \A n \in Seqs(steps', s) : p \in Touched(steps'[<<s, n>>]) => n <= j[2]
    BY <1>7, <2>3
  <2> QED BY <1>2, <2>2, <2>3, <2>4
<1>11. Captured'
  BY <1>2, <1>4 DEF Chain, Captured, Opening
<1>12. 1 \notin Seqs(steps', s)
  <2> SUFFICES ASSUME 1 \in Seqs(steps, s), 1 # o PROVE FALSE
    BY <1>6
  <2>1. o <= 1 /\ o \in 1..MaxSteps
    BY <1>1, SeqIs
  <2> QED BY <2>1, BoundsAre
<1> QED BY <1>4, <1>9, <1>10, <1>11, <1>12 DEF Chain, LeadsBack

\* The step on record last found what is in the folder.
LEMMA WriteManifestChain ==
  ASSUME Placed, Apart, NEW s \in Sessions, Sessions = {s}, Chain(s), WriteManifest
  PROVE  Chain(s)'
<1> DEFINE t == NextSeq
           k == <<s, t>>
<1>1. /\ op.at = "manifest" /\ Allocate /\ Typed /\ op.session = s
      /\ steps' = [steps EXCEPT ![<<op.session, NextSeq>>] = op.rec]
      /\ op' = [op EXCEPT !.at = "begun", !.seq = NextSeq] /\ file' = file /\ tool' = tool
  BY DEF WriteManifest, Placed, OpPlaced
<1>2. /\ k \in Keys /\ t \in 1..MaxSteps /\ t \in Nat /\ steps[k] = NoStep /\ tool[k] = "none"
      /\ meta[s].last < t /\ meta[s].last \in Nat
  BY <1>1, NextIs, BoundsAre
<1>3. /\ op.rec \in Records /\ op.rec.status = "Prepared" /\ Free(op.rec)
      /\ \A p \in Touched(op.rec) : op.rec.before[p] = file[p]
  BY <1>1 DEF Placed, OpPlaced, Opening, Chain, Captured
<1>4. op'.at = "begun"
  BY <1>1 DEF Typed, Ops
<1> HIDE DEF t
<1>5. k[2] = t /\ steps'[k] = op.rec /\ \A j \in Keys : j # k => steps'[j] = steps[j]
  BY <1>1, <1>2 DEF Typed, t
<1> HIDE DEF k
<1>6. /\ NotUndone(s) \subseteq Seqs(steps, s) /\ Seqs(steps, s) \subseteq Nat
      /\ \A n \in Seqs(steps, s) : /\ <<s, n>> \in Keys /\ <<s, n>> # k
                                   /\ n \in Nat /\ n < t /\ n <= t /\ n # t
  <2>1. /\ NotUndone(s) \subseteq Seqs(steps, s) /\ Seqs(steps, s) \subseteq Nat
        /\ \A n \in Seqs(steps, s) : <<s, n>> \in Keys /\ steps[<<s, n>>].status # "none"
    BY OnIs, SeqIs
  <2>2. \A n \in Seqs(steps, s) : n <= meta[s].last /\ n \in Nat
    BY <2>1 DEF Placed, StepPlaced
  <2>3. \A n \in Seqs(steps, s) : n \in Nat /\ n < t /\ n <= t /\ n # t
    BY <1>2, <2>2
  <2>4. \A n \in Seqs(steps, s) : <<s, n>> # k
    BY <1>2, <2>1, NoStepIs
  <2> QED BY <2>1, <2>3, <2>4
<1>7. \A n : n \in Seqs(steps', s) <=> n \in Seqs(steps, s) \/ n = t
  <2>1. ASSUME NEW n \in 1..MaxSteps
        PROVE  (steps'[<<s, n>>].status # "none") <=> (steps[<<s, n>>].status # "none" \/ n = t)
    <3>1. <<s, n>> \in Keys /\ (<<s, n>> = k <=> n = t)
      BY SeqIs DEF k
    <3> QED BY <1>3, <1>5, <3>1
  <2> QED BY <1>2, <2>1 DEF Seqs
<1>8. /\ steps'[<<s, t>>] = op.rec
      /\ \A n \in Seqs(steps, s) : n # t /\ steps'[<<s, n>>] = steps[<<s, n>>]
  BY <1>5, <1>6 DEF k
<1>9. NotUndone(s)' = NotUndone(s) \cup {t}
  <2>1. \A n : n \in NotUndone(s)' <=> n \in NotUndone(s) \/ n = t
    BY <1>3, <1>7, <1>8 DEF NotUndone
  <2> QED BY <2>1
<1>10. NoConflict(s, NotUndone(s))'
  <2> DEFINE N == NotUndone(s) \cup {t}
  <2>1. IsTop(N, t)
    <3>1. t \in Nat /\ t <= t
      BY <1>2
    <3> QED BY <1>6, <3>1 DEF IsTop
  <2>2. FoundNow(steps', file, s, t)
    BY <1>3, <1>8 DEF FoundNow
  <2>3. NotUndone(s) \subseteq Nat /\ \A n \in NotUndone(s) : steps'[<<s, n>>] = steps[<<s, n>>]
    BY <1>6, <1>8
  <2>4. Fitting(steps, file, s, NotUndone(s))
    BY FittingIs DEF Chain
  <2>5. Fitting(steps', file, s, NotUndone(s))
    BY <2>3, <2>4, FittingAgrees
  <2>6. N \ {t} = NotUndone(s)
    BY <1>6, <1>8
  <2> HIDE DEF N
  <2>7. Fitting(steps', file, s, N)
    BY <2>1, <2>2, <2>5, <2>6, FittingTop
  <2> QED BY <1>1, <1>9, <2>7, FittingChain DEF N
<1>11. Holding(s)'
  <2> SUFFICES ASSUME NEW j \in Keys, steps'[j].status = "Prepared", NEW p \in Touched(steps'[j])
               PROVE  /\ file[p] = IF tool[j] = "acted" THEN steps'[j].post[p] ELSE steps'[j].before[p]
                      /\ \A n \in Seqs(steps', s) : p \in Touched(steps'[<<s, n>>]) => n <= j[2]
    BY <1>1 DEF Holding
  <2>1. CASE j = k
    <3>1. file[p] = steps'[j].before[p] /\ tool[j] # "acted"
      BY <1>2, <1>3, <1>5, <2>1
    <3>2. t <= t
      BY <1>2
    <3>3. \A n \in Seqs(steps', s) : n <= t
      BY <1>6, <1>7, <3>2
    <3> QED BY <1>5, <2>1, <3>1, <3>3
  <2>2. CASE j # k
    <3>1. steps'[j] = steps[j]
      BY <1>5, <2>2
    <3>2. /\ file[p] = IF tool[j] = "acted" THEN steps[j].post[p] ELSE steps[j].before[p]
          /\ \A n \in Seqs(steps, s) : p \in Touched(steps[<<s, n>>]) => n <= j[2]
      BY <3>1 DEF Chain, Holding
    <3>3. p \notin Touched(op.rec)
      BY <1>3, <3>1 DEF Apart, Free
    <3>4. \A n \in Seqs(steps', s) : p \in Touched(steps'[<<s, n>>]) => n <= j[2]
      BY <1>7, <1>8, <3>2, <3>3
    <3> QED BY <3>1, <3>2, <3>4
  <2> QED BY <2>1, <2>2
<1>12. LeadsBack(s)'
  <2> SUFFICES ASSUME 1 \in Seqs(steps', s), NEW p \in Paths, AllOn(s, p)' # {}
               PROVE  UndoneValue(s, p)' = FirstFound(s, p)'
    BY DEF LeadsBack
  <2>1. /\ AllOn(s, p) \subseteq Seqs(steps, s) /\ OpenOn(s, p) \subseteq NotUndone(s)
        /\ OpenOn(s, p) \subseteq AllOn(s, p)
        /\ AllOn(s, p) # {} => Lowest(AllOn(s, p)) \in AllOn(s, p)
        /\ OpenOn(s, p) # {} => Lowest(OpenOn(s, p)) \in OpenOn(s, p)
    BY OnIs
  <2>2. AllOn(s, p) # {} => UndoneValue(s, p) = FirstFound(s, p)
    <3>1. ASSUME AllOn(s, p) # {} PROVE 1 \in Seqs(steps, s)
      <4>1. PICK n \in Seqs(steps, s) : TRUE
        BY <2>1, <3>1
      <4>2. n \in 1..MaxSteps /\ n < t
        BY <1>6, SeqIs
      <4>3. t # 1
        BY <1>2, <4>2, BoundsAre
      <4> QED BY <1>7, <4>3
    <3> QED BY <3>1 DEF Chain, LeadsBack
  <2>3. CASE p \notin Touched(op.rec)
    <3>1. AllOn(s, p)' = AllOn(s, p) /\ OpenOn(s, p)' = OpenOn(s, p)
      <4>1. \A n : n \in AllOn(s, p)' <=> n \in AllOn(s, p)
        BY <1>7, <1>8, <2>3 DEF AllOn
      <4>2. \A n : n \in OpenOn(s, p)' <=> n \in OpenOn(s, p)
        BY <1>6, <1>8, <1>9, <2>3 DEF OpenOn
      <4> QED BY <4>1, <4>2
    <3>2. FirstFound(s, p)' = FirstFound(s, p)
      BY <1>8, <2>1, <3>1 DEF FirstFound
    <3>3. UndoneValue(s, p)' = UndoneValue(s, p)
      BY <1>1, <1>6, <1>8, <2>1, <3>1 DEF UndoneValue
    <3> QED BY <2>2, <3>1, <3>2, <3>3
  <2>4. CASE p \in Touched(op.rec)
    <3>1. AllOn(s, p)' = AllOn(s, p) \cup {t} /\ OpenOn(s, p)' = OpenOn(s, p) \cup {t}
      <4>1. \A n : n \in AllOn(s, p)' <=> n \in AllOn(s, p) \/ n = t
        BY <1>7, <1>8, <2>4 DEF AllOn
      <4>2. \A n : n \in OpenOn(s, p)' <=> n \in OpenOn(s, p) \/ n = t
        BY <1>6, <1>8, <1>9, <2>4 DEF OpenOn
      <4> QED BY <4>1, <4>2
    <3>2. /\ AllOn(s, p) \subseteq Nat /\ \A m \in AllOn(s, p) : m < t
          /\ OpenOn(s, p) \subseteq Nat /\ \A m \in OpenOn(s, p) : m < t
      BY <1>6, <2>1
    <3>3. Lowest(AllOn(s, p)') = IF AllOn(s, p) = {} THEN t ELSE Lowest(AllOn(s, p))
      BY <1>2, <3>1, <3>2, LowestBelow
    <3>4. Lowest(OpenOn(s, p)') = IF OpenOn(s, p) = {} THEN t ELSE Lowest(OpenOn(s, p))
      BY <1>2, <3>1, <3>2, LowestBelow
    <3>5. steps'[<<s, t>>].before[p] = file[p]
      BY <1>3, <1>8, <2>4
    <3>6. FirstFound(s, p)' = IF AllOn(s, p) = {} THEN file[p] ELSE FirstFound(s, p)
      BY <1>8, <2>1, <3>3, <3>5 DEF FirstFound
    <3>7. UndoneValue(s, p)' = UndoneValue(s, p)
      BY <1>6, <1>8, <2>1, <3>1, <3>4, <3>5 DEF UndoneValue
    <3>8. AllOn(s, p) = {} => UndoneValue(s, p) = file[p]
      BY <2>1 DEF UndoneValue
    <3> QED BY <2>2, <3>6, <3>7, <3>8
  <2> QED BY <2>3, <2>4
<1> QED BY <1>1, <1>4, <1>10, <1>11, <1>12 DEF Chain, Captured, Opening

LEMMA NextChained ==
  ASSUME Placed, Exclusive, Restoring, Restoring', Chained, [Next]_vars
  PROVE  Chained'
<1> SUFFICES ASSUME NEW s \in Sessions, Sessions = {s}, ~StepUndo, errors' = 0, edits' = 0
             PROVE  Chain(s)'
  BY DEF Chained, OnlySession
<1>1. CASE UNCHANGED vars
  <2>1. /\ op' = op /\ steps' = steps /\ file' = file /\ tool' = tool
        /\ errors = 0 /\ edits = 0
    BY <1>1 DEF vars, memVars, boundVars
  <2>2. Chain(s)
    BY <2>1 DEF Chained, OnlySession
  <2> QED BY <2>1, <2>2, QuietChain DEF Chain, Captured
<1>2. CASE Next
  <2>1. Typed
    BY DEF Placed
  <2>2. errors = 0 /\ Apart
    BY <1>2, <2>1, Successes DEF Exclusive
  <2>3. ~ \E p \in Paths, c \in Held : Edit(p, c)
    BY <2>1, BoundsAre DEF Edit, Typed
  <2>4. edits = 0
    <3>1. \A k \in Keys : Commit(k) \/ Abort(k) \/ Act(k) => edits' = edits
      BY DEF Commit, Abort, Finish, Act, boundVars
    <3>2. \A k \in Victims : Evict(k) => edits' = edits
      BY DEF Evict, boundVars
    <3>3. \A r \in Sessions : /\ \A change : Begin(r, change) => edits' = edits
                              /\ \A N : Undo(r, N) => edits' = edits
      <4> SUFFICES ASSUME NEW r, NEW x
                   PROVE  /\ Begin(r, x) => edits' = edits
                          /\ Undo(r, x) => edits' = edits
        OBVIOUS
      <4>1. Begin(r, x) => edits' = edits
        BY DEF Begin, boundVars
      <4>2. Undo(r, x) => edits' = edits
        BY DEF Undo, boundVars
      <4> QED BY <4>1, <4>2
    <3>4. \A p \in op.left : Restore(p) => edits' = edits
      BY DEF Restore, boundVars
    <3>5. HasRoom \/ StoreFull \/ RecordEviction \/ Install \/ WriteManifest \/ Touch
            \/ MarkUndone \/ CrashAndOpen => edits' = edits
      BY DEF HasRoom, StoreFull, RecordEviction, Install, WriteManifest, Touch, MarkUndone,
             CrashAndOpen, boundVars
    <3>6. edits' = edits
      BY <1>2, <2>1, <2>3, <3>1, <3>2, <3>3, <3>4, <3>5, Successes
    <3> QED BY <3>6
  <2>5. Chain(s)
    BY <2>2, <2>4 DEF Chained, OnlySession
  <2>6. ASSUME (\E p \in op.left : Restore(p)) \/ MarkUndone
        PROVE  Restorable /\ Restorable'
    <3>1. op.at = "restore" /\ op'.at = "restore"
      BY <2>1, <2>6, UndoneIs DEF Restore, Typed, Ops
    <3> QED BY <2>2, <2>4, <3>1 DEF Restoring
  <2> QED BY <1>2, <2>1, <2>2, <2>3, <2>5, <2>6, Successes, BeginChain, QuietActionsChain, EvictChain,
             WriteManifestChain, ActChain, FinishChain, UndoChain, RestoreChain, MarkUndoneChain,
             CrashChain
<1> QED BY <1>1, <1>2
-----------------------------------------------------------------------------
(* The layers hold, and what they say *)

LEMMA InitLayers ==
  Init => Exclusive /\ Contiguous /\ Restoring /\ Chained
<1> SUFFICES ASSUME Init PROVE Exclusive /\ Contiguous /\ Restoring /\ Chained
  OBVIOUS
<1>1. disk = steps /\ \A k \in Keys : steps[k] = NoStep /\ tool[k] = "none"
  BY DEF Init
<1>2. op.at = "idle" /\ busy = {}
  BY DEF Init, Idle
<1>3. Exclusive
  <2>1. \A k \in Keys : ~InFlight(k) /\ steps[k].status # "Prepared" /\ BlobsOf(steps[k]) = {}
    BY <1>1, <1>2, NoStepIs DEF InFlight, Live
  <2> QED BY <1>1, <1>2, <2>1 DEF Exclusive, Apart, Referenced
<1>4. Contiguous
  <2>1. crashes = 0
    BY DEF Init
  <2>2. ASSUME NEW s \in Sessions PROVE Gapless(s)
    <3>1. /\ meta[s].pruned = 0 /\ meta[s].last = 0
          /\ diskMeta[s].pruned = 0 /\ diskMeta[s].last = 0
      BY DEF Init
    <3>2. \A n \in 1..MaxSteps : <<s, n>> \in Keys
      BY DEF Keys
    <3>3. Seqs(steps, s) = {}
      BY <1>1, <3>2, NoStepIs DEF Seqs
    <3>4. From(s, 1)
      BY <2>1, <3>1, <3>3 DEF From
    <3> QED BY <3>1, <3>4 DEF Gapless
  <2> QED BY <2>1, <2>2 DEF Contiguous
<1>5. Restoring
  BY <1>2 DEF Restoring
<1>6. Chained
  <2> SUFFICES ASSUME NEW s \in Sessions PROVE Chain(s)
    BY DEF Chained
  <2>1. Seqs(steps, s) = {} /\ NotUndone(s) = {}
    BY <1>1, NoStepIs, SeqIs DEF NotUndone
  <2>2. Holding(s)
    BY <1>1, NoStepIs DEF Holding
  <2> QED BY <1>2, <2>1, <2>2 DEF Chain, NoConflict, Captured, Opening, LeadsBack
<1> QED BY <1>3, <1>4, <1>5, <1>6

\* The inductive invariant: all layers hold in every state.
THEOREM LayersHold == Spec => []StoreInv
<1>1. Init => StoreInv
  BY InitPlaces, InitLayers DEF StoreInv
<1>2. StoreInv /\ [Next]_vars => StoreInv'
  BY NextPlaces, NextExclusive, NextContiguous, NextRestoring, NextChained DEF StoreInv
<1> QED BY <1>1, <1>2, PTL DEF Spec

\* What memory, the store's directory and the operation in progress hold has its
\* type, whatever fails and wherever the process dies (store.rs).
THEOREM TypeCorrect == Spec => []TypeOK
<1>1. StoreInv => TypeOK
  BY PlacedTypes DEF StoreInv
<1> QED BY <1>1, LayersHold, PTL

\* begin_step writes blobs, manifest and busy paths before it hands out the step,
\* and neither pruning nor gc touches what is in flight.
THEOREM StepsInFlightAreProtected == Spec => []InFlightIsProtected
<1>1. StoreInv => InFlightIsProtected
  <2> SUFFICES ASSUME Placed, Exclusive, NEW k \in Keys, tool[k] \in {"working", "acted"}
               PROVE  /\ steps[k].status = "Prepared" /\ disk[k] = steps[k]
                      /\ BlobsOf(steps[k]) \subseteq diskBlobs
                      /\ errors = 0 =>
                           /\ Touched(steps[k]) \subseteq busy
                           /\ \A j \in Keys \ {k} :
                                Live(j) => Touched(steps[j]) \cap Touched(steps[k]) = {}
    BY DEF InFlightIsProtected, StoreInv
  <2>1. StepPlaced(k) /\ Live(k)
    BY DEF Placed, Live
  <2>2. \A j \in Keys : Live(j) => InFlight(j)
    BY DEF InFlight
  <2>3. /\ steps[k].status = "Prepared" /\ disk[k] = steps[k]
        /\ BlobsOf(steps[k]) \subseteq diskBlobs
    BY <2>1 DEF StepPlaced
  <2>4. ASSUME errors = 0
        PROVE  /\ Touched(steps[k]) \subseteq busy
               /\ \A j \in Keys \ {k} : Live(j) => Touched(steps[j]) \cap Touched(steps[k]) = {}
    BY <2>1, <2>2, <2>4 DEF Exclusive, Apart
  <2> QED BY <2>3, <2>4
<1> QED BY <1>1, LayersHold, PTL

\* prune_to_fit removes a session's steps from the oldest on, and a crash between
\* the removal of a manifest and the record of it leaves no gap either.
THEOREM PruningIsExact == Spec => []PruneIsExact
<1>1. StoreInv => PruneIsExact
  BY DEF StoreInv, Contiguous, Gapless, From, PruneIsExact
<1> QED BY <1>1, LayersHold, PTL

\* With no failed write, no manifest on disk lacks a snapshot, at any moment.
THEOREM SnapshotsStay == Spec => []SnapshotsArePresent
<1>1. StoreInv => SnapshotsArePresent
  BY DEF StoreInv, Exclusive, Apart, SnapshotsArePresent
<1> QED BY <1>1, LayersHold, PTL

\* undo_many checks every path against what the steps recorded before it
\* restores the first one; that still holds of each path when its turn comes.
THEOREM UndoNeverClobbers == Spec => RestoreReplacesOnlyRecorded
<1>1. ASSUME Placed, Restoring, NEW p \in op.left, Restore(p), edits = 0, errors = 0
      PROVE  file[p] \in {Before(p), steps[Undoing].post[p]}
  <2>1. op.at = "restore" /\ Restorable
    BY <1>1 DEF Restore, Restoring
  <2>2. op.todo # {}
    BY <1>1, <2>1 DEF Placed, OpPlaced, NextPaths
  <2>3. /\ Undoing = <<op.session, Newest(op.todo)>> /\ Newest(op.todo) \in op.todo
        /\ \A n \in op.todo : n <= Newest(op.todo)
        /\ op.todo \subseteq 1..MaxSteps /\ p \in Touched(steps[Undoing])
    BY <1>1, <2>1, <2>2, UndoingIs
  <2> DEFINE t == Newest(op.todo)
             N == op.todo
  <2>4. {m \in N : m > t /\ p \in Touched(steps[<<op.session, m>>])} = {}
    <3>1. \A m \in N : m \in Nat /\ t \in Nat /\ m <= t
      BY <2>3, BoundsAre
    <3> HIDE DEF t, N
    <3>2. \A m \in N : ~(m > t)
      BY <3>1
    <3> QED BY <3>2
  <2>5. Virtual(op.session, N, t, p) = file[p]
    BY <2>4 DEF Virtual
  <2>6. Virtual(op.session, N, t, p)
          \in {steps[<<op.session, t>>].before[p], steps[<<op.session, t>>].post[p]}
    BY <2>1, <2>3 DEF Restorable, NoConflict
  <2> QED BY <2>3, <2>5, <2>6 DEF Before
<1>2. StoreInv =>
        \A p \in op.left : Restore(p) /\ edits = 0 /\ errors = 0 =>
          file[p] \in {Before(p), steps[Undoing].post[p]}
  BY <1>1 DEF StoreInv
<1> QED BY <1>2, LayersHold, PTL DEF RestoreReplacesOnlyRecorded

\* While no write fails and the member edits nothing, an undo of what is left of a
\* session undone as a whole would go through at any moment, whatever was pruned and
\* wherever the process died: undo_many finds no conflict, no busy path and
\* every snapshot.
THEOREM UndoStaysReady ==
  ASSUME \E s : Sessions = {s}, ~StepUndo
  PROVE  Spec => [](errors = 0 /\ edits = 0 => UndoIsReady)
<1>1. StoreInv /\ errors = 0 /\ edits = 0 => UndoIsReady
  <2> SUFFICES ASSUME StoreInv, errors = 0, edits = 0 PROVE UndoIsReady
    OBVIOUS
  <2>1. Placed /\ Apart /\ Typed /\ \A s \in Sessions : Chain(s)
    BY DEF StoreInv, Placed, Exclusive, Chained, OnlySession
  <2>2. SnapshotsArePresent
    BY <2>1 DEF SnapshotsArePresent, Apart
  <2>3. ASSUME NEW s \in Sessions, \A n \in Seqs(steps, s) : steps[<<s, n>>].status # "Prepared"
        PROVE  Undoable(s, NotUndone(s)) /\ NoConflict(s, NotUndone(s))
    <3>1. \A k \in Keys : steps[k].status # "Prepared"
      <4> SUFFICES ASSUME NEW k \in Keys, steps[k].status = "Prepared" PROVE FALSE
        OBVIOUS
      <4>1. k = <<s, k[2]>>
        BY <2>1, KeyIs
      <4>2. k[2] \in Seqs(steps, s)
        BY <4>1, SeqIs
      <4> QED BY <2>3, <4>1, <4>2
    <3>2. busy = {}
      BY <2>1, <3>1 DEF Apart
    <3>3. ASSUME NEW n \in NotUndone(s)
          PROVE  /\ steps[<<s, n>>].status \in {"Committed", "Interrupted"}
                 /\ Free(steps[<<s, n>>]) /\ BlobsOf(steps[<<s, n>>]) \subseteq diskBlobs
      <4>1. <<s, n>> \in Keys /\ steps[<<s, n>>].status \notin {"none", "Undone", "Prepared"}
        BY <3>1, SeqIs DEF NotUndone
      <4>2. steps[<<s, n>>].status \in {"Committed", "Interrupted"}
        BY <2>1, <4>1, KeyIs, EntryIs DEF Statuses
      <4>3. BlobsOf(steps[<<s, n>>]) \subseteq diskBlobs
        BY <2>1, <4>1 DEF Apart, Referenced
      <4> QED BY <3>2, <4>2, <4>3 DEF Free
    <3> QED BY <2>1, <3>3 DEF Undoable, Chain
  <2> QED BY <2>2, <2>3 DEF UndoIsReady, UndoStaysPossible
<1> QED BY <1>1, LayersHold, PTL

\* And when all of it is undone and nothing was pruned, each path holds again what
\* its first step found (undo_session, "exact undo").
THEOREM UndoRestoresTheFirst ==
  ASSUME \E s : Sessions = {s}, ~StepUndo
  PROVE  Spec => [](errors = 0 /\ edits = 0 => UndoRestoresAll)
<1>1. StoreInv /\ errors = 0 /\ edits = 0 => UndoRestoresAll
  <2> SUFFICES ASSUME StoreInv, errors = 0, edits = 0, NEW s \in Sessions, NotUndone(s) = {},
                      1 \in Seqs(steps, s), NEW n \in Seqs(steps, s), NEW p \in Touched(steps[<<s, n>>]),
                      \A m \in Seqs(steps, s) : m < n => p \notin Touched(steps[<<s, m>>])
               PROVE  file[p] = steps[<<s, n>>].before[p]
    BY DEF UndoRestoresAll
  <2>1. Typed /\ Chain(s)
    BY DEF StoreInv, Placed, Chained, OnlySession
  <2>2. n \in AllOn(s, p) /\ OpenOn(s, p) = {}
    BY DEF AllOn, OpenOn
  <2>3. p \in Paths
    BY <2>1, OnIs, KeyIs, EntryIs
  <2>4. Lowest(AllOn(s, p)) = n
    <3>1. /\ AllOn(s, p) \subseteq Nat /\ AllOn(s, p) # {} /\ n \in Nat
          /\ \A m \in AllOn(s, p) : m \in Nat /\ ~(m < n)
      BY <2>2, OnIs DEF AllOn
    <3>2. Lowest(AllOn(s, p)) \in AllOn(s, p) /\ Lowest(AllOn(s, p)) <= n
      BY <2>2, <3>1, LowestIs
    <3> QED BY <3>1, <3>2
  <2> QED BY <2>1, <2>2, <2>3, <2>4 DEF Chain, LeadsBack, UndoneValue, FirstFound
<1> QED BY <1>1, LayersHold, PTL

=============================================================================
