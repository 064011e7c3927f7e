--------------------------- MODULE CheckpointStore ---------------------------
(***************************************************************************)
(* agent-checkpoints: the store that makes an agent's file changes undoable. *)
(*                                                                         *)
(* A tool begins a step (the prior state of its paths is copied to blobs and *)
(* a manifest is written), makes its change without holding any lock, and    *)
(* commits or aborts. The member undoes one step or a session. One mutex     *)
(* serializes the operations, so `op` holds the one in progress; each of its *)
(* writes to disk is a step of its own, after which the process may die, and *)
(* may fail with or without having replaced its target. The member edits the *)
(* folder whenever they like.                                                *)
(*                                                                         *)
(* Memory and disk are separate: steps / disk, meta / diskMeta, blobs /       *)
(* diskBlobs. A step maps the paths it touches to what they held before and   *)
(* hold afterwards; the latter is the intended state until commit records    *)
(* the observed one. A blob is named by its content. Abstracted: symbolic    *)
(* links, file modes, directories, path checks, hash verification, a power   *)
(* loss, and the git checkpoint. A change is what the file tools of           *)
(* agent-sidecar make: one write, deletion or rename.                         *)
(***************************************************************************)
EXTENDS Naturals, FiniteSets, FiniteSetsExt

CONSTANTS Sessions, Paths, Contents,
          Absent,          \* the content of a path that does not exist
          None,
          Size,            \* bytes of each content
          MaxStoreBytes,
          Kinds,           \* the kinds of change tools make
          StepUndo,        \* whether single steps are undone, too
          MaxSteps,        \* bound: steps begun in all sessions
          MaxCrashes, MaxErrors, MaxEdits,    \* bounds on what goes wrong
          MixedFaults      \* whether more than one of them may happen

ASSUME SizeAssumption == Size \in [Contents -> Nat] /\ MaxStoreBytes \in Nat
ASSUME ContentsAssumption == Absent \notin Contents
ASSUME KindsAssumption == Kinds \subseteq {"write", "delete", "rename"} /\ {StepUndo, MixedFaults} \subseteq BOOLEAN
ASSUME BoundsAssumption == {MaxSteps, MaxCrashes, MaxErrors, MaxEdits} \subseteq Nat

VARIABLES file,                      \* the granted folder
          steps, meta, blobs, busy, tick,     \* Inner
          disk, diskMeta, diskBlobs,          \* the store's directory
          op,                        \* the operation holding the mutex
          tool,                      \* each Step handle and how far its owner is
          crashes, errors, edits

memVars    == <<steps, meta, blobs, busy, tick>>
diskVars   == <<disk, diskMeta, diskBlobs>>
boundVars  == <<crashes, errors, edits>>
vars == <<file, memVars, diskVars, op, tool, boundVars>>

Keys    == Sessions \X (1..MaxSteps)
Held    == Contents \cup {Absent}
States  == UNION {[P -> Held] : P \in SUBSET Paths}     \* what some paths hold
Statuses == {"Prepared", "Committed", "Interrupted", "Undone"}

NoStep == [status |-> "none", before |-> [p \in {} |-> Absent], post |-> [p \in {} |-> Absent]]
Idle   == [at |-> "idle", session |-> None, seq |-> 0, rec |-> NoStep, needed |-> 0,
           victim |-> None, todo |-> {}, left |-> {}]

Touched(r) == DOMAIN r.before
BlobsOf(r) == {r.before[p] : p \in Touched(r)} \ {Absent}
Bytes(B)   == MapThenSumSet(LAMBDA c : Size[c], B)
Seqs(f, s) == {n \in 1..MaxSteps : f[<<s, n>>].status # "none"}
Referenced(f) == UNION {BlobsOf(f[k]) : k \in Keys}
Highest(S) == CHOOSE n \in S : \A m \in S : m <= n
Lowest(S)  == CHOOSE n \in S : \A m \in S : n <= m

TypeOK ==
  /\ file \in [Paths -> Held]
  /\ \A f \in {steps, disk} : \A k \in Keys :
        /\ f[k].status \in Statuses \cup {"none"}
        /\ f[k].before \in States /\ f[k].post \in [Touched(f[k]) -> Held]
        /\ (f[k].status = "none") = (f[k] = NoStep)
  /\ \A m \in {meta, diskMeta} :
        m \in [Sessions -> [used : 0..tick, last : 0..MaxSteps, pruned : 0..MaxSteps]]
  /\ blobs \subseteq Contents /\ diskBlobs \subseteq Contents /\ busy \subseteq Paths
  /\ op.at \in {"idle", "fit", "evicted", "install", "manifest", "begun", "finished", "restore"}
  /\ op.left \subseteq Paths /\ op.todo \subseteq 1..MaxSteps
  /\ tool \in [Keys -> {"none", "working", "acted", "dropping"}]

Init ==
  /\ file \in [Paths -> Held]
  /\ steps = [k \in Keys |-> NoStep] /\ disk = steps
  /\ meta = [s \in Sessions |-> [used |-> 0, last |-> 0, pruned |-> 0]] /\ diskMeta = meta
  /\ blobs = {} /\ diskBlobs = {} /\ busy = {} /\ tick = 0
  /\ op = Idle /\ tool = [k \in Keys |-> "none"]
  /\ crashes = 0 /\ errors = 0 /\ edits = 0

MayGoWrong == MixedFaults \/ crashes + errors + edits = 0

Error ==
  /\ errors < MaxErrors /\ errors' = errors + 1 /\ MayGoWrong
  /\ UNCHANGED <<crashes, edits>>

\* A write by temp file and rename fails before the rename, or late, when the
\* directory is synced: the target is replaced and the caller is told it failed.
MaybeWritten(var, old, new) == var \in {old, new}

-----------------------------------------------------------------------------
(* begin_step *)

Writes  == {[p \in {q} |-> c] : q \in Paths, c \in Contents}
Deletes == {[p \in {q} |-> Absent] : q \in Paths}
Renames == {[p \in {a[1], a[2]} |-> IF p = a[1] THEN Absent ELSE file[a[1]]] :
              a \in {b \in Paths \X Paths : b[1] # b[2] /\ file[b[1]] # Absent}}
Changes == UNION {CASE k = "write" -> Writes [] k = "delete" -> Deletes [] k = "rename" -> Renames
                    : k \in Kinds}

Capture(change) == [status |-> "Prepared",
                    before |-> [p \in DOMAIN change |-> file[p]], post |-> change]

\* The bytes a step adds are counted before anything is pruned.
Needed(r) == Bytes(BlobsOf(r) \ blobs)

FreeAlways(r) == TRUE    \* mutant

Free(r) == Touched(r) \cap busy = {}

\* Bound: the steps begun in all sessions, and so in each.
Begun == MapThenSumSet(LAMBDA t : meta[t].last, Sessions)

Begin(s, change) ==
  /\ op = Idle /\ Begun < MaxSteps /\ meta[s].last < MaxSteps
  /\ LET r == Capture(change) IN
     /\ Free(r) /\ Needed(r) <= MaxStoreBytes
     /\ op' = [Idle EXCEPT !.at = "fit", !.session = s, !.rec = r, !.needed = Needed(r)]
  /\ UNCHANGED <<file, memVars, diskVars, tool, boundVars>>

Fits == Bytes(blobs) + op.needed <= MaxStoreBytes

HasRoom ==
  /\ op.at = "fit" /\ Fits
  /\ op' = [op EXCEPT !.at = "install"]
  /\ UNCHANGED <<file, memVars, diskVars, tool, boundVars>>

OldestIsNewest == {<<s, Highest(Seqs(steps, s))>> : s \in {t \in Sessions : Seqs(steps, t) # {}}}    \* mutant

VictimsInFlight ==    \* mutant
  {k \in {<<s, Lowest(Seqs(steps, s))>> : s \in {t \in Sessions : Seqs(steps, t) # {}}} :
     meta[k[1]].used = Lowest({meta[s].used : s \in {t \in Sessions : Seqs(steps, t) # {}}})}

\* The oldest step of the least recently used session, unless it is in flight.
Oldest  == {<<s, Lowest(Seqs(steps, s))>> : s \in {t \in Sessions : Seqs(steps, t) # {}}}
Victims ==
  LET may == {k \in Oldest : steps[k].status # "Prepared"}
  IN  {k \in may : \A j \in may : meta[k[1]].used <= meta[j[1]].used}

StoreFull ==
  /\ op.at = "fit" /\ ~Fits /\ Victims = {}
  /\ op' = Idle
  /\ UNCHANGED <<file, memVars, diskVars, tool, boundVars>>

\* The victim's manifest is removed; what is recorded about it follows.
Evict(k) ==
  /\ op.at = "fit" /\ ~Fits /\ k \in Victims
  /\ steps' = [steps EXCEPT ![k] = NoStep] /\ disk' = [disk EXCEPT ![k] = NoStep]
  /\ meta' = [meta EXCEPT ![k[1]].pruned = IF @ < k[2] THEN k[2] ELSE @]
  /\ op' = [op EXCEPT !.at = "evicted", !.victim = k[1]]
  /\ UNCHANGED <<file, blobs, busy, tick, diskMeta, diskBlobs, tool, boundVars>>

EvictFails ==
  /\ op.at = "fit" /\ ~Fits /\ Victims # {} /\ Error
  /\ op' = Idle
  /\ UNCHANGED <<file, memVars, diskVars, tool>>

DeadUndone(f) ==    \* mutant
  blobs \ UNION {BlobsOf(f[k]) : k \in {j \in Keys : f[j].status # "Undone"}}

\* gc: the blobs no manifest in memory refers to.
Dead(f) == blobs \ Referenced(f)
Collect(B) == blobs' = blobs \ B /\ diskBlobs' = diskBlobs \ B

RecordEviction ==
  /\ op.at = "evicted"
  /\ diskMeta' = [diskMeta EXCEPT ![op.victim] = meta[op.victim]]
  /\ Collect(Dead(steps))
  /\ op' = [op EXCEPT !.at = "fit", !.victim = None]
  /\ UNCHANGED <<file, steps, meta, busy, tick, disk, tool, boundVars>>

RecordEvictionFails ==
  /\ op.at = "evicted" /\ Error
  /\ \/ UNCHANGED <<diskMeta, blobs, diskBlobs>>
     \/ /\ diskMeta' = [diskMeta EXCEPT ![op.victim] = meta[op.victim]]
        /\ \E B \in SUBSET Dead(steps) : (B = {} \/ B # Dead(steps)) /\ Collect(B)
  /\ op' = Idle
  /\ UNCHANGED <<file, steps, meta, busy, tick, disk, tool>>

Install ==
  /\ op.at = "install"
  /\ blobs' = blobs \cup BlobsOf(op.rec) /\ diskBlobs' = diskBlobs \cup BlobsOf(op.rec)
  /\ op' = [op EXCEPT !.at = "manifest"]
  /\ UNCHANGED <<file, steps, meta, busy, tick, disk, diskMeta, tool, boundVars>>

\* The blobs before the failing one are installed; that one is not counted, even
\* when it got its place.
InstallFails ==
  /\ op.at = "install" /\ Error
  /\ \E c \in BlobsOf(op.rec) : \E B \in SUBSET (BlobsOf(op.rec) \ {c}) :
        /\ blobs' = blobs \cup B
        /\ MaybeWritten(diskBlobs', diskBlobs \cup B, diskBlobs \cup B \cup {c})
  /\ op' = Idle
  /\ UNCHANGED <<file, steps, meta, busy, tick, disk, diskMeta, tool>>

\* A number is used up whether or not the manifest can be written.
NextSeq == meta[op.session].last + 1
Allocate == meta' = [meta EXCEPT ![op.session].last = NextSeq]

WriteManifest ==
  /\ op.at = "manifest" /\ Allocate
  /\ steps' = [steps EXCEPT ![<<op.session, NextSeq>>] = op.rec]
  /\ disk' = [disk EXCEPT ![<<op.session, NextSeq>>] = op.rec]
  /\ busy' = busy \cup Touched(op.rec)
  /\ op' = [op EXCEPT !.at = "begun", !.seq = NextSeq]
  /\ UNCHANGED <<file, blobs, tick, diskMeta, diskBlobs, tool, boundVars>>

WriteManifestFails ==
  /\ op.at = "manifest" /\ Error /\ Allocate
  /\ MaybeWritten(disk', disk, [disk EXCEPT ![<<op.session, NextSeq>>] = op.rec])
  /\ op' = Idle
  /\ UNCHANGED <<file, steps, blobs, busy, tick, diskMeta, diskBlobs, tool>>

\* The session becomes the most recently used one.
Use(s) == tick' = tick + 1 /\ meta' = [meta EXCEPT ![s].used = tick + 1]

Touching == op.at \in {"begun", "finished"} \/ (op.at = "restore" /\ op.todo = {})

\* The end of every operation; begin_step hands the step to the tool.
Touch ==
  /\ Touching /\ Use(op.session)
  /\ diskMeta' = [diskMeta EXCEPT ![op.session] = meta'[op.session]]
  /\ tool' = IF op.at = "begun" THEN [tool EXCEPT ![<<op.session, op.seq>>] = "working"] ELSE tool
  /\ op' = Idle
  /\ UNCHANGED <<file, steps, blobs, busy, disk, diskBlobs, boundVars>>

TouchFails ==
  /\ Touching /\ Error /\ Use(op.session)
  /\ MaybeWritten(diskMeta', diskMeta, [diskMeta EXCEPT ![op.session] = meta'[op.session]])
  /\ op' = Idle
  /\ UNCHANGED <<file, steps, blobs, busy, disk, diskBlobs, tool>>

-----------------------------------------------------------------------------
(* The tool, then finish: commit, abort or a dropped handle *)

\* A rename moves what is there now.
Changed(r) ==
  [p \in Paths |->
     IF p \notin Touched(r) THEN file[p]
     ELSE IF r.post[p] = Absent \/ Cardinality(Touched(r)) = 1 THEN r.post[p]
     ELSE file[CHOOSE q \in Touched(r) : r.post[q] = Absent]]

Act(k) ==
  /\ tool[k] = "working"
  /\ \A p \in Touched(steps[k]) : steps[k].post[p] = Absent => file[p] # Absent
  /\ file' = Changed(steps[k])
  /\ tool' = [tool EXCEPT ![k] = "acted"]
  /\ UNCHANGED <<memVars, diskVars, op, boundVars>>

Observed(r)    == [p \in Touched(r) |-> file[p]]
Committed(r)   == [status |-> "Committed", before |-> r.before, post |-> Observed(r)]
Interrupted(r) == [r EXCEPT !.status = "Interrupted"]

Release(k) == busy' = busy \ Touched(steps[k])

Finish(k, r) ==
  /\ op = Idle /\ Release(k)
  /\ steps' = [steps EXCEPT ![k] = r] /\ disk' = [disk EXCEPT ![k] = r]
  /\ tool' = [tool EXCEPT ![k] = "none"]
  /\ op' = [Idle EXCEPT !.at = "finished", !.session = k[1], !.seq = k[2]]
  /\ UNCHANGED <<file, meta, blobs, tick, diskMeta, diskBlobs, boundVars>>

\* The paths are released all the same. A handle that is consumed by a failed
\* commit or abort is dropped, which tries once more to record an interruption.
FinishFails(k, r, next) ==
  /\ op = Idle /\ Error /\ Release(k)
  /\ MaybeWritten(disk', disk, [disk EXCEPT ![k] = r])
  /\ tool' = [tool EXCEPT ![k] = next]
  /\ UNCHANGED <<file, steps, meta, blobs, tick, diskMeta, diskBlobs, op>>

Commit(k)      == tool[k] = "acted" /\ Finish(k, Committed(steps[k]))
CommitFails(k) == tool[k] = "acted" /\ FinishFails(k, Committed(steps[k]), "dropping")
Abort(k)       == tool[k] # "none" /\ Finish(k, Interrupted(steps[k]))
AbortFails(k)  ==
  \/ tool[k] \in {"working", "acted"} /\ FinishFails(k, Interrupted(steps[k]), "dropping")
  \/ tool[k] # "none" /\ FinishFails(k, Interrupted(steps[k]), "none")

-----------------------------------------------------------------------------
(* undo_step and undo_session *)

VirtualNow(s, N, n, p) == file[p]    \* mutant

\* What path p holds when the newer steps of the sequence have been undone.
Virtual(s, N, n, p) ==
  LET newer == {m \in N : m > n /\ p \in Touched(steps[<<s, m>>])}
  IN  IF newer = {} THEN file[p] ELSE steps[<<s, Lowest(newer)>>].before[p]

NoConflictUnchecked(s, N) == TRUE    \* mutant

NoConflict(s, N) ==
  \A n \in N : LET r == steps[<<s, n>>] IN
    \A p \in Touched(r) : Virtual(s, N, n, p) \in {r.before[p], r.post[p]}

Undoable(s, N) ==
  \A n \in N : LET r == steps[<<s, n>>] IN
    r.status \in {"Committed", "Interrupted"} /\ Free(r) /\ BlobsOf(r) \subseteq diskBlobs

NotUndone(s) == {n \in Seqs(steps, s) : steps[<<s, n>>].status # "Undone"}

NewestAsOldest(N) == Lowest(N)    \* mutant

Newest(N) == Highest(N)

NextPaths(s, N) == IF N = {} THEN {} ELSE Touched(steps[<<s, Newest(N)>>])

Undo(s, N) ==
  /\ op = Idle /\ N # {} /\ Undoable(s, N) /\ NoConflict(s, N)
  /\ op' = [Idle EXCEPT !.at = "restore", !.session = s, !.todo = N, !.left = NextPaths(s, N)]
  /\ UNCHANGED <<file, memVars, diskVars, tool, boundVars>>

UndoStepOf(s, n) == StepUndo /\ n \in Seqs(steps, s) /\ Undo(s, {n})
UndoSession(s)   == Undo(s, NotUndone(s))

Undoing == <<op.session, Newest(op.todo)>>
Before(p) == steps[Undoing].before[p]

Restore(p) ==
  /\ op.at = "restore" /\ p \in op.left
  /\ file' = [file EXCEPT ![p] = Before(p)]
  /\ op' = [op EXCEPT !.left = @ \ {p}]
  /\ UNCHANGED <<memVars, diskVars, tool, boundVars>>

RestoreFails(p) ==
  /\ op.at = "restore" /\ p \in op.left /\ Error
  /\ MaybeWritten(file', file, [file EXCEPT ![p] = Before(p)])
  /\ op' = Idle
  /\ UNCHANGED <<memVars, diskVars, tool>>

Undone(f) == [f EXCEPT ![Undoing].status = "Undone"]

MarkUndone ==
  /\ op.at = "restore" /\ op.left = {} /\ op.todo # {}
  /\ steps' = Undone(steps) /\ disk' = [disk EXCEPT ![Undoing] = Undone(steps)[Undoing]]
  /\ LET rest == op.todo \ {Newest(op.todo)}
     IN  op' = [op EXCEPT !.todo = rest, !.left = NextPaths(op.session, rest)]
  /\ UNCHANGED <<file, meta, blobs, busy, tick, diskMeta, diskBlobs, tool, boundVars>>

MarkUndoneFails ==
  /\ op.at = "restore" /\ op.left = {} /\ op.todo # {} /\ Error
  /\ MaybeWritten(disk', disk, [disk EXCEPT ![Undoing] = Undone(steps)[Undoing]])
  /\ op' = Idle
  /\ UNCHANGED <<file, memVars, diskMeta, diskBlobs, tool>>

-----------------------------------------------------------------------------
(* The member, and the end of the process *)

Edit(p, c) ==
  /\ edits < MaxEdits /\ edits' = edits + 1 /\ MayGoWrong /\ c # file[p]
  /\ file' = [file EXCEPT ![p] = c]
  /\ UNCHANGED <<memVars, diskVars, op, tool, crashes, errors>>

\* load: what was in flight is interrupted, the rest is as the disk has it.
Loaded == [k \in Keys |-> IF disk[k].status = "Prepared" THEN Interrupted(disk[k]) ELSE disk[k]]

LoadedMeta ==
  [s \in Sessions |->
     [diskMeta[s] EXCEPT !.last = Highest({@} \cup Seqs(disk, s))]]

\* The process dies and the store is opened again.
CrashAndOpen ==
  /\ crashes < MaxCrashes /\ crashes' = crashes + 1 /\ MayGoWrong
  /\ steps' = Loaded /\ disk' = Loaded
  /\ meta' = LoadedMeta
  /\ blobs' = diskBlobs \cap Referenced(Loaded) /\ diskBlobs' = blobs'
  /\ busy' = {} /\ tick' = Highest({0} \cup {diskMeta[s].used : s \in Sessions})
  /\ op' = Idle /\ tool' = [k \in Keys |-> "none"]
  /\ UNCHANGED <<file, diskMeta, errors, edits>>

BeginStep ==
  \/ \E s \in Sessions, change \in Changes : Begin(s, change)
  \/ HasRoom \/ StoreFull \/ (\E k \in Victims : Evict(k)) \/ RecordEviction
  \/ Install \/ WriteManifest \/ Touch

FinishStep == \E k \in Keys : Act(k) \/ Commit(k) \/ Abort(k)

UndoSteps ==
  \/ \E s \in Sessions : UndoSession(s) \/ \E n \in 1..MaxSteps : UndoStepOf(s, n)
  \/ (\E p \in op.left : Restore(p)) \/ MarkUndone

IoError ==
  \/ EvictFails \/ RecordEvictionFails \/ InstallFails \/ WriteManifestFails \/ TouchFails
  \/ \E k \in Keys : CommitFails(k) \/ AbortFails(k)
  \/ (\E p \in op.left : RestoreFails(p)) \/ MarkUndoneFails

Next ==
  \/ BeginStep \/ FinishStep \/ UndoSteps \/ IoError
  \/ (\E p \in Paths, c \in Held : Edit(p, c)) \/ CrashAndOpen

Spec == Init /\ [][Next]_vars

-----------------------------------------------------------------------------
(* Properties *)

Live(k) == tool[k] # "none"

\* Whatever moment the process dies at, each manifest on disk has the snapshots
\* its undo needs: blobs are in place before the manifest, and collected after.
\* (A manifest whose write failed late is on disk without the store's knowledge,
\* and its snapshots are collected.)
SnapshotsArePresent == errors = 0 => Referenced(disk) \subseteq diskBlobs

\* A step in flight is never pruned and its record would be there after a crash;
\* and while no write fails nobody else has a step on its paths ("a path with a
\* step in flight refuses a second step or an undo").
InFlightIsProtected ==
  \A k \in Keys : tool[k] \in {"working", "acted"} =>
    /\ steps[k].status = "Prepared" /\ disk[k] = steps[k]
    /\ BlobsOf(steps[k]) \subseteq diskBlobs
    /\ errors = 0 =>
         /\ Touched(steps[k]) \subseteq busy
         /\ \A j \in Keys \ {k} : Live(j) => Touched(steps[j]) \cap Touched(steps[k]) = {}

\* Pruning takes a session's steps from the oldest on and leaves no gap
\* (prune_to_fit), whatever crash comes between a removal and its record; while
\* there is none, "pruned through seq N" is exact.
PruneIsExact ==
  op = Idle /\ errors = 0 => \A s \in Sessions :
    \E n \in (meta[s].pruned + 1)..(meta[s].last + 1) :
      /\ Seqs(steps, s) = n..meta[s].last
      /\ crashes = 0 => n = meta[s].pruned + 1

\* Restoring a path replaces only what its step found or left there, through every
\* step of an undo and whatever other sessions do meanwhile ("exact undo, never a
\* silent clobber"), unless the member edits the folder between check and restore
\* or a failed finish released the paths of a step too early.
RestoreReplacesOnlyRecorded ==
  [][\A p \in op.left : Restore(p) /\ edits = 0 /\ errors = 0 =>
       file[p] \in {Before(p), steps[Undoing].post[p]}]_vars

\* For one session undone as a whole and a member who edits nothing: when every
\* step is undone and none was pruned, the folder holds what the oldest one found,
\* wherever the process died on the way.
UndoRestoresAll ==
  \A s \in Sessions :
    op = Idle /\ NotUndone(s) = {} /\ 1 \in Seqs(steps, s) =>
      \A n \in Seqs(steps, s) : LET r == steps[<<s, n>>] IN
        \A p \in Touched(r) :
          (\A m \in Seqs(steps, s) : m < n => p \notin Touched(steps[<<s, m>>]))
            => file[p] = r.before[p]

\* Then, too, an undo of what is left of the session is never refused for a conflict
\* or a missing snapshot: nothing the store does makes a step impossible to undo.
UndoStaysPossible ==
  \A s \in Sessions :
    op = Idle /\ (\A n \in Seqs(steps, s) : steps[<<s, n>>].status # "Prepared") =>
      Undoable(s, NotUndone(s)) /\ NoConflict(s, NotUndone(s))

\* Both: at any moment, and after any crash, an undo of the session would go through.
UndoIsReady == UndoStaysPossible /\ SnapshotsArePresent

-----------------------------------------------------------------------------
(* Statements of the documentation that the code does not keep in every case;  *)
(* README.md gives the instance that refutes each.                              *)

\* A path is refused as busy only while its step is in flight ("has a step in
\* flight; try again when it finishes").
BusyOnlyInFlight ==
  op = Idle => busy \subseteq UNION {Touched(steps[k]) : k \in {j \in Keys : Live(j)}}

\* A step that was pruned is reported as pruned.
PrunedIsReported ==
  op = Idle => \A s \in Sessions : \A n \in 1..meta[s].last :
                 n \in Seqs(steps, s) \/ n <= meta[s].pruned

\* The snapshots never exceed the store's cap.
WithinCap == Bytes(blobs) <= MaxStoreBytes

\* An undo of an earlier step conflicts when a later step touched the file.
LaterStepConflicts ==
  [][\A s \in Sessions, n \in 1..MaxSteps : UndoStepOf(s, n) =>
       \A m \in NotUndone(s) :
         m > n => Touched(steps[<<s, m>>]) \cap Touched(steps[<<s, n>>]) = {}]_vars

\* When a change was made, undo works even if its record could not be finished.
ChangeMadeCanBeUndone ==
  op = Idle => \A k \in Keys : steps[k].status = "Prepared" /\ ~Live(k) =>
                 \A p \in Touched(steps[k]) : file[p] = steps[k].before[p]

=============================================================================
