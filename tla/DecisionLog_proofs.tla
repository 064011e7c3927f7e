-------------------------- MODULE DecisionLog_proofs --------------------------
(***************************************************************************)
(*  The decision log for segments, lines and retention of any size, any    *)
(*  readings of the clock, and any number of records, failing system calls,*)
(*  killed processes and power losses: AcknowledgedStands,                 *)
(*  DecisionsAreAccounted, WriterAgreesWithDisk and                        *)
(*  OpenClosesEarlierDecisions.                                            *)
(*  Where power is lost a process is supposed to open flushed files only   *)
(*  (FlushedOrKept).                                                       *)
(*                                                                         *)
(*  None is inductive: each speaks of the records on disk without saying   *)
(*  where they are. The invariant names the history H of the records that  *)
(*  were ever kept or are on disk, their number n, the first and the last  *)
(*  segment lo and hi, and the number b[i] of the first record of segment  *)
(*  i, and says                                                            *)
(*    History     that H is one linked chain in which an outcome closes an *)
(*                allowing decision once,                                  *)
(*    Layout      that the segments cut it at b, from the checkpoint on,   *)
(*    Accounted   that all of it was kept but for the last record perhaps, *)
(*    Repairing   what a recovery has still to repair, and                 *)
(*    Working     how memory, HEAD and the segments go together at each    *)
(*                call of an append.                                       *)
(*  PowerInv says of a loss of power that whatever remains of the files    *)
(*  holds such a chain with every record kept: between two lines only names*)
(*  are not flushed, and while a line is on its way only its segment.      *)
(***************************************************************************)
EXTENDS DecisionLog, FiniteSetTheorems, SequenceTheorems, WellFoundedInduction, TLAPS

Recovering == {"quarantine", "cut", "stale", "staleSync", "repair", "repairSync",
               "segment", "segmentSync"}
Pruning    == {"prune", "pruneSync", "pruneRemove", "pruneRemoveSync"}
Written1   == {"sync", "head", "headSync"}
Busy       == {"rotate", "rotateSync", "write", "rollback", "rollbackSync"} \cup Pruning \cup Written1

\* H is the first n records of a log.
History(H, n) ==
  /\ n \in Nat /\ H \subseteq Records
  /\ \A r \in H : r.seq < n
  /\ \A s \in 0..(n-1) : \E r \in H : r.seq = s
  /\ \A a, q \in H : a.seq = q.seq => a = q
  /\ \A a, q \in H : q.seq = a.seq + 1 => q.prev = a.hash /\ q.ts >= a.ts
  /\ \A r \in H : r.seq = 0 => r.prev = 0
  /\ \A o \in H : o.kind = "outcome" =>
       \E a \in H : a.kind = "allow" /\ a.seq = o.ref /\ a.seq < o.seq
  /\ \A o, q \in H : o.kind = "outcome" /\ q.kind = "outcome" /\ o.ref = q.ref => o = q

\* The decisions that are open after the first m records.
OpenIn(H, m) == {a.seq : a \in {r \in H : r.kind = "allow" /\ r.seq < m}}
                  \ {o.ref : o \in {r \in H : r.kind = "outcome" /\ r.seq < m}}

\* x is what the record with number m has to continue.
Place(H, m, x) ==
  /\ x.next = m /\ x.open = OpenIn(H, m)
  /\ m = 0 => x.prev = 0 /\ x.ts = 0
  /\ \A r \in H : r.seq + 1 = m => x.prev = r.hash /\ x.ts = r.ts

\* Segment s holds the records with the numbers from first on, up to past.
Holds(s, H, first, past) ==
  /\ s = [recs |-> s.recs, torn |-> s.torn, len |-> s.len]
  /\ s.torn \in BOOLEAN /\ s.len \in Nat /\ (s.len = 0 <=> s.recs = <<>>)
  /\ s.recs \in Seq(Records) /\ Len(s.recs) = past - first
  /\ \A k \in 1..Len(s.recs) : s.recs[k] \in H /\ s.recs[k].seq = first + k - 1

Cuts(n, lo, hi, b) ==
  /\ lo \in Nat \ {0} /\ hi \in Nat /\ lo <= hi + 1 /\ (hi < lo => hi = 0)
  /\ b \in [lo..(hi + 1) -> Nat] /\ b[hi + 1] = n
  /\ \A i \in lo..hi, j \in lo..(hi + 1) : i < j => b[i] <= b[j] /\ (j <= hi => b[i] < b[j])
  /\ \A s \in b[lo]..(n - 1) : \E i \in lo..hi : b[i] <= s /\ s < b[i + 1]

Checkpoints == [next : Nat \ {0}, prev : Nat, ts : Nat, open : SUBSET Nat]

\* The checkpoint is where the first segment starts, or where it ends.
CheckpointAt(d, H, lo, hi, b) ==
  /\ d.checkpoint # None => d.checkpoint \in Checkpoints
  /\ Start(d).next = b[lo] \/ (lo < hi /\ Start(d).next = b[lo + 1])
  /\ Place(H, Start(d).next, Start(d))

Layout(d, H, n, lo, hi, b) ==
  /\ d = [head |-> d.head, checkpoint |-> d.checkpoint, segs |-> d.segs]
  /\ Cuts(n, lo, hi, b)
  /\ d.segs = [i \in lo..hi |-> d.segs[i]]
  /\ \A i \in lo..hi : Holds(d.segs[i], H, b[i], b[i + 1])
  /\ CheckpointAt(d, H, lo, hi, b)

Accounted(H, n) ==
  /\ kept \subseteq H
  /\ \A r \in H : r.seq + 1 < n \/ r.seq < Start(seen).next => r \in kept

\* What HEAD says of the first n records.
HeadAt(H, n, h) ==
  \/ n = 0 /\ h = None
  \/ \E r \in H : r.seq + 1 = n /\ h = Names(r)
HeadNear(H, n, d) ==
  IF Start(d).next = n THEN HeadAt(H, n, d.head)
  ELSE \E r \in H : d.head = Names(r) /\ r.seq + 2 >= n /\ r.seq >= Start(d).next

NoneTorn(d) == \A i \in DOMAIN d.segs : ~d.segs[i].torn
OnlyTorn(d, i) == \A j \in DOMAIN d.segs : d.segs[j].torn => j = i

\* What a recovery knows.
Repairing(H, n, lo, hi, b) ==
  pc \in Recovering =>
    /\ kept = H
    /\ IF pc \in {"quarantine", "cut"} THEN OnlyTorn(seen, hi) ELSE NoneTorn(seen)
    /\ IF pc \in {"repairSync", "segment", "segmentSync"} THEN HeadAt(H, n, seen.head)
                                                          ELSE HeadNear(H, n, seen)
    /\ pc \notin {"quarantine", "cut"} => (pc = "stale" <=> Start(seen).next # b[lo])
    /\ pc = "repair" => Start(seen).next # n
    /\ pc = "segmentSync" => lo = 1 /\ hi = 1

Alive == pc = "close" \/ pc \in Busy \/ (pc = "ready" /\ ~mem.failed)

\* The record of the append under way.
RecordFits ==
  /\ rec \in Records /\ rec.seq = mem.next /\ rec.prev = mem.prev /\ rec.ts >= mem.ts
  /\ rec.kind = "outcome" => rec.ref \in mem.open

\* It is in the segment, or it is not.
LineIn(H, n) ==
  IF mem.next = n THEN /\ kept = H /\ seen.segs[mem.seg].len = mem.len
                  ELSE /\ mem.next + 1 = n /\ H = kept \cup {rec} /\ rec \notin kept
                       /\ seen.segs[mem.seg].len = mem.len + rec.size

MemFits(n, lo, hi, b) ==
  /\ mem = [seg |-> mem.seg, len |-> mem.len, count |-> mem.count, next |-> mem.next,
            prev |-> mem.prev, ts |-> mem.ts, open |-> mem.open, failed |-> FALSE]
  /\ mem.len \in Nat /\ Place(kept, mem.next, mem)
  /\ mem.seg \in lo..hi
  /\ mem.seg = hi \/ (mem.seg + 1 = hi /\ b[hi] = n /\ mem.len > 0)
  /\ mem.len = 0 <=> b[mem.seg] = mem.next
  /\ mem.count = mem.seg - lo + IF pc = "pruneRemoveSync" THEN 2 ELSE 1

\* What an append and the calls between two appends know.
Working(H, n, lo, hi, b) ==
  Alive =>
    /\ MemFits(n, lo, hi, b) /\ LineIn(H, n)
    /\ mem.next # n => pc \in Written1 \cup {"rollback"}
    /\ mem.next = n => pc \notin Written1
    /\ IF pc = "rollback" THEN OnlyTorn(seen, mem.seg) ELSE NoneTorn(seen)
    /\ IF pc = "headSync" THEN HeadAt(H, n, seen.head) ELSE HeadAt(kept, mem.next, seen.head)
    /\ pc \in {"pruneSync", "pruneRemove"} <=> Start(seen).next # b[lo]
    /\ pc = "rotate" => mem.len > 0
    /\ pc = "rotateSync" => mem.seg + 1 = hi
    /\ pc \in Pruning => mem.seg = hi /\ b[hi] = n /\ MaxSegments \in Nat
    /\ pc \in Pruning \ {"pruneRemoveSync"} => lo < hi
    /\ pc \in Busy => RecordFits

Known(H, n, lo, hi, b) ==
  /\ History(H, n) /\ Layout(seen, H, n, lo, hi, b) /\ Accounted(H, n)
  /\ Repairing(H, n, lo, hi, b) /\ Working(H, n, lo, hi, b)

LogInv == /\ sealed \in Nat /\ powerLosses \in Nat /\ home \in {"close", "ready"}
          /\ \E H, n, lo, hi, b : Known(H, n, lo, hi, b)

-----------------------------------------------------------------------------
(* Histories.                                                                 *)

\* What a record may be asked for.
LEMMA RecordFields ==
  ASSUME NEW r \in Records
  PROVE  /\ r.seq \in Nat /\ r.prev \in Nat /\ r.hash \in Nat /\ r.ts \in Nat
         /\ r.size \in Nat \ {0} /\ r.kind \in Kinds /\ Names(r) \in [seq : Nat, hash : Nat]
<1>1. /\ r.seq \in Nat /\ r.prev \in Nat /\ r.hash \in Nat /\ (r.ts \in Times \/ r.ts = 0)
      /\ r.size \in Sizes /\ r.kind \in Kinds
  BY DEF Records
<1>2. \A t \in Times : t \in Nat
  BY TimeAssumption DEF TimeAssumption
<1>3. r.size \in Nat \ {0}
  BY <1>1, LengthAssumption DEF LengthAssumption
<1> QED BY <1>1, <1>2, <1>3 DEF Names

\* A record that continues the first n is number n.
LEMMA HistoryGrows ==
  ASSUME NEW H, NEW n, NEW x, NEW r, History(H, n), Place(H, n, x), r \in Records,
         r.seq = n, r.prev = x.prev, r.ts >= x.ts, r.kind = "outcome" => r.ref \in x.open
  PROVE  History(H \cup {r}, n + 1)
<1> DEFINE G == H \cup {r}
<1>1. n \in Nat /\ G \subseteq Records /\ \A q \in H : q.seq \in Nat /\ q.seq < n
  BY RecordFields DEF History
<1>2. (\A q \in G : q.seq < n + 1) /\ (\A a, q \in G : a.seq = q.seq => a = q)
  BY <1>1 DEF History
<1>3. \A s \in 0..n : \E q \in G : q.seq = s
  <2> SUFFICES ASSUME NEW s \in 0..n PROVE \E q \in G : q.seq = s
    OBVIOUS
  <2>1. CASE s = n
    BY <2>1
  <2>2. CASE s # n
    <3>1. s \in 0..(n-1)
      BY <1>1, <2>2
    <3> QED BY <3>1 DEF History
  <2> QED BY <2>1, <2>2
<1>4. \A a, q \in G : q.seq = a.seq + 1 => q.prev = a.hash /\ q.ts >= a.ts
  BY <1>1 DEF History, Place
<1>5. \A q \in G : q.seq = 0 => q.prev = 0
  BY <1>1 DEF History, Place
<1>6. r.kind = "outcome" => /\ \E a \in H : a.kind = "allow" /\ a.seq = r.ref /\ a.seq < r.seq
                            /\ \A o \in H : o.kind = "outcome" => o.ref # r.ref
  BY <1>1 DEF Place, OpenIn
<1>7. \A o \in G : o.kind = "outcome" => \E a \in G : a.kind = "allow" /\ a.seq = o.ref /\ a.seq < o.seq
  BY <1>6 DEF History
<1>8. \A o, q \in G : o.kind = "outcome" /\ q.kind = "outcome" /\ o.ref = q.ref => o = q
  BY <1>6 DEF History
<1> QED BY <1>1, <1>2, <1>3, <1>4, <1>5, <1>7, <1>8 DEF History

\* What is open after the first m records does not depend on later ones.
LEMMA OpenInEarlier ==
  ASSUME NEW H, NEW r, NEW m \in Nat, H \subseteq Records, r \in Records, r.seq >= m
  PROVE  OpenIn(H \cup {r}, m) = OpenIn(H, m)
<1>1. r.seq \in Nat
  BY RecordFields
<1> QED BY <1>1 DEF OpenIn

\* A later record changes nothing about what record m has to continue.
LEMMA PlaceEarlier ==
  ASSUME NEW H, NEW r, NEW m \in Nat, NEW x, H \subseteq Records, r \in Records, r.seq >= m
  PROVE  Place(H \cup {r}, m, x) <=> Place(H, m, x)
<1>1. r.seq \in Nat /\ r.seq + 1 # m
  BY RecordFields
<1> QED BY <1>1, OpenInEarlier DEF Place

\* Open decisions are named by their numbers.
LEMMA OpenInNat ==
  ASSUME NEW H, NEW m, H \subseteq Records
  PROVE  OpenIn(H, m) \subseteq Nat
<1>1. \A r \in H : r.seq \in Nat
  BY RecordFields
<1> QED BY <1>1 DEF OpenIn

\* What is open after one record more, S having been open.
OpenWith(S, r) == CASE r.kind = "allow"   -> S \cup {r.seq}
                    [] r.kind = "deny"    -> S
                    [] r.kind = "outcome" -> S \ {r.ref}

\* One record more opens a decision, closes one, or neither.
LEMMA OpenInNext ==
  ASSUME NEW H, NEW n, NEW r, History(H, n), r \in Records, r.seq = n,
         r.kind = "outcome" => r.ref \in OpenIn(H, n)
  PROVE  OpenIn(H \cup {r}, n + 1) = OpenWith(OpenIn(H, n), r)
<1>1. n \in Nat /\ \A q \in H : q \in Records /\ q.seq \in Nat /\ q.seq < n
  BY RecordFields DEF History
<1>2. \A q \in H : q.kind = "outcome" => q.ref # n
  BY <1>1 DEF History
<1>3. r.kind \in {"allow", "deny", "outcome"}
  BY RecordFields DEF Kinds
<1>4. CASE r.kind = "allow"
  BY <1>1, <1>2, <1>4 DEF OpenIn, OpenWith
<1>5. CASE r.kind = "deny"
  BY <1>1, <1>5 DEF OpenIn, OpenWith
<1>6. CASE r.kind = "outcome"
  BY <1>1, <1>6 DEF OpenIn, OpenWith
<1> QED BY <1>3, <1>4, <1>5, <1>6

\* The place after one record more.
LEMMA PlaceNext ==
  ASSUME NEW H, NEW n, NEW r, NEW x, History(H, n), r \in Records, r.seq = n,
         x.next = n + 1, x.prev = r.hash, x.ts = r.ts, x.open = OpenIn(H \cup {r}, n + 1)
  PROVE  Place(H \cup {r}, n + 1, x)
<1>1. n \in Nat /\ \A q \in H : q.seq \in Nat /\ q.seq < n
  BY RecordFields DEF History
<1> QED BY <1>1 DEF Place

\* Taking back the last record.
LEMMA HistoryShrinks ==
  ASSUME NEW H, NEW n, NEW m \in Nat, NEW r, m + 1 = n, History(H \cup {r}, n), r.seq = m,
         \A q \in H : q.seq # m
  PROVE  History(H, m)
<1> DEFINE G == H \cup {r}
<1>1. \A q \in G : q \in Records /\ q.seq \in Nat /\ q.seq < n
  BY RecordFields DEF History
<1>2. \A q \in H : q.seq < m
  BY <1>1
<1>3. \A s \in 0..(m-1) : \E q \in H : q.seq = s
  <2> SUFFICES ASSUME NEW s \in 0..(m-1) PROVE \E q \in H : q.seq = s
    OBVIOUS
  <2>1. PICK q \in G : q.seq = s
    BY DEF History
  <2> QED BY <2>1
<1>4. \A o \in H : o.kind = "outcome" => \E a \in H : a.kind = "allow" /\ a.seq = o.ref /\ a.seq < o.seq
  <2> SUFFICES ASSUME NEW o \in H, o.kind = "outcome"
               PROVE  \E a \in H : a.kind = "allow" /\ a.seq = o.ref /\ a.seq < o.seq
    OBVIOUS
  <2>1. PICK a \in G : a.kind = "allow" /\ a.seq = o.ref /\ a.seq < o.seq
    BY DEF History
  <2>2. o.seq \in Nat /\ o.seq < m /\ a.seq \in Nat
    BY <1>1, <1>2
  <2> QED BY <2>1, <2>2
<1> QED BY <1>1, <1>2, <1>3, <1>4 DEF History

-----------------------------------------------------------------------------
(* What the walk finds in a directory that is laid out.                        *)

\* The cuts rise from the first record on disk to the last.
LEMMA CutsFacts ==
  ASSUME NEW n, NEW lo, NEW hi, NEW b, Cuts(n, lo, hi, b)
  PROVE  /\ n \in Nat /\ lo \in Nat \ {0} /\ hi \in Nat
         /\ \A i \in lo..hi : /\ i \in Nat /\ b[i] \in Nat /\ b[i + 1] \in Nat
                              /\ b[i] <= b[i + 1] /\ b[i + 1] <= n /\ b[lo] <= b[i]
                              /\ (i < hi => b[i] < b[i + 1])
         /\ b[lo] \in Nat /\ b[lo] <= n
<1>1. lo \in Nat \ {0} /\ hi \in Nat /\ lo <= hi + 1 /\ b \in [lo..(hi + 1) -> Nat] /\ b[hi + 1] = n
  BY DEF Cuts
<1>2. n \in Nat /\ b[lo] \in Nat
  BY <1>1
<1>3. ASSUME NEW i \in lo..hi
      PROVE  /\ i \in Nat /\ b[i] \in Nat /\ b[i + 1] \in Nat
             /\ b[i] <= b[i + 1] /\ b[i + 1] <= n /\ b[lo] <= b[i]
             /\ (i < hi => b[i] < b[i + 1])
  <2>1. i \in Nat /\ i + 1 \in lo..(hi + 1) /\ i \in lo..(hi + 1) /\ i < i + 1 /\ lo \in lo..hi
        /\ hi + 1 \in lo..(hi + 1)
    BY <1>1
  <2>2. b[i] \in Nat /\ b[i + 1] \in Nat
    BY <1>1, <2>1
  <2>3. b[i] <= b[i + 1] /\ (i < hi => b[i] < b[i + 1])
    BY <1>1, <2>1 DEF Cuts
  <2>4. b[i + 1] <= n
    <3>1. CASE i = hi
      BY <1>1, <1>2, <3>1
    <3>2. CASE i < hi
      <4>1. i + 1 \in lo..hi /\ i + 1 < hi + 1
        BY <1>1, <2>1, <3>2
      <4> QED BY <1>1, <2>1, <4>1 DEF Cuts
    <3> QED BY <1>1, <2>1, <3>1, <3>2
  <2>5. b[lo] <= b[i]
    <3>1. CASE i = lo
      BY <1>2, <3>1
    <3>2. CASE i # lo
      <4>1. lo < i
        BY <1>1, <2>1, <3>2
      <4> QED BY <2>1, <4>1 DEF Cuts
    <3> QED BY <3>1, <3>2
  <2> QED BY <2>1, <2>2, <2>3, <2>4, <2>5
<1>4. b[lo] <= n
  <2>1. CASE lo = hi + 1
    BY <1>1, <1>2, <2>1
  <2>2. CASE lo <= hi
    <3>1. lo \in lo..hi
      BY <1>1, <2>2
    <3>2. b[lo] <= b[lo + 1] /\ b[lo + 1] <= n /\ b[lo + 1] \in Nat
      BY <1>3, <3>1
    <3> QED BY <1>2, <3>2
  <2> QED BY <1>1, <2>1, <2>2
<1> QED BY <1>1, <1>2, <1>3, <1>4

\* The k-th record of a segment.
LEMMA RecordAt ==
  ASSUME NEW d, NEW H, NEW n, NEW lo, NEW hi, NEW b, History(H, n), Layout(d, H, n, lo, hi, b),
         NEW i \in lo..hi
  PROVE  /\ Len(d.segs[i].recs) \in Nat /\ Len(d.segs[i].recs) = b[i + 1] - b[i]
         /\ DOMAIN d.segs[i].recs = 1..Len(d.segs[i].recs)
         /\ d.segs[i].recs \in Seq(Records)
         /\ d.segs[i].recs = <<>> <=> b[i] = b[i + 1]
         /\ \A k \in 1..Len(d.segs[i].recs) : /\ d.segs[i].recs[k] \in H
                                              /\ d.segs[i].recs[k].seq = b[i] + k - 1
<1>1. Holds(d.segs[i], H, b[i], b[i + 1]) /\ b[i] \in Nat /\ b[i + 1] \in Nat
  BY CutsFacts DEF Layout
<1> DEFINE recs == d.segs[i].recs
<1>2. /\ recs \in Seq(Records) /\ Len(recs) = b[i + 1] - b[i]
      /\ \A k \in 1..Len(recs) : recs[k] \in H /\ recs[k].seq = b[i] + k - 1
  BY <1>1 DEF Holds
<1> HIDE DEF recs
<1>3. Len(recs) \in Nat /\ DOMAIN recs = 1..Len(recs) /\ (recs = <<>> <=> Len(recs) = 0)
  BY <1>2, LenProperties, EmptySeq
<1>4. recs = <<>> <=> b[i] = b[i + 1]
  BY <1>1, <1>2, <1>3
<1> QED BY <1>2, <1>3, <1>4 DEF recs

\* Where the chain starts.
LEMMA FloorFacts ==
  ASSUME NEW d, NEW H, NEW n, NEW lo, NEW hi, NEW b, Layout(d, H, n, lo, hi, b)
  PROVE  /\ Start(d).next \in Nat /\ b[lo] <= Start(d).next /\ Start(d).next <= n
         /\ Start(d).next # b[lo] => lo < hi /\ Start(d).next = b[lo + 1] /\ b[lo] < b[lo + 1]
<1>1. Start(d).next = b[lo] \/ (lo < hi /\ Start(d).next = b[lo + 1])
  BY DEF Layout, CheckpointAt
<1>2. Cuts(n, lo, hi, b)
  BY DEF Layout
<1>3. lo < hi => lo \in lo..hi
  BY <1>2, CutsFacts
<1> QED BY <1>1, <1>2, <1>3, CutsFacts

\* A segment behind the checkpoint is the first one.
LEMMA StaleIs ==
  ASSUME NEW d, NEW H, NEW n, NEW lo, NEW hi, NEW b, History(H, n), Layout(d, H, n, lo, hi, b)
  PROVE  Stale(d) = IF Start(d).next = b[lo] THEN {} ELSE {lo}
<1> DEFINE floor == Start(d).next
<1>1. DOMAIN d.segs = lo..hi /\ Cuts(n, lo, hi, b)
  BY DEF Layout
<1>2. floor \in Nat /\ b[lo] <= floor /\ (floor # b[lo] => lo < hi /\ floor = b[lo + 1] /\ b[lo] < b[lo + 1])
  BY FloorFacts
<1>3. ASSUME NEW i \in lo..hi, i \in Stale(d) PROVE floor # b[lo] /\ i = lo
  <2> DEFINE recs == d.segs[i].recs
  <2>1. recs # <<>> /\ \A r \in ToSet(recs) : r.seq < floor
    BY <1>3 DEF Stale
  <2>2. Len(recs) \in Nat /\ DOMAIN recs = 1..Len(recs) /\ recs[1].seq = b[i] /\ b[i] \in Nat /\ 1 \in 1..Len(recs)
    BY <2>1, <1>1, RecordAt, CutsFacts
  <2>3. b[i] < floor
    BY <2>1, <2>2 DEF ToSet
  <2>4. b[lo] <= b[i] /\ b[lo] \in Nat
    BY <1>1, CutsFacts
  <2>5. floor # b[lo]
    BY <1>2, <2>2, <2>3, <2>4
  <2>6. i # lo => b[lo + 1] <= b[i]
    <3> SUFFICES ASSUME i # lo PROVE b[lo + 1] <= b[i]
      OBVIOUS
    <3>1. lo + 1 \in lo..hi /\ lo \in Nat /\ i \in Nat /\ lo + 1 <= i
      BY <1>1, CutsFacts
    <3>2. CASE lo + 1 = i
      BY <2>2, <3>2
    <3>3. CASE lo + 1 < i
      <4>1. i \in lo..(hi + 1)
        BY <1>1, CutsFacts
      <4> QED BY <1>1, <3>1, <3>3, <4>1 DEF Cuts
    <3> QED BY <3>1, <3>2, <3>3
  <2> QED BY <1>2, <2>2, <2>3, <2>5, <2>6
<1>4. ASSUME floor # b[lo] PROVE lo \in Stale(d)
  <2> DEFINE recs == d.segs[lo].recs
  <2>1. lo < hi /\ floor = b[lo + 1] /\ b[lo] < b[lo + 1] /\ lo \in lo..hi
    BY <1>1, <1>2, <1>4, CutsFacts
  <2>2. recs # <<>> /\ DOMAIN recs = 1..Len(recs) /\ Len(recs) \in Nat /\ Len(recs) = b[lo + 1] - b[lo]
        /\ \A k \in 1..Len(recs) : recs[k].seq = b[lo] + k - 1
    <3>1. b[lo] \in Nat /\ b[lo + 1] \in Nat /\ b[lo] # b[lo + 1]
      BY <1>1, <2>1, CutsFacts
    <3>2. /\ Len(recs) \in Nat /\ Len(recs) = b[lo + 1] - b[lo] /\ DOMAIN recs = 1..Len(recs)
          /\ (recs = <<>> <=> b[lo] = b[lo + 1])
          /\ \A k \in 1..Len(recs) : recs[k].seq = b[lo] + k - 1
      BY <2>1, RecordAt
    <3> QED BY <3>1, <3>2
  <2>3. \A k \in 1..Len(recs) : recs[k].seq < floor
    BY <1>1, <2>1, <2>2, CutsFacts
  <2> QED BY <1>1, <2>1, <2>2, <2>3 DEF Stale, ToSet
<1>5. \A i \in Stale(d) : i \in lo..hi
  BY <1>1 DEF Stale
<1> QED BY <1>3, <1>4, <1>5

\* The segments the walk reads are those from the checkpoint on.
LEMMA LiveIs ==
  ASSUME NEW d, NEW H, NEW n, NEW lo, NEW hi, NEW b, History(H, n), Layout(d, H, n, lo, hi, b)
  PROVE  Live(d) = {i \in lo..hi : b[i] >= Start(d).next}
<1> DEFINE floor == Start(d).next
<1>1. DOMAIN d.segs = lo..hi /\ Cuts(n, lo, hi, b)
  BY DEF Layout
<1>2. floor \in Nat /\ b[lo] <= floor /\ (floor # b[lo] => lo < hi /\ floor = b[lo + 1] /\ b[lo] < b[lo + 1])
  BY FloorFacts
<1>3. CASE floor = b[lo]
  <2>1. \A i \in lo..hi : b[i] >= floor
    BY <1>1, <1>3, CutsFacts
  <2> QED BY <1>1, <1>3, <2>1, StaleIs DEF Live
<1>4. CASE floor # b[lo]
  <2>1. b[lo] < floor /\ b[lo] \in Nat
    BY <1>1, <1>2, <1>4, CutsFacts
  <2>2. ASSUME NEW i \in lo..hi, i # lo PROVE b[i] >= floor
    <3>1. lo + 1 \in lo..hi /\ lo \in Nat /\ i \in Nat /\ lo + 1 <= i /\ b[i] \in Nat
      BY <1>1, <2>2, CutsFacts
    <3>2. CASE lo + 1 = i
      BY <1>2, <1>4, <3>1, <3>2
    <3>3. CASE lo + 1 < i
      <4>1. i \in lo..(hi + 1)
        BY <1>1, CutsFacts
      <4>2. b[lo + 1] <= b[i]
        BY <1>1, <3>1, <3>3, <4>1 DEF Cuts
      <4> QED BY <1>2, <1>4, <3>1, <4>2
    <3> QED BY <3>1, <3>2, <3>3
  <2>3. ~(b[lo] >= floor)
    BY <1>2, <2>1
  <2> QED BY <1>1, <1>4, <2>2, <2>3, StaleIs DEF Live
<1> QED BY <1>3, <1>4

\* Every number from the start of the chain on is in one of its segments.
LEMMA SegmentOf ==
  ASSUME NEW d, NEW H, NEW n, NEW lo, NEW hi, NEW b, History(H, n), Layout(d, H, n, lo, hi, b),
         NEW s \in Nat, Start(d).next <= s, s < n
  PROVE  \E i \in lo..hi : /\ b[i] >= Start(d).next /\ b[i] <= s /\ s < b[i + 1]
                           /\ s - b[i] + 1 \in 1..Len(d.segs[i].recs)
<1> DEFINE floor == Start(d).next
<1>1. Cuts(n, lo, hi, b) /\ n \in Nat /\ b[lo] \in Nat
  BY CutsFacts DEF Layout
<1>2. floor \in Nat /\ b[lo] <= floor /\ (floor # b[lo] => lo < hi /\ floor = b[lo + 1] /\ b[lo] < b[lo + 1])
  BY FloorFacts
<1>3. s \in b[lo]..(n - 1)
  BY <1>1, <1>2
<1>4. PICK i \in lo..hi : b[i] <= s /\ s < b[i + 1]
  BY <1>1, <1>3 DEF Cuts
<1>5. i \in Live(d)
  <2> SUFFICES ASSUME i \in Stale(d) PROVE FALSE
    BY DEF Layout, Live
  <2>1. i = lo /\ floor # b[lo]
    BY StaleIs
  <2> QED BY <1>2, <1>4, <2>1
<1>6. b[i] >= floor
  BY <1>5, LiveIs
<1>7. s - b[i] + 1 \in 1..Len(d.segs[i].recs)
  BY <1>1, <1>4, CutsFacts, RecordAt
<1> QED BY <1>4, <1>6, <1>7

\* The retained records.
LEMMA RetainedIs ==
  ASSUME NEW d, NEW H, NEW n, NEW lo, NEW hi, NEW b, History(H, n), Layout(d, H, n, lo, hi, b)
  PROVE  Retained(d) = {r \in H : r.seq >= Start(d).next}
<1> DEFINE floor == Start(d).next
<1>1. DOMAIN d.segs = lo..hi /\ Cuts(n, lo, hi, b) /\ floor \in Nat
  BY FloorFacts DEF Layout
<1>2. ASSUME NEW r \in Retained(d) PROVE r \in H /\ r.seq >= floor
  <2>1. PICK i \in Live(d) : r \in ToSet(d.segs[i].recs)
    BY DEF Retained
  <2>2. i \in lo..hi /\ b[i] >= floor /\ b[i] \in Nat
    BY <1>1, LiveIs, CutsFacts
  <2>3. PICK k \in 1..Len(d.segs[i].recs) : r = d.segs[i].recs[k]
    BY <2>1, <2>2, RecordAt DEF ToSet
  <2>4. r \in H /\ r.seq = b[i] + k - 1 /\ k \in Nat /\ k >= 1
    BY <2>2, <2>3, RecordAt
  <2> QED BY <1>1, <2>2, <2>4
<1>3. ASSUME NEW r \in H, r.seq >= floor PROVE r \in Retained(d)
  <2>1. r.seq \in Nat /\ r.seq < n
    BY RecordFields DEF History
  <2>2. PICK i \in lo..hi : /\ b[i] >= floor /\ b[i] <= r.seq /\ r.seq < b[i + 1]
                            /\ r.seq - b[i] + 1 \in 1..Len(d.segs[i].recs)
    BY <1>3, <2>1, SegmentOf
  <2> DEFINE k == r.seq - b[i] + 1
             q == d.segs[i].recs[k]
  <2>3. q \in H /\ q.seq = b[i] + k - 1 /\ q \in ToSet(d.segs[i].recs)
    BY <2>2, RecordAt DEF ToSet
  <2>4. q.seq = r.seq
    BY <1>1, <2>1, <2>3, CutsFacts
  <2>5. q = r
    BY <2>3, <2>4 DEF History
  <2>6. i \in Live(d)
    BY <2>2, LiveIs
  <2> QED BY <2>3, <2>5, <2>6 DEF Retained
<1> QED BY <1>2, <1>3

\* Of those, the segments that hold a record.
LEMMA FilledIs ==
  ASSUME NEW d, NEW H, NEW n, NEW lo, NEW hi, NEW b, History(H, n), Layout(d, H, n, lo, hi, b)
  PROVE  Filled(d) = {i \in lo..hi : b[i] >= Start(d).next /\ b[i] # b[i + 1]}
<1>1. \A i \in lo..hi : d.segs[i].recs = <<>> <=> b[i] = b[i + 1]
  BY RecordAt
<1> QED BY <1>1, LiveIs DEF Filled

\* The greatest element, once it is known.
LEMMA UpperIs ==
  ASSUME NEW S, S \subseteq Int, NEW x \in S, \A y \in S : y <= x
  PROVE  Upper(S) = x
<1>1. Upper(S) \in S /\ \A y \in S : y <= Upper(S)
  BY DEF Upper
<1>2. Upper(S) \in Int /\ x \in Int /\ Upper(S) <= x /\ x <= Upper(S)
  BY <1>1
<1> QED BY <1>2

\* The least element, once it is known.
LEMMA LowerIs ==
  ASSUME NEW S, S \subseteq Int, NEW x \in S, \A y \in S : x <= y
  PROVE  Lower(S) = x
<1>1. Lower(S) \in S /\ \A y \in S : Lower(S) <= y
  BY DEF Lower
<1>2. Lower(S) \in Int /\ x \in Int /\ Lower(S) <= x /\ x <= Lower(S)
  BY <1>1
<1> QED BY <1>2

\* The tip is the last record, unless all is behind the checkpoint.
LEMMA TipIs ==
  ASSUME NEW d, NEW H, NEW n, NEW lo, NEW hi, NEW b, History(H, n), Layout(d, H, n, lo, hi, b)
  PROVE  IF Start(d).next = n THEN Tip(d) = None
         ELSE /\ Newest(d) \in H /\ Newest(d).seq + 1 = n
              /\ Tip(d) = Names(Newest(d)) /\ Tip(d) # None
<1> DEFINE floor == Start(d).next
<1>1. Cuts(n, lo, hi, b) /\ floor \in Nat /\ floor <= n /\ n \in Nat
  BY FloorFacts, CutsFacts DEF Layout
<1>2. CASE floor = n
  <2>1. Filled(d) = {}
    <3> SUFFICES ASSUME NEW i \in Filled(d) PROVE FALSE
      OBVIOUS
    <3>1. i \in lo..hi /\ b[i] >= n /\ b[i] # b[i + 1]
      BY <1>2, FilledIs
    <3>2. b[i] \in Nat /\ b[i + 1] \in Nat /\ b[i] <= b[i + 1] /\ b[i + 1] <= n
      BY <1>1, <3>1, CutsFacts
    <3> QED BY <1>1, <3>1, <3>2
  <2> QED BY <1>2, <2>1 DEF Tip
<1>3. CASE floor # n
  <2>1. n - 1 \in Nat /\ floor <= n - 1 /\ n - 1 < n
    BY <1>1, <1>3
  <2>2. PICK i \in lo..hi : /\ b[i] >= floor /\ b[i] <= n - 1 /\ n - 1 < b[i + 1]
                            /\ (n - 1) - b[i] + 1 \in 1..Len(d.segs[i].recs)
    BY <2>1, SegmentOf
  <2>3. b[i] \in Nat /\ b[i + 1] = n /\ i \in Filled(d)
    <3>1. b[i] \in Nat /\ b[i + 1] \in Nat /\ b[i + 1] <= n
      BY <1>1, CutsFacts
    <3>2. b[i + 1] = n /\ b[i] # b[i + 1]
      BY <1>1, <2>2, <3>1
    <3>3. i \in Filled(d)
      BY <1>1, <2>2, <3>1, <3>2, FilledIs
    <3> QED BY <3>1, <3>2, <3>3
  <2>4. ASSUME NEW j \in Filled(d) PROVE j <= i
    <3>1. j \in lo..hi /\ b[j] # b[j + 1] /\ b[j] \in Nat /\ b[j + 1] \in Nat /\ b[j] <= b[j + 1]
          /\ b[j + 1] <= n /\ j \in Nat /\ i \in Nat
      BY <1>1, FilledIs, CutsFacts
    <3>2. CASE i + 1 = j
      BY <1>1, <2>3, <3>1, <3>2
    <3>3. CASE i + 1 < j
      <4>1. i + 1 \in lo..hi /\ j \in lo..(hi + 1)
        BY <1>1, <2>2, <3>1, <3>3, CutsFacts
      <4>2. b[i + 1] <= b[j]
        BY <1>1, <3>3, <4>1 DEF Cuts
      <4> QED BY <1>1, <2>3, <3>1, <4>2
    <3> QED BY <3>1, <3>2, <3>3
  <2>5. \A j \in Filled(d) : j \in Int
    BY <1>1, FilledIs, CutsFacts
  <2>6. Upper(Filled(d)) = i
    BY <2>3, <2>4, <2>5, UpperIs
  <2> DEFINE recs == d.segs[i].recs
  <2>7. /\ Len(recs) = b[i + 1] - b[i] /\ Len(recs) \in 1..Len(recs)
        /\ recs[Len(recs)] \in H /\ recs[Len(recs)].seq = b[i] + Len(recs) - 1
    <3>1. Len(recs) \in Nat /\ Len(recs) = b[i + 1] - b[i] /\ b[i] <= n - 1
      BY <2>2, RecordAt
    <3>2. Len(recs) \in 1..Len(recs)
      BY <1>1, <2>3, <3>1
    <3> QED BY <3>1, <3>2, RecordAt
  <2>8. Newest(d) = recs[Len(recs)]
    BY <2>6 DEF Newest, Last
  <2>9. Newest(d) \in H /\ Newest(d).seq + 1 = n
    <3>1. Newest(d).seq = b[i] + Len(recs) - 1 /\ Len(recs) = n - b[i]
      BY <2>3, <2>7, <2>8
    <3>2. Newest(d).seq + 1 = n
      BY <1>1, <2>3, <3>1
    <3> QED BY <2>7, <2>8, <3>2
  <2>10. Tip(d) = Names(Newest(d))
    BY <2>3 DEF Tip
  <2>11. Names(Newest(d)) \in [seq : Nat, hash : Nat]
    BY <2>9, RecordFields DEF History
  <2>12. Tip(d) # None
    BY <2>10, <2>11, NoneAssumption DEF NoneAssumption
  <2> QED BY <1>3, <2>9, <2>10, <2>12
<1> QED BY <1>2, <1>3

\* What is open on disk is what is open in the history.
LEMMA OpenIs ==
  ASSUME NEW d, NEW H, NEW n, NEW lo, NEW hi, NEW b, History(H, n), Layout(d, H, n, lo, hi, b),
         NEW m \in Nat, Start(d).next <= m, m <= n
  PROVE  OpenAfter(d, {r \in Retained(d) : r.seq < m}) = OpenIn(H, m)
<1> DEFINE floor == Start(d).next
<1>1. Retained(d) = {r \in H : r.seq >= floor} /\ floor \in Nat
  BY RetainedIs, FloorFacts
<1>2. \A r \in H : r.seq \in Nat
  BY RecordFields DEF History
<1>3. Start(d).open = OpenIn(H, floor)
  BY DEF Layout, CheckpointAt, Place
<1>4. \A o \in H : o.kind = "outcome" => o.ref < o.seq /\ o.ref \in Nat
  BY <1>2 DEF History
<1> DEFINE allows(S) == {r.seq : r \in {q \in S : q.kind = "allow"}}
           refs(S)   == {r.ref : r \in {q \in S : q.kind = "outcome"}}
           old == {r \in H : r.seq < floor}
           own == {r \in H : r.seq >= floor /\ r.seq < m}
           all == {r \in H : r.seq < m}
<1>5. {r \in Retained(d) : r.seq < m} = own
  BY <1>1
<1>6. OpenAfter(d, own) = (OpenIn(H, floor) \cup allows(own)) \ refs(own)
  BY <1>3 DEF OpenAfter
<1>7. OpenIn(H, floor) = allows(old) \ refs(old) /\ OpenIn(H, m) = allows(all) \ refs(all)
  BY DEF OpenIn
<1>8. allows(all) = allows(old) \cup allows(own) /\ refs(all) = refs(old) \cup refs(own)
  BY <1>1, <1>2
<1>9. \A s \in allows(own) : s \notin refs(old)
  BY <1>1, <1>2, <1>4
<1> QED BY <1>5, <1>6, <1>7, <1>8, <1>9

\* What the walk finds open is what is open in the history.
LEMMA OpenDecisionsAre ==
  ASSUME NEW d, NEW H, NEW n, NEW lo, NEW hi, NEW b, History(H, n), Layout(d, H, n, lo, hi, b)
  PROVE  OpenDecisions(d) = OpenIn(H, n)
<1>1. n \in Nat /\ Start(d).next <= n
  BY FloorFacts DEF History
<1>2. {r \in Retained(d) : r.seq < n} = Retained(d)
  BY RetainedIs DEF History
<1> QED BY <1>1, <1>2, OpenIs DEF OpenDecisions

\* A record continues the one before it.
LEMMA Linked ==
  ASSUME NEW H, NEW n, History(H, n), NEW q \in H, NEW r \in H, r.seq = q.seq + 1
  PROVE  r.seq = Continues(q).next /\ r.prev = Continues(q).prev /\ r.ts >= Continues(q).ts
BY DEF History, Continues

\* It continues where the chain starts.
LEMMA LinkedToStart ==
  ASSUME NEW H, NEW n, NEW x, NEW m \in Nat, History(H, n), Place(H, m, x), NEW r \in H, r.seq = m
  PROVE  r.seq = x.next /\ r.prev = x.prev /\ r.ts >= x.ts
<1>1. r \in Records /\ r.ts \in Nat /\ n \in Nat /\ m < n
  BY RecordFields DEF History
<1>2. CASE m = 0
  BY <1>1, <1>2 DEF History, Place
<1>3. CASE m # 0
  <2>1. PICK q \in H : q.seq = m - 1
    BY <1>1, <1>3 DEF History
  <2>2. r.seq = q.seq + 1 /\ q.seq + 1 = m
    BY <2>1
  <2>3. r.prev = q.hash /\ r.ts >= q.ts
    BY <2>2 DEF History
  <2> QED BY <2>2, <2>3 DEF Place
<1> QED BY <1>2, <1>3

\* In a segment, a record continues the one before it or the segment before.
LEMMA ExpectedIs ==
  ASSUME NEW d, NEW H, NEW n, NEW lo, NEW hi, NEW b, History(H, n), Layout(d, H, n, lo, hi, b),
         Start(d).next = b[lo], NEW i \in lo..hi, NEW k \in 1..Len(d.segs[i].recs)
  PROVE  LET r == d.segs[i].recs[k]
             x == Expected(d, i, k) IN
         r.seq = x.next /\ r.prev = x.prev /\ r.ts >= x.ts
<1> DEFINE r == d.segs[i].recs[k]
           x == Expected(d, i, k)
           earlier == {j \in Filled(d) : j < i}
<1>1. Cuts(n, lo, hi, b) /\ lo \in Nat /\ hi \in Nat /\ i \in Nat /\ b[i] \in Nat
  BY CutsFacts DEF Layout
<1>2. k \in Nat /\ k >= 1 /\ r \in H /\ r.seq = b[i] + k - 1 /\ Len(d.segs[i].recs) \in Nat
  BY RecordAt
<1>3. CASE k > 1
  <2>1. k - 1 \in 1..Len(d.segs[i].recs)
    BY <1>2, <1>3
  <2> DEFINE q == d.segs[i].recs[k - 1]
  <2>2. q \in H /\ q.seq = b[i] + (k - 1) - 1
    BY <2>1, RecordAt
  <2>3. r.seq = q.seq + 1
    <3> HIDE DEF r, q
    <3> QED BY <1>1, <1>2, <2>2
  <2>4. x = Continues(q)
    BY <1>2, <1>3 DEF Expected
  <2> QED BY <1>2, <2>2, <2>3, <2>4, Linked
<1>4. CASE k = 1 /\ i = lo
  <2>1. earlier = {}
    BY <1>1, <1>4, FilledIs
  <2>2. x = Start(d)
    BY <1>4, <2>1 DEF Expected
  <2>3. Place(H, b[lo], Start(d)) /\ r.seq = b[lo]
    BY <1>1, <1>2, <1>4 DEF Layout, CheckpointAt
  <2> QED BY <1>1, <1>2, <1>4, <2>2, <2>3, LinkedToStart
<1>5. CASE k = 1 /\ i # lo
  <2>1. i - 1 \in lo..hi /\ i - 1 < hi /\ (i - 1) + 1 = i
    BY <1>1, <1>5
  <2>2. b[i - 1] \in Nat /\ b[i - 1] < b[i] /\ b[lo] <= b[i - 1] /\ b[lo] \in Nat
    BY <1>1, <2>1, CutsFacts
  <2>3. i - 1 \in earlier
    BY <1>1, <2>1, <2>2, FilledIs
  <2>4. \A j \in earlier : j \in Int /\ j <= i - 1
    BY <1>1, FilledIs
  <2>5. Upper(earlier) = i - 1
    BY <2>3, <2>4, UpperIs
  <2> DEFINE recs == d.segs[i - 1].recs
             q == recs[Len(recs)]
  <2>6. Len(recs) \in Nat /\ Len(recs) = b[i] - b[i - 1]
    BY <2>1, RecordAt
  <2>7. Len(recs) \in 1..Len(recs)
    BY <1>1, <2>2, <2>6
  <2>8. q \in H /\ q.seq = b[i - 1] + Len(recs) - 1
    BY <2>1, <2>7, RecordAt
  <2>9. r.seq = q.seq + 1
    BY <1>1, <1>2, <1>5, <2>2, <2>6, <2>8
  <2>10. x = Continues(q)
    <3>1. x = Continues(Last(d.segs[Upper(earlier)].recs))
      <4>1. earlier # {} /\ ~(k > 1)
        BY <1>5, <2>3
      <4> HIDE DEF earlier
      <4>2. k = 1
        BY <1>5
      <4> QED BY <4>1, <4>2 DEF Expected, earlier
    <3>2. Last(recs) = q
      BY DEF Last
    <3> QED BY <2>5, <3>1, <3>2
  <2>11. r.seq = x.next /\ r.prev = x.prev /\ r.ts >= x.ts
    <3> HIDE DEF x, r, q
    <3> QED BY <1>2, <2>8, <2>9, <2>10, Linked
  <2> QED BY <2>11
<1> QED BY <1>2, <1>3, <1>4, <1>5

\* A directory that is laid out passes the checks of the chain.
LEMMA ChainFitsHere ==
  ASSUME NEW d, NEW H, NEW n, NEW lo, NEW hi, NEW b, History(H, n), Layout(d, H, n, lo, hi, b),
         Start(d).next = b[lo]
  PROVE  ChainFits(d)
<1> SUFFICES ASSUME NEW i \in Live(d), NEW k \in DOMAIN d.segs[i].recs
             PROVE  LET r == d.segs[i].recs[k]
                        x == Expected(d, i, k) IN
                    /\ r.seq = x.next /\ r.prev = x.prev /\ r.ts >= x.ts
                    /\ r.kind = "outcome" => r.ref \in OpenAfter(d, {q \in Retained(d) : q.seq < r.seq})
  BY DEF ChainFits
<1>1. i \in lo..hi /\ b[i] >= b[lo]
  BY LiveIs
<1>2. k \in 1..Len(d.segs[i].recs)
  BY <1>1, RecordAt
<1> DEFINE r == d.segs[i].recs[k]
<1>3. r \in H /\ r.seq = b[i] + k - 1
  BY <1>1, <1>2, RecordAt
<1>4. r.seq \in Nat /\ r.seq < n /\ n \in Nat
  BY <1>3, RecordFields DEF History
<1>5. b[i] \in Nat /\ b[lo] \in Nat /\ Cuts(n, lo, hi, b)
  BY <1>1, CutsFacts DEF Layout
<1>6. Start(d).next <= r.seq
  BY <1>1, <1>2, <1>3, <1>5
<1>7. OpenAfter(d, {q \in Retained(d) : q.seq < r.seq}) = OpenIn(H, r.seq)
  BY <1>4, <1>6, OpenIs
<1>8. r.kind = "outcome" => r.ref \in OpenIn(H, r.seq)
  <2> SUFFICES ASSUME r.kind = "outcome" PROVE r.ref \in OpenIn(H, r.seq)
    OBVIOUS
  <2>1. PICK a \in H : a.kind = "allow" /\ a.seq = r.ref /\ a.seq < r.seq
    BY <1>3 DEF History
  <2>2. \A o \in H : o.kind = "outcome" /\ o.ref = r.ref => o = r
    BY <1>3 DEF History
  <2> QED BY <1>4, <2>1, <2>2 DEF OpenIn
<1> HIDE DEF r
<1>9. LET x == Expected(d, i, k) IN r.seq = x.next /\ r.prev = x.prev /\ r.ts >= x.ts
  BY <1>1, <1>2, ExpectedIs DEF r
<1> QED BY <1>7, <1>8, <1>9 DEF r

\* Where there is no checkpoint nothing has been pruned.
LEMMA StartFacts ==
  ASSUME NEW d, NEW H, NEW lo, NEW hi, NEW b, CheckpointAt(d, H, lo, hi, b)
  PROVE  /\ d.checkpoint = None <=> Start(d).next = 0
         /\ d.checkpoint # None => Start(d) = d.checkpoint
<1>1. d.checkpoint = None => Start(d).next = 0
  BY DEF Start
<1>2. d.checkpoint # None => Start(d) = d.checkpoint /\ d.checkpoint.next # 0
  BY DEF Start, CheckpointAt, Checkpoints
<1> QED BY <1>1, <1>2

\* HEAD at the last record is all the walk asks of it.
LEMMA HeadIsFound ==
  ASSUME NEW d, NEW H, NEW n, NEW lo, NEW hi, NEW b, History(H, n), Layout(d, H, n, lo, hi, b),
         HeadAt(H, n, d.head)
  PROVE  HeadFits(d) /\ ~HeadLags(d)
<1> DEFINE floor == Start(d).next
<1>1. CheckpointAt(d, H, lo, hi, b) /\ n \in Nat /\ floor \in Nat /\ floor <= n
  BY FloorFacts DEF Layout, History
<1>2. ASSUME NEW r \in H, d.head = Names(r) PROVE d.head # None
  BY <1>2, RecordFields, NoneAssumption DEF NoneAssumption, History
<1>3. CASE floor = n
  <2>1. Tip(d) = None
    BY <1>3, TipIs
  <2>2. CASE n = 0 /\ d.head = None
    BY <1>1, <1>3, <2>1, <2>2, StartFacts DEF HeadFits, HeadLags
  <2>3. ASSUME NEW r \in H, r.seq + 1 = n, d.head = Names(r) PROVE HeadFits(d) /\ ~HeadLags(d)
    <3>1. r.seq \in Nat
      BY RecordFields DEF History
    <3>2. d.checkpoint # None /\ Start(d) = d.checkpoint
      BY <1>1, <1>3, <2>3, <3>1, StartFacts
    <3>3. d.checkpoint.next = n /\ d.checkpoint.prev = r.hash
      BY <1>1, <1>3, <2>3, <3>2 DEF CheckpointAt, Place
    <3>4. d.head = [seq |-> d.checkpoint.next - 1, hash |-> d.checkpoint.prev]
      BY <1>1, <2>3, <3>1, <3>3 DEF Names
    <3>5. d.head # None
      BY <1>2, <2>3
    <3> QED BY <2>1, <3>2, <3>4, <3>5 DEF HeadFits, HeadLags
  <2> QED BY <2>2, <2>3 DEF HeadAt
<1>4. CASE floor # n
  <2>1. Newest(d) \in H /\ Newest(d).seq + 1 = n /\ Tip(d) = Names(Newest(d)) /\ Tip(d) # None
    BY <1>4, TipIs
  <2>2. n # 0
    BY <1>1, <1>4
  <2>3. PICK r \in H : r.seq + 1 = n /\ d.head = Names(r)
    BY <2>2 DEF HeadAt
  <2>4. r.seq \in Nat /\ Newest(d).seq \in Nat
    BY <2>1, RecordFields DEF History
  <2>5. r.seq = Newest(d).seq /\ r.seq >= floor
    BY <1>1, <1>4, <2>1, <2>3, <2>4
  <2>6. r = Newest(d)
    BY <2>1, <2>5 DEF History
  <2>7. r \in Retained(d)
    BY <2>5, RetainedIs
  <2>8. Tip(d).seq = r.seq
    BY <2>1, <2>6 DEF Names
  <2>9. r.seq + 1 >= Tip(d).seq
    BY <2>4, <2>8
  <2> QED BY <2>1, <2>3, <2>6, <2>7, <2>9 DEF HeadFits, HeadLags
<1> QED BY <1>3, <1>4

\* What the walk knows of HEAD when it accepts it.
LEMMA HeadFitsSays ==
  ASSUME NEW d, NEW H, NEW n, NEW lo, NEW hi, NEW b, History(H, n), Layout(d, H, n, lo, hi, b),
         HeadFits(d)
  PROVE  HeadNear(H, n, d)
<1> DEFINE floor == Start(d).next
<1>1. CheckpointAt(d, H, lo, hi, b) /\ n \in Nat /\ floor \in Nat /\ floor <= n
  BY FloorFacts DEF Layout, History
<1>2. CASE floor = n
  <2>1. Tip(d) = None
    BY <1>2, TipIs
  <2>2. CASE d.head = None /\ d.checkpoint = None
    BY <1>1, <1>2, <2>2, StartFacts DEF HeadNear, HeadAt
  <2>3. CASE /\ d.head # None /\ d.checkpoint # None
             /\ d.head = [seq |-> d.checkpoint.next - 1, hash |-> d.checkpoint.prev]
    <3>1. Start(d) = d.checkpoint /\ n # 0
      BY <1>1, <1>2, <2>3, StartFacts
    <3>2. PICK r \in H : r.seq = n - 1
      BY <1>1, <3>1 DEF History
    <3>3. r.seq + 1 = n /\ d.checkpoint.prev = r.hash /\ d.checkpoint.next = n
      BY <1>1, <1>2, <3>1, <3>2 DEF CheckpointAt, Place
    <3>4. d.head = Names(r)
      BY <2>3, <3>2, <3>3 DEF Names
    <3> QED BY <1>2, <3>3, <3>4 DEF HeadNear, HeadAt
  <2> QED BY <2>1, <2>2, <2>3 DEF HeadFits
<1>3. CASE floor # n
  <2>1. Newest(d) \in H /\ Newest(d).seq + 1 = n /\ Tip(d) = Names(Newest(d)) /\ Tip(d) # None
    BY <1>3, TipIs
  <2>2. PICK r \in Retained(d) : d.head = Names(r) /\ r.seq + 1 >= Tip(d).seq
    BY <2>1 DEF HeadFits
  <2>3. r \in H /\ r.seq >= floor /\ r.seq \in Nat /\ Newest(d).seq \in Nat
    BY <2>1, RetainedIs, RecordFields DEF History
  <2>4. Tip(d).seq = Newest(d).seq
    BY <2>1 DEF Names
  <2>5. r.seq + 2 >= n
    BY <1>1, <2>1, <2>2, <2>3, <2>4
  <2> QED BY <1>3, <2>2, <2>3, <2>5 DEF HeadNear
<1> QED BY <1>2, <1>3

\* HEAD needs no repair, or it gets the tip.
LEMMA HeadAfterRepair ==
  ASSUME NEW d, NEW H, NEW n, NEW lo, NEW hi, NEW b, History(H, n), Layout(d, H, n, lo, hi, b),
         HeadNear(H, n, d)
  PROVE  IF HeadLags(d) THEN HeadAt(H, n, Tip(d)) ELSE HeadAt(H, n, d.head)
<1>1. CASE Start(d).next = n
  BY <1>1, TipIs DEF HeadLags, HeadNear
<1>2. CASE Start(d).next # n
  BY <1>2, TipIs DEF HeadLags, HeadAt
<1> QED BY <1>1, <1>2

\* A directory with nothing to repair passes the strict walk.
LEMMA StrictWalk ==
  ASSUME NEW d, NEW H, NEW n, NEW lo, NEW hi, NEW b, History(H, n), Layout(d, H, n, lo, hi, b),
         NoneTorn(d), Start(d).next = b[lo], HeadAt(H, n, d.head)
  PROVE  WalkOk(d, "Strict") /\ ~HeadLags(d)
<1>1. TornSegments(d) = {} /\ Stale(d) = {}
  BY StaleIs DEF TornSegments, NoneTorn
<1>2. SegmentsFit(d, "Strict")
  BY <1>1 DEF SegmentsFit
<1> QED BY <1>2, ChainFitsHere, HeadIsFound DEF WalkOk

-----------------------------------------------------------------------------
(* Changes of the directory that keep it laid out.                             *)

\* One segment is changed and nothing else.
LEMMA SetSegmentIs ==
  ASSUME NEW d, NEW H, NEW n, NEW lo, NEW hi, NEW b, Layout(d, H, n, lo, hi, b),
         NEW i \in lo..hi, NEW c, NEW e, e = SetSegment(d, i, c)
  PROVE  /\ e = [head |-> e.head, checkpoint |-> e.checkpoint, segs |-> e.segs]
         /\ e.head = d.head /\ e.checkpoint = d.checkpoint /\ Start(e) = Start(d)
         /\ e.segs = [j \in lo..hi |-> e.segs[j]] /\ e.segs[i] = c
         /\ \A j \in lo..hi : j # i => e.segs[j] = d.segs[j]
<1>1. d = [head |-> d.head, checkpoint |-> d.checkpoint, segs |-> d.segs]
      /\ d.segs = [j \in lo..hi |-> d.segs[j]]
  BY DEF Layout
<1>2. e = [head |-> d.head, checkpoint |-> d.checkpoint, segs |-> [d.segs EXCEPT ![i] = c]]
  BY <1>1 DEF SetSegment
<1>3. e.head = d.head /\ e.checkpoint = d.checkpoint /\ e.segs = [d.segs EXCEPT ![i] = c]
  BY <1>2
<1> QED BY <1>1, <1>2, <1>3 DEF Start

\* HEAD says nothing of the layout.
LEMMA LayoutHead ==
  ASSUME NEW d, NEW H, NEW n, NEW lo, NEW hi, NEW b, Layout(d, H, n, lo, hi, b), NEW h,
         NEW e, e = [d EXCEPT !.head = h]
  PROVE  Layout(e, H, n, lo, hi, b) /\ Start(e) = Start(d) /\ e.head = h /\ e.segs = d.segs
<1>1. e.head = h /\ e.checkpoint = d.checkpoint /\ e.segs = d.segs
      /\ e = [head |-> e.head, checkpoint |-> e.checkpoint, segs |-> e.segs]
  BY DEF Layout
<1>2. Start(e) = Start(d)
  BY <1>1 DEF Start
<1> QED BY <1>1, <1>2 DEF Layout, CheckpointAt

\* Nor does a torn line.
LEMMA LayoutTorn ==
  ASSUME NEW d, NEW H, NEW n, NEW lo, NEW hi, NEW b, Layout(d, H, n, lo, hi, b),
         NEW i \in lo..hi, NEW t \in BOOLEAN, NEW e, e = SetSegment(d, i, [d.segs[i] EXCEPT !.torn = t])
  PROVE  /\ Layout(e, H, n, lo, hi, b) /\ Start(e) = Start(d) /\ e.head = d.head
         /\ e.segs[i].torn = t /\ e.segs[i].len = d.segs[i].len /\ e.segs[i].recs = d.segs[i].recs
         /\ \A j \in lo..hi : j # i => e.segs[j] = d.segs[j]
<1> DEFINE c == [d.segs[i] EXCEPT !.torn = t]
<1>1. /\ e = [head |-> e.head, checkpoint |-> e.checkpoint, segs |-> e.segs]
      /\ e.head = d.head /\ e.checkpoint = d.checkpoint /\ Start(e) = Start(d)
      /\ e.segs = [j \in lo..hi |-> e.segs[j]] /\ e.segs[i] = c
      /\ \A j \in lo..hi : j # i => e.segs[j] = d.segs[j]
  BY SetSegmentIs
<1>2. \A j \in lo..hi : Holds(d.segs[j], H, b[j], b[j + 1])
  BY DEF Layout
<1>3. /\ c = [recs |-> d.segs[i].recs, torn |-> t, len |-> d.segs[i].len]
      /\ c.torn = t /\ c.len = d.segs[i].len /\ c.recs = d.segs[i].recs
  <2> DEFINE s == d.segs[i]
  <2>1. s = [recs |-> s.recs, torn |-> s.torn, len |-> s.len]
    BY <1>2 DEF Holds
  <2> HIDE DEF s
  <2>2. [s EXCEPT !.torn = t] = [recs |-> s.recs, torn |-> t, len |-> s.len]
    BY <2>1
  <2> QED BY <2>2 DEF s
<1>4. Holds(c, H, b[i], b[i + 1])
  BY <1>2, <1>3 DEF Holds
<1> HIDE DEF c
<1>5. \A j \in lo..hi : Holds(e.segs[j], H, b[j], b[j + 1])
  BY <1>1, <1>2, <1>4
<1>6. CheckpointAt(e, H, lo, hi, b)
  BY <1>1 DEF Layout, CheckpointAt
<1>7. Layout(e, H, n, lo, hi, b)
  BY <1>1, <1>5, <1>6 DEF Layout
<1> QED BY <1>1, <1>3, <1>7

\* The segments of a directory that names an empty one more.
AddedTo(n, lo, hi, b) == [i \in lo..(hi + 2) |-> IF i = hi + 2 THEN n ELSE b[i]]

\* rotate: a new, empty segment at the end.
LEMMA LayoutAdd ==
  ASSUME NEW d, NEW H, NEW n, NEW lo, NEW hi, NEW b, Layout(d, H, n, lo, hi, b),
         hi < lo \/ b[hi] < n, NEW k, k = hi + 1, NEW e, e = AddSegment(d, k)
  PROVE  /\ Layout(e, H, n, lo, k, AddedTo(n, lo, hi, b))
         /\ Start(e) = Start(d) /\ e.head = d.head /\ e.segs[k] = Empty
         /\ \A i \in lo..hi : e.segs[i] = d.segs[i]
         /\ \A i \in lo..k : AddedTo(n, lo, hi, b)[i] = b[i]
         /\ AddedTo(n, lo, hi, b)[k + 1] = n
<1> DEFINE c == AddedTo(n, lo, hi, b)
<1>1. /\ Cuts(n, lo, hi, b) /\ d.segs = [i \in lo..hi |-> d.segs[i]] /\ lo \in Nat \ {0} /\ hi \in Nat
      /\ d = [head |-> d.head, checkpoint |-> d.checkpoint, segs |-> d.segs]
      /\ lo <= hi + 1 /\ b[hi + 1] = n /\ n \in Nat /\ b \in [lo..(hi + 1) -> Nat]
  BY CutsFacts DEF Layout, Cuts
<1>2. /\ e.head = d.head /\ e.checkpoint = d.checkpoint
      /\ e.segs = [j \in (lo..hi) \cup {hi + 1} |-> IF j = hi + 1 THEN Empty ELSE d.segs[j]]
      /\ e = [head |-> e.head, checkpoint |-> e.checkpoint, segs |-> e.segs]
  BY <1>1 DEF AddSegment
<1>3. (lo..hi) \cup {hi + 1} = lo..(hi + 1) /\ hi + 1 \in lo..(hi + 1) /\ hi + 1 \notin lo..hi
  BY <1>1
<1>4. /\ e.segs = [j \in lo..(hi + 1) |-> e.segs[j]] /\ e.segs[hi + 1] = Empty
      /\ \A i \in lo..hi : e.segs[i] = d.segs[i]
  BY <1>2, <1>3
<1>5. c[hi + 2] = n /\ \A i \in lo..(hi + 1) : c[i] = b[i] /\ i + 1 \in lo..(hi + 2)
  BY <1>1 DEF AddedTo
<1>6. c \in [lo..(hi + 2) -> Nat] /\ (hi + 1) + 1 = hi + 2
  BY <1>1 DEF AddedTo
<1>7. Cuts(n, lo, hi + 1, c)
  <2>1. \A i \in lo..(hi + 1), j \in lo..(hi + 2) : i < j => c[i] <= c[j] /\ (j <= hi + 1 => c[i] < c[j])
    <3> SUFFICES ASSUME NEW i \in lo..(hi + 1), NEW j \in lo..(hi + 2), i < j
                 PROVE  c[i] <= c[j] /\ (j <= hi + 1 => c[i] < c[j])
      OBVIOUS
    <3>1. c[i] = b[i] /\ b[i] \in Nat /\ b[i] <= n
      <4>1. CASE i = hi + 1
        BY <1>1, <1>5, <4>1
      <4>2. CASE i # hi + 1
        <5>1. i \in lo..hi /\ i < hi + 1 /\ hi + 1 \in lo..(hi + 1)
          BY <1>1, <4>2
        <5> QED BY <1>1, <1>5, <5>1 DEF Cuts
      <4> QED BY <4>1, <4>2
    <3>2. CASE j = hi + 2
      BY <1>1, <1>5, <3>1, <3>2
    <3>3. CASE j = hi + 1
      <4>1. i \in lo..hi /\ hi \in lo..hi /\ c[j] = n /\ hi \in lo..(hi + 1)
        BY <1>1, <1>5, <3>3
      <4>2. i < hi => b[i] < b[hi]
        BY <1>1, <4>1 DEF Cuts
      <4>3. b[hi] \in Nat /\ b[hi] < n
        BY <1>1, <4>1
      <4> QED BY <1>1, <3>1, <4>1, <4>2, <4>3
    <3>4. CASE j <= hi
      <4>1. i \in lo..hi /\ j \in lo..(hi + 1)
        BY <1>1, <3>4
      <4>2. b[i] < b[j] /\ b[j] \in Nat
        BY <1>1, <3>4, <4>1 DEF Cuts
      <4> QED BY <1>5, <3>1, <4>1, <4>2
    <3> QED BY <1>1, <3>2, <3>3, <3>4
  <2>2. \A s \in c[lo]..(n - 1) : \E i \in lo..(hi + 1) : c[i] <= s /\ s < c[i + 1]
    <3> SUFFICES ASSUME NEW s \in c[lo]..(n - 1) PROVE \E i \in lo..(hi + 1) : c[i] <= s /\ s < c[i + 1]
      OBVIOUS
    <3>1. c[lo] = b[lo]
      BY <1>1, <1>5
    <3>2. PICK i \in lo..hi : b[i] <= s /\ s < b[i + 1]
      BY <1>1, <3>1 DEF Cuts
    <3>3. i \in lo..(hi + 1) /\ i + 1 \in lo..(hi + 1)
      BY <1>1
    <3> QED BY <1>5, <3>2, <3>3
  <2>3. lo <= (hi + 1) + 1 /\ ~(hi + 1 < lo)
    BY <1>1
  <2> HIDE DEF c
  <2> QED BY <1>1, <1>5, <1>6, <2>1, <2>2, <2>3 DEF Cuts
<1>8. \A i \in lo..(hi + 1) : Holds(e.segs[i], H, c[i], c[i + 1])
  <2> SUFFICES ASSUME NEW i \in lo..(hi + 1) PROVE Holds(e.segs[i], H, c[i], c[i + 1])
    OBVIOUS
  <2>1. CASE i = hi + 1
    <3>1. c[i] = n /\ c[i + 1] = n /\ e.segs[i] = Empty
      BY <1>1, <1>3, <1>4, <1>5, <1>6, <2>1
    <3>2. Empty = [recs |-> Empty.recs, torn |-> Empty.torn, len |-> Empty.len]
          /\ Empty.recs = <<>> /\ Empty.torn = FALSE /\ Empty.len = 0
      BY DEF Empty
    <3>3. <<>> \in Seq(Records) /\ Len(<<>>) = 0
      BY EmptySeq
    <3>4. Len(Empty.recs) = n - n /\ 1..Len(Empty.recs) = {} /\ Empty.recs \in Seq(Records)
      BY <1>1, <3>2, <3>3
    <3>5. Empty.torn \in BOOLEAN /\ Empty.len \in Nat /\ (Empty.len = 0 <=> Empty.recs = <<>>)
      BY DEF Empty
    <3>6. \A j \in 1..Len(Empty.recs) : Empty.recs[j] \in H /\ Empty.recs[j].seq = n + j - 1
      BY <3>4
    <3>7. Empty = [recs |-> Empty.recs, torn |-> Empty.torn, len |-> Empty.len]
      BY <3>2
    <3> QED BY <3>1, <3>4, <3>5, <3>6, <3>7 DEF Holds
  <2>2. CASE i # hi + 1
    <3>1. i \in lo..hi /\ i + 1 \in lo..(hi + 1)
      BY <1>1, <2>2
    <3>2. c[i] = b[i] /\ c[i + 1] = b[i + 1] /\ e.segs[i] = d.segs[i]
      BY <1>4, <1>5, <3>1
    <3> QED BY <3>1, <3>2 DEF Layout
  <2> QED BY <2>1, <2>2
<1>9. CheckpointAt(e, H, lo, hi + 1, c) /\ Start(e) = Start(d)
  <2>1. Start(e) = Start(d)
    BY <1>2 DEF Start
  <2>2. lo < hi => lo + 1 \in lo..(hi + 1) /\ lo < hi + 1
    BY <1>1
  <2>3. c[lo] = b[lo] /\ (lo < hi => c[lo + 1] = b[lo + 1])
    BY <1>1, <1>5, <2>2
  <2> QED BY <1>2, <2>1, <2>2, <2>3 DEF Layout, CheckpointAt
<1> HIDE DEF c
<1>10. Layout(e, H, n, lo, hi + 1, c)
  BY <1>2, <1>4, <1>7, <1>8, <1>9 DEF Layout
<1>11. Layout(e, H, n, lo, k, c) /\ e.segs[k] = Empty /\ (\A i \in lo..k : c[i] = b[i])
  BY <1>4, <1>5, <1>10
<1>12. c[k + 1] = n
  BY <1>1, <1>5
<1> QED BY <1>2, <1>4, <1>9, <1>11, <1>12 DEF c

\* The segments of a directory without its first one.
Behind(lo, hi, b) == [i \in (lo + 1)..(hi + 1) |-> b[i]]

\* prune_oldest and recovery: the first segment, behind the checkpoint, is removed.
LEMMA LayoutDrop ==
  ASSUME NEW d, NEW H, NEW n, NEW lo, NEW hi, NEW b, Layout(d, H, n, lo, hi, b),
         Start(d).next # b[lo], NEW e, e = DropSegment(d, lo)
  PROVE  /\ Layout(e, H, n, lo + 1, hi, Behind(lo, hi, b)) /\ lo < hi
         /\ Start(e) = Start(d) /\ e.head = d.head
         /\ Start(e).next = Behind(lo, hi, b)[lo + 1]
         /\ \A i \in (lo + 1)..hi : e.segs[i] = d.segs[i]
         /\ \A i \in (lo + 1)..(hi + 1) : Behind(lo, hi, b)[i] = b[i]
<1> DEFINE c == Behind(lo, hi, b)
<1>1. /\ Cuts(n, lo, hi, b) /\ d.segs = [i \in lo..hi |-> d.segs[i]] /\ lo \in Nat \ {0} /\ hi \in Nat
      /\ d = [head |-> d.head, checkpoint |-> d.checkpoint, segs |-> d.segs]
      /\ b[hi + 1] = n /\ n \in Nat /\ b \in [lo..(hi + 1) -> Nat]
  BY CutsFacts DEF Layout, Cuts
<1>2. lo < hi /\ Start(d).next = b[lo + 1] /\ b[lo] < b[lo + 1]
  BY FloorFacts
<1>3. /\ e.head = d.head /\ e.checkpoint = d.checkpoint
      /\ e.segs = [j \in (lo..hi) \ {lo} |-> d.segs[j]]
      /\ e = [head |-> e.head, checkpoint |-> e.checkpoint, segs |-> e.segs]
  BY <1>1 DEF DropSegment
<1>4. (lo..hi) \ {lo} = (lo + 1)..hi
  BY <1>1
<1>5. e.segs = [j \in (lo + 1)..hi |-> e.segs[j]] /\ \A i \in (lo + 1)..hi : e.segs[i] = d.segs[i]
  BY <1>3, <1>4
<1>6. \A i \in (lo + 1)..(hi + 1) : c[i] = b[i] /\ i \in lo..(hi + 1)
  BY <1>1 DEF Behind
<1>7. c \in [(lo + 1)..(hi + 1) -> Nat] /\ c[hi + 1] = n /\ c[lo + 1] = b[lo + 1]
  <2>1. hi + 1 \in (lo + 1)..(hi + 1) /\ lo + 1 \in (lo + 1)..(hi + 1)
    BY <1>1, <1>2
  <2> QED BY <1>1, <1>6, <2>1 DEF Behind
<1>8. \A i \in (lo + 1)..hi : i \in lo..hi /\ c[i] = b[i] /\ c[i + 1] = b[i + 1]
  <2> SUFFICES ASSUME NEW i \in (lo + 1)..hi PROVE i \in lo..hi /\ c[i] = b[i] /\ c[i + 1] = b[i + 1]
    OBVIOUS
  <2>1. i \in (lo + 1)..(hi + 1) /\ i + 1 \in (lo + 1)..(hi + 1) /\ i \in lo..hi
    BY <1>1
  <2> QED BY <1>6, <2>1
<1>9. Cuts(n, lo + 1, hi, c)
  <2>1. \A i \in (lo + 1)..hi, j \in (lo + 1)..(hi + 1) : i < j => c[i] <= c[j] /\ (j <= hi => c[i] < c[j])
    BY <1>1, <1>6, <1>8 DEF Cuts
  <2>2. \A s \in c[lo + 1]..(n - 1) : \E i \in (lo + 1)..hi : c[i] <= s /\ s < c[i + 1]
    <3> SUFFICES ASSUME NEW s \in b[lo + 1]..(n - 1) PROVE \E i \in (lo + 1)..hi : c[i] <= s /\ s < c[i + 1]
      BY <1>7
    <3>1. lo \in lo..hi /\ b[lo] \in Nat /\ b[lo + 1] \in Nat
      BY <1>1, <1>2, CutsFacts
    <3>2. s \in b[lo]..(n - 1) /\ s >= b[lo + 1]
      BY <1>1, <1>2, <3>1
    <3>3. PICK i \in lo..hi : b[i] <= s /\ s < b[i + 1]
      BY <1>1, <3>2 DEF Cuts
    <3>4. i # lo
      BY <3>1, <3>2, <3>3
    <3>5. i \in (lo + 1)..hi
      BY <1>1, <3>4
    <3> QED BY <1>8, <3>3, <3>5
  <2>3. lo + 1 \in Nat \ {0} /\ lo + 1 <= hi + 1 /\ ~(hi < lo + 1)
    BY <1>1, <1>2
  <2> HIDE DEF c
  <2> QED BY <1>1, <1>7, <2>1, <2>2, <2>3 DEF Cuts
<1>10. \A i \in (lo + 1)..hi : Holds(e.segs[i], H, c[i], c[i + 1])
  BY <1>5, <1>8 DEF Layout
<1>11. Start(e) = Start(d) /\ CheckpointAt(e, H, lo + 1, hi, c)
  <2>1. Start(e) = Start(d)
    BY <1>3 DEF Start
  <2> HIDE DEF c
  <2> QED BY <1>2, <1>3, <1>7, <2>1 DEF Layout, CheckpointAt
<1> HIDE DEF c
<1>12. Layout(e, H, n, lo + 1, hi, c)
  BY <1>3, <1>5, <1>9, <1>10, <1>11 DEF Layout
<1> QED BY <1>2, <1>3, <1>5, <1>6, <1>7, <1>11, <1>12 DEF c

\* The checkpoint that prune writes for the first segment.
LEMMA LayoutCheckpoint ==
  ASSUME NEW d, NEW H, NEW n, NEW lo, NEW hi, NEW b, History(H, n), Layout(d, H, n, lo, hi, b),
         lo < hi, Start(d).next = b[lo],
         NEW e, e = [d EXCEPT !.checkpoint = CheckpointAfter(d, d.segs[lo].recs)]
  PROVE  /\ Layout(e, H, n, lo, hi, b) /\ Start(e).next = b[lo + 1] /\ b[lo] < b[lo + 1]
         /\ e.head = d.head /\ e.segs = d.segs
         /\ \E r \in ToSet(d.segs[lo].recs) : r.seq >= Start(d).next
<1> DEFINE recs == d.segs[lo].recs
           c == CheckpointAfter(d, recs)
           m == b[lo + 1]
<1>1. /\ Cuts(n, lo, hi, b) /\ lo \in lo..hi /\ b[lo] \in Nat /\ m \in Nat /\ b[lo] < m /\ m <= n
  <2>1. Cuts(n, lo, hi, b)
    BY DEF Layout
  <2>2. lo \in lo..hi
    BY <2>1, CutsFacts
  <2> QED BY <2>1, <2>2, CutsFacts
<1>2. /\ Len(recs) \in Nat /\ Len(recs) = m - b[lo] /\ DOMAIN recs = 1..Len(recs)
      /\ \A k \in 1..Len(recs) : recs[k] \in H /\ recs[k].seq = b[lo] + k - 1
  <2>1. lo \in lo..hi
    BY <1>1
  <2> QED BY <2>1, RecordAt
<1> DEFINE z == recs[Len(recs)]
<1>3. Len(recs) \in 1..Len(recs)
  BY <1>1, <1>2
<1>4. z \in H /\ z.seq + 1 = m /\ z \in ToSet(recs) /\ z.seq >= b[lo]
  <2>1. z \in H /\ z.seq = b[lo] + Len(recs) - 1 /\ z \in ToSet(recs)
    BY <1>2, <1>3 DEF ToSet
  <2>2. b[lo] + Len(recs) - 1 + 1 = m /\ b[lo] + Len(recs) - 1 >= b[lo]
    <3> HIDE DEF recs, m
    <3> QED BY <1>1, <1>2
  <2> HIDE DEF z, recs
  <2> QED BY <2>1, <2>2
<1>5. {r \in ToSet(recs) : r.seq >= b[lo]} = {r \in Retained(d) : r.seq < m}
  <2>1. ASSUME NEW r \in ToSet(recs) PROVE r \in Retained(d) /\ r.seq < m
    <3>1. PICK k \in 1..Len(recs) : r = recs[k]
      BY <1>2 DEF ToSet
    <3>2. r \in H /\ r.seq = b[lo] + k - 1
      BY <1>2, <3>1
    <3>3. r.seq >= b[lo] /\ r.seq < m
      BY <1>1, <1>2, <3>2
    <3> QED BY <3>2, <3>3, RetainedIs
  <2>2. ASSUME NEW r \in Retained(d), r.seq < m PROVE r \in ToSet(recs) /\ r.seq >= b[lo]
    <3>1. r \in H /\ r.seq >= b[lo] /\ r.seq \in Nat
      BY RetainedIs, RecordFields DEF History
    <3> DEFINE k == r.seq - b[lo] + 1
    <3>2. k \in 1..Len(recs)
      BY <1>1, <1>2, <2>2, <3>1
    <3>3. recs[k] \in H /\ recs[k].seq = b[lo] + k - 1 /\ recs[k] \in ToSet(recs)
      BY <1>2, <3>2 DEF ToSet
    <3>4. recs[k].seq = r.seq
      <4>1. k = r.seq - b[lo] + 1
        OBVIOUS
      <4> HIDE DEF k
      <4> QED BY <1>1, <3>1, <3>3, <4>1
    <3>5. recs[k] = r
      BY <3>1, <3>3, <3>4 DEF History
    <3> QED BY <3>1, <3>3, <3>5
  <2>3. \A r \in ToSet(recs) : r.seq >= b[lo]
    <3> SUFFICES ASSUME NEW r \in ToSet(recs) PROVE r.seq >= b[lo]
      OBVIOUS
    <3> QED BY <2>1, RetainedIs
  <2> QED BY <2>1, <2>2, <2>3
<1>6. OpenAfter(d, {r \in ToSet(recs) : r.seq >= Start(d).next}) = OpenIn(H, m)
  <2>1. Start(d).next <= m
    BY <1>1
  <2> QED BY <1>1, <1>5, <2>1, OpenIs
<1>7. c = [next |-> m, prev |-> z.hash, ts |-> z.ts, open |-> OpenIn(H, m)]
  BY <1>4, <1>6 DEF CheckpointAfter, Last
<1>8. z.hash \in Nat /\ z.ts \in Nat
  BY <1>4, RecordFields DEF History
<1>9. OpenIn(H, m) \in SUBSET Nat
  BY RecordFields DEF OpenIn, History
<1>10. c \in Checkpoints
  BY <1>1, <1>7, <1>8, <1>9 DEF Checkpoints
<1>11. c # None
  BY <1>10, NoneAssumption DEF NoneAssumption, Checkpoints
<1>12. Place(H, m, c)
  <2>1. \A r \in H : r.seq + 1 = m => r = z
    <3> SUFFICES ASSUME NEW r \in H, r.seq + 1 = m PROVE r = z
      OBVIOUS
    <3>1. r.seq \in Nat /\ z.seq \in Nat
      BY <1>4, RecordFields DEF History
    <3>2. r.seq = z.seq
      BY <1>4, <3>1
    <3> QED BY <1>4, <3>2 DEF History
  <2>2. m # 0 /\ c.next = m /\ c.prev = z.hash /\ c.ts = z.ts /\ c.open = OpenIn(H, m)
    BY <1>1, <1>7
  <2> QED BY <2>1, <2>2 DEF Place
<1> HIDE DEF c
<1>13. /\ e = [head |-> d.head, checkpoint |-> c, segs |-> d.segs]
       /\ e.head = d.head /\ e.checkpoint = c /\ e.segs = d.segs
  BY DEF Layout, c
<1>14. Start(e) = c /\ c.next = m
  BY <1>7, <1>11, <1>13 DEF Start, c
<1>15. CheckpointAt(e, H, lo, hi, b)
  BY <1>10, <1>12, <1>13, <1>14 DEF CheckpointAt
<1>16. Layout(e, H, n, lo, hi, b)
  BY <1>13, <1>15 DEF Layout
<1> QED BY <1>1, <1>4, <1>13, <1>14, <1>16

\* The segments when the last filled one, i, ends before m.
Moved(m, i, lo, hi, b) == [j \in lo..(hi + 1) |-> IF j <= i THEN b[j] ELSE m]

\* Moving the end of the log keeps the cuts in order.
LEMMA MovedFacts ==
  ASSUME NEW n, NEW lo, NEW hi, NEW b, Cuts(n, lo, hi, b), NEW i \in lo..hi, NEW m \in Nat,
         b[i + 1] = n, b[i] <= m, i = hi \/ (i + 1 = hi /\ b[i] < m)
  PROVE  /\ Cuts(m, lo, hi, Moved(m, i, lo, hi, b))
         /\ \A j \in lo..i : Moved(m, i, lo, hi, b)[j] = b[j]
         /\ Moved(m, i, lo, hi, b)[i + 1] = m /\ Moved(m, i, lo, hi, b)[hi + 1] = m
         /\ i # hi => Moved(m, i, lo, hi, b)[hi] = m /\ b[hi] = n
<1> DEFINE c == Moved(m, i, lo, hi, b)
<1>1. /\ lo \in Nat \ {0} /\ hi \in Nat /\ i \in Nat /\ lo <= hi + 1 /\ (hi < lo => hi = 0)
      /\ b \in [lo..(hi + 1) -> Nat] /\ b[hi + 1] = n /\ n \in Nat
  BY CutsFacts DEF Cuts
<1>2. \A j \in lo..(hi + 1) : (j <= i => c[j] = b[j]) /\ (~(j <= i) => c[j] = m)
  BY DEF Moved
<1>3. c \in [lo..(hi + 1) -> Nat]
  <2>1. \A j \in lo..(hi + 1) : b[j] \in Nat
    BY <1>1
  <2> QED BY <2>1 DEF Moved
<1>4. \A j \in lo..i : c[j] = b[j] /\ j \in lo..(hi + 1) /\ j <= i
  BY <1>1, <1>2
<1>5. c[i + 1] = m /\ c[hi + 1] = m /\ (i # hi => c[hi] = m /\ b[hi] = n)
  <2>1. i + 1 \in lo..(hi + 1) /\ hi + 1 \in lo..(hi + 1) /\ hi \in lo..(hi + 1)
        /\ ~(i + 1 <= i) /\ ~(hi + 1 <= i) /\ (i # hi => ~(hi <= i))
    BY <1>1
  <2> HIDE DEF c
  <2> QED BY <1>1, <1>2, <2>1
<1>6. i \in lo..i /\ b[i] \in Nat /\ c[i] = b[i]
  BY <1>1, <1>4
<1> HIDE DEF c
<1>7. \A j \in lo..hi, k \in lo..(hi + 1) : j < k => c[j] <= c[k] /\ (k <= hi => c[j] < c[k])
  <2> SUFFICES ASSUME NEW j \in lo..hi, NEW k \in lo..(hi + 1), j < k
               PROVE  c[j] <= c[k] /\ (k <= hi => c[j] < c[k])
    OBVIOUS
  <2>1. CASE k <= i
    <3>1. j \in lo..i /\ k \in lo..i
      BY <1>1, <2>1
    <3>2. b[j] <= b[k] /\ (k <= hi => b[j] < b[k])
      BY DEF Cuts
    <3> QED BY <1>4, <3>1, <3>2
  <2>2. CASE ~(k <= i) /\ j <= i
    <3>1. c[k] = m /\ c[j] = b[j] /\ j \in lo..i
      BY <1>1, <1>2, <2>2
    <3>2. b[j] <= b[i]
      <4>1. CASE j = i
        BY <1>6, <4>1
      <4>2. CASE j # i
        <5>1. j < i /\ i \in lo..(hi + 1)
          BY <1>1, <2>2, <4>2
        <5> QED BY <5>1 DEF Cuts
      <4> QED BY <4>1, <4>2
    <3>3. b[j] \in Nat
      BY <1>1, <3>1
    <3>4. k <= hi => b[i] < m
      BY <1>1, <2>2
    <3> QED BY <1>6, <3>1, <3>2, <3>3, <3>4
  <2>3. CASE ~(k <= i) /\ ~(j <= i)
    <3>1. c[k] = m /\ c[j] = m /\ ~(k <= hi)
      BY <1>1, <1>2, <2>3
    <3> QED BY <3>1
  <2> QED BY <2>1, <2>2, <2>3
<1>8. \A s \in c[lo]..(m - 1) : \E j \in lo..hi : c[j] <= s /\ s < c[j + 1]
  <2> SUFFICES ASSUME NEW s \in c[lo]..(m - 1) PROVE \E j \in lo..hi : c[j] <= s /\ s < c[j + 1]
    OBVIOUS
  <2>1. c[lo] = b[lo] /\ b[lo] \in Nat /\ s \in Nat
    <3>1. lo \in lo..i /\ lo \in lo..(hi + 1)
      BY <1>1
    <3>2. c[lo] = b[lo] /\ b[lo] \in Nat
      BY <1>1, <1>4, <3>1
    <3> QED BY <3>2
  <2>2. CASE b[i] <= s
    <3>1. c[i] <= s /\ s < c[i + 1]
      BY <1>5, <1>6, <2>1, <2>2
    <3> QED BY <3>1
  <2>3. CASE ~(b[i] <= s)
    <3>1. b[i] <= n
      BY CutsFacts
    <3>2. s \in b[lo]..(n - 1)
      BY <1>1, <1>6, <2>1, <2>3, <3>1
    <3>3. PICK j \in lo..hi : b[j] <= s /\ s < b[j + 1]
      BY <3>2 DEF Cuts
    <3>4. j < i
      <4> SUFFICES ASSUME ~(j < i) PROVE FALSE
        OBVIOUS
      <4>1. b[j] \in Nat /\ j \in Nat
        BY CutsFacts
      <4>2. j # i
        BY <2>3, <3>3
      <4>3. i < j /\ j \in lo..(hi + 1)
        BY <1>1, <4>1, <4>2
      <4>4. b[i] <= b[j]
        BY <4>3 DEF Cuts
      <4> QED BY <1>6, <2>1, <2>3, <3>3, <4>1, <4>4
    <3>5. j \in lo..i /\ j + 1 \in lo..i
      BY <1>1, <3>4
    <3> QED BY <1>4, <3>3, <3>5
  <2> QED BY <2>2, <2>3
<1>9. Cuts(m, lo, hi, c)
  BY <1>1, <1>3, <1>5, <1>7, <1>8 DEF Cuts
<1> QED BY <1>4, <1>5, <1>9 DEF c

\* A segment with a line more.
LEMMA LineAppended ==
  ASSUME NEW s, s = [recs |-> s.recs, torn |-> s.torn, len |-> s.len], NEW r
  PROVE  [s EXCEPT !.recs = Append(@, r), !.len = @ + r.size]
           = [recs |-> Append(s.recs, r), torn |-> s.torn, len |-> s.len + r.size]
<1> DEFINE a == Append(s.recs, r)
           z == s.len + r.size
           u == [s EXCEPT !.recs = a]
<1>1. [s EXCEPT !.recs = Append(@, r), !.len = @ + r.size] = [u EXCEPT !.len = z]
  OBVIOUS
<1> HIDE DEF a, z
<1>2. u = [recs |-> a, torn |-> s.torn, len |-> s.len]
  OBVIOUS
<1>3. u.recs = a /\ u.torn = s.torn /\ u = [recs |-> u.recs, torn |-> u.torn, len |-> u.len]
  BY <1>2
<1> HIDE DEF u
<1>4. [u EXCEPT !.len = z] = [recs |-> u.recs, torn |-> u.torn, len |-> z]
  BY <1>3
<1> QED BY <1>1, <1>3, <1>4 DEF a, z

\* Segment i, the last filled one, may hold what c holds, up to record m.
CanMove(d, H, n, lo, hi, b, i, G, m, c) ==
  /\ History(H, n) /\ Layout(d, H, n, lo, hi, b) /\ Start(d).next = b[lo]
  /\ i \in lo..hi /\ b[i + 1] = n /\ m \in Nat /\ b[i] <= m
  /\ i = hi \/ (i + 1 = hi /\ b[i] < m)
  /\ Holds(c, G, b[i], m) /\ Place(G, b[lo], Start(d))
  /\ \A r \in H : r.seq < b[i] => r \in G

\* A line is written to the last filled segment, or cut off it.
LEMMA LayoutMoved ==
  ASSUME NEW d, NEW H, NEW n, NEW lo, NEW hi, NEW b, NEW i, NEW G, NEW m, NEW c,
         CanMove(d, H, n, lo, hi, b, i, G, m, c), NEW e, e = SetSegment(d, i, c)
  PROVE  /\ Layout(e, G, m, lo, hi, Moved(m, i, lo, hi, b))
         /\ Start(e) = Start(d) /\ e.head = d.head /\ e.segs[i] = c
         /\ \A j \in lo..hi : j # i => e.segs[j] = d.segs[j]
         /\ Start(e).next = Moved(m, i, lo, hi, b)[lo] /\ Moved(m, i, lo, hi, b)[i] = b[i]
<1> DEFINE x == Moved(m, i, lo, hi, b)
<1>0. /\ History(H, n) /\ Layout(d, H, n, lo, hi, b) /\ Start(d).next = b[lo]
      /\ i \in lo..hi /\ b[i + 1] = n /\ m \in Nat /\ b[i] <= m
      /\ i = hi \/ (i + 1 = hi /\ b[i] < m)
      /\ Holds(c, G, b[i], m) /\ Place(G, b[lo], Start(d))
      /\ \A r \in H : r.seq < b[i] => r \in G
  BY DEF CanMove
<1>1. Cuts(n, lo, hi, b) /\ \A j \in lo..hi : Holds(d.segs[j], H, b[j], b[j + 1])
  BY <1>0 DEF Layout
<1>2. /\ lo \in Nat \ {0} /\ hi \in Nat /\ i \in Nat /\ n \in Nat /\ b[i] \in Nat
  BY <1>0, <1>1, CutsFacts
<1>3. /\ Cuts(m, lo, hi, x) /\ \A j \in lo..i : x[j] = b[j]
      /\ x[i + 1] = m /\ x[hi + 1] = m /\ (i # hi => x[hi] = m /\ b[hi] = n)
  BY <1>0, <1>1, MovedFacts
<1>4. /\ e = [head |-> e.head, checkpoint |-> e.checkpoint, segs |-> e.segs]
      /\ e.head = d.head /\ e.checkpoint = d.checkpoint /\ Start(e) = Start(d)
      /\ e.segs = [j \in lo..hi |-> e.segs[j]] /\ e.segs[i] = c
      /\ \A j \in lo..hi : j # i => e.segs[j] = d.segs[j]
  BY <1>0, SetSegmentIs
<1> HIDE DEF x
<1>5. x[i] = b[i] /\ x[lo] = b[lo]
  <2>1. i \in lo..i /\ lo \in lo..i
    BY <1>0, <1>2
  <2> QED BY <1>3, <2>1
<1>6. ASSUME NEW j \in lo..hi PROVE Holds(e.segs[j], G, x[j], x[j + 1])
  <2>1. j \in Nat /\ b[j] \in Nat /\ b[j + 1] \in Nat /\ Holds(d.segs[j], H, b[j], b[j + 1])
    BY <1>0, <1>1, CutsFacts
  <2>2. CASE j = i
    BY <1>0, <1>3, <1>4, <1>5, <2>2
  <2>3. CASE j < i
    <3>1. j \in lo..i /\ j + 1 \in lo..i /\ j # i
      BY <1>2, <2>1, <2>3
    <3>2. x[j] = b[j] /\ x[j + 1] = b[j + 1] /\ e.segs[j] = d.segs[j]
      BY <1>3, <1>4, <3>1
    <3>3. b[j + 1] <= b[i]
      <4>1. CASE j + 1 = i
        BY <1>2, <4>1
      <4>2. CASE j + 1 # i
        <5>1. j + 1 < i /\ j + 1 \in lo..hi /\ i \in lo..(hi + 1)
          BY <1>0, <1>2, <2>1, <2>3, <4>2
        <5> QED BY <1>1, <5>1 DEF Cuts
      <4> QED BY <4>1, <4>2
    <3> DEFINE recs == d.segs[j].recs
    <3>4. /\ Len(recs) = b[j + 1] - b[j] /\ Len(recs) \in Nat
          /\ \A k \in 1..Len(recs) : recs[k] \in H /\ recs[k].seq = b[j] + k - 1
      BY <1>0, RecordAt
    <3>5. \A k \in 1..Len(recs) : recs[k] \in G
      <4> SUFFICES ASSUME NEW k \in 1..Len(recs) PROVE recs[k] \in G
        OBVIOUS
      <4> DEFINE r == recs[k]
      <4>1. r \in H /\ r.seq = b[j] + k - 1
        BY <3>4
      <4>2. b[j] + k - 1 < b[i]
        <5> HIDE DEF recs
        <5> QED BY <1>2, <2>1, <3>3, <3>4
      <4> HIDE DEF r
      <4>3. r.seq < b[i]
        BY <4>1, <4>2
      <4>4. r \in G
        BY <1>0, <4>1, <4>3
      <4> QED BY <4>4 DEF r
    <3>6. Holds(d.segs[j], G, b[j], b[j + 1])
      BY <2>1, <3>5 DEF Holds
    <3> QED BY <3>2, <3>6
  <2>4. CASE i < j
    <3>1. j = hi /\ i # hi /\ j # i
      BY <1>0, <1>2, <2>1, <2>4
    <3>2. x[j] = m /\ x[j + 1] = m /\ b[j] = n /\ b[j + 1] = n /\ e.segs[j] = d.segs[j]
      BY <1>0, <1>1, <1>3, <1>4, <3>1 DEF Cuts
    <3> DEFINE recs == d.segs[j].recs
    <3>3. Holds(d.segs[j], H, n, n)
      BY <2>1, <3>2
    <3>4. Len(recs) = m - m /\ 1..Len(recs) = {}
      <4>1. Len(recs) = n - n
        BY <3>3 DEF Holds
      <4> HIDE DEF recs
      <4> QED BY <1>0, <1>2, <4>1
    <3>5. Holds(d.segs[j], G, m, m)
      BY <3>3, <3>4 DEF Holds
    <3> QED BY <3>2, <3>5
  <2> QED BY <1>2, <2>1, <2>2, <2>3, <2>4
<1>7. CheckpointAt(e, G, lo, hi, x)
  BY <1>0, <1>4, <1>5 DEF Layout, CheckpointAt
<1>8. Layout(e, G, m, lo, hi, x)
  BY <1>3, <1>4, <1>6, <1>7 DEF Layout
<1> QED BY <1>0, <1>4, <1>5, <1>8 DEF x

\* Segment s with the line of record r.
Lined(s, r) == [recs |-> Append(s.recs, r), torn |-> s.torn, len |-> s.len + r.size]

\* A line more at the end.
LEMMA LayoutGrows ==
  ASSUME NEW d, NEW H, NEW n, NEW lo, NEW hi, NEW b, History(H, n), Layout(d, H, n, lo, hi, b),
         Start(d).next = b[lo], NEW i \in lo..hi, b[i + 1] = n, i = hi \/ i + 1 = hi,
         NEW r \in Records, r.seq = n,
         NEW e, e = SetSegment(d, i, Lined(d.segs[i], r))
  PROVE  /\ Layout(e, H \cup {r}, n + 1, lo, hi, Moved(n + 1, i, lo, hi, b))
         /\ Start(e) = Start(d) /\ e.head = d.head
         /\ e.segs[i].len = d.segs[i].len + r.size /\ e.segs[i].torn = d.segs[i].torn
         /\ \A j \in lo..hi : j # i => e.segs[j] = d.segs[j]
         /\ Start(e).next = Moved(n + 1, i, lo, hi, b)[lo] /\ Moved(n + 1, i, lo, hi, b)[i] = b[i]
<1> DEFINE s == d.segs[i]
           G == H \cup {r}
           c == Lined(s, r)
<1>1. Cuts(n, lo, hi, b) /\ Holds(s, H, b[i], b[i + 1])
  BY DEF Layout
<1>2. /\ n \in Nat /\ hi \in Nat /\ i \in Nat /\ b[i] \in Nat /\ b[i] <= n /\ b[lo] \in Nat /\ b[lo] <= n
      /\ r.size \in Nat \ {0} /\ H \subseteq Records
  BY <1>1, CutsFacts, RecordFields DEF History
<1> HIDE DEF s
<1>3. /\ s = [recs |-> s.recs, torn |-> s.torn, len |-> s.len] /\ s.torn \in BOOLEAN /\ s.len \in Nat
      /\ s.recs \in Seq(Records) /\ Len(s.recs) = n - b[i]
      /\ \A k \in 1..Len(s.recs) : s.recs[k] \in H /\ s.recs[k].seq = b[i] + k - 1
  BY <1>1 DEF Holds
<1>4. /\ c = [recs |-> Append(s.recs, r), torn |-> s.torn, len |-> s.len + r.size]
      /\ c.recs = Append(s.recs, r) /\ c.torn = s.torn /\ c.len = s.len + r.size
  <2>1. c = [recs |-> Append(s.recs, r), torn |-> s.torn, len |-> s.len + r.size]
    BY DEF Lined
  <2> HIDE DEF c
  <2> QED BY <2>1
<1>0. e = SetSegment(d, i, c)
  BY DEF s
<1> HIDE DEF c
<1>5. /\ c.recs \in Seq(Records) /\ Len(c.recs) = Len(s.recs) + 1 /\ Len(s.recs) \in Nat /\ c.recs # <<>>
      /\ c.recs[Len(s.recs) + 1] = r /\ \A k \in 1..Len(s.recs) : c.recs[k] = s.recs[k]
  BY <1>3, <1>4, AppendProperties, LenProperties
<1>6. \A k \in 1..Len(c.recs) : c.recs[k] \in G /\ c.recs[k].seq = b[i] + k - 1
  <2> SUFFICES ASSUME NEW k \in 1..Len(c.recs) PROVE c.recs[k] \in G /\ c.recs[k].seq = b[i] + k - 1
    OBVIOUS
  <2>1. CASE k \in 1..Len(s.recs)
    BY <1>3, <1>5, <2>1
  <2>2. CASE k = Len(s.recs) + 1
    <3>1. b[i] + k - 1 = n
      BY <1>2, <1>3, <1>5, <2>2
    <3> QED BY <1>5, <2>2, <3>1
  <2> QED BY <1>5, <2>1, <2>2
<1>7. c.len \in Nat /\ c.len # 0 /\ Len(c.recs) = (n + 1) - b[i]
  <2>1. c.len = s.len + r.size /\ s.len \in Nat /\ r.size \in Nat /\ r.size # 0
    BY <1>2, <1>3, <1>4
  <2>2. Len(c.recs) = Len(s.recs) + 1 /\ Len(s.recs) = n - b[i]
    BY <1>3, <1>5
  <2>3. c.len \in Nat /\ c.len # 0
    BY <2>1
  <2> QED BY <1>2, <2>2, <2>3
<1>8. Holds(c, G, b[i], n + 1)
  <2>1. c = [recs |-> c.recs, torn |-> c.torn, len |-> c.len] /\ c.torn \in BOOLEAN
    BY <1>3, <1>4
  <2> QED BY <1>5, <1>6, <1>7, <2>1 DEF Holds
<1>9. Place(G, b[lo], Start(d))
  <2>1. Place(H, b[lo], Start(d))
    BY DEF Layout, CheckpointAt
  <2>2. r.seq >= b[lo]
    BY <1>2
  <2> QED BY <1>2, <2>1, <2>2, PlaceEarlier
<1>10. e = SetSegment(d, i, c) /\ n + 1 \in Nat /\ b[i] <= n + 1 /\ b[i] < n + 1
  BY <1>0, <1>2
<1>11. /\ Layout(e, G, n + 1, lo, hi, Moved(n + 1, i, lo, hi, b))
       /\ Start(e) = Start(d) /\ e.head = d.head /\ e.segs[i] = c
       /\ \A j \in lo..hi : j # i => e.segs[j] = d.segs[j]
       /\ Start(e).next = Moved(n + 1, i, lo, hi, b)[lo] /\ Moved(n + 1, i, lo, hi, b)[i] = b[i]
  <2> DEFINE m == n + 1
  <2>1. m \in Nat /\ b[i] <= m /\ (i = hi \/ (i + 1 = hi /\ b[i] < m)) /\ e = SetSegment(d, i, c)
    BY <1>10
  <2>2. \A q \in H : q.seq < b[i] => q \in G
    OBVIOUS
  <2>3. Holds(c, G, b[i], m) /\ Place(G, b[lo], Start(d))
    BY <1>8, <1>9
  <2> HIDE DEF m, G
  <2>5. CanMove(d, H, n, lo, hi, b, i, G, m, c)
    BY <2>1, <2>2, <2>3 DEF CanMove
  <2>4. /\ Layout(e, G, m, lo, hi, Moved(m, i, lo, hi, b))
        /\ Start(e) = Start(d) /\ e.head = d.head /\ e.segs[i] = c
        /\ \A j \in lo..hi : j # i => e.segs[j] = d.segs[j]
        /\ Start(e).next = Moved(m, i, lo, hi, b)[lo] /\ Moved(m, i, lo, hi, b)[i] = b[i]
    BY <2>1, <2>5, LayoutMoved
  <2> QED BY <2>4 DEF m
<1> QED BY <1>4, <1>11 DEF s

\* Segment s, which is len long, without its last line.
CutOff(s, len) == [recs |-> Front(s.recs), torn |-> FALSE, len |-> len]

\* Record r, the last one, number m, is the last line of segment i; without it the
\* segment is l long.
CanShrink(d, H, m, lo, hi, b, r, i, l) ==
  /\ m \in Nat /\ r.seq = m
  /\ History(H \cup {r}, m + 1) /\ Layout(d, H \cup {r}, m + 1, lo, hi, b) /\ History(H, m)
  /\ Start(d).next = b[lo] /\ i \in lo..hi /\ b[i + 1] = m + 1 /\ b[i] <= m
  /\ i = hi \/ (i + 1 = hi /\ b[i] < m)
  /\ l \in Nat /\ (l = 0 <=> b[i] = m)

\* e is d, laid out, without that line.
Shrunk(d, e, H, m, lo, hi, b, i, l) ==
  /\ Layout(e, H, m, lo, hi, Moved(m, i, lo, hi, b))
  /\ Start(e) = Start(d) /\ e.head = d.head
  /\ e.segs[i].len = l /\ e.segs[i].torn = FALSE
  /\ \A j \in lo..hi : j # i => e.segs[j] = d.segs[j]
  /\ Start(e).next = Moved(m, i, lo, hi, b)[lo] /\ Moved(m, i, lo, hi, b)[i] = b[i]

\* A line less at the end.
LEMMA LayoutShrinks ==
  ASSUME NEW d, NEW H, NEW m, NEW lo, NEW hi, NEW b, NEW r, NEW i, NEW l,
         CanShrink(d, H, m, lo, hi, b, r, i, l),
         NEW e, e = SetSegment(d, i, CutOff(d.segs[i], l))
  PROVE  Shrunk(d, e, H, m, lo, hi, b, i, l)
<1>0. /\ m \in Nat /\ r.seq = m
      /\ History(H \cup {r}, m + 1) /\ Layout(d, H \cup {r}, m + 1, lo, hi, b) /\ History(H, m)
      /\ Start(d).next = b[lo] /\ i \in lo..hi /\ b[i + 1] = m + 1 /\ b[i] <= m
      /\ i = hi \/ (i + 1 = hi /\ b[i] < m)
      /\ l \in Nat /\ (l = 0 <=> b[i] = m)
  BY DEF CanShrink
<1> USE <1>0
<1> DEFINE s == d.segs[i].recs
           G == H \cup {r}
           c == [recs |-> Front(s), torn |-> FALSE, len |-> l]
<1>1. Cuts(m + 1, lo, hi, b) /\ i \in Nat /\ hi \in Nat /\ b[i] \in Nat /\ b[lo] \in Nat /\ b[lo] <= b[i]
  BY CutsFacts DEF Layout
<1>2. /\ s \in Seq(Records) /\ Len(s) \in Nat /\ Len(s) = (m + 1) - b[i]
      /\ \A k \in 1..Len(s) : s[k] \in G /\ s[k].seq = b[i] + k - 1
  BY RecordAt
<1>3. r \in Records
  BY DEF History
<1> HIDE DEF s
<1>4. s # <<>> /\ Len(s) >= 1
  BY <1>1, <1>2, EmptySeq
<1>5. /\ Front(s) \in Seq(Records) /\ Len(Front(s)) = Len(s) - 1
      /\ \A k \in 1..(Len(s) - 1) : Front(s)[k] = s[k]
  <2>1. \A k \in 1..(Len(s) - 1) : s[k] \in Records
    BY <1>2, ElementOfSeq
  <2> DEFINE l1 == Len(s) - 1
  <2>0. Len(s) \in Nat /\ Len(s) >= 1
    BY <1>2, <1>4
  <2>2. l1 \in Int /\ 1 \in Int /\ l1 - 1 + 1 = l1 /\ (IF 1 <= l1 THEN l1 - 1 + 1 ELSE 0) = l1
        /\ \A k \in 1..l1 : 1 + k - 1 = k
    <3>1. l1 \in Nat
      BY <2>0
    <3>3. l1 \in Int /\ l1 - 1 + 1 = l1 /\ (IF 1 <= l1 THEN l1 - 1 + 1 ELSE 0) = l1
      <4> HIDE DEF l1
      <4> QED BY <3>1
    <3>2. \A k \in 1..l1 : 1 + k - 1 = k
      OBVIOUS
    <3> QED BY <3>2, <3>3
  <2> HIDE DEF l1
  <2>3. /\ SubSeq(s, 1, l1) \in Seq(Records)
        /\ Len(SubSeq(s, 1, l1)) = IF 1 <= l1 THEN l1 - 1 + 1 ELSE 0
        /\ \A k \in 1..(l1 - 1 + 1) : SubSeq(s, 1, l1)[k] = s[1 + k - 1]
    BY <2>1, <2>2, SubSeqProperties DEF l1
  <2>4. Front(s) = SubSeq(s, 1, l1)
    BY DEF Front, l1
  <2>5. \A k \in 1..l1 : Front(s)[k] = s[k]
    <3> SUFFICES ASSUME NEW k \in 1..l1 PROVE Front(s)[k] = s[k]
      OBVIOUS
    <3>1. k \in 1..(l1 - 1 + 1) /\ 1 + k - 1 = k
      BY <2>2
    <3> QED BY <2>3, <2>4, <3>1
  <2> QED BY <2>2, <2>3, <2>4, <2>5 DEF l1
<1>6. Len(Front(s)) = m - b[i]
  <2>1. Len(Front(s)) = Len(s) - 1 /\ Len(s) = (m + 1) - b[i]
    BY <1>2, <1>5
  <2> QED BY <1>1, <2>1
<1>7. \A k \in 1..Len(Front(s)) : Front(s)[k] \in H /\ Front(s)[k].seq = b[i] + k - 1
  <2> SUFFICES ASSUME NEW k \in 1..Len(Front(s))
               PROVE  Front(s)[k] \in H /\ Front(s)[k].seq = b[i] + k - 1
    OBVIOUS
  <2>1. k \in 1..Len(s) /\ Front(s)[k] = s[k] /\ b[i] + k - 1 < m
    BY <1>1, <1>2, <1>5, <1>6
  <2>2. s[k] \in G /\ s[k].seq = b[i] + k - 1
    BY <1>2, <2>1
  <2>3. s[k].seq # m
    BY <1>1, <2>1, <2>2
  <2> QED BY <2>1, <2>2, <2>3
<1>8. Holds(c, H, b[i], m)
  <2>1. c.recs = Front(s) /\ c.torn = FALSE /\ c.len = l /\ c = [recs |-> c.recs, torn |-> c.torn, len |-> c.len]
    OBVIOUS
  <2>2. l = 0 <=> Front(s) = <<>>
    <3>1. Front(s) = <<>> <=> Len(Front(s)) = 0
      BY <1>5, EmptySeq
    <3> QED BY <1>1, <1>6, <3>1
  <2>3. c.torn \in BOOLEAN
    OBVIOUS
  <2> HIDE DEF c
  <2> QED BY <1>5, <1>6, <1>7, <2>1, <2>2, <2>3 DEF Holds
<1>9. Place(H, b[lo], Start(d))
  <2>1. Place(G, b[lo], Start(d)) /\ H \subseteq Records
    BY DEF Layout, CheckpointAt, History
  <2>2. r.seq >= b[lo]
    BY <1>1
  <2> QED BY <1>1, <1>3, <2>1, <2>2, PlaceEarlier
<1>10. \A q \in G : q.seq < b[i] => q \in H
  BY <1>1
<1> DEFINE n == m + 1
<1>11. /\ History(G, n) /\ Layout(d, G, n, lo, hi, b) /\ b[i + 1] = n /\ e = SetSegment(d, i, c)
       /\ c.len = l /\ c.torn = FALSE
  BY DEF s, CutOff
<1> HIDE DEF n, c, G
<1>12. CanMove(d, G, n, lo, hi, b, i, H, m, c)
  BY <1>8, <1>9, <1>10, <1>11 DEF CanMove
<1>13. /\ Layout(e, H, m, lo, hi, Moved(m, i, lo, hi, b))
       /\ Start(e) = Start(d) /\ e.head = d.head /\ e.segs[i] = c
       /\ \A j \in lo..hi : j # i => e.segs[j] = d.segs[j]
       /\ Start(e).next = Moved(m, i, lo, hi, b)[lo] /\ Moved(m, i, lo, hi, b)[i] = b[i]
  <2>1. e = SetSegment(d, i, c)
    BY <1>11
  <2>2. Layout(e, H, m, lo, hi, Moved(m, i, lo, hi, b))
    BY <1>12, <2>1, LayoutMoved
  <2>3. Start(e) = Start(d) /\ e.head = d.head /\ e.segs[i] = c
    BY <1>12, <2>1, LayoutMoved
  <2>4. \A j \in lo..hi : j # i => e.segs[j] = d.segs[j]
    BY <1>12, <2>1, LayoutMoved
  <2>5. Start(e).next = Moved(m, i, lo, hi, b)[lo] /\ Moved(m, i, lo, hi, b)[i] = b[i]
    BY <1>12, <2>1, LayoutMoved
  <2> QED BY <2>2, <2>3, <2>4, <2>5
<1> QED BY <1>11, <1>13 DEF Shrunk

-----------------------------------------------------------------------------
(* Recovery keeps the invariant.                                              *)

Counted == sealed \in Nat /\ powerLosses \in Nat /\ home \in {"close", "ready"}

\* The state between two system calls of a recovery or an append, of which LogInv
\* says that there are such H, n, lo, hi and b.
LEMMA KnownIs ==
  ASSUME NEW H, NEW n, NEW lo, NEW hi, NEW b, History(H, n), Layout(seen', H, n, lo, hi, b), Counted',
         kept' \subseteq H, \A r \in H : r.seq + 1 < n \/ r.seq < Start(seen').next => r \in kept',
         Repairing(H, n, lo, hi, b)', Working(H, n, lo, hi, b)'
  PROVE  LogInv'
<1>1. Accounted(H, n)'
  BY DEF Accounted
<1>2. Known(H, n, lo, hi, b)'
  BY <1>1 DEF Known
<1> QED BY <1>2 DEF LogInv, Counted

\* The process has ended, or the log has failed.
LEMMA Stops ==
  ASSUME NEW H, NEW n, NEW lo, NEW hi, NEW b, History(H, n), Layout(seen', H, n, lo, hi, b), Counted',
         kept' \subseteq H, \A r \in H : r.seq + 1 < n \/ r.seq < Start(seen').next => r \in kept',
         pc' = "down" \/ (pc' = "ready" /\ mem'.failed = TRUE)
  PROVE  LogInv'
<1>1. Repairing(H, n, lo, hi, b)'
  BY DEF Repairing, Recovering
<1>2. Working(H, n, lo, hi, b)'
  BY DEF Working, Alive, Busy, Pruning, Written1
<1> QED BY <1>1, <1>2, KnownIs

\* A step of recovery.
LEMMA Repairs ==
  ASSUME NEW H, NEW n, NEW lo, NEW hi, NEW b, History(H, n), Layout(seen', H, n, lo, hi, b), Counted',
         kept' = H, pc' \in Recovering, Repairing(H, n, lo, hi, b)'
  PROVE  LogInv'
<1>1. Working(H, n, lo, hi, b)'
  BY DEF Working, Alive, Busy, Pruning, Written1, Recovering
<1> QED BY <1>1, KnownIs

\* What recovery does next, and what is known when it does.
LEMMA RecoveryIs ==
  ASSUME NEW d, NEW H, NEW n, NEW lo, NEW hi, NEW b, History(H, n), Layout(d, H, n, lo, hi, b),
         HeadNear(H, n, d)
  PROVE  \/ Recovery(d) = "quarantine"
         \/ NoneTorn(d) /\ Recovery(d) = "stale" /\ Start(d).next # b[lo]
         \/ NoneTorn(d) /\ Start(d).next = b[lo] /\ Recovery(d) = "repair" /\ Start(d).next # n
         \/ NoneTorn(d) /\ Start(d).next = b[lo] /\ Recovery(d) = "segment" /\ HeadAt(H, n, d.head)
<1>1. TornSegments(d) = {} => NoneTorn(d)
  BY DEF TornSegments, NoneTorn
<1>2. Stale(d) = {} <=> Start(d).next = b[lo]
  BY StaleIs
<1>3. HeadLags(d) => Start(d).next # n
  BY TipIs DEF HeadLags
<1>4. ~HeadLags(d) => HeadAt(H, n, d.head)
  BY HeadAfterRepair
<1>5. CASE TornSegments(d) # {}
  BY <1>5 DEF Recovery
<1>6. CASE TornSegments(d) = {} /\ Stale(d) # {}
  BY <1>1, <1>2, <1>6 DEF Recovery
<1>7. CASE TornSegments(d) = {} /\ Stale(d) = {} /\ HeadLags(d)
  BY <1>1, <1>2, <1>3, <1>7 DEF Recovery
<1>8. CASE TornSegments(d) = {} /\ Stale(d) = {} /\ ~HeadLags(d)
  BY <1>1, <1>2, <1>4, <1>8 DEF Recovery
<1> QED BY <1>5, <1>6, <1>7, <1>8

\* Recovery goes on with what is left to do.
LEMMA GoesOn ==
  ASSUME NEW H, NEW n, NEW lo, NEW hi, NEW b, History(H, n), Layout(seen', H, n, lo, hi, b), Counted',
         kept' = H, pc' = Recovery(seen)', HeadNear(H, n, seen'), OnlyTorn(seen', hi)
  PROVE  LogInv'
<1> DEFINE d == seen'
<1>1. pc' = Recovery(d)
  OBVIOUS
<1>2. \/ Recovery(d) = "quarantine"
      \/ NoneTorn(d) /\ Recovery(d) = "stale" /\ Start(d).next # b[lo]
      \/ NoneTorn(d) /\ Start(d).next = b[lo] /\ Recovery(d) = "repair" /\ Start(d).next # n
      \/ NoneTorn(d) /\ Start(d).next = b[lo] /\ Recovery(d) = "segment" /\ HeadAt(H, n, d.head)
  BY RecoveryIs
<1>3. pc' \in Recovering
  BY <1>1, <1>2 DEF Recovering
<1>4. Repairing(H, n, lo, hi, b)'
  BY <1>1, <1>2 DEF Repairing
<1> QED BY <1>3, <1>4, Repairs

\* What LogInv says of the state it holds in.
LEMMA KnownSays ==
  ASSUME NEW H, NEW n, NEW lo, NEW hi, NEW b, Known(H, n, lo, hi, b)
  PROVE  /\ History(H, n) /\ Layout(seen, H, n, lo, hi, b) /\ kept \subseteq H
         /\ \A r \in H : r.seq + 1 < n \/ r.seq < Start(seen).next => r \in kept
         /\ DOMAIN seen.segs = lo..hi /\ Cuts(n, lo, hi, b)
BY DEF Known, Accounted, Layout

\* The walk of open, whatever it finds.
LEMMA OpenKeeps ==
  ASSUME LogInv, Open
  PROVE  LogInv'
<1>1. PICK H, n, lo, hi, b : Known(H, n, lo, hi, b)
  BY DEF LogInv
<1>2. /\ History(H, n) /\ Layout(seen, H, n, lo, hi, b) /\ kept \subseteq H
      /\ \A r \in H : r.seq + 1 < n \/ r.seq < Start(seen).next => r \in kept
      /\ DOMAIN seen.segs = lo..hi /\ Cuts(n, lo, hi, b)
  BY <1>1, KnownSays
<1>3. /\ WalkOk(seen, "Recover") /\ pc' = Recovery(seen) /\ home' = "close" /\ seen' = seen
      /\ kept' = kept \cup Retained(seen) /\ UNCHANGED <<sealed, powerLosses>>
  BY DEF Open, Goto, NoError, files, counts
<1>4. Counted'
  BY <1>3 DEF LogInv, Counted
<1>5. kept' = H
  <2>1. Start(seen).next \in Nat /\ n \in Nat /\ \A r \in H : r.seq \in Nat
    BY <1>2, FloorFacts, RecordFields DEF History
  <2> QED BY <1>2, <1>3, <2>1, RetainedIs
<1>6. HeadNear(H, n, seen)
  BY <1>2, <1>3, HeadFitsSays DEF WalkOk
<1>7. OnlyTorn(seen, hi)
  <2> SUFFICES ASSUME NEW j \in DOMAIN seen.segs, seen.segs[j].torn PROVE j = hi
    BY DEF OnlyTorn
  <2>1. j \in TornSegments(seen)
    BY DEF TornSegments
  <2>2. IsLast(seen, j)
    BY <1>3, <2>1 DEF WalkOk, SegmentsFit
  <2>3. j \in lo..hi /\ hi \in lo..hi /\ hi \in Nat
    BY <1>2, CutsFacts
  <2>4. hi <= j
    BY <1>2, <2>2, <2>3 DEF IsLast
  <2> QED BY <2>3, <2>4
<1>8. pc' = Recovery(seen)'
  BY <1>3
<1> QED BY <1>2, <1>3, <1>4, <1>5, <1>6, <1>7, <1>8, GoesOn

\* A step of recovery fails.
LEMMA OpenFailsKeeps ==
  ASSUME LogInv, OpenFails, seen' = seen, IoError
  PROVE  LogInv'
<1>1. PICK H, n, lo, hi, b : Known(H, n, lo, hi, b)
  BY DEF LogInv
<1>2. /\ History(H, n) /\ Layout(seen, H, n, lo, hi, b) /\ kept \subseteq H
      /\ \A r \in H : r.seq + 1 < n \/ r.seq < Start(seen).next => r \in kept
  BY <1>1, KnownSays
<1>3. pc' = "down" /\ kept' = kept /\ Counted'
  BY DEF OpenFails, IoError, Goto, LogInv, Counted
<1> QED BY <1>2, <1>3, Stops

\* What recovery knows while it runs.
LEMMA RecoverySays ==
  ASSUME NEW H, NEW n, NEW lo, NEW hi, NEW b, Known(H, n, lo, hi, b), pc \in Recovering
  PROVE  /\ kept = H
         /\ IF pc \in {"quarantine", "cut"} THEN OnlyTorn(seen, hi) ELSE NoneTorn(seen)
         /\ IF pc \in {"repairSync", "segment", "segmentSync"} THEN HeadAt(H, n, seen.head)
                                                               ELSE HeadNear(H, n, seen)
         /\ pc \notin {"quarantine", "cut"} => (pc = "stale" <=> Start(seen).next # b[lo])
         /\ pc = "repair" => Start(seen).next # n
         /\ pc = "segmentSync" => lo = 1 /\ hi = 1
BY DEF Known, Repairing

\* A step of recovery that only flushes.
LEMMA QuarantineKeeps ==
  ASSUME LogInv, Quarantine
  PROVE  LogInv'
<1>1. PICK H, n, lo, hi, b : Known(H, n, lo, hi, b)
  BY DEF LogInv
<1>2. CASE IoError /\ OpenFails /\ UNCHANGED files
  BY <1>2, OpenFailsKeeps DEF files
<1>3. CASE SyncDir /\ Opening("cut") /\ UNCHANGED <<seen, mem>>
  <2>1. pc = "quarantine" /\ pc' = "cut" /\ seen' = seen /\ kept' = kept /\ Counted'
    BY <1>3 DEF Quarantine, Opening, Goto, NoError, counts, LogInv, Counted
  <2>2. History(H, n) /\ Layout(seen, H, n, lo, hi, b)
    BY <1>1, KnownSays
  <2>3. kept = H /\ OnlyTorn(seen, hi) /\ HeadNear(H, n, seen)
    BY <1>1, <2>1, RecoverySays DEF Recovering
  <2>4. Repairing(H, n, lo, hi, b)'
    BY <2>1, <2>3 DEF Repairing
  <2> QED BY <2>1, <2>2, <2>3, <2>4, Repairs DEF Recovering
<1> QED BY <1>2, <1>3 DEF Quarantine

\* quarantine_torn cuts off the torn tail.
LEMMA CutTailKeeps ==
  ASSUME LogInv, CutTail
  PROVE  LogInv'
<1>1. PICK H, n, lo, hi, b : Known(H, n, lo, hi, b)
  BY DEF LogInv
<1>2. /\ History(H, n) /\ Layout(seen, H, n, lo, hi, b) /\ kept \subseteq H
      /\ \A r \in H : r.seq + 1 < n \/ r.seq < Start(seen).next => r \in kept
      /\ DOMAIN seen.segs = lo..hi
  BY <1>1, KnownSays
<1>3. kept = H /\ OnlyTorn(seen, hi) /\ HeadNear(H, n, seen)
  BY <1>1, RecoverySays DEF CutTail, Recovering
<1>4. PICK i \in TornSegments(seen) :
        LET whole == [seen.segs[i] EXCEPT !.torn = FALSE] IN
        \/ /\ seen' = SetSegment(seen, i, whole)
           /\ durable' = SetSegment(Journalled, i, whole)
           /\ Opening(Recovery(seen')) /\ UNCHANGED mem
        \/ IoError /\ OpenFails /\ UNCHANGED files
        \/ IoError /\ OpenFails /\ seen' = SetSegment(seen, i, whole) /\ UNCHANGED durable
  BY DEF CutTail
<1>5. i \in lo..hi /\ i = hi
  BY <1>2, <1>3, <1>4 DEF TornSegments, OnlyTorn
<1>6. CASE IoError /\ OpenFails /\ UNCHANGED files
  BY <1>6, OpenFailsKeeps DEF files
<1>7. CASE seen' = SetSegment(seen, i, [seen.segs[i] EXCEPT !.torn = FALSE])
  <2>1. /\ Layout(seen', H, n, lo, hi, b) /\ Start(seen') = Start(seen) /\ seen'.head = seen.head
        /\ seen'.segs[i].torn = FALSE /\ \A j \in lo..hi : j # i => seen'.segs[j] = seen.segs[j]
    <3> DEFINE t == FALSE
    <3>1. t \in BOOLEAN /\ seen' = SetSegment(seen, i, [seen.segs[i] EXCEPT !.torn = t])
      BY <1>7
    <3> HIDE DEF t
    <3>2. /\ Layout(seen', H, n, lo, hi, b) /\ Start(seen') = Start(seen) /\ seen'.head = seen.head
          /\ seen'.segs[i].torn = t /\ \A j \in lo..hi : j # i => seen'.segs[j] = seen.segs[j]
      BY <1>2, <1>5, <3>1, LayoutTorn
    <3> QED BY <3>2 DEF t
  <2>2. CASE IoError /\ OpenFails
    <3>1. pc' = "down" /\ kept' = kept /\ Counted'
      BY <2>2 DEF OpenFails, IoError, Goto, LogInv, Counted
    <3> QED BY <1>2, <2>1, <3>1, Stops
  <2>3. CASE Opening(Recovery(seen'))
    <3>1. pc' = Recovery(seen)' /\ kept' = kept /\ Counted'
      BY <2>3 DEF Opening, Goto, NoError, counts, LogInv, Counted
    <3>2. HeadNear(H, n, seen')
      BY <1>3, <2>1 DEF HeadNear
    <3>3. OnlyTorn(seen', hi)
      <4>1. DOMAIN seen'.segs = lo..hi
        BY <2>1 DEF Layout
      <4> QED BY <1>2, <1>3, <1>5, <2>1, <4>1 DEF OnlyTorn
    <3> QED BY <1>2, <1>3, <2>1, <3>1, <3>2, <3>3, GoesOn
  <2> QED BY <1>4, <1>6, <2>2, <2>3
<1> QED BY <1>4, <1>6, <1>7

\* A segment that the checkpoint covers is removed.
LEMMA RemoveStaleKeeps ==
  ASSUME LogInv, RemoveStale
  PROVE  LogInv'
<1>1. PICK H, n, lo, hi, b : Known(H, n, lo, hi, b)
  BY DEF LogInv
<1>2. CASE IoError /\ OpenFails /\ UNCHANGED files
  BY <1>2, OpenFailsKeeps DEF files
<1>3. CASE /\ seen' = DropSegment(seen, Lower(Stale(seen)))
           /\ Opening(IF Stale(seen') = {} THEN "staleSync" ELSE "stale")
           /\ UNCHANGED <<durable, mem>>
  <2>1. History(H, n) /\ Layout(seen, H, n, lo, hi, b) /\ DOMAIN seen.segs = lo..hi
    BY <1>1, KnownSays
  <2>2. kept = H /\ NoneTorn(seen) /\ HeadNear(H, n, seen) /\ Start(seen).next # b[lo]
    BY <1>1, RecoverySays DEF RemoveStale, Recovering
  <2>3. Stale(seen) = {lo} /\ lo \in Int
    <3>1. lo \in Nat
      BY <2>1, CutsFacts DEF Layout
    <3> QED BY <2>1, <2>2, <3>1, StaleIs
  <2>4. Lower(Stale(seen)) = lo
    BY <2>3, LowerIs
  <2> DEFINE c == Behind(lo, hi, b)
  <2>5. /\ Layout(seen', H, n, lo + 1, hi, c)
        /\ Start(seen') = Start(seen) /\ seen'.head = seen.head
        /\ Start(seen').next = c[lo + 1] /\ \A i \in (lo + 1)..hi : seen'.segs[i] = seen.segs[i]
    BY <1>3, <2>1, <2>2, <2>4, LayoutDrop
  <2>6. Stale(seen') = {}
    BY <2>1, <2>5, StaleIs
  <2>7. pc' = "staleSync" /\ kept' = kept /\ Counted'
    BY <1>3, <2>6 DEF Opening, Goto, NoError, counts, LogInv, Counted
  <2>8. NoneTorn(seen') /\ HeadNear(H, n, seen')
    <3>1. DOMAIN seen'.segs = (lo + 1)..hi /\ \A i \in (lo + 1)..hi : i \in lo..hi
      BY <2>3, <2>5 DEF Layout
    <3> QED BY <2>1, <2>2, <2>5, <3>1 DEF NoneTorn, HeadNear
  <2>9. Repairing(H, n, lo + 1, hi, c)'
    BY <2>2, <2>5, <2>7, <2>8 DEF Repairing
  <2> HIDE DEF c
  <2> QED BY <2>1, <2>2, <2>5, <2>7, <2>9, Repairs DEF Recovering
<1> QED BY <1>2, <1>3 DEF RemoveStale

\* Its removal is flushed.
LEMMA SyncStaleKeeps ==
  ASSUME LogInv, SyncStale
  PROVE  LogInv'
<1>1. PICK H, n, lo, hi, b : Known(H, n, lo, hi, b)
  BY DEF LogInv
<1>2. CASE IoError /\ OpenFails /\ UNCHANGED files
  BY <1>2, OpenFailsKeeps DEF files
<1>3. CASE SyncDir /\ Opening(Recovery(seen)) /\ UNCHANGED <<seen, mem>>
  <2>1. History(H, n) /\ Layout(seen, H, n, lo, hi, b)
    BY <1>1, KnownSays
  <2>2. kept = H /\ NoneTorn(seen) /\ HeadNear(H, n, seen)
    BY <1>1, RecoverySays DEF SyncStale, Recovering
  <2>3. pc' = Recovery(seen)' /\ kept' = kept /\ Counted' /\ seen' = seen
    BY <1>3 DEF Opening, Goto, NoError, counts, LogInv, Counted
  <2>4. OnlyTorn(seen, hi)
    BY <2>2 DEF NoneTorn, OnlyTorn
  <2> QED BY <2>1, <2>2, <2>3, <2>4, GoesOn
<1> QED BY <1>2, <1>3 DEF SyncStale

\* HEAD is moved forward to the last record.
LEMMA RepairHeadKeeps ==
  ASSUME LogInv, RepairHead
  PROVE  LogInv'
<1>1. PICK H, n, lo, hi, b : Known(H, n, lo, hi, b)
  BY DEF LogInv
<1>2. CASE IoError /\ OpenFails /\ UNCHANGED files
  BY <1>2, OpenFailsKeeps DEF files
<1>3. CASE seen' = [seen EXCEPT !.head = Tip(seen)] /\ Opening("repairSync") /\ UNCHANGED <<durable, mem>>
  <2>1. History(H, n) /\ Layout(seen, H, n, lo, hi, b)
    BY <1>1, KnownSays
  <2>2. kept = H /\ NoneTorn(seen) /\ Start(seen).next = b[lo] /\ Start(seen).next # n
    BY <1>1, RecoverySays DEF RepairHead, Recovering
  <2>3. /\ Layout(seen', H, n, lo, hi, b) /\ Start(seen') = Start(seen) /\ seen'.head = Tip(seen)
        /\ seen'.segs = seen.segs
    BY <1>3, <2>1, LayoutHead
  <2>4. HeadAt(H, n, seen'.head)
    BY <2>1, <2>2, <2>3, TipIs DEF HeadAt
  <2>5. pc' = "repairSync" /\ kept' = kept /\ Counted'
    BY <1>3 DEF Opening, Goto, NoError, counts, LogInv, Counted
  <2>6. NoneTorn(seen')
    BY <2>2, <2>3 DEF NoneTorn
  <2>7. Repairing(H, n, lo, hi, b)'
    BY <2>2, <2>3, <2>4, <2>5, <2>6 DEF Repairing
  <2> QED BY <2>1, <2>2, <2>3, <2>5, <2>7, Repairs DEF Recovering
<1> QED BY <1>2, <1>3 DEF RepairHead

\* The repaired HEAD is flushed.
LEMMA SyncRepairKeeps ==
  ASSUME LogInv, SyncRepair
  PROVE  LogInv'
<1>1. PICK H, n, lo, hi, b : Known(H, n, lo, hi, b)
  BY DEF LogInv
<1>2. CASE IoError /\ OpenFails /\ UNCHANGED files
  BY <1>2, OpenFailsKeeps DEF files
<1>3. CASE SyncDir /\ Opening("segment") /\ UNCHANGED <<seen, mem>>
  <2>1. History(H, n) /\ Layout(seen, H, n, lo, hi, b)
    BY <1>1, KnownSays
  <2>2. kept = H /\ NoneTorn(seen) /\ HeadAt(H, n, seen.head) /\ Start(seen).next = b[lo]
    BY <1>1, RecoverySays DEF SyncRepair, Recovering
  <2>3. pc' = "segment" /\ kept' = kept /\ Counted' /\ seen' = seen
    BY <1>3 DEF Opening, Goto, NoError, counts, LogInv, Counted
  <2>4. Repairing(H, n, lo, hi, b)'
    BY <2>2, <2>3 DEF Repairing
  <2> QED BY <2>1, <2>2, <2>3, <2>4, Repairs DEF Recovering
<1> QED BY <1>2, <1>3 DEF SyncRepair

-----------------------------------------------------------------------------
(* Appending keeps the invariant.                                             *)

\* Outside recovery nothing is to be repaired.
LEMMA Works ==
  ASSUME NEW H, NEW n, NEW lo, NEW hi, NEW b, History(H, n), Layout(seen', H, n, lo, hi, b), Counted',
         kept' \subseteq H, \A r \in H : r.seq + 1 < n \/ r.seq < Start(seen').next => r \in kept',
         pc' \notin Recovering, Working(H, n, lo, hi, b)'
  PROVE  LogInv'
<1>1. Repairing(H, n, lo, hi, b)'
  BY DEF Repairing
<1> QED BY <1>1, KnownIs

\* Inner as it is built from the walk.
LEMMA MemFromIs ==
  ASSUME NEW d, NEW H, NEW n, NEW lo, NEW hi, NEW b, History(H, n), Layout(d, H, n, lo, hi, b),
         lo <= hi, NEW x, x = MemFrom(d, hi)
  PROVE  /\ x = [seg |-> x.seg, len |-> x.len, count |-> x.count, next |-> x.next,
                 prev |-> x.prev, ts |-> x.ts, open |-> x.open, failed |-> FALSE]
         /\ x.seg = hi /\ x.len = d.segs[hi].len /\ x.len \in Nat /\ x.count = hi - lo + 1
         /\ x.next = n /\ Place(H, n, x) /\ (x.len = 0 <=> b[hi] = n)
<1>1. /\ x = [seg |-> x.seg, len |-> x.len, count |-> x.count, next |-> x.next,
              prev |-> x.prev, ts |-> x.ts, open |-> x.open, failed |-> FALSE]
      /\ x.seg = hi /\ x.len = d.segs[hi].len /\ x.count = Cardinality(DOMAIN d.segs)
      /\ x.next = (IF Tip(d) # None THEN Tip(d).seq + 1 ELSE Start(d).next)
      /\ x.prev = (IF Tip(d) # None THEN Tip(d).hash ELSE Start(d).prev)
      /\ x.ts = (IF Tip(d) # None THEN Newest(d).ts ELSE Start(d).ts)
      /\ x.open = OpenDecisions(d)
  BY DEF MemFrom
<1>2. /\ Cuts(n, lo, hi, b) /\ DOMAIN d.segs = lo..hi /\ hi \in lo..hi /\ lo \in Nat /\ hi \in Nat /\ n \in Nat
      /\ CheckpointAt(d, H, lo, hi, b) /\ Holds(d.segs[hi], H, b[hi], b[hi + 1]) /\ b[hi + 1] = n
  <2>1. Cuts(n, lo, hi, b) /\ DOMAIN d.segs = lo..hi
    BY DEF Layout
  <2>2. hi \in lo..hi /\ lo \in Nat /\ hi \in Nat /\ n \in Nat
    BY <2>1, CutsFacts
  <2> QED BY <2>1, <2>2 DEF Layout, Cuts
<1>3. x.count = hi - lo + 1
  <2>1. lo \in Int /\ hi \in Int /\ ~(lo > hi)
    BY <1>2
  <2> QED BY <1>1, <1>2, <2>1, FS_Interval
<1>4. x.len \in Nat /\ (x.len = 0 <=> b[hi] = n)
  <2>1. d.segs[hi].recs = <<>> <=> b[hi] = n
    BY <1>2, RecordAt
  <2> QED BY <1>1, <1>2, <2>1 DEF Holds
<1>5. x.open = OpenIn(H, n)
  BY <1>1, OpenDecisionsAre
<1>6. x.next = n /\ Place(H, n, x)
  <2>1. CASE Start(d).next = n
    <3>1. Tip(d) = None
      BY <2>1, TipIs
    <3>2. Place(H, n, Start(d))
      BY <1>2, <2>1 DEF CheckpointAt
    <3> QED BY <1>1, <1>5, <2>1, <3>1, <3>2 DEF Place
  <2>2. CASE Start(d).next # n
    <3>1. Newest(d) \in H /\ Newest(d).seq + 1 = n /\ Tip(d) = Names(Newest(d)) /\ Tip(d) # None
      BY <2>2, TipIs
    <3>2. x.next = n /\ x.prev = Newest(d).hash /\ x.ts = Newest(d).ts
      BY <1>1, <3>1 DEF Names
    <3>3. Newest(d).seq \in Nat
      BY <3>1, RecordFields DEF History
    <3>4. n # 0
      BY <3>1, <3>3
    <3>5. \A r \in H : r.seq + 1 = n => r = Newest(d)
      <4> SUFFICES ASSUME NEW r \in H, r.seq + 1 = n PROVE r = Newest(d)
        OBVIOUS
      <4>1. r.seq \in Nat
        BY RecordFields DEF History
      <4>2. r.seq = Newest(d).seq
        BY <3>1, <3>3, <4>1
      <4> QED BY <3>1, <4>2 DEF History
    <3> QED BY <1>5, <3>2, <3>4, <3>5 DEF Place
  <2> QED BY <2>1, <2>2
<1> QED BY <1>1, <1>3, <1>4, <1>6

\* The log is about to close what it found open.
LEMMA BeginsToClose ==
  ASSUME NEW H, NEW n, NEW lo, NEW hi, NEW b, History(H, n), Layout(seen', H, n, lo, hi, b), Counted',
         lo <= hi, kept' = H, NoneTorn(seen'), Start(seen').next = b[lo], HeadAt(H, n, seen'.head),
         pc' = "close", mem' = MemFrom(seen', hi)
  PROVE  LogInv'
<1> DEFINE x == mem'
<1>1. /\ x = [seg |-> x.seg, len |-> x.len, count |-> x.count, next |-> x.next,
              prev |-> x.prev, ts |-> x.ts, open |-> x.open, failed |-> FALSE]
      /\ x.seg = hi /\ x.len = seen'.segs[hi].len /\ x.len \in Nat /\ x.count = hi - lo + 1
      /\ x.next = n /\ Place(H, n, x) /\ (x.len = 0 <=> b[hi] = n)
  BY MemFromIs
<1>2. hi \in lo..hi
  BY CutsFacts DEF Layout
<1>3. MemFits(n, lo, hi, b)'
  BY <1>1, <1>2 DEF MemFits
<1>4. LineIn(H, n)'
  BY <1>1 DEF LineIn
<1>5. Working(H, n, lo, hi, b)'
  BY <1>1, <1>3, <1>4 DEF Working, Written1, Pruning, Busy
<1> QED BY <1>5, Works DEF Recovering

\* The segment to append to is opened or created.
LEMMA OpenSegmentKeeps ==
  ASSUME LogInv, OpenSegment
  PROVE  LogInv'
<1>1. PICK H, n, lo, hi, b : Known(H, n, lo, hi, b)
  BY DEF LogInv
<1>2. /\ History(H, n) /\ Layout(seen, H, n, lo, hi, b) /\ DOMAIN seen.segs = lo..hi /\ Cuts(n, lo, hi, b)
      /\ lo \in Nat \ {0} /\ hi \in Nat
  BY <1>1, KnownSays, CutsFacts
<1>3. kept = H /\ NoneTorn(seen) /\ HeadAt(H, n, seen.head) /\ Start(seen).next = b[lo]
  BY <1>1, RecoverySays DEF OpenSegment, Recovering
<1>4. CASE IoError /\ OpenFails /\ UNCHANGED files
  BY <1>4, OpenFailsKeeps DEF files
<1>5. CASE /\ DOMAIN seen.segs # {} /\ mem' = MemFrom(seen, Upper(DOMAIN seen.segs))
           /\ Opening("close") /\ UNCHANGED files
  <2>1. pc' = "close" /\ kept' = H /\ Counted' /\ seen' = seen
    BY <1>3, <1>5 DEF Opening, Goto, NoError, counts, LogInv, Counted, files
  <2>2. lo <= hi
    BY <1>2, <1>5
  <2>3. Upper(DOMAIN seen.segs) = hi
    <3>1. lo..hi \subseteq Int /\ hi \in lo..hi /\ \A y \in lo..hi : y <= hi
      BY <1>2, <2>2
    <3> QED BY <1>2, <3>1, UpperIs
  <2>4. mem' = MemFrom(seen', hi)
    BY <1>5, <2>1, <2>3
  <2> QED BY <1>2, <1>3, <2>1, <2>2, <2>4, BeginsToClose
<1>6. CASE /\ DOMAIN seen.segs = {} /\ seen' = AddSegment(seen, 1)
           /\ Opening("segmentSync") /\ UNCHANGED <<durable, mem>>
  <2>1. pc' = "segmentSync" /\ kept' = H /\ Counted'
    BY <1>3, <1>6 DEF Opening, Goto, NoError, counts, LogInv, Counted
  <2>2. hi = 0 /\ lo = 1 /\ hi + 1 = 1
    <3>1. ~(lo <= hi)
      <4> SUFFICES ASSUME lo <= hi PROVE lo \in lo..hi
        BY <1>2, <1>6
      <4> QED BY <1>2
    <3> QED BY <1>2, <3>1 DEF Cuts
  <2> DEFINE c == AddedTo(n, lo, hi, b)
             k == 1
  <2>3. /\ Layout(seen', H, n, lo, k, c) /\ Start(seen') = Start(seen) /\ seen'.head = seen.head
        /\ seen'.segs[k] = Empty /\ \A i \in lo..k : c[i] = b[i]
    <3>1. seen' = AddSegment(seen, k) /\ k = hi + 1 /\ hi < lo
      BY <1>6, <2>2
    <3> HIDE DEF k
    <3>2. Layout(seen, H, n, lo, hi, b)
      BY <1>2
    <3>3. Layout(seen', H, n, lo, k, c)
      BY <3>1, <3>2, LayoutAdd
    <3>4. Start(seen') = Start(seen) /\ seen'.head = seen.head /\ seen'.segs[k] = Empty
      BY <3>1, <3>2, <3>3, LayoutAdd
    <3>5. \A i \in lo..k : c[i] = b[i]
      BY <3>1, <3>2, <3>3, LayoutAdd
    <3> QED BY <3>3, <3>4, <3>5
  <2> HIDE DEF c
  <2>4. DOMAIN seen'.segs = 1..1 /\ \A j \in 1..1 : j = k
    BY <2>2, <2>3 DEF Layout
  <2>5. NoneTorn(seen')
    BY <2>3, <2>4 DEF NoneTorn, Empty
  <2>6. Start(seen').next = c[lo]
    BY <1>3, <2>2, <2>3
  <2>7. Repairing(H, n, lo, k, c)'
    BY <1>3, <2>1, <2>2, <2>3, <2>5, <2>6 DEF Repairing
  <2> QED BY <1>2, <2>1, <2>3, <2>7, Repairs DEF Recovering
<1> QED BY <1>4, <1>5, <1>6 DEF OpenSegment

\* The new segment is flushed.
LEMMA SyncSegmentKeeps ==
  ASSUME LogInv, SyncSegment
  PROVE  LogInv'
<1>1. PICK H, n, lo, hi, b : Known(H, n, lo, hi, b)
  BY DEF LogInv
<1>2. CASE IoError /\ OpenFails /\ UNCHANGED files
  BY <1>2, OpenFailsKeeps DEF files
<1>3. CASE SyncDir /\ mem' = MemFrom(seen, 1) /\ Opening("close") /\ UNCHANGED seen
  <2>1. History(H, n) /\ Layout(seen, H, n, lo, hi, b)
    BY <1>1, KnownSays
  <2>2. kept = H /\ NoneTorn(seen) /\ HeadAt(H, n, seen.head) /\ Start(seen).next = b[lo] /\ lo = 1 /\ hi = 1
    BY <1>1, RecoverySays DEF SyncSegment, Recovering
  <2>3. pc' = "close" /\ kept' = H /\ Counted' /\ seen' = seen /\ mem' = MemFrom(seen', hi) /\ lo <= hi
    BY <1>3, <2>2 DEF Opening, Goto, NoError, counts, LogInv, Counted
  <2> QED BY <2>1, <2>2, <2>3, BeginsToClose
<1> QED BY <1>2, <1>3 DEF SyncSegment

\* What an append knows while it runs.
LEMMA WorkSays ==
  ASSUME NEW H, NEW n, NEW lo, NEW hi, NEW b, Known(H, n, lo, hi, b), Alive
  PROVE  /\ MemFits(n, lo, hi, b) /\ LineIn(H, n)
         /\ mem.next # n => pc \in Written1 \cup {"rollback"}
         /\ mem.next = n => pc \notin Written1
         /\ IF pc = "rollback" THEN OnlyTorn(seen, mem.seg) ELSE NoneTorn(seen)
         /\ IF pc = "headSync" THEN HeadAt(H, n, seen.head) ELSE HeadAt(kept, mem.next, seen.head)
         /\ pc \in {"pruneSync", "pruneRemove"} <=> Start(seen).next # b[lo]
         /\ pc = "rotate" => mem.len > 0
         /\ pc = "rotateSync" => mem.seg + 1 = hi
         /\ pc \in Pruning => mem.seg = hi /\ b[hi] = n /\ MaxSegments \in Nat
         /\ pc \in Pruning \ {"pruneRemoveSync"} => lo < hi
         /\ pc \in Busy => RecordFits
BY DEF Known, Working

\* open returns.
LEMMA OpenedKeeps ==
  ASSUME LogInv, Opened
  PROVE  LogInv'
<1>1. PICK H, n, lo, hi, b : Known(H, n, lo, hi, b)
  BY DEF LogInv
<1>2. /\ History(H, n) /\ Layout(seen, H, n, lo, hi, b) /\ kept \subseteq H
      /\ \A r \in H : r.seq + 1 < n \/ r.seq < Start(seen).next => r \in kept
  BY <1>1, KnownSays
<1>3. pc = "close" /\ pc' = "ready" /\ seen' = seen /\ mem' = mem /\ kept' = kept /\ rec' = rec /\ Counted'
  BY DEF Opened, Goto, NoError, counts, LogInv, Counted, files
<1>4. Working(H, n, lo, hi, b) /\ Alive
  BY <1>1, <1>3 DEF Known, Alive
<1>5. Working(H, n, lo, hi, b)'
  BY <1>3, <1>4 DEF Working, MemFits, LineIn, Written1, Pruning, Busy
<1> QED BY <1>2, <1>3, <1>5, Works DEF Recovering

\* A nonempty set of numbers has a least one.
LEMMA LowestIs ==
  ASSUME NEW S, S \subseteq Nat, S # {}
  PROVE  Lower(S) \in S
<1> DEFINE Down(k) == 0..k
           T == {Down(k) : k \in S}
<1>1. T \subseteq FiniteSubsetsOf(Nat)
  <2>1. \A k \in S : IsFiniteSet(0..k) /\ 0..k \subseteq Nat
    BY FS_Interval
  <2> QED BY <2>1 DEF FiniteSubsetsOf
<1>2. PICK X \in T : \A Y \in T : <<Y, X>> \notin StrictSubsetOrdering(Nat)
  <2>1. T # {}
    OBVIOUS
  <2> HIDE DEF T
  <2>2. IsWellFoundedOn(StrictSubsetOrdering(Nat), FiniteSubsetsOf(Nat))
    BY FS_StrictSubsetOrderingWellFounded
  <2> QED BY <1>1, <2>1, <2>2, WFMin
<1>3. PICK k \in S : X = 0..k
  OBVIOUS
<1>4. \A m \in S : k <= m
  <2>1. SUFFICES ASSUME NEW m \in S, m < k PROVE FALSE
    OBVIOUS
  <2>2. m \in Nat /\ k \in Nat /\ k \in 0..k /\ k \notin 0..m
    BY <2>1
  <2>3. 0..m \in T /\ 0..m \subseteq 0..k /\ 0..m # 0..k
    <3>1. 0..m \in T
      OBVIOUS
    <3>2. 0..m \subseteq 0..k
      BY <2>1, <2>2
    <3> QED BY <2>2, <3>1, <3>2
  <2>4. <<0..m, 0..k>> \in StrictSubsetOrdering(Nat)
    BY <2>3 DEF StrictSubsetOrdering
  <2> QED BY <1>2, <1>3, <2>3, <2>4
<1> QED BY <1>4 DEF Lower

\* An append ends with an error after which the log takes nothing more.
LEMMA AppendFailsHard ==
  ASSUME LogInv, Alive, AppendFails(TRUE), seen' = seen, IoError
  PROVE  LogInv'
<1>1. PICK H, n, lo, hi, b : Known(H, n, lo, hi, b)
  BY DEF LogInv
<1>2. /\ History(H, n) /\ Layout(seen, H, n, lo, hi, b) /\ kept \subseteq H
      /\ \A r \in H : r.seq + 1 < n \/ r.seq < Start(seen).next => r \in kept
  BY <1>1, KnownSays
<1>3. MemFits(n, lo, hi, b)
  BY <1>1, WorkSays
<1>4. mem' = [mem EXCEPT !.failed = TRUE] /\ pc' = (IF home = "close" THEN "down" ELSE "ready") /\ kept' = kept
  BY DEF AppendFails, Goto
<1>5. mem'.failed = TRUE
  BY <1>3, <1>4 DEF MemFits
<1>6. Counted'
  BY DEF AppendFails, IoError, LogInv, Counted
<1>7. pc' = "down" \/ pc' = "ready"
  BY <1>4
<1> QED BY <1>2, <1>4, <1>5, <1>6, <1>7, Stops

\* An append ends with an error before anything was written, or after it was cut off.
LEMMA AppendFailsSoft ==
  ASSUME LogInv, pc \in {"rotate", "rotateSync", "rollbackSync"}, AppendFails(FALSE), seen' = seen,
         UNCHANGED powerLosses
  PROVE  LogInv'
<1>1. PICK H, n, lo, hi, b : Known(H, n, lo, hi, b)
  BY DEF LogInv
<1>2. /\ History(H, n) /\ Layout(seen, H, n, lo, hi, b) /\ kept \subseteq H
      /\ \A r \in H : r.seq + 1 < n \/ r.seq < Start(seen).next => r \in kept
  BY <1>1, KnownSays
<1>3. Alive
  BY DEF Alive, Busy
<1>4. /\ MemFits(n, lo, hi, b) /\ LineIn(H, n) /\ mem.next = n
      /\ NoneTorn(seen) /\ HeadAt(kept, mem.next, seen.head) /\ Start(seen).next = b[lo]
  BY <1>1, <1>3, WorkSays DEF Written1
<1>5. /\ mem' = [mem EXCEPT !.failed = FALSE] /\ pc' = (IF home = "close" THEN "down" ELSE "ready")
      /\ kept' = kept /\ Counted'
  BY DEF AppendFails, Goto, LogInv, Counted
<1>6. mem' = mem
  BY <1>4, <1>5 DEF MemFits
<1>7. CASE pc' = "down"
  BY <1>2, <1>5, <1>7, Stops
<1>8. CASE pc' = "ready"
  <2>1. MemFits(n, lo, hi, b)' /\ LineIn(H, n)'
    BY <1>4, <1>5, <1>6, <1>8 DEF MemFits, LineIn
  <2>2. Working(H, n, lo, hi, b)'
    BY <1>4, <1>5, <1>6, <1>8, <2>1 DEF Working, Written1, Pruning, Busy
  <2> QED BY <1>2, <1>5, <1>8, <2>2, Works DEF Recovering
<1> QED BY <1>5, <1>7, <1>8

\* A record is sealed.
LEMMA SealKeeps ==
  ASSUME LogInv, pc = "close" \/ (pc = "ready" /\ ~mem.failed),
         NEW kind \in Kinds, NEW ref, NEW size \in Sizes, NEW now \in Times, Seal(kind, ref, size, now),
         ref = None \/ ref \in mem.open, kind = "outcome" => ref \in mem.open
  PROVE  LogInv'
<1>1. PICK H, n, lo, hi, b : Known(H, n, lo, hi, b)
  BY DEF LogInv
<1>2. /\ History(H, n) /\ Layout(seen, H, n, lo, hi, b) /\ kept \subseteq H /\ Cuts(n, lo, hi, b) /\ n \in Nat
      /\ \A r \in H : r.seq + 1 < n \/ r.seq < Start(seen).next => r \in kept
  BY <1>1, KnownSays DEF History
<1>3. Alive
  BY DEF Alive
<1>4. /\ MemFits(n, lo, hi, b) /\ LineIn(H, n) /\ mem.next = n
      /\ NoneTorn(seen) /\ HeadAt(kept, mem.next, seen.head) /\ Start(seen).next = b[lo]
  <2>1. pc \notin Written1 \cup {"rollback", "headSync", "pruneSync", "pruneRemove"}
    BY DEF Written1
  <2> QED BY <1>1, <1>3, <2>1, WorkSays
<1>5. kept = H
  BY <1>4 DEF LineIn
<1>6. /\ rec' = [seq |-> n, ts |-> IF now > mem.ts THEN now ELSE mem.ts,
                 prev |-> mem.prev, hash |-> sealed + 1, kind |-> kind, ref |-> ref, size |-> size]
      /\ pc' = (IF mem.len > 0 /\ mem.len + size > MaxSegmentBytes THEN "rotate" ELSE "write")
      /\ seen' = seen /\ mem' = mem /\ kept' = kept /\ Counted'
  BY <1>4 DEF Seal, Goto, NoError, counts, files, LogInv, Counted
<1>7. mem.ts \in Times \cup {0} /\ mem.prev \in Nat /\ mem.open \subseteq Nat
  <2>1. Place(H, n, mem) /\ H \subseteq Records
    BY <1>2, <1>4, <1>5 DEF MemFits, History
  <2>2. mem.open \subseteq Nat
    BY <2>1, OpenInNat DEF Place
  <2>3. CASE n = 0
    <3>1. mem.prev = 0 /\ mem.ts = 0
      BY <2>1, <2>3 DEF Place
    <3> QED BY <2>2, <3>1
  <2>4. CASE n # 0
    <3>1. PICK r \in H : r.seq = n - 1
      BY <1>2, <2>4 DEF History
    <3>2. r.seq + 1 = n /\ r \in Records
      BY <1>2, <3>1 DEF History
    <3>3. mem.prev = r.hash /\ mem.ts = r.ts
      BY <2>1, <3>2 DEF Place
    <3>4. r.ts \in Times \cup {0} /\ r.hash \in Nat
      BY <3>2 DEF Records
    <3> QED BY <2>2, <3>3, <3>4
  <2> QED BY <2>3, <2>4
<1>8. rec' \in Records /\ rec'.seq = n /\ rec'.prev = mem.prev /\ rec'.kind = kind /\ rec'.ref = ref
  <2>1. (IF now > mem.ts THEN now ELSE mem.ts) \in Times \cup {0}
    BY <1>7
  <2>2. sealed + 1 \in Nat
    BY DEF LogInv
  <2>3. ref \in Nat \cup {None}
    BY <1>7
  <2> QED BY <1>2, <1>6, <1>7, <2>1, <2>2, <2>3 DEF Records
<1>9. rec'.ts >= mem.ts
  <2>1. now \in Nat /\ mem.ts \in Nat
    <3>1. \A t \in Times : t \in Nat
      BY TimeAssumption DEF TimeAssumption
    <3>2. mem.ts \in Times \/ mem.ts = 0
      BY <1>7
    <3> QED BY <3>1, <3>2
  <2>2. rec'.ts = IF now > mem.ts THEN now ELSE mem.ts
    BY <1>6
  <2> QED BY <2>1, <2>2
<1>10. RecordFits'
  BY <1>4, <1>6, <1>8, <1>9 DEF RecordFits
<1>11. pc' \in {"rotate", "write"} /\ (pc' = "rotate" => mem.len > 0)
  BY <1>6
<1>12. MemFits(n, lo, hi, b)' /\ LineIn(H, n)'
  <2>1. pc # "pruneRemoveSync" /\ pc' # "pruneRemoveSync"
    BY <1>11
  <2>2. MemFits(n, lo, hi, b)'
    BY <1>4, <1>6, <2>1 DEF MemFits
  <2>3. LineIn(H, n)'
    BY <1>4, <1>5, <1>6 DEF LineIn
  <2> QED BY <2>2, <2>3
<1>13. Working(H, n, lo, hi, b)'
  BY <1>4, <1>6, <1>10, <1>11, <1>12 DEF Working, Written1, Pruning, Busy
<1> QED BY <1>2, <1>6, <1>11, <1>13, Works DEF Recovering

\* A decision or an outcome is sealed.
LEMMA RecordKeeps ==
  ASSUME LogInv, NEW size \in Sizes, NEW now \in Times,
         \/ \E kind \in {"allow", "deny"} : RecordDecision(kind, size, now)
         \/ mem # None /\ \E ref \in mem.open : RecordOutcome(ref, size, now)
  PROVE  LogInv'
<1>1. ASSUME NEW kind \in {"allow", "deny"}, RecordDecision(kind, size, now) PROVE LogInv'
  <2>1. pc = "ready" /\ ~mem.failed /\ Seal(kind, None, size, now) /\ kind \in Kinds /\ kind # "outcome"
    BY <1>1 DEF RecordDecision, Kinds
  <2> QED BY <2>1, SealKeeps
<1>2. ASSUME NEW ref \in mem.open, RecordOutcome(ref, size, now) PROVE LogInv'
  <2>1. pc = "ready" /\ ~mem.failed /\ Seal("outcome", ref, size, now) /\ "outcome" \in Kinds
    BY <1>2 DEF RecordOutcome, Kinds
  <2> QED BY <1>2, <2>1, SealKeeps
<1> QED BY <1>1, <1>2

\* An outcome for the oldest open decision is sealed.
LEMMA CloseOnRecoveryKeeps ==
  ASSUME LogInv, NEW size \in Sizes, NEW now \in Times, CloseOnRecovery(size, now)
  PROVE  LogInv'
<1>1. PICK H, n, lo, hi, b : Known(H, n, lo, hi, b)
  BY DEF LogInv
<1>2. pc = "close" /\ mem.open # {} /\ Seal("outcome", Lower(mem.open), size, now) /\ "outcome" \in Kinds
  BY DEF CloseOnRecovery, Kinds
<1>3. kept \subseteq Records /\ mem.open \subseteq Nat
  <2>1. MemFits(n, lo, hi, b) /\ kept \subseteq Records
    BY <1>1, <1>2, WorkSays, KnownSays DEF Alive, History
  <2> QED BY <2>1, RecordFields DEF MemFits, Place, OpenIn
<1>4. Lower(mem.open) \in mem.open
  BY <1>2, <1>3, LowestIs
<1> QED BY <1>2, <1>4, SealKeeps

\* The next system call of an append leaves the record and its history alone.
LEMMA AppendingIs ==
  ASSUME LogInv, NEW step, Appending(step)
  PROVE  pc' = step /\ kept' = kept /\ rec' = rec /\ Counted'
BY DEF Appending, Goto, NoError, counts, LogInv, Counted

\* A full segment is followed by a new one.
LEMMA RotateKeeps ==
  ASSUME LogInv, Rotate
  PROVE  LogInv'
<1>1. PICK H, n, lo, hi, b : Known(H, n, lo, hi, b)
  BY DEF LogInv
<1>2. /\ History(H, n) /\ Layout(seen, H, n, lo, hi, b) /\ kept \subseteq H /\ Cuts(n, lo, hi, b)
      /\ \A r \in H : r.seq + 1 < n \/ r.seq < Start(seen).next => r \in kept
      /\ DOMAIN seen.segs = lo..hi
  BY <1>1, KnownSays
<1>3. pc = "rotate" /\ Alive
  BY DEF Rotate, Alive, Busy
<1>4. /\ MemFits(n, lo, hi, b) /\ LineIn(H, n) /\ mem.next = n /\ NoneTorn(seen)
      /\ HeadAt(kept, mem.next, seen.head) /\ Start(seen).next = b[lo] /\ mem.len > 0 /\ RecordFits
  BY <1>1, <1>3, WorkSays DEF Written1, Busy
<1>5. CASE IoError /\ AppendFails(FALSE) /\ UNCHANGED files
  BY <1>3, <1>5, AppendFailsSoft DEF IoError, files
<1>6. CASE AppendFails(FALSE) /\ NoError /\ UNCHANGED files
  BY <1>3, <1>6, AppendFailsSoft DEF NoError, counts, files
<1>7. CASE /\ mem.seg + 1 \notin DOMAIN seen.segs /\ seen' = AddSegment(seen, mem.seg + 1)
           /\ Appending("rotateSync") /\ UNCHANGED <<durable, mem>>
  <2>1. pc' = "rotateSync" /\ kept' = kept /\ rec' = rec /\ mem' = mem /\ Counted'
    BY <1>7, AppendingIs
  <2>2. /\ mem.seg \in lo..hi /\ lo \in Nat /\ hi \in Nat /\ n \in Nat /\ b[hi] \in Nat /\ hi \in lo..hi
        /\ mem.seg = hi /\ b[hi + 1] = n
    <3>1. mem.seg \in lo..hi /\ lo \in Nat /\ hi \in Nat /\ n \in Nat /\ b[hi + 1] = n
      BY <1>2, <1>4, CutsFacts DEF MemFits, Cuts
    <3>2. hi \in lo..hi
      BY <3>1
    <3>3. mem.seg = hi
      BY <1>2, <1>4, <1>7, <3>2 DEF MemFits
    <3> QED BY <1>2, <3>1, <3>2, <3>3, CutsFacts
  <2> DEFINE k == hi + 1
             c == AddedTo(n, lo, hi, b)
  <2>3. b[hi] < n
    <3>1. mem.len # 0 /\ mem.next = n /\ (mem.len = 0 <=> b[hi] = n)
      BY <1>4, <2>2 DEF MemFits
    <3>2. b[hi] <= n
      BY <1>2, <2>2, CutsFacts
    <3> QED BY <2>2, <3>1, <3>2
  <2>4. k = hi + 1 /\ seen' = AddSegment(seen, k) /\ k \in Nat /\ k # hi /\ hi \in lo..k
        /\ lo \in lo..k /\ k \in lo..k /\ lo..hi \subseteq lo..k
    BY <1>7, <2>2
  <2> HIDE DEF k
  <2>0. /\ Layout(seen, H, n, lo, hi, b) /\ seen' = AddSegment(seen, k) /\ k = hi + 1
        /\ hi < lo \/ b[hi] < n
    BY <1>2, <2>3, <2>4
  <2>5. Layout(seen', H, n, lo, k, c)
    BY <2>0, LayoutAdd
  <2>6. Start(seen') = Start(seen) /\ seen'.head = seen.head /\ seen'.segs[k] = Empty
    BY <2>0, <2>5, LayoutAdd
  <2>7. (\A i \in lo..hi : seen'.segs[i] = seen.segs[i]) /\ \A i \in lo..k : c[i] = b[i]
    <3>1. \A i \in lo..hi : seen'.segs[i] = seen.segs[i]
      BY <2>0, <2>5, LayoutAdd
    <3>2. \A i \in lo..k : c[i] = b[i]
      BY <2>0, <2>5, LayoutAdd
    <3> QED BY <3>1, <3>2
  <2> HIDE DEF c
  <2>8. DOMAIN seen'.segs = lo..k /\ \A i \in lo..k : i = k \/ i \in lo..hi
    BY <2>2, <2>4, <2>5 DEF Layout
  <2>9. NoneTorn(seen')
    BY <1>2, <1>4, <2>6, <2>7, <2>8 DEF NoneTorn, Empty
  <2>10. c[lo] = b[lo] /\ c[hi] = b[hi] /\ c[k] = n
    BY <2>2, <2>4, <2>7
  <2>11. MemFits(n, lo, k, c)'
    <3>1. pc # "pruneRemoveSync" /\ pc' # "pruneRemoveSync" /\ mem.seg \in lo..k /\ mem.seg + 1 = k
      BY <1>3, <2>1, <2>2, <2>4
    <3> QED BY <1>4, <2>1, <2>2, <2>10, <3>1 DEF MemFits
  <2>12. LineIn(H, n)'
    BY <1>4, <2>1, <2>2, <2>7 DEF LineIn
  <2>13. RecordFits'
    BY <1>4, <2>1 DEF RecordFits
  <2>14. Working(H, n, lo, k, c)'
    BY <1>4, <2>1, <2>2, <2>4, <2>6, <2>9, <2>10, <2>11, <2>12, <2>13
       DEF Working, Written1, Pruning, Busy
  <2> QED BY <1>2, <2>1, <2>5, <2>6, <2>14, Works DEF Recovering
<1> QED BY <1>5, <1>6, <1>7 DEF Rotate

\* Whether another segment has to go.
LEMMA RetainsIs ==
  ASSUME NEW k \in Nat, ~Retains(k)
  PROVE  MaxSegments \in Nat /\ k >= 2
<1>1. MaxSegments \in Nat \ {0} /\ ~(k <= MaxSegments)
  BY RetentionAssumption DEF Retains, RetentionAssumption
<1> QED BY <1>1

\* Inner of a log, of one that has not failed.
Shaped(m) == m = [seg |-> m.seg, len |-> m.len, count |-> m.count, next |-> m.next,
                  prev |-> m.prev, ts |-> m.ts, open |-> m.open, failed |-> m.failed]
Sound(m)  == m = [seg |-> m.seg, len |-> m.len, count |-> m.count, next |-> m.next,
                  prev |-> m.prev, ts |-> m.ts, open |-> m.open, failed |-> FALSE]

\* Memory that has not failed.
LEMMA SoundIs ==
  ASSUME NEW m
  PROVE  Sound(m) <=> Shaped(m) /\ m.failed = FALSE
<1>1. Sound(m) => Shaped(m) /\ m.failed = FALSE
  BY DEF Sound, Shaped
<1>2. Shaped(m) /\ m.failed = FALSE => Sound(m)
  BY DEF Sound, Shaped
<1> QED BY <1>1, <1>2

\* The new segment is flushed; perhaps there are too many now.
LEMMA SyncRotateKeeps ==
  ASSUME LogInv, SyncRotate
  PROVE  LogInv'
<1>1. PICK H, n, lo, hi, b : Known(H, n, lo, hi, b)
  BY DEF LogInv
<1>2. /\ History(H, n) /\ Layout(seen, H, n, lo, hi, b) /\ kept \subseteq H /\ Cuts(n, lo, hi, b)
      /\ \A r \in H : r.seq + 1 < n \/ r.seq < Start(seen).next => r \in kept
  BY <1>1, KnownSays
<1>3. pc = "rotateSync" /\ Alive
  BY DEF SyncRotate, Alive, Busy
<1>4. /\ MemFits(n, lo, hi, b) /\ LineIn(H, n) /\ mem.next = n /\ NoneTorn(seen)
      /\ HeadAt(kept, mem.next, seen.head) /\ Start(seen).next = b[lo] /\ mem.seg + 1 = hi /\ RecordFits
  BY <1>1, <1>3, WorkSays DEF Written1, Busy
<1>5. CASE IoError /\ AppendFails(FALSE) /\ UNCHANGED files
  BY <1>3, <1>5, AppendFailsSoft DEF IoError, files
<1>6. CASE /\ SyncDir /\ mem' = [mem EXCEPT !.seg = @ + 1, !.len = 0, !.count = @ + 1]
           /\ Appending(IF Retains(mem.count + 1) THEN "write" ELSE "prune")
           /\ UNCHANGED seen
  <2>1. /\ pc' = (IF Retains(mem.count + 1) THEN "write" ELSE "prune")
        /\ kept' = kept /\ rec' = rec /\ seen' = seen /\ Counted'
    BY <1>6, AppendingIs
  <2>2. /\ lo \in Nat /\ hi \in Nat /\ n \in Nat /\ mem.seg \in lo..hi /\ hi \in lo..hi /\ b[hi] = n
        /\ mem.count = mem.seg - lo + 1
    <3>1. /\ lo \in Nat /\ hi \in Nat /\ n \in Nat /\ mem.seg \in lo..hi
          /\ mem.seg = hi \/ (mem.seg + 1 = hi /\ b[hi] = n)
          /\ mem.count = mem.seg - lo + 1
      BY <1>2, <1>3, <1>4, CutsFacts DEF MemFits
    <3> QED BY <1>4, <3>1
  <2>3. /\ mem' = [seg |-> mem'.seg, len |-> mem'.len, count |-> mem'.count, next |-> mem'.next,
                   prev |-> mem'.prev, ts |-> mem'.ts, open |-> mem'.open, failed |-> FALSE]
        /\ mem'.seg = mem.seg + 1 /\ mem'.len = 0 /\ mem'.count = mem.count + 1 /\ mem'.next = mem.next
        /\ mem'.prev = mem.prev /\ mem'.ts = mem.ts /\ mem'.open = mem.open
    <3>1. Shaped(mem) /\ mem.failed = FALSE
      BY <1>4, SoundIs DEF MemFits, Sound
    <3>2. mem' = [mem EXCEPT !.seg = @ + 1, !.len = 0, !.count = @ + 1]
      BY <1>6
    <3>3. Shaped(mem')
      BY <3>1, <3>2 DEF Shaped
    <3>4. /\ mem'.failed = FALSE /\ mem'.seg = mem.seg + 1 /\ mem'.len = 0 /\ mem'.count = mem.count + 1
          /\ mem'.next = mem.next /\ mem'.prev = mem.prev /\ mem'.ts = mem.ts /\ mem'.open = mem.open
      BY <3>1, <3>2 DEF Shaped
    <3>5. Sound(mem')
      BY <3>3, <3>4, SoundIs
    <3> QED BY <3>4, <3>5 DEF Sound
  <2>4. mem'.seg = hi /\ mem'.count = hi - lo + 1 /\ mem.count + 1 = hi - lo + 1
    BY <1>4, <2>2, <2>3
  <2>5. MemFits(n, lo, hi, b)'
    <3>1. Place(kept, mem.next, mem')
      BY <1>4, <2>3 DEF MemFits, Place
    <3>2. pc' # "pruneRemoveSync"
      BY <2>1
    <3> QED BY <1>4, <2>1, <2>2, <2>3, <2>4, <3>1, <3>2 DEF MemFits
  <2>6. LineIn(H, n)'
    <3>1. seen.segs[hi].len = 0
      <4>1. Holds(seen.segs[hi], H, b[hi], b[hi + 1]) /\ b[hi + 1] = n
        BY <1>2, <2>2 DEF Layout, Cuts
      <4>2. seen.segs[hi].recs = <<>>
        BY <1>2, <2>2, <4>1, RecordAt
      <4> QED BY <4>1, <4>2 DEF Holds
    <3> QED BY <1>4, <2>1, <2>3, <2>4, <3>1 DEF LineIn
  <2>7. RecordFits'
    BY <1>4, <2>1, <2>3 DEF RecordFits
  <2>8. pc' = "prune" => MaxSegments \in Nat /\ lo < hi
    <3> SUFFICES ASSUME pc' = "prune" PROVE MaxSegments \in Nat /\ lo < hi
      OBVIOUS
    <3>1. ~Retains(mem.count + 1) /\ mem.count + 1 \in Nat
      BY <2>1, <2>2, <2>4
    <3>2. MaxSegments \in Nat /\ mem.count + 1 >= 2
      BY <3>1, RetainsIs
    <3> QED BY <2>2, <2>4, <3>2
  <2>9. pc' \in {"write", "prune"}
    BY <2>1
  <2>10. Working(H, n, lo, hi, b)'
    BY <1>4, <2>1, <2>2, <2>3, <2>4, <2>5, <2>6, <2>7, <2>8, <2>9 DEF Working, Written1, Pruning, Busy, NoneTorn
  <2> QED BY <1>2, <2>1, <2>9, <2>10, Works DEF Recovering
<1> QED BY <1>5, <1>6 DEF SyncRotate

\* The checkpoint is moved behind the oldest segment.
LEMMA PruneKeeps ==
  ASSUME LogInv, Prune
  PROVE  LogInv'
<1>1. PICK H, n, lo, hi, b : Known(H, n, lo, hi, b)
  BY DEF LogInv
<1>2. /\ History(H, n) /\ Layout(seen, H, n, lo, hi, b) /\ kept \subseteq H /\ Cuts(n, lo, hi, b)
      /\ DOMAIN seen.segs = lo..hi
  BY <1>1, KnownSays
<1>3. pc = "prune" /\ Alive
  BY DEF Prune, Alive, Busy, Pruning
<1>4. /\ MemFits(n, lo, hi, b) /\ LineIn(H, n) /\ mem.next = n /\ NoneTorn(seen)
      /\ HeadAt(kept, mem.next, seen.head) /\ Start(seen).next = b[lo] /\ RecordFits
      /\ mem.seg = hi /\ b[hi] = n /\ MaxSegments \in Nat /\ lo < hi
  BY <1>1, <1>3, WorkSays DEF Written1, Busy, Pruning
<1>5. CASE IoError /\ AppendFails(TRUE) /\ UNCHANGED files
  BY <1>3, <1>5, AppendFailsHard DEF files
<1> DEFINE recs == seen.segs[lo].recs
           e == [seen EXCEPT !.checkpoint = CheckpointAfter(seen, recs)]
<1>6. lo \in Nat /\ hi \in Nat /\ lo \in lo..hi /\ Lower(DOMAIN seen.segs) = lo
  <2>1. lo \in Nat /\ hi \in Nat
    BY <1>2, CutsFacts
  <2>2. lo \in lo..hi /\ lo..hi \subseteq Int /\ \A y \in lo..hi : lo <= y
    BY <1>4, <2>1
  <2> QED BY <1>2, <2>1, <2>2, LowerIs
<1>7. /\ Layout(e, H, n, lo, hi, b) /\ Start(e).next = b[lo + 1] /\ b[lo] < b[lo + 1]
      /\ e.head = seen.head /\ e.segs = seen.segs
      /\ \E r \in ToSet(recs) : r.seq >= Start(seen).next
  BY <1>2, <1>4, LayoutCheckpoint
<1>8. CASE /\ seen' = e /\ Appending("pruneSync") /\ UNCHANGED <<durable, mem>>
  <2>1. pc' = "pruneSync" /\ kept' = kept /\ rec' = rec /\ mem' = mem /\ Counted' /\ seen' = e
    BY <1>8, AppendingIs
  <2> HIDE DEF e
  <2>2. MemFits(n, lo, hi, b)' /\ RecordFits' /\ LineIn(H, n)' /\ kept = H
    <3>1. pc' # "pruneRemoveSync" /\ pc # "pruneRemoveSync"
      BY <1>3, <2>1
    <3>2. MemFits(n, lo, hi, b)'
      BY <1>4, <2>1, <3>1 DEF MemFits
    <3>3. RecordFits'
      BY <1>4, <2>1 DEF RecordFits
    <3>4. LineIn(H, n)' /\ kept = H
      BY <1>4, <1>7, <2>1 DEF LineIn
    <3> QED BY <3>2, <3>3, <3>4
  <2>3. NoneTorn(seen')
    BY <1>4, <1>7, <2>1 DEF NoneTorn
  <2>4. Start(seen').next # b[lo]
    <3>1. b[lo] \in Nat
      BY <1>2, CutsFacts
    <3> QED BY <1>7, <2>1, <3>1
  <2>5. seen'.head = seen.head
    BY <1>7, <2>1
  <2>6. Working(H, n, lo, hi, b)'
    BY <1>4, <2>1, <2>2, <2>3, <2>4, <2>5 DEF Working, Written1, Pruning, Busy
  <2>7. Layout(seen', H, n, lo, hi, b)
    BY <1>7, <2>1
  <2> QED BY <1>2, <2>1, <2>2, <2>6, <2>7, Works DEF Recovering
<1> QED
  <2>1. CASE LET recs1 == seen.segs[Lower(DOMAIN seen.segs)].recs
                 some == \E r \in ToSet(recs1) : r.seq >= Start(seen).next IN
             /\ seen' = IF some THEN [seen EXCEPT !.checkpoint = CheckpointAfter(seen, recs1)] ELSE seen
             /\ Appending(IF some THEN "pruneSync" ELSE "pruneRemove")
             /\ UNCHANGED <<durable, mem>>
    BY <1>6, <1>7, <1>8, <2>1
  <2> QED BY <1>5, <2>1 DEF Prune

\* The checkpoint is flushed.
LEMMA SyncPruneKeeps ==
  ASSUME LogInv, SyncPrune
  PROVE  LogInv'
<1>1. PICK H, n, lo, hi, b : Known(H, n, lo, hi, b)
  BY DEF LogInv
<1>2. /\ History(H, n) /\ Layout(seen, H, n, lo, hi, b) /\ kept \subseteq H
      /\ \A r \in H : r.seq + 1 < n \/ r.seq < Start(seen).next => r \in kept
  BY <1>1, KnownSays
<1>3. pc = "pruneSync" /\ Alive
  BY DEF SyncPrune, Alive, Busy, Pruning
<1>4. /\ MemFits(n, lo, hi, b) /\ LineIn(H, n) /\ mem.next = n /\ NoneTorn(seen)
      /\ HeadAt(kept, mem.next, seen.head) /\ Start(seen).next # b[lo] /\ RecordFits
      /\ mem.seg = hi /\ b[hi] = n /\ MaxSegments \in Nat /\ lo < hi
  BY <1>1, <1>3, WorkSays DEF Written1, Busy, Pruning
<1>5. CASE IoError /\ AppendFails(TRUE) /\ UNCHANGED files
  BY <1>3, <1>5, AppendFailsHard DEF files
<1>6. CASE SyncDir /\ Appending("pruneRemove") /\ UNCHANGED <<seen, mem>>
  <2>1. pc' = "pruneRemove" /\ kept' = kept /\ rec' = rec /\ mem' = mem /\ seen' = seen /\ Counted'
    BY <1>6, AppendingIs
  <2>2. MemFits(n, lo, hi, b)' /\ RecordFits' /\ LineIn(H, n)'
    BY <1>3, <1>4, <2>1 DEF MemFits, RecordFits, LineIn
  <2>3. Working(H, n, lo, hi, b)'
    BY <1>4, <2>1, <2>2 DEF Working, Written1, Pruning, Busy
  <2> QED BY <1>2, <2>1, <2>3, Works DEF Recovering
<1> QED BY <1>5, <1>6 DEF SyncPrune

\* The oldest segment is removed.
LEMMA PruneRemoveKeeps ==
  ASSUME LogInv, PruneRemove
  PROVE  LogInv'
<1>1. PICK H, n, lo, hi, b : Known(H, n, lo, hi, b)
  BY DEF LogInv
<1>2. /\ History(H, n) /\ Layout(seen, H, n, lo, hi, b) /\ kept \subseteq H /\ Cuts(n, lo, hi, b)
      /\ \A r \in H : r.seq + 1 < n \/ r.seq < Start(seen).next => r \in kept
      /\ DOMAIN seen.segs = lo..hi
  BY <1>1, KnownSays
<1>3. pc = "pruneRemove" /\ Alive
  BY DEF PruneRemove, Alive, Busy, Pruning
<1>4. /\ MemFits(n, lo, hi, b) /\ LineIn(H, n) /\ mem.next = n /\ NoneTorn(seen)
      /\ HeadAt(kept, mem.next, seen.head) /\ Start(seen).next # b[lo] /\ RecordFits
      /\ mem.seg = hi /\ b[hi] = n /\ MaxSegments \in Nat /\ lo < hi
  BY <1>1, <1>3, WorkSays DEF Written1, Busy, Pruning
<1>5. CASE IoError /\ AppendFails(TRUE) /\ UNCHANGED files
  BY <1>3, <1>5, AppendFailsHard DEF files
<1>6. CASE /\ seen' = DropSegment(seen, Lower(DOMAIN seen.segs))
           /\ Appending("pruneRemoveSync") /\ UNCHANGED <<durable, mem>>
  <2>1. pc' = "pruneRemoveSync" /\ kept' = kept /\ rec' = rec /\ mem' = mem /\ Counted'
    BY <1>6, AppendingIs
  <2>2. lo \in Nat /\ hi \in Nat /\ Lower(DOMAIN seen.segs) = lo
    <3>1. lo \in Nat /\ hi \in Nat
      BY <1>2, CutsFacts
    <3>2. lo \in lo..hi /\ lo..hi \subseteq Int /\ \A y \in lo..hi : lo <= y
      BY <1>4, <3>1
    <3> QED BY <1>2, <3>1, <3>2, LowerIs
  <2> DEFINE c == Behind(lo, hi, b)
             k == lo + 1
  <2>3. seen' = DropSegment(seen, lo) /\ hi \in k..hi /\ hi \in k..(hi + 1) /\ mem.count = hi - k + 2
        /\ k \in Nat /\ lo..hi = {lo} \cup (k..hi)
    <3>1. mem.count = mem.seg - lo + 1
      BY <1>3, <1>4 DEF MemFits
    <3> QED BY <1>4, <1>6, <2>2, <3>1
  <2>4. /\ Layout(seen', H, n, k, hi, c) /\ Start(seen') = Start(seen) /\ seen'.head = seen.head
        /\ Start(seen').next = c[k] /\ (\A i \in k..hi : seen'.segs[i] = seen.segs[i])
        /\ \A i \in k..(hi + 1) : c[i] = b[i]
    <3>1. Layout(seen, H, n, lo, hi, b)
      BY <1>2
    <3>2. Layout(seen', H, n, lo + 1, hi, Behind(lo, hi, b))
      BY <1>4, <2>3, <3>1, LayoutDrop
    <3>3. /\ Start(seen') = Start(seen) /\ seen'.head = seen.head
          /\ Start(seen').next = Behind(lo, hi, b)[lo + 1]
      BY <1>4, <2>3, <3>1, <3>2, LayoutDrop
    <3>4. \A i \in (lo + 1)..hi : seen'.segs[i] = seen.segs[i]
      BY <1>4, <2>3, <3>1, <3>2, LayoutDrop
    <3>5. \A i \in (lo + 1)..(hi + 1) : Behind(lo, hi, b)[i] = b[i]
      BY <1>4, <2>3, <3>1, <3>2, LayoutDrop
    <3> QED BY <3>2, <3>3, <3>4, <3>5
  <2>5. NoneTorn(seen')
    <3>1. DOMAIN seen'.segs = k..hi
      BY <2>4 DEF Layout
    <3> QED BY <1>2, <1>4, <2>3, <2>4, <3>1 DEF NoneTorn
  <2>6. c[hi] = b[hi] /\ seen'.segs[hi] = seen.segs[hi]
    BY <2>3, <2>4
  <2> HIDE DEF c, k
  <2>7. MemFits(n, k, hi, c)'
    BY <1>4, <2>1, <2>3, <2>6 DEF MemFits
  <2>8. RecordFits' /\ LineIn(H, n)'
    BY <1>4, <2>1, <2>6 DEF RecordFits, LineIn
  <2>9. Working(H, n, k, hi, c)'
    BY <1>4, <2>1, <2>4, <2>5, <2>6, <2>7, <2>8 DEF Working, Written1, Pruning, Busy
  <2> QED BY <1>2, <2>1, <2>4, <2>9, Works DEF Recovering
<1> QED BY <1>5, <1>6 DEF PruneRemove

\* Its removal is flushed.
LEMMA SyncPruneRemoveKeeps ==
  ASSUME LogInv, SyncPruneRemove
  PROVE  LogInv'
<1>1. PICK H, n, lo, hi, b : Known(H, n, lo, hi, b)
  BY DEF LogInv
<1>2. /\ History(H, n) /\ Layout(seen, H, n, lo, hi, b) /\ kept \subseteq H /\ Cuts(n, lo, hi, b)
      /\ \A r \in H : r.seq + 1 < n \/ r.seq < Start(seen).next => r \in kept
  BY <1>1, KnownSays
<1>3. pc = "pruneRemoveSync" /\ Alive
  BY DEF SyncPruneRemove, Alive, Busy, Pruning
<1>4. /\ MemFits(n, lo, hi, b) /\ LineIn(H, n) /\ mem.next = n /\ NoneTorn(seen)
      /\ HeadAt(kept, mem.next, seen.head) /\ Start(seen).next = b[lo] /\ RecordFits
      /\ mem.seg = hi /\ b[hi] = n /\ MaxSegments \in Nat
  BY <1>1, <1>3, WorkSays DEF Written1, Busy, Pruning
<1>5. CASE IoError /\ AppendFails(TRUE) /\ UNCHANGED files
  BY <1>3, <1>5, AppendFailsHard DEF files
<1>6. CASE /\ SyncDir /\ mem' = [mem EXCEPT !.count = @ - 1]
           /\ Appending(IF Retains(mem.count - 1) THEN "write" ELSE "prune")
           /\ UNCHANGED seen
  <2>1. /\ pc' = (IF Retains(mem.count - 1) THEN "write" ELSE "prune")
        /\ kept' = kept /\ rec' = rec /\ seen' = seen /\ Counted'
    BY <1>6, AppendingIs
  <2>2. /\ mem' = [seg |-> mem'.seg, len |-> mem'.len, count |-> mem'.count, next |-> mem'.next,
                   prev |-> mem'.prev, ts |-> mem'.ts, open |-> mem'.open, failed |-> FALSE]
        /\ mem'.seg = mem.seg /\ mem'.len = mem.len /\ mem'.count = mem.count - 1 /\ mem'.next = mem.next
        /\ mem'.prev = mem.prev /\ mem'.ts = mem.ts /\ mem'.open = mem.open
    <3>1. Shaped(mem) /\ mem.failed = FALSE
      BY <1>4, SoundIs DEF MemFits, Sound
    <3>2. mem' = [mem EXCEPT !.count = @ - 1]
      BY <1>6
    <3>3. Shaped(mem')
      BY <3>1, <3>2 DEF Shaped
    <3>4. /\ mem'.failed = FALSE /\ mem'.seg = mem.seg /\ mem'.len = mem.len /\ mem'.count = mem.count - 1
          /\ mem'.next = mem.next /\ mem'.prev = mem.prev /\ mem'.ts = mem.ts /\ mem'.open = mem.open
      BY <3>1, <3>2 DEF Shaped
    <3>5. Sound(mem')
      BY <3>3, <3>4, SoundIs
    <3> QED BY <3>4, <3>5 DEF Sound
  <2>3. lo \in Nat /\ hi \in Nat /\ hi \in lo..hi /\ mem.count = hi - lo + 2
    BY <1>2, <1>3, <1>4, CutsFacts DEF MemFits
  <2>4. mem.count - 1 = hi - lo + 1 /\ mem.count - 1 \in Nat
    BY <2>3
  <2>5. MemFits(n, lo, hi, b)'
    <3>1. Place(kept, mem.next, mem')
      BY <1>4, <2>2 DEF MemFits, Place
    <3>2. pc' # "pruneRemoveSync"
      BY <2>1
    <3> QED BY <1>4, <2>1, <2>2, <2>3, <2>4, <3>1, <3>2 DEF MemFits
  <2>6. LineIn(H, n)' /\ RecordFits'
    BY <1>4, <2>1, <2>2 DEF LineIn, RecordFits
  <2>7. pc' = "prune" => lo < hi
    <3> SUFFICES ASSUME pc' = "prune" PROVE lo < hi
      OBVIOUS
    <3>1. ~Retains(mem.count - 1)
      BY <2>1
    <3>2. mem.count - 1 >= 2
      BY <2>4, <3>1, RetainsIs
    <3> QED BY <2>3, <2>4, <3>2
  <2>8. pc' \in {"write", "prune"}
    BY <2>1
  <2>9. Working(H, n, lo, hi, b)'
    BY <1>4, <2>1, <2>2, <2>5, <2>6, <2>7, <2>8 DEF Working, Written1, Pruning, Busy
  <2> QED BY <1>2, <2>1, <2>8, <2>9, Works DEF Recovering
<1> QED BY <1>5, <1>6 DEF SyncPruneRemove

\* Where the segment of an append stands.
LEMMA OwnSegment ==
  ASSUME NEW H, NEW n, NEW lo, NEW hi, NEW b, History(H, n), Layout(seen, H, n, lo, hi, b),
         MemFits(n, lo, hi, b), LineIn(H, n), RecordFits
  PROVE  /\ mem.seg \in lo..hi /\ mem.seg \in Nat /\ lo \in Nat /\ hi \in Nat /\ n \in Nat
         /\ mem.next \in Nat /\ b[mem.seg] \in Nat /\ b[mem.seg + 1] = n /\ b[mem.seg] <= mem.next
         /\ mem.seg = hi \/ (mem.seg + 1 = hi /\ b[mem.seg] < mem.next)
         /\ Holds(seen.segs[mem.seg], H, b[mem.seg], n)
         /\ mem.next # n => b[mem.seg] < n
<1>1. /\ mem.seg \in lo..hi /\ mem.len \in Nat /\ (mem.len = 0 <=> b[mem.seg] = mem.next)
      /\ mem.seg = hi \/ (mem.seg + 1 = hi /\ b[hi] = n /\ mem.len > 0)
  BY DEF MemFits
<1>2. Cuts(n, lo, hi, b) /\ lo \in Nat /\ hi \in Nat /\ n \in Nat /\ mem.seg \in Nat
  BY <1>1, CutsFacts DEF Layout
<1>3. b[mem.seg] \in Nat /\ b[mem.seg + 1] = n /\ b[mem.seg] <= n
  <2>1. b[hi + 1] = n
    BY <1>2 DEF Cuts
  <2>2. b[mem.seg + 1] = n
    BY <1>1, <2>1
  <2> QED BY <1>1, <1>2, <2>2, CutsFacts
<1>4. Holds(seen.segs[mem.seg], H, b[mem.seg], n)
  BY <1>1, <1>3 DEF Layout
<1>5. CASE mem.next = n
  BY <1>1, <1>2, <1>3, <1>4, <1>5
<1>6. CASE mem.next # n
  <2>1. mem.next + 1 = n /\ seen.segs[mem.seg].len = mem.len + rec.size
    BY <1>6 DEF LineIn
  <2>2. rec.size \in Nat \ {0} /\ mem.next \in Nat
    BY RecordFields DEF RecordFits
  <2>3. seen.segs[mem.seg].len # 0
    BY <1>1, <2>1, <2>2
  <2>4. seen.segs[mem.seg].recs # <<>>
    BY <1>4, <2>3 DEF Holds
  <2>5. b[mem.seg] # n
    BY <1>1, <1>3, <2>4, RecordAt
  <2> QED BY <1>1, <1>2, <1>3, <1>4, <2>1, <2>2, <2>5
<1> QED BY <1>5, <1>6

\* The line is in the segment, flushed or not.
LEMMA LineWritten ==
  ASSUME LogInv, pc = "write", seen' = SetSegment(seen, mem.seg, WithLine(seen.segs[mem.seg])),
         pc' \in {"sync", "rollback"}, UNCHANGED <<kept, rec, mem>>, Counted'
  PROVE  LogInv'
<1>1. PICK H, n, lo, hi, b : Known(H, n, lo, hi, b)
  BY DEF LogInv
<1>2. /\ History(H, n) /\ Layout(seen, H, n, lo, hi, b) /\ Cuts(n, lo, hi, b) /\ DOMAIN seen.segs = lo..hi
      /\ \A r \in H : r.seq + 1 < n \/ r.seq < Start(seen).next => r \in kept
  BY <1>1, KnownSays
<1>3. /\ MemFits(n, lo, hi, b) /\ LineIn(H, n) /\ mem.next = n /\ NoneTorn(seen)
      /\ HeadAt(kept, mem.next, seen.head) /\ Start(seen).next = b[lo] /\ RecordFits
  <2>1. Alive
    BY DEF Alive, Busy
  <2> QED BY <1>1, <2>1, WorkSays DEF Written1, Busy
<1>4. /\ mem.seg \in lo..hi /\ mem.seg \in Nat /\ lo \in Nat /\ hi \in Nat /\ n \in Nat
      /\ b[mem.seg] \in Nat /\ b[mem.seg + 1] = n /\ b[mem.seg] <= n
      /\ mem.seg = hi \/ (mem.seg + 1 = hi /\ b[mem.seg] < n)
  BY <1>2, <1>3, OwnSegment
<1>5. /\ kept = H /\ seen.segs[mem.seg].len = mem.len /\ rec \in Records /\ rec.seq = n
      /\ rec.prev = mem.prev /\ rec.ts >= mem.ts /\ (rec.kind = "outcome" => rec.ref \in mem.open)
      /\ Place(H, n, mem)
  BY <1>3 DEF LineIn, RecordFits, MemFits
<1> DEFINE m == n + 1
<1>6. PICK G : G = H \cup {rec} /\ History(G, m)
  BY <1>2, <1>5, HistoryGrows
<1>7. WithLine(seen.segs[mem.seg]) = Lined(seen.segs[mem.seg], rec)
  <2> DEFINE s == seen.segs[mem.seg]
  <2>1. Holds(s, H, b[mem.seg], n)
    BY <1>2, <1>3, OwnSegment
  <2>2. s = [recs |-> s.recs, torn |-> s.torn, len |-> s.len]
    BY <2>1 DEF Holds
  <2> HIDE DEF s
  <2>3. WithLine(s) = Lined(s, rec)
    BY <2>2, LineAppended DEF WithLine, Lined
  <2> QED BY <2>3 DEF s
<1>7a. /\ Moved(m, mem.seg, lo, hi, b)[mem.seg] = b[mem.seg]
       /\ mem.seg # hi => Moved(m, mem.seg, lo, hi, b)[hi] = m
  <2> DEFINE i == mem.seg
             x == n + 1
  <2>1. /\ Cuts(n, lo, hi, b) /\ i \in lo..hi /\ x \in Nat /\ b[i + 1] = n /\ b[i] <= x
        /\ i = hi \/ (i + 1 = hi /\ b[i] < x)
    BY <1>2, <1>4
  <2>4. i \in lo..i
    BY <1>4
  <2> HIDE DEF i, x
  <2>2. Cuts(x, lo, hi, Moved(x, i, lo, hi, b))
    BY <2>1, MovedFacts
  <2>3. i # hi => Moved(x, i, lo, hi, b)[hi] = x
    BY <2>1, <2>2, MovedFacts
  <2>5. \A j \in lo..i : Moved(x, i, lo, hi, b)[j] = b[j]
    BY <2>1, <2>2, MovedFacts
  <2>6. Moved(x, i, lo, hi, b)[i] = b[i]
    BY <2>4, <2>5
  <2> QED BY <2>3, <2>6 DEF i, x
<1>8. PICK c :
      /\ c = Moved(m, mem.seg, lo, hi, b) /\ Layout(seen', G, m, lo, hi, c)
      /\ Start(seen') = Start(seen) /\ seen'.head = seen.head
      /\ seen'.segs[mem.seg].len = seen.segs[mem.seg].len + rec.size
      /\ seen'.segs[mem.seg].torn = seen.segs[mem.seg].torn
      /\ \A j \in lo..hi : j # mem.seg => seen'.segs[j] = seen.segs[j]
      /\ Start(seen').next = c[lo] /\ c[mem.seg] = b[mem.seg]
  <2> DEFINE i == mem.seg
             r == rec
  <2>1. /\ History(H, n) /\ Layout(seen, H, n, lo, hi, b) /\ Start(seen).next = b[lo]
        /\ i \in lo..hi /\ b[i + 1] = n /\ (i = hi \/ i + 1 = hi) /\ r \in Records /\ r.seq = n
        /\ seen' = SetSegment(seen, i, Lined(seen.segs[i], r))
    BY <1>2, <1>3, <1>4, <1>5, <1>7
  <2> HIDE DEF i, r
  <2>2. Layout(seen', H \cup {r}, n + 1, lo, hi, Moved(n + 1, i, lo, hi, b))
    BY <2>1, LayoutGrows
  <2>3. seen'.head = seen.head
    BY <2>1, <2>2, LayoutGrows
  <2>7. Start(seen') = Start(seen)
    BY <2>1, <2>2, LayoutGrows
  <2>4. seen'.segs[i].len = seen.segs[i].len + r.size /\ seen'.segs[i].torn = seen.segs[i].torn
    BY <2>1, <2>2, LayoutGrows
  <2>5. \A j \in lo..hi : j # i => seen'.segs[j] = seen.segs[j]
    BY <2>1, <2>2, LayoutGrows
  <2>6. Moved(n + 1, i, lo, hi, b)[i] = b[i]
    BY <1>7a DEF i
  <2>8. Start(seen').next = Moved(n + 1, i, lo, hi, b)[lo]
    BY <2>1, <2>2, LayoutGrows
  <2> QED BY <1>6, <2>2, <2>3, <2>4, <2>5, <2>6, <2>7, <2>8 DEF i, r
<1>9. mem.seg # hi => c[hi] = m
  BY <1>8, <1>7a
<1>10. m \in Nat /\ n # m /\ mem.next + 1 = m
  BY <1>3, <1>4
<1>11. rec \notin kept
  BY <1>2, <1>4, <1>5 DEF History
<1>12. \A r \in G : r.seq + 1 < m \/ r.seq < Start(seen').next => r \in kept'
  <2>1. Start(seen).next \in Nat /\ Start(seen).next <= n
    BY <1>2, FloorFacts
  <2>2. ~(rec.seq + 1 < m) /\ ~(rec.seq < Start(seen').next)
    BY <1>4, <1>5, <1>8, <2>1
  <2> QED BY <1>5, <1>6, <2>2
<1> HIDE DEF m
<1>13. MemFits(m, lo, hi, c)'
  <2>1. /\ mem.seg = hi \/ (mem.seg + 1 = hi /\ c[hi] = m /\ mem.len > 0)
        /\ mem.len = 0 <=> c[mem.seg] = mem.next
    BY <1>3, <1>8, <1>9 DEF MemFits
  <2>2. pc' # "pruneRemoveSync" /\ pc # "pruneRemoveSync"
    OBVIOUS
  <2>3. /\ mem = [seg |-> mem.seg, len |-> mem.len, count |-> mem.count, next |-> mem.next,
                  prev |-> mem.prev, ts |-> mem.ts, open |-> mem.open, failed |-> FALSE]
        /\ mem.len \in Nat /\ Place(kept, mem.next, mem) /\ mem.seg \in lo..hi
        /\ mem.count = mem.seg - lo + 1
    BY <1>3, <2>2 DEF MemFits
  <2>4. /\ mem' = [seg |-> mem'.seg, len |-> mem'.len, count |-> mem'.count, next |-> mem'.next,
                   prev |-> mem'.prev, ts |-> mem'.ts, open |-> mem'.open, failed |-> FALSE]
        /\ Place(kept', mem'.next, mem')
    BY <2>3
  <2>5. mem'.count = mem'.seg - lo + IF pc' = "pruneRemoveSync" THEN 2 ELSE 1
    BY <2>2, <2>3
  <2> QED BY <2>1, <2>3, <2>4, <2>5 DEF MemFits
<1>14. LineIn(G, m)'
  BY <1>3, <1>5, <1>6, <1>8, <1>10, <1>11 DEF LineIn
<1>15. NoneTorn(seen')
  <2>1. DOMAIN seen'.segs = lo..hi
    BY <1>8 DEF Layout
  <2> QED BY <1>2, <1>3, <1>4, <1>8, <2>1 DEF NoneTorn
<1>16. RecordFits' /\ OnlyTorn(seen', mem.seg)
  BY <1>3, <1>15 DEF RecordFits, NoneTorn, OnlyTorn
<1>17. Working(G, m, lo, hi, c)'
  BY <1>3, <1>8, <1>10, <1>13, <1>14, <1>15, <1>16 DEF Working, Written1, Pruning, Busy
<1>18. kept' \subseteq G
  BY <1>5, <1>6
<1> QED BY <1>6, <1>8, <1>12, <1>17, <1>18, Works DEF Recovering

\* Whether a part of the line is in the segment or has been cut off.
LEMMA LineTorn ==
  ASSUME LogInv, pc \in {"write", "rollback"}, NEW t \in BOOLEAN,
         pc = "rollback" => seen.segs[mem.seg].len = mem.len,
         seen' = SetSegment(seen, mem.seg, [seen.segs[mem.seg] EXCEPT !.torn = t]),
         pc' = "rollback" \/ (pc' = "rollbackSync" /\ t = FALSE),
         UNCHANGED <<kept, rec, mem>>, Counted'
  PROVE  LogInv'
<1>1. PICK H, n, lo, hi, b : Known(H, n, lo, hi, b)
  BY DEF LogInv
<1>2. /\ History(H, n) /\ Layout(seen, H, n, lo, hi, b) /\ DOMAIN seen.segs = lo..hi /\ kept \subseteq H
      /\ \A r \in H : r.seq + 1 < n \/ r.seq < Start(seen).next => r \in kept
  BY <1>1, KnownSays
<1>3. /\ MemFits(n, lo, hi, b) /\ LineIn(H, n) /\ OnlyTorn(seen, mem.seg)
      /\ HeadAt(kept, mem.next, seen.head) /\ Start(seen).next = b[lo] /\ RecordFits
      /\ pc = "write" => mem.next = n
  <2>1. Alive
    BY DEF Alive, Busy
  <2>2. NoneTorn(seen) => OnlyTorn(seen, mem.seg)
    BY DEF NoneTorn, OnlyTorn
  <2> QED BY <1>1, <2>1, <2>2, WorkSays DEF Written1, Busy
<1>4. mem.seg \in lo..hi /\ mem.len \in Nat
  BY <1>3 DEF MemFits
<1>5. mem.next = n /\ kept = H /\ seen.segs[mem.seg].len = mem.len
  <2>1. rec.size \in Nat \ {0}
    BY <1>3, RecordFields DEF RecordFits
  <2>2. pc = "rollback" => mem.next = n
    BY <1>3, <1>4, <2>1 DEF LineIn
  <2> QED BY <1>3, <2>2 DEF LineIn
<1>6. /\ Layout(seen', H, n, lo, hi, b) /\ Start(seen') = Start(seen) /\ seen'.head = seen.head
      /\ seen'.segs[mem.seg].torn = t /\ seen'.segs[mem.seg].len = seen.segs[mem.seg].len
      /\ \A j \in lo..hi : j # mem.seg => seen'.segs[j] = seen.segs[j]
  BY <1>2, <1>4, LayoutTorn
<1>7. DOMAIN seen'.segs = lo..hi
  BY <1>6 DEF Layout
<1>8. OnlyTorn(seen', mem.seg) /\ (t = FALSE => NoneTorn(seen'))
  BY <1>2, <1>3, <1>4, <1>6, <1>7 DEF OnlyTorn, NoneTorn
<1>9. MemFits(n, lo, hi, b)' /\ LineIn(H, n)' /\ RecordFits'
  <2>1. pc # "pruneRemoveSync" /\ pc' # "pruneRemoveSync"
    OBVIOUS
  <2>2. MemFits(n, lo, hi, b)'
    BY <1>3, <2>1 DEF MemFits
  <2>3. LineIn(H, n)' /\ RecordFits'
    BY <1>3, <1>5, <1>6 DEF LineIn, RecordFits
  <2> QED BY <2>2, <2>3
<1>10. Working(H, n, lo, hi, b)'
  BY <1>3, <1>5, <1>6, <1>8, <1>9 DEF Working, Written1, Pruning, Busy
<1> QED BY <1>2, <1>6, <1>10, Works DEF Recovering

\* The line is written, or some of it, or none.
LEMMA WriteLineKeeps ==
  ASSUME LogInv, WriteLine
  PROVE  LogInv'
<1>1. pc = "write" /\ Alive
  BY DEF WriteLine, Alive, Busy
<1>2. CASE /\ seen' = SetSegment(seen, mem.seg, WithLine(seen.segs[mem.seg]))
           /\ Appending("sync") /\ UNCHANGED <<durable, mem>>
  <2>1. pc' = "sync" /\ kept' = kept /\ rec' = rec /\ mem' = mem /\ Counted'
    BY <1>2, AppendingIs
  <2> QED BY <1>1, <1>2, <2>1, LineWritten
<1>3. CASE /\ IoError /\ Goto("rollback")
           /\ \E left \in Leftovers(seen.segs[mem.seg]) : seen' = SetSegment(seen, mem.seg, left)
           /\ UNCHANGED <<durable, home, mem, rec, sealed, kept>>
  <2>1. pc' = "rollback" /\ kept' = kept /\ rec' = rec /\ mem' = mem /\ Counted'
    BY <1>3 DEF IoError, Goto, LogInv, Counted
  <2>2. CASE seen' = SetSegment(seen, mem.seg, WithLine(seen.segs[mem.seg]))
    BY <1>1, <2>1, <2>2, LineWritten
  <2>3. CASE seen' = SetSegment(seen, mem.seg, WithHalfLine(seen.segs[mem.seg]))
    <3> DEFINE t == TRUE
    <3>1. t \in BOOLEAN /\ seen' = SetSegment(seen, mem.seg, [seen.segs[mem.seg] EXCEPT !.torn = t])
      BY <2>3 DEF WithHalfLine
    <3> HIDE DEF t
    <3> QED BY <1>1, <2>1, <3>1, LineTorn
  <2>4. CASE seen' = SetSegment(seen, mem.seg, seen.segs[mem.seg])
    <3>1. PICK H, n, lo, hi, b : Known(H, n, lo, hi, b)
      BY DEF LogInv
    <3>2. Layout(seen, H, n, lo, hi, b) /\ mem.seg \in lo..hi
      BY <1>1, <3>1, KnownSays, WorkSays DEF MemFits
    <3> DEFINE s == seen.segs[mem.seg]
               t == s.torn
    <3>3. Holds(s, H, b[mem.seg], b[mem.seg + 1])
      BY <3>2 DEF Layout
    <3>4. t \in BOOLEAN /\ s = [recs |-> s.recs, torn |-> s.torn, len |-> s.len]
      BY <3>3 DEF Holds
    <3>5. s = [s EXCEPT !.torn = t]
      <4> HIDE DEF s
      <4> QED BY <3>4
    <3>6. seen' = SetSegment(seen, mem.seg, [seen.segs[mem.seg] EXCEPT !.torn = t])
      BY <2>4, <3>5
    <3> HIDE DEF t
    <3> QED BY <1>1, <2>1, <3>4, <3>6, LineTorn
  <2> QED BY <1>3, <2>2, <2>3, <2>4 DEF Leftovers
<1> QED BY <1>2, <1>3 DEF WriteLine

\* The line is flushed, or that fails.
LEMMA SyncLineKeeps ==
  ASSUME LogInv, SyncLine
  PROVE  LogInv'
<1>1. PICK H, n, lo, hi, b : Known(H, n, lo, hi, b)
  BY DEF LogInv
<1>2. /\ History(H, n) /\ Layout(seen, H, n, lo, hi, b) /\ kept \subseteq H
      /\ \A r \in H : r.seq + 1 < n \/ r.seq < Start(seen).next => r \in kept
  BY <1>1, KnownSays
<1>3. pc = "sync" /\ Alive
  BY DEF SyncLine, Alive, Busy, Written1
<1>4. /\ MemFits(n, lo, hi, b) /\ LineIn(H, n) /\ mem.next # n /\ NoneTorn(seen)
      /\ HeadAt(kept, mem.next, seen.head) /\ Start(seen).next = b[lo] /\ RecordFits
  BY <1>1, <1>3, WorkSays DEF Written1, Busy
<1>5. /\ pc' \in {"head", "rollback"} /\ kept' = kept /\ rec' = rec /\ mem' = mem /\ seen' = seen
      /\ Counted'
  BY AppendingIs DEF SyncLine, IoError, Goto, LogInv, Counted
<1>6. MemFits(n, lo, hi, b)' /\ LineIn(H, n)' /\ RecordFits'
  BY <1>3, <1>4, <1>5 DEF MemFits, LineIn, RecordFits
<1>7. OnlyTorn(seen, mem.seg)
  BY <1>4 DEF NoneTorn, OnlyTorn
<1>8. Working(H, n, lo, hi, b)'
  BY <1>4, <1>5, <1>6, <1>7 DEF Working, Written1, Pruning, Busy
<1> QED BY <1>2, <1>5, <1>8, Works DEF Recovering

\* The last record is taken back: what was kept is the history again.
LEMMA KeptIsHistory ==
  ASSUME NEW H, NEW n, History(H, n), LineIn(H, n), RecordFits, mem.next # n
  PROVE  History(kept, mem.next) /\ mem.next \in Nat /\ mem.next + 1 = n /\ H = kept \cup {rec}
<1>1. mem.next + 1 = n /\ H = kept \cup {rec} /\ rec \notin kept
  BY DEF LineIn
<1>2. rec.seq = mem.next /\ rec.seq \in Nat
  BY RecordFields DEF RecordFits
<1>3. \A q \in kept : q.seq # mem.next
  BY <1>1, <1>2 DEF History
<1> DEFINE G == kept
           m == mem.next
           r == rec
<1>4. m \in Nat /\ m + 1 = n /\ History(G \cup {r}, n) /\ r.seq = m /\ \A q \in G : q.seq # m
  BY <1>1, <1>2, <1>3
<1> HIDE DEF G, m, r
<1>5. History(G, m)
  BY <1>4, HistoryShrinks
<1> QED BY <1>1, <1>2, <1>5 DEF G, m

\* The whole line is cut off.
CuttingOff ==
  /\ pc = "rollback" /\ seen.segs[mem.seg].len # mem.len
  /\ seen' = SetSegment(seen, mem.seg, Before(seen.segs[mem.seg]))
  /\ pc' = "rollbackSync" /\ UNCHANGED <<kept, rec, mem>>

\* A whole line that was not flushed is taken back.
LEMMA LineCutOff ==
  ASSUME LogInv, CuttingOff, Counted'
  PROVE  LogInv'
<1>0. /\ pc = "rollback" /\ seen.segs[mem.seg].len # mem.len
      /\ seen' = SetSegment(seen, mem.seg, Before(seen.segs[mem.seg]))
      /\ pc' = "rollbackSync" /\ kept' = kept /\ rec' = rec /\ mem' = mem
  BY DEF CuttingOff
<1>1. PICK H, n, lo, hi, b : Known(H, n, lo, hi, b)
  BY DEF LogInv
<1>2. History(H, n) /\ Layout(seen, H, n, lo, hi, b) /\ Cuts(n, lo, hi, b) /\ DOMAIN seen.segs = lo..hi
  BY <1>0, <1>1, KnownSays
<1>3. /\ MemFits(n, lo, hi, b) /\ LineIn(H, n) /\ OnlyTorn(seen, mem.seg)
      /\ HeadAt(kept, mem.next, seen.head) /\ Start(seen).next = b[lo] /\ RecordFits
  <2>1. Alive
    BY <1>0 DEF Alive, Busy
  <2> QED BY <1>0, <1>1, <2>1, WorkSays DEF Written1, Busy
<1>4. mem.next # n /\ seen.segs[mem.seg].len = mem.len + rec.size /\ mem.len \in Nat
      /\ (mem.len = 0 <=> b[mem.seg] = mem.next)
  BY <1>0, <1>3 DEF LineIn, MemFits
<1>5. History(kept, mem.next) /\ mem.next \in Nat /\ mem.next + 1 = n /\ H = kept \cup {rec}
      /\ rec.seq = mem.next /\ rec.size \in Nat \ {0}
  <2>1. rec.seq = mem.next /\ rec.size \in Nat \ {0}
    BY <1>0, <1>3, RecordFields DEF RecordFits
  <2> QED BY <1>0, <1>2, <1>3, <1>4, <2>1, KeptIsHistory
<1>6. /\ mem.seg \in lo..hi /\ mem.seg \in Nat /\ lo \in Nat /\ hi \in Nat
      /\ b[mem.seg] \in Nat /\ b[mem.seg + 1] = n /\ b[mem.seg] <= mem.next
      /\ mem.seg = hi \/ (mem.seg + 1 = hi /\ b[mem.seg] < mem.next)
  BY <1>0, <1>2, <1>3, OwnSegment
<1>7. Before(seen.segs[mem.seg]) = CutOff(seen.segs[mem.seg], mem.len)
  <2>1. seen.segs[mem.seg].len > mem.len
    BY <1>0, <1>4, <1>5
  <2> QED BY <1>0, <2>1 DEF Before, CutOff
<1>8. PICK c :
      /\ c = Moved(mem.next, mem.seg, lo, hi, b) /\ Layout(seen', kept, mem.next, lo, hi, c)
      /\ Start(seen') = Start(seen) /\ seen'.head = seen.head
      /\ seen'.segs[mem.seg].len = mem.len /\ seen'.segs[mem.seg].torn = FALSE
      /\ \A j \in lo..hi : j # mem.seg => seen'.segs[j] = seen.segs[j]
      /\ Start(seen').next = c[lo] /\ c[mem.seg] = b[mem.seg]
  <2>a. PICK i, r, m, l, G : i = mem.seg /\ r = rec /\ m = mem.next /\ l = mem.len /\ G = kept
    BY <1>0
  <2>1. /\ m \in Nat /\ r.seq = m /\ History(G \cup {r}, m + 1) /\ Layout(seen, G \cup {r}, m + 1, lo, hi, b)
        /\ History(G, m) /\ Start(seen).next = b[lo] /\ i \in lo..hi /\ b[i + 1] = m + 1 /\ b[i] <= m
        /\ (i = hi \/ (i + 1 = hi /\ b[i] < m)) /\ l \in Nat /\ (l = 0 <=> b[i] = m)
        /\ seen' = SetSegment(seen, i, CutOff(seen.segs[i], l))
    BY <1>0, <1>2, <1>3, <1>4, <1>5, <1>6, <1>7, <2>a
  <2>0. CanShrink(seen, G, m, lo, hi, b, r, i, l) /\ seen' = SetSegment(seen, i, CutOff(seen.segs[i], l))
    BY <1>0, <2>1 DEF CanShrink
  <2>2. Shrunk(seen, seen', G, m, lo, hi, b, i, l)
    BY <2>0, LayoutShrinks
  <2> QED BY <1>0, <2>2, <2>a DEF Shrunk
<1>9. mem.seg # hi => c[hi] = mem.next
  <2> DEFINE i == mem.seg
             x == mem.next
  <2>1. /\ Cuts(n, lo, hi, b) /\ i \in lo..hi /\ x \in Nat /\ b[i + 1] = n /\ b[i] <= x
        /\ i = hi \/ (i + 1 = hi /\ b[i] < x)
    BY <1>0, <1>2, <1>5, <1>6
  <2> HIDE DEF i, x
  <2>2. Cuts(x, lo, hi, Moved(x, i, lo, hi, b))
    BY <2>1, MovedFacts
  <2>3. i # hi => Moved(x, i, lo, hi, b)[hi] = x
    BY <2>1, <2>2, MovedFacts
  <2> QED BY <1>0, <1>8, <2>3 DEF i, x
<1>10. PICK G, m : G = kept /\ m = mem.next
  BY <1>0
<1>11. MemFits(m, lo, hi, c)'
  <2>1. /\ mem.seg = hi \/ (mem.seg + 1 = hi /\ c[hi] = m /\ mem.len > 0)
        /\ mem.len = 0 <=> c[mem.seg] = mem.next
    BY <1>0, <1>3, <1>8, <1>9, <1>10 DEF MemFits
  <2>2. pc' # "pruneRemoveSync" /\ pc # "pruneRemoveSync"
    BY <1>0
  <2>3. /\ mem = [seg |-> mem.seg, len |-> mem.len, count |-> mem.count, next |-> mem.next,
                  prev |-> mem.prev, ts |-> mem.ts, open |-> mem.open, failed |-> FALSE]
        /\ mem.len \in Nat /\ Place(kept, mem.next, mem) /\ mem.seg \in lo..hi
        /\ mem.count = mem.seg - lo + 1
    BY <1>0, <1>3, <2>2 DEF MemFits
  <2>4. /\ mem' = [seg |-> mem'.seg, len |-> mem'.len, count |-> mem'.count, next |-> mem'.next,
                   prev |-> mem'.prev, ts |-> mem'.ts, open |-> mem'.open, failed |-> FALSE]
        /\ Place(kept', mem'.next, mem')
    BY <1>0, <2>3
  <2>5. mem'.count = mem'.seg - lo + IF pc' = "pruneRemoveSync" THEN 2 ELSE 1
    BY <1>0, <2>2, <2>3
  <2> QED BY <1>0, <2>1, <2>3, <2>4, <2>5 DEF MemFits
<1>12. LineIn(G, m)' /\ RecordFits'
  BY <1>0, <1>3, <1>8, <1>10 DEF LineIn, RecordFits
<1>13. NoneTorn(seen')
  <2>1. DOMAIN seen'.segs = lo..hi
    BY <1>0, <1>8 DEF Layout
  <2> QED BY <1>0, <1>2, <1>3, <1>8, <2>1 DEF NoneTorn, OnlyTorn
<1>14. Working(G, m, lo, hi, c)'
  BY <1>0, <1>3, <1>8, <1>10, <1>11, <1>12, <1>13 DEF Working, Written1, Pruning, Busy
<1>15. /\ History(G, m) /\ Layout(seen', G, m, lo, hi, c) /\ kept' \subseteq G
       /\ \A r \in G : r \in kept'
  BY <1>0, <1>5, <1>8, <1>10
<1> QED BY <1>0, <1>14, <1>15, Works DEF Recovering

\* The segment is cut back to its old length, or that fails.
LEMMA RollBackKeeps ==
  ASSUME LogInv, RollBack
  PROVE  LogInv'
<1>1. pc = "rollback" /\ Alive
  BY DEF RollBack, Alive, Busy
<1>2. CASE IoError /\ AppendFails(TRUE) /\ UNCHANGED files
  BY <1>1, <1>2, AppendFailsHard DEF files
<1>3. CASE /\ seen' = SetSegment(seen, mem.seg, Before(seen.segs[mem.seg]))
           /\ Appending("rollbackSync") /\ UNCHANGED <<durable, mem>>
  <2>1. pc' = "rollbackSync" /\ kept' = kept /\ rec' = rec /\ mem' = mem /\ Counted'
    BY <1>3, AppendingIs
  <2>2. CASE seen.segs[mem.seg].len # mem.len
    BY <1>1, <1>3, <2>1, <2>2, LineCutOff DEF CuttingOff
  <2>3. CASE seen.segs[mem.seg].len = mem.len
    <3>1. PICK H, n, lo, hi, b : Known(H, n, lo, hi, b)
      BY DEF LogInv
    <3>2. Layout(seen, H, n, lo, hi, b) /\ mem.seg \in lo..hi /\ mem.len \in Nat
      BY <1>1, <3>1, KnownSays, WorkSays DEF MemFits
    <3> DEFINE s == seen.segs[mem.seg]
               t == FALSE
    <3>3. Holds(s, H, b[mem.seg], b[mem.seg + 1])
      BY <3>2 DEF Layout
    <3>4. s = [recs |-> s.recs, torn |-> s.torn, len |-> s.len] /\ s.len = mem.len /\ ~(s.len > mem.len)
      BY <2>3, <3>2, <3>3 DEF Holds
    <3>5. t \in BOOLEAN /\ t = FALSE
      OBVIOUS
    <3>6. Before(s) = [recs |-> s.recs, torn |-> t, len |-> s.len]
      BY <3>4 DEF Before
    <3>7. Before(s) = [s EXCEPT !.torn = t]
      <4> HIDE DEF s, t
      <4> QED BY <3>4, <3>6
    <3>8. seen' = SetSegment(seen, mem.seg, [seen.segs[mem.seg] EXCEPT !.torn = t])
      BY <1>3, <3>7
    <3> HIDE DEF t
    <3> QED BY <1>1, <2>1, <2>3, <3>5, <3>8, LineTorn
  <2> QED BY <2>2, <2>3
<1> QED BY <1>2, <1>3 DEF RollBack

\* The shorter segment is flushed, or that fails.
LEMMA SyncRollBackKeeps ==
  ASSUME LogInv, SyncRollBack
  PROVE  LogInv'
<1>1. pc = "rollbackSync" /\ Alive
  BY DEF SyncRollBack, Alive, Busy
<1>2. CASE IoError /\ AppendFails(TRUE) /\ UNCHANGED files
  BY <1>1, <1>2, AppendFailsHard DEF files
<1>3. CASE AppendFails(FALSE) /\ NoError /\ UNCHANGED seen
  BY <1>1, <1>3, AppendFailsSoft DEF NoError, counts
<1> QED BY <1>2, <1>3 DEF SyncRollBack

\* HEAD is renamed to name the line, or that fails.
LEMMA RenameHeadKeeps ==
  ASSUME LogInv, RenameHead
  PROVE  LogInv'
<1>1. PICK H, n, lo, hi, b : Known(H, n, lo, hi, b)
  BY DEF LogInv
<1>2. /\ History(H, n) /\ Layout(seen, H, n, lo, hi, b) /\ kept \subseteq H
      /\ \A r \in H : r.seq + 1 < n \/ r.seq < Start(seen).next => r \in kept
  BY <1>1, KnownSays
<1>3. pc = "head" /\ Alive
  BY DEF RenameHead, Alive, Busy, Written1
<1>4. /\ MemFits(n, lo, hi, b) /\ LineIn(H, n) /\ mem.next # n /\ NoneTorn(seen)
      /\ Start(seen).next = b[lo] /\ RecordFits
  BY <1>1, <1>3, WorkSays DEF Written1, Busy
<1>5. CASE IoError /\ AppendFails(TRUE) /\ UNCHANGED files
  BY <1>3, <1>5, AppendFailsHard DEF files
<1>6. CASE /\ seen' = [seen EXCEPT !.head = Names(rec)]
           /\ Appending("headSync") /\ UNCHANGED <<durable, mem>>
  <2>1. pc' = "headSync" /\ kept' = kept /\ rec' = rec /\ mem' = mem /\ Counted'
    BY <1>6, AppendingIs
  <2>2. /\ Layout(seen', H, n, lo, hi, b) /\ Start(seen') = Start(seen) /\ seen'.head = Names(rec)
        /\ seen'.segs = seen.segs
    BY <1>2, <1>6, LayoutHead
  <2>3. HeadAt(H, n, seen'.head)
    <3>1. rec \in H /\ rec.seq + 1 = n
      BY <1>4 DEF LineIn, RecordFits
    <3> QED BY <2>2, <3>1 DEF HeadAt
  <2>4. MemFits(n, lo, hi, b)' /\ LineIn(H, n)' /\ RecordFits' /\ NoneTorn(seen')
    <3>1. pc # "pruneRemoveSync" /\ pc' # "pruneRemoveSync"
      BY <1>3, <2>1
    <3>2. MemFits(n, lo, hi, b)'
      BY <1>4, <2>1, <3>1 DEF MemFits
    <3>3. LineIn(H, n)' /\ RecordFits' /\ NoneTorn(seen')
      BY <1>4, <2>1, <2>2 DEF LineIn, RecordFits, NoneTorn
    <3> QED BY <3>2, <3>3
  <2>5. Working(H, n, lo, hi, b)'
    BY <1>4, <2>1, <2>2, <2>3, <2>4 DEF Working, Written1, Pruning, Busy
  <2> QED BY <1>2, <2>1, <2>2, <2>5, Works DEF Recovering
<1> QED BY <1>5, <1>6 DEF RenameHead

\* Inner after the record.
LEMMA InnerAfter ==
  ASSUME Shaped(mem), mem.failed = FALSE,
         mem' = [mem EXCEPT !.len = @ + rec.size, !.next = @ + 1, !.prev = rec.hash,
                   !.ts = rec.ts,
                   !.open = CASE rec.kind = "allow"   -> @ \cup {rec.seq}
                              [] rec.kind = "deny"    -> @
                              [] rec.kind = "outcome" -> @ \ {rec.ref}]
  PROVE  /\ Shaped(mem') /\ mem'.failed = FALSE /\ mem'.seg = mem.seg /\ mem'.count = mem.count
         /\ mem'.len = mem.len + rec.size /\ mem'.next = mem.next + 1
         /\ mem'.prev = rec.hash /\ mem'.ts = rec.ts
         /\ mem'.open = OpenWith(mem.open, rec)
<1> DEFINE o == OpenWith(mem.open, rec)
<1>1. mem' = [mem EXCEPT !.len = mem.len + rec.size, !.next = mem.next + 1, !.prev = rec.hash,
                !.ts = rec.ts, !.open = o]
  BY DEF OpenWith
<1> HIDE DEF o
<1>2. Shaped(mem')
  BY <1>1 DEF Shaped
<1>3. /\ mem'.failed = FALSE /\ mem'.seg = mem.seg /\ mem'.count = mem.count
      /\ mem'.len = mem.len + rec.size /\ mem'.next = mem.next + 1
      /\ mem'.prev = rec.hash /\ mem'.ts = rec.ts /\ mem'.open = o
  BY <1>1 DEF Shaped
<1> QED BY <1>2, <1>3 DEF o

\* HEAD is flushed, or not, and the append returns.
LEMMA SyncHeadKeeps ==
  ASSUME LogInv, SyncHead
  PROVE  LogInv'
<1>1. PICK H, n, lo, hi, b : Known(H, n, lo, hi, b)
  BY DEF LogInv
<1>2. History(H, n) /\ Layout(seen, H, n, lo, hi, b)
  BY <1>1, KnownSays
<1>3. pc = "headSync" /\ Alive
  BY DEF SyncHead, Alive, Busy, Written1
<1>4. /\ MemFits(n, lo, hi, b) /\ LineIn(H, n) /\ mem.next # n /\ NoneTorn(seen)
      /\ HeadAt(H, n, seen.head) /\ Start(seen).next = b[lo] /\ RecordFits
  BY <1>1, <1>3, WorkSays DEF Written1, Busy
<1>5. CASE IoError /\ AppendFails(TRUE) /\ UNCHANGED files
  BY <1>3, <1>5, AppendFailsHard DEF files
<1>6. CASE /\ SyncDir
           /\ mem' = [mem EXCEPT !.len = @ + rec.size, !.next = @ + 1, !.prev = rec.hash,
                        !.ts = rec.ts,
                        !.open = CASE rec.kind = "allow"   -> @ \cup {rec.seq}
                                   [] rec.kind = "deny"    -> @
                                   [] rec.kind = "outcome" -> @ \ {rec.ref}]
           /\ Goto(home) /\ rec' = None /\ kept' = kept \cup {rec}
           /\ NoError /\ UNCHANGED <<seen, home, sealed>>
  <2>1. History(kept, mem.next) /\ mem.next \in Nat /\ mem.next + 1 = n /\ H = kept \cup {rec}
    BY <1>2, <1>4, KeptIsHistory
  <2>2. /\ rec \in Records /\ rec.seq = mem.next /\ (rec.kind = "outcome" => rec.ref \in mem.open)
        /\ rec.size \in Nat \ {0} /\ mem.open = OpenIn(kept, mem.next)
    BY <1>4, RecordFields DEF RecordFits, MemFits, Place
  <2>3. /\ Shaped(mem') /\ mem'.failed = FALSE /\ mem'.seg = mem.seg /\ mem'.count = mem.count
        /\ mem'.len = mem.len + rec.size /\ mem'.next = mem.next + 1
        /\ mem'.prev = rec.hash /\ mem'.ts = rec.ts
        /\ mem'.open = OpenWith(mem.open, rec)
    <3>1. Shaped(mem) /\ mem.failed = FALSE
      BY <1>4, SoundIs DEF MemFits, Sound
    <3> QED BY <1>6, <3>1, InnerAfter
  <2>4. mem'.open = OpenIn(kept \cup {rec}, mem.next + 1)
    <3> DEFINE G == kept
               m == mem.next
               r == rec
    <3>1. History(G, m) /\ r \in Records /\ r.seq = m /\ (r.kind = "outcome" => r.ref \in OpenIn(G, m))
      BY <2>1, <2>2
    <3> HIDE DEF G, m, r
    <3>2. OpenIn(G \cup {r}, m + 1) = OpenWith(OpenIn(G, m), r)
      BY <3>1, OpenInNext
    <3>3. mem'.open = OpenWith(mem.open, r)
      BY <2>3 DEF r
    <3> QED BY <2>2, <3>2, <3>3 DEF G, m, r
  <2>5. Place(kept \cup {rec}, mem.next + 1, mem')
    <3> DEFINE G == kept
               m == mem.next
               r == rec
               x == mem'
    <3>1. /\ History(G, m) /\ r \in Records /\ r.seq = m /\ x.next = m + 1 /\ x.prev = r.hash
          /\ x.ts = r.ts /\ x.open = OpenIn(G \cup {r}, m + 1)
      BY <2>1, <2>2, <2>3, <2>4
    <3> HIDE DEF G, m, r, x
    <3>2. Place(G \cup {r}, m + 1, x)
      BY <3>1, PlaceNext
    <3> QED BY <3>2 DEF G, m, r, x
  <2>6. /\ kept' = H /\ seen' = seen /\ pc' = home /\ home \in {"close", "ready"} /\ Counted'
    BY <1>6, <2>1 DEF Goto, NoError, counts, LogInv, Counted
  <2>7. Place(kept', mem'.next, mem') /\ mem'.next = n
    BY <2>1, <2>3, <2>5, <2>6
  <2>8. MemFits(n, lo, hi, b)'
    <3>1. /\ mem.seg \in lo..hi /\ b[mem.seg] < n /\ b[mem.seg] \in Nat
          /\ mem.seg = hi \/ (mem.seg + 1 = hi /\ b[mem.seg] < mem.next)
      BY <1>2, <1>4, OwnSegment
    <3>2. mem'.len \in Nat /\ mem'.len > 0 /\ b[mem.seg] # n
      <4>1. mem.len \in Nat
        BY <1>4 DEF MemFits
      <4>2. b[mem.seg] # n
        BY <2>1, <3>1
      <4> QED BY <2>2, <2>3, <4>1, <4>2
    <3>3. mem.seg = hi \/ (mem.seg + 1 = hi /\ b[hi] = n)
      BY <1>4 DEF MemFits
    <3>4. mem'.len = 0 <=> b[mem'.seg] = mem'.next
      BY <2>3, <2>7, <3>2
    <3>5. mem'.count = mem'.seg - lo + IF pc' = "pruneRemoveSync" THEN 2 ELSE 1
      <4>1. mem.count = mem.seg - lo + 1
        BY <1>3, <1>4 DEF MemFits
      <4> QED BY <2>3, <2>6, <4>1
    <3>6. Sound(mem')
      BY <2>3, SoundIs
    <3> QED BY <2>3, <2>7, <3>1, <3>2, <3>3, <3>4, <3>5, <3>6 DEF MemFits, Sound
  <2>9. LineIn(H, n)'
    <3>1. seen.segs[mem.seg].len = mem.len + rec.size
      BY <1>4 DEF LineIn
    <3> QED BY <2>3, <2>6, <2>7, <3>1 DEF LineIn
  <2>10. Working(H, n, lo, hi, b)'
    BY <1>4, <2>6, <2>7, <2>8, <2>9 DEF Working, Written1, Pruning, Busy, NoneTorn
  <2> QED BY <1>2, <2>6, <2>10, Works DEF Recovering
<1> QED BY <1>5, <1>6 DEF SyncHead

\* The process is killed: memory is lost, the files stay.
LEMMA KillKeeps ==
  ASSUME LogInv, Kill
  PROVE  LogInv'
<1>1. PICK H, n, lo, hi, b : Known(H, n, lo, hi, b)
  BY DEF LogInv
<1>2. /\ History(H, n) /\ Layout(seen, H, n, lo, hi, b) /\ kept \subseteq H
      /\ \A r \in H : r.seq + 1 < n \/ r.seq < Start(seen).next => r \in kept
  BY <1>1, KnownSays
<1>3. pc' = "down" /\ kept' = kept /\ Counted'
  BY DEF Kill, Goto, LogInv, Counted
<1>4. CASE seen' = seen
  BY <1>2, <1>3, <1>4, Stops
<1>5. CASE pc = "write" /\ seen' = SetSegment(seen, mem.seg, WithHalfLine(seen.segs[mem.seg]))
  <2>1. mem.seg \in lo..hi
    BY <1>1, <1>5, WorkSays DEF Alive, Busy, MemFits
  <2> DEFINE t == TRUE
             i == mem.seg
  <2>2. t \in BOOLEAN /\ i \in lo..hi /\ seen' = SetSegment(seen, i, [seen.segs[i] EXCEPT !.torn = t])
    BY <1>5, <2>1 DEF WithHalfLine
  <2> HIDE DEF t, i
  <2>3. Layout(seen', H, n, lo, hi, b) /\ Start(seen') = Start(seen)
    BY <1>2, <2>2, LayoutTorn
  <2> QED BY <1>2, <1>3, <2>3, Stops
<1> QED BY <1>4, <1>5 DEF Kill

\* A step that changes nothing.
LEMMA NothingChanges ==
  ASSUME LogInv, UNCHANGED vars
  PROVE  LogInv'
<1>1. PICK H, n, lo, hi, b : Known(H, n, lo, hi, b)
  BY DEF LogInv
<1>2. /\ seen' = seen /\ pc' = pc /\ home' = home /\ mem' = mem /\ rec' = rec /\ sealed' = sealed
      /\ kept' = kept /\ powerLosses' = powerLosses
  BY DEF vars, files, counts
<1>3. Accounted(H, n)' /\ Repairing(H, n, lo, hi, b)'
  BY <1>1, <1>2 DEF Known, Accounted, Repairing
<1>4. Working(H, n, lo, hi, b)'
  BY <1>1, <1>2 DEF Known, Working, Alive, MemFits, LineIn, RecordFits
<1>5. Known(H, n, lo, hi, b)'
  BY <1>1, <1>2, <1>3, <1>4 DEF Known
<1> QED BY <1>2, <1>5 DEF LogInv

\* The step of a recovery that is not its last.
LEMMA RecoveryGoesOn ==
  ASSUME NEW d
  PROVE  Recovery(d) \in {"quarantine", "stale", "repair", "segment"}
BY DEF Recovery

-----------------------------------------------------------------------------
(* Power losses: what may remain of the files holds the records that were kept.  *)

\* Segment i as it was flushed.
Flushed(f, i) == IF i \in DOMAIN f.segs THEN f.segs[i] ELSE Empty

\* What may remain of segment i, and of directory e, when f has been flushed.
Parts(e, f, i) ==
  {Flushed(f, i), e.segs[i]} \cup
  {half \in {WithHalfLine(Flushed(f, i))} : Len(e.segs[i].recs) > Len(Flushed(f, i).recs)}
Remains(d, e, f) ==
  \/ d = f
  \/ \E c : /\ c = [i \in DOMAIN e.segs |-> c[i]] /\ \A i \in DOMAIN e.segs : c[i] \in Parts(e, f, i)
            /\ d = [e EXCEPT !.segs = c]

\* Every name of e is durable and every segment of it flushed.
Settled(e, f) == \A i \in DOMAIN e.segs : Flushed(f, i) = e.segs[i]

\* The directory holds a chain of which K are the records that were kept.
Laid(K, d) ==
  \E H, n, lo, hi, b :
    /\ History(H, n) /\ Layout(d, H, n, lo, hi, b) /\ K \subseteq H
    /\ \A r \in H : r.seq + 1 < n \/ r.seq < Start(d).next => r \in K
Formed(d) ==
  /\ d = [head |-> d.head, checkpoint |-> d.checkpoint, segs |-> d.segs]
  /\ d.segs = [i \in DOMAIN d.segs |-> d.segs[i]]

\* What is left of segment s by the line of record r.
Tails(s, r) == {s, WithHalfLine(s), Lined(s, r)}

\* All is flushed but what is left in segment j.
Varies(e, f, j, s, r) ==
  /\ j \in DOMAIN e.segs /\ e.segs[j] \in Tails(s, r) /\ Flushed(f, j) \in Tails(s, r)
  /\ \A i \in DOMAIN e.segs : i # j => Flushed(f, i) = e.segs[i]

Unsettled == {"sync", "rollback", "rollbackSync"}
Dropping  == {"stale", "staleSync", "pruneRemoveSync"}
Quiet     == (pc \in Recovering \/ Alive) /\ pc \notin Unsettled

\* s is the segment the line under way is written to, as it was before.
Pending(s) ==
  /\ s = [recs |-> s.recs, torn |-> FALSE, len |-> mem.len] /\ mem.len \in Nat
  /\ s.recs \in Seq(Records) /\ rec \in Records
  /\ Varies(seen, durable, mem.seg, s, rec)
  /\ pc = "sync" => Flushed(durable, mem.seg) = s
  /\ \A y \in Tails(s, rec) : Laid(kept, SetSegment(seen, mem.seg, y))

\* Whatever remains holds the records that were kept.
PowerInv ==
  /\ \A d : Remains(d, seen, durable) => Laid(kept, d)
  /\ Quiet => /\ Settled(seen, durable)
              /\ pc \notin Dropping => DOMAIN durable.segs \subseteq DOMAIN seen.segs
  /\ pc \in Unsettled => \E s : Pending(s)

\* A directory in which a chain is laid.
LEMMA LaidIsFormed == ASSUME NEW K, NEW d, Laid(K, d) PROVE Formed(d)
<1>1. PICK H, n, lo, hi, b : Layout(d, H, n, lo, hi, b)
  BY DEF Laid
<1>2. d.segs = [i \in lo..hi |-> d.segs[i]]
  BY <1>1 DEF Layout
<1>3. DOMAIN d.segs = lo..hi
  BY <1>2
<1> QED BY <1>1, <1>2, <1>3 DEF Layout, Formed

\* What LogInv says of the directory.
LEMMA SeenIsLaid == ASSUME LogInv PROVE Laid(kept, seen)
BY DEF LogInv, Known, Accounted, Laid

\* The same of the state after a step.
LEMMA SeenIsLaidAfter == ASSUME LogInv' PROVE Laid(kept', seen')
BY DEF LogInv, Known, Accounted, Laid

\* Of what is settled, all remains or what was flushed.
LEMMA SettledRemains ==
  ASSUME NEW d, NEW e, NEW f, Formed(e), Settled(e, f), Remains(d, e, f)
  PROVE  d = f \/ d = e
<1>1. CASE d = f
  BY <1>1
<1>2. CASE d # f
  <2>1. PICK c : /\ c = [i \in DOMAIN e.segs |-> c[i]] /\ \A i \in DOMAIN e.segs : c[i] \in Parts(e, f, i)
                 /\ d = [e EXCEPT !.segs = c]
    BY <1>2 DEF Remains
  <2>2. \A i \in DOMAIN e.segs : Parts(e, f, i) = {e.segs[i]}
    <3> SUFFICES ASSUME NEW i \in DOMAIN e.segs PROVE Parts(e, f, i) = {e.segs[i]}
      OBVIOUS
    <3>1. Flushed(f, i) = e.segs[i]
      BY DEF Settled
    <3> QED BY <3>1 DEF Parts
  <2>3. \A i \in DOMAIN e.segs : c[i] = e.segs[i]
    BY <2>1, <2>2
  <2>4. c = e.segs
    BY <2>1, <2>3 DEF Formed
  <2>5. d = e
    BY <2>1, <2>4 DEF Formed
  <2> QED BY <2>5
<1> QED BY <1>1, <1>2

\* What has just been flushed is settled.
LEMMA FlushedIsSettled == ASSUME NEW e PROVE Settled(e, e)
BY DEF Settled, Flushed

\* What a flush of the names does when everything else is flushed.
LEMMA JournalledIs ==
  ASSUME Formed(seen), Settled(seen, durable)
  PROVE  Journalled = seen
<1> DEFINE g == [i \in DOMAIN seen.segs |->
                   IF i \in DOMAIN durable.segs THEN durable.segs[i] ELSE Empty]
<1>1. \A i \in DOMAIN seen.segs : g[i] = seen.segs[i]
  BY DEF Settled, Flushed
<1>2. g = seen.segs
  BY <1>1 DEF Formed
<1>3. [seen EXCEPT !.segs = seen.segs] = seen
  BY DEF Formed
<1> QED BY <1>2, <1>3 DEF Journalled

\* A segment set to what it is.
LEMMA SetToItself ==
  ASSUME NEW d, Formed(d), NEW i \in DOMAIN d.segs
  PROVE  SetSegment(d, i, d.segs[i]) = d
<1> DEFINE g == d.segs
<1>1. g = [j \in DOMAIN g |-> g[j]]
  BY DEF Formed
<1>2. [g EXCEPT ![i] = g[i]] = g
  <2> HIDE DEF g
  <2> QED BY <1>1
<1> QED BY <1>2 DEF Formed, SetSegment

\* A directory with a segment set.
LEMMA SetIs ==
  ASSUME NEW d, Formed(d), NEW i \in DOMAIN d.segs, NEW c
  PROVE  /\ SetSegment(d, i, c) = [head |-> d.head, checkpoint |-> d.checkpoint,
                                    segs |-> [d.segs EXCEPT ![i] = c]]
         /\ SetSegment(d, i, c).segs = [d.segs EXCEPT ![i] = c]
<1> DEFINE g == [d.segs EXCEPT ![i] = c]
<1>1. SetSegment(d, i, c) = [head |-> d.head, checkpoint |-> d.checkpoint, segs |-> g]
  BY DEF SetSegment, Formed
<1> HIDE DEF g
<1>2. SetSegment(d, i, c).segs = g
  BY <1>1
<1> QED BY <1>1, <1>2 DEF g

\* The other segments stay as they are.
LEMMA SetFacts ==
  ASSUME NEW d, Formed(d), NEW i \in DOMAIN d.segs, NEW c
  PROVE  /\ Formed(SetSegment(d, i, c)) /\ DOMAIN SetSegment(d, i, c).segs = DOMAIN d.segs
         /\ SetSegment(d, i, c).segs[i] = c
         /\ \A j \in DOMAIN d.segs : j # i => SetSegment(d, i, c).segs[j] = d.segs[j]
<1> DEFINE g == [d.segs EXCEPT ![i] = c]
<1>1. SetSegment(d, i, c) = [head |-> d.head, checkpoint |-> d.checkpoint, segs |-> g]
      /\ SetSegment(d, i, c).segs = g
  BY SetIs
<1>2. /\ g = [j \in DOMAIN g |-> g[j]] /\ DOMAIN g = DOMAIN d.segs /\ g[i] = c
      /\ \A j \in DOMAIN d.segs : j # i => g[j] = d.segs[j]
  BY DEF Formed
<1> HIDE DEF g
<1>3. Formed(SetSegment(d, i, c))
  BY <1>1, <1>2 DEF Formed
<1> QED BY <1>1, <1>2, <1>3

\* The second setting counts.
LEMMA SetTwice ==
  ASSUME NEW d, Formed(d), NEW i \in DOMAIN d.segs, NEW x, NEW y
  PROVE  SetSegment(SetSegment(d, i, x), i, y) = SetSegment(d, i, y)
<1> DEFINE e == SetSegment(d, i, x)
<1>1. /\ e.segs = [d.segs EXCEPT ![i] = x]
      /\ e = [head |-> d.head, checkpoint |-> d.checkpoint, segs |-> [d.segs EXCEPT ![i] = x]]
  BY SetIs
<1>2. Formed(e) /\ i \in DOMAIN e.segs
  BY SetFacts
<1>3. e.head = d.head /\ e.checkpoint = d.checkpoint
  BY <1>1
<1>4. [e.segs EXCEPT ![i] = y] = [d.segs EXCEPT ![i] = y]
  BY <1>1
<1> HIDE DEF e
<1>5. SetSegment(e, i, y) = [head |-> e.head, checkpoint |-> e.checkpoint,
                                segs |-> [e.segs EXCEPT ![i] = y]]
  BY <1>2, SetIs
<1>6. SetSegment(d, i, y) = [head |-> d.head, checkpoint |-> d.checkpoint,
                                segs |-> [d.segs EXCEPT ![i] = y]]
  BY SetIs
<1> QED BY <1>3, <1>4, <1>5, <1>6 DEF e

\* The last line of a segment cut off again.
LEMMA FrontOfAppend ==
  ASSUME NEW S, NEW s \in Seq(S), NEW x \in S
  PROVE  Front(Append(s, x)) = s
<1> DEFINE a == Append(s, x)
           k == Len(s)
<1>1. a \in Seq(S) /\ Len(a) = k + 1 /\ k \in Nat /\ \A i \in 1..k : a[i] = s[i]
  BY AppendProperties, LenProperties
<1>2. Len(a) - 1 = k
  BY <1>1
<1>3. Front(a) = SubSeq(a, 1, k)
  BY <1>2 DEF Front
<1> HIDE DEF a
<1>4. 1 \in 1..Len(a) + 1 /\ k \in 0..Len(a)
  BY <1>1
<1>5. /\ SubSeq(a, 1, k) \in Seq(S) /\ Len(SubSeq(a, 1, k)) = k
      /\ \A i \in 1..k : SubSeq(a, 1, k)[i] = a[i]
  BY <1>1, <1>4
<1>6. SubSeq(a, 1, k) = s
  BY <1>1, <1>5, SeqEqual
<1> QED BY <1>3, <1>6 DEF a

\* A segment with another end.
LEMMA TornIs ==
  ASSUME NEW s, s = [recs |-> s.recs, torn |-> s.torn, len |-> s.len], NEW t
  PROVE  [s EXCEPT !.torn = t] = [recs |-> s.recs, torn |-> t, len |-> s.len]
OBVIOUS

\* A segment with a part of a line, and with the line.
LEMMA TailsAre ==
  ASSUME NEW s, s = [recs |-> s.recs, torn |-> FALSE, len |-> s.len], s.recs \in Seq(Records),
         NEW r \in Records
  PROVE  /\ WithHalfLine(s) = [recs |-> s.recs, torn |-> TRUE, len |-> s.len]
         /\ WithHalfLine(WithHalfLine(s)) = WithHalfLine(s)
         /\ Len(s.recs) \in Nat /\ Len(Lined(s, r).recs) = Len(s.recs) + 1
<1> DEFINE h == [recs |-> s.recs, torn |-> TRUE, len |-> s.len]
<1> DEFINE t == TRUE
<1>0. s = [recs |-> s.recs, torn |-> s.torn, len |-> s.len]
      /\ h = [recs |-> h.recs, torn |-> h.torn, len |-> h.len]
  OBVIOUS
<1>0a. h.recs = s.recs /\ h.len = s.len /\ h = [recs |-> s.recs, torn |-> t, len |-> s.len]
  OBVIOUS
<1>0b. WithHalfLine(s) = [s EXCEPT !.torn = t] /\ WithHalfLine(h) = [h EXCEPT !.torn = t]
  BY DEF WithHalfLine
<1> HIDE DEF t
<1>1. WithHalfLine(s) = h
  BY <1>0, <1>0a, <1>0b, TornIs
<1> HIDE DEF h
<1>2. WithHalfLine(h) = h
  BY <1>0, <1>0a, <1>0b, TornIs
<1> USE DEF h
<1>3. Len(s.recs) \in Nat /\ Len(Append(s.recs, r)) = Len(s.recs) + 1
  BY AppendProperties, LenProperties
<1> QED BY <1>1, <1>2, <1>3 DEF Lined

\* Of a segment a line was being written to, a tail remains.
LEMMA PartsAreTails ==
  ASSUME NEW e, NEW f, NEW j, NEW s, NEW r \in Records, Varies(e, f, j, s, r),
         s = [recs |-> s.recs, torn |-> FALSE, len |-> s.len], s.recs \in Seq(Records)
  PROVE  Parts(e, f, j) \subseteq Tails(s, r)
<1> DEFINE x == Flushed(f, j)
           z == e.segs[j]
<1>1. x \in Tails(s, r) /\ z \in Tails(s, r)
  BY DEF Varies
<1>2. /\ WithHalfLine(s) = [recs |-> s.recs, torn |-> TRUE, len |-> s.len]
      /\ WithHalfLine(WithHalfLine(s)) = WithHalfLine(s)
      /\ Len(s.recs) \in Nat /\ Len(Lined(s, r).recs) = Len(s.recs) + 1
  BY TailsAre
<1>3. WithHalfLine(s).recs = s.recs
  BY <1>2
<1>4. Len(z.recs) <= Len(s.recs) + 1
  BY <1>1, <1>2, <1>3 DEF Tails
<1>5. ASSUME Len(z.recs) > Len(x.recs) PROVE WithHalfLine(x) \in Tails(s, r)
  <2>1. x # Lined(s, r)
    BY <1>2, <1>4, <1>5
  <2> QED BY <1>1, <1>2, <2>1 DEF Tails
<1>6. Parts(e, f, j) = {x, z} \cup {half \in {WithHalfLine(x)} : Len(z.recs) > Len(x.recs)}
  BY DEF Parts
<1> HIDE DEF x, z
<1> QED BY <1>1, <1>5, <1>6

\* Of the directory, all remains but that tail.
LEMMA VariesRemains ==
  ASSUME NEW d, NEW e, NEW f, NEW j, NEW s, NEW r \in Records, Formed(e), Varies(e, f, j, s, r),
         s = [recs |-> s.recs, torn |-> FALSE, len |-> s.len], s.recs \in Seq(Records),
         Remains(d, e, f)
  PROVE  d = f \/ \E y \in Tails(s, r) : d = SetSegment(e, j, y)
<1>1. CASE d = f
  BY <1>1
<1>2. CASE d # f
  <2>1. PICK c : /\ c = [i \in DOMAIN e.segs |-> c[i]] /\ \A i \in DOMAIN e.segs : c[i] \in Parts(e, f, i)
                 /\ d = [e EXCEPT !.segs = c]
    BY <1>2 DEF Remains
  <2>2. j \in DOMAIN e.segs /\ \A i \in DOMAIN e.segs : i # j => Flushed(f, i) = e.segs[i]
    BY DEF Varies
  <2>3. c[j] \in Tails(s, r)
    BY <2>1, <2>2, PartsAreTails
  <2>4. \A i \in DOMAIN e.segs : i # j => c[i] = e.segs[i]
    <3> SUFFICES ASSUME NEW i \in DOMAIN e.segs, i # j PROVE c[i] = e.segs[i]
      OBVIOUS
    <3>1. Flushed(f, i) = e.segs[i]
      BY <2>2
    <3>2. Parts(e, f, i) = {e.segs[i]}
      BY <3>1 DEF Parts
    <3> QED BY <2>1, <3>2
  <2>5. c = [e.segs EXCEPT ![j] = c[j]]
    BY <2>1, <2>2, <2>4 DEF Formed
  <2>6. d = SetSegment(e, j, c[j])
    BY <2>1, <2>5 DEF SetSegment
  <2> QED BY <2>3, <2>6
<1> QED BY <1>1, <1>2

\* What write_all and sync_data may leave.
LEMMA LeftoversAre ==
  ASSUME NEW s, s = [recs |-> s.recs, torn |-> FALSE, len |-> s.len]
  PROVE  Leftovers(s) = Tails(s, rec)
<1>1. s = [recs |-> s.recs, torn |-> s.torn, len |-> s.len]
  OBVIOUS
<1>2. WithLine(s) = Lined(s, rec)
  BY <1>1, LineAppended DEF WithLine, Lined
<1> QED BY <1>2 DEF Leftovers, Tails

\* set_len takes back whatever is left.
LEMMA BeforeIs ==
  ASSUME NEW s, s = [recs |-> s.recs, torn |-> FALSE, len |-> mem.len], mem.len \in Nat,
         s.recs \in Seq(Records), rec \in Records, NEW x \in Tails(s, rec)
  PROVE  Before(x) = s
<1>1. s.len = mem.len /\ ~(s.len > mem.len)
  OBVIOUS
<1>2. s = [recs |-> s.recs, torn |-> FALSE, len |-> s.len]
  BY <1>1
<1>3. Before(s) = s
  BY <1>1 DEF Before
<1>4. WithHalfLine(s) = [recs |-> s.recs, torn |-> TRUE, len |-> s.len]
  BY <1>2, TailsAre
<1>5. Before(WithHalfLine(s)) = s
  BY <1>1, <1>4 DEF Before
<1>6. rec.size \in Nat \ {0}
  BY RecordFields
<1>7. Lined(s, rec).len > mem.len /\ Lined(s, rec).recs = Append(s.recs, rec)
  BY <1>1, <1>6 DEF Lined
<1>8. Before(Lined(s, rec)) = s
  BY <1>7, FrontOfAppend DEF Before
<1> QED BY <1>3, <1>5, <1>8 DEF Tails

\* What is known when a line is about to be written.
LEMMA BeforeTheLine ==
  ASSUME LogInv, pc = "write", NEW s, s = seen.segs[mem.seg]
  PROVE  /\ s = [recs |-> s.recs, torn |-> FALSE, len |-> mem.len] /\ mem.len \in Nat
         /\ s = [recs |-> s.recs, torn |-> FALSE, len |-> s.len]
         /\ s.recs \in Seq(Records) /\ rec \in Records /\ mem.seg \in DOMAIN seen.segs
<1>1. PICK H, n, lo, hi, b : Known(H, n, lo, hi, b)
  BY DEF LogInv
<1>2. /\ MemFits(n, lo, hi, b) /\ LineIn(H, n) /\ mem.next = n /\ NoneTorn(seen) /\ RecordFits
  <2>1. Alive
    BY DEF Alive, Busy
  <2> QED BY <1>1, <2>1, WorkSays DEF Written1, Busy
<1>3. mem.seg \in lo..hi /\ mem.len \in Nat
  BY <1>2 DEF MemFits
<1>4. Layout(seen, H, n, lo, hi, b) /\ DOMAIN seen.segs = lo..hi
  BY <1>1, KnownSays
<1>5. Holds(s, H, b[mem.seg], b[mem.seg + 1])
  BY <1>3, <1>4 DEF Layout
<1>6. s.len = mem.len
  BY <1>2 DEF LineIn
<1>7. s.torn = FALSE
  BY <1>2, <1>3, <1>4, <1>5 DEF NoneTorn, Holds
<1> QED BY <1>2, <1>3, <1>4, <1>5, <1>6, <1>7 DEF Holds, RecordFits

\* The chain with the line that is being written.
LEMMA LinedIsLaid ==
  ASSUME LogInv, pc = "write"
  PROVE  Laid(kept, SetSegment(seen, mem.seg, Lined(seen.segs[mem.seg], rec)))
<1>1. PICK H, n, lo, hi, b : Known(H, n, lo, hi, b)
  BY DEF LogInv
<1>2. History(H, n) /\ Layout(seen, H, n, lo, hi, b)
  BY <1>1, KnownSays
<1>3. /\ MemFits(n, lo, hi, b) /\ LineIn(H, n) /\ mem.next = n /\ Start(seen).next = b[lo] /\ RecordFits
  <2>1. Alive
    BY DEF Alive, Busy
  <2> QED BY <1>1, <2>1, WorkSays DEF Written1, Busy
<1>4. /\ mem.seg \in lo..hi /\ n \in Nat /\ b[mem.seg + 1] = n
      /\ mem.seg = hi \/ mem.seg + 1 = hi
  BY <1>2, <1>3, OwnSegment
<1>5. /\ kept = H /\ rec \in Records /\ rec.seq = n
      /\ rec.prev = mem.prev /\ rec.ts >= mem.ts /\ (rec.kind = "outcome" => rec.ref \in mem.open)
      /\ Place(H, n, mem)
  BY <1>3 DEF LineIn, RecordFits, MemFits
<1>6. PICK i, r, G, e : /\ i = mem.seg /\ r = rec /\ G = H \cup {r}
                        /\ e = SetSegment(seen, i, Lined(seen.segs[i], r))
  OBVIOUS
<1>7. History(G, n + 1)
  BY <1>2, <1>5, <1>6, HistoryGrows
<1>8. /\ i \in lo..hi /\ b[i + 1] = n /\ (i = hi \/ i + 1 = hi) /\ r \in Records /\ r.seq = n
  BY <1>4, <1>5, <1>6
<1>9. Layout(e, G, n + 1, lo, hi, Moved(n + 1, i, lo, hi, b)) /\ Start(e) = Start(seen)
  <2>1. Start(seen).next = b[lo] /\ e = SetSegment(seen, i, Lined(seen.segs[i], r))
    BY <1>3, <1>6
  <2>2. Layout(e, H \cup {r}, n + 1, lo, hi, Moved(n + 1, i, lo, hi, b))
    BY <1>2, <1>8, <2>1, LayoutGrows
  <2>3. Start(e) = Start(seen)
    BY <1>2, <1>8, <2>1, <2>2, LayoutGrows
  <2> QED BY <1>6, <2>2, <2>3
<1>10. kept \subseteq G /\ \A q \in G : q.seq + 1 < n + 1 \/ q.seq < Start(e).next => q \in kept
  <2>1. Start(seen).next \in Nat /\ Start(seen).next <= n
    BY <1>2, FloorFacts
  <2>2. ~(r.seq + 1 < n + 1) /\ ~(r.seq < Start(e).next)
    BY <1>4, <1>8, <1>9, <2>1
  <2> QED BY <1>5, <1>6, <2>2
<1>11. Laid(kept, e)
  BY <1>7, <1>9, <1>10 DEF Laid
<1> QED BY <1>6, <1>11

\* Whatever is left of that line, the chain is there.
LEMMA TailsAreLaid ==
  ASSUME LogInv, pc = "write", NEW y \in Tails(seen.segs[mem.seg], rec)
  PROVE  Laid(kept, SetSegment(seen, mem.seg, y))
<1>1. Formed(seen) /\ Laid(kept, seen)
  BY SeenIsLaid, LaidIsFormed
<1>2. mem.seg \in DOMAIN seen.segs
  BY BeforeTheLine
<1>3. CASE y = seen.segs[mem.seg]
  BY <1>1, <1>2, <1>3, SetToItself
<1>4. CASE y = Lined(seen.segs[mem.seg], rec)
  BY <1>4, LinedIsLaid
<1>5. CASE y = WithHalfLine(seen.segs[mem.seg])
  <2>1. PICK H, n, lo, hi, b : Known(H, n, lo, hi, b)
    BY DEF LogInv
  <2>2. /\ History(H, n) /\ Layout(seen, H, n, lo, hi, b) /\ kept \subseteq H
        /\ \A r \in H : r.seq + 1 < n \/ r.seq < Start(seen).next => r \in kept
        /\ DOMAIN seen.segs = lo..hi
    BY <2>1, KnownSays
  <2>3. PICK i, t, e : i = mem.seg /\ t = TRUE /\ e = SetSegment(seen, i, [seen.segs[i] EXCEPT !.torn = t])
    OBVIOUS
  <2>4. i \in lo..hi /\ t \in BOOLEAN /\ e = SetSegment(seen, mem.seg, y)
    BY <1>2, <1>5, <2>2, <2>3 DEF WithHalfLine
  <2>5. Layout(e, H, n, lo, hi, b) /\ Start(e) = Start(seen)
    <3>1. Layout(seen, H, n, lo, hi, b) /\ e = SetSegment(seen, i, [seen.segs[i] EXCEPT !.torn = t])
      BY <2>2, <2>3
    <3>2. i \in lo..hi /\ t \in BOOLEAN
      BY <2>4
    <3> HIDE <2>3
    <3> QED BY <3>1, <3>2, LayoutTorn
  <2>6. Laid(kept, e)
    BY <2>2, <2>5 DEF Laid
  <2> QED BY <2>4, <2>6
<1> QED BY <1>3, <1>4, <1>5 DEF Tails

-----------------------------------------------------------------------------
(* The steps.                                                                 *)

\* What is flushed is laid as well.
LEMMA DurableIsLaid == ASSUME PowerInv PROVE Laid(kept, durable)
BY DEF PowerInv, Remains

\* All that was written is flushed, or names only are not.
LEMMA Settles ==
  ASSUME LogInv', Laid(kept', durable'), Settled(seen', durable'), pc' \notin Unsettled,
         pc' \in Dropping \/ DOMAIN durable'.segs \subseteq DOMAIN seen'.segs
  PROVE  PowerInv'
<1>1. Laid(kept', seen') /\ Formed(seen')
  BY SeenIsLaidAfter, LaidIsFormed
<1>2. ASSUME NEW d, Remains(d, seen', durable') PROVE Laid(kept', d)
  BY <1>1, <1>2, SettledRemains
<1> QED BY <1>2 DEF PowerInv

\* A flush leaves nothing unsettled.
LEMMA Flushes ==
  ASSUME LogInv', durable' = seen', pc' \notin Unsettled
  PROVE  PowerInv'
BY SeenIsLaidAfter, FlushedIsSettled, Settles

\* No file changes.
LEMMA Stays ==
  ASSUME PowerInv, UNCHANGED files, kept' = kept, pc' \notin Unsettled,
         Quiet' => Quiet /\ pc \notin Dropping
  PROVE  PowerInv'
<1>1. seen' = seen /\ durable' = durable
  BY DEF files
<1>2. \A d : Remains(d, seen', durable') => Laid(kept', d)
  BY <1>1 DEF PowerInv
<1>3. Quiet' => Settled(seen', durable') /\ DOMAIN durable'.segs \subseteq DOMAIN seen'.segs
  BY <1>1 DEF PowerInv
<1> QED BY <1>2, <1>3 DEF PowerInv

\* Some of a line may be left in its segment.
LEMMA Leaves ==
  ASSUME LogInv', Laid(kept', durable'), ~Quiet', NEW j, NEW s, NEW r \in Records,
         Varies(seen', durable', j, s, r),
         s = [recs |-> s.recs, torn |-> FALSE, len |-> s.len], s.recs \in Seq(Records),
         \A y \in Tails(s, r) : Laid(kept', SetSegment(seen', j, y)),
         pc' \in Unsettled => Pending(s)'
  PROVE  PowerInv'
<1>1. Formed(seen')
  BY SeenIsLaidAfter, LaidIsFormed
<1>2. ASSUME NEW d, Remains(d, seen', durable') PROVE Laid(kept', d)
  BY <1>1, <1>2, VariesRemains
<1> QED BY <1>2 DEF PowerInv

\* What is known between the flush of a line and the next line.
LEMMA QuietSays ==
  ASSUME LogInv, PowerInv, Quiet
  PROVE  /\ Journalled = seen /\ Settled(seen, durable) /\ Formed(seen)
         /\ pc \notin Dropping => DOMAIN durable.segs \subseteq DOMAIN seen.segs
<1>1. Formed(seen)
  BY SeenIsLaid, LaidIsFormed
<1>2. Settled(seen, durable) /\ (pc \notin Dropping => DOMAIN durable.segs \subseteq DOMAIN seen.segs)
  BY DEF PowerInv
<1> QED BY <1>1, <1>2, JournalledIs

\* The directory is flushed.
LEMMA SyncDirFlushes ==
  ASSUME LogInv, PowerInv, LogInv', Quiet, SyncDir, seen' = seen, pc' \notin Unsettled
  PROVE  PowerInv'
<1>1. durable' = seen'
  BY QuietSays DEF SyncDir
<1> QED BY <1>1, Flushes

\* Names change and are not flushed.
LEMMA Renames ==
  ASSUME LogInv, PowerInv, LogInv', kept' = kept, durable' = durable,
         Settled(seen', durable), pc' \notin Unsettled,
         pc' \in Dropping \/ DOMAIN durable.segs \subseteq DOMAIN seen'.segs
  PROVE  PowerInv'
<1>1. Laid(kept', durable') /\ Settled(seen', durable')
  BY DurableIsLaid
<1>2. pc' \in Dropping \/ DOMAIN durable'.segs \subseteq DOMAIN seen'.segs
  OBVIOUS
<1> QED BY <1>1, <1>2, Settles

\* A segment is removed.
LEMMA DropIs ==
  ASSUME NEW e, NEW f, Formed(e), Settled(e, f), NEW i
  PROVE  Settled(DropSegment(e, i), f)
<1> DEFINE g == [j \in DOMAIN e.segs \ {i} |-> e.segs[j]]
<1>1. DropSegment(e, i).segs = g
  BY DEF DropSegment, Formed
<1> QED BY <1>1 DEF Settled

\* A segment is created.
LEMMA AddIs ==
  ASSUME NEW e, NEW f, Formed(e), Settled(e, f), NEW i, i \notin DOMAIN f.segs
  PROVE  Settled(AddSegment(e, i), f) /\ DOMAIN e.segs \subseteq DOMAIN AddSegment(e, i).segs
<1> DEFINE g == [j \in DOMAIN e.segs \cup {i} |-> IF j = i THEN Empty ELSE e.segs[j]]
<1>1. AddSegment(e, i).segs = g
  BY DEF AddSegment, Formed
<1>2. \A j \in DOMAIN g : Flushed(f, j) = g[j]
  BY DEF Settled, Flushed
<1> QED BY <1>1, <1>2 DEF Settled

\* HEAD or CHECKPOINT is renamed.
LEMMA NameIs ==
  ASSUME NEW e, NEW f, Formed(e), Settled(e, f), NEW d, d.segs = e.segs
  PROVE  Settled(d, f) /\ DOMAIN d.segs = DOMAIN e.segs
BY DEF Settled

\* An open fails.
LEMMA OpenStops ==
  ASSUME PowerInv, OpenFails, UNCHANGED files
  PROVE  PowerInv'
<1>1. pc' = "down" /\ kept' = kept
  BY DEF OpenFails, Goto
<1>2. ~Quiet' /\ pc' \notin Unsettled
  BY <1>1 DEF Quiet, Recovering, Alive, Busy, Pruning, Written1, Unsettled
<1> QED BY <1>1, <1>2, Stays

\* An append fails and the log with it.
LEMMA HardStops ==
  ASSUME LogInv, PowerInv, Alive, AppendFails(TRUE), UNCHANGED files
  PROVE  PowerInv'
<1>1. PICK H, n, lo, hi, b : Known(H, n, lo, hi, b)
  BY DEF LogInv
<1>2. MemFits(n, lo, hi, b)
  BY <1>1, WorkSays
<1>3. mem' = [mem EXCEPT !.failed = TRUE] /\ pc' \in {"down", "ready"} /\ kept' = kept
  BY DEF AppendFails, Goto
<1>4. mem'.failed = TRUE
  BY <1>2, <1>3 DEF MemFits
<1>5. ~Quiet' /\ pc' \notin Unsettled
  BY <1>3, <1>4 DEF Quiet, Recovering, Alive, Busy, Pruning, Written1, Unsettled
<1> QED BY <1>3, <1>5, Stays

\* An append fails, the log goes on.
LEMMA SoftStops ==
  ASSUME PowerInv, pc \in {"rotate", "rotateSync"}, AppendFails(FALSE), UNCHANGED files
  PROVE  PowerInv'
<1>1. pc' \in {"down", "ready"} /\ kept' = kept
  BY DEF AppendFails, Goto
<1>2. Quiet /\ pc \notin Dropping /\ pc' \notin Unsettled
  BY <1>1 DEF Quiet, Alive, Busy, Unsettled, Dropping
<1> QED BY <1>1, <1>2, Stays

\* A process starts on flushed files.
LEMMA OpenPower ==
  ASSUME LogInv', Open, seen = durable
  PROVE  PowerInv'
<1>1. durable' = seen' /\ pc' = Recovery(seen)
  BY DEF Open, files, Goto
<1>2. pc' \notin Unsettled
  BY <1>1, RecoveryGoesOn DEF Unsettled
<1> QED BY <1>1, <1>2, Flushes

\* The flushes of a recovery.
LEMMA FlushOnOpenPower ==
  ASSUME LogInv, PowerInv, LogInv', Quarantine \/ SyncStale \/ SyncRepair \/ SyncSegment
  PROVE  PowerInv'
<1>1. Quiet
  BY DEF Quarantine, SyncStale, SyncRepair, SyncSegment, Quiet, Recovering, Unsettled
<1>2. CASE OpenFails /\ UNCHANGED files
  BY <1>2, OpenStops
<1>3. CASE SyncDir /\ seen' = seen /\ pc' \in {"cut", Recovery(seen), "segment", "close"}
  <2>1. pc' \notin Unsettled
    BY <1>3, RecoveryGoesOn DEF Unsettled
  <2> QED BY <1>1, <1>3, <2>1, SyncDirFlushes
<1> QED BY <1>2, <1>3 DEF Quarantine, SyncStale, SyncRepair, SyncSegment, Opening, Goto

\* What is behind the checkpoint is removed.
LEMMA RemoveStalePower ==
  ASSUME LogInv, PowerInv, LogInv', RemoveStale
  PROVE  PowerInv'
<1>1. CASE OpenFails /\ UNCHANGED files
  BY <1>1, OpenStops
<1>2. CASE /\ seen' = DropSegment(seen, Lower(Stale(seen)))
           /\ Opening(IF Stale(seen') = {} THEN "staleSync" ELSE "stale") /\ UNCHANGED <<durable, mem>>
  <2>1. Quiet
    BY DEF RemoveStale, Quiet, Recovering, Unsettled
  <2>2. Settled(seen', durable)
    BY <1>2, <2>1, QuietSays, DropIs
  <2>3. pc' \in Dropping /\ pc' \notin Unsettled /\ kept' = kept
    BY <1>2 DEF Opening, Goto, Dropping, Unsettled
  <2> QED BY <1>2, <2>2, <2>3, Renames
<1> QED BY <1>1, <1>2 DEF RemoveStale

\* HEAD is renamed.
LEMMA RepairHeadPower ==
  ASSUME LogInv, PowerInv, LogInv', RepairHead
  PROVE  PowerInv'
<1>1. CASE OpenFails /\ UNCHANGED files
  BY <1>1, OpenStops
<1>2. CASE seen' = [seen EXCEPT !.head = Tip(seen)] /\ Opening("repairSync") /\ UNCHANGED <<durable, mem>>
  <2>1. Quiet /\ pc \notin Dropping
    BY DEF RepairHead, Quiet, Recovering, Unsettled, Dropping
  <2>2. seen'.segs = seen.segs
    BY <1>2, <2>1, QuietSays DEF Formed
  <2>3. pc' \notin Unsettled /\ kept' = kept
    BY <1>2 DEF Opening, Goto, Unsettled
  <2> QED BY <1>2, <2>1, <2>2, <2>3, QuietSays, NameIs, Renames
<1> QED BY <1>1, <1>2 DEF RepairHead

\* The last segment is opened, or a first one created.
LEMMA OpenSegmentPower ==
  ASSUME LogInv, PowerInv, LogInv', OpenSegment
  PROVE  PowerInv'
<1>0. Quiet /\ pc \notin Dropping
  BY DEF OpenSegment, Quiet, Recovering, Unsettled, Dropping
<1>1. CASE OpenFails /\ UNCHANGED files
  BY <1>1, OpenStops
<1>2. CASE Opening("close") /\ UNCHANGED files
  <2>1. pc' \notin Unsettled /\ kept' = kept
    BY <1>2 DEF Opening, Goto, Unsettled
  <2> QED BY <1>0, <1>2, <2>1, Stays
<1>3. CASE /\ DOMAIN seen.segs = {} /\ seen' = AddSegment(seen, 1)
           /\ Opening("segmentSync") /\ UNCHANGED <<durable, mem>>
  <2>1. /\ Settled(seen, durable) /\ Formed(seen) /\ 1 \notin DOMAIN durable.segs
        /\ DOMAIN durable.segs \subseteq DOMAIN seen.segs
    BY <1>0, <1>3, QuietSays
  <2>2. Settled(seen', durable) /\ DOMAIN seen.segs \subseteq DOMAIN seen'.segs
    BY <1>3, <2>1, AddIs
  <2>3. pc' \notin Unsettled /\ kept' = kept
    BY <1>3 DEF Opening, Goto, Unsettled
  <2> QED BY <1>3, <2>1, <2>2, <2>3, Renames
<1> QED BY <1>1, <1>2, <1>3 DEF OpenSegment

\* A segment is a record of three.
LEMMA SegmentForm ==
  ASSUME NEW K, NEW d, Laid(K, d), NEW i \in DOMAIN d.segs
  PROVE  d.segs[i] = [recs |-> d.segs[i].recs, torn |-> d.segs[i].torn, len |-> d.segs[i].len]
<1>1. PICK H, n, lo, hi, b : Layout(d, H, n, lo, hi, b)
  BY DEF Laid
<1>2. i \in lo..hi
  BY <1>1 DEF Layout
<1> QED BY <1>1, <1>2 DEF Layout, Holds

\* The torn tail is cut off, flushed or not.
LEMMA CutTailPower ==
  ASSUME LogInv, PowerInv, LogInv', CutTail
  PROVE  PowerInv'
<1>0. Quiet
  BY DEF CutTail, Quiet, Recovering, Unsettled
<1>1. Journalled = seen /\ Settled(seen, durable) /\ Formed(seen) /\ Laid(kept, seen)
  BY <1>0, QuietSays, SeenIsLaid
<1>2. PICK i \in TornSegments(seen) :
        LET whole == [seen.segs[i] EXCEPT !.torn = FALSE] IN
        \/ /\ seen' = SetSegment(seen, i, whole)
           /\ durable' = SetSegment(Journalled, i, whole)
           /\ Opening(Recovery(seen')) /\ UNCHANGED mem
        \/ IoError /\ OpenFails /\ UNCHANGED files
        \/ IoError /\ OpenFails /\ seen' = SetSegment(seen, i, whole) /\ UNCHANGED durable
  BY DEF CutTail
<1> DEFINE whole == [seen.segs[i] EXCEPT !.torn = FALSE]
<1>3. CASE /\ seen' = SetSegment(seen, i, whole) /\ durable' = SetSegment(Journalled, i, whole)
           /\ Opening(Recovery(seen')) /\ UNCHANGED mem
  <2>1. durable' = seen'
    BY <1>1, <1>3
  <2>2. pc' \notin Unsettled
    BY <1>3, RecoveryGoesOn DEF Opening, Goto, Unsettled
  <2> QED BY <2>1, <2>2, Flushes
<1>4. CASE OpenFails /\ UNCHANGED files
  BY <1>4, OpenStops
<1>5. CASE OpenFails /\ seen' = SetSegment(seen, i, whole) /\ UNCHANGED durable
  <2>0. i \in DOMAIN seen.segs
    BY DEF TornSegments
  <2>1. pc' = "down" /\ kept' = kept
    BY <1>5 DEF OpenFails, Goto
  <2>2. ~Quiet' /\ pc' \notin Unsettled
    BY <2>1 DEF Quiet, Recovering, Alive, Busy, Pruning, Written1, Unsettled
  <2>3. Laid(kept', seen') /\ Laid(kept', durable') /\ Laid(kept', seen)
    BY <1>1, <1>5, <2>1, SeenIsLaidAfter, DurableIsLaid
  <2>4. ASSUME NEW d, Remains(d, seen', durable') PROVE d = durable' \/ d = seen' \/ d = seen
    <3> HIDE DEF whole
    <3>1. SUFFICES ASSUME d # durable' PROVE d = seen' \/ d = seen
      OBVIOUS
    <3>2. /\ DOMAIN seen'.segs = DOMAIN seen.segs /\ seen'.segs[i] = whole
          /\ \A j \in DOMAIN seen.segs : j # i => seen'.segs[j] = seen.segs[j]
      BY <1>1, <1>5, <2>0, SetFacts
    <3>3. PICK c : /\ c = [j \in DOMAIN seen.segs |-> c[j]]
                   /\ \A j \in DOMAIN seen.segs : c[j] \in Parts(seen', durable', j)
                   /\ d = [seen' EXCEPT !.segs = c]
      BY <2>4, <3>1, <3>2 DEF Remains
    <3>4. \A j \in DOMAIN seen.segs : Flushed(durable', j) = seen.segs[j]
      BY <1>1, <1>5 DEF Settled
    <3>5. \A j \in DOMAIN seen.segs : j # i => c[j] = seen.segs[j]
      BY <3>2, <3>3, <3>4 DEF Parts
    <3>6. c[i] = seen.segs[i] \/ c[i] = whole
      <4>1. whole.recs = seen.segs[i].recs
        BY <1>1, <2>0, SegmentForm DEF whole
      <4> QED BY <2>0, <3>2, <3>3, <3>4, <4>1 DEF Parts
    <3>7. c = [seen.segs EXCEPT ![i] = c[i]]
      BY <1>1, <2>0, <3>3, <3>5 DEF Formed
    <3>8. d = SetSegment(seen, i, c[i])
      <4>1. /\ seen' = [head |-> seen.head, checkpoint |-> seen.checkpoint, segs |-> seen'.segs]
            /\ SetSegment(seen, i, c[i]) = [head |-> seen.head, checkpoint |-> seen.checkpoint, segs |-> c]
        <5>1. Formed(seen)
          BY <1>1
        <5>2. seen' = [head |-> seen.head, checkpoint |-> seen.checkpoint,
                       segs |-> [seen.segs EXCEPT ![i] = whole]]
              /\ seen'.segs = [seen.segs EXCEPT ![i] = whole]
          BY <1>5, <2>0, <5>1, SetIs
        <5>3. \A x : SetSegment(seen, i, x) = [head |-> seen.head, checkpoint |-> seen.checkpoint,
                                              segs |-> [seen.segs EXCEPT ![i] = x]]
          <6> TAKE x
          <6> QED BY <2>0, <5>1, SetIs
        <5> QED BY <3>7, <5>2, <5>3
      <4> QED BY <3>3, <4>1
    <3>9. SetSegment(seen, i, seen.segs[i]) = seen
      BY <1>1, <2>0, SetToItself
    <3> QED BY <1>5, <3>6, <3>8, <3>9
  <2>5. \A d : Remains(d, seen', durable') => Laid(kept', d)
    BY <2>3, <2>4
  <2> QED BY <2>2, <2>5 DEF PowerInv
<1> QED BY <1>2, <1>3, <1>4, <1>5

\* The next segment is created.
LEMMA RotatePower ==
  ASSUME LogInv, PowerInv, LogInv', Rotate
  PROVE  PowerInv'
<1>0. pc = "rotate" /\ Quiet /\ pc \notin Dropping /\ Alive
  BY DEF Rotate, Quiet, Alive, Busy, Unsettled, Dropping
<1>1. CASE AppendFails(FALSE) /\ UNCHANGED files
  BY <1>0, <1>1, SoftStops
<1>2. CASE /\ mem.seg + 1 \notin DOMAIN seen.segs /\ seen' = AddSegment(seen, mem.seg + 1)
           /\ Appending("rotateSync") /\ UNCHANGED <<durable, mem>>
  <2>1. /\ Settled(seen, durable) /\ Formed(seen) /\ mem.seg + 1 \notin DOMAIN durable.segs
        /\ DOMAIN durable.segs \subseteq DOMAIN seen.segs
    BY <1>0, <1>2, QuietSays
  <2>2. Settled(seen', durable) /\ DOMAIN seen.segs \subseteq DOMAIN seen'.segs
    BY <1>2, <2>1, AddIs
  <2>3. pc' \notin Unsettled /\ kept' = kept
    BY <1>2 DEF Appending, Goto, Unsettled
  <2> QED BY <1>2, <2>1, <2>2, <2>3, Renames
<1> QED BY <1>1, <1>2 DEF Rotate

\* The flushes of the directory in an append.
LEMMA FlushOnAppendPower ==
  ASSUME LogInv, PowerInv, LogInv', SyncRotate \/ SyncPrune \/ SyncPruneRemove \/ SyncHead
  PROVE  PowerInv'
<1>0. Quiet /\ Alive
  BY DEF SyncRotate, SyncPrune, SyncPruneRemove, SyncHead, Quiet, Alive, Busy, Pruning, Written1, Unsettled
<1>1. CASE AppendFails(TRUE) /\ UNCHANGED files
  BY <1>0, <1>1, HardStops
<1>2. CASE pc = "rotateSync" /\ AppendFails(FALSE) /\ UNCHANGED files
  BY <1>2, SoftStops
<1>3. CASE SyncDir /\ seen' = seen /\ pc' \in {"write", "prune", "pruneRemove", home}
  <2>1. pc' \notin Unsettled
    BY <1>3 DEF LogInv, Unsettled
  <2> QED BY <1>0, <1>3, <2>1, SyncDirFlushes
<1> QED BY <1>1, <1>2, <1>3 DEF SyncRotate, SyncPrune, SyncPruneRemove, SyncHead, Appending, Goto

\* The checkpoint is renamed.
LEMMA PrunePower ==
  ASSUME LogInv, PowerInv, LogInv', Prune
  PROVE  PowerInv'
<1>0. Quiet /\ Alive /\ pc \notin Dropping
  BY DEF Prune, Quiet, Alive, Busy, Pruning, Unsettled, Dropping
<1>1. CASE AppendFails(TRUE) /\ UNCHANGED files
  BY <1>0, <1>1, HardStops
<1>2. ASSUME NEW x, seen' = [seen EXCEPT !.checkpoint = x] \/ seen' = seen,
             pc' \in {"pruneSync", "pruneRemove"}, kept' = kept, durable' = durable
      PROVE  PowerInv'
  <2>1. seen'.segs = seen.segs
    BY <1>0, <1>2, QuietSays DEF Formed
  <2>2. pc' \notin Unsettled
    BY <1>2 DEF Unsettled
  <2> QED BY <1>0, <1>2, <2>1, <2>2, QuietSays, NameIs, Renames
<1> QED BY <1>1, <1>2 DEF Prune, Appending, Goto

\* The segment behind it is removed.
LEMMA PruneRemovePower ==
  ASSUME LogInv, PowerInv, LogInv', PruneRemove
  PROVE  PowerInv'
<1>0. Quiet /\ Alive
  BY DEF PruneRemove, Quiet, Alive, Busy, Pruning, Unsettled
<1>1. CASE AppendFails(TRUE) /\ UNCHANGED files
  BY <1>0, <1>1, HardStops
<1>2. CASE /\ seen' = DropSegment(seen, Lower(DOMAIN seen.segs))
           /\ Appending("pruneRemoveSync") /\ UNCHANGED <<durable, mem>>
  <2>1. Settled(seen', durable)
    BY <1>0, <1>2, QuietSays, DropIs
  <2>2. pc' \in Dropping /\ pc' \notin Unsettled /\ kept' = kept
    BY <1>2 DEF Appending, Goto, Dropping, Unsettled
  <2> QED BY <1>2, <2>1, <2>2, Renames
<1> QED BY <1>1, <1>2 DEF PruneRemove

\* HEAD is renamed to name the line.
LEMMA RenameHeadPower ==
  ASSUME LogInv, PowerInv, LogInv', RenameHead
  PROVE  PowerInv'
<1>0. Quiet /\ Alive /\ pc \notin Dropping
  BY DEF RenameHead, Quiet, Alive, Busy, Written1, Unsettled, Dropping
<1>1. CASE AppendFails(TRUE) /\ UNCHANGED files
  BY <1>0, <1>1, HardStops
<1>2. CASE seen' = [seen EXCEPT !.head = Names(rec)] /\ Appending("headSync") /\ UNCHANGED <<durable, mem>>
  <2>1. seen'.segs = seen.segs
    BY <1>0, <1>2, QuietSays DEF Formed
  <2>2. pc' \notin Unsettled /\ kept' = kept
    BY <1>2 DEF Appending, Goto, Unsettled
  <2> QED BY <1>0, <1>2, <2>1, <2>2, QuietSays, NameIs, Renames
<1> QED BY <1>1, <1>2 DEF RenameHead

\* A line, or part of it, is in the file and not flushed.
LEMMA LineLeft ==
  ASSUME LogInv, PowerInv, LogInv', pc = "write", NEW x \in Tails(seen.segs[mem.seg], rec),
         seen' = SetSegment(seen, mem.seg, x), durable' = durable, kept' = kept,
         pc' = "down" \/ (pc' \in {"sync", "rollback"} /\ mem' = mem /\ rec' = rec)
  PROVE  PowerInv'
<1>1. PICK s, j, r : s = seen.segs[mem.seg] /\ j = mem.seg /\ r = rec
  OBVIOUS
<1>2. /\ s = [recs |-> s.recs, torn |-> FALSE, len |-> mem.len] /\ mem.len \in Nat
      /\ s = [recs |-> s.recs, torn |-> FALSE, len |-> s.len]
      /\ s.recs \in Seq(Records) /\ r \in Records /\ j \in DOMAIN seen.segs
  BY <1>1, BeforeTheLine
<1>3. Settled(seen, durable) /\ Formed(seen)
  <2>1. Quiet
    BY DEF Quiet, Alive, Busy, Unsettled
  <2> QED BY <2>1, QuietSays
<1>4. /\ DOMAIN seen'.segs = DOMAIN seen.segs /\ seen'.segs[j] = x
      /\ \A i \in DOMAIN seen.segs : i # j => seen'.segs[i] = seen.segs[i]
  <2>1. seen' = SetSegment(seen, j, x)
    BY <1>1
  <2> QED BY <1>2, <1>3, <2>1, SetFacts
<1>5. Flushed(durable', j) = s /\ \A i \in DOMAIN seen.segs : Flushed(durable', i) = seen.segs[i]
  BY <1>1, <1>2, <1>3 DEF Settled
<1>6. Varies(seen', durable', j, s, r)
  BY <1>1, <1>2, <1>4, <1>5 DEF Varies, Tails
<1>7. ASSUME NEW y \in Tails(s, r) PROVE Laid(kept', SetSegment(seen', j, y))
  <2>1. Laid(kept, SetSegment(seen, mem.seg, y))
    BY <1>1, <1>7, TailsAreLaid
  <2>2. SetSegment(seen', j, y) = SetSegment(seen, j, y)
    BY <1>1, <1>2, <1>3, SetTwice
  <2> QED BY <1>1, <2>1, <2>2
<1>8. pc' \in Unsettled => Pending(s)'
  <2>1. SUFFICES ASSUME pc' \in Unsettled PROVE Pending(s)'
    OBVIOUS
  <2>2. mem' = mem /\ rec' = rec
    BY <2>1 DEF Unsettled
  <2>3. mem'.seg = j /\ mem'.len = mem.len /\ rec' = r
    BY <1>1, <2>2
  <2>4. \A y \in Tails(s, rec') : Laid(kept', SetSegment(seen', mem'.seg, y))
    BY <1>7, <2>3
  <2>5. Varies(seen', durable', mem'.seg, s, rec') /\ Flushed(durable', mem'.seg) = s
    BY <1>5, <1>6, <2>3
  <2>6. s = [recs |-> s.recs, torn |-> FALSE, len |-> mem'.len] /\ mem'.len \in Nat /\ rec' \in Records
    BY <1>2, <2>3
  <2> QED BY <1>2, <2>4, <2>5, <2>6 DEF Pending
<1>9. ~Quiet'
  BY DEF Quiet, Recovering, Alive, Busy, Pruning, Written1, Unsettled
<1>10. Laid(kept', durable')
  BY DurableIsLaid
<1> QED BY <1>2, <1>6, <1>7, <1>8, <1>9, <1>10, Leaves

\* The line is written, or some of it.
LEMMA WriteLinePower ==
  ASSUME LogInv, PowerInv, LogInv', WriteLine
  PROVE  PowerInv'
<1>1. PICK s : s = seen.segs[mem.seg]
  OBVIOUS
<1>2. pc = "write" /\ s = [recs |-> s.recs, torn |-> FALSE, len |-> s.len]
  BY <1>1, BeforeTheLine DEF WriteLine
<1>3. Leftovers(s) = Tails(s, rec)
  BY <1>2, LeftoversAre
<1>4. \E x \in Leftovers(s) : seen' = SetSegment(seen, mem.seg, x)
  BY <1>1 DEF WriteLine, Leftovers
<1>5. durable' = durable /\ kept' = kept /\ pc' \in {"sync", "rollback"} /\ mem' = mem /\ rec' = rec
  BY DEF WriteLine, Appending, Goto
<1> QED BY <1>1, <1>2, <1>3, <1>4, <1>5, LineLeft

\* The files while a line is not settled.
LEMMA JournalledThere ==
  ASSUME Formed(seen), NEW j, NEW s, NEW r, Varies(seen, durable, j, s, r)
  PROVE  /\ Journalled.segs[j] = Flushed(durable, j)
         /\ \A y : SetSegment(Journalled, j, y) = SetSegment(seen, j, y)
<1> DEFINE g == [i \in DOMAIN seen.segs |->
                   IF i \in DOMAIN durable.segs THEN durable.segs[i] ELSE Empty]
<1>1. j \in DOMAIN seen.segs /\ \A i \in DOMAIN seen.segs : i # j => g[i] = seen.segs[i]
  BY DEF Varies, Flushed
<1>2. Journalled = [head |-> seen.head, checkpoint |-> seen.checkpoint, segs |-> g]
  BY DEF Journalled, Formed
<1>3. g[j] = Flushed(durable, j) /\ g = [i \in DOMAIN g |-> g[i]] /\ DOMAIN g = DOMAIN seen.segs
  BY <1>1 DEF Flushed
<1> HIDE DEF g
<1>4. Formed(Journalled) /\ Journalled.segs = g /\ Journalled.head = seen.head
      /\ Journalled.checkpoint = seen.checkpoint
  BY <1>2, <1>3 DEF Formed
<1>5. ASSUME NEW y PROVE SetSegment(Journalled, j, y) = SetSegment(seen, j, y)
  <2>1. [g EXCEPT ![j] = y] = [seen.segs EXCEPT ![j] = y]
    BY <1>1, <1>3 DEF Formed
  <2>2. PICK d : d = Journalled
    OBVIOUS
  <2>3. Formed(d) /\ j \in DOMAIN d.segs /\ d.segs = g /\ d.head = seen.head
        /\ d.checkpoint = seen.checkpoint
    BY <1>1, <1>3, <1>4, <2>2
  <2>4. SetSegment(d, j, y) = [head |-> d.head, checkpoint |-> d.checkpoint,
                                  segs |-> [d.segs EXCEPT ![j] = y]]
    BY <2>3, SetIs
  <2>5. SetSegment(seen, j, y) = [head |-> seen.head, checkpoint |-> seen.checkpoint,
                                  segs |-> [seen.segs EXCEPT ![j] = y]]
    BY <1>1, SetIs
  <2> QED BY <2>1, <2>2, <2>3, <2>4, <2>5
<1> QED BY <1>3, <1>4, <1>5

\* The line stays unsettled.
LEMMA StaysPending ==
  ASSUME LogInv', NEW s, Pending(s), pc' \in {"rollback", "rollbackSync"},
         UNCHANGED <<mem, rec, kept>>, Laid(kept, durable'), Varies(seen', durable', mem.seg, s, rec),
         \A y : SetSegment(seen', mem.seg, y) = SetSegment(seen, mem.seg, y)
  PROVE  PowerInv'
<1>1. PICK j, r : j = mem.seg /\ r = rec
  OBVIOUS
<1>2. /\ s = [recs |-> s.recs, torn |-> FALSE, len |-> mem.len] /\ mem.len \in Nat
      /\ s.recs \in Seq(Records) /\ r \in Records
      /\ \A y \in Tails(s, r) : Laid(kept, SetSegment(seen, j, y))
  BY <1>1 DEF Pending
<1>3. s = [recs |-> s.recs, torn |-> FALSE, len |-> s.len]
  BY <1>2
<1>4. kept' = kept /\ rec' = r /\ mem'.seg = j /\ mem'.len = mem.len /\ Varies(seen', durable', j, s, r)
  BY <1>1
<1>5. \A y \in Tails(s, r) : Laid(kept', SetSegment(seen', j, y))
  BY <1>1, <1>2, <1>4
<1>6. Pending(s)'
  BY <1>2, <1>4, <1>5 DEF Pending
<1>7. ~Quiet'
  BY DEF Quiet, Unsettled, Recovering
<1>8. Laid(kept', durable')
  BY <1>4
<1> QED BY <1>2, <1>3, <1>4, <1>5, <1>6, <1>7, <1>8, Leaves

\* What a flush of the segment does while the line is not settled.
LEMMA PendingSays ==
  ASSUME LogInv, NEW s, Pending(s)
  PROVE  /\ Formed(seen) /\ mem.seg \in DOMAIN seen.segs
         /\ Journalled.segs[mem.seg] = Flushed(durable, mem.seg)
         /\ \A y : SetSegment(Journalled, mem.seg, y) = SetSegment(seen, mem.seg, y)
         /\ SetSegment(seen, mem.seg, seen.segs[mem.seg]) = seen
<1>1. Formed(seen)
  BY SeenIsLaid, LaidIsFormed
<1>2. PICK j, r : j = mem.seg /\ r = rec
  OBVIOUS
<1>3. Varies(seen, durable, j, s, r) /\ j \in DOMAIN seen.segs
  BY <1>2 DEF Pending, Varies
<1>4. /\ Journalled.segs[j] = Flushed(durable, j)
      /\ \A y : SetSegment(Journalled, j, y) = SetSegment(seen, j, y)
  BY <1>1, <1>3, JournalledThere
<1>5. SetSegment(seen, j, seen.segs[j]) = seen
  BY <1>1, <1>3, SetToItself
<1> QED BY <1>1, <1>2, <1>3, <1>4, <1>5

\* The line is flushed, or some of it.
LEMMA SyncLinePower ==
  ASSUME LogInv, PowerInv, LogInv', SyncLine
  PROVE  PowerInv'
<1>1. pc = "sync"
  BY DEF SyncLine
<1>2. PICK s : Pending(s)
  BY <1>1 DEF PowerInv, Unsettled
<1>3. CASE /\ durable' = SetSegment(Journalled, mem.seg, seen.segs[mem.seg])
           /\ Appending("head") /\ UNCHANGED <<seen, mem>>
  <2>1. durable' = seen'
    BY <1>2, <1>3, PendingSays
  <2>2. pc' \notin Unsettled
    BY <1>3 DEF Appending, Goto, Unsettled
  <2> QED BY <2>1, <2>2, Flushes
<1>4. CASE /\ IoError /\ Goto("rollback")
           /\ \E left \in Leftovers(Journalled.segs[mem.seg]) :
                durable' = SetSegment(Journalled, mem.seg, left)
           /\ UNCHANGED <<seen, home, mem, rec, sealed, kept>>
  <2>1. /\ Flushed(durable, mem.seg) = s /\ s = [recs |-> s.recs, torn |-> FALSE, len |-> s.len]
        /\ Varies(seen, durable, mem.seg, s, rec)
        /\ \A y \in Tails(s, rec) : Laid(kept, SetSegment(seen, mem.seg, y))
    BY <1>1, <1>2 DEF Pending
  <2>2. PICK left \in Leftovers(s) : durable' = SetSegment(seen, mem.seg, left)
    BY <1>2, <1>4, <2>1, PendingSays
  <2>3. left \in Tails(s, rec)
    BY <2>1, <2>2, LeftoversAre
  <2>4. Laid(kept, durable')
    BY <2>1, <2>2, <2>3
  <2>5. PICK j, r : j = mem.seg /\ r = rec
    OBVIOUS
  <2>6. /\ DOMAIN durable'.segs = DOMAIN seen.segs /\ durable'.segs[j] = left
        /\ \A i \in DOMAIN seen.segs : i # j => durable'.segs[i] = seen.segs[i]
    <3>1. Formed(seen) /\ j \in DOMAIN seen.segs /\ durable' = SetSegment(seen, j, left)
      BY <1>2, <2>2, <2>5, PendingSays
    <3> QED BY <3>1, SetFacts
  <2>7. j \in DOMAIN seen.segs /\ seen.segs[j] \in Tails(s, r)
    BY <2>1, <2>5 DEF Varies
  <2>8. /\ Flushed(durable', j) = left
        /\ \A i \in DOMAIN seen.segs : i # j => Flushed(durable', i) = seen.segs[i]
    BY <2>6, <2>7 DEF Flushed
  <2>9. Varies(seen', durable', j, s, r)
    BY <1>4, <2>3, <2>5, <2>7, <2>8 DEF Varies
  <2>10. pc' = "rollback"
    BY <1>4 DEF Goto
  <2> QED BY <1>2, <1>4, <2>4, <2>5, <2>9, <2>10, StaysPending
<1> QED BY <1>3, <1>4 DEF SyncLine

\* The segment is cut back.
LEMMA RollBackPower ==
  ASSUME LogInv, PowerInv, LogInv', RollBack
  PROVE  PowerInv'
<1>1. pc = "rollback" /\ Alive
  BY DEF RollBack, Alive, Busy
<1>2. CASE AppendFails(TRUE) /\ UNCHANGED files
  BY <1>1, <1>2, HardStops
<1>3. CASE /\ seen' = SetSegment(seen, mem.seg, Before(seen.segs[mem.seg]))
           /\ Appending("rollbackSync") /\ UNCHANGED <<durable, mem>>
  <2>1. PICK s : Pending(s)
    BY <1>1 DEF PowerInv, Unsettled
  <2>2. PICK j, r : j = mem.seg /\ r = rec
    OBVIOUS
  <2>3. Varies(seen, durable, j, s, r) /\ Formed(seen) /\ j \in DOMAIN seen.segs
    BY <2>1, <2>2, PendingSays DEF Pending
  <2>4. Before(seen.segs[j]) = s
    <3>1. seen.segs[mem.seg] \in Tails(s, rec)
      BY <2>2, <2>3 DEF Varies
    <3>2. Before(seen.segs[mem.seg]) = s
      BY <2>1, <3>1, BeforeIs DEF Pending
    <3> QED BY <2>2, <3>2
  <2>5. seen' = SetSegment(seen, j, s)
    BY <1>3, <2>2, <2>4
  <2>6. /\ DOMAIN seen'.segs = DOMAIN seen.segs /\ seen'.segs[j] = s
        /\ \A i \in DOMAIN seen.segs : i # j => seen'.segs[i] = seen.segs[i]
    BY <2>3, <2>5, SetFacts
  <2>7. Varies(seen', durable', j, s, r)
    <3>1. durable' = durable
      BY <1>3
    <3> QED BY <2>3, <2>6, <3>1 DEF Varies, Tails
  <2>8. \A y : SetSegment(seen', j, y) = SetSegment(seen, j, y)
    BY <2>3, <2>5, SetTwice
  <2>9. Laid(kept, durable') /\ pc' = "rollbackSync" /\ UNCHANGED <<mem, rec, kept>>
    BY <1>3, DurableIsLaid DEF Appending, Goto
  <2> QED BY <2>1, <2>2, <2>7, <2>8, <2>9, StaysPending
<1> QED BY <1>2, <1>3 DEF RollBack

\* The shorter segment is flushed.
LEMMA SyncRollBackPower ==
  ASSUME LogInv, PowerInv, LogInv', SyncRollBack
  PROVE  PowerInv'
<1>1. pc = "rollbackSync" /\ Alive
  BY DEF SyncRollBack, Alive, Busy
<1>2. CASE AppendFails(TRUE) /\ UNCHANGED files
  BY <1>1, <1>2, HardStops
<1>3. CASE /\ durable' = SetSegment(Journalled, mem.seg, seen.segs[mem.seg])
           /\ AppendFails(FALSE) /\ NoError /\ UNCHANGED seen
  <2>1. PICK s : Pending(s)
    BY <1>1 DEF PowerInv, Unsettled
  <2>2. durable' = seen'
    BY <1>3, <2>1, PendingSays
  <2>3. pc' \notin Unsettled
    BY <1>3 DEF AppendFails, Goto, Unsettled
  <2> QED BY <2>2, <2>3, Flushes
<1> QED BY <1>2, <1>3 DEF SyncRollBack

\* Steps that change no file.
LEMMA SealPower ==
  ASSUME PowerInv, Opened \/ Record \/ \E size \in Sizes, now \in Times : CloseOnRecovery(size, now)
  PROVE  PowerInv'
<1>1. pc = "close" \/ (pc = "ready" /\ ~mem.failed)
  BY DEF Opened, Record, CloseOnRecovery, RecordDecision, RecordOutcome
<1>2. pc' \in {"ready", "rotate", "write"} /\ UNCHANGED files /\ kept' = kept
  BY DEF Opened, Record, CloseOnRecovery, RecordDecision, RecordOutcome, Seal, Goto
<1>3. Quiet /\ pc \notin Dropping /\ pc' \notin Unsettled
  BY <1>1, <1>2 DEF Quiet, Alive, Unsettled, Dropping
<1> QED BY <1>2, <1>3, Stays

\* The process is killed; half a line may be in the file.
LEMMA KillPower ==
  ASSUME LogInv, PowerInv, LogInv', Kill
  PROVE  PowerInv'
<1>1. pc' = "down" /\ kept' = kept /\ durable' = durable
  BY DEF Kill, Goto
<1>2. CASE seen' = seen
  <2>1. ~Quiet' /\ pc' \notin Unsettled
    BY <1>1 DEF Quiet, Recovering, Alive, Busy, Pruning, Written1, Unsettled
  <2> QED BY <1>1, <1>2, <2>1, Stays DEF files
<1>3. CASE pc = "write" /\ seen' = SetSegment(seen, mem.seg, WithHalfLine(seen.segs[mem.seg]))
  <2>1. WithHalfLine(seen.segs[mem.seg]) \in Tails(seen.segs[mem.seg], rec)
    BY DEF Tails
  <2> QED BY <1>1, <1>3, <2>1, LineLeft
<1> QED BY <1>2, <1>3 DEF Kill

\* Power is lost: what remains of the files holds the chain.
LEMMA PowerLossKeeps ==
  ASSUME LogInv, PowerInv, PowerLoss
  PROVE  LogInv'
<1>1. Remains(seen', seen, durable)
  <2>1. CASE seen' = durable
    BY <2>1 DEF Remains
  <2>2. CASE \E content \in [DOMAIN seen.segs -> UNION {Survives(i) : i \in DOMAIN seen.segs}] :
               /\ \A i \in DOMAIN seen.segs : content[i] \in Survives(i)
               /\ seen' = [seen EXCEPT !.segs = content]
    <3>1. \A i : Survives(i) = Parts(seen, durable, i)
      BY DEF Survives, Parts, Flushed
    <3> QED BY <2>2, <3>1 DEF Remains
  <2> QED BY <2>1, <2>2 DEF PowerLoss
<1>2. Laid(kept, seen')
  BY <1>1 DEF PowerInv
<1>3. PICK H, n, lo, hi, b :
        /\ History(H, n) /\ Layout(seen', H, n, lo, hi, b) /\ kept \subseteq H
        /\ \A r \in H : r.seq + 1 < n \/ r.seq < Start(seen').next => r \in kept
  BY <1>2 DEF Laid
<1>4. pc' = "down" /\ kept' = kept /\ Counted'
  BY DEF PowerLoss, Goto, LogInv, Counted
<1> QED BY <1>3, <1>4, Stops

\* What remains is all there is.
LEMMA PowerLossPower ==
  ASSUME LogInv', PowerLoss
  PROVE  PowerInv'
<1>1. durable' = seen' /\ pc' \notin Unsettled
  BY DEF PowerLoss, Goto, Unsettled
<1> QED BY <1>1, Flushes

-----------------------------------------------------------------------------
(* The invariant.                                                             *)

\* The empty directory.
LEMMA LogInit == ASSUME Init PROVE LogInv
<1> DEFINE H == {}
           b == [i \in 1..1 |-> 0]
<1>1. /\ seen = [head |-> None, checkpoint |-> None, segs |-> <<>>] /\ pc = "down" /\ home = "close"
      /\ sealed = 0 /\ kept = {} /\ powerLosses = 0
  BY DEF Init, Directory
<1>2. /\ seen.head = None /\ seen.checkpoint = None /\ seen.segs = <<>>
      /\ seen = [head |-> seen.head, checkpoint |-> seen.checkpoint, segs |-> seen.segs]
  BY <1>1
<1>3. History(H, 0)
  BY DEF History
<1>4. Cuts(0, 1, 0, b)
  BY DEF Cuts
<1>5. seen.segs = [i \in 1..0 |-> seen.segs[i]]
  <2>1. <<>> = [i \in 1..0 |-> <<>>[i]]
    OBVIOUS
  <2> QED BY <1>2, <2>1
<1>6. /\ Start(seen).next = 0 /\ Start(seen).prev = 0 /\ Start(seen).ts = 0 /\ Start(seen).open = {}
  BY <1>2 DEF Start
<1>7. OpenIn(H, 0) = {}
  BY DEF OpenIn
<1>8. Place(H, 0, Start(seen))
  BY <1>6, <1>7 DEF Place
<1>9. CheckpointAt(seen, H, 1, 0, b)
  <2>1. b[1] = 0
    OBVIOUS
  <2> HIDE DEF b
  <2> QED BY <1>2, <1>6, <1>8, <2>1 DEF CheckpointAt
<1>10. Layout(seen, H, 0, 1, 0, b)
  <2>1. \A i \in 1..0 : Holds(seen.segs[i], H, b[i], b[i + 1])
    OBVIOUS
  <2> HIDE DEF b, H
  <2> QED BY <1>2, <1>4, <1>5, <1>9, <2>1 DEF Layout
<1>11. Accounted(H, 0)
  BY <1>1 DEF Accounted
<1>12. Repairing(H, 0, 1, 0, b)
  BY <1>1 DEF Repairing, Recovering
<1>13. Working(H, 0, 1, 0, b)
  BY <1>1 DEF Working, Alive, Busy, Pruning, Written1
<1> HIDE DEF H, b
<1>14. Known(H, 0, 1, 0, b)
  BY <1>3, <1>10, <1>11, <1>12, <1>13 DEF Known
<1> QED BY <1>1, <1>14 DEF LogInv

\* The empty directory is flushed.
LEMMA PowerInit == ASSUME Init PROVE PowerInv
<1>1. Laid(kept, seen) /\ Formed(seen)
  BY LogInit, SeenIsLaid, LaidIsFormed
<1>2. seen = durable /\ pc = "down"
  BY DEF Init
<1>3. \A d : Remains(d, seen, durable) => Laid(kept, d)
  BY <1>1, <1>2, FlushedIsSettled, SettledRemains
<1> QED BY <1>2, <1>3 DEF PowerInv, Quiet, Recovering, Alive, Busy, Pruning, Written1, Unsettled

\* Every step but a power loss keeps the invariant.
LEMMA LogNext ==
  ASSUME LogInv, [Next]_vars, ~PowerLoss
  PROVE  LogInv'
<1>1. CASE Recover
  BY <1>1, OpenKeeps, QuarantineKeeps, CutTailKeeps, RemoveStaleKeeps, SyncStaleKeeps, RepairHeadKeeps,
     SyncRepairKeeps, OpenSegmentKeeps, SyncSegmentKeeps, OpenedKeeps, CloseOnRecoveryKeeps DEF Recover
<1>2. CASE Finish
  BY <1>2, RotateKeeps, SyncRotateKeeps, PruneKeeps, SyncPruneKeeps, PruneRemoveKeeps,
     SyncPruneRemoveKeeps, WriteLineKeeps, SyncLineKeeps, RollBackKeeps, SyncRollBackKeeps,
     RenameHeadKeeps, SyncHeadKeeps DEF Finish
<1>3. CASE Record
  BY <1>3, RecordKeeps DEF Record
<1>4. CASE Kill
  BY <1>4, KillKeeps
<1>5. CASE UNCHANGED vars
  BY <1>5, NothingChanges
<1> QED BY <1>1, <1>2, <1>3, <1>4, <1>5 DEF Next

\* Every step keeps what is known of the flushed files, if an open finds them flushed.
LEMMA PowerNext ==
  ASSUME LogInv, PowerInv, LogInv', [Next]_vars, Open => seen = durable
  PROVE  PowerInv'
<1>1. CASE Recover
  BY <1>1, OpenPower, FlushOnOpenPower, CutTailPower, RemoveStalePower, RepairHeadPower,
     OpenSegmentPower, SealPower DEF Recover
<1>2. CASE Finish
  BY <1>2, RotatePower, FlushOnAppendPower, PrunePower, PruneRemovePower, WriteLinePower,
     SyncLinePower, RollBackPower, SyncRollBackPower, RenameHeadPower DEF Finish
<1>3. CASE Record \/ Kill \/ PowerLoss
  BY <1>3, SealPower, KillPower, PowerLossPower
<1>4. CASE UNCHANGED vars
  <2>1. seen' = seen /\ durable' = durable /\ pc' = pc /\ mem' = mem /\ rec' = rec /\ kept' = kept
    BY <1>4 DEF vars, files
  <2> QED BY <2>1 DEF PowerInv, Quiet, Alive, Pending
<1> QED BY <1>1, <1>2, <1>3, <1>4 DEF Next

\* What the theorems suppose of a behaviour. Either the machine goes on, while processes
\* are killed anywhere and system calls fail; or power is lost anywhere as well, and a
\* process that opens the log finds its files flushed: the process before it had flushed
\* them, or power was lost since.
NoPowerLost   == powerLosses = 0
OpensFlushed  == [][Open => seen = durable]_vars
FlushedOrKept == []NoPowerLost \/ OpensFlushed

\* Whenever power may be lost, everything that may remain of the files holds one linked
\* chain with every record that was acknowledged or found by a recovery. (The order of
\* writes and flushes in store.rs: the line before HEAD, the checkpoint before the segment
\* it replaces is removed, the name of a segment before its first line.)
THEOREM PowerHolds == Spec /\ OpensFlushed => [](LogInv /\ PowerInv)
<1>1. Init => LogInv /\ PowerInv
  BY LogInit, PowerInit
<1>2. LogInv /\ PowerInv /\ [Next]_vars /\ [Open => seen = durable]_vars => LogInv' /\ PowerInv'
  <2> SUFFICES ASSUME LogInv, PowerInv, [Next]_vars, [Open => seen = durable]_vars
               PROVE  LogInv' /\ PowerInv'
    OBVIOUS
  <2>1. LogInv'
    BY LogNext, PowerLossKeeps
  <2>2. CASE Open => seen = durable
    BY <2>1, <2>2, PowerNext
  <2>3. CASE UNCHANGED vars
    <3>1. Open => FALSE
      BY <2>3, RecoveryGoesOn DEF Open, Goto, vars
    <3> QED BY <2>1, <3>1, PowerNext
  <2> QED BY <2>1, <2>2, <2>3
<1> QED BY <1>1, <1>2, PTL DEF Spec, OpensFlushed

\* The records ever kept or on disk are one linked chain that the segments cut, and memory,
\* HEAD and the line in hand fit its end, at every system call of a recovery and of an
\* append. (store.rs and seg.rs.)
THEOREM LogHolds == Spec /\ FlushedOrKept => []LogInv
<1>1. Init => LogInv
  BY LogInit
<1>2. LogInv /\ [Next]_vars /\ NoPowerLost' => LogInv'
  BY LogNext DEF PowerLoss, LogInv, NoPowerLost
<1>3. Spec /\ []NoPowerLost => []LogInv
  BY <1>1, <1>2, PTL DEF Spec
<1>4. Spec /\ OpensFlushed => []LogInv
  BY PowerHolds, PTL
<1> QED BY <1>3, <1>4, PTL DEF FlushedOrKept

-----------------------------------------------------------------------------
(* What it says.                                                              *)

\* What was kept and what is on disk, in terms of the history.
LEMMA WrittenIs ==
  ASSUME NEW H, NEW n, NEW lo, NEW hi, NEW b, Known(H, n, lo, hi, b)
  PROVE  /\ kept \subseteq H /\ Written = {r \in H : r.seq >= Start(seen).next}
         /\ kept \cup Written = H /\ OpenDecisions(seen) = OpenIn(H, n)
         /\ \A r \in H : r.seq \in Nat /\ r.seq < n
<1>1. /\ History(H, n) /\ Layout(seen, H, n, lo, hi, b) /\ kept \subseteq H
      /\ \A r \in H : r.seq + 1 < n \/ r.seq < Start(seen).next => r \in kept
  BY KnownSays
<1>2. Written = {r \in H : r.seq >= Start(seen).next} /\ OpenDecisions(seen) = OpenIn(H, n)
  BY <1>1, RetainedIs, OpenDecisionsAre DEF Written
<1>3. Start(seen).next \in Nat /\ \A r \in H : r.seq \in Nat /\ r.seq < n
  BY <1>1, FloorFacts, RecordFields DEF History
<1> QED BY <1>1, <1>2, <1>3

\* The invariant implies AcknowledgedStands.
LEMMA Stands == ASSUME LogInv PROVE AcknowledgedStands
<1>1. PICK H, n, lo, hi, b : Known(H, n, lo, hi, b)
  BY DEF LogInv
<1>2. /\ kept \subseteq H /\ Written = {r \in H : r.seq >= Start(seen).next} /\ kept \cup Written = H
      /\ \A r \in H : r.seq \in Nat
  BY <1>1, WrittenIs
<1>3. History(H, n) /\ Start(seen).next \in Nat
  BY <1>1, KnownSays, FloorFacts
<1>4. AcknowledgedSurvives
  BY <1>2, <1>3 DEF AcknowledgedSurvives
<1>5. ChainIsNeverRewritten
  BY <1>2, <1>3 DEF ChainIsNeverRewritten, History
<1> QED BY <1>4, <1>5 DEF AcknowledgedStands

\* The invariant implies DecisionsAreAccounted.
LEMMA AreAccounted == ASSUME LogInv PROVE DecisionsAreAccounted
<1>1. PICK H, n, lo, hi, b : Known(H, n, lo, hi, b)
  BY DEF LogInv
<1>2. /\ kept \subseteq H /\ kept \cup Written = H /\ OpenDecisions(seen) = OpenIn(H, n)
      /\ \A r \in H : r.seq < n
  BY <1>1, WrittenIs
<1>3. History(H, n)
  BY <1>1, KnownSays
<1>4. ClosedOnce
  BY <1>2, <1>3 DEF ClosedOnce, History
<1>5. NoDecisionForgotten
  <2> SUFFICES ASSUME NEW r \in kept, r.kind = "allow", r.seq \notin OpenDecisions(seen)
               PROVE  \E o \in kept \cup Written : o.kind = "outcome" /\ o.ref = r.seq
    BY DEF NoDecisionForgotten
  <2>1. r.seq \notin OpenIn(H, n) /\ r \in H /\ r.seq < n
    BY <1>2
  <2>2. PICK o \in H : o.kind = "outcome" /\ o.ref = r.seq
    BY <2>1 DEF OpenIn
  <2> QED BY <1>2, <2>2
<1> QED BY <1>4, <1>5 DEF DecisionsAreAccounted

\* The invariant implies WriterAgreesWithDisk.
LEMMA Agrees == ASSUME LogInv PROVE WriterAgreesWithDisk
<1> SUFFICES ASSUME pc = "ready", ~mem.failed
             PROVE  /\ WalkOk(seen, "Strict") /\ ~HeadLags(seen) /\ OpenDecisions(seen) = mem.open
                    /\ mem.next = IF Tip(seen) = None THEN Start(seen).next ELSE Tip(seen).seq + 1
                    /\ mem.len = seen.segs[mem.seg].len
  BY DEF WriterAgreesWithDisk
<1>1. PICK H, n, lo, hi, b : Known(H, n, lo, hi, b)
  BY DEF LogInv
<1>2. History(H, n) /\ Layout(seen, H, n, lo, hi, b)
  BY <1>1, KnownSays
<1>3. /\ MemFits(n, lo, hi, b) /\ LineIn(H, n) /\ mem.next = n /\ NoneTorn(seen)
      /\ HeadAt(kept, mem.next, seen.head) /\ Start(seen).next = b[lo]
  <2>1. Alive /\ pc \notin Written1 \cup {"rollback", "headSync", "pruneSync", "pruneRemove"}
    BY DEF Alive, Written1
  <2> QED BY <1>1, <2>1, WorkSays
<1>4. kept = H /\ mem.len = seen.segs[mem.seg].len
  BY <1>3 DEF LineIn
<1>5. WalkOk(seen, "Strict") /\ ~HeadLags(seen)
  BY <1>2, <1>3, <1>4, StrictWalk
<1>6. OpenDecisions(seen) = mem.open
  BY <1>1, <1>3, <1>4, WrittenIs DEF MemFits, Place
<1>7. mem.next = IF Tip(seen) = None THEN Start(seen).next ELSE Tip(seen).seq + 1
  BY <1>2, <1>3, TipIs DEF Names
<1> QED BY <1>4, <1>5, <1>6, <1>7

\* What a caller was told of a record stays true: it stays in the chain until it is
\* pruned behind the checkpoint, and no other record ever has its number. (append in
\* store.rs, its rollback, rotation and retention, and the recovery of open.)
THEOREM AcknowledgedStandsHolds == Spec /\ FlushedOrKept => []AcknowledgedStands
<1>1. LogInv => AcknowledgedStands
  BY Stands
<1> QED BY <1>1, LogHolds, PTL

\* Every allowing decision is open, in the chain or in the checkpoint, or closed by
\* exactly one outcome. (record_outcome and prune_oldest in store.rs.)
THEOREM DecisionsAreAccountedHolds == Spec /\ FlushedOrKept => []DecisionsAreAccounted
<1>1. LogInv => DecisionsAreAccounted
  BY AreAccounted
<1> QED BY <1>1, LogHolds, PTL

\* Between two calls of a log that has not failed, verify accepts the directory and
\* finds what the writer has in memory. (Inner in store.rs and the walk of seg.rs.)
THEOREM WriterAgreesWithDiskHolds == Spec /\ FlushedOrKept => []WriterAgreesWithDisk
<1>1. LogInv => WriterAgreesWithDisk
  BY Agrees
<1> QED BY <1>1, LogHolds, PTL

\* Only open's return leads from an opening to a log that is ready.
LEMMA ReadyByOpened ==
  ASSUME Next, pc # "ready", pc' = "ready", home = "close"
  PROVE  Opened
<1>1. ~AppendFails(TRUE) /\ ~AppendFails(FALSE)
  BY DEF AppendFails, Goto
<1>2. \A step \in Steps : Opening(step) => step = "ready"
  BY DEF Opening, Goto
<1>3. \A step \in Steps : Appending(step) => step = "ready"
  BY DEF Appending, Goto
<1>4. CASE Recover
  <2>1. ~Open
    BY RecoveryGoesOn DEF Open, Goto
  <2>2. ~OpenFails
    BY DEF OpenFails, Goto
  <2>3. ~Quarantine /\ ~RemoveStale /\ ~RepairHead /\ ~SyncRepair /\ ~OpenSegment /\ ~SyncSegment
    BY <2>2 DEF Opening, Goto, Quarantine, RemoveStale, RepairHead, SyncRepair, OpenSegment, SyncSegment
  <2>4. ~CutTail
    BY <2>2, RecoveryGoesOn DEF Opening, Goto, CutTail
  <2>5. ~SyncStale
    BY <2>2, RecoveryGoesOn DEF Opening, Goto, SyncStale
  <2>6. \A size \in Sizes, now \in Times : ~CloseOnRecovery(size, now)
    BY DEF CloseOnRecovery, Seal, Goto
  <2> QED BY <1>4, <2>1, <2>3, <2>4, <2>5, <2>6 DEF Recover
<1>5. CASE Finish
  <2>1. ~Rotate /\ ~SyncRotate /\ ~Prune /\ ~SyncPrune /\ ~PruneRemove /\ ~SyncPruneRemove
    BY <1>1 DEF Appending, Goto, Rotate, SyncRotate, Prune, SyncPrune, PruneRemove, SyncPruneRemove
  <2>2. ~WriteLine /\ ~SyncLine /\ ~RollBack /\ ~SyncRollBack /\ ~RenameHead
    BY <1>1 DEF Appending, Goto, WriteLine, SyncLine, RollBack, SyncRollBack, RenameHead
  <2>3. ~SyncHead
    BY <1>1 DEF SyncHead, Goto
  <2> QED BY <1>5, <2>1, <2>2, <2>3 DEF Finish
<1>6. CASE Record
  BY <1>6 DEF Record, RecordDecision, RecordOutcome
<1>7. CASE Kill \/ PowerLoss
  BY <1>7 DEF Kill, PowerLoss, Goto
<1> QED BY <1>4, <1>5, <1>6, <1>7 DEF Next

\* When open returns, all decisions are closed.
LEMMA OpenedClosed ==
  ASSUME LogInv, Opened
  PROVE  \A r \in kept : r.kind = "allow" => \E o \in kept : o.kind = "outcome" /\ o.ref = r.seq
<1>1. PICK H, n, lo, hi, b : Known(H, n, lo, hi, b)
  BY DEF LogInv
<1>2. pc = "close" /\ mem.open = {}
  BY DEF Opened
<1>3. MemFits(n, lo, hi, b) /\ LineIn(H, n) /\ mem.next = n
  <2>1. Alive /\ pc \notin Written1 \cup {"rollback"}
    BY <1>2 DEF Alive, Written1
  <2> QED BY <1>1, <2>1, WorkSays
<1>4. kept = H /\ OpenIn(H, n) = {}
  BY <1>2, <1>3 DEF LineIn, MemFits, Place
<1>5. \A r \in H : r.seq < n
  BY <1>1, WrittenIs
<1> QED BY <1>4, <1>5 DEF OpenIn

\* When open returns, every allowing decision of an earlier process has its outcome on
\* record. (open_with_clock in store.rs closes what the walk found open.)
THEOREM OpenClosesEarlierDecisionsHolds == Spec /\ FlushedOrKept => OpenClosesEarlierDecisions
<1>1. LogInv /\ [Next]_vars =>
        [pc # "ready" /\ pc' = "ready" /\ home = "close" =>
           \A r \in kept : r.kind = "allow" =>
             \E o \in kept : o.kind = "outcome" /\ o.ref = r.seq]_vars
  BY ReadyByOpened, OpenedClosed
<1> QED BY <1>1, LogHolds, PTL DEF Spec, OpenClosesEarlierDecisions
=============================================================================
