------------------------- MODULE AgentSession_proofs -------------------------
(***************************************************************************)
(* Proofs about AgentSession, for any tools, any goals of a workflow, any     *)
(* limits of the loop and any number of decisions on the member's cards.      *)
(***************************************************************************)
EXTENDS AgentSession, SequenceTheorems, FiniteSetTheorems, TLAPS

-----------------------------------------------------------------------------
(* The inductive invariant                                                     *)

Places == {"idle", "attempt", "judge", "step", "model", "call", "announce", "parked", "leave",
           "host", "asked", "released", "ran", "refused"}
AtRest == {"idle", "attempt", "judge", "step", "model"}
InHand == {"announce", "parked", "leave", "host", "asked", "released", "ran", "refused"}

ModelCall == [n : Nat, tool : Names, id : Nat]
Message   == [role : {"user", "assistant"}, calls : SUBSET Nat]
               \cup [role : {"tool"}, calls : SUBSET Nat, did : SUBSET Names]
Request   == [pc : {"new", "decide", "done"}, card : Nat, allow : BOOLEAN,
              rec : {None, "Approved", "Completed", "Denied", "Failed"}]

Types ==
  /\ hicAware \in BOOLEAN /\ stopped \in BOOLEAN /\ exposed \in BOOLEAN
  /\ pc \in Places /\ step \in Nat /\ tasks \in Nat /\ issued \in 0..MaxCalls
  /\ todo \in Seq(ModelCall)
  /\ cur \in [n : Nat, id : Nat, tool : Names \cup {None}, hic : BOOLEAN]
  /\ outcome \in Outcomes \cup {None}
  /\ history \in Seq(Message)
  /\ goal \in Target \cup {None}
  /\ sources \subseteq Names \cup {"unattended"}

\* The calls of a reply are numbered in their order, and run in it.
InOrder ==
  /\ \A i \in 1..Len(todo) : todo[i].n \in cur.n + 1..issued /\ (OwnIds => todo[i].id = todo[i].n)
  /\ \A i, j \in 1..Len(todo) : i < j => todo[i].n < todo[j].n

\* Where the turn thread has calls left, a call in hand and an outcome.
Placed ==
  /\ pc \in AtRest => todo = <<>> /\ cur = NoCall
  /\ pc = "call" => cur = NoCall
  /\ pc \in InHand => cur.n \in 1..issued /\ cur.tool \in Names /\ (OwnIds => cur.id = cur.n)
  /\ pc \in {"ran", "refused", "leave"} => outcome # None
  /\ pc = "idle" => goal = None
  /\ pc \in {"attempt", "judge"} => goal \in Target
  /\ goal \in Target /\ pc # "attempt" => goal.attempt <= MaxAttempts

LoopInv == Types /\ InOrder /\ Placed

\* Content from outside is in the taint, and a call with an effect that was taken
\* while it was there is marked.
TaintInv ==
  /\ exposed => sources # {}
  /\ pc \in {"announce", "host", "asked", "released"} /\ exposed /\ cur.tool \in Effectful => cur.hic

\* What waits for core is the call in hand, and nothing else when ids are its own.
Handed == [n |-> cur.n, id |-> cur.id]

CoreInv ==
  /\ pending \subseteq {Handed} /\ mail \in Posts \cup {None}
  /\ heard \subseteq [n : 1..MaxCalls, id : Nat]
  /\ pc \notin {"announce", "parked", "leave"} => pending = {} /\ mail = None
  /\ OwnIds =>
       /\ heard \subseteq {Handed}
       /\ pc \notin {"parked", "leave"} => heard = {} /\ mail = None
       /\ mail # None => mail.n = cur.n
       /\ pc \in {"announce", "parked"} /\ mail = None => Handed \in pending

\* A call for which a card may still be shown.
MayAsk(n) ==
  \/ n > issued
  \/ \E i \in 1..Len(todo) : todo[i].n = n
  \/ pc = "host" /\ n = cur.n

RequestInv(r) ==
  /\ r.pc = "new" => r.rec = None
  /\ r.pc = "decide" => r.rec = IF r.allow THEN "Approved" ELSE None
  /\ r.pc = "done" => r.rec # "Approved"
  /\ r.pc # "new" => ~MayAsk(r.card)
  /\ r.rec = "Completed" =>
       r.card \in obeyed \/ (card # None /\ card = [n |-> r.card, answer |-> "allow"])
  /\ r.rec = "Denied" => r.card \notin obeyed /\ (card # None /\ card.n = r.card => card.answer = "deny")

\* A request to allow the call n has won.
AllowWon(n) == \E d \in Deciders : decider[d].card = n /\ decider[d].rec = "Completed"

CardInv ==
  /\ card \in Cards \cup {None} /\ obeyed \subseteq Nat
  /\ decider \in [Deciders -> Request]
  /\ pc = "asked" <=> card # None
  /\ card # None => card.n = cur.n /\ card.n \notin obeyed
  /\ pc = "released" => cur.n \in obeyed
  /\ \A n \in obeyed : AllowWon(n) /\ ~MayAsk(n)
  /\ card # None /\ card.answer = "allow" => AllowWon(card.n)
  /\ \A d \in Deciders : RequestInv(decider[d])

\* The transcript of an attempt begins with its instruction.
GoalInv ==
  pc \notin {"idle", "attempt"} /\ goal # None =>
    /\ goal.start + 1 \in 1..Len(history) /\ history[goal.start + 1].role = "user"
    /\ \A j \in goal.start + 2..Len(history) : history[j].role # "user"

\* A transcript in which the calls in w, of those numbered up to top, wait for
\* their results. It is cut when calls were left without, by a stop.
Answers(h, n) == {j \in 1..Len(h) : h[j].role = "tool" /\ h[j].calls = {n}}

AskedAt(h, n, i) == i \in 1..Len(h) /\ h[i].role = "assistant" /\ n \in h[i].calls

OnlyResults(h, from, to) == \A j \in from..to : h[j].role = "tool"

Sound(h, w, top, cut) ==
  /\ \A i \in 1..Len(h) : h[i].calls \subseteq 1..top
  /\ \A i \in 1..Len(h) : \A n \in Nat :
       AskedAt(h, n, i) =>
         \/ \E j \in i+1..Len(h) : Answers(h, n) = {j}
         \/ Answers(h, n) = {} /\ (n \in w \/ cut)
  /\ \A j \in 1..Len(h) : h[j].role = "tool" =>
       \E n \in Nat, i \in 1..j-1 : h[j].calls = {n} /\ AskedAt(h, n, i) /\ OnlyResults(h, i+1, j)
  /\ \A n \in w : Answers(h, n) = {} /\ \E i \in 1..Len(h) : AskedAt(h, n, i) /\ OnlyResults(h, i+1, Len(h))

Waiting == {todo[i].n : i \in 1..Len(todo)} \cup ({cur.n} \ {0})

HasUser(h) == \E i \in 1..Len(h) : h[i].role = "user" /\ \A j \in i+1..Len(h) : h[j].role # "user"

HistoryInv ==
  /\ Sound(history, Waiting, issued, stopped /\ pc # "model")
  /\ pc \notin {"idle", "attempt"} => HasUser(history)

SessionInv == LoopInv /\ TaintInv /\ CoreInv /\ CardInv /\ GoalInv /\ HistoryInv

-----------------------------------------------------------------------------
(* Transcripts                                                                  *)

\* m is put behind h.
Extended(h, m, g) ==
  /\ Len(h) \in Nat /\ Len(g) = Len(h) + 1 /\ g[Len(h) + 1] = m
  /\ \A i \in 1..Len(h) : g[i] = h[i]

LEMMA AppendExtends ==
  ASSUME NEW h \in Seq(Message), NEW m \in Message
  PROVE  Append(h, m) \in Seq(Message) /\ Extended(h, m, Append(h, m))
BY AppendProperties, LenProperties DEF Extended

LEMMA MoreMayWait ==
  ASSUME NEW h, NEW w, NEW top, NEW cut, Sound(h, w, top, cut), NEW more, cut => more
  PROVE  Sound(h, w, top, more)
BY DEF Sound

LEMMA Cut ==
  ASSUME NEW h, NEW w, NEW top, NEW cut, Sound(h, w, top, cut)
  PROVE  Sound(h, {}, top, TRUE)
BY DEF Sound

\* A message that is no result.
LEMMA MessageKeepsAnswers ==
  ASSUME NEW h, NEW m, NEW g, Extended(h, m, g), m.role # "tool", NEW n
  PROVE  Answers(g, n) = Answers(h, n)
BY DEF Extended, Answers

LEMMA ExtendedAsks ==
  ASSUME NEW h, NEW m, NEW g, Extended(h, m, g), NEW n, NEW i \in 1..Len(h)
  PROVE  AskedAt(g, n, i) <=> AskedAt(h, n, i)
BY DEF Extended, AskedAt

LEMMA ExtendedResults ==
  ASSUME NEW h, NEW m, NEW g, Extended(h, m, g), NEW i \in 1..Len(h), NEW j \in 1..Len(h)
  PROVE  OnlyResults(g, i+1, j) <=> OnlyResults(h, i+1, j)
BY DEF Extended, OnlyResults

\* The user speaks, or the model does with the calls ns.
LEMMA MessageIsSound ==
  ASSUME NEW h, NEW m, NEW g, Extended(h, m, g),
         NEW top \in Nat, NEW cut, Sound(h, {}, top, cut),
         NEW above \in Nat, top <= above,
         m.role \in {"user", "assistant"},
         m.calls \subseteq top+1..above, m.role = "user" => m.calls = {}
  PROVE  Sound(g, m.calls, above, cut)
<1> DEFINE e == Len(h) + 1
<1>1. /\ Len(h) \in Nat /\ Len(g) = e /\ g[e] = m /\ \A i \in 1..Len(h) : g[i] = h[i]
      /\ 1..Len(g) = 1..Len(h) \cup {e} /\ e \notin 1..Len(h) /\ e \in 1..Len(g)
  BY DEF Extended
<1>2. \A n : Answers(g, n) = Answers(h, n)
  BY MessageKeepsAnswers
<1>3. /\ \A i \in 1..Len(h) : h[i].calls \subseteq 1..top
      /\ \A i \in 1..Len(h) : \A n \in Nat : AskedAt(h, n, i) =>
           (\E j \in i+1..Len(h) : Answers(h, n) = {j}) \/ (Answers(h, n) = {} /\ cut)
      /\ \A j \in 1..Len(h) : h[j].role = "tool" =>
           \E n \in Nat, i \in 1..j-1 : h[j].calls = {n} /\ AskedAt(h, n, i) /\ OnlyResults(h, i+1, j)
  BY DEF Sound
<1> HIDE DEF e
<1>4. \A i \in 1..Len(g) : g[i].calls \subseteq 1..above
  <2>1. \A i \in 1..Len(h) : g[i].calls \subseteq 1..above
    BY <1>1, <1>3
  <2>2. g[e].calls \subseteq 1..above
    BY <1>1
  <2>3. QED
    BY <1>1, <2>1, <2>2
<1>5. ASSUME NEW n \in m.calls
      PROVE  n \in Nat /\ Answers(g, n) = {} /\ AskedAt(g, n, e) /\ OnlyResults(g, e+1, Len(g))
  <2>1. n \in top+1..above /\ n \in Nat /\ n \notin 1..top
    OBVIOUS
  <2>2. Answers(h, n) = {}
    BY <1>3, <2>1 DEF Answers
  <2>3. AskedAt(g, n, e)
    BY <1>1 DEF AskedAt
  <2>4. OnlyResults(g, e+1, Len(g))
    BY <1>1 DEF OnlyResults, e
  <2>5. QED
    BY <1>2, <2>1, <2>2, <2>3, <2>4
<1>6. ASSUME NEW i \in 1..Len(g), NEW n \in Nat, AskedAt(g, n, i)
      PROVE  \/ \E j \in i+1..Len(g) : Answers(g, n) = {j}
             \/ Answers(g, n) = {} /\ (n \in m.calls \/ cut)
  <2>1. CASE i = e
    <3>1. n \in m.calls
      BY <1>1, <1>6, <2>1 DEF AskedAt
    <3>2. QED
      BY <1>5, <3>1
  <2>2. CASE i \in 1..Len(h)
    <3>1. AskedAt(h, n, i)
      BY <1>6, <2>2, ExtendedAsks
    <3>2. \A j \in i+1..Len(h) : j \in i+1..Len(g)
      BY <1>1, <2>2 DEF e
    <3>3. QED
      BY <1>2, <1>3, <2>2, <3>1, <3>2
  <2>3. QED
    BY <1>1, <2>1, <2>2
<1>7. ASSUME NEW j \in 1..Len(g), g[j].role = "tool"
      PROVE  \E n \in Nat, i \in 1..j-1 : g[j].calls = {n} /\ AskedAt(g, n, i) /\ OnlyResults(g, i+1, j)
  <2>1. j \in 1..Len(h) /\ g[j] = h[j]
    BY <1>1, <1>7
  <2>2. PICK n \in Nat, i \in 1..j-1 : h[j].calls = {n} /\ AskedAt(h, n, i) /\ OnlyResults(h, i+1, j)
    BY <1>3, <1>7, <2>1
  <2>3. i \in 1..Len(h)
    BY <1>1, <2>1
  <2>4. QED
    BY <2>1, <2>2, <2>3, ExtendedAsks, ExtendedResults
<1>8. QED
  BY <1>4, <1>5, <1>6, <1>7, <1>1 DEF Sound

\* The result of a call that waits for it.
LEMMA ResultIsSound ==
  ASSUME NEW h, NEW m, NEW g, Extended(h, m, g),
         NEW w, NEW top \in Nat, NEW cut, Sound(h, w, top, cut),
         m.role = "tool", NEW p \in w, p \in Nat, m.calls = {p}
  PROVE  Sound(g, w \ {p}, top, cut)
<1> DEFINE e == Len(h) + 1
<1>1. /\ Len(h) \in Nat /\ Len(g) = e /\ g[e] = m /\ \A i \in 1..Len(h) : g[i] = h[i]
      /\ 1..Len(g) = 1..Len(h) \cup {e} /\ e \notin 1..Len(h) /\ e \in 1..Len(g)
  BY DEF Extended
<1>2. /\ \A i \in 1..Len(h) : h[i].calls \subseteq 1..top
      /\ \A i \in 1..Len(h) : \A n \in Nat : AskedAt(h, n, i) =>
           \/ \E j \in i+1..Len(h) : Answers(h, n) = {j}
           \/ Answers(h, n) = {} /\ (n \in w \/ cut)
      /\ \A j \in 1..Len(h) : h[j].role = "tool" =>
           \E n \in Nat, i \in 1..j-1 : h[j].calls = {n} /\ AskedAt(h, n, i) /\ OnlyResults(h, i+1, j)
      /\ \A n \in w : Answers(h, n) = {} /\ \E i \in 1..Len(h) : AskedAt(h, n, i) /\ OnlyResults(h, i+1, Len(h))
  BY DEF Sound
<1>3. PICK a \in 1..Len(h) : AskedAt(h, p, a) /\ OnlyResults(h, a+1, Len(h))
  BY <1>2
<1>4. Answers(g, p) = {e}
  <2>1. Answers(h, p) = {}
    BY <1>2
  <2>2. \A j \in 1..Len(h) : ~(g[j].role = "tool" /\ g[j].calls = {p})
    BY <1>1, <2>1 DEF Answers
  <2>3. QED
    BY <1>1, <2>2 DEF Answers
<1>5. \A n : n # p => Answers(g, n) = Answers(h, n)
  BY <1>1 DEF Answers
<1>6. \A i \in 1..Len(g) : g[i].calls \subseteq 1..top
  <2>1. p \in 1..top
    BY <1>2, <1>3 DEF AskedAt
  <2>2. QED
    BY <1>1, <1>2, <2>1
<1>7. \A n : AskedAt(g, n, e) => FALSE
  BY <1>1 DEF AskedAt
<1> HIDE DEF e
<1>8. ASSUME NEW i \in 1..Len(g), NEW n \in Nat, AskedAt(g, n, i)
      PROVE  \/ \E j \in i+1..Len(g) : Answers(g, n) = {j}
             \/ Answers(g, n) = {} /\ (n \in w \ {p} \/ cut)
  <2>1. i \in 1..Len(h) /\ AskedAt(h, n, i)
    BY <1>1, <1>7, <1>8, ExtendedAsks
  <2>2. CASE n = p
    <3>1. e \in i+1..Len(g)
      BY <1>1, <2>1 DEF e
    <3>2. QED
      BY <1>4, <2>2, <3>1
  <2>3. CASE n # p
    <3>1. \A j \in i+1..Len(h) : j \in i+1..Len(g)
      BY <1>1, <2>1 DEF e
    <3>2. QED
      BY <1>2, <1>5, <2>1, <2>3, <3>1
  <2>4. QED
    BY <2>2, <2>3
<1>9. ASSUME NEW i \in 1..Len(h), OnlyResults(h, i+1, Len(h))
      PROVE  OnlyResults(g, i+1, Len(g))
  BY <1>1, <1>9 DEF OnlyResults, e
<1>10. ASSUME NEW j \in 1..Len(g), g[j].role = "tool"
       PROVE  \E n \in Nat, i \in 1..j-1 : g[j].calls = {n} /\ AskedAt(g, n, i) /\ OnlyResults(g, i+1, j)
  <2>1. CASE j = e
    <3>1. a \in 1..j-1 /\ AskedAt(g, p, a) /\ OnlyResults(g, a+1, j)
      BY <1>1, <1>3, <1>9, <2>1, ExtendedAsks DEF e
    <3>2. QED
      BY <1>1, <2>1, <3>1
  <2>2. CASE j \in 1..Len(h)
    <3>1. PICK n \in Nat, i \in 1..j-1 : h[j].calls = {n} /\ AskedAt(h, n, i) /\ OnlyResults(h, i+1, j)
      BY <1>1, <1>2, <1>10, <2>2
    <3>2. i \in 1..Len(h)
      BY <1>1, <2>2
    <3>3. QED
      BY <1>1, <2>2, <3>1, <3>2, ExtendedAsks, ExtendedResults
  <2>3. QED
    BY <1>1, <2>1, <2>2
<1>11. ASSUME NEW n \in w \ {p}
       PROVE  /\ Answers(g, n) = {}
              /\ \E i \in 1..Len(g) : AskedAt(g, n, i) /\ OnlyResults(g, i+1, Len(g))
  <2>1. PICK i \in 1..Len(h) : AskedAt(h, n, i) /\ OnlyResults(h, i+1, Len(h))
    BY <1>2
  <2>2. AskedAt(g, n, i) /\ OnlyResults(g, i+1, Len(g)) /\ i \in 1..Len(g)
    BY <1>1, <1>9, <2>1, ExtendedAsks
  <2>3. QED
    BY <1>2, <1>5, <2>2
<1>12. QED
  BY <1>6, <1>8, <1>10, <1>11 DEF Sound

LEMMA UserComesLast ==
  ASSUME NEW h, NEW m, NEW g, Extended(h, m, g), m.role = "user" \/ HasUser(h)
  PROVE  HasUser(g)
<1>1. CASE m.role = "user"
  BY <1>1 DEF Extended, HasUser
<1>2. CASE m.role # "user" /\ HasUser(h)
  <2>1. PICK i \in 1..Len(h) : h[i].role = "user" /\ \A j \in i+1..Len(h) : h[j].role # "user"
    BY <1>2 DEF HasUser
  <2>2. /\ i \in 1..Len(g) /\ g[i].role = "user"
        /\ \A j \in i+1..Len(g) : g[j].role # "user"
    BY <1>2, <2>1 DEF Extended
  <2>3. QED
    BY <2>2 DEF HasUser
<1>3. QED
  BY <1>1, <1>2

-----------------------------------------------------------------------------
(* What is sent of a sound transcript is whole                                 *)

\* The last message of the user, which compact_to_budget never drops.
LEMMA LastUserIsThere ==
  ASSUME NEW h, HasUser(h), Len(h) \in Nat, DOMAIN h = 1..Len(h)
  PROVE  LastUser(h) \in 1..Len(h)
<1>1. \E i \in DOMAIN h : h[i].role = "user" /\ \A j \in i+1..Len(h) : h[j].role # "user"
  BY DEF HasUser
<1>2. QED
  BY <1>1 DEF LastUser

\* The results of a reply are not separated from it: what begins with another
\* message holds a reply for each of its results.
LEMMA TailIsWhole ==
  ASSUME NEW h \in Seq(Message), NEW top, Sound(h, {}, top, FALSE),
         NEW k \in 1..Len(h), k = 1 \/ h[k].role # "tool"
  PROVE  Whole(SubSeq(h, k, Len(h)))
<1> DEFINE r == SubSeq(h, k, Len(h))
           d == k - 1
<1>1. Len(h) \in Nat /\ d \in Nat /\ k = d + 1
  BY LenProperties
<1>2. /\ r \in Seq(Message) /\ Len(r) = Len(h) - d
      /\ \A i \in 1..Len(h)-d : r[i] = h[d + i]
      /\ DOMAIN r = 1..Len(r)
  BY <1>1, SubSeqProperties, LenProperties
<1>3. /\ \A i \in 1..Len(h) : \A n \in Nat : AskedAt(h, n, i) =>
           \E j \in i+1..Len(h) : Answers(h, n) = {j}
      /\ \A j \in 1..Len(h) : h[j].role = "tool" =>
           \E n \in Nat, i \in 1..j-1 : h[j].calls = {n} /\ AskedAt(h, n, i) /\ OnlyResults(h, i+1, j)
  BY DEF Sound
<1>4. \A i \in 1..Len(h) : h[i] \in Message /\ h[i].calls \subseteq Nat
  BY <1>1, ElementOfSeq DEF Message
<1> HIDE DEF r, d
<1>5. ASSUME NEW i \in 1..Len(r), r[i].role = "assistant", NEW n \in r[i].calls
      PROVE  Cardinality({j \in i+1..Len(r) : r[j].role = "tool" /\ r[j].calls = {n}}) = 1
  <2>1. d + i \in 1..Len(h) /\ r[i] = h[d+i]
    BY <1>1, <1>2
  <2>2. n \in Nat /\ AskedAt(h, n, d+i)
    BY <1>4, <1>5, <2>1 DEF AskedAt
  <2>3. PICK j \in d+i+1..Len(h) : Answers(h, n) = {j}
    BY <1>3, <2>1, <2>2
  <2>4. j \in 1..Len(h) /\ h[j].role = "tool" /\ h[j].calls = {n}
    BY <2>3 DEF Answers
  <2>5. j - d \in i+1..Len(r) /\ r[j-d] = h[j]
    BY <1>1, <1>2, <2>1, <2>3
  <2>6. ASSUME NEW l \in i+1..Len(r), r[l].role = "tool", r[l].calls = {n}
        PROVE  l = j - d
    <3>1. l \in 1..Len(h)-d /\ d + l \in 1..Len(h)
      BY <1>1, <1>2, <2>1
    <3>2. r[l] = h[d+l]
      BY <1>2, <3>1
    <3>3. d + l \in Answers(h, n)
      BY <2>6, <3>1, <3>2 DEF Answers
    <3>4. d + l = j
      BY <2>3, <3>3
    <3>5. QED
      BY <1>1, <3>1, <3>4
  <2>7. {l \in i+1..Len(r) : r[l].role = "tool" /\ r[l].calls = {n}} = {j - d}
    BY <2>4, <2>5, <2>6
  <2>8. QED
    BY <2>7, FS_Singleton
<1>6. ASSUME NEW j \in 1..Len(r), r[j].role = "tool"
      PROVE  \E i \in 1..j-1 : r[i].role = "assistant" /\ r[j].calls \subseteq r[i].calls
  <2>1. PICK q \in 1..Len(h) : q = d + j
    BY <1>1, <1>2
  <2>2. r[j] = h[q] /\ k <= q
    BY <1>1, <1>2, <2>1
  <2>3. PICK n \in Nat, i \in 1..q-1 :
          h[q].calls = {n} /\ AskedAt(h, n, i) /\ OnlyResults(h, i+1, q)
    BY <1>3, <1>6, <2>2
  <2>4. k <= i
    <3>1. CASE k = 1
      BY <3>1
    <3>2. CASE h[k].role # "tool"
      <4>1. k \notin i+1..q
        BY <2>3, <3>2 DEF OnlyResults
      <4>2. QED
        BY <1>1, <2>2, <4>1
    <3>3. QED
      BY <3>1, <3>2
  <2>5. i - d \in 1..j-1 /\ i - d \in 1..Len(h)-d /\ d + (i - d) = i
    BY <1>1, <2>1, <2>4
  <2>6. r[i-d] = h[i]
    BY <1>2, <2>5
  <2>7. QED
    BY <2>2, <2>3, <2>5, <2>6 DEF AskedAt
<1>7. Whole(r)
  BY <1>2, <1>5, <1>6 DEF Whole
<1>8. QED
  BY <1>7 DEF r

LEMMA SoundIsWhole ==
  ASSUME NEW h \in Seq(Message), NEW top, Sound(h, {}, top, FALSE), HasUser(h),
         NEW r \in Requests(h)
  PROVE  Whole(r)
<1>1. Len(h) \in Nat /\ DOMAIN h = 1..Len(h)
  BY LenProperties
<1>2. LastUser(h) \in 1..Len(h)
  BY <1>1, LastUserIsThere
<1>3. PICK k \in 1..LastUser(h) : (k = 1 \/ h[k].role # "tool") /\ r = SubSeq(h, k, Len(h))
  BY DEF Requests
<1>4. k \in 1..Len(h)
  BY <1>1, <1>2
<1>5. QED
  BY <1>3, <1>4, TailIsWhole

-----------------------------------------------------------------------------
(* The loop keeps its order                                                    *)

USE DEF loopVars, taskVars, flagVars, taintVars, coreVars, cardVars

LEMMA NoneIsNoOutcome == None \notin Outcomes /\ None \notin {"ok", "untrusted", "vouched", "denied", "error", "refusal"}
BY NoneAssumption DEF Outcomes, Posted

LEMMA NoCallTyped ==
  NoCall \in [n : Nat, id : Nat, tool : Names \cup {None}, hic : BOOLEAN] /\ NoCall.n = 0
BY DEF NoCall

LEMMA MessageTyped ==
  /\ User \in Message /\ User.role = "user" /\ User.calls = {}
  /\ Said(<<>>) \in Message /\ Said(<<>>).role = "assistant" /\ Said(<<>>).calls = {}
<1>1. DOMAIN <<>> = {}
  OBVIOUS
<1>2. QED
  BY <1>1 DEF User, Said, Message

\* A turn ends in a place of rest, and a workflow keeps to its attempts.
LEMMA EndTurnRests ==
  ASSUME LoopInv, pc \in {"step", "model", "call"}, NEW how, EndTurn(how)
  PROVE  /\ todo' = <<>> /\ cur' = NoCall /\ pc' \in {"idle", "judge", "attempt"}
         /\ goal' \in Target \cup {None}
         /\ pc' = "idle" => goal' = None
         /\ pc' \in {"attempt", "judge"} => goal' \in Target
         /\ goal' \in Target /\ pc' # "attempt" => goal'.attempt <= MaxAttempts
         /\ pc' # "attempt" => goal' \in {goal, None}
<1>1. goal \in Target \cup {None} /\ (goal \in Target => goal.attempt <= MaxAttempts)
  BY DEF LoopInv, Types, Placed
<1>2. CASE UNCHANGED goal
  BY <1>1, <1>2 DEF EndTurn, EndWorkflow
<1>3. CASE goal # None /\ NextAttempt /\ pc' = "attempt"
  <2>1. goal \in Target /\ goal' = [goal EXCEPT !.attempt = @ + 1] /\ goal.attempt <= MaxAttempts
    BY <1>1, <1>3 DEF NextAttempt
  <2>2. goal.attempt \in 1..MaxAttempts + 1 /\ MaxAttempts \in 1..5
    BY <2>1, BoundAssumption DEF Target
  <2>3. goal.attempt + 1 \in 1..MaxAttempts + 1
    BY <2>1, <2>2
  <2>4. goal' \in Target
    BY <2>1, <2>3 DEF Target
  <2>5. QED
    BY <1>3, <2>4 DEF EndTurn
<1>4. CASE goal' = None /\ pc' = "idle"
  BY <1>4, RecordAssumption DEF EndTurn
<1>5. QED
  BY <1>2, <1>3, <1>4 DEF EndTurn, EndWorkflow

\* The steps that leave the reply and the call in hand alone.
Outside ==
  /\ UNCHANGED <<loopVars, taskVars, hicAware>>
  /\ stopped' \in BOOLEAN /\ (stopped => stopped')
  /\ sources' \in {sources, {}} /\ exposed' \in BOOLEAN
  /\ exposed' => exposed /\ sources' = sources

LEMMA OutsideLoop ==
  ASSUME LoopInv, Outside
  PROVE  LoopInv'
BY DEF Outside, LoopInv, Types, InOrder, Placed

\* The steps of the turn thread while it has a call in hand.
HandStep ==
  /\ pc \in InHand \ {"ran", "refused"} /\ pc' \in InHand
  /\ UNCHANGED <<step, todo, cur, history, issued, taskVars, flagVars, taintVars>>
  /\ outcome' \in Outcomes \cup {None}
  /\ pc' \in {"ran", "refused", "leave"} => outcome' # None

LEMMA HandLoop ==
  ASSUME LoopInv, HandStep
  PROVE  LoopInv'
<1> USE DEF HandStep
<1>1. Types'
  BY DEF LoopInv, Types, InHand, Places
<1>2. InOrder'
  BY DEF LoopInv, InOrder
<1>3. Placed'
  BY DEF LoopInv, Placed, AtRest, InHand
<1>4. QED
  BY <1>1, <1>2, <1>3 DEF LoopInv

LEMMA HandSteps ==
  ASSUME SessionInv,
         Announce \/ TakeMail \/ GiveUp \/ Leave \/ RunFileTool \/ RunShell \/ TakeAnswer
           \/ CardLapses \/ RunReleased
  PROVE  HandStep
<1> USE DEF HandStep, InHand, Settle, Execute
<1>1. LoopInv /\ outcome \in Outcomes \cup {None} /\ (pc = "leave" => outcome # None)
  BY DEF SessionInv, LoopInv, Types, Placed
<1>2. {"ok", "untrusted", "vouched", "denied", "error", "refusal"} \subseteq Outcomes
  BY DEF Outcomes, Posted
<1>3. None \notin {"ok", "untrusted", "vouched", "denied", "error", "refusal"}
  BY NoneIsNoOutcome
<1>4. CASE Announce
  BY <1>1, <1>4 DEF Announce
<1>5. CASE TakeMail
  <2>1. mail \in Posts
    BY <1>5 DEF TakeMail, SessionInv, CoreInv
  <2>2. mail.outcome \in Outcomes /\ mail.outcome # None
    BY <2>1, NoneIsNoOutcome DEF Posts, Outcomes
  <2>3. QED
    BY <1>5, <2>2 DEF TakeMail
<1>6. CASE GiveUp \/ CardLapses
  BY <1>2, <1>3, <1>6 DEF GiveUp, CardLapses
<1>7. CASE Leave
  BY <1>1, <1>7 DEF Leave
<1>8. CASE RunFileTool
  BY <1>1, <1>2, <1>3, <1>8 DEF RunFileTool, ShowCard
<1>9. CASE RunShell
  BY <1>1, <1>2, <1>3, <1>9 DEF RunShell, ShowCard
<1>10. CASE TakeAnswer
  BY <1>1, <1>2, <1>3, <1>10 DEF TakeAnswer
<1>11. CASE RunReleased
  BY <1>1, <1>2, <1>3, <1>11 DEF RunReleased
<1>12. QED
  BY <1>4, <1>5, <1>6, <1>7, <1>8, <1>9, <1>10, <1>11

LEMMA OutsideSteps ==
  ASSUME SessionInv,
         \/ \E c \in heard, o \in Posted : Post(c, o)
         \/ \E d \in Deciders : Decision(d)
         \/ LookAtTaint \/ ClearTaint \/ Stop \/ UNCHANGED vars
  PROVE  Outside
<1> USE DEF Outside
<1>1. stopped \in BOOLEAN /\ exposed \in BOOLEAN
  BY DEF SessionInv, LoopInv, Types
<1>2. CASE \E c \in heard, o \in Posted : Post(c, o)
  BY <1>1, <1>2 DEF Post
<1>3. CASE \E d \in Deciders : Decision(d)
  BY <1>1, <1>3 DEF Decision, LookAndRecord, Decide
<1>4. CASE LookAtTaint \/ ClearTaint \/ Stop
  <2>1. CASE LookAtTaint
    BY <1>1, <2>1 DEF LookAtTaint
  <2>2. CASE ClearTaint
    BY <1>1, <2>2 DEF ClearTaint
  <2>3. CASE Stop
    BY <1>1, <2>3 DEF Stop
  <2>4. QED
    BY <1>4, <2>1, <2>2, <2>3
<1>5. CASE UNCHANGED vars
  BY <1>1, <1>5 DEF vars
<1>6. QED
  BY <1>2, <1>3, <1>4, <1>5

\* The steps of the turn thread between calls.
RestSteps ==
  \/ Send \/ SendToGuard \/ RunWorkflow \/ Attempt \/ Judge \/ StepTop \/ ModelFails \/ ModelAnswers

LEMMA RestLoop ==
  ASSUME LoopInv, RestSteps
  PROVE  LoopInv'
<1> USE DEF LoopInv
<1>1. history' \in Seq(Message)
  <2>1. history \in Seq(Message)
    BY DEF Types
  <2>2. \/ UNCHANGED history
        \/ history' = Append(history, User)
        \/ history' = Append(history, Said(<<>>))
        \/ history' = history \o <<User, Said(<<>>)>>
    BY DEF RestSteps, Send, SendToGuard, RunWorkflow, Attempt, Judge, StepTop, ModelFails,
           ModelAnswers
  <2>3. <<User, Said(<<>>)>> \in Seq(Message)
    BY MessageTyped
  <2>4. \A m \in Message : Append(history, m) \in Seq(Message)
    BY <2>1, AppendExtends
  <2>5. history \o <<User, Said(<<>>)>> \in Seq(Message)
    BY <2>1, <2>3, ConcatProperties
  <2>6. QED
    BY <2>1, <2>2, <2>4, <2>5, MessageTyped
<1>2. /\ pc \in AtRest /\ pc' \in AtRest /\ todo' = <<>> /\ cur' = NoCall
      /\ UNCHANGED <<hicAware, stopped, outcome, issued, sources, exposed>>
      /\ step' \in Nat /\ tasks' \in Nat
      /\ goal' \in Target \cup {None} /\ (pc' = "idle" => goal' = None)
      /\ pc' \in {"attempt", "judge"} => goal' \in Target
      /\ goal' \in Target /\ pc' # "attempt" => goal'.attempt <= MaxAttempts
  <2>0. /\ goal \in Target \cup {None} /\ (pc = "idle" => goal = None)
        /\ pc \in {"attempt", "judge"} => goal \in Target
        /\ goal \in Target /\ pc # "attempt" => goal.attempt <= MaxAttempts
        /\ pc \in AtRest => todo = <<>> /\ cur = NoCall
        /\ step \in Nat /\ tasks \in Nat
    BY DEF Types, Placed
  <2>1. CASE Send
    BY <2>0, <2>1 DEF Send, AtRest
  <2>2. CASE SendToGuard
    BY <2>0, <2>2 DEF SendToGuard, AtRest
  <2>3. CASE RunWorkflow
    <3>1. Len(Goals) \in Nat \ {0}
      BY <2>3, GoalsAssumption, EmptySeq, LenProperties DEF RunWorkflow
    <3>2. goal' \in Target
      BY <2>3, <3>1, BoundAssumption DEF RunWorkflow, Target
    <3>3. QED
      BY <2>0, <2>3, <3>2, BoundAssumption DEF RunWorkflow, AtRest
  <2>4. CASE Attempt
    <3>1. pc = "attempt" /\ goal \in Target
      BY <2>0, <2>4 DEF Attempt
    <3>2. CASE UNCHANGED goal \/ goal' = None
      BY <2>0, <2>4, <3>1, <3>2, RecordAssumption DEF Attempt, EndWorkflow, AtRest
    <3>3. CASE goal' = [goal EXCEPT !.start = Len(history)] /\ goal.attempt <= MaxAttempts /\ pc' = "step"
      <4>1. Len(history) \in Nat
        BY LenProperties DEF Types
      <4>2. goal' \in Target /\ goal'.attempt = goal.attempt
        BY <3>1, <3>3, <4>1 DEF Target
      <4>3. QED
        BY <2>0, <2>4, <3>1, <3>3, <4>2 DEF Attempt, AtRest
    <3>4. QED
      BY <2>4, <3>2, <3>3 DEF Attempt, EndWorkflow
  <2>5. CASE Judge
    <3>1. pc = "judge" /\ goal \in Target /\ UNCHANGED <<todo, cur, step, tasks, outcome, issued>>
          /\ UNCHANGED <<hicAware, stopped, sources, exposed>>
      BY <2>0, <2>5 DEF Judge
    <3>2. CASE goal' = None /\ pc' = "idle"
      BY <2>0, <3>1, <3>2, RecordAssumption DEF AtRest
    <3>3. CASE goal' = [goal EXCEPT !.step = @ + 1, !.attempt = 1] /\ goal.step < Len(Goals) /\ pc' = "attempt"
      <4>1. Len(Goals) \in Nat /\ goal.step \in 1..Len(Goals)
        BY <3>1, GoalsAssumption, LenProperties DEF Target
      <4>2. goal.step + 1 \in 1..Len(Goals) /\ 1 \in 1..MaxAttempts + 1
        BY <3>3, <4>1, BoundAssumption
      <4>3. goal' \in Target
        BY <3>1, <3>3, <4>2 DEF Target
      <4>4. QED
        BY <2>0, <3>1, <3>3, <4>3 DEF AtRest
    <3>4. CASE NextAttempt /\ pc' = "attempt"
      <4>1. goal.attempt \in 1..MaxAttempts + 1 /\ MaxAttempts \in 1..5 /\ goal.attempt <= MaxAttempts
        BY <2>0, <3>1, BoundAssumption DEF Target
      <4>2. goal.attempt + 1 \in 1..MaxAttempts + 1 /\ goal' = [goal EXCEPT !.attempt = @ + 1]
        BY <3>4, <4>1 DEF NextAttempt
      <4>3. goal' \in Target
        BY <3>1, <4>2 DEF Target
      <4>4. QED
        BY <2>0, <3>1, <3>4, <4>3 DEF AtRest
    <3>5. QED
      BY <2>5, <3>2, <3>3, <3>4 DEF Judge, EndWorkflow
  <2>6. CASE StepTop
    <3>1. pc = "step" /\ UNCHANGED <<step, outcome, issued, tasks, hicAware, stopped, sources, exposed>>
      BY <2>6 DEF StepTop
    <3>2. CASE \E how \in {"step_limit", "stopped", "failed"} : EndTurn(how)
      BY <2>0, <3>1, <3>2, EndTurnRests DEF AtRest
    <3>3. CASE pc' = "model" /\ UNCHANGED <<todo, cur, goal, verdict>>
      BY <2>0, <3>1, <3>3 DEF AtRest
    <3>4. QED
      BY <2>6, <3>2, <3>3 DEF StepTop
  <2>7. CASE ModelFails \/ ModelAnswers
    <3>1. /\ pc = "model" /\ UNCHANGED <<step, outcome, issued, tasks, hicAware, stopped, sources, exposed>>
          /\ \E how \in {"failed", "answered"} : EndTurn(how)
      BY <2>7 DEF ModelFails, ModelAnswers
    <3>2. QED
      BY <2>0, <3>1, EndTurnRests DEF AtRest
  <2>8. QED
    BY <2>1, <2>2, <2>3, <2>4, <2>5, <2>6, <2>7 DEF RestSteps
<1>3. Types'
  <2>1. <<>> \in Seq(ModelCall)
    BY EmptySeq
  <2>2. pc' \in Places
    BY <1>2 DEF AtRest, Places
  <2>3. QED
    BY <1>1, <1>2, <2>1, <2>2, NoCallTyped DEF Types
<1>4. InOrder'
  <2>1. Len(todo') = 0
    BY <1>2, EmptySeq
  <2>2. QED
    BY <2>1 DEF InOrder
<1>5. Placed'
  BY <1>2 DEF Placed, AtRest, InHand
<1>6. QED
  BY <1>3, <1>4, <1>5

\* The calls of a reply are numbered from the next free number on.
ReplyOf(k, q) ==
  /\ k \in Nat /\ issued + k <= MaxCalls /\ issued' = issued + k
  /\ q \in Seq(ModelCall) /\ Len(q) = k
  /\ \A i \in 1..k : q[i].n = issued + i /\ (OwnIds => q[i].id = q[i].n)

LEMMA ModelCallsIssues ==
  ASSUME LoopInv, ModelCalls
  PROVE  /\ pc = "model" /\ pc' = "call" /\ \E k \in Nat : ReplyOf(k, todo')
         /\ history' = Append(history, Said(todo'))
         /\ UNCHANGED <<step, cur, outcome, taskVars, flagVars, taintVars, coreVars, cardVars, decider>>
<1>1. issued \in Nat
  BY DEF LoopInv, Types
<1>0. PICK k \in {i \in 1..MaxReply : issued + i <= MaxCalls} : \E names \in [1..k -> Names] :
        todo' = CallsOf(names) /\ issued' = issued + k /\ history' = Append(history, Said(todo'))
  BY DEF ModelCalls
<1>2. PICK names \in [1..k -> Names] :
        todo' = CallsOf(names) /\ issued' = issued + k /\ history' = Append(history, Said(todo'))
  BY <1>0
<1>3. k \in Nat /\ issued + k <= MaxCalls
  BY <1>2, BoundAssumption
<1>4. todo' = [i \in 1..k |-> [n |-> issued + i, tool |-> names[i], id |-> IF OwnIds THEN issued + i ELSE i]]
  BY <1>2 DEF CallsOf
<1>5. \A i \in 1..k : [n |-> issued + i, tool |-> names[i], id |-> IF OwnIds THEN issued + i ELSE i] \in ModelCall
  BY <1>1, <1>3 DEF ModelCall
<1>6. todo' \in Seq(ModelCall) /\ Len(todo') = k
  BY <1>3, <1>4, <1>5, SeqDef, LenProperties
<1>7. ReplyOf(k, todo')
  BY <1>2, <1>3, <1>4, <1>6 DEF ReplyOf
<1>8. QED
  BY <1>2, <1>3, <1>7 DEF ModelCalls

LEMMA SaidTyped ==
  ASSUME NEW q \in Seq(ModelCall)
  PROVE  /\ Said(q) \in Message /\ Said(q).role = "assistant"
         /\ Said(q).calls = {q[i].n : i \in 1..Len(q)}
<1>1. DOMAIN q = 1..Len(q) /\ \A i \in 1..Len(q) : q[i] \in ModelCall
  BY LenProperties, ElementOfSeq
<1>2. \A i \in 1..Len(q) : q[i].n \in Nat
  BY <1>1 DEF ModelCall
<1>3. QED
  BY <1>1, <1>2 DEF Said, Message

LEMMA ModelCallsLoop ==
  ASSUME LoopInv, ModelCalls
  PROVE  LoopInv'
<1> USE DEF LoopInv
<1>1. /\ pc = "model" /\ pc' = "call" /\ history' = Append(history, Said(todo'))
      /\ UNCHANGED <<step, cur, outcome, taskVars, flagVars, taintVars>>
  BY ModelCallsIssues
<1>2. PICK k \in Nat : ReplyOf(k, todo')
  BY ModelCallsIssues
<1>3. history' \in Seq(Message)
  BY <1>1, <1>2, SaidTyped, AppendExtends DEF Types, ReplyOf
<1>4. Types'
  BY <1>1, <1>2, <1>3, BoundAssumption DEF Types, Places, ReplyOf
<1>5. cur = NoCall /\ cur.n = 0
  BY <1>1, NoCallTyped DEF Placed, AtRest
<1>6. InOrder'
  BY <1>1, <1>2, <1>5 DEF InOrder, ReplyOf, Types
<1>7. Placed'
  BY <1>1, <1>5 DEF Placed, AtRest, InHand
<1>8. QED
  BY <1>4, <1>6, <1>7

\* The first call of those left is taken in hand.
TakesOne(to) ==
  /\ pc = "call" /\ todo # <<>> /\ ~stopped /\ pc' = to /\ todo' = Tail(todo)
  /\ cur' = [n |-> Head(todo).n, id |-> Head(todo).id, tool |-> Head(todo).tool,
             hic |-> NeedsPerson(Head(todo).tool)]
  /\ UNCHANGED <<step, history, issued, taskVars, flagVars, taintVars, mail, heard, cardVars, decider>>

LEMMA NextCallTakes ==
  ASSUME LoopInv, NextCall
  PROVE  \/ /\ pc = "call" /\ todo = <<>> /\ step' = step + 1 /\ pc' = "step"
            /\ UNCHANGED <<todo, cur, outcome, history, issued, taskVars, flagVars, taintVars, coreVars,
                           cardVars, decider>>
         \/ /\ pc = "call" /\ stopped /\ EndTurn("stopped")
            /\ UNCHANGED <<step, outcome, history, issued, tasks, flagVars, taintVars, coreVars, cardVars,
                           decider>>
         \/ TakesOne("refused") /\ outcome' \in {"error", "denied"} /\ UNCHANGED pending
         \/ TakesOne("announce") /\ outcome' = None /\ Register(Head(todo))
         \/ TakesOne("host") /\ outcome' = None /\ UNCHANGED pending
BY DEF NextCall, Take, TakesOne

LEMMA TakesOneLoop ==
  ASSUME LoopInv, NEW to \in {"refused", "announce", "host"}, TakesOne(to),
         to = "refused" => outcome' # None, outcome' \in Outcomes \cup {None}
  PROVE  /\ LoopInv' /\ Waiting' = Waiting /\ cur.n = 0 /\ cur'.n \in 1..issued
         /\ \A i \in 1..Len(todo') : todo'[i].n # cur'.n /\ \E j \in 1..Len(todo) : todo'[i].n = todo[j].n
         /\ \E j \in 1..Len(todo) : cur'.n = todo[j].n
<1> USE DEF LoopInv
<1>1. todo \in Seq(ModelCall) /\ todo # <<>> /\ cur = NoCall /\ cur.n = 0 /\ issued \in Nat
  BY NoCallTyped DEF TakesOne, Types, Placed
<1>2. /\ Len(todo) \in Nat \ {0} /\ Head(todo) = todo[1] /\ Head(todo) \in ModelCall
      /\ Tail(todo) \in Seq(ModelCall) /\ Len(Tail(todo)) = Len(todo) - 1
      /\ \A j \in 1..Len(todo)-1 : Tail(todo)[j] = todo[j+1]
  BY <1>1, HeadTailProperties, EmptySeq, LenProperties
<1>3. 1 \in 1..Len(todo) /\ \A j \in 1..Len(todo)-1 : j + 1 \in 1..Len(todo) /\ 1 < j + 1
  BY <1>2
<1>4. \A i \in 1..Len(todo) : todo[i] \in ModelCall /\ todo[i].n \in Nat
  <2>1. \A i \in 1..Len(todo) : todo[i] \in ModelCall
    BY <1>1, ElementOfSeq
  <2>2. QED
    BY <2>1 DEF ModelCall
<1>5. /\ cur'.n = todo[1].n /\ cur'.id = todo[1].id /\ cur'.tool = todo[1].tool /\ cur'.tool \in Names
      /\ cur' \in [n : Nat, id : Nat, tool : Names \cup {None}, hic : BOOLEAN]
  BY <1>2 DEF TakesOne, ModelCall, NeedsPerson
<1>6. /\ todo' \in Seq(ModelCall) /\ Len(todo') = Len(todo) - 1
      /\ \A j \in 1..Len(todo)-1 : todo'[j] = todo[j+1]
  BY <1>2 DEF TakesOne
<1>7. todo[1].n \in 1..issued /\ (OwnIds => todo[1].id = todo[1].n)
  BY <1>1, <1>3 DEF InOrder
<1>8. Types'
  BY <1>5, <1>6 DEF TakesOne, Types, Places
<1>9. InOrder'
  <2>1. ASSUME NEW i \in 1..Len(todo')
        PROVE  todo'[i].n \in cur'.n + 1..issued' /\ (OwnIds => todo'[i].id = todo'[i].n)
    <3>1. todo[i+1].n \in 1..issued /\ todo[1].n < todo[i+1].n /\ (OwnIds => todo[i+1].id = todo[i+1].n)
      BY <1>1, <1>3, <1>6 DEF InOrder
    <3>2. QED
      BY <1>5, <1>6, <1>7, <3>1 DEF TakesOne
  <2>2. ASSUME NEW i \in 1..Len(todo'), NEW j \in 1..Len(todo'), i < j
        PROVE  todo'[i].n < todo'[j].n
    <3>1. i + 1 \in 1..Len(todo) /\ j + 1 \in 1..Len(todo) /\ i + 1 < j + 1
      BY <1>2, <1>6, <2>2
    <3>2. QED
      BY <1>6, <3>1 DEF InOrder
  <2>3. QED
    BY <2>1, <2>2 DEF InOrder
<1>10. Placed'
  BY <1>5, <1>7 DEF TakesOne, Placed, AtRest, InHand
<1>11. \A i \in 1..Len(todo') : todo'[i].n # cur'.n /\ todo'[i].n = todo[i+1].n /\ i + 1 \in 1..Len(todo)
  <2>1. ASSUME NEW i \in 1..Len(todo')
        PROVE  todo'[i].n # cur'.n /\ todo'[i].n = todo[i+1].n /\ i + 1 \in 1..Len(todo)
    <3>1. i + 1 \in 1..Len(todo) /\ 1 < i + 1 /\ todo'[i] = todo[i+1]
      BY <1>2, <1>6
    <3>2. todo[1].n < todo[i+1].n /\ todo[1].n \in Nat
      BY <1>3, <1>4, <3>1 DEF InOrder
    <3>3. QED
      BY <1>5, <3>1, <3>2
  <2>2. QED
    BY <2>1
<1>12. Waiting' = Waiting
  <2>1. ASSUME NEW n \in Waiting'
        PROVE  n \in Waiting
    BY <1>3, <1>5, <1>11, <2>1 DEF Waiting
  <2>2. ASSUME NEW n \in Waiting
        PROVE  n \in Waiting'
    <3>1. PICK i \in 1..Len(todo) : n = todo[i].n
      BY <1>1 DEF Waiting
    <3>2. CASE i = 1
      BY <1>5, <1>7, <3>1, <3>2 DEF Waiting
    <3>3. CASE i # 1
      <4>1. i - 1 \in 1..Len(todo') /\ todo'[i-1] = todo[(i-1)+1] /\ (i-1)+1 = i
        BY <1>2, <1>6, <3>3
      <4>2. QED
        BY <3>1, <4>1 DEF Waiting
    <3>4. QED
      BY <3>2, <3>3
  <2>3. QED
    BY <2>1, <2>2
<1>13. QED
  BY <1>1, <1>3, <1>5, <1>7, <1>8, <1>9, <1>10, <1>11, <1>12 DEF TakesOne

LEMMA NextCallLoop ==
  ASSUME LoopInv, NextCall
  PROVE  LoopInv'
<1> USE DEF LoopInv
<1>1. CASE /\ pc = "call" /\ todo = <<>> /\ step' = step + 1 /\ pc' = "step"
           /\ UNCHANGED <<todo, cur, outcome, history, issued, taskVars, flagVars, taintVars, coreVars,
                          cardVars, decider>>
  BY <1>1 DEF Types, InOrder, Placed, Places, AtRest, InHand
<1>2. CASE /\ pc = "call" /\ stopped /\ EndTurn("stopped")
           /\ UNCHANGED <<step, outcome, history, issued, tasks, flagVars, taintVars, coreVars, cardVars,
                          decider>>
  <2>1. /\ todo' = <<>> /\ cur' = NoCall /\ pc' \in {"idle", "judge", "attempt"}
        /\ goal' \in Target \cup {None}
        /\ pc' = "idle" => goal' = None
        /\ pc' \in {"attempt", "judge"} => goal' \in Target
        /\ goal' \in Target /\ pc' # "attempt" => goal'.attempt <= MaxAttempts
    BY <1>2, EndTurnRests
  <2>2. Types'
    BY <1>2, <2>1, NoCallTyped, EmptySeq DEF Types, Places
  <2>3. InOrder'
    BY <2>1, EmptySeq DEF InOrder
  <2>4. Placed'
    BY <2>1 DEF Placed, AtRest, InHand
  <2>5. QED
    BY <2>2, <2>3, <2>4
<1>3. CASE \E to \in {"refused", "announce", "host"} :
             TakesOne(to) /\ outcome' \in {"error", "denied", None} /\ (to = "refused" => outcome' # None)
  <2>1. outcome' \in Outcomes \cup {None}
    BY <1>3 DEF Outcomes, Posted
  <2>2. QED
    BY <1>3, <2>1, TakesOneLoop
<1>4. QED
  BY <1>1, <1>2, <1>3, NextCallTakes, NoneIsNoOutcome

LEMMA FinishLoop ==
  ASSUME LoopInv, Finish
  PROVE  /\ LoopInv' /\ Result(cur, outcome) \in Message
         /\ Result(cur, outcome).role = "tool" /\ Result(cur, outcome).calls = {cur.n}
         /\ cur.n \in 1..issued /\ Waiting' = Waiting \ {cur.n} /\ cur.n \in Waiting
<1> USE DEF LoopInv
<1>1. /\ pc \in {"ran", "refused"} /\ pc' = "call" /\ cur' = NoCall /\ outcome' = None
      /\ history' = Append(history, Result(cur, outcome))
      /\ UNCHANGED <<step, todo, issued, taskVars, flagVars>>
      /\ sources' \in {sources, sources \cup {cur.tool}}
      /\ exposed' = (exposed \/ (pc = "ran" /\ BringsIn(cur.tool, outcome)))
  BY DEF Finish
<1>2. cur.n \in 1..issued /\ cur.tool \in Names /\ issued \in Nat
  BY <1>1 DEF Placed, InHand, Types
<1>3. /\ Result(cur, outcome) \in Message /\ Result(cur, outcome).role = "tool"
      /\ Result(cur, outcome).calls = {cur.n}
  BY <1>2 DEF Result, Message
<1>4. Types'
  <2>1. history' \in Seq(Message)
    BY <1>1, <1>3, AppendExtends DEF Types
  <2>2. sources' \subseteq Names \cup {"unattended"} /\ exposed' \in BOOLEAN
    BY <1>1, <1>2 DEF Types, BringsIn
  <2>3. QED
    BY <1>1, <2>1, <2>2, NoCallTyped DEF Types, Places
<1>5. InOrder'
  BY <1>1, <1>2, NoCallTyped DEF InOrder
<1>6. Placed'
  BY <1>1 DEF Placed, AtRest, InHand
<1>7. \A i \in 1..Len(todo) : todo[i].n # cur.n
  BY <1>2 DEF InOrder, Types
<1>8. Waiting' = Waiting \ {cur.n} /\ cur.n \in Waiting
  BY <1>1, <1>2, <1>7, NoCallTyped DEF Waiting
<1>9. QED
  BY <1>2, <1>3, <1>4, <1>5, <1>6, <1>8

LEMMA LoopNext ==
  ASSUME SessionInv, [Next]_vars
  PROVE  LoopInv'
<1>1. LoopInv
  BY DEF SessionInv
<1>2. CASE RestSteps
  BY <1>1, <1>2, RestLoop
<1>3. CASE ModelCalls
  BY <1>1, <1>3, ModelCallsLoop
<1>4. CASE NextCall
  BY <1>1, <1>4, NextCallLoop
<1>5. CASE Finish
  BY <1>1, <1>5, FinishLoop
<1>6. CASE Announce \/ TakeMail \/ GiveUp \/ Leave \/ RunFileTool \/ RunShell \/ TakeAnswer
             \/ CardLapses \/ RunReleased
  BY <1>1, <1>6, HandSteps, HandLoop
<1>7. CASE \/ \E c \in heard, o \in Posted : Post(c, o)
           \/ \E d \in Deciders : Decision(d)
           \/ LookAtTaint \/ ClearTaint \/ Stop \/ UNCHANGED vars
  BY <1>1, <1>7, OutsideSteps, OutsideLoop
<1>8. QED
  BY <1>2, <1>3, <1>4, <1>5, <1>6, <1>7 DEF Next, TurnThread, RestSteps

-----------------------------------------------------------------------------
(* The steps between calls, as far as the taint, core and the cards see them    *)

\* Nothing is with core or on a card before or after such a step, unless it takes
\* a call in hand; and no call becomes one that may still ask.
Between ==
  /\ pc \in AtRest \cup {"call", "ran", "refused"}
  /\ pc' \in AtRest \cup {"call", "announce", "host", "refused"}
  /\ UNCHANGED <<mail, heard, card, obeyed, decider>>
  /\ IF pc' = "announce" THEN pending' = pending \cup {Handed'} ELSE pending' = pending
  /\ \A n \in Nat : MayAsk(n)' => MayAsk(n)

LEMMA BetweenSteps ==
  ASSUME LoopInv, RestSteps \/ ModelCalls \/ NextCall \/ Finish
  PROVE  Between
<1>1. CASE RestSteps
  <2>1. /\ pc \in AtRest /\ pc' \in AtRest /\ UNCHANGED <<coreVars, cardVars, decider, issued>>
        /\ todo' = <<>> \/ UNCHANGED todo
    BY <1>1 DEF RestSteps, Send, SendToGuard, RunWorkflow, Attempt, Judge, StepTop, ModelFails,
                ModelAnswers, EndTurn, EndWorkflow, AtRest
  <2>2. \A n \in Nat : MayAsk(n)' => MayAsk(n)
    BY <2>1, EmptySeq DEF MayAsk, AtRest
  <2>3. QED
    BY <2>1, <2>2 DEF Between, AtRest
<1>2. CASE ModelCalls
  <2>1. /\ pc = "model" /\ pc' = "call" /\ UNCHANGED <<coreVars, cardVars, decider>>
    BY <1>2, ModelCallsIssues
  <2>2. PICK k \in Nat : ReplyOf(k, todo')
    BY <1>2, ModelCallsIssues
  <2>3. ASSUME NEW n \in Nat, MayAsk(n)'
        PROVE  MayAsk(n)
    <3>1. issued \in Nat /\ pc' # "host"
      BY <2>1 DEF LoopInv, Types
    <3>2. CASE n > issued'
      BY <2>2, <3>1, <3>2 DEF MayAsk, ReplyOf
    <3>3. CASE \E i \in 1..Len(todo') : todo'[i].n = n
      <4>1. n > issued
        BY <2>2, <3>1, <3>3 DEF ReplyOf
      <4>2. QED
        BY <4>1 DEF MayAsk
    <3>4. QED
      BY <2>3, <3>1, <3>2, <3>3 DEF MayAsk
  <2>4. QED
    BY <2>1, <2>3 DEF Between, AtRest
<1>3. CASE NextCall
  <2>1. CASE /\ pc = "call" /\ pc' \in AtRest /\ UNCHANGED <<issued, coreVars, cardVars, decider>>
             /\ todo' = <<>>
    <3>1. \A n \in Nat : MayAsk(n)' => MayAsk(n)
      BY <2>1, EmptySeq DEF MayAsk, AtRest
    <3>2. QED
      BY <2>1, <3>1 DEF Between, AtRest
  <2>2. ASSUME NEW to \in {"refused", "announce", "host"}, TakesOne(to), outcome' \in {"error", "denied", None},
               to = "refused" => outcome' # None,
               IF to = "announce" THEN Register(Head(todo)) ELSE UNCHANGED pending
        PROVE  Between
    <3>1. outcome' \in Outcomes \cup {None}
      BY <2>2 DEF Outcomes, Posted
    <3>2. /\ \A i \in 1..Len(todo') : \E j \in 1..Len(todo) : todo'[i].n = todo[j].n
          /\ \E j \in 1..Len(todo) : cur'.n = todo[j].n
      BY <2>2, <3>1, TakesOneLoop
    <3>3. \A n \in Nat : MayAsk(n)' => MayAsk(n)
      BY <2>2, <3>2 DEF TakesOne, MayAsk
    <3>4. to = "announce" => pending' = pending \cup {Handed'}
      BY <2>2 DEF TakesOne, Register, Handed
    <3>5. QED
      BY <2>2, <3>3, <3>4 DEF TakesOne, Between
  <2>4. QED
    BY <1>3, <2>1, <2>2, NextCallTakes, EndTurnRests, NoneIsNoOutcome DEF AtRest
<1>4. CASE Finish
  <2>1. /\ pc \in {"ran", "refused"} /\ pc' = "call" /\ UNCHANGED <<coreVars, cardVars, decider, issued, todo>>
    BY <1>4 DEF Finish
  <2>2. QED
    BY <2>1 DEF Between, MayAsk
<1>5. QED
  BY <1>1, <1>2, <1>3, <1>4

-----------------------------------------------------------------------------
(* The taint                                                                   *)

LEMMA TaintNext ==
  ASSUME SessionInv, [Next]_vars
  PROVE  TaintInv'
<1>1. TaintInv /\ LoopInv
  BY DEF SessionInv
<1>2. CASE RestSteps \/ ModelCalls
  <2>1. UNCHANGED <<sources, exposed>> /\ pc' \in AtRest \cup {"call"}
    BY <1>1, <1>2, ModelCallsIssues, RestLoop DEF RestSteps, Send, SendToGuard, RunWorkflow, Attempt, Judge,
       StepTop, ModelFails, ModelAnswers, EndTurn, EndWorkflow, AtRest
  <2>2. QED
    BY <1>1, <2>1 DEF TaintInv, AtRest
<1>3. CASE NextCall
  <2>1. UNCHANGED <<sources, exposed>>
    BY <1>3 DEF NextCall
  <2>2. \/ pc' \in {"step", "idle", "judge", "attempt", "refused"}
        \/ pc' \in {"announce", "host"} /\ cur'.tool = Head(todo).tool /\ cur'.hic = NeedsPerson(Head(todo).tool)
    BY <1>1, <1>3, NextCallTakes, EndTurnRests DEF TakesOne
  <2>3. CASE pc' \in {"step", "idle", "judge", "attempt", "refused"}
    BY <1>1, <2>1, <2>3 DEF TaintInv
  <2>4. CASE cur'.tool = Head(todo).tool /\ cur'.hic = NeedsPerson(Head(todo).tool)
    BY <1>1, <2>1, <2>4 DEF TaintInv, NeedsPerson, Tainted
  <2>5. QED
    BY <2>2, <2>3, <2>4
<1>4. CASE Finish
  <2>1. outcome \in Outcomes /\ pc' = "call"
    BY <1>1, <1>4 DEF Finish, LoopInv, Types, Placed
  <2>2. BringsIn(cur.tool, outcome) => Ingests(cur.tool, outcome)
    BY <2>1 DEF BringsIn, Ingests, Outcomes, Posted
  <2>3. exposed' => sources' # {}
    BY <1>1, <1>4, <2>2 DEF Finish, TaintInv
  <2>4. QED
    BY <2>1, <2>3 DEF TaintInv
<1>5. CASE Announce \/ TakeMail \/ GiveUp \/ Leave \/ RunFileTool \/ RunShell \/ TakeAnswer
             \/ CardLapses \/ RunReleased
  <2>1. UNCHANGED <<cur, sources, exposed>>
    BY <1>5, HandSteps DEF HandStep
  <2>2. pc' \in {"announce", "host", "asked", "released"} => pc \in {"announce", "host", "asked", "released"}
    BY <1>5 DEF Announce, TakeMail, GiveUp, Leave, RunFileTool, RunShell, TakeAnswer, CardLapses, RunReleased,
                Execute, ShowCard
  <2>3. QED
    BY <1>1, <2>1, <2>2 DEF TaintInv
<1>6. CASE \/ \E c \in heard, o \in Posted : Post(c, o)
           \/ \E d \in Deciders : Decision(d)
           \/ LookAtTaint \/ ClearTaint \/ Stop \/ UNCHANGED vars
  BY <1>1, <1>6, OutsideSteps DEF Outside, TaintInv
<1>7. QED
  BY <1>2, <1>3, <1>4, <1>5, <1>6 DEF Next, TurnThread, RestSteps

-----------------------------------------------------------------------------
(* The calls that core runs                                                    *)

LEMMA CoreNext ==
  ASSUME SessionInv, [Next]_vars
  PROVE  CoreInv'
<1> USE DEF Handed
<1>1. CoreInv /\ LoopInv /\ OwnIds \in BOOLEAN
  BY ProviderAssumption DEF SessionInv
<1>2. CASE RestSteps \/ ModelCalls \/ NextCall \/ Finish
  <2>1. Between
    BY <1>1, <1>2, BetweenSteps
  <2>2. pending = {} /\ mail = None /\ (OwnIds => heard = {}) /\ UNCHANGED <<mail, heard>>
    BY <1>1, <2>1 DEF CoreInv, Between, AtRest
  <2>3. CASE pc' = "announce"
    BY <1>1, <2>1, <2>2, <2>3 DEF CoreInv, Between
  <2>4. CASE pc' # "announce"
    BY <1>1, <2>1, <2>2, <2>4 DEF CoreInv, Between, AtRest
  <2>5. QED
    BY <2>3, <2>4
<1>3. CASE Announce
  <2>1. cur.n \in 1..MaxCalls /\ cur.id \in Nat
    BY <1>1, <1>3, BoundAssumption DEF Announce, LoopInv, Types, Placed, InHand
  <2>2. QED
    BY <1>1, <1>3, <2>1 DEF Announce, CoreInv
<1>4. CASE TakeMail \/ GiveUp
  BY <1>1, <1>4 DEF TakeMail, GiveUp, Settle, CoreInv
<1>5. CASE Leave
  <2>1. pending' = {} /\ mail' = None /\ pc' = "ran" /\ heard' \subseteq heard
    BY <1>1, <1>5 DEF Leave, CoreInv
  <2>2. OwnIds => heard' = {}
    BY <1>1, <1>5 DEF Leave, CoreInv
  <2>3. QED
    BY <1>1, <2>1, <2>2 DEF CoreInv
<1>6. CASE RunFileTool \/ RunShell \/ TakeAnswer \/ CardLapses \/ RunReleased
  <2>1. /\ pc \in {"host", "asked", "released"} /\ pc' \in {"asked", "released", "ran"}
        /\ UNCHANGED <<coreVars, cur>>
    BY <1>6 DEF RunFileTool, RunShell, TakeAnswer, CardLapses, RunReleased, Execute, ShowCard, Settle
  <2>2. QED
    BY <1>1, <2>1 DEF CoreInv
<1>7. CASE \E c \in heard, o \in Posted : Post(c, o)
  <2>1. PICK c \in heard, o \in Posted : Post(c, o)
    BY <1>7
  <2>2. PICK p \in pending : p.id = c.id /\ pending' = pending \ {p} /\ mail' = [n |-> c.n, outcome |-> o]
                             /\ heard' = heard \ {c} /\ UNCHANGED loopVars
    BY <2>1 DEF Post
  <2>3. mail' \in Posts /\ mail' # None /\ mail'.n = c.n
    BY <1>1, <2>2, RecordAssumption DEF CoreInv, Posts
  <2>4. pc \in {"announce", "parked", "leave"} /\ (OwnIds => pc # "announce" /\ c = Handed)
    BY <1>1, <2>2 DEF CoreInv
  <2>5. QED
    BY <1>1, <2>2, <2>3, <2>4 DEF CoreInv
<1>8. CASE (\E d \in Deciders : Decision(d)) \/ LookAtTaint \/ ClearTaint \/ Stop \/ UNCHANGED vars
  <2>1. UNCHANGED <<coreVars, cur, pc>>
    BY <1>8 DEF Decision, LookAndRecord, Decide, LookAtTaint, ClearTaint, Stop, vars
  <2>2. QED
    BY <1>1, <2>1 DEF CoreInv
<1>9. QED
  BY <1>2, <1>3, <1>4, <1>5, <1>6, <1>7, <1>8 DEF Next, TurnThread, RestSteps

-----------------------------------------------------------------------------
(* The instruction of an attempt                                               *)

LEMMA GoalNext ==
  ASSUME SessionInv, [Next]_vars
  PROVE  GoalInv'
<1>1. GoalInv /\ LoopInv /\ history \in Seq(Message) /\ Len(history) \in Nat
  BY LenProperties DEF SessionInv, LoopInv, Types
<1>2. ASSUME UNCHANGED <<history, goal>> \/ goal' = None, pc \notin {"idle", "attempt"}
      PROVE  GoalInv'
  BY <1>1, <1>2 DEF GoalInv
<1>3. ASSUME NEW m \in Message, m.role # "user", history' = Append(history, m), UNCHANGED goal \/ goal' = None,
             pc \notin {"idle", "attempt"}
      PROVE  GoalInv'
  <2>1. Extended(history, m, history')
    BY <1>1, <1>3, AppendExtends
  <2>2. CASE goal' = goal /\ goal # None
    <3>1. /\ goal.start + 1 \in 1..Len(history) /\ history[goal.start + 1].role = "user"
          /\ \A j \in goal.start + 2..Len(history) : history[j].role # "user"
      BY <1>1, <1>3, <2>2 DEF GoalInv
    <3>2. goal \in Target /\ goal.start \in Nat
      BY <2>2 DEF SessionInv, LoopInv, Types, Target
    <3>3. goal.start + 1 \in 1..Len(history') /\ history'[goal.start + 1].role = "user"
      BY <1>1, <2>1, <3>1, <3>2 DEF Extended
    <3>4. \A j \in goal.start + 2..Len(history') : history'[j].role # "user"
      BY <1>1, <1>3, <2>1, <3>1, <3>2 DEF Extended
    <3>5. QED
      BY <2>2, <3>3, <3>4 DEF GoalInv
  <2>3. CASE goal' = None
    BY <2>3 DEF GoalInv
  <2>4. QED
    BY <1>3, <2>2, <2>3 DEF GoalInv
<1>4. CASE Send \/ SendToGuard \/ RunWorkflow
  BY <1>1, <1>4 DEF Send, SendToGuard, RunWorkflow, GoalInv, LoopInv, Placed
<1>5. CASE Attempt
  <2>1. CASE pc' = "idle"
    BY <2>1 DEF GoalInv
  <2>2. CASE goal' = [goal EXCEPT !.start = Len(history)] /\ history' = Append(history, User)
    <3>1. goal \in Target
      BY <1>1, <1>5 DEF Attempt, LoopInv, Placed
    <3>2. goal'.start = Len(history)
      BY <2>2, <3>1 DEF Target
    <3>3. Extended(history, User, history')
      BY <1>1, <2>2, MessageTyped, AppendExtends
    <3>4. QED
      BY <1>1, <3>2, <3>3, MessageTyped DEF GoalInv, Extended
  <2>3. QED
    BY <1>5, <2>1, <2>2 DEF Attempt, EndWorkflow
<1>6. CASE Judge
  <2>1. pc' \in {"idle", "attempt"}
    BY <1>6 DEF Judge, EndWorkflow
  <2>2. QED
    BY <2>1 DEF GoalInv
<1>7. CASE StepTop \/ ModelFails \/ NextCall
  <2>1. pc \in {"step", "model", "call"} /\ UNCHANGED history
    BY <1>7 DEF StepTop, ModelFails, NextCall
  <2>2. pc' = "attempt" \/ goal' \in {goal, None}
    BY <1>1, <1>7, <2>1, EndTurnRests, NextCallTakes DEF StepTop, ModelFails, TakesOne
  <2>3. QED
    BY <1>2, <2>1, <2>2 DEF GoalInv
<1>8. CASE ModelAnswers
  <2>1. pc = "model" /\ history' = Append(history, Said(<<>>))
    BY <1>8 DEF ModelAnswers
  <2>2. pc' = "attempt" \/ goal' \in {goal, None}
    BY <1>1, <1>8, <2>1, EndTurnRests DEF ModelAnswers
  <2>3. CASE pc' = "attempt"
    BY <2>3 DEF GoalInv
  <2>4. CASE goal' \in {goal, None}
    BY <1>3, <2>1, <2>4, MessageTyped
  <2>5. QED
    BY <2>2, <2>3, <2>4
<1>9. CASE ModelCalls
  <2>1. pc = "model" /\ history' = Append(history, Said(todo')) /\ UNCHANGED goal
    BY <1>1, <1>9, ModelCallsIssues
  <2>2. Said(todo') \in Message /\ Said(todo').role = "assistant"
    BY <1>1, <1>9, ModelCallsIssues, SaidTyped DEF ReplyOf
  <2>3. QED
    BY <1>3, <2>1, <2>2
<1>10. CASE Finish
  <2>1. pc \in {"ran", "refused"} /\ history' = Append(history, Result(cur, outcome)) /\ UNCHANGED goal
    BY <1>10 DEF Finish
  <2>2. QED
    BY <1>1, <1>3, <1>10, <2>1, FinishLoop
<1>11. CASE Announce \/ TakeMail \/ GiveUp \/ Leave \/ RunFileTool \/ RunShell \/ TakeAnswer
             \/ CardLapses \/ RunReleased
  BY <1>2, <1>11, HandSteps DEF HandStep, InHand
<1>12. CASE \/ \E c \in heard, o \in Posted : Post(c, o)
            \/ \E d \in Deciders : Decision(d)
            \/ LookAtTaint \/ ClearTaint \/ Stop \/ UNCHANGED vars
  BY <1>1, <1>12, OutsideSteps DEF Outside, GoalInv
<1>13. QED
  BY <1>4, <1>5, <1>6, <1>7, <1>8, <1>9, <1>10, <1>11, <1>12 DEF Next, TurnThread

-----------------------------------------------------------------------------
(* The member's cards and decisions                                            *)

\* The record of a request is unchanged by steps that give no card and no call
\* a new chance, and release no denied one.
LEMMA RequestsStand ==
  ASSUME CardInv, UNCHANGED decider, obeyed \subseteq obeyed', obeyed' \subseteq Nat,
         \A n \in Nat : MayAsk(n)' => MayAsk(n),
         \A n \in Nat : card # None /\ card = [n |-> n, answer |-> "allow"] => card' = card \/ n \in obeyed',
         \A d \in Deciders : decider[d].rec = "Denied" =>
            /\ decider[d].card \notin obeyed'
            /\ card' # None /\ card'.n = decider[d].card => card' = card
  PROVE  \A d \in Deciders : RequestInv(decider[d])'
<1> TAKE d \in Deciders
<1>1. decider[d] \in Request /\ RequestInv(decider[d]) /\ decider'[d] = decider[d]
  BY DEF CardInv
<1>2. decider[d].card \in Nat
  BY <1>1 DEF Request
<1>3. QED
  BY <1>1, <1>2 DEF RequestInv

LEMMA CardTyped ==
  ASSUME CardInv, card # None
  PROVE  /\ card \in Cards /\ card.n \in Nat /\ card.answer \in {None, "allow", "deny"}
         /\ \A n : card = [n |-> n, answer |-> "allow"] <=> card.n = n /\ card.answer = "allow"
BY DEF CardInv, Cards

LEMMA NoneIsNoAnswer ==
  None \notin {"Approved", "Completed", "Denied", "Failed", "allow", "deny"}
BY NoneAssumption

\* Steps that show no card and answer none, with nothing on a card.
LEMMA NothingAsked ==
  ASSUME CardInv, card = None, UNCHANGED <<card, obeyed, decider>>,
         pc' # "asked", pc' # "released", \A n \in Nat : MayAsk(n)' => MayAsk(n)
  PROVE  CardInv'
<1>1. \A d \in Deciders : decider[d].rec = "Denied" => decider[d].card \notin obeyed
  BY DEF CardInv, RequestInv
<1>2. \A d \in Deciders : RequestInv(decider[d])'
  BY <1>1, RequestsStand DEF CardInv
<1>3. \A n : AllowWon(n) => AllowWon(n)'
  BY DEF AllowWon
<1>4. QED
  BY <1>2, <1>3 DEF CardInv

LEMMA ShowCardKeeps ==
  ASSUME LoopInv, CardInv, pc = "host", ShowCard
  PROVE  CardInv'
<1>1. cur.n \in 1..issued /\ issued \in 0..MaxCalls /\ MaxCalls \in Nat /\ cur.n \in 1..MaxCalls
  BY BoundAssumption DEF LoopInv, Placed, InHand, Types
<1>2. card = None /\ card' = [n |-> cur.n, answer |-> None] /\ pc' = "asked"
      /\ UNCHANGED <<todo, issued, cur, obeyed, decider>>
  BY DEF CardInv, ShowCard
<1>3. card' \in Cards /\ card' # None /\ card'.n = cur.n /\ card'.answer = None
  BY <1>1, <1>2, RecordAssumption DEF Cards
<1>4. \A n \in Nat : MayAsk(n)' => MayAsk(n)
  BY <1>2 DEF MayAsk
<1>5. MayAsk(cur.n)
  BY DEF MayAsk
<1>6. cur.n \notin obeyed /\ \A d \in Deciders : decider[d].pc # "new" => decider[d].card # cur.n
  BY <1>5 DEF CardInv, RequestInv
<1>7. ~MayAsk(cur.n)'
  BY <1>1, <1>2 DEF MayAsk, LoopInv, InOrder, Types
<1>8. \A d \in Deciders : decider[d].rec = "Denied" =>
        decider[d].card \notin obeyed /\ decider[d].card # cur.n
  BY <1>6, NoneIsNoAnswer DEF CardInv, RequestInv
<1>9. \A d \in Deciders : RequestInv(decider[d])'
  BY <1>2, <1>3, <1>4, <1>8, RequestsStand, RecordAssumption DEF CardInv, Cards
<1>10. \A n \in obeyed' : AllowWon(n)' /\ ~MayAsk(n)'
  BY <1>2, <1>4 DEF CardInv, AllowWon
<1>11. QED
  BY <1>2, <1>3, <1>6, <1>9, <1>10, NoneIsNoAnswer DEF CardInv

LEMMA TakeAnswerKeeps ==
  ASSUME LoopInv, CardInv, TakeAnswer
  PROVE  CardInv'
<1>1. pc = "asked" /\ card # None /\ card.answer # None /\ card' = None /\ UNCHANGED <<todo, issued, cur, decider>>
  BY DEF TakeAnswer, CardInv, Settle
<1>2. card.n = cur.n /\ card.n \notin obeyed /\ card.n \in Nat /\ card.answer \in {"allow", "deny"}
      /\ \A n : card = [n |-> n, answer |-> "allow"] <=> card.n = n /\ card.answer = "allow"
  BY <1>1, CardTyped DEF CardInv
<1>3. cur.n \in 1..issued /\ issued \in Nat
  BY <1>1 DEF LoopInv, Placed, InHand, Types
<1>4. ~MayAsk(cur.n)
  BY <1>1, <1>3 DEF MayAsk, LoopInv, InOrder, Types
<1>5. pc' \in {"released", "ran"}
  BY DEF TakeAnswer
<1>6. \A n \in Nat : MayAsk(n)' => MayAsk(n)
  BY <1>1, <1>5 DEF MayAsk
<1>7. \A n : AllowWon(n) => AllowWon(n)'
  BY <1>1 DEF AllowWon
<1>8. CASE card.answer = "allow" /\ pc' = "released" /\ obeyed' = obeyed \cup {card.n}
  <2>1. AllowWon(card.n)
    BY <1>1, <1>8 DEF CardInv
  <2>2. \A n \in obeyed' : AllowWon(n)' /\ ~MayAsk(n)'
    BY <1>2, <1>4, <1>6, <1>7, <1>8, <2>1 DEF CardInv
  <2>3. \A d \in Deciders : decider[d].rec = "Denied" => decider[d].card \notin obeyed'
    BY <1>1, <1>8 DEF CardInv, RequestInv
  <2>4. \A d \in Deciders : RequestInv(decider[d])'
    BY <1>1, <1>2, <1>6, <1>8, <2>3, RequestsStand DEF CardInv
  <2>5. QED
    BY <1>1, <1>2, <1>8, <2>2, <2>4 DEF CardInv
<1>9. CASE card.answer = "deny" /\ pc' = "ran" /\ UNCHANGED obeyed
  <2>1. \A d \in Deciders : decider[d].rec = "Denied" => decider[d].card \notin obeyed
    BY DEF CardInv, RequestInv
  <2>2. \A d \in Deciders : RequestInv(decider[d])'
    BY <1>1, <1>2, <1>6, <1>9, <2>1, RequestsStand DEF CardInv
  <2>3. \A n \in obeyed' : AllowWon(n)' /\ ~MayAsk(n)'
    BY <1>6, <1>7, <1>9 DEF CardInv
  <2>4. QED
    BY <1>1, <1>9, <2>2, <2>3 DEF CardInv
<1>10. QED
  BY <1>8, <1>9 DEF TakeAnswer

LEMMA CardLapsesKeeps ==
  ASSUME CardInv, CardLapses
  PROVE  CardInv'
<1>1. /\ pc = "asked" /\ card # None /\ card.answer = None /\ card' = None /\ pc' = "ran"
      /\ UNCHANGED <<todo, issued, cur, obeyed, decider>>
  BY DEF CardLapses, CardInv, Settle
<1>2. \A n : card # [n |-> n, answer |-> "allow"]
  BY <1>1, CardTyped, NoneIsNoAnswer
<1>3. \A n \in Nat : MayAsk(n)' => MayAsk(n)
  BY <1>1 DEF MayAsk
<1>4. \A d \in Deciders : decider[d].rec = "Denied" => decider[d].card \notin obeyed
  BY DEF CardInv, RequestInv
<1>5. \A d \in Deciders : RequestInv(decider[d])'
  BY <1>1, <1>2, <1>3, <1>4, RequestsStand DEF CardInv
<1>6. \A n \in obeyed' : AllowWon(n)' /\ ~MayAsk(n)'
  BY <1>1, <1>3 DEF CardInv, AllowWon
<1>7. QED
  BY <1>1, <1>5, <1>6 DEF CardInv

\* A request looks at the card that waits and writes an allow ahead.
LEMMA LookKeeps ==
  ASSUME LoopInv, CardInv, NEW e \in Deciders, NEW allow \in BOOLEAN, LookAndRecord(e, allow)
  PROVE  CardInv'
<1> DEFINE r == [pc |-> "decide", card |-> card.n, allow |-> allow, rec |-> IF allow THEN "Approved" ELSE None]
<1>1. /\ decider[e].pc = "new" /\ card # None /\ card.answer = None
      /\ decider' = [decider EXCEPT ![e] = r]
      /\ UNCHANGED <<pc, todo, issued, cur, card, obeyed>>
  BY DEF LookAndRecord
<1>2. card.n = cur.n /\ card.n \in Nat /\ pc = "asked"
  BY <1>1, CardTyped DEF CardInv
<1>3. ~MayAsk(cur.n)
  BY <1>2 DEF MayAsk, LoopInv, Placed, InHand, InOrder, Types
<1>4. r \in Request
  BY <1>2 DEF Request
<1>5. decider' \in [Deciders -> Request] /\ decider'[e] = r /\ \A d \in Deciders : d # e => decider'[d] = decider[d]
  BY <1>1, <1>4 DEF CardInv
<1>6. decider[e].rec = None
  BY <1>1 DEF CardInv, RequestInv
<1>7. \A n : MayAsk(n)' <=> MayAsk(n)
  BY <1>1 DEF MayAsk
<1>8. \A n : AllowWon(n) => AllowWon(n)'
  BY <1>5, <1>6, NoneIsNoAnswer DEF AllowWon
<1>9. ASSUME NEW d \in Deciders
      PROVE  RequestInv(decider[d])'
  <2>1. CASE d = e
    BY <1>1, <1>2, <1>3, <1>5, <1>7, <2>1, NoneIsNoAnswer DEF RequestInv
  <2>2. CASE d # e
    BY <1>1, <1>5, <1>7, <2>2 DEF RequestInv, CardInv
  <2>3. QED
    BY <2>1, <2>2
<1>10. QED
  BY <1>1, <1>5, <1>7, <1>8, <1>9 DEF CardInv

\* A request decides: the first one wins.
LEMMA DecideKeeps ==
  ASSUME CardInv, NEW e \in Deciders, Decide(e)
  PROVE  CardInv'
<1>1. /\ decider[e] \in Request /\ decider[e].pc = "decide"
      /\ decider[e].rec = IF decider[e].allow THEN "Approved" ELSE None
      /\ ~MayAsk(decider[e].card) /\ UNCHANGED <<pc, todo, issued, cur, obeyed>>
  BY DEF Decide, CardInv, RequestInv
<1>2. \A n : MayAsk(n)' <=> MayAsk(n)
  BY <1>1 DEF MayAsk
<1>3. CASE Waits(decider[e].card)
  <2>1. /\ card # None /\ card.n = decider[e].card /\ card.answer = None /\ card \in Cards
        /\ card' = [card EXCEPT !.answer = IF decider[e].allow THEN "allow" ELSE "deny"]
        /\ decider' = [decider EXCEPT ![e].pc = "done", ![e].rec = IF @ = None THEN "Denied" ELSE "Completed"]
    BY <1>3, CardTyped DEF Decide, Waits
  <2>2. /\ card' \in Cards /\ card' # None /\ card'.n = card.n
        /\ card'.answer = IF decider[e].allow THEN "allow" ELSE "deny"
    BY <2>1, RecordAssumption DEF Cards
  <2>3. /\ decider' \in [Deciders -> Request]
        /\ \A d \in Deciders : d # e => decider'[d] = decider[d]
        /\ decider'[e].pc = "done" /\ decider'[e].card = card.n
        /\ decider'[e].rec = IF decider[e].allow THEN "Completed" ELSE "Denied"
    <3>1. \A d \in Deciders : decider[d] \in Request
      BY DEF CardInv
    <3>2. [decider[e] EXCEPT !.pc = "done", !.rec = IF @ = None THEN "Denied" ELSE "Completed"] \in Request
      BY <1>1 DEF Request
    <3>3. QED
      BY <1>1, <2>1, <3>1, <3>2, NoneIsNoAnswer DEF CardInv, Request
  <2>4. \A n : AllowWon(n) => AllowWon(n)'
    BY <1>1, <2>3, NoneIsNoAnswer DEF AllowWon
  <2>5. card'.answer = "allow" => AllowWon(card.n)'
    BY <2>2, <2>3 DEF AllowWon
  <2>6. card.n \notin obeyed /\ (card' = [n |-> card.n, answer |-> "allow"] <=> card'.answer = "allow")
    BY <2>1, <2>2 DEF CardInv, Cards
  <2>7. \A n : card # [n |-> n, answer |-> "allow"]
    BY <2>1, CardTyped, NoneIsNoAnswer
  <2>8. ASSUME NEW d \in Deciders
        PROVE  RequestInv(decider[d])'
    <3>1. CASE d = e
      BY <1>1, <1>2, <2>1, <2>2, <2>3, <2>6, <3>1, NoneIsNoAnswer DEF RequestInv
    <3>2. CASE d # e
      <4>1. RequestInv(decider[d]) /\ decider'[d] = decider[d]
        BY <2>3, <3>2 DEF CardInv
      <4>2. decider[d].rec = "Denied" => decider[d].card # card.n
        BY <2>1, <4>1, NoneIsNoAnswer DEF RequestInv
      <4>3. QED
        BY <1>1, <1>2, <2>2, <2>7, <4>1, <4>2 DEF RequestInv
    <3>3. QED
      BY <3>1, <3>2
  <2>9. QED
    BY <1>1, <1>2, <2>1, <2>2, <2>3, <2>4, <2>5, <2>8 DEF CardInv
<1>4. CASE ~Waits(decider[e].card)
  <2>1. /\ UNCHANGED card
        /\ decider' = [decider EXCEPT ![e].pc = "done", ![e].rec = IF @ = None THEN None ELSE "Failed"]
    BY <1>4 DEF Decide
  <2>2. /\ decider' \in [Deciders -> Request]
        /\ \A d \in Deciders : d # e => decider'[d] = decider[d]
        /\ decider'[e].pc = "done" /\ decider'[e].card = decider[e].card
        /\ decider'[e].rec \in {None, "Failed"}
    <3>1. \A d \in Deciders : decider[d] \in Request
      BY DEF CardInv
    <3>2. [decider[e] EXCEPT !.pc = "done", !.rec = IF @ = None THEN None ELSE "Failed"] \in Request
      BY <1>1 DEF Request
    <3>3. QED
      BY <1>1, <2>1, <3>1, <3>2, NoneIsNoAnswer DEF CardInv, Request
  <2>3. \A n : AllowWon(n) => AllowWon(n)'
    BY <1>1, <2>2, NoneIsNoAnswer DEF AllowWon
  <2>4. ASSUME NEW d \in Deciders
        PROVE  RequestInv(decider[d])'
    <3>1. CASE d = e
      BY <1>1, <1>2, <2>1, <2>2, <3>1, NoneIsNoAnswer DEF RequestInv
    <3>2. CASE d # e
      BY <1>1, <1>2, <2>1, <2>2, <3>2 DEF CardInv, RequestInv
    <3>3. QED
      BY <3>1, <3>2
  <2>5. QED
    BY <1>1, <1>2, <2>1, <2>2, <2>3, <2>4 DEF CardInv
<1>5. QED
  BY <1>3, <1>4

LEMMA CardNext ==
  ASSUME SessionInv, [Next]_vars
  PROVE  CardInv'
<1>1. CardInv /\ LoopInv
  BY DEF SessionInv
<1>2. CASE RestSteps \/ ModelCalls \/ NextCall \/ Finish
  <2>1. Between
    BY <1>1, <1>2, BetweenSteps
  <2>2. card = None /\ pc' # "asked" /\ pc' # "released"
    BY <1>1, <2>1 DEF CardInv, Between, AtRest
  <2>3. QED
    BY <1>1, <2>1, <2>2, NothingAsked DEF Between
<1>3. CASE Announce \/ TakeMail \/ GiveUp \/ Leave \/ RunReleased
           \/ ((RunFileTool \/ RunShell) /\ ~ShowCard)
  <2>1. /\ pc \in {"announce", "parked", "leave", "released", "host"} /\ pc' \in {"parked", "leave", "ran"}
        /\ UNCHANGED <<todo, issued, cur, cardVars, decider>>
    BY <1>3 DEF Announce, TakeMail, GiveUp, Leave, RunReleased, RunFileTool, RunShell, Execute, Settle
  <2>2. \A n \in Nat : MayAsk(n)' => MayAsk(n)
    BY <2>1 DEF MayAsk
  <2>3. QED
    BY <1>1, <2>1, <2>2, NothingAsked DEF CardInv
<1>4. CASE (RunFileTool \/ RunShell) /\ ShowCard
  BY <1>1, <1>4, ShowCardKeeps DEF RunFileTool, RunShell
<1>5. CASE TakeAnswer \/ CardLapses
  BY <1>1, <1>5, TakeAnswerKeeps, CardLapsesKeeps
<1>6. CASE \E d \in Deciders : Decision(d)
  BY <1>1, <1>6, LookKeeps, DecideKeeps DEF Decision
<1>7. CASE (\E c \in heard, o \in Posted : Post(c, o)) \/ LookAtTaint \/ ClearTaint \/ Stop \/ UNCHANGED vars
  <2>1. UNCHANGED <<loopVars, cardVars, decider>>
    BY <1>7 DEF Post, LookAtTaint, ClearTaint, Stop, vars
  <2>2. QED
    BY <1>1, <2>1 DEF CardInv, RequestInv, MayAsk, AllowWon
<1>8. QED
  BY <1>2, <1>3, <1>4, <1>5, <1>6, <1>7 DEF Next, TurnThread, RestSteps

-----------------------------------------------------------------------------
(* The transcript                                                              *)

RestIsQuiet == LoopInv /\ pc \in AtRest => Waiting = {}

LEMMA RestWaitsForNothing == RestIsQuiet
BY NoCallTyped, EmptySeq DEF RestIsQuiet, LoopInv, Placed, Types, Waiting

LEMMA RestWaitsForNothingNext == RestIsQuiet'
BY RestWaitsForNothing, PTL

\* A message that calls nothing leaves no call to wait.
LEMMA QuietMessageIsSound ==
  ASSUME NEW h, NEW m, NEW g, Extended(h, m, g), NEW top \in Nat, NEW cut, Sound(h, {}, top, cut),
         m.role \in {"user", "assistant"}, m.calls = {}
  PROVE  Sound(g, {}, top, cut)
<1>1. m.calls \subseteq top+1..top /\ top <= top
  OBVIOUS
<1>2. Sound(g, m.calls, top, cut)
  BY <1>1, MessageIsSound
<1>3. QED
  BY <1>2

\* The transcript stands and no call begins or ends to wait.
LEMMA HistoryStands ==
  ASSUME LoopInv, HistoryInv, UNCHANGED <<history, issued>>, Waiting' = Waiting,
         stopped /\ pc # "model" => stopped' /\ pc' # "model",
         pc \in {"idle", "attempt"} => pc' \in {"idle", "attempt"}
  PROVE  HistoryInv'
<1>1. Sound(history, Waiting, issued, stopped' /\ pc' # "model")
  BY MoreMayWait DEF HistoryInv
<1>2. QED
  BY <1>1 DEF HistoryInv

\* The user or the model says something that calls nothing.
LEMMA HistoryGrows ==
  ASSUME LoopInv, HistoryInv, pc \in AtRest, pc' \in AtRest, LoopInv', UNCHANGED issued,
         NEW m \in Message, m.role \in {"user", "assistant"}, m.calls = {}, history' = Append(history, m),
         m.role = "user" \/ pc \notin {"idle", "attempt"},
         stopped /\ pc # "model" => stopped' /\ pc' # "model"
  PROVE  HistoryInv'
<1>1. /\ Waiting = {} /\ Waiting' = {} /\ history \in Seq(Message) /\ issued \in Nat
  BY RestWaitsForNothing, RestWaitsForNothingNext DEF RestIsQuiet, LoopInv, Types
<1>2. Extended(history, m, history')
  BY <1>1, AppendExtends
<1>3. Sound(history, {}, issued, stopped' /\ pc' # "model")
  BY <1>1, MoreMayWait DEF HistoryInv
<1>4. Sound(history', {}, issued, stopped' /\ pc' # "model")
  BY <1>1, <1>2, <1>3, QuietMessageIsSound
<1>5. HasUser(history')
  BY <1>2, UserComesLast DEF HistoryInv
<1>6. QED
  BY <1>1, <1>4, <1>5 DEF HistoryInv

LEMMA HistoryNext ==
  ASSUME SessionInv, [Next]_vars
  PROVE  HistoryInv'
<1>1. /\ HistoryInv /\ LoopInv /\ LoopInv' /\ history \in Seq(Message) /\ issued \in Nat
      /\ stopped \in BOOLEAN /\ (pc \in AtRest => Waiting = {}) /\ (pc' \in AtRest => Waiting' = {})
  BY LoopNext, RestWaitsForNothing, RestWaitsForNothingNext DEF SessionInv, RestIsQuiet, LoopInv, Types
<1>2. CASE Send
  BY <1>1, <1>2, MessageTyped, HistoryGrows DEF Send, AtRest
<1>3. CASE SendToGuard
  <2>1. pc = "idle" /\ history' = history \o <<User, Said(<<>>)>> /\ UNCHANGED <<pc, todo, cur, issued, stopped>>
    BY <1>3 DEF SendToGuard
  <2>2. PICK g : g = Append(history, User)
    OBVIOUS
  <2>3. g \in Seq(Message) /\ Extended(history, User, g)
    BY <1>1, <2>2, MessageTyped, AppendExtends
  <2>4. Extended(g, Said(<<>>), history')
    <3>1. <<User, Said(<<>>)>> \in Seq(Message) /\ Len(<<User, Said(<<>>)>>) = 2
      BY MessageTyped
    <3>2. /\ Len(history') = Len(history) + 2
          /\ \A i \in 1..Len(history)+2 :
               history'[i] = IF i <= Len(history) THEN history[i] ELSE <<User, Said(<<>>)>>[i - Len(history)]
      BY <1>1, <2>1, <3>1, ConcatProperties
    <3>3. Len(history) \in Nat /\ Len(g) = Len(history) + 1 /\ g[Len(history) + 1] = User
          /\ \A i \in 1..Len(history) : g[i] = history[i]
      BY <2>3 DEF Extended
    <3>4. history'[Len(history) + 1] = User /\ history'[Len(history) + 2] = Said(<<>>)
      BY <3>2, <3>3
    <3>5. \A i \in 1..Len(g) : history'[i] = g[i]
      BY <3>2, <3>3, <3>4
    <3>6. QED
      BY <3>2, <3>3, <3>4, <3>5 DEF Extended
  <2>5. Waiting = {} /\ Waiting' = {} /\ Sound(history, {}, issued, stopped /\ pc # "model")
    BY <1>1, <2>1 DEF HistoryInv, AtRest
  <2>6. Sound(g, {}, issued, stopped /\ pc # "model")
    BY <1>1, <2>3, <2>5, MessageTyped, QuietMessageIsSound
  <2>7. Sound(history', {}, issued, stopped /\ pc # "model")
    BY <1>1, <2>4, <2>6, MessageTyped, QuietMessageIsSound
  <2>8. QED
    BY <2>1, <2>5, <2>7 DEF HistoryInv
<1>4. CASE RunWorkflow
  BY <1>1, <1>4, HistoryStands DEF RunWorkflow, AtRest
<1>5. CASE Attempt
  <2>1. CASE UNCHANGED history /\ pc' = "idle"
    BY <1>1, <1>5, <2>1, HistoryStands DEF Attempt, AtRest
  <2>2. CASE history' = Append(history, User) /\ pc' = "step"
    BY <1>1, <1>5, <2>2, MessageTyped, HistoryGrows DEF Attempt, AtRest
  <2>3. QED
    BY <1>5, <2>1, <2>2 DEF Attempt, EndWorkflow
<1>6. CASE Judge
  BY <1>1, <1>6, HistoryStands DEF Judge, EndWorkflow, AtRest
<1>7. CASE StepTop \/ ModelFails
  <2>1. /\ pc \in {"step", "model"} /\ pc' \in {"idle", "judge", "attempt", "model"}
        /\ UNCHANGED <<history, issued, stopped>>
        /\ pc' = "model" => ~stopped
    BY <1>1, <1>7, EndTurnRests DEF StepTop, ModelFails
  <2>2. QED
    BY <1>1, <2>1, HistoryStands DEF AtRest
<1>8. CASE ModelAnswers
  <2>1. /\ pc = "model" /\ pc' \in {"idle", "judge", "attempt"} /\ UNCHANGED <<issued, stopped>>
        /\ history' = Append(history, Said(<<>>))
    BY <1>1, <1>8, EndTurnRests DEF ModelAnswers
  <2>2. QED
    BY <1>1, <2>1, MessageTyped, HistoryGrows DEF AtRest
<1>9. CASE ModelCalls
  <2>1. /\ pc = "model" /\ pc' = "call" /\ history' = Append(history, Said(todo')) /\ UNCHANGED <<cur, stopped>>
    BY <1>1, <1>9, ModelCallsIssues
  <2>2. PICK k \in Nat : ReplyOf(k, todo')
    BY <1>1, <1>9, ModelCallsIssues
  <2>3. /\ Said(todo') \in Message /\ Said(todo').role = "assistant"
        /\ Said(todo').calls = {todo'[i].n : i \in 1..Len(todo')}
    BY <2>2, SaidTyped DEF ReplyOf
  <2>4. Said(todo').calls \subseteq issued+1..issued' /\ issued' \in Nat /\ issued <= issued'
    BY <1>1, <2>2, <2>3 DEF ReplyOf
  <2>5. Waiting' = Said(todo').calls
    BY <1>1, <2>1, <2>3, NoCallTyped DEF Waiting, LoopInv, Placed, AtRest
  <2>6. Extended(history, Said(todo'), history')
    BY <1>1, <2>1, <2>3, AppendExtends
  <2>7. Sound(history, {}, issued, stopped' /\ pc' # "model")
    BY <1>1, <2>1, MoreMayWait DEF HistoryInv, AtRest
  <2>8. Sound(history', Waiting', issued', stopped' /\ pc' # "model")
    BY <1>1, <2>3, <2>4, <2>5, <2>6, <2>7, MessageIsSound
  <2>9. HasUser(history')
    <3>1. HasUser(history)
      BY <1>1, <2>1 DEF HistoryInv
    <3>2. QED
      BY <2>3, <2>6, <3>1, UserComesLast
  <2>10. QED
    BY <2>8, <2>9 DEF HistoryInv
<1>10. CASE NextCall
  <2>1. pc = "call" /\ UNCHANGED <<history, issued, stopped>>
    BY <1>10 DEF NextCall
  <2>2. CASE todo = <<>> /\ pc' = "step" /\ UNCHANGED <<todo, cur>>
    BY <1>1, <2>1, <2>2, HistoryStands DEF Waiting
  <2>3. CASE stopped /\ EndTurn("stopped")
    <3>1. pc' \in {"idle", "judge", "attempt"} /\ Waiting' = {}
      BY <1>1, <2>1, <2>3, EndTurnRests DEF AtRest
    <3>2. Sound(history, {}, issued, TRUE) /\ HasUser(history)
      BY <1>1, <2>1, Cut DEF HistoryInv
    <3>3. Sound(history, {}, issued, stopped' /\ pc' # "model")
      BY <2>1, <2>3, <3>1, <3>2, MoreMayWait
    <3>4. QED
      BY <2>1, <3>1, <3>2, <3>3 DEF HistoryInv
  <2>4. CASE \E to \in {"refused", "announce", "host"} :
               TakesOne(to) /\ outcome' \in {"error", "denied", None} /\ (to = "refused" => outcome' # None)
    <3>1. outcome' \in Outcomes \cup {None}
      BY <2>4 DEF Outcomes, Posted
    <3>2. Waiting' = Waiting /\ pc' \in {"refused", "announce", "host"}
      BY <1>1, <2>4, <3>1, TakesOneLoop DEF TakesOne
    <3>3. QED
      BY <1>1, <2>1, <3>2, HistoryStands
  <2>5. QED
    BY <1>1, <1>10, <2>2, <2>3, <2>4, NextCallTakes, NoneIsNoOutcome
<1>11. CASE Finish
  <2>1. /\ pc \in {"ran", "refused"} /\ pc' = "call" /\ history' = Append(history, Result(cur, outcome))
        /\ UNCHANGED <<issued, stopped>>
    BY <1>11 DEF Finish
  <2>2. /\ Result(cur, outcome) \in Message /\ Result(cur, outcome).role = "tool"
        /\ Result(cur, outcome).calls = {cur.n}
        /\ cur.n \in Nat /\ Waiting' = Waiting \ {cur.n} /\ cur.n \in Waiting
    BY <1>1, <1>11, FinishLoop
  <2>3. Extended(history, Result(cur, outcome), history')
    BY <1>1, <2>1, <2>2, AppendExtends
  <2>4. Sound(history, Waiting, issued, stopped' /\ pc' # "model")
    BY <1>1, <2>1, MoreMayWait DEF HistoryInv
  <2>5. Sound(history', Waiting', issued, stopped' /\ pc' # "model")
    BY <1>1, <2>2, <2>3, <2>4, ResultIsSound
  <2>6. HasUser(history')
    <3>1. HasUser(history)
      BY <1>1, <2>1 DEF HistoryInv
    <3>2. QED
      BY <2>2, <2>3, <3>1, UserComesLast
  <2>7. QED
    BY <2>1, <2>5, <2>6 DEF HistoryInv
<1>12. CASE Announce \/ TakeMail \/ GiveUp \/ Leave \/ RunFileTool \/ RunShell \/ TakeAnswer
             \/ CardLapses \/ RunReleased
  <2>1. HandStep
    BY <1>12, HandSteps
  <2>2. QED
    BY <1>1, <2>1, HistoryStands DEF HandStep, InHand, Waiting
<1>13. CASE \/ \E c \in heard, o \in Posted : Post(c, o)
            \/ \E d \in Deciders : Decision(d)
            \/ LookAtTaint \/ ClearTaint \/ Stop \/ UNCHANGED vars
  <2>1. Outside
    BY <1>13, OutsideSteps
  <2>2. QED
    BY <1>1, <2>1, HistoryStands DEF Outside, Waiting
<1>14. QED
  BY <1>2, <1>3, <1>4, <1>5, <1>6, <1>7, <1>8, <1>9, <1>10, <1>11, <1>12, <1>13 DEF Next, TurnThread

-----------------------------------------------------------------------------
(* The invariant holds                                                         *)

LEMMA InvInit ==
  ASSUME Init
  PROVE  SessionInv
<1> USE DEF Init
<1>1. Len(history) = 0 /\ Len(todo) = 0 /\ history \in Seq(Message) /\ todo \in Seq(ModelCall)
  BY EmptySeq
<1>2. cur = NoCall /\ cur.n = 0
  BY NoCallTyped
<1>3. Types
  <2>1. issued \in 0..MaxCalls
    BY BoundAssumption
  <2>2. cur \in [n : Nat, id : Nat, tool : Names \cup {None}, hic : BOOLEAN]
    BY NoCallTyped
  <2>3. sources \subseteq Names \cup {"unattended"}
    BY DEF Init
  <2>4. QED
    BY <1>1, <2>1, <2>2, <2>3 DEF Types, Places
<1>4. LoopInv
  <2>1. InOrder
    BY <1>1 DEF InOrder
  <2>2. Placed
    BY <1>2, RecordAssumption DEF Placed, AtRest, InHand
  <2>3. QED
    BY <1>3, <2>1, <2>2 DEF LoopInv
<1>5. TaintInv /\ GoalInv /\ CoreInv
  BY DEF TaintInv, GoalInv, CoreInv
<1>6. CardInv
  <2>1. Fresh \in Request /\ Fresh.pc = "new" /\ Fresh.rec = None
    BY DEF Fresh, Request
  <2>2. QED
    BY <2>1, NoneIsNoAnswer DEF CardInv, RequestInv
<1>7. HistoryInv
  <2>1. Waiting = {}
    BY <1>1, <1>2 DEF Waiting
  <2>2. Sound(history, {}, issued, stopped /\ pc # "model")
    BY <1>1 DEF Sound
  <2>3. QED
    BY <2>1, <2>2 DEF HistoryInv
<1>8. QED
  BY <1>4, <1>5, <1>6, <1>7 DEF SessionInv

\* The inductive invariant of the session.
THEOREM SessionInvariant == Spec => []SessionInv
<1>1. SessionInv /\ [Next]_vars => SessionInv'
  BY LoopNext, TaintNext, CoreNext, CardNext, GoalNext, HistoryNext DEF SessionInv
<1>2. QED
  BY InvInit, <1>1, PTL DEF Spec

-----------------------------------------------------------------------------
(* Results                                                                     *)

\* The types declared in the specification hold of every state.
THEOREM TypeCorrect == Spec => []TypeOK
<1>1. ASSUME SessionInv
      PROVE  TypeOK
  <2>1. Types /\ InOrder /\ Placed /\ CoreInv /\ CardInv /\ HistoryInv
    BY <1>1 DEF SessionInv, LoopInv
  <2>2. /\ hicAware \in BOOLEAN /\ stopped \in BOOLEAN /\ exposed \in BOOLEAN
        /\ step \in Nat /\ issued \in Nat /\ tasks \in Nat
        /\ sources \subseteq Names \cup {"unattended"}
        /\ outcome \in Outcomes \cup {None} /\ pc \in Places
    BY <2>1 DEF Types
  <2>3. cur.n \in 0..issued
    <3>1. pc \in AtRest \cup {"call"} \cup InHand
      BY <2>2 DEF Places, AtRest, InHand
    <3>2. CASE pc \in AtRest \cup {"call"}
      BY <2>1, <2>2, <3>2, NoCallTyped DEF Placed
    <3>3. CASE pc \in InHand
      BY <2>1, <2>2, <3>3 DEF Placed
    <3>4. QED
      BY <3>1, <3>2, <3>3
  <2>4. \A i \in DOMAIN todo : todo[i].n \in cur.n + 1..issued
    <3>1. DOMAIN todo = 1..Len(todo)
      BY <2>1, LenProperties DEF Types
    <3>2. QED
      BY <2>1, <3>1 DEF InOrder
  <2>5. \A i \in DOMAIN history : history[i].calls \subseteq 1..issued
    <3>1. DOMAIN history = 1..Len(history)
      BY <2>1, LenProperties DEF Types
    <3>2. QED
      BY <2>1, <3>1 DEF HistoryInv, Sound
  <2>6. goal # None => goal.step \in DOMAIN Goals /\ goal.attempt \in 1..MaxAttempts + 1
    <3>1. DOMAIN Goals = 1..Len(Goals)
      BY GoalsAssumption, LenProperties
    <3>2. QED
      BY <2>1, <3>1 DEF Types, Target
  <2>7. Cardinality(pending) <= 1
    <3>1. pending = {} \/ pending = {Handed}
      BY <2>1 DEF CoreInv
    <3>2. QED
      BY <3>1, FS_EmptySet, FS_Singleton
  <2>8. pc = "asked" <=> card # None
    BY <2>1 DEF CardInv
  <2>9. QED
    BY <2>2, <2>3, <2>4, <2>5, <2>6, <2>7, <2>8 DEF TypeOK, Places
<1>2. QED
  BY <1>1, SessionInvariant, PTL

\* HUP-S2.7 (run_turn_with, TaintState): after untrusted content that nobody has
\* cleared, a call with an effect is handed to core only with the word to ask,
\* and to a tool of the sidecar only by an allow on its own card.
THEOREM EffectsAreApproved == Spec => NoUnapprovedEffect
<1>1. ASSUME SessionInv, [Next]_vars, HandsOver, cur.tool \in Effectful, exposed
      PROVE  \/ pc = "announce" /\ cur.hic
             \/ pc = "released" /\ cur.n \in obeyed
  <2>1. TaintInv /\ CardInv
    BY <1>1 DEF SessionInv
  <2>2. CASE pc = "announce"
    BY <1>1, <2>1, <2>2 DEF TaintInv
  <2>3. CASE pc = "released"
    BY <2>1, <2>3 DEF CardInv
  <2>4. CASE pc = "host" /\ pc' = "ran" /\ outcome' \notin {"denied", "refusal"}
    <3>1. cur.hic
      BY <1>1, <2>1, <2>4 DEF TaintInv
    <3>2. ~TurnThread
      BY <2>4, <3>1 DEF TurnThread, Attempt, Judge, StepTop, ModelFails, ModelAnswers, ModelCalls, NextCall,
         Finish, Announce, TakeMail, GiveUp, Leave, RunFileTool, RunShell, TakeAnswer, CardLapses, RunReleased,
         ShowCard, Execute, Settle
    <3>3. ~Outside /\ ~RestSteps
      BY <2>4 DEF Outside, RestSteps, Send, SendToGuard, RunWorkflow, Attempt, Judge, StepTop, ModelFails,
         ModelAnswers
    <3>4. QED
      BY <1>1, <3>2, <3>3, OutsideSteps DEF Next, RestSteps
  <2>5. QED
    BY <1>1, <2>2, <2>3, <2>4 DEF HandsOver
<1>2. SessionInv /\ [Next]_vars =>
        [HandsOver /\ cur.tool \in Effectful /\ exposed =>
           \/ pc = "announce" /\ cur.hic
           \/ pc = "released" /\ cur.n \in obeyed]_vars
  BY <1>1
<1>3. QED
  BY <1>2, SessionInvariant, PTL DEF Spec, NoUnapprovedEffect

\* compact_to_budget: whatever is dropped of the oldest messages, and whatever was
\* refused, declined, given up or stopped, the model is asked a whole conversation.
THEOREM ModelSeesWholeRequests == Spec => []RequestsAreWhole
<1>1. ASSUME SessionInv, pc = "model"
      PROVE  \A r \in Requests(history) : Whole(r)
  <2>1. LoopInv /\ HistoryInv
    BY <1>1 DEF SessionInv
  <2>2. Waiting = {} /\ history \in Seq(Message)
    BY <1>1, <2>1, RestWaitsForNothing DEF RestIsQuiet, LoopInv, Types, AtRest
  <2>3. Sound(history, {}, issued, FALSE) /\ HasUser(history)
    BY <1>1, <2>1, <2>2, MoreMayWait DEF HistoryInv
  <2>4. QED
    BY <2>2, <2>3, SoundIsWhole
<1>2. SessionInv => RequestsAreWhole
  BY <1>1 DEF RequestsAreWhole
<1>3. QED
  BY <1>2, SessionInvariant, PTL

\* CoreHost::execute, when the provider names each call: a result posted at once
\* finds its call registered, and a call is never given the result of another.
THEOREM AnswersFindTheirCall ==
  ASSUME OwnIds
  PROVE  Spec => []AnswerIsItsOwn
<1>1. SessionInv => AnswerIsItsOwn
  BY DEF SessionInv, CoreInv, Handed, AnswerIsItsOwn
<1>2. QED
  BY <1>1, SessionInvariant, PTL

\* ActionApprovals::decide and action_decide: a card releases its call only for an
\* allow recorded ahead, and every record tells what became of its decision.
THEOREM DecisionsAreKept == Spec => []DecisionsHold
<1>1. ASSUME SessionInv
      PROVE  DecisionsHold
  <2>1. CardInv
    BY <1>1 DEF SessionInv
  <2>2. \A n \in obeyed : \E d \in Deciders : decider[d].card = n /\ decider[d].rec = "Completed"
    BY <2>1 DEF CardInv, AllowWon
  <2>3. ASSUME NEW d \in Deciders
        PROVE  /\ decider[d].rec = "Completed" =>
                    decider[d].card \in obeyed \/ card = [n |-> decider[d].card, answer |-> "allow"]
               /\ decider[d].rec = "Denied" => decider[d].card \notin obeyed
               /\ decider[d].rec = "Failed" /\ decider[d].card \in obeyed =>
                    \E e \in Deciders \ {d} : decider[e].card = decider[d].card
                                              /\ decider[e].rec \in {"Approved", "Completed"}
    <3>1. RequestInv(decider[d])
      BY <2>1 DEF CardInv
    <3>2. CASE decider[d].rec = "Failed" /\ decider[d].card \in obeyed
      <4>1. PICK e \in Deciders : decider[e].card = decider[d].card /\ decider[e].rec = "Completed"
        BY <2>2, <3>2
      <4>2. e # d
        BY <3>2, <4>1
      <4>3. QED
        BY <3>2, <4>1, <4>2
    <3>3. QED
      BY <3>1, <3>2 DEF RequestInv
  <2>4. QED
    BY <2>2, <2>3 DEF DecisionsHold
<1>2. QED
  BY <1>1, SessionInvariant, PTL

\* HUP-S1.3 (run_workflow_reviewed, records_since): a workflow succeeds only on a
\* result of the attempt that is judged, from the tool its last step wants.
THEOREM SuccessNeedsEvidence == Spec => SuccessIsEarned
<1>1. ASSUME SessionInv, [Next]_vars, verdict' = "succeeded", verdict # "succeeded"
      PROVE  \E i \in DOMAIN history :
               /\ history[i].role = "tool" /\ Goals[Len(Goals)] \in history[i].did
               /\ \A j \in i..Len(history) : history[j].role # "user"
  <2>1. LoopInv /\ GoalInv
    BY <1>1 DEF SessionInv
  <2>2. Judge /\ Passes(Goals[goal.step]) /\ goal.step = Len(Goals)
    <3>1. ~Outside /\ ~Send /\ ~SendToGuard /\ ~RunWorkflow /\ ~ModelCalls
      BY <1>1 DEF Outside, Send, SendToGuard, RunWorkflow, ModelCalls
    <3>2. ~Attempt /\ ~StepTop /\ ~ModelFails /\ ~ModelAnswers /\ ~NextCall /\ ~Finish
      BY <1>1 DEF Attempt, StepTop, ModelFails, ModelAnswers, NextCall, Finish, EndTurn, EndWorkflow
    <3>3. ~HandStep
      BY <1>1 DEF HandStep
    <3>4. Judge
      BY <1>1, <3>1, <3>2, <3>3, OutsideSteps, HandSteps DEF Next, TurnThread
    <3>5. QED
      BY <1>1, <3>4 DEF Judge, EndWorkflow
  <2>3. PICK i \in {j \in goal.start + 1..Len(history) : history[j].role = "tool"} :
          Goals[Len(Goals)] \in history[i].did
    BY <2>2 DEF Passes, Evidence
  <2>4. pc = "judge" /\ goal \in Target /\ goal # None /\ goal.start \in Nat
    BY <2>1, <2>2, RecordAssumption DEF Judge, LoopInv, Placed, Target
  <2>5. /\ goal.start + 1 \in 1..Len(history) /\ history[goal.start + 1].role = "user"
        /\ \A j \in goal.start + 2..Len(history) : history[j].role # "user"
    BY <2>1, <2>4 DEF GoalInv
  <2>6. DOMAIN history = 1..Len(history) /\ Len(history) \in Nat
    BY <2>1, LenProperties DEF LoopInv, Types
  <2>7. i # goal.start + 1
    BY <2>3, <2>5
  <2>8. i \in goal.start + 2..Len(history)
    BY <2>3, <2>4, <2>6, <2>7
  <2>9. i \in DOMAIN history /\ \A j \in i..Len(history) : history[j].role # "user"
    BY <2>4, <2>5, <2>6, <2>8
  <2>10. QED
    BY <2>3, <2>9
<1>2. SessionInv /\ [Next]_vars =>
        [verdict' = "succeeded" /\ verdict # "succeeded" =>
           \E i \in DOMAIN history :
             /\ history[i].role = "tool" /\ Goals[Len(Goals)] \in history[i].did
             /\ \A j \in i..Len(history) : history[j].role # "user"]_vars
  BY <1>1
<1>3. QED
  BY <1>2, SessionInvariant, PTL DEF Spec, SuccessIsEarned

=============================================================================
