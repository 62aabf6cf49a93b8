------------------------ MODULE TranscriptionProofs ------------------------
(***************************************************************************)
(* Proofs about Transcription, for every number of worker generations,     *)
(* utterances, segments and places in the final queue.                     *)
(*                                                                         *)
(* An utterance is closed when its final segment leaves the transcription  *)
(* queue.  From then on there is exactly one token of its end: the job the *)
(* transcription thread holds, a job in the final queue, the job of the    *)
(* final-pass thread, a final message on its way to the pump, or the mark  *)
(* that it was published; and nothing of it follows the token.             *)
(***************************************************************************)
EXTENDS Transcription, FiniteSetTheorems, TLAPS

PiecesOf(g, i) == {p \in Pieces : p[1] = g /\ p[2] = i}
SegmentsOf(g) == {s \in [uid : Uids, piece : Pieces, final : BOOLEAN] : s.piece \in PiecesOf(g, s.uid)}
JobsOf(g) == {j \in Jobs : j.audio \subseteq PiecesOf(g, j.uid)}
Messages == {m \in [gen : Gens, uid : Uids, text : SUBSET Pieces, partial : BOOLEAN, replace : BOOLEAN] :
               m.text \subseteq PiecesOf(m.gen, m.uid)}
Holding == {"enqueue", "drop", "retry"}

\* Types, with what belongs to which utterance.
Typed ==
  /\ capture \in [Gens -> Captures]
  /\ utt \in [Gens -> 1 .. MaxUtt + 1] /\ slices \in [Gens -> Nat]
  /\ DOMAIN segments = Gens /\ DOMAIN finals = Gens
  /\ DOMAIN scribe = Gens /\ DOMAIN second = Gens
  /\ pending \in [Gens -> [Uids -> [audio : SUBSET Pieces, over : BOOLEAN]]]
  /\ \A g \in Gens :
       /\ utt[g] \in Uids => slices[g] <= MaxSlices[utt[g]]
       /\ segments[g] \in Seq(SegmentsOf(g) \cup {Sentinel})
       /\ \A i \in Uids : pending[g][i].audio \subseteq PiecesOf(g, i)
       /\ finals[g] \in Seq(JobsOf(g) \cup {Sentinel}) /\ Len(finals[g]) <= FinalCap
       /\ scribe[g] \in [at : {"get", "ended"} \cup Holding, job : JobsOf(g)]
       /\ second[g] \in [at : {"none", "get", "busy", "ended"}, job : JobsOf(g)]
  /\ out \in Seq(Messages)
  /\ acc \in [Uids -> SUBSET Pieces] /\ shown \in [Utterances -> SUBSET Pieces]
  /\ final \subseteq Utterances /\ lost \subseteq Utterances
  /\ heard \in [Utterances -> SUBSET Pieces]

-----------------------------------------------------------------------------
(* Sequences of records: the uids in a queue, the utterances named in one. *)

UidsIn(q) == {q[k].uid : k \in 1 .. Len(q)}
Distinct(q) == \A k, l \in 1 .. Len(q) : k # l /\ q[k].uid # 0 => q[k].uid # q[l].uid

\* Nothing of an utterance follows its final segment, and n is the one in progress.
InOrder(q, n) ==
  /\ \A k \in 1 .. Len(q) : q[k].uid \in Nat
  /\ \A k \in 1 .. Len(q) : q[k].uid # 0 => q[k].uid <= n /\ (q[k].final => q[k].uid < n)
  /\ \A k, l \in 1 .. Len(q) : k < l /\ q[k].uid # 0 /\ q[k].final => q[k].uid # q[l].uid

Of(m) == <<m.gen, m.uid>>
Named(q) == {Of(q[k]) : k \in 1 .. Len(q)}
Said(q) == {Of(q[k]) : k \in {l \in 1 .. Len(q) : ~q[l].partial}}
LastWord(q) == \A k, l \in 1 .. Len(q) : k < l /\ ~q[k].partial => Of(q[k]) # Of(q[l])

\* A longer queue, item by item.
LEMMA Longer ==
  ASSUME NEW S, NEW q \in Seq(S), NEW x \in S
  PROVE  /\ Append(q, x) \in Seq(S) /\ Len(Append(q, x)) = Len(q) + 1 /\ Len(q) \in Nat
         /\ Append(q, x)[Len(q) + 1] = x
         /\ \A k \in 1 .. Len(q) : Append(q, x)[k] = q[k] /\ k \in 1 .. Len(q) + 1
         /\ \A k \in 1 .. Len(q) + 1 : k = Len(q) + 1 \/ k \in 1 .. Len(q)
OBVIOUS

\* A shorter one.
LEMMA Shorter ==
  ASSUME NEW S, NEW q \in Seq(S), q # <<>>
  PROVE  /\ Tail(q) \in Seq(S) /\ Len(Tail(q)) = Len(q) - 1 /\ Len(q) \in Nat
         /\ Head(q) = q[1] /\ q[1] \in S /\ 1 \in 1 .. Len(q)
         /\ \A k \in 1 .. Len(Tail(q)) : Tail(q)[k] = q[k + 1] /\ k + 1 \in 1 .. Len(q)
         /\ \A k \in 1 .. Len(q) : k = 1 \/ (k - 1 \in 1 .. Len(Tail(q)) /\ Tail(q)[k - 1] = q[k])
OBVIOUS

LEMMA AppendUids ==
  ASSUME NEW S, NEW q \in Seq(S), NEW x \in S
  PROVE  /\ UidsIn(Append(q, x)) = UidsIn(q) \cup {x.uid}
         /\ Distinct(q) /\ (x.uid \notin UidsIn(q) \/ x.uid = 0) => Distinct(Append(q, x))
<1> DEFINE r == Append(q, x)
<1>1. /\ Len(r) = Len(q) + 1 /\ Len(q) \in Nat /\ r[Len(q) + 1] = x
      /\ \A k \in 1 .. Len(q) : r[k] = q[k] /\ k \in 1 .. Len(q) + 1
      /\ \A k \in 1 .. Len(q) + 1 : k = Len(q) + 1 \/ k \in 1 .. Len(q)
      BY Longer
<1> HIDE DEF r
<1>2. UidsIn(r) = UidsIn(q) \cup {x.uid}
  <2>1. Len(q) + 1 \in 1 .. Len(r)
        BY <1>1
  <2> QED BY <1>1, <2>1 DEF UidsIn
<1>3. ASSUME Distinct(q), x.uid \notin UidsIn(q) \/ x.uid = 0 PROVE Distinct(r)
  <2> SUFFICES ASSUME NEW k \in 1 .. Len(r), NEW l \in 1 .. Len(r), k # l, r[k].uid # 0
               PROVE  r[k].uid # r[l].uid
      BY DEF Distinct
  <2>1. CASE k \in 1 .. Len(q) /\ l \in 1 .. Len(q)
        BY <1>1, <1>3, <2>1 DEF Distinct
  <2>2. CASE k = Len(q) + 1 /\ l \in 1 .. Len(q)
        BY <1>1, <1>3, <2>2 DEF UidsIn
  <2>3. CASE k \in 1 .. Len(q) /\ l = Len(q) + 1
        BY <1>1, <1>3, <2>3 DEF UidsIn
  <2> QED BY <1>1, <2>1, <2>2, <2>3
<1> QED BY <1>2, <1>3 DEF r

LEMMA TailUids ==
  ASSUME NEW S, NEW q \in Seq(S), q # <<>>
  PROVE  /\ UidsIn(q) = UidsIn(Tail(q)) \cup {Head(q).uid}
         /\ Distinct(q) => /\ Distinct(Tail(q))
                           /\ Head(q).uid # 0 => Head(q).uid \notin UidsIn(Tail(q))
<1> DEFINE r == Tail(q)
<1>1. /\ Len(r) = Len(q) - 1 /\ Len(q) \in Nat
      /\ Head(q) = q[1] /\ 1 \in 1 .. Len(q)
      /\ \A k \in 1 .. Len(r) : r[k] = q[k + 1] /\ k + 1 \in 1 .. Len(q)
      /\ \A k \in 1 .. Len(q) : k = 1 \/ (k - 1 \in 1 .. Len(r) /\ r[k - 1] = q[k])
      BY Shorter
<1> HIDE DEF r
<1>2. UidsIn(q) = UidsIn(r) \cup {q[1].uid}
      BY <1>1, SMTT(60) DEF UidsIn
<1>3. Distinct(q) => Distinct(r)
  <2> SUFFICES ASSUME Distinct(q), NEW k \in 1 .. Len(r), NEW l \in 1 .. Len(r), k # l, r[k].uid # 0
               PROVE  r[k].uid # r[l].uid
      BY DEF Distinct
  <2>1. k + 1 # l + 1 /\ k + 1 \in 1 .. Len(q) /\ l + 1 \in 1 .. Len(q)
        BY <1>1
  <2> QED BY <1>1, <2>1 DEF Distinct
<1>4. Distinct(q) /\ q[1].uid # 0 => q[1].uid \notin UidsIn(r)
  <2> SUFFICES ASSUME Distinct(q), q[1].uid # 0, NEW k \in 1 .. Len(r) PROVE q[1].uid # r[k].uid
      BY DEF UidsIn
  <2>1. k + 1 # 1
        BY <1>1
  <2> QED BY <1>1, <2>1 DEF Distinct
<1> QED BY <1>1, <1>2, <1>3, <1>4 DEF r

LEMMA AppendSegment ==
  ASSUME NEW S, NEW q \in Seq(S), NEW x \in S, NEW n \in Nat,
         InOrder(q, n), x.uid \in {0, n}, x.uid = n => n # 0
  PROVE  /\ x.uid = 0 \/ ~x.final => InOrder(Append(q, x), n)
         /\ InOrder(Append(q, x), n + 1)
<1> DEFINE r == Append(q, x)
<1>1. /\ Len(r) = Len(q) + 1 /\ Len(q) \in Nat /\ r[Len(q) + 1] = x
      /\ \A k \in 1 .. Len(q) : r[k] = q[k] /\ k \in 1 .. Len(q) + 1
      /\ \A k \in 1 .. Len(q) + 1 : k = Len(q) + 1 \/ k \in 1 .. Len(q)
      BY Longer
<1> HIDE DEF r
<1>2. ASSUME NEW k \in 1 .. Len(r), NEW l \in 1 .. Len(r), k < l, r[k].uid # 0, r[k].final
      PROVE  r[k].uid # r[l].uid
  <2>1. k \in 1 .. Len(q)
        BY <1>1, <1>2
  <2>2. CASE l \in 1 .. Len(q)
        BY <1>1, <1>2, <2>1, <2>2 DEF InOrder
  <2>3. CASE l = Len(q) + 1
    <3>1. r[l] = x /\ q[k].uid < n /\ r[k] = q[k]
          BY <1>1, <1>2, <2>1, <2>3 DEF InOrder
    <3> QED BY <1>2, <3>1
  <2> QED BY <1>1, <2>2, <2>3
<1>3. \A k \in 1 .. Len(r) : r[k].uid \in Nat
      BY <1>1 DEF InOrder
<1>4. ASSUME NEW k \in 1 .. Len(r), r[k].uid # 0
      PROVE  /\ r[k].uid <= n /\ r[k].uid <= n + 1 /\ (r[k].final => r[k].uid < n + 1)
             /\ (x.uid = 0 \/ ~x.final) /\ r[k].final => r[k].uid < n
  <2>1. CASE k \in 1 .. Len(q)
    <3>1. q[k].uid <= n /\ (q[k].final => q[k].uid < n) /\ r[k] = q[k] /\ q[k].uid \in Nat
          BY <1>1, <1>4, <2>1 DEF InOrder
    <3> QED BY <3>1
  <2>2. CASE k = Len(q) + 1
        BY <1>1, <1>4, <2>2
  <2> QED BY <1>1, <2>1, <2>2
<1> QED BY <1>2, <1>3, <1>4 DEF InOrder, r

LEMMA TailSegment ==
  ASSUME NEW S, NEW q \in Seq(S), q # <<>>, NEW n, InOrder(q, n)
  PROVE  /\ InOrder(Tail(q), n)
         /\ UidsIn(Tail(q)) \subseteq UidsIn(q) /\ Head(q).uid \in UidsIn(q)
         /\ Head(q).uid # 0 => Head(q).uid <= n
         /\ Head(q).uid # 0 /\ Head(q).final =>
              Head(q).uid < n /\ Head(q).uid \notin UidsIn(Tail(q))
<1> DEFINE r == Tail(q)
<1>1. /\ Len(r) = Len(q) - 1 /\ Len(q) \in Nat
      /\ Head(q) = q[1] /\ 1 \in 1 .. Len(q)
      /\ \A k \in 1 .. Len(r) : r[k] = q[k + 1] /\ k + 1 \in 1 .. Len(q)
      BY Shorter
<1> HIDE DEF r
<1>2. InOrder(r, n)
  <2>1. ASSUME NEW k \in 1 .. Len(r), NEW l \in 1 .. Len(r), k < l, r[k].uid # 0, r[k].final
        PROVE  r[k].uid # r[l].uid
    <3>1. k + 1 < l + 1 /\ k + 1 \in 1 .. Len(q) /\ l + 1 \in 1 .. Len(q)
          BY <1>1, <2>1
    <3> QED BY <1>1, <2>1, <3>1, SMTT(60) DEF InOrder
  <2> QED BY <1>1, <2>1 DEF InOrder
<1>3. UidsIn(r) \subseteq UidsIn(q) /\ q[1].uid \in UidsIn(q)
      BY <1>1 DEF UidsIn
<1>4. ASSUME q[1].uid # 0, q[1].final, NEW k \in 1 .. Len(r) PROVE q[1].uid # r[k].uid
  <2>1. 1 < k + 1
        BY <1>1
  <2> QED BY <1>1, <1>4, <2>1, SMTT(60) DEF InOrder
<1> QED BY <1>1, <1>2, <1>3, <1>4 DEF InOrder, UidsIn, r

LEMMA AppendMessage ==
  ASSUME NEW S, NEW q \in Seq(S), NEW m \in S
  PROVE  /\ Named(Append(q, m)) = Named(q) \cup {Of(m)}
         /\ Said(Append(q, m)) = Said(q) \cup (IF m.partial THEN {} ELSE {Of(m)})
         /\ LastWord(q) /\ Of(m) \notin Said(q) => LastWord(Append(q, m))
<1> DEFINE r == Append(q, m)
<1>1. /\ Len(r) = Len(q) + 1 /\ Len(q) \in Nat /\ r[Len(q) + 1] = m
      /\ \A k \in 1 .. Len(q) : r[k] = q[k] /\ k \in 1 .. Len(q) + 1
      /\ \A k \in 1 .. Len(q) + 1 : k = Len(q) + 1 \/ k \in 1 .. Len(q)
      BY Longer
<1> HIDE DEF r
<1>2. Len(q) + 1 \in 1 .. Len(r)
      BY <1>1
<1>3. Named(r) = Named(q) \cup {Of(m)}
      BY <1>1, <1>2 DEF Named
<1>4. Said(r) = Said(q) \cup (IF m.partial THEN {} ELSE {Of(m)})
      BY <1>1, <1>2 DEF Said
<1>5. ASSUME LastWord(q), Of(m) \notin Said(q) PROVE LastWord(r)
  <2> SUFFICES ASSUME NEW k \in 1 .. Len(r), NEW l \in 1 .. Len(r), k < l, ~r[k].partial
               PROVE  Of(r[k]) # Of(r[l])
      BY DEF LastWord
  <2>1. k \in 1 .. Len(q) /\ r[k] = q[k]
        BY <1>1
  <2>2. CASE l \in 1 .. Len(q)
        BY <1>1, <1>5, <2>1, <2>2 DEF LastWord
  <2>3. CASE l = Len(q) + 1
        BY <1>1, <1>5, <2>1, <2>3 DEF Said
  <2> QED BY <1>1, <2>2, <2>3
<1> QED BY <1>3, <1>4, <1>5 DEF r

LEMMA TailMessage ==
  ASSUME NEW S, NEW q \in Seq(S), q # <<>>
  PROVE  /\ Named(q) = Named(Tail(q)) \cup {Of(Head(q))}
         /\ Said(q) = Said(Tail(q)) \cup (IF Head(q).partial THEN {} ELSE {Of(Head(q))})
         /\ LastWord(q) => /\ LastWord(Tail(q))
                           /\ ~Head(q).partial => Of(Head(q)) \notin Named(Tail(q))
<1> DEFINE r == Tail(q)
<1>1. /\ Len(r) = Len(q) - 1 /\ Len(q) \in Nat
      /\ Head(q) = q[1] /\ 1 \in 1 .. Len(q)
      /\ \A k \in 1 .. Len(r) : r[k] = q[k + 1] /\ k + 1 \in 1 .. Len(q)
      /\ \A k \in 1 .. Len(q) : k = 1 \/ (k - 1 \in 1 .. Len(r) /\ r[k - 1] = q[k])
      BY Shorter
<1> HIDE DEF r
<1>2. Named(q) = Named(r) \cup {Of(q[1])}
      BY <1>1 DEF Named
<1>3. Said(q) = Said(r) \cup (IF q[1].partial THEN {} ELSE {Of(q[1])})
      BY <1>1, SMTT(60) DEF Said
<1>4. LastWord(q) => LastWord(r)
  <2> SUFFICES ASSUME LastWord(q), NEW k \in 1 .. Len(r), NEW l \in 1 .. Len(r), k < l, ~r[k].partial
               PROVE  Of(r[k]) # Of(r[l])
      BY DEF LastWord
  <2>1. k + 1 < l + 1 /\ k + 1 \in 1 .. Len(q) /\ l + 1 \in 1 .. Len(q)
        BY <1>1
  <2> QED BY <1>1, <2>1 DEF LastWord
<1>5. LastWord(q) /\ ~q[1].partial => Of(q[1]) \notin Named(r)
  <2> SUFFICES ASSUME LastWord(q), ~q[1].partial, NEW k \in 1 .. Len(r) PROVE Of(q[1]) # Of(r[k])
      BY DEF Named
  <2>1. 1 < k + 1
        BY <1>1
  <2> QED BY <1>1, <2>1 DEF LastWord
<1> QED BY <1>1, <1>2, <1>3, <1>4, <1>5 DEF r

\* Every final message names its utterance.
LEMMA SaidIsNamed == ASSUME NEW q PROVE Said(q) \subseteq Named(q)
BY DEF Said, Named

-----------------------------------------------------------------------------
(* Types *)

LEMMA PieceFits ==
  ASSUME NEW g \in Gens, NEW i \in Uids, NEW n \in 1 .. MaxSlices[i] + 1
  PROVE  <<g, i, n>> \in PiecesOf(g, i)
<1>1. <<g, i, n>> \in Gens \X {i} \X (1 .. MaxSlices[i] + 1)
      OBVIOUS
<1>2. <<g, i, n>> \in Pieces
      BY <1>1 DEF Pieces
<1> QED BY <1>2 DEF PiecesOf

LEMMA UidsAre ==
  /\ MaxUtt \in Nat \ {0} /\ FinalCap \in Nat \ {0} /\ 1 \in Uids /\ 1 \in Gens
  /\ \A i \in Uids : i \in Nat /\ i # 0 /\ MaxSlices[i] \in Nat
  /\ \A g : /\ \A s \in SegmentsOf(g) : s.uid \in Uids /\ s # Sentinel
            /\ \A j \in JobsOf(g) : j.uid \in Uids /\ j # Sentinel
  /\ Sentinel.uid = 0
<1>1. /\ MaxUtt \in Nat \ {0} /\ FinalCap \in Nat \ {0} /\ 1 \in Uids /\ 1 \in Gens
      /\ \A i \in Uids : i \in Nat /\ i # 0 /\ MaxSlices[i] \in Nat
      BY TranscriptionAssumption DEF Uids, Gens
<1>2. Sentinel.uid = 0
      BY DEF Sentinel
<1>3. \A g : \A s \in SegmentsOf(g) : s.uid \in Uids
      BY DEF SegmentsOf
<1>4. \A g : \A j \in JobsOf(g) : j.uid \in Uids
      BY DEF JobsOf, Jobs
<1> QED BY <1>1, <1>2, <1>3, <1>4

\* The next segment to transcribe.
LEMMA HeadJob ==
  ASSUME Typed, NEW g \in Gens, segments[g] # <<>>
  PROVE  /\ Job(g) \in SegmentsOf(g) \cup {Sentinel}
         /\ Job(g) # Sentinel => /\ Job(g) \in SegmentsOf(g) /\ Job(g).uid \in Uids
                                 /\ Job(g).piece \in PiecesOf(g, Job(g).uid)
                                 /\ Job(g).final \in BOOLEAN
         /\ Tail(segments[g]) \in Seq(SegmentsOf(g) \cup {Sentinel})
<1>1. segments[g] \in Seq(SegmentsOf(g) \cup {Sentinel})
      BY DEF Typed
<1>2. Job(g) \in SegmentsOf(g) \cup {Sentinel} /\ Tail(segments[g]) \in Seq(SegmentsOf(g) \cup {Sentinel})
      BY <1>1, Shorter DEF Job
<1> QED BY <1>2 DEF SegmentsOf

\* What is accumulated of its utterance.
LEMMA EntryFits ==
  ASSUME Typed, NEW g \in Gens, segments[g] # <<>>, Job(g) # Sentinel
  PROVE  /\ Entry(g) \in [audio : SUBSET Pieces, over : BOOLEAN]
         /\ Entry(g).audio \subseteq PiecesOf(g, Job(g).uid)
         /\ Absent \in [audio : SUBSET Pieces, over : BOOLEAN] /\ Absent.audio = {}
<1>1. Absent \in [audio : SUBSET Pieces, over : BOOLEAN] /\ Absent.audio = {}
      BY DEF Absent
<1>2. Job(g).uid \in Uids /\ Job(g).piece \in PiecesOf(g, Job(g).uid)
      BY HeadJob
<1> DEFINE e == pending[g][Job(g).uid]
<1>3. e \in [audio : SUBSET Pieces, over : BOOLEAN] /\ e.audio \subseteq PiecesOf(g, Job(g).uid)
  <2>1. pending[g] \in [Uids -> [audio : SUBSET Pieces, over : BOOLEAN]]
        BY DEF Typed
  <2>2. \A i \in Uids : pending[g][i].audio \subseteq PiecesOf(g, i)
        BY DEF Typed
  <2> QED BY <1>2, <2>1, <2>2
<1>4. Entry(g) \in {e, Absent, [audio |-> {}, over |-> TRUE], [e EXCEPT !.audio = e.audio \cup {Job(g).piece}]}
      BY DEF Entry, Accumulated
<1> HIDE DEF e
<1>5. Job(g).piece \in Pieces
      BY <1>2 DEF PiecesOf
<1>6. CASE Entry(g) \in {e, Absent}
      BY <1>1, <1>3, <1>6
<1>8. CASE Entry(g) = [audio |-> {}, over |-> TRUE]
      BY <1>1, <1>8
<1>7. CASE Entry(g) = [e EXCEPT !.audio = e.audio \cup {Job(g).piece}]
      BY <1>1, <1>2, <1>3, <1>5, <1>7
<1> QED BY <1>4, <1>6, <1>7, <1>8

LEMMA TypedInit == Init => Typed
<1> SUFFICES ASSUME Init PROVE Typed
    OBVIOUS
<1>1. NoJob \in Jobs /\ \A g : NoJob \in JobsOf(g)
      BY UidsAre DEF NoJob, Jobs, JobsOf
<1>2. Absent \in [audio : SUBSET Pieces, over : BOOLEAN] /\ Absent.audio = {}
      BY DEF Absent
<1>3. ASSUME NEW g \in Gens
      PROVE  /\ utt[g] \in Uids => slices[g] <= MaxSlices[utt[g]]
             /\ segments[g] \in Seq(SegmentsOf(g) \cup {Sentinel})
             /\ \A i \in Uids : pending[g][i].audio \subseteq PiecesOf(g, i)
             /\ finals[g] \in Seq(JobsOf(g) \cup {Sentinel}) /\ Len(finals[g]) <= FinalCap
             /\ scribe[g] \in [at : {"get", "ended"} \cup Holding, job : JobsOf(g)]
             /\ second[g] \in [at : {"none", "get", "busy", "ended"}, job : JobsOf(g)]
  <2>1. utt[g] \in Uids => slices[g] <= MaxSlices[utt[g]]
        BY UidsAre DEF Init
  <2>2. segments[g] = <<>> /\ finals[g] = <<>>
        BY DEF Init
  <2>3. Len(finals[g]) <= FinalCap
        BY <2>2, UidsAre
  <2>4. \A i \in Uids : pending[g][i].audio \subseteq PiecesOf(g, i)
        BY <1>2 DEF Init
  <2>5. scribe[g] \in [at : {"get", "ended"} \cup Holding, job : JobsOf(g)]
        BY <1>1 DEF Init
  <2>6. second[g] \in [at : {"none", "get", "busy", "ended"}, job : JobsOf(g)]
        BY <1>1 DEF Init
  <2> QED BY <2>1, <2>2, <2>3, <2>4, <2>5, <2>6
<1>4. /\ capture \in [Gens -> Captures]
      /\ DOMAIN segments = Gens /\ DOMAIN finals = Gens
      /\ DOMAIN scribe = Gens /\ DOMAIN second = Gens
      /\ slices \in [Gens -> Nat]
      BY DEF Init, Captures
<1>5. utt \in [Gens -> 1 .. MaxUtt + 1]
      BY UidsAre DEF Init
<1>6. pending \in [Gens -> [Uids -> [audio : SUBSET Pieces, over : BOOLEAN]]]
      BY <1>2 DEF Init
<1>7. /\ out \in Seq(Messages)
      /\ acc \in [Uids -> SUBSET Pieces] /\ shown \in [Utterances -> SUBSET Pieces]
      /\ final \subseteq Utterances /\ lost \subseteq Utterances
      /\ heard \in [Utterances -> SUBSET Pieces]
      BY DEF Init
<1> QED BY <1>3, <1>4, <1>5, <1>6, <1>7 DEF Typed

\* Steps of the capture thread.
LEMMA TypedCapture ==
  ASSUME Typed, NEW g \in Gens, Capture(g) PROVE Typed'
<1> USE DEF Unheard, threads, server, history
<1>1. UNCHANGED <<scribe, second, finals, pending, out, acc, shown, final, heard, lost>>
      BY DEF Capture, Slice, EndUtterance, CutUtterance, Stop
<1>2. ASSUME utt[g] \in Uids, slices[g] <= MaxSlices[utt[g]], NEW last \in BOOLEAN
      PROVE  Segment(g, last) \in SegmentsOf(g) \cup {Sentinel}
  <2>1. slices[g] \in Nat /\ MaxSlices[utt[g]] \in Nat
        BY <1>2, UidsAre DEF Typed
  <2>2. <<g, utt[g], slices[g] + 1>> \in PiecesOf(g, utt[g])
        BY <1>2, <2>1, PieceFits
  <2> QED BY <1>2, <2>2 DEF Segment, SegmentsOf, PiecesOf
<1>3. segments[g] \in Seq(SegmentsOf(g) \cup {Sentinel}) /\ utt[g] \in 1 .. MaxUtt + 1 /\ slices[g] \in Nat
      /\ (utt[g] \in Uids => slices[g] <= MaxSlices[utt[g]])
      BY DEF Typed
<1>4. /\ utt' \in [Gens -> 1 .. MaxUtt + 1] /\ slices' \in [Gens -> Nat]
      /\ utt'[g] \in Uids => slices'[g] <= MaxSlices[utt'[g]]
      /\ capture' \in [Gens -> Captures]
  <2>1. CASE Slice(g)
    <3>1. UNCHANGED <<capture, utt>> /\ slices' = [slices EXCEPT ![g] = slices[g] + 1]
          /\ slices[g] < MaxSlices[utt[g]] /\ utt[g] \in Uids
          BY <2>1 DEF Slice
    <3>2. MaxSlices[utt[g]] \in Nat
          BY <3>1, UidsAre
    <3> QED BY <1>3, <3>1, <3>2 DEF Typed
  <2>2. CASE EndUtterance(g) \/ CutUtterance(g)
    <3>1. UNCHANGED capture /\ utt' = [utt EXCEPT ![g] = utt[g] + 1] /\ utt[g] \in Uids
          /\ slices' = [slices EXCEPT ![g] = 0]
          BY <2>2 DEF EndUtterance, CutUtterance, Typed
    <3>2. utt[g] + 1 \in 1 .. MaxUtt + 1
          BY <3>1, UidsAre DEF Uids
    <3>3. utt'[g] \in Uids => MaxSlices[utt'[g]] \in Nat
          BY UidsAre
    <3> QED BY <3>1, <3>2, <3>3 DEF Typed
  <2>3. CASE Stop(g)
        BY <1>3, <2>3 DEF Stop, CaptureMoves, Typed, Captures
  <2> QED BY <2>1, <2>2, <2>3 DEF Capture
<1>5. /\ DOMAIN segments' = Gens /\ \A h \in Gens \ {g} : segments'[h] = segments[h]
      /\ segments'[g] \in Seq(SegmentsOf(g) \cup {Sentinel})
  <2>1. CASE Slice(g)
    <3>1. segments' = [segments EXCEPT ![g] = Append(segments[g], Segment(g, FALSE))]
          /\ utt[g] \in Uids
          BY <2>1 DEF Slice, Typed
    <3>2. Append(segments[g], Segment(g, FALSE)) \in Seq(SegmentsOf(g) \cup {Sentinel})
          BY <1>2, <1>3, <3>1, Longer
    <3> QED BY <3>1, <3>2 DEF Typed
  <2>2. CASE EndUtterance(g)
    <3>1. segments' = [segments EXCEPT ![g] = Append(segments[g], Segment(g, TRUE))]
          /\ utt[g] \in Uids
          BY <2>2 DEF EndUtterance, Typed
    <3>2. Append(segments[g], Segment(g, TRUE)) \in Seq(SegmentsOf(g) \cup {Sentinel})
          BY <1>2, <1>3, <3>1, Longer
    <3> QED BY <3>1, <3>2 DEF Typed
  <2>3. CASE CutUtterance(g)
        BY <1>3, <2>3 DEF CutUtterance, Typed
  <2>4. CASE Stop(g)
    <3>1. segments' = [segments EXCEPT ![g] = Append(segments[g], Sentinel)]
          BY <2>4 DEF Stop, Typed
    <3>2. Append(segments[g], Sentinel) \in Seq(SegmentsOf(g) \cup {Sentinel})
          BY <1>3, Longer
    <3> QED BY <3>1, <3>2 DEF Typed
  <2> QED BY <2>1, <2>2, <2>3, <2>4 DEF Capture
<1>6. \A h \in Gens \ {g} : utt'[h] = utt[h] /\ slices'[h] = slices[h]
      BY DEF Capture, Slice, EndUtterance, CutUtterance, Stop, Typed
<1>7. \A h \in Gens : /\ utt'[h] \in Uids => slices'[h] <= MaxSlices[utt'[h]]
                      /\ segments'[h] \in Seq(SegmentsOf(h) \cup {Sentinel})
  <2> TAKE h \in Gens
  <2>1. CASE h = g
        BY <1>4, <1>5, <2>1
  <2>2. CASE h # g
        BY <1>5, <1>6, <2>2 DEF Typed
  <2> QED BY <2>1, <2>2
<1> QED BY <1>1, <1>4, <1>5, <1>7 DEF Typed

LEMMA TypedShutdown ==
  ASSUME Typed, NEW g \in Gens, Shutdown(g) PROVE Typed'
<1> USE DEF Unheard, threads, server, history
<1>1. UNCHANGED <<utt, slices, segments, scribe, second, pending, out, acc, shown, final, heard, lost>>
      /\ capture' \in [Gens -> Captures]
      BY DEF Shutdown, JoinScribe, PutSentinel, JoinSecond, StartNext, CaptureMoves, Typed, Captures
<1>2. DOMAIN finals' = Gens /\ \A h \in Gens \ {g} : finals'[h] = finals[h]
      BY DEF Shutdown, JoinScribe, PutSentinel, JoinSecond, StartNext, Typed
<1>3. finals[g] \in Seq(JobsOf(g) \cup {Sentinel}) /\ Len(finals[g]) <= FinalCap
      BY DEF Typed
<1>4. \/ finals'[g] = finals[g]
      \/ finals'[g] = Append(finals[g], Sentinel) /\ Len(finals[g]) < FinalCap
      BY DEF Shutdown, JoinScribe, PutSentinel, JoinSecond, StartNext, Typed
<1>5. finals'[g] \in Seq(JobsOf(g) \cup {Sentinel}) /\ Len(finals'[g]) <= FinalCap
      BY <1>3, <1>4, Longer, UidsAre, SMTT(60)
<1>6. \A h \in Gens : finals'[h] \in Seq(JobsOf(h) \cup {Sentinel}) /\ Len(finals'[h]) <= FinalCap
      BY <1>2, <1>5 DEF Typed
<1> QED BY <1>1, <1>2, <1>6 DEF Typed

\* A segment is taken: the effect on each variable, and its type.
LEMMA TypedTake ==
  ASSUME Typed, NEW g \in Gens, segments[g] # <<>>, Taken(g),
         \/ pending' = pending
         \/ /\ Job(g) # Sentinel
            /\ \E v \in [audio : SUBSET Pieces, over : BOOLEAN] :
                 /\ v.audio \subseteq PiecesOf(g, Job(g).uid)
                 /\ pending' = [pending EXCEPT ![g][Job(g).uid] = v],
         \/ scribe' = scribe
         \/ \E s \in [at : {"get", "ended"} \cup Holding, job : JobsOf(g)] :
              scribe' = [scribe EXCEPT ![g] = s],
         out' = out \/ \E m \in Messages : out' = Append(out, m),
         heard' \in [Utterances -> SUBSET Pieces], lost' \subseteq Utterances,
         Elsewhere
  PROVE  Typed'
<1>1. UNCHANGED <<capture, utt, slices, second, finals, acc, shown, final>>
      BY DEF Elsewhere, server
<1>2. /\ DOMAIN segments' = Gens /\ segments'[g] = Tail(segments[g])
      /\ \A h \in Gens \ {g} : segments'[h] = segments[h]
      BY DEF Taken, Typed
<1>3. \A h \in Gens : segments'[h] \in Seq(SegmentsOf(h) \cup {Sentinel})
      BY <1>2, HeadJob, ZenonT(60) DEF Typed
<1>4. /\ pending' \in [Gens -> [Uids -> [audio : SUBSET Pieces, over : BOOLEAN]]]
      /\ \A h \in Gens : \A i \in Uids : pending'[h][i].audio \subseteq PiecesOf(h, i)
  <2>1. CASE pending' = pending
        BY <2>1 DEF Typed
  <2>2. CASE /\ Job(g) # Sentinel
             /\ \E v \in [audio : SUBSET Pieces, over : BOOLEAN] :
                  /\ v.audio \subseteq PiecesOf(g, Job(g).uid)
                  /\ pending' = [pending EXCEPT ![g][Job(g).uid] = v]
    <3>1. PICK v \in [audio : SUBSET Pieces, over : BOOLEAN] :
            /\ v.audio \subseteq PiecesOf(g, Job(g).uid)
            /\ pending' = [pending EXCEPT ![g][Job(g).uid] = v]
          BY <2>2
    <3>2. Job(g).uid \in Uids
          BY <2>2, HeadJob
    <3>3. pending' \in [Gens -> [Uids -> [audio : SUBSET Pieces, over : BOOLEAN]]]
          BY <3>1, <3>2 DEF Typed
    <3>4. ASSUME NEW h \in Gens, NEW i \in Uids PROVE pending'[h][i].audio \subseteq PiecesOf(h, i)
      <4>1. pending'[h][i] = IF h = g /\ i = Job(g).uid THEN v ELSE pending[h][i]
            BY <3>1, <3>2 DEF Typed
      <4> QED BY <3>1, <4>1 DEF Typed
    <3> QED BY <3>3, <3>4
  <2> QED BY <2>1, <2>2
<1>5. /\ DOMAIN scribe' = Gens
      /\ \A h \in Gens : scribe'[h] \in [at : {"get", "ended"} \cup Holding, job : JobsOf(h)]
      BY ZenonT(60) DEF Typed
<1>6. out' \in Seq(Messages)
  <2>1. out \in Seq(Messages)
        BY DEF Typed
  <2>2. \A m \in Messages : Append(out, m) \in Seq(Messages)
        BY <2>1, Longer
  <2> QED BY <2>1, <2>2
<1> QED BY <1>1, <1>2, <1>3, <1>4, <1>5, <1>6 DEF Typed

\* The final queue moves.
LEMMA TypedRest ==
  ASSUME Typed, NEW g \in Gens, Rest,
         \/ finals' = finals
         \/ \E q : /\ finals' = [finals EXCEPT ![g] = q]
                   /\ q \in Seq(JobsOf(g) \cup {Sentinel}) /\ Len(q) <= FinalCap,
         \E place \in {"get"} \cup Holding : ScribeAt(g, place),
         out' = out \/ \E m \in Messages : out' = Append(out, m)
  PROVE  Typed'
<1>1. UNCHANGED <<capture, utt, slices, segments, pending, second, acc, shown, final, heard, lost>>
      BY DEF Rest, server, history
<1>2. /\ DOMAIN finals' = Gens
      /\ \A h \in Gens : finals'[h] \in Seq(JobsOf(h) \cup {Sentinel}) /\ Len(finals'[h]) <= FinalCap
      BY DEF Typed
<1>3. /\ DOMAIN scribe' = Gens
      /\ \A h \in Gens : scribe'[h] \in [at : {"get", "ended"} \cup Holding, job : JobsOf(h)]
  <2>1. PICK place \in {"get"} \cup Holding : scribe' = [scribe EXCEPT ![g].at = place]
        BY DEF ScribeAt
  <2>2. scribe[g] \in [at : {"get", "ended"} \cup Holding, job : JobsOf(g)]
        BY DEF Typed
  <2>3. scribe'[g] = [scribe[g] EXCEPT !.at = place] /\ DOMAIN scribe' = Gens
        /\ \A h \in Gens \ {g} : scribe'[h] = scribe[h]
        BY <2>1 DEF Typed
  <2>4. scribe'[g] \in [at : {"get", "ended"} \cup Holding, job : JobsOf(g)]
        BY <2>2, <2>3
  <2> QED BY <2>3, <2>4 DEF Typed
<1>4. out' \in Seq(Messages)
  <2>1. out \in Seq(Messages)
        BY DEF Typed
  <2>2. \A m \in Messages : Append(out, m) \in Seq(Messages)
        BY <2>1, Longer
  <2> QED BY <2>1, <2>2
<1> QED BY <1>1, <1>2, <1>3, <1>4 DEF Typed

\* A message is of the utterance its text is of.
LEMMA MessageFits ==
  ASSUME NEW g \in Gens, NEW i \in Uids, NEW text \in SUBSET PiecesOf(g, i),
         NEW p \in BOOLEAN, NEW r \in BOOLEAN
  PROVE  /\ Message(g, i, text, p, r) \in Messages
         /\ Of(Message(g, i, text, p, r)) = <<g, i>>
         /\ Message(g, i, text, p, r).partial = p
         /\ Message(g, i, text, p, r).replace = r
         /\ Message(g, i, text, p, r).text = text
         /\ <<g, i>> \in Utterances
BY DEF Message, Messages, PiecesOf, Of, Utterances

\* What a transcribed segment leads to: a text of it is heard; a slice, or an end without a
\* second pass, is emitted at once; an end with one is emitted as a partial, and the whole
\* utterance is held to be queued.
LEMMA TranscribeDoes ==
  ASSUME Typed, NEW g \in Gens, Transcribe(g)
  PROVE  \E text \in SUBSET PiecesOf(g, Job(g).uid) :
           /\ Takes(g) /\ Job(g) # Sentinel /\ Taken(g) /\ Elsewhere
           /\ Job(g).uid \in Uids /\ Job(g).final \in BOOLEAN /\ Job(g) \in SegmentsOf(g)
           /\ text \subseteq {Job(g).piece}
           /\ heard' = [heard EXCEPT ![<<g, Job(g).uid>>] = heard[<<g, Job(g).uid>>] \cup text]
           /\ lost' = lost
           /\ \E v \in [audio : SUBSET Pieces, over : BOOLEAN] :
                 /\ v.audio \subseteq PiecesOf(g, Job(g).uid)
                 /\ pending' = [pending EXCEPT ![g][Job(g).uid] = v]
           /\ \/ /\ scribe' = scribe
                 /\ \/ out' = out /\ text = {}
                    \/ out' = Append(out, Message(g, Job(g).uid, text, ~Job(g).final, FALSE))
              \/ /\ \E audio \in SUBSET PiecesOf(g, Job(g).uid) :
                      scribe' = [scribe EXCEPT ![g] =
                                   [at |-> "enqueue", job |-> [uid |-> Job(g).uid, audio |-> audio]]]
                 /\ Job(g).final
                 /\ \/ out' = out /\ text = {}
                    \/ out' = Append(out, Message(g, Job(g).uid, text, TRUE, FALSE))
<1>1. Takes(g) /\ Job(g) # Sentinel /\ Taken(g)
      BY DEF Transcribe
<1>2. PICK text \in SUBSET {Job(g).piece} : EmitText(g, text) \/ EmitTail(g, text) \/ FlushLong(g, text)
      BY DEF Transcribe
<1>3. /\ Job(g).uid \in Uids /\ Job(g).piece \in PiecesOf(g, Job(g).uid) /\ Job(g).final \in BOOLEAN
      /\ Job(g) \in SegmentsOf(g)
      BY <1>1, HeadJob DEF Takes
<1>4. text \in SUBSET PiecesOf(g, Job(g).uid)
      BY <1>2, <1>3
<1>5. /\ Entry(g) \in [audio : SUBSET Pieces, over : BOOLEAN]
      /\ Entry(g).audio \subseteq PiecesOf(g, Job(g).uid)
      /\ Absent \in [audio : SUBSET Pieces, over : BOOLEAN] /\ Absent.audio = {}
      BY <1>1, EntryFits DEF Takes
<1>6. Elsewhere /\ heard' = [heard EXCEPT ![<<g, Job(g).uid>>] = heard[<<g, Job(g).uid>>] \cup text]
      /\ lost' = lost
  <2>1. Elsewhere /\ Hears(g, text)
        BY <1>2 DEF EmitText, EmitTail, FlushLong
  <2>2. <<g, Job(g).uid>> \in Utterances
        BY <1>3 DEF Utterances
  <2> QED BY <2>1, <2>2 DEF Hears, Typed
<1>7. \E v \in [audio : SUBSET Pieces, over : BOOLEAN] :
         /\ v.audio \subseteq PiecesOf(g, Job(g).uid)
         /\ pending' = [pending EXCEPT ![g][Job(g).uid] = v]
  <2>1. pending' = [pending EXCEPT ![g][Job(g).uid] = Entry(g)]
        \/ pending' = [pending EXCEPT ![g][Job(g).uid] = Absent]
        BY <1>2 DEF EmitText, EmitTail, FlushLong
  <2> QED BY <1>5, <2>1
<1>8. \/ /\ scribe' = scribe
         /\ \/ out' = out /\ text = {}
            \/ out' = Append(out, Message(g, Job(g).uid, text, ~Job(g).final, FALSE))
      \/ /\ \E audio \in SUBSET PiecesOf(g, Job(g).uid) :
              scribe' = [scribe EXCEPT ![g] =
                           [at |-> "enqueue", job |-> [uid |-> Job(g).uid, audio |-> audio]]]
         /\ Job(g).final
         /\ \/ out' = out /\ text = {}
            \/ out' = Append(out, Message(g, Job(g).uid, text, TRUE, FALSE))
  <2>1. CASE EmitText(g, text)
        BY <2>1 DEF EmitText, Emit
  <2>2. CASE EmitTail(g, text)
        BY <1>5, <2>2 DEF EmitTail, Emit
  <2>3. CASE FlushLong(g, text)
        BY <2>3 DEF FlushLong, Emit
  <2> QED BY <1>2, <2>1, <2>2, <2>3
<1> QED BY <1>1, <1>2, <1>3, <1>4, <1>6, <1>7, <1>8

\* The head of the final queue and what is left of it.
LEMMA FinalsTail ==
  ASSUME Typed, NEW g \in Gens, finals[g] # <<>>
  PROVE  /\ Tail(finals[g]) \in Seq(JobsOf(g) \cup {Sentinel})
         /\ Len(Tail(finals[g])) < Len(finals[g]) /\ Len(Tail(finals[g])) < FinalCap
         /\ Len(Tail(finals[g])) <= FinalCap
         /\ Head(finals[g]) \in JobsOf(g) \cup {Sentinel}
<1>1. finals[g] \in Seq(JobsOf(g) \cup {Sentinel}) /\ Len(finals[g]) <= FinalCap
      BY DEF Typed
<1>2. Tail(finals[g]) \in Seq(JobsOf(g) \cup {Sentinel}) /\ Len(Tail(finals[g])) = Len(finals[g]) - 1
      /\ Len(finals[g]) \in Nat /\ Head(finals[g]) \in JobsOf(g) \cup {Sentinel}
      BY <1>1, Shorter
<1> QED BY <1>1, <1>2, UidsAre

\* Where the transcription thread puts the job it holds, when there is room.
LEMMA FinalsLonger ==
  ASSUME Typed, NEW g \in Gens, Len(finals[g]) < FinalCap
  PROVE  /\ Append(finals[g], scribe[g].job) \in Seq(JobsOf(g) \cup {Sentinel})
         /\ Len(Append(finals[g], scribe[g].job)) <= FinalCap
<1>1. finals[g] \in Seq(JobsOf(g) \cup {Sentinel}) /\ scribe[g].job \in JobsOf(g) \cup {Sentinel}
      BY DEF Typed
<1>2. Append(finals[g], scribe[g].job) \in Seq(JobsOf(g) \cup {Sentinel})
      /\ Len(Append(finals[g], scribe[g].job)) = Len(finals[g]) + 1 /\ Len(finals[g]) \in Nat
      BY <1>1, Longer
<1> QED BY <1>2, UidsAre

\* The empty final of a job that is flushed.
LEMMA FlushFits ==
  ASSUME NEW g \in Gens, NEW j \in JobsOf(g)
  PROVE  Message(g, j.uid, {}, FALSE, FALSE) \in Messages /\ j.uid \in Uids
<1>1. j.uid \in Uids
      BY UidsAre
<1> QED BY <1>1, MessageFits

LEMMA TypedScribe ==
  ASSUME Typed, NEW g \in Gens, Scribe(g) PROVE Typed'
<1>0. scribe[g] \in [at : {"get", "ended"} \cup Holding, job : JobsOf(g)]
      BY DEF Typed
<1>1. CASE ScribeEnds(g)
  <2>1. segments[g] # <<>> /\ Taken(g) /\ UNCHANGED <<pending, out, heard, lost>> /\ Elsewhere
        /\ scribe' = [scribe EXCEPT ![g].at = "ended"]
        BY <1>1 DEF ScribeEnds, Takes, history
  <2> DEFINE s == [scribe[g] EXCEPT !.at = "ended"]
  <2>2. scribe' = [scribe EXCEPT ![g] = s]
        BY <2>1 DEF Typed
  <2>3. s \in [at : {"get", "ended"} \cup Holding, job : JobsOf(g)]
        BY <1>0
  <2> HIDE DEF s
  <2>4. heard' \in [Utterances -> SUBSET Pieces] /\ lost' \subseteq Utterances
        BY <2>1 DEF Typed
  <2> QED BY <2>1, <2>2, <2>3, <2>4, TypedTake
<1>2. CASE ScribeFails(g)
  <2>1. /\ segments[g] # <<>> /\ Job(g) # Sentinel /\ Taken(g)
        /\ UNCHANGED <<scribe, out, heard>> /\ Elsewhere
        /\ pending' = [pending EXCEPT ![g][Job(g).uid] = Entry(g)]
        /\ lost' \subseteq lost \cup {<<g, Job(g).uid>>}
        BY <1>2 DEF ScribeFails, Takes
  <2>2. Entry(g) \in [audio : SUBSET Pieces, over : BOOLEAN]
        /\ Entry(g).audio \subseteq PiecesOf(g, Job(g).uid) /\ Job(g).uid \in Uids
        BY <2>1, EntryFits, HeadJob
  <2>3. heard' \in [Utterances -> SUBSET Pieces] /\ lost' \subseteq Utterances
        BY <2>1, <2>2 DEF Typed, Utterances
  <2> QED BY <2>1, <2>2, <2>3, TypedTake
<1>3. CASE Transcribe(g)
  <2>1. PICK text \in SUBSET PiecesOf(g, Job(g).uid) :
           /\ Takes(g) /\ Job(g) # Sentinel /\ Taken(g) /\ Elsewhere
           /\ Job(g).uid \in Uids /\ Job(g).final \in BOOLEAN
           /\ heard' = [heard EXCEPT ![<<g, Job(g).uid>>] = heard[<<g, Job(g).uid>>] \cup text]
           /\ lost' = lost
           /\ \E v \in [audio : SUBSET Pieces, over : BOOLEAN] :
                 /\ v.audio \subseteq PiecesOf(g, Job(g).uid)
                 /\ pending' = [pending EXCEPT ![g][Job(g).uid] = v]
           /\ \/ scribe' = scribe
              \/ \E audio \in SUBSET PiecesOf(g, Job(g).uid) :
                   scribe' = [scribe EXCEPT ![g] =
                                [at |-> "enqueue", job |-> [uid |-> Job(g).uid, audio |-> audio]]]
           /\ \/ out' = out
              \/ out' = Append(out, Message(g, Job(g).uid, text, ~Job(g).final, FALSE))
              \/ out' = Append(out, Message(g, Job(g).uid, text, TRUE, FALSE))
        BY <1>3, TranscribeDoes
  <2>2. \A p \in BOOLEAN : Message(g, Job(g).uid, text, p, FALSE) \in Messages
        BY <2>1, MessageFits
  <2>3. out' = out \/ \E m \in Messages : out' = Append(out, m)
        BY <2>1, <2>2
  <2>4. PiecesOf(g, Job(g).uid) \subseteq Pieces
        BY DEF PiecesOf
  <2>5. heard' \in [Utterances -> SUBSET Pieces] /\ lost' \subseteq Utterances
    <3>1. <<g, Job(g).uid>> \in Utterances
          BY <2>1 DEF Utterances
    <3>2. heard \in [Utterances -> SUBSET Pieces] /\ lost \subseteq Utterances
          BY DEF Typed
    <3> QED BY <2>1, <2>4, <3>1, <3>2
  <2>6. \/ scribe' = scribe
        \/ \E s \in [at : {"get", "ended"} \cup Holding, job : JobsOf(g)] :
             scribe' = [scribe EXCEPT ![g] = s]
    <3>1. ASSUME NEW audio \in SUBSET PiecesOf(g, Job(g).uid)
          PROVE  [at |-> "enqueue", job |-> [uid |-> Job(g).uid, audio |-> audio]]
                   \in [at : {"get", "ended"} \cup Holding, job : JobsOf(g)]
      <4>1. [uid |-> Job(g).uid, audio |-> audio] \in JobsOf(g)
            BY <2>1, <2>4 DEF JobsOf, Jobs
      <4> QED BY <4>1 DEF Holding
    <3> QED BY <2>1, <3>1
  <2>7. segments[g] # <<>>
        BY <2>1 DEF Takes
  <2> QED BY <2>1, <2>3, <2>5, <2>6, <2>7, TypedTake
<1> DEFINE Fits(q) == q \in Seq(JobsOf(g) \cup {Sentinel}) /\ Len(q) <= FinalCap
<1> DEFINE Moved == finals' = finals \/ \E q : finals' = [finals EXCEPT ![g] = q] /\ Fits(q)
<1> DEFINE Went == \E place \in {"get"} \cup Holding : ScribeAt(g, place)
<1> DEFINE Told == out' = out \/ \E m \in Messages : out' = Append(out, m)
<1>4. Moved /\ Went /\ Told /\ Rest => Typed'
      BY TypedRest
<1>5. finals[g] # <<>> => Fits(Tail(finals[g]))
      BY FinalsTail
<1>6. Len(finals[g]) < FinalCap => Fits(Append(finals[g], scribe[g].job))
      BY FinalsLonger
<1>7. scribe[g].job \in JobsOf(g)
      BY <1>0
<1>8. Message(g, scribe[g].job.uid, {}, FALSE, FALSE) \in Messages
      BY <1>7, FlushFits
<1>9. finals[g] # <<>> /\ Head(finals[g]) # Sentinel
         => Message(g, Head(finals[g]).uid, {}, FALSE, FALSE) \in Messages
      BY FinalsTail, FlushFits
<1> HIDE DEF Fits
<1>10. CASE EnqueueFinal(g)
  <2>1. Moved
        BY <1>6, <1>10 DEF EnqueueFinal, QueueFinal, Typed
  <2> QED BY <1>4, <1>10, <2>1 DEF EnqueueFinal, Holding
<1>11. CASE DropOldest(g)
  <2>1. Moved
        BY <1>5, <1>11 DEF DropOldest, Typed
  <2>2. Told
        BY <1>9, <1>11 DEF DropOldest, Emit
  <2> QED BY <1>4, <1>11, <2>1, <2>2 DEF DropOldest, Holding
<1>12. CASE DropSentinel(g)
  <2>1. Moved
        BY <1>5, <1>12 DEF DropSentinel, Typed
  <2> QED BY <1>4, <1>12, <2>1 DEF DropSentinel
<1>13. CASE NothingToDrop(g)
      BY <1>4, <1>13 DEF NothingToDrop, Holding
<1>14. CASE EnqueueAgain(g)
  <2>1. Moved
        BY <1>6, <1>14 DEF EnqueueAgain, QueueFinal, Typed
  <2>2. Told
        BY <1>8, <1>14 DEF EnqueueAgain, Emit
  <2> QED BY <1>4, <1>14, <2>1, <2>2 DEF EnqueueAgain
<1> QED BY <1>1, <1>2, <1>3, <1>10, <1>11, <1>12, <1>13, <1>14 DEF Scribe

\* The job of the final-pass thread.
LEMMA BusyJob ==
  ASSUME Typed, NEW g \in Gens
  PROVE  /\ second[g].job \in JobsOf(g) /\ second[g].job.uid \in Uids
         /\ second[g].job.audio \subseteq PiecesOf(g, second[g].job.uid)
<1>1. second[g].job \in JobsOf(g)
      BY DEF Typed
<1> QED BY <1>1, UidsAre DEF JobsOf

LEMMA TypedSecond ==
  ASSUME Typed, NEW g \in Gens, Second(g) PROVE Typed'
<1> DEFINE Places == [at : {"none", "get", "busy", "ended"}, job : JobsOf(g)]
<1>0. NoJob \in JobsOf(g)
      BY UidsAre DEF NoJob, Jobs, JobsOf
<1>1. CASE SecondTakes(g)
  <2>1. /\ finals[g] # <<>> /\ finals' = [finals EXCEPT ![g] = Tail(finals[g])]
        /\ UNCHANGED <<capture, utt, slices, segments, pending, scribe, out, acc, shown, final, heard, lost>>
        BY <1>1 DEF SecondTakes, server, history, Typed
  <2>2. PICK s \in Places : second' = [second EXCEPT ![g] = s]
    <3>1. Head(finals[g]) = Sentinel \/ Head(finals[g]) \in JobsOf(g)
          BY <2>1, FinalsTail
    <3>2. CASE Head(finals[g]) = Sentinel
      <4>1. second' = [second EXCEPT ![g] = [at |-> "ended", job |-> NoJob]]
            BY <1>1, <3>2 DEF SecondTakes
      <4> QED BY <1>0, <4>1
    <3>3. CASE Head(finals[g]) \in JobsOf(g)
      <4>1. Head(finals[g]) # Sentinel
            BY <3>3, UidsAre
      <4>2. second' = [second EXCEPT ![g] = [at |-> "busy", job |-> Head(finals[g])]]
            BY <1>1, <4>1 DEF SecondTakes
      <4> QED BY <3>3, <4>2
    <3> QED BY <3>1, <3>2, <3>3
  <2>3. /\ DOMAIN second' = Gens /\ DOMAIN finals' = Gens
        /\ second'[g] = s /\ finals'[g] = Tail(finals[g])
        /\ \A h \in Gens \ {g} : second'[h] = second[h] /\ finals'[h] = finals[h]
        BY <2>1, <2>2 DEF Typed
  <2>4. finals'[g] \in Seq(JobsOf(g) \cup {Sentinel}) /\ Len(finals'[g]) <= FinalCap
        BY <2>1, <2>3, FinalsTail
  <2>5. \A h \in Gens : /\ finals'[h] \in Seq(JobsOf(h) \cup {Sentinel}) /\ Len(finals'[h]) <= FinalCap
                        /\ second'[h] \in [at : {"none", "get", "busy", "ended"}, job : JobsOf(h)]
        BY <2>2, <2>3, <2>4 DEF Typed
  <2> QED BY <2>1, <2>3, <2>5 DEF Typed
<1>2. CASE SecondPass(g)
  <2>1. PICK text \in SUBSET second[g].job.audio : SecondEmits(g, text)
        BY <1>2 DEF SecondPass
  <2>2. /\ UNCHANGED <<capture, utt, slices, segments, finals, pending, scribe, acc, shown, final, heard, lost>>
        /\ out' = Append(out, Message(g, second[g].job.uid, text, FALSE, text # {}))
        /\ second' = [second EXCEPT ![g] = [at |-> "get", job |-> NoJob]]
        BY <2>1 DEF SecondEmits, Emit, queues, server, history
  <2>3. Message(g, second[g].job.uid, text, FALSE, text # {}) \in Messages
        BY BusyJob, MessageFits
  <2>4. out' \in Seq(Messages)
    <3>1. out \in Seq(Messages)
          BY DEF Typed
    <3> QED BY <2>2, <2>3, <3>1, Longer
  <2>5. DOMAIN second' = Gens
        /\ \A h \in Gens : second'[h] \in [at : {"none", "get", "busy", "ended"}, job : JobsOf(h)]
        BY <1>0, <2>2 DEF Typed
  <2> QED BY <2>2, <2>4, <2>5 DEF Typed
<1> QED BY <1>1, <1>2 DEF Second

\* What the pump does with the oldest message.
LEMMA PumpDoes ==
  ASSUME Typed, RxPump
  PROVE  \E m \in Messages : \E text \in SUBSET Pieces :
           /\ out # <<>> /\ m = Head(out) /\ out' = Tail(out)
           /\ m.gen \in Gens /\ m.uid \in Uids /\ Of(m) \in Utterances /\ m.partial \in BOOLEAN
           /\ m.text \subseteq PiecesOf(m.gen, m.uid)
           /\ text = (IF m.partial THEN acc[m.uid] \cup m.text
                      ELSE ResolveFinal(acc[m.uid], m.text, m.replace))
           /\ acc' = [acc EXCEPT ![m.uid] = IF m.partial THEN text ELSE {}]
           /\ shown' = [shown EXCEPT ![Of(m)] = text]
           /\ final' = IF m.partial THEN final ELSE final \cup {Of(m)}
           /\ UNCHANGED <<capture, utt, slices, scribe, second, segments, finals, pending, heard, lost>>
<1> DEFINE m == Head(out)
           text == IF m.partial THEN acc[m.uid] \cup m.text
                   ELSE ResolveFinal(acc[m.uid], m.text, m.replace)
<1>1. out # <<>> /\ out' = Tail(out)
      /\ UNCHANGED <<capture, utt, slices, scribe, second, segments, finals, pending, heard, lost>>
      BY DEF RxPump, threads, queues, history
<1>2. m \in Messages
  <2>1. out \in Seq(Messages)
        BY DEF Typed
  <2> QED BY <1>1, <2>1, Shorter
<1>3. /\ acc' = [acc EXCEPT ![m.uid] = IF m.partial THEN text ELSE {}]
      /\ shown' = [shown EXCEPT ![Of(m)] = text]
      /\ final' = IF m.partial THEN final ELSE final \cup {Of(m)}
      BY DEF RxPump, Publishes, Of
<1> HIDE DEF m
<1>4. m.gen \in Gens /\ m.uid \in Uids /\ m.partial \in BOOLEAN /\ m.text \subseteq PiecesOf(m.gen, m.uid)
      /\ m.text \in SUBSET Pieces
      BY <1>2 DEF Messages
<1>5. Of(m) \in Utterances
      BY <1>4 DEF Of, Utterances
<1>6. text \in SUBSET Pieces
  <2>1. acc[m.uid] \in SUBSET Pieces
        BY <1>4 DEF Typed
  <2> QED BY <1>4, <2>1 DEF ResolveFinal
<1>7. m = Head(out)
      BY DEF m
<1> HIDE DEF text
<1>8. text = IF m.partial THEN acc[m.uid] \cup m.text
             ELSE ResolveFinal(acc[m.uid], m.text, m.replace)
      BY DEF text
<1> WITNESS m \in Messages
<1> WITNESS text \in SUBSET Pieces
<1> QED BY <1>1, <1>3, <1>4, <1>5, <1>7, <1>8

LEMMA TypedPump == ASSUME Typed, RxPump PROVE Typed'
<1>1. PICK m \in Messages, text \in SUBSET Pieces :
           /\ out # <<>> /\ out' = Tail(out)
           /\ m.uid \in Uids /\ Of(m) \in Utterances
           /\ acc' = [acc EXCEPT ![m.uid] = IF m.partial THEN text ELSE {}]
           /\ shown' = [shown EXCEPT ![Of(m)] = text]
           /\ final' = IF m.partial THEN final ELSE final \cup {Of(m)}
           /\ UNCHANGED <<capture, utt, slices, scribe, second, segments, finals, pending, heard, lost>>
      BY PumpDoes
<1>2. out' \in Seq(Messages)
  <2>1. out \in Seq(Messages)
        BY DEF Typed
  <2> QED BY <1>1, <2>1, Shorter
<1>3. acc' \in [Uids -> SUBSET Pieces] /\ shown' \in [Utterances -> SUBSET Pieces] /\ final' \subseteq Utterances
      BY <1>1 DEF Typed
<1> QED BY <1>1, <1>2, <1>3 DEF Typed

LEMMA TypedNext == Typed /\ [Next]_vars => Typed'
<1>1. Typed /\ Next => Typed'
      BY TypedCapture, TypedShutdown, TypedScribe, TypedSecond, TypedPump DEF Next
<1>2. Typed /\ UNCHANGED vars => Typed'
      BY DEF Typed, vars, threads, queues, server, history
<1> QED BY <1>1, <1>2

\* Every variable of the two threads, their queues and the pump keeps its type.
THEOREM WellTyped == Spec => []Typed
BY TypedInit, TypedNext, PTL DEF Spec

-----------------------------------------------------------------------------
(* The one token of an utterance's end *)

Held(g) == IF scribe[g].at \in Holding THEN {scribe[g].job.uid} ELSE {}
Queued(g) == UidsIn(finals[g]) \ {0}
Busy(g) == IF second[g].at = "busy" THEN {second[g].job.uid} ELSE {}
InWork(g) == Held(g) \cup Queued(g) \cup Busy(g)
Waiting(g) == UidsIn(segments[g])
Done == Said(out) \cup final

\* The places of the token exclude one another, and the capture thread and the
\* transcription queue are past an utterance that has one.
Token(g) ==
  /\ InOrder(segments[g], utt[g]) /\ Distinct(finals[g])
  /\ Held(g) \cap Queued(g) = {} /\ Held(g) \cap Busy(g) = {} /\ Queued(g) \cap Busy(g) = {}
  /\ \A i \in InWork(g) : <<g, i>> \notin Done
  /\ \A i \in Uids : i \in InWork(g) \/ <<g, i>> \in Done => i < utt[g] /\ i \notin Waiting(g)

\* Nothing follows a final message, and the pump holds nothing of what is final.
Silent ==
  /\ LastWord(out) /\ final \cap Named(out) = {}
  /\ \A i \in Uids : \A p \in acc[i] : p[2] = i /\ <<p[1], p[2]>> \notin final

EndInv == Typed /\ Silent /\ \A g \in Gens : Token(g)

LEMMA EndInit == Init => EndInv
<1> SUFFICES ASSUME Init PROVE EndInv
    OBVIOUS
<1>1. Typed
      BY TypedInit
<1>2. out = <<>> /\ final = {} /\ \A i \in Uids : acc[i] = {}
      BY DEF Init
<1>3. Silent
  <2>1. LastWord(out)
        BY <1>2 DEF LastWord
  <2> QED BY <1>2, <2>1 DEF Silent
<1>4. ASSUME NEW g \in Gens PROVE Token(g)
  <2>1. segments[g] = <<>> /\ finals[g] = <<>> /\ scribe[g].at = "get" /\ second[g].at # "busy"
        BY SMTT(60) DEF Init
  <2>2. UidsIn(finals[g]) = {} /\ Said(out) = {}
        BY <1>2, <2>1 DEF UidsIn, Said
  <2>3. InWork(g) = {} /\ Done = {} /\ Held(g) = {} /\ Queued(g) = {} /\ Busy(g) = {}
        BY <1>2, <2>1, <2>2 DEF InWork, Held, Queued, Busy, Done, Holding
  <2>4. InOrder(segments[g], utt[g]) /\ Distinct(finals[g])
        BY <2>1 DEF InOrder, Distinct
  <2> QED BY <2>3, <2>4 DEF Token
<1> QED BY <1>1, <1>3, <1>4 DEF EndInv

\* A step of one worker leaves the tokens of the others alone.
LEMMA TokenElsewhere ==
  ASSUME NEW g \in Gens, NEW h \in Gens, g # h, Token(h),
         segments'[h] = segments[h], utt'[h] = utt[h], scribe'[h] = scribe[h],
         finals'[h] = finals[h], second'[h] = second[h],
         \A u \in Done' : u \in Done \/ u[1] = g, Done \subseteq Done'
  PROVE  Token(h)'
<1>1. /\ Held(h)' = Held(h) /\ Queued(h)' = Queued(h) /\ Busy(h)' = Busy(h)
      /\ InWork(h)' = InWork(h) /\ Waiting(h)' = Waiting(h)
      BY DEF Held, Queued, Busy, InWork, Waiting
<1>2. \A i : <<h, i>> \in Done' <=> <<h, i>> \in Done
      BY Zenon
<1> QED BY <1>1, <1>2 DEF Token

\* A message of an utterance that is not done.
LEMMA Emitted ==
  ASSUME Typed, Silent, NEW m \in Messages, Of(m) \notin Done,
         out' = Append(out, m), final' = final, acc' = acc
  PROVE  Silent' /\ Done' = Done \cup (IF m.partial THEN {} ELSE {Of(m)})
<1>1. out \in Seq(Messages)
      BY DEF Typed
<1>2. /\ Named(out') = Named(out) \cup {Of(m)}
      /\ Said(out') = Said(out) \cup (IF m.partial THEN {} ELSE {Of(m)})
      /\ LastWord(out) /\ Of(m) \notin Said(out) => LastWord(out')
      BY <1>1, AppendMessage
<1> QED BY <1>2 DEF Silent, Done

LEMMA NothingEmitted ==
  ASSUME Silent, out' = out, final' = final, acc' = acc PROVE Silent' /\ Done' = Done
BY DEF Silent, Done

\* The capture thread goes on.
LEMMA EndCapture ==
  ASSUME EndInv, NEW g \in Gens, Capture(g) PROVE EndInv'
<1> USE DEF Unheard, threads, server, history
<1>1. UNCHANGED <<scribe, second, finals, out, acc, final>>
      BY DEF Capture, Slice, EndUtterance, CutUtterance, Stop
<1>2. Typed /\ Typed' /\ Silent /\ Token(g)
      BY TypedCapture DEF EndInv
<1>3. Silent' /\ Done' = Done
      BY <1>1, <1>2, NothingEmitted
<1>4. \A h \in Gens \ {g} : segments'[h] = segments[h] /\ utt'[h] = utt[h]
      BY <1>2, ZenonT(60) DEF Capture, Slice, EndUtterance, CutUtterance, Stop, Typed
<1>5. \A h \in Gens \ {g} : Token(h)'
      BY <1>1, <1>3, <1>4, TokenElsewhere DEF EndInv
<1>6. Held(g)' = Held(g) /\ Queued(g)' = Queued(g) /\ Busy(g)' = Busy(g) /\ InWork(g)' = InWork(g)
      BY <1>1 DEF Held, Queued, Busy, InWork
<1>7. utt[g] \in Nat /\ utt[g] # 0 /\ 0 \notin Uids
      BY <1>2, UidsAre DEF Typed, Uids
<1>8. segments[g] \in Seq(SegmentsOf(g) \cup {Sentinel})
      BY <1>2 DEF Typed
<1>9. \A b \in BOOLEAN : utt[g] \in Uids =>
        /\ Segment(g, b) \in SegmentsOf(g) \cup {Sentinel}
        /\ Segment(g, b).uid = utt[g] /\ Segment(g, b).final = b
  <2> SUFFICES ASSUME utt[g] \in Uids, NEW b \in BOOLEAN
               PROVE  /\ Segment(g, b) \in SegmentsOf(g) \cup {Sentinel}
                      /\ Segment(g, b).uid = utt[g] /\ Segment(g, b).final = b
      OBVIOUS
  <2>1. slices[g] \in Nat /\ MaxSlices[utt[g]] \in Nat /\ slices[g] <= MaxSlices[utt[g]]
        BY <1>2, UidsAre DEF Typed
  <2>2. <<g, utt[g], slices[g] + 1>> \in PiecesOf(g, utt[g])
        BY <2>1, PieceFits
  <2> QED BY <2>2 DEF Segment, SegmentsOf, PiecesOf
<1>10. ASSUME utt[g] \in Uids, NEW b \in BOOLEAN
       PROVE  LET r == Append(segments[g], Segment(g, b))
              IN  /\ ~b => InOrder(r, utt[g])
                  /\ InOrder(r, utt[g] + 1)
                  /\ UidsIn(r) = UidsIn(segments[g]) \cup {utt[g]}
  <2>1. InOrder(segments[g], utt[g])
        BY <1>2 DEF Token
  <2> DEFINE x == Segment(g, b)
  <2>2. x \in SegmentsOf(g) \cup {Sentinel} /\ x.uid = utt[g] /\ x.final = b
        BY <1>9, <1>10
  <2> HIDE DEF x
  <2>3. /\ x.uid = 0 \/ ~x.final => InOrder(Append(segments[g], x), utt[g])
        /\ InOrder(Append(segments[g], x), utt[g] + 1)
        BY <1>7, <1>8, <2>1, <2>2, AppendSegment
  <2>4. UidsIn(Append(segments[g], x)) = UidsIn(segments[g]) \cup {x.uid}
        BY <1>8, <2>2, AppendUids
  <2> QED BY <2>2, <2>3, <2>4 DEF x
<1>11. /\ InOrder(segments'[g], utt'[g])
       /\ utt'[g] \in {utt[g], utt[g] + 1} /\ UidsIn(segments'[g]) \subseteq UidsIn(segments[g]) \cup {0, utt[g]}
  <2>1. CASE Slice(g)
    <3>1. segments'[g] = Append(segments[g], Segment(g, FALSE)) /\ utt' = utt /\ utt[g] \in Uids
          BY <1>2, <2>1 DEF Slice, Typed
    <3> QED BY <1>7, <1>10, <3>1
  <2>2. CASE EndUtterance(g)
    <3>1. segments'[g] = Append(segments[g], Segment(g, TRUE)) /\ utt'[g] = utt[g] + 1 /\ utt[g] \in Uids
          BY <1>2, <2>2 DEF EndUtterance, Typed
    <3> QED BY <1>7, <1>10, <3>1
  <2>3. CASE CutUtterance(g)
    <3>1. segments' = segments /\ utt'[g] = utt[g] + 1
          BY <1>2, <2>3 DEF CutUtterance, Typed
    <3> QED BY <1>2, <1>7, <3>1 DEF Token, InOrder
  <2>4. CASE Stop(g)
    <3>1. segments'[g] = Append(segments[g], Sentinel) /\ utt' = utt
          BY <1>2, <2>4 DEF Stop, Typed
    <3> QED BY <1>2, <1>7, <1>8, <3>1, UidsAre, AppendSegment, AppendUids, SMTT(60) DEF Token
  <2> QED BY <2>1, <2>2, <2>3, <2>4 DEF Capture
<1>12. Token(g)'
  <2>1. ASSUME NEW i \in Uids, i \in InWork(g) \/ <<g, i>> \in Done
        PROVE  i < utt'[g] /\ i \notin UidsIn(segments'[g])
    <3>1. i \in Nat /\ i # 0 /\ i < utt[g] /\ i \notin UidsIn(segments[g])
          BY <1>2, <2>1, UidsAre DEF Token, Waiting
    <3> QED BY <1>7, <1>11, <3>1
  <2> QED BY <1>1, <1>2, <1>3, <1>6, <1>11, <2>1 DEF Token, Waiting
<1> QED BY <1>2, <1>3, <1>5, <1>12 DEF EndInv

\* A worker shuts down.
LEMMA EndShutdown ==
  ASSUME EndInv, NEW g \in Gens, Shutdown(g) PROVE EndInv'
<1> USE DEF Unheard, threads, server, history
<1>1. UNCHANGED <<utt, segments, scribe, second, out, acc, final>>
      BY DEF Shutdown, JoinScribe, PutSentinel, JoinSecond, StartNext
<1>2. Typed /\ Typed' /\ Silent /\ Token(g)
      BY TypedShutdown DEF EndInv
<1>3. Silent' /\ Done' = Done
      BY <1>1, <1>2, NothingEmitted
<1>4. \A h \in Gens \ {g} : finals'[h] = finals[h]
      BY <1>2 DEF Shutdown, JoinScribe, PutSentinel, JoinSecond, StartNext, Typed
<1>5. \A h \in Gens \ {g} : Token(h)'
      BY <1>1, <1>3, <1>4, TokenElsewhere DEF EndInv
<1>6. finals'[g] = finals[g] \/ finals'[g] = Append(finals[g], Sentinel)
      BY <1>2 DEF Shutdown, JoinScribe, PutSentinel, JoinSecond, StartNext, Typed
<1>7. Queued(g)' = Queued(g) /\ Distinct(finals'[g])
  <2>1. finals[g] \in Seq(JobsOf(g) \cup {Sentinel}) /\ Distinct(finals[g])
        BY <1>2 DEF Typed, Token
  <2>2. UidsIn(Append(finals[g], Sentinel)) = UidsIn(finals[g]) \cup {0}
        /\ Distinct(Append(finals[g], Sentinel))
        BY <2>1, AppendUids, UidsAre
  <2> QED BY <1>6, <2>1, <2>2 DEF Queued
<1>8. Held(g)' = Held(g) /\ Busy(g)' = Busy(g) /\ InWork(g)' = InWork(g) /\ Waiting(g)' = Waiting(g)
      BY <1>1, <1>7 DEF Held, Busy, InWork, Waiting
<1>9. Token(g)'
      BY <1>1, <1>2, <1>3, <1>7, <1>8 DEF Token
<1> QED BY <1>2, <1>3, <1>5, <1>9 DEF EndInv

\* The next segment is of an utterance whose end is open; a final segment is its last one.
LEMMA TakesSegment ==
  ASSUME Typed, NEW g \in Gens, Token(g), segments[g] # <<>>, Taken(g)
  PROVE  /\ InOrder(segments'[g], utt[g]) /\ Waiting(g)' \subseteq Waiting(g)
         /\ \A h \in Gens \ {g} : segments'[h] = segments[h]
         /\ Job(g) # Sentinel =>
              /\ Job(g).uid \in Uids /\ Job(g).uid \notin InWork(g) /\ <<g, Job(g).uid>> \notin Done
              /\ Job(g).final => Job(g).uid < utt[g] /\ Job(g).uid \notin Waiting(g)'
<1>1. segments'[g] = Tail(segments[g]) /\ \A h \in Gens \ {g} : segments'[h] = segments[h]
      BY DEF Taken, Typed
<1>2. segments[g] \in Seq(SegmentsOf(g) \cup {Sentinel}) /\ InOrder(segments[g], utt[g])
      BY DEF Typed, Token
<1>3. /\ InOrder(Tail(segments[g]), utt[g])
      /\ UidsIn(Tail(segments[g])) \subseteq UidsIn(segments[g]) /\ Job(g).uid \in UidsIn(segments[g])
      /\ Job(g).uid # 0 /\ Job(g).final =>
           Job(g).uid < utt[g] /\ Job(g).uid \notin UidsIn(Tail(segments[g]))
      BY <1>2, TailSegment DEF Job
<1>4. Job(g) # Sentinel => Job(g).uid \in Uids
      BY HeadJob
<1>5. Job(g) # Sentinel => /\ Job(g).uid \notin InWork(g) /\ <<g, Job(g).uid>> \notin Done
                           /\ Job(g).uid # 0
      BY <1>3, <1>4, UidsAre DEF Token, Waiting
<1> QED BY <1>1, <1>3, <1>4, <1>5 DEF Waiting

\* Jobs are taken and nothing is emitted.
LEMMA EndTake ==
  ASSUME EndInv, NEW g \in Gens, ScribeEnds(g) \/ ScribeFails(g) PROVE EndInv'
<1>1. Typed /\ Silent /\ Token(g) /\ Typed'
      BY TypedScribe DEF EndInv, Scribe
<1>2. /\ segments[g] # <<>> /\ Taken(g) /\ scribe[g].at = "get"
      /\ UNCHANGED <<utt, second, finals, out, acc, final>>
      BY DEF ScribeEnds, ScribeFails, Takes, Elsewhere, server, history
<1>3. /\ InOrder(segments'[g], utt[g]) /\ Waiting(g)' \subseteq Waiting(g)
      /\ \A h \in Gens \ {g} : segments'[h] = segments[h]
      BY <1>1, <1>2, TakesSegment
<1>4. Silent' /\ Done' = Done
      BY <1>1, <1>2, NothingEmitted
<1>5. scribe'[g].at \in {"get", "ended"} /\ \A h \in Gens \ {g} : scribe'[h] = scribe[h]
  <2>1. CASE ScribeEnds(g)
    <3>1. scribe' = [scribe EXCEPT ![g] = [scribe[g] EXCEPT !.at = "ended"]]
          BY <1>1, <2>1 DEF ScribeEnds, Typed
    <3>2. scribe[g] \in [at : {"get", "ended"} \cup Holding, job : JobsOf(g)]
          BY <1>1 DEF Typed
    <3>3. scribe'[g] = [scribe[g] EXCEPT !.at = "ended"] /\ \A h \in Gens \ {g} : scribe'[h] = scribe[h]
          BY <1>1, <3>1 DEF Typed
    <3> QED BY <3>2, <3>3
  <2>2. CASE ScribeFails(g)
        BY <1>2, <2>2 DEF ScribeFails
  <2> QED BY <2>1, <2>2
<1>6. \A h \in Gens \ {g} : Token(h)'
      BY <1>2, <1>3, <1>4, <1>5, TokenElsewhere DEF EndInv
<1>7. Held(g)' = Held(g) /\ Queued(g)' = Queued(g) /\ Busy(g)' = Busy(g) /\ InWork(g)' = InWork(g)
      BY <1>2, <1>5 DEF Held, Queued, Busy, InWork, Holding
<1>8. Token(g)'
      BY <1>1, <1>2, <1>3, <1>4, <1>7 DEF Token
<1> QED BY <1>1, <1>4, <1>6, <1>8 DEF EndInv

LEMMA EndTranscribe ==
  ASSUME EndInv, NEW g \in Gens, Transcribe(g) PROVE EndInv'
<1>1. Typed /\ Silent /\ Token(g) /\ Typed'
      BY TypedScribe DEF EndInv, Scribe
<1>2. PICK text \in SUBSET PiecesOf(g, Job(g).uid) :
           /\ Takes(g) /\ Job(g) # Sentinel /\ Taken(g) /\ Elsewhere
           /\ Job(g).uid \in Uids /\ Job(g).final \in BOOLEAN
           /\ \/ /\ scribe' = scribe
                 /\ \/ out' = out
                    \/ out' = Append(out, Message(g, Job(g).uid, text, ~Job(g).final, FALSE))
              \/ /\ \E audio \in SUBSET PiecesOf(g, Job(g).uid) :
                      scribe' = [scribe EXCEPT ![g] =
                                   [at |-> "enqueue", job |-> [uid |-> Job(g).uid, audio |-> audio]]]
                 /\ Job(g).final
                 /\ \/ out' = out
                    \/ out' = Append(out, Message(g, Job(g).uid, text, TRUE, FALSE))
      BY <1>1, TranscribeDoes
<1> DEFINE i == Job(g).uid
<1>3. segments[g] # <<>> /\ scribe[g].at = "get" /\ UNCHANGED <<utt, second, finals, acc, final>>
      BY <1>2 DEF Takes, Elsewhere, server
<1>4. /\ InOrder(segments'[g], utt[g]) /\ Waiting(g)' \subseteq Waiting(g)
      /\ \A h \in Gens \ {g} : segments'[h] = segments[h]
      /\ i \in Uids /\ i \notin InWork(g) /\ <<g, i>> \notin Done
      /\ Job(g).final => i < utt[g] /\ i \notin Waiting(g)'
      BY <1>1, <1>2, <1>3, TakesSegment
<1>5. ASSUME NEW p \in BOOLEAN
      PROVE  /\ Message(g, i, text, p, FALSE) \in Messages
             /\ Of(Message(g, i, text, p, FALSE)) = <<g, i>>
             /\ Message(g, i, text, p, FALSE).partial = p
  <2>1. i \in Uids /\ text \in SUBSET PiecesOf(g, i) /\ FALSE \in BOOLEAN
        BY <1>2
  <2> HIDE DEF i
  <2> QED BY <2>1, MessageFits, ZenonT(60)
<1>6. /\ Silent'
      /\ \/ Done' = Done
         \/ Done' = Done \cup {<<g, i>>} /\ Job(g).final /\ scribe' = scribe
  <2>1. CASE out' = out
        BY <1>1, <1>3, <2>1, NothingEmitted
  <2>2. ASSUME NEW p \in BOOLEAN, out' = Append(out, Message(g, i, text, p, FALSE))
        PROVE  Silent' /\ Done' = Done \cup (IF p THEN {} ELSE {<<g, i>>})
    <3> DEFINE m == Message(g, i, text, p, FALSE)
    <3>1. m \in Messages /\ Of(m) = <<g, i>> /\ m.partial = p
          BY <1>5
    <3>2. out' = Append(out, m)
          BY <2>2
    <3> HIDE DEF m, i
    <3>3. Of(m) \notin Done
          BY <1>4, <3>1
    <3>4. Silent' /\ Done' = Done \cup (IF m.partial THEN {} ELSE {Of(m)})
          BY <1>1, <1>3, <3>1, <3>2, <3>3, Emitted
    <3> QED BY <3>1, <3>4
  <2> HIDE DEF i
  <2>3. CASE out' = Append(out, Message(g, i, text, ~Job(g).final, FALSE)) /\ scribe' = scribe
    <3>1. (~Job(g).final) \in BOOLEAN
          OBVIOUS
    <3> QED BY <2>2, <2>3, <3>1
  <2>4. CASE out' = Append(out, Message(g, i, text, TRUE, FALSE))
        BY <2>2, <2>4
  <2> QED BY <1>2, <2>1, <2>3, <2>4 DEF i
<1>7. /\ scribe' = scribe => Held(g)' = {}
      /\ \/ scribe' = scribe
         \/ Job(g).final /\ Held(g)' = {i} /\ \A h \in Gens \ {g} : scribe'[h] = scribe[h]
  <2>1. scribe' = scribe => Held(g)' = {}
        BY <1>3 DEF Held, Holding
  <2>2. ASSUME NEW audio \in SUBSET PiecesOf(g, Job(g).uid), Job(g).final,
               scribe' = [scribe EXCEPT ![g] =
                            [at |-> "enqueue", job |-> [uid |-> Job(g).uid, audio |-> audio]]]
        PROVE  Held(g)' = {i} /\ \A h \in Gens \ {g} : scribe'[h] = scribe[h]
    <3>1. scribe'[g] = [at |-> "enqueue", job |-> [uid |-> Job(g).uid, audio |-> audio]]
          /\ \A h \in Gens \ {g} : scribe'[h] = scribe[h]
          BY <1>1, <2>2 DEF Typed
    <3> QED BY <3>1 DEF Held, Holding
  <2> QED BY <1>2, <2>1, <2>2
<1>8. Held(g) = {} /\ Queued(g)' = Queued(g) /\ Busy(g)' = Busy(g)
      BY <1>3 DEF Held, Queued, Busy, Holding
<1> HIDE DEF i
<1>9. \A h \in Gens \ {g} : Token(h)'
  <2> SUFFICES ASSUME NEW h \in Gens, h # g PROVE Token(h)'
      OBVIOUS
  <2>1. /\ segments'[h] = segments[h] /\ utt'[h] = utt[h] /\ scribe'[h] = scribe[h]
        /\ finals'[h] = finals[h] /\ second'[h] = second[h]
        BY <1>3, <1>4, <1>7
  <2>2. \A u \in Done' : u \in Done \/ u[1] = g
        BY <1>6
  <2>3. Done \subseteq Done' /\ Token(h)
        BY <1>6 DEF EndInv
  <2> QED BY <2>1, <2>2, <2>3, TokenElsewhere
<1>10. Token(g)'
  <2>1. InWork(g)' \subseteq InWork(g) \cup Held(g)' /\ InWork(g) = Queued(g) \cup Busy(g)
        /\ InWork(g)' = Held(g)' \cup Queued(g) \cup Busy(g)
        BY <1>8 DEF InWork
  <2>2. Held(g)' \cap Queued(g) = {} /\ Held(g)' \cap Busy(g) = {} /\ Queued(g) \cap Busy(g) = {}
        BY <1>1, <1>4, <1>7, <2>1 DEF Token
  <2>3. \A j \in InWork(g)' : <<g, j>> \notin Done'
        BY <1>1, <1>4, <1>6, <1>7, <2>1 DEF Token
  <2>4. \A j \in Uids : j \in InWork(g)' \/ <<g, j>> \in Done' => j < utt[g] /\ j \notin Waiting(g)'
        BY <1>1, <1>4, <1>6, <1>7, <2>1 DEF Token
  <2> QED BY <1>1, <1>3, <1>4, <1>8, <2>2, <2>3, <2>4 DEF Token
<1> QED BY <1>1, <1>6, <1>9, <1>10 DEF EndInv

\* A token moves on, or turns into a final message.
LEMMA TokenMoves ==
  ASSUME NEW g \in Gens, Token(g), utt'[g] = utt[g], segments'[g] = segments[g], Distinct(finals'[g]),
         Held(g)' \cap Queued(g)' = {}, Held(g)' \cap Busy(g)' = {}, Queued(g)' \cap Busy(g)' = {},
         Held(g)' \cup Queued(g)' \cup Busy(g)' \subseteq InWork(g),
         NEW D \in SUBSET InWork(g), D \cap (Held(g)' \cup Queued(g)' \cup Busy(g)') = {},
         Done' = Done \cup {<<g, i>> : i \in D}
  PROVE  Token(g)'
<1>1. InWork(g)' = Held(g)' \cup Queued(g)' \cup Busy(g)' /\ Waiting(g)' = Waiting(g)
      BY DEF InWork, Waiting
<1>2. \A i : <<g, i>> \in Done' <=> <<g, i>> \in Done \/ i \in D
      OBVIOUS
<1>3. \A i \in InWork(g)' : <<g, i>> \notin Done'
      BY <1>1, <1>2 DEF Token
<1>4. \A i \in Uids : i \in InWork(g)' \/ <<g, i>> \in Done' => i < utt[g] /\ i \notin Waiting(g)
      BY <1>1, <1>2 DEF Token
<1> QED BY <1>1, <1>3, <1>4 DEF Token

\* The other workers, when one moves its token.
LEMMA OthersRest ==
  ASSUME EndInv, NEW g \in Gens, Typed', Silent', Token(g)', UNCHANGED <<utt, segments>>,
         \A h \in Gens \ {g} : scribe'[h] = scribe[h] /\ finals'[h] = finals[h] /\ second'[h] = second[h],
         NEW D, Done' = Done \cup {<<g, i>> : i \in D}
  PROVE  EndInv'
<1>1. ASSUME NEW h \in Gens, h # g PROVE Token(h)'
  <2>1. (\A u \in Done' : u \in Done \/ u[1] = g) /\ Done \subseteq Done'
        OBVIOUS
  <2> QED BY <1>1, <2>1, TokenElsewhere DEF EndInv
<1> QED BY <1>1 DEF EndInv

\* The final queue, from its head.
LEMMA QueueHead ==
  ASSUME Typed, NEW g \in Gens, Token(g), finals[g] # <<>>
  PROVE  LET j == Head(finals[g])
             rest == UidsIn(Tail(finals[g])) \ {0}
         IN  /\ Distinct(Tail(finals[g]))
             /\ j = Sentinel => Queued(g) = rest
             /\ j # Sentinel => /\ j \in JobsOf(g) /\ j.uid \in Uids /\ j.uid \notin rest
                                /\ Queued(g) = rest \cup {j.uid}
<1>1. finals[g] \in Seq(JobsOf(g) \cup {Sentinel}) /\ Distinct(finals[g])
      BY DEF Typed, Token
<1>2. /\ UidsIn(finals[g]) = UidsIn(Tail(finals[g])) \cup {Head(finals[g]).uid}
      /\ Distinct(Tail(finals[g]))
      /\ Head(finals[g]).uid # 0 => Head(finals[g]).uid \notin UidsIn(Tail(finals[g]))
      BY <1>1, TailUids
<1>3. Head(finals[g]) = Sentinel => Head(finals[g]).uid = 0
      BY UidsAre
<1>4. Head(finals[g]) # Sentinel => /\ Head(finals[g]) \in JobsOf(g)
                                    /\ Head(finals[g]).uid \in Uids /\ Head(finals[g]).uid # 0
      BY FinalsTail, UidsAre
<1> QED BY <1>2, <1>3, <1>4 DEF Queued

\* The final queue, with the job in hand at its end.
LEMMA QueueTail ==
  ASSUME Typed, NEW g \in Gens, Token(g), scribe[g].at \in Holding
  PROVE  /\ scribe[g].job \in JobsOf(g) /\ scribe[g].job.uid \in Uids
         /\ Held(g) = {scribe[g].job.uid} /\ scribe[g].job.uid \in InWork(g)
         /\ Distinct(Append(finals[g], scribe[g].job))
         /\ UidsIn(Append(finals[g], scribe[g].job)) \ {0} = Queued(g) \cup Held(g)
<1>1. finals[g] \in Seq(JobsOf(g) \cup {Sentinel}) /\ scribe[g].job \in JobsOf(g) \cup {Sentinel}
      /\ scribe[g].job \in JobsOf(g)
      BY DEF Typed
<1>2. scribe[g].job.uid \in Uids /\ scribe[g].job.uid # 0
      BY <1>1, UidsAre
<1>3. Held(g) = {scribe[g].job.uid} /\ scribe[g].job.uid \in InWork(g)
      BY DEF Held, InWork
<1>4. scribe[g].job.uid \notin UidsIn(finals[g]) /\ Distinct(finals[g])
      BY <1>2, <1>3 DEF Token, Queued
<1>5. Distinct(Append(finals[g], scribe[g].job))
      /\ UidsIn(Append(finals[g], scribe[g].job)) = UidsIn(finals[g]) \cup {scribe[g].job.uid}
      BY <1>1, <1>4, AppendUids
<1> QED BY <1>1, <1>2, <1>3, <1>5 DEF Queued

\* A job is flushed by a plain, empty final.
LEMMA Flushed ==
  ASSUME EndInv, NEW g \in Gens, NEW j \in JobsOf(g), j.uid \in InWork(g),
         NEW text \in SUBSET PiecesOf(g, j.uid), NEW r \in BOOLEAN,
         out' = Append(out, Message(g, j.uid, text, FALSE, r)), final' = final, acc' = acc
  PROVE  Silent' /\ Done' = Done \cup {<<g, i>> : i \in {j.uid}}
<1> DEFINE m == Message(g, j.uid, text, FALSE, r)
<1>1. j.uid \in Uids
      BY UidsAre
<1>2. m \in Messages /\ Of(m) = <<g, j.uid>> /\ m.partial = FALSE
      BY <1>1, MessageFits, ZenonT(60)
<1>3. out' = Append(out, m)
      OBVIOUS
<1> HIDE DEF m
<1>4. Of(m) \notin Done
      BY <1>2 DEF EndInv, Token
<1>5. Silent' /\ Done' = Done \cup (IF m.partial THEN {} ELSE {Of(m)})
      BY <1>2, <1>3, <1>4, Emitted DEF EndInv
<1> QED BY <1>2, <1>5

LEMMA NothingFlushed ==
  ASSUME EndInv, NEW g \in Gens, out' = out, final' = final, acc' = acc
  PROVE  Silent' /\ Done' = Done \cup {<<g, i>> : i \in {}}
<1>1. Silent' /\ Done' = Done
      BY NothingEmitted DEF EndInv
<1> QED BY <1>1

\* The transcription thread puts its job into the final queue, or makes room.
LEMMA EndQueue ==
  ASSUME EndInv, NEW g \in Gens,
         \/ EnqueueFinal(g) \/ DropOldest(g) \/ DropSentinel(g)
         \/ NothingToDrop(g) \/ EnqueueAgain(g)
  PROVE  EndInv'
<1>1. Typed /\ Token(g) /\ Typed'
      BY TypedScribe DEF EndInv, Scribe
<1>2. /\ UNCHANGED <<utt, segments, second, acc, final>> /\ scribe[g].at \in Holding
      /\ \A h \in Gens \ {g} : scribe'[h] = scribe[h] /\ finals'[h] = finals[h]
  <2>1. Rest /\ scribe[g].at \in Holding
        BY DEF EnqueueFinal, DropOldest, DropSentinel, NothingToDrop, EnqueueAgain, Holding
  <2>2. \E place : ScribeAt(g, place)
        BY DEF EnqueueFinal, DropOldest, DropSentinel, NothingToDrop, EnqueueAgain
  <2>3. finals' = finals \/ \E q : finals' = [finals EXCEPT ![g] = q]
        BY <1>1 DEF EnqueueFinal, DropOldest, DropSentinel, NothingToDrop, EnqueueAgain, QueueFinal, Typed
  <2> QED BY <1>1, <2>1, <2>2, <2>3 DEF Rest, server, ScribeAt, Typed
<1>3. Busy(g)' = Busy(g)
      BY <1>2 DEF Busy
<1> DEFINE j == scribe[g].job
<1>4. /\ j \in JobsOf(g) /\ j.uid \in Uids /\ Held(g) = {j.uid} /\ j.uid \in InWork(g)
      /\ Distinct(Append(finals[g], j)) /\ UidsIn(Append(finals[g], j)) \ {0} = Queued(g) \cup Held(g)
      BY <1>1, <1>2, QueueTail
<1>5. ASSUME NEW place \in {"get"} \cup Holding, ScribeAt(g, place)
      PROVE  Held(g)' = IF place = "get" THEN {} ELSE {j.uid}
  <2>1. scribe'[g] = [scribe[g] EXCEPT !.at = place]
        BY <1>1, <1>5 DEF ScribeAt, Typed
  <2>2. scribe[g] \in [at : {"get", "ended"} \cup Holding, job : JobsOf(g)]
        BY <1>1 DEF Typed
  <2>3. scribe'[g].at = place /\ scribe'[g].job = j
        BY <2>1, <2>2
  <2> QED BY <2>3 DEF Held, Holding
<1>6. InWork(g) = Held(g) \cup Queued(g) \cup Busy(g)
      BY DEF InWork
<1>7. Held(g) \cap Queued(g) = {} /\ Held(g) \cap Busy(g) = {} /\ Queued(g) \cap Busy(g) = {}
      /\ Distinct(finals[g])
      BY <1>1 DEF Token
<1> HIDE DEF j
<1>8. ASSUME QueueFinal(g), ScribeAt(g, "get")
      PROVE  /\ Distinct(finals'[g]) /\ Queued(g)' = Queued(g) \cup Held(g) /\ Held(g)' = {}
  <2>1. finals'[g] = Append(finals[g], j)
        BY <1>1, <1>8 DEF QueueFinal, Typed, j
  <2> QED BY <1>4, <1>5, <1>8, <2>1 DEF Queued
<1>9. ASSUME finals' = finals PROVE Distinct(finals'[g]) /\ Queued(g)' = Queued(g)
      BY <1>7, <1>9 DEF Queued
<1>10. ASSUME NEW D \in SUBSET InWork(g), Silent', Done' = Done \cup {<<g, i>> : i \in D}, Distinct(finals'[g]),
              Held(g)' \cap Queued(g)' = {}, Held(g)' \cap Busy(g) = {}, Queued(g)' \cap Busy(g) = {},
              Held(g)' \cup Queued(g)' \cup Busy(g) \subseteq InWork(g) \ D
       PROVE  EndInv'
  <2>1. Token(g)'
        BY <1>1, <1>2, <1>3, <1>10, TokenMoves
  <2> QED BY <1>1, <1>2, <1>10, <2>1, OthersRest
<1>11. out' = out => Silent' /\ Done' = Done \cup {<<g, i>> : i \in {}}
      BY <1>2, NothingFlushed
<1>12. CASE EnqueueFinal(g)
  <2>1. out' = out
        BY <1>12 DEF EnqueueFinal
  <2>2. CASE Len(finals[g]) < FinalCap
    <3>1. QueueFinal(g) /\ ScribeAt(g, "get")
          BY <1>12, <2>2 DEF EnqueueFinal
    <3> QED BY <1>6, <1>7, <1>8, <1>10, <1>11, <2>1, <3>1
  <2>3. CASE ~(Len(finals[g]) < FinalCap)
    <3>1. finals' = finals /\ ScribeAt(g, "drop")
          BY <1>12, <2>3 DEF EnqueueFinal
    <3>2. Held(g)' = Held(g)
          BY <1>4, <1>5, <3>1 DEF Holding
    <3> QED BY <1>6, <1>7, <1>9, <1>10, <1>11, <2>1, <3>1, <3>2
  <2> QED BY <2>2, <2>3
<1>13. CASE DropOldest(g)
  <2> DEFINE o == Head(finals[g])
  <2>1. /\ finals[g] # <<>> /\ o # Sentinel /\ finals'[g] = Tail(finals[g])
        /\ ScribeAt(g, "retry") /\ out' = Append(out, Message(g, o.uid, {}, FALSE, FALSE))
        BY <1>1, <1>13 DEF DropOldest, Emit, Typed
  <2>2. /\ Distinct(finals'[g]) /\ o \in JobsOf(g) /\ o.uid \notin Queued(g)'
        /\ Queued(g) = Queued(g)' \cup {o.uid}
        BY <1>1, <2>1, QueueHead DEF Queued
  <2>3. Held(g)' = Held(g)
        BY <1>4, <1>5, <2>1 DEF Holding
  <2> HIDE DEF o
  <2>4. o.uid \in InWork(g)
        BY <1>6, <2>2
  <2>5. Silent' /\ Done' = Done \cup {<<g, i>> : i \in {o.uid}}
        BY <1>2, <2>1, <2>2, <2>4, Flushed
  <2> QED BY <1>6, <1>7, <1>10, <2>2, <2>3, <2>4, <2>5, ZenonT(60)
<1>14. CASE DropSentinel(g)
  <2>1. /\ finals[g] # <<>> /\ Head(finals[g]) = Sentinel /\ finals'[g] = Tail(finals[g])
        /\ ScribeAt(g, "get") /\ out' = out
        BY <1>1, <1>14 DEF DropSentinel, Typed
  <2>2. Distinct(finals'[g]) /\ Queued(g) = Queued(g)'
        BY <1>1, <2>1, QueueHead DEF Queued
  <2>3. Held(g)' = {}
        BY <1>5, <2>1
  <2> QED BY <1>6, <1>7, <1>10, <1>11, <2>1, <2>2, <2>3
<1>15. CASE NothingToDrop(g)
  <2>1. finals' = finals /\ out' = out /\ ScribeAt(g, "retry")
        BY <1>15 DEF NothingToDrop
  <2>2. Held(g)' = Held(g)
        BY <1>4, <1>5, <2>1 DEF Holding
  <2> QED BY <1>6, <1>7, <1>9, <1>10, <1>11, <2>1, <2>2
<1>16. CASE EnqueueAgain(g)
  <2>1. ScribeAt(g, "get")
        BY <1>16 DEF EnqueueAgain
  <2>2. CASE Len(finals[g]) < FinalCap
    <3>1. QueueFinal(g) /\ out' = out
          BY <1>16, <2>2 DEF EnqueueAgain
    <3> QED BY <1>6, <1>7, <1>8, <1>10, <1>11, <2>1, <3>1
  <2>3. CASE ~(Len(finals[g]) < FinalCap)
    <3>1. finals' = finals /\ out' = Append(out, Message(g, j.uid, {}, FALSE, FALSE))
          BY <1>16, <2>3 DEF EnqueueAgain, Emit, j
    <3>2. Silent' /\ Done' = Done \cup {<<g, i>> : i \in {j.uid}}
          BY <1>2, <1>4, <3>1, Flushed
    <3>3. Held(g)' = {}
          BY <1>5, <2>1
    <3>4. Queued(g)' = Queued(g) /\ Distinct(finals'[g])
          BY <1>9, <3>1
    <3>5. Held(g)' \cup Queued(g)' \cup Busy(g) \subseteq InWork(g) \ {j.uid}
          BY <1>4, <1>6, <1>7, <3>3, <3>4
    <3>6. {j.uid} \in SUBSET InWork(g) /\ Queued(g)' \cap Busy(g) = {}
          BY <1>4, <1>7, <3>4
    <3> QED BY <1>10, <3>2, <3>3, <3>4, <3>5, <3>6
  <2> QED BY <2>2, <2>3
<1> QED BY <1>12, <1>13, <1>14, <1>15, <1>16

\* The final-pass thread takes a job, or turns it into a final message.
LEMMA EndSecond ==
  ASSUME EndInv, NEW g \in Gens, Second(g) PROVE EndInv'
<1>1. Typed /\ Token(g) /\ Typed'
      BY TypedSecond DEF EndInv
<1>2. /\ UNCHANGED <<utt, segments, scribe, acc, final>> /\ Held(g)' = Held(g)
      /\ \A h \in Gens \ {g} : second'[h] = second[h] /\ finals'[h] = finals[h]
  <2>1. UNCHANGED <<utt, segments, scribe, acc, final>>
        BY DEF Second, SecondTakes, SecondPass, SecondEmits, server, queues
  <2>2. Held(g)' = Held(g)
        BY <2>1 DEF Held
  <2>3. \A h \in Gens \ {g} : second'[h] = second[h] /\ finals'[h] = finals[h]
        BY <1>1 DEF Second, SecondTakes, SecondPass, SecondEmits, queues, Typed
  <2> QED BY <2>1, <2>2, <2>3
<1>3. InWork(g) = Held(g) \cup Queued(g) \cup Busy(g)
      BY DEF InWork
<1>4. Held(g) \cap Queued(g) = {} /\ Held(g) \cap Busy(g) = {} /\ Queued(g) \cap Busy(g) = {}
      /\ Distinct(finals[g])
      BY <1>1 DEF Token
<1>5. ASSUME NEW D \in SUBSET InWork(g), Silent', Done' = Done \cup {<<g, i>> : i \in D}, Distinct(finals'[g]),
             Held(g) \cap Queued(g)' = {}, Held(g) \cap Busy(g)' = {}, Queued(g)' \cap Busy(g)' = {},
             Held(g) \cup Queued(g)' \cup Busy(g)' \subseteq InWork(g) \ D
      PROVE  EndInv'
  <2>1. Token(g)'
        BY <1>1, <1>2, <1>5, TokenMoves
  <2> QED BY <1>1, <1>2, <1>5, <2>1, OthersRest
<1>6. CASE SecondTakes(g)
  <2> DEFINE o == Head(finals[g])
  <2>1. /\ finals[g] # <<>> /\ finals'[g] = Tail(finals[g]) /\ out' = out /\ second[g].at = "get"
        /\ second'[g] = IF o = Sentinel THEN [at |-> "ended", job |-> NoJob] ELSE [at |-> "busy", job |-> o]
        BY <1>1, <1>6 DEF SecondTakes, Typed
  <2>2. /\ Distinct(finals'[g])
        /\ o = Sentinel => Queued(g) = Queued(g)'
        /\ o # Sentinel => o.uid \notin Queued(g)' /\ Queued(g) = Queued(g)' \cup {o.uid}
        BY <1>1, <2>1, QueueHead DEF Queued
  <2>3. Busy(g) = {} /\ Busy(g)' = IF o = Sentinel THEN {} ELSE {o.uid}
    <3> HIDE DEF o
    <3>1. Busy(g) = {}
          BY <2>1 DEF Busy
    <3>2. CASE o = Sentinel
          BY <2>1, <3>1, <3>2 DEF Busy
    <3>3. CASE o # Sentinel
      <4>1. second'[g] = [at |-> "busy", job |-> o]
            BY <2>1, <3>3
      <4> QED BY <3>1, <3>3, <4>1 DEF Busy
    <3> QED BY <3>2, <3>3
  <2> HIDE DEF o
  <2>4. Silent' /\ Done' = Done \cup {<<g, i>> : i \in {}}
        BY <1>2, <2>1, NothingFlushed
  <2> QED BY <1>3, <1>4, <1>5, <2>2, <2>3, <2>4
<1>7. CASE SecondPass(g)
  <2>1. PICK text \in SUBSET second[g].job.audio : SecondEmits(g, text)
        BY <1>7 DEF SecondPass
  <2> DEFINE j == second[g].job
  <2>2. /\ second[g].at = "busy" /\ finals' = finals /\ second'[g] = [at |-> "get", job |-> NoJob]
        /\ out' = Append(out, Message(g, j.uid, text, FALSE, text # {}))
        BY <1>1, <2>1 DEF SecondEmits, Emit, queues, Typed
  <2>3. Busy(g) = {j.uid} /\ Busy(g)' = {} /\ Queued(g)' = Queued(g)
        BY <2>2 DEF Busy, Queued
  <2>4. j \in JobsOf(g) /\ text \in SUBSET PiecesOf(g, j.uid)
        BY <1>1, BusyJob
  <2> HIDE DEF j
  <2>5. j.uid \in InWork(g) /\ (text # {}) \in BOOLEAN
        BY <1>3, <2>3
  <2>6. Silent' /\ Done' = Done \cup {<<g, i>> : i \in {j.uid}}
        BY <1>2, <2>2, <2>4, <2>5, Flushed
  <2> QED BY <1>3, <1>4, <1>5, <2>2, <2>3, <2>5, <2>6
<1> QED BY <1>6, <1>7 DEF Second

\* The pump publishes a message: a final one was the last of its utterance.
LEMMA EndPump ==
  ASSUME EndInv, RxPump PROVE EndInv'
<1>1. Typed /\ Typed' /\ Silent
      BY TypedPump DEF EndInv
<1>2. PICK m \in Messages, text \in SUBSET Pieces :
           /\ out # <<>> /\ m = Head(out) /\ out' = Tail(out)
           /\ m.gen \in Gens /\ m.uid \in Uids /\ m.partial \in BOOLEAN
           /\ m.text \subseteq PiecesOf(m.gen, m.uid)
           /\ text = (IF m.partial THEN acc[m.uid] \cup m.text
                      ELSE ResolveFinal(acc[m.uid], m.text, m.replace))
           /\ acc' = [acc EXCEPT ![m.uid] = IF m.partial THEN text ELSE {}]
           /\ final' = IF m.partial THEN final ELSE final \cup {Of(m)}
           /\ UNCHANGED <<utt, scribe, second, segments, finals>>
      BY <1>1, PumpDoes
<1>3. out \in Seq(Messages)
      BY <1>1 DEF Typed
<1>4. /\ Named(out) = Named(out') \cup {Of(m)}
      /\ Said(out) = Said(out') \cup (IF m.partial THEN {} ELSE {Of(m)})
      /\ LastWord(out') /\ (~m.partial => Of(m) \notin Named(out'))
      BY <1>1, <1>2, <1>3, TailMessage DEF Silent
<1>5. Done' = Done
      BY <1>2, <1>4 DEF Done
<1>6. Silent'
  <2>1. final' \cap Named(out') = {}
        BY <1>1, <1>2, <1>4 DEF Silent
  <2>2. ASSUME NEW i \in Uids, NEW p \in acc'[i] PROVE p[2] = i /\ <<p[1], p[2]>> \notin final'
    <3>1. CASE i # m.uid
      <4>1. p \in acc[i]
            BY <1>1, <1>2, <2>2, <3>1 DEF Typed
      <4>2. p[2] = i /\ <<p[1], p[2]>> \notin final
            BY <1>1, <4>1 DEF Silent
      <4>3. <<p[1], p[2]>> # Of(m)
            BY <3>1, <4>2 DEF Of
      <4> QED BY <1>2, <4>2, <4>3
    <3>2. CASE i = m.uid
      <4>1. acc'[i] = IF m.partial THEN text ELSE {}
            BY <1>1, <1>2, <3>2 DEF Typed
      <4>2. m.partial /\ p \in acc[i] \cup m.text /\ final' = final
            BY <1>2, <2>2, <3>2, <4>1
      <4>3. CASE p \in acc[i]
            BY <1>1, <4>2, <4>3 DEF Silent
      <4>4. CASE p \in m.text
        <5>1. p[1] = m.gen /\ p[2] = m.uid
              BY <1>2, <4>4 DEF PiecesOf
        <5>2. Of(m) \notin final
              BY <1>1, <1>4 DEF Silent
        <5> QED BY <3>2, <4>2, <5>1, <5>2 DEF Of
      <4> QED BY <4>2, <4>3, <4>4
    <3> QED BY <3>1, <3>2
  <2> QED BY <1>4, <2>1, <2>2 DEF Silent
<1>7. ASSUME NEW g \in Gens PROVE Token(g)'
  <2>1. /\ Held(g)' = Held(g) /\ Queued(g)' = Queued(g) /\ Busy(g)' = Busy(g)
        /\ InWork(g)' = InWork(g) /\ Waiting(g)' = Waiting(g)
        BY <1>2 DEF Held, Queued, Busy, InWork, Waiting
  <2> QED BY <1>2, <1>5, <2>1 DEF EndInv, Token
<1> QED BY <1>1, <1>6, <1>7 DEF EndInv

LEMMA EndNext == EndInv /\ [Next]_vars => EndInv'
<1>1. ASSUME EndInv, NEW g \in Gens, Scribe(g) PROVE EndInv'
      BY <1>1, EndTake, EndTranscribe, EndQueue DEF Scribe
<1>2. EndInv /\ Next => EndInv'
      BY <1>1, EndCapture, EndShutdown, EndSecond, EndPump DEF Next
<1>3. ASSUME EndInv, UNCHANGED vars PROVE EndInv'
  <2>1. UNCHANGED <<capture, utt, slices, scribe, second, segments, finals, pending, out, acc, shown, final,
                    heard, lost>>
        BY <1>3 DEF vars, threads, queues, server, history
  <2>2. Typed'
        BY <1>3, TypedNext DEF EndInv
  <2>3. Silent' /\ Done' = Done
        BY <1>3, <2>1, NothingEmitted DEF EndInv
  <2>4. ASSUME NEW g \in Gens PROVE Token(g)'
    <3>1. /\ Held(g)' = Held(g) /\ Queued(g)' = Queued(g) /\ Busy(g)' = Busy(g)
          /\ InWork(g)' = InWork(g) /\ Waiting(g)' = Waiting(g)
          BY <2>1 DEF Held, Queued, Busy, InWork, Waiting
    <3> QED BY <1>3, <2>1, <2>3, <3>1 DEF EndInv, Token
  <2> QED BY <2>2, <2>3, <2>4 DEF EndInv
<1> QED BY <1>2, <1>3

LEMMA EndIsTheEnd == EndInv => FinalIsTheEnd
<1> SUFFICES ASSUME EndInv, NEW u \in final
             PROVE  /\ \A p \in acc[u[2]] : <<p[1], p[2]>> # u
                    /\ \A i \in DOMAIN out : <<out[i].gen, out[i].uid>> # u
                    /\ \A i \in DOMAIN finals[u[1]] : finals[u[1]][i].uid # u[2]
    BY DEF FinalIsTheEnd
<1>1. Typed /\ Silent
      BY DEF EndInv
<1>2. u[1] \in Gens /\ u[2] \in Uids /\ u = <<u[1], u[2]>>
      BY <1>1 DEF Typed, Utterances
<1>3. \A p \in acc[u[2]] : <<p[1], p[2]>> # u
      BY <1>1, <1>2 DEF Silent
<1>4. \A i \in DOMAIN out : <<out[i].gen, out[i].uid>> # u
  <2>1. out \in Seq(Messages) /\ u \notin Named(out)
        BY <1>1 DEF Typed, Silent
  <2>2. DOMAIN out = 1 .. Len(out)
        BY <2>1
  <2> QED BY <2>1, <2>2 DEF Named, Of
<1>5. \A i \in DOMAIN finals[u[1]] : finals[u[1]][i].uid # u[2]
  <2>1. u[2] \notin InWork(u[1])
        BY <1>2 DEF EndInv, Token, Done
  <2>2. u[2] \notin UidsIn(finals[u[1]])
        BY <1>2, <2>1, UidsAre DEF InWork, Queued
  <2>3. finals[u[1]] \in Seq(JobsOf(u[1]) \cup {Sentinel})
        BY <1>1, <1>2 DEF Typed
  <2>4. DOMAIN finals[u[1]] = 1 .. Len(finals[u[1]])
        BY <2>3
  <2> QED BY <2>2, <2>4 DEF UidsIn
<1> QED BY <1>3, <1>4, <1>5

\* Once an utterance is final, nothing of it is held or on its way: "every job ends in
\* exactly one final emission".
THEOREM FinalEnds == Spec => []FinalIsTheEnd
BY EndInit, EndNext, EndIsTheEnd, PTL DEF Spec

-----------------------------------------------------------------------------
(* What is heard is kept, while one worker runs *)

LEMMA PiecesFinite == IsFiniteSet(Pieces)
<1> DEFINE Of3(u) == Gens \X {u} \X (1 .. MaxSlices[u] + 1)
           all == {Of3(u) : u \in Uids}
           f == [u \in Uids |-> Of3(u)]
<1>1. ASSUME NEW u \in Uids PROVE IsFiniteSet(Of3(u))
  <2> DEFINE T == Of3(u)
             R == Gens \X (1 .. MaxSlices[u] + 1)
             e == [p \in T |-> <<p[1], p[3]>>]
  <2>1. MaxSlices[u] \in Nat /\ MaxGen \in Nat
        BY TranscriptionAssumption
  <2>2. IsFiniteSet(Gens) /\ IsFiniteSet(1 .. MaxSlices[u] + 1)
        BY <2>1, FS_Interval, SMTT(60) DEF Gens
  <2>3. IsFiniteSet(R)
        BY <2>2, FS_Product
  <2>4. e \in Injection(T, R)
        BY DEF Injection, IsInjective
  <2> QED BY <2>3, <2>4, FS_Injection
<1> HIDE DEF Of3
<1>2. IsFiniteSet(Uids)
      BY TranscriptionAssumption, FS_Interval DEF Uids
<1>3. f \in Surjection(Uids, all)
      BY DEF Surjection
<1>4. IsFiniteSet(all)
      BY <1>2, <1>3, FS_Surjection
<1>5. \A T \in all : IsFiniteSet(T)
      BY <1>1
<1>6. IsFiniteSet(UNION all)
      BY <1>4, <1>5, FS_UNION
<1> QED BY <1>6 DEF Pieces, Of3

LEMMA Sizes ==
  ASSUME NEW S \in SUBSET Pieces, NEW T \in SUBSET Pieces
  PROVE  /\ Cardinality(S) \in Nat /\ Cardinality(T) \in Nat
         /\ S \subseteq T => Cardinality(S) <= Cardinality(T)
<1>1. IsFiniteSet(S) /\ IsFiniteSet(T)
      BY PiecesFinite, FS_Subset
<1>2. S \subseteq T => Cardinality(S) <= Cardinality(T)
      BY <1>1, FS_Subset
<1> QED BY <1>1, <1>2, FS_CardinalityType

\* A final text against what was accumulated: nothing is erased, and the words are kept.
LEMMA Resolves ==
  ASSUME NEW prior \in SUBSET Pieces, NEW text \in SUBSET Pieces, NEW replace \in BOOLEAN
  PROVE  LET r == ResolveFinal(prior, text, replace)
         IN  /\ r \in SUBSET Pieces
             /\ prior \subseteq r \/ 2 * Cardinality(r) >= Cardinality(prior)
             /\ ~replace => r = prior \cup text
<1>1. CASE replace /\ text # {}
  <2>1. CASE 2 * Cardinality(text) < Cardinality(prior)
        BY <1>1, <2>1 DEF ResolveFinal
  <2>2. CASE ~(2 * Cardinality(text) < Cardinality(prior))
    <3>1. Cardinality(text) \in Nat /\ Cardinality(prior) \in Nat
          BY Sizes
    <3> QED BY <1>1, <2>2, <3>1 DEF ResolveFinal
  <2> QED BY <2>1, <2>2
<1>2. CASE ~(replace /\ text # {})
      BY <1>2 DEF ResolveFinal
<1> QED BY <1>1, <1>2

\* First-pass texts of an utterance that are on their way.
Coming(q, u) == {p \in Pieces : \E k \in 1 .. Len(q) : Of(q[k]) = u /\ ~q[k].replace /\ p \in q[k].text}

LEMMA ComingAppend ==
  ASSUME NEW S, NEW q \in Seq(S), NEW m \in S, NEW u
  PROVE  /\ Coming(q, u) \subseteq Coming(Append(q, m), u)
         /\ Of(m) = u /\ ~m.replace /\ m.text \subseteq Pieces => m.text \subseteq Coming(Append(q, m), u)
<1> DEFINE r == Append(q, m)
<1>1. /\ Len(r) = Len(q) + 1 /\ Len(q) \in Nat /\ r[Len(q) + 1] = m
      /\ \A k \in 1 .. Len(q) : r[k] = q[k] /\ k \in 1 .. Len(q) + 1
      BY Longer
<1> HIDE DEF r
<1>2. Len(q) + 1 \in 1 .. Len(r)
      BY <1>1
<1>3. Coming(q, u) \subseteq Coming(r, u)
      BY <1>1 DEF Coming
<1>4. Of(m) = u /\ ~m.replace /\ m.text \subseteq Pieces => m.text \subseteq Coming(r, u)
      BY <1>1, <1>2 DEF Coming
<1> QED BY <1>3, <1>4 DEF r

LEMMA ComingTail ==
  ASSUME NEW S, NEW q \in Seq(S), q # <<>>, NEW u
  PROVE  /\ Of(Head(q)) # u => Coming(q, u) \subseteq Coming(Tail(q), u)
         /\ Coming(q, u) \subseteq Coming(Tail(q), u) \cup Head(q).text
         /\ Head(q).replace => Coming(q, u) \subseteq Coming(Tail(q), u)
         /\ u \notin Named(Tail(q)) => Coming(Tail(q), u) = {}
<1> DEFINE r == Tail(q)
<1>1. /\ Len(r) = Len(q) - 1 /\ Len(q) \in Nat /\ Head(q) = q[1]
      /\ \A k \in 1 .. Len(q) : k = 1 \/ (k - 1 \in 1 .. Len(r) /\ r[k - 1] = q[k])
      BY Shorter
<1> HIDE DEF r
<1>2. ASSUME NEW p \in Coming(q, u)
      PROVE  p \in Coming(r, u) \/ (Of(q[1]) = u /\ ~q[1].replace /\ p \in q[1].text)
  <2>1. PICK k \in 1 .. Len(q) : Of(q[k]) = u /\ ~q[k].replace /\ p \in q[k].text
        BY DEF Coming
  <2>2. p \in Pieces
        BY DEF Coming
  <2>3. CASE k = 1
        BY <2>1, <2>3
  <2>4. CASE k # 1
    <3>1. k - 1 \in 1 .. Len(r) /\ r[k - 1] = q[k]
          BY <1>1, <2>4
    <3> QED BY <2>1, <2>2, <3>1 DEF Coming
  <2> QED BY <2>3, <2>4
<1>3. u \notin Named(r) => Coming(r, u) = {}
      BY DEF Coming, Named
<1> QED BY <1>1, <1>2, <1>3 DEF r

\* Until an utterance is final, what was heard of it is accumulated or on its way, and what is
\* shown of it is accumulated; a final text leaves out at most half of it.
Kept ==
  /\ \A u \in Utterances \ final : /\ heard[u] \subseteq acc[u[2]] \cup Coming(out, u)
                                   /\ shown[u] \subseteq acc[u[2]]
  /\ TranscriptKept

KeptInv == EndInv /\ Kept

LEMMA KeptInit == Init => KeptInv
<1> SUFFICES ASSUME Init PROVE KeptInv
    OBVIOUS
<1>1. final = {} /\ \A u \in Utterances : heard[u] = {} /\ shown[u] = {}
      BY DEF Init
<1> QED BY <1>1, EndInit DEF KeptInv, Kept, TranscriptKept

\* Steps that hear, publish and finalize nothing.
LEMMA KeptOther ==
  ASSUME KeptInv, UNCHANGED <<heard, shown, acc, final>>,
         out' = out \/ \E m \in Messages : out' = Append(out, m)
  PROVE  Kept'
<1>1. out \in Seq(Messages)
      BY DEF KeptInv, EndInv, Typed
<1>2. \A u : Coming(out, u) \subseteq Coming(out', u)
  <2>1. \A m \in Messages : \A u : Coming(out, u) \subseteq Coming(Append(out, m), u)
        BY <1>1, ComingAppend
  <2> QED BY <2>1
<1>3. ASSUME NEW u \in Utterances \ final'
      PROVE  heard'[u] \subseteq acc'[u[2]] \cup Coming(out', u) /\ shown'[u] \subseteq acc'[u[2]]
      BY <1>2 DEF KeptInv, Kept
<1>4. TranscriptKept'
      BY DEF KeptInv, Kept, TranscriptKept
<1> QED BY <1>3, <1>4 DEF Kept

LEMMA KeptTranscribe ==
  ASSUME KeptInv, NEW g \in Gens, Transcribe(g) PROVE Kept'
<1>1. Typed /\ Silent /\ Token(g)
      BY DEF KeptInv, EndInv
<1> DEFINE i == Job(g).uid
           v == <<g, i>>
<1>2. PICK text \in SUBSET PiecesOf(g, i) :
           /\ Takes(g) /\ Job(g) # Sentinel /\ Taken(g) /\ Elsewhere /\ i \in Uids
           /\ heard' = [heard EXCEPT ![v] = heard[v] \cup text]
           /\ \/ out' = out /\ text = {}
              \/ out' = Append(out, Message(g, i, text, ~Job(g).final, FALSE))
              \/ out' = Append(out, Message(g, i, text, TRUE, FALSE))
      BY <1>1, TranscribeDoes
<1>3. UNCHANGED <<acc, shown, final>>
      BY <1>2 DEF Elsewhere, server
<1>4. v \in Utterances /\ v \notin Done
  <2>1. segments[g] # <<>>
        BY <1>2 DEF Takes
  <2> QED BY <1>1, <1>2, <2>1, TakesSegment DEF Utterances
<1> HIDE DEF i
<1>5. \A u : Coming(out, u) \subseteq Coming(out', u)
      /\ text \subseteq Coming(out', v)
  <2>1. out \in Seq(Messages)
        BY <1>1 DEF Typed
  <2>2. ASSUME NEW p \in BOOLEAN, out' = Append(out, Message(g, i, text, p, FALSE))
        PROVE  (\A u : Coming(out, u) \subseteq Coming(out', u)) /\ text \subseteq Coming(out', v)
    <3> DEFINE m == Message(g, i, text, p, FALSE)
    <3>1. m \in Messages /\ Of(m) = v /\ m.replace = FALSE /\ m.text = text
          BY <1>2, MessageFits, ZenonT(60)
    <3>2. text \subseteq Pieces
          BY DEF PiecesOf
    <3> HIDE DEF m
    <3>3. \A u : /\ Coming(out, u) \subseteq Coming(Append(out, m), u)
                 /\ Of(m) = u /\ ~m.replace /\ m.text \subseteq Pieces
                      => m.text \subseteq Coming(Append(out, m), u)
          BY <2>1, <3>1, ComingAppend
    <3>4. out' = Append(out, m)
          BY <2>2 DEF m
    <3> QED BY <3>1, <3>2, <3>3, <3>4
  <2>3. CASE out' = Append(out, Message(g, i, text, ~Job(g).final, FALSE))
    <3>1. (~Job(g).final) \in BOOLEAN
          OBVIOUS
    <3> QED BY <2>2, <2>3, <3>1
  <2>4. CASE out' = Append(out, Message(g, i, text, TRUE, FALSE))
        BY <2>2, <2>4
  <2> QED BY <1>2, <2>3, <2>4
<1>6. ASSUME NEW u \in Utterances \ final
      PROVE  heard'[u] \subseteq acc[u[2]] \cup Coming(out', u) /\ shown[u] \subseteq acc[u[2]]
  <2>1. heard[u] \subseteq acc[u[2]] \cup Coming(out, u) /\ shown[u] \subseteq acc[u[2]]
        BY DEF KeptInv, Kept
  <2>2. CASE u = v
    <3>1. heard'[u] = heard[u] \cup text
          BY <1>1, <1>2, <2>2 DEF Typed
    <3> QED BY <1>5, <2>1, <2>2, <3>1
  <2>3. CASE u # v
    <3>1. heard'[u] = heard[u]
          BY <1>1, <1>2, <2>3 DEF Typed
    <3> QED BY <1>5, <2>1, <3>1
  <2> QED BY <2>2, <2>3
<1>7. TranscriptKept'
  <2>1. \A u \in final : heard'[u] = heard[u]
    <3>1. \A u \in final : u # v /\ u \in Utterances
          BY <1>1, <1>4 DEF Done, Typed
    <3> QED BY <1>1, <1>2, <3>1 DEF Typed
  <2> QED BY <1>3, <2>1 DEF KeptInv, Kept, TranscriptKept
<1> QED BY <1>3, <1>6, <1>7 DEF Kept

\* The promise counts as this module does.
LEMMA SameSize == ASSUME NEW S PROVE Promise!Cardinality(S) = Cardinality(S)
BY DEF Promise!Cardinality, Cardinality, Promise!IsFiniteSet, IsFiniteSet

\* The pump, when one worker runs: the message in hand is of the only utterance with its uid.
LEMMA KeptPump ==
  ASSUME MaxGen = 1, KeptInv, RxPump
  PROVE  /\ Kept'
         /\ \E u \in Utterances, text \in SUBSET Pieces :
              Promise!Grow(u, text) \/ Promise!Finish(u, text)
<1>1. Typed /\ Silent /\ Kept
      BY DEF KeptInv, EndInv
<1>2. PICK m \in Messages, text \in SUBSET Pieces :
           /\ out # <<>> /\ m = Head(out) /\ out' = Tail(out)
           /\ m.gen \in Gens /\ m.uid \in Uids /\ Of(m) \in Utterances /\ m.partial \in BOOLEAN
           /\ text = (IF m.partial THEN acc[m.uid] \cup m.text
                      ELSE ResolveFinal(acc[m.uid], m.text, m.replace))
           /\ acc' = [acc EXCEPT ![m.uid] = IF m.partial THEN text ELSE {}]
           /\ shown' = [shown EXCEPT ![Of(m)] = text]
           /\ final' = IF m.partial THEN final ELSE final \cup {Of(m)}
           /\ heard' = heard
      BY <1>1, PumpDoes
<1> DEFINE v == Of(m)
<1>3. out \in Seq(Messages) /\ m.replace \in BOOLEAN /\ m.text \in SUBSET Pieces
      BY <1>1, <1>2 DEF Typed, Messages
<1>4. v \in Utterances /\ v[2] = m.uid /\ v \notin final
      /\ (~m.partial => v \notin Named(out'))
  <2>1. Named(out) = Named(out') \cup {v} /\ (~m.partial => v \notin Named(out'))
        BY <1>1, <1>2, <1>3, TailMessage DEF Silent
  <2> QED BY <1>1, <1>2, <2>1 DEF Silent, Of
<1>5. \A u \in Utterances : u[2] \in Uids /\ (u # v => u[2] # m.uid)
  <2>1. Gens = {1}
        BY DEF Gens
  <2> QED BY <1>2, <2>1 DEF Utterances, Of
<1>6. /\ \A u \in Utterances : u # v => Coming(out, u) \subseteq Coming(out', u)
      /\ Coming(out, v) \subseteq Coming(out', v) \cup m.text
      /\ m.replace => Coming(out, v) \subseteq Coming(out', v)
      /\ ~m.partial => Coming(out', v) = {}
      BY <1>2, <1>3, <1>4, ComingTail
<1>7. heard[v] \subseteq acc[m.uid] \cup Coming(out, v) /\ shown[v] \subseteq acc[m.uid]
      /\ acc[m.uid] \in SUBSET Pieces /\ heard[v] \in SUBSET Pieces /\ shown[v] \in SUBSET Pieces
      BY <1>1, <1>2, <1>4 DEF Kept, Typed
<1> HIDE DEF v
<1>8. ASSUME NEW u \in Utterances, u # v
      PROVE  acc'[u[2]] = acc[u[2]] /\ shown'[u] = shown[u] /\ (u \in final' <=> u \in final)
      BY <1>1, <1>2, <1>5, <1>8 DEF Typed, v
<1>9. acc'[m.uid] = (IF m.partial THEN text ELSE {}) /\ shown'[v] = text
      /\ final' = IF m.partial THEN final ELSE final \cup {v}
      BY <1>1, <1>2, <1>4 DEF Typed, v
<1>10. ~m.partial => /\ 2 * Cardinality(text) >= Cardinality(heard[v])
                     /\ shown[v] \subseteq text \/ 2 * Cardinality(text) >= Cardinality(shown[v])
  <2> SUFFICES ASSUME ~m.partial
               PROVE  /\ 2 * Cardinality(text) >= Cardinality(heard[v])
                      /\ shown[v] \subseteq text \/ 2 * Cardinality(text) >= Cardinality(shown[v])
      OBVIOUS
  <2> DEFINE prior == acc[m.uid]
  <2>1. /\ prior \subseteq text \/ 2 * Cardinality(text) >= Cardinality(prior)
        /\ ~m.replace => text = prior \cup m.text
    <3>1. text = ResolveFinal(prior, m.text, m.replace) /\ prior \in SUBSET Pieces
          BY <1>2, <1>7
    <3> HIDE DEF prior
    <3> QED BY <1>3, <3>1, Resolves
  <2>2. heard[v] \subseteq prior \cup m.text /\ (m.replace => heard[v] \subseteq prior)
        BY <1>6, <1>7
  <2> HIDE DEF prior
  <2>3. shown[v] \subseteq prior /\ prior \in SUBSET Pieces
        BY <1>7 DEF prior
  <2>4. /\ Cardinality(text) \in Nat /\ Cardinality(prior) \in Nat
        /\ Cardinality(heard[v]) \in Nat /\ Cardinality(shown[v]) \in Nat
        /\ heard[v] \subseteq text => Cardinality(heard[v]) <= Cardinality(text)
        /\ heard[v] \subseteq prior => Cardinality(heard[v]) <= Cardinality(prior)
        /\ Cardinality(shown[v]) <= Cardinality(prior)
        BY <1>7, <2>3, Sizes
  <2>5. CASE ~m.replace
    <3>1. heard[v] \subseteq text /\ shown[v] \subseteq text
          BY <2>1, <2>2, <2>3, <2>5
    <3> QED BY <2>4, <3>1
  <2>6. CASE m.replace /\ prior \subseteq text
    <3>1. heard[v] \subseteq text /\ shown[v] \subseteq text
          BY <2>2, <2>3, <2>6
    <3> QED BY <2>4, <3>1
  <2>7. CASE m.replace /\ 2 * Cardinality(text) >= Cardinality(prior)
        BY <2>2, <2>4, <2>7
  <2> QED BY <1>3, <2>1, <2>5, <2>6, <2>7
<1>11. Kept'
  <2>1. ASSUME NEW u \in Utterances \ final'
        PROVE  heard'[u] \subseteq acc'[u[2]] \cup Coming(out', u) /\ shown'[u] \subseteq acc'[u[2]]
    <3>1. CASE u # v
          BY <1>1, <1>2, <1>6, <1>8, <3>1 DEF Kept
    <3>2. CASE u = v
      <4>1. m.partial /\ text = acc[m.uid] \cup m.text /\ acc'[u[2]] = text
            BY <1>2, <1>4, <1>9, <2>1, <3>2
      <4> QED BY <1>2, <1>6, <1>7, <1>9, <3>2, <4>1
    <3> QED BY <3>1, <3>2
  <2>2. ASSUME NEW u \in final' PROVE 2 * Cardinality(shown'[u]) >= Cardinality(heard'[u])
    <3>1. CASE u # v
      <4>1. u \in final /\ u \in Utterances
            BY <1>1, <1>9, <2>2, <3>1 DEF Typed
      <4> QED BY <1>1, <1>2, <1>8, <3>1, <4>1 DEF Kept, TranscriptKept
    <3>2. CASE u = v
      <4>1. ~m.partial
            BY <1>4, <1>9, <2>2, <3>2
      <4> QED BY <1>2, <1>9, <1>10, <3>2, <4>1
    <3> QED BY <3>1, <3>2
  <2> QED BY <2>1, <2>2 DEF Kept, TranscriptKept
<1>12. Promise!Grow(v, text) \/ Promise!Finish(v, text)
  <2>1. v \notin final /\ shown' = [shown EXCEPT ![v] = text]
        BY <1>2, <1>4 DEF v
  <2>2. CASE m.partial
    <3>1. text = shown[v] \cup text /\ final' = final
          BY <1>2, <1>7, <1>9, <2>2
    <3> QED BY <2>1, <3>1 DEF Promise!Grow
  <2>3. CASE ~m.partial
        BY <1>9, <1>10, <2>1, <2>3, SameSize DEF Promise!Finish, Promise!Keeps
  <2> QED BY <2>2, <2>3
<1> QED BY <1>4, <1>11, <1>12

\* What any other step appends.
LEMMA Appends ==
  ASSUME Typed, NEW g \in Gens,
         Capture(g) \/ Shutdown(g) \/ Second(g) \/ (Scribe(g) /\ ~Transcribe(g))
  PROVE  /\ UNCHANGED <<heard, shown, acc, final>>
         /\ out' = out \/ \E m \in Messages : out' = Append(out, m)
<1> USE DEF server, history, threads, Unheard
<1>1. CASE Capture(g)
      BY <1>1 DEF Capture, Slice, EndUtterance, CutUtterance, Stop
<1>2. CASE Shutdown(g)
      BY <1>2 DEF Shutdown, JoinScribe, PutSentinel, JoinSecond, StartNext
<1>3. CASE SecondTakes(g)
      BY <1>3 DEF SecondTakes
<1>4. CASE SecondPass(g)
  <2>1. PICK text \in SUBSET second[g].job.audio : SecondEmits(g, text)
        BY <1>4 DEF SecondPass
  <2>2. Message(g, second[g].job.uid, text, FALSE, text # {}) \in Messages
        BY BusyJob, MessageFits
  <2> QED BY <2>1, <2>2 DEF SecondEmits, Emit, queues
<1>5. CASE ScribeEnds(g) \/ ScribeFails(g)
      BY <1>5 DEF ScribeEnds, ScribeFails, Elsewhere
<1>6. CASE EnqueueFinal(g) \/ DropSentinel(g) \/ NothingToDrop(g)
      BY <1>6 DEF EnqueueFinal, DropSentinel, NothingToDrop, Rest
<1>7. CASE DropOldest(g)
  <2>1. Message(g, Head(finals[g]).uid, {}, FALSE, FALSE) \in Messages
        BY <1>7, FinalsTail, FlushFits DEF DropOldest
  <2> QED BY <1>7, <2>1 DEF DropOldest, Emit, Rest
<1>8. CASE EnqueueAgain(g)
  <2>1. scribe[g].job \in JobsOf(g)
        BY DEF Typed
  <2>2. Message(g, scribe[g].job.uid, {}, FALSE, FALSE) \in Messages
        BY <2>1, FlushFits
  <2> QED BY <1>8, <2>2 DEF EnqueueAgain, Emit, Rest
<1> QED BY <1>1, <1>2, <1>3, <1>4, <1>5, <1>6, <1>7, <1>8 DEF Second, Scribe

\* Every step keeps the words, and is a step of the promise or none.
LEMMA KeptNext ==
  ASSUME MaxGen = 1, KeptInv, [Next]_vars
  PROVE  KeptInv' /\ [Promise!Next]_<<shown, final>>
<1>1. EndInv'
      BY EndNext DEF KeptInv
<1>2. ASSUME NEW g \in Gens, Capture(g) \/ Shutdown(g) \/ Second(g) \/ (Scribe(g) /\ ~Transcribe(g))
      PROVE  Kept' /\ UNCHANGED <<shown, final>>
      BY <1>2, Appends, KeptOther DEF KeptInv, EndInv
<1>3. ASSUME NEW g \in Gens, Transcribe(g) PROVE Kept' /\ UNCHANGED <<shown, final>>
  <2>1. Elsewhere
        BY <1>3, TranscribeDoes DEF KeptInv, EndInv
  <2> QED BY <1>3, <2>1, KeptTranscribe DEF Elsewhere, server
<1>4. CASE RxPump
  <2>1. Kept' /\ Promise!Next
        BY <1>4, KeptPump DEF Promise!Next
  <2> QED BY <1>1, <2>1 DEF KeptInv
<1>5. CASE UNCHANGED vars
  <2>1. UNCHANGED <<heard, shown, acc, final, out>>
        BY <1>5 DEF vars, server, history
  <2> QED BY <1>1, <2>1, KeptOther DEF KeptInv
<1>6. CASE \E g \in Gens : Capture(g) \/ Shutdown(g) \/ Scribe(g) \/ Second(g)
      BY <1>1, <1>2, <1>3, <1>6 DEF KeptInv
<1> QED BY <1>4, <1>5, <1>6 DEF Next

\* While one worker runs, a final text never leaves out more than half of what the first pass
\* heard of its utterance.
THEOREM WordsKept == ASSUME MaxGen = 1 PROVE Spec => []TranscriptKept
<1>1. KeptInv => TranscriptKept
      BY DEF KeptInv, Kept
<1>2. KeptInv /\ [Next]_vars => KeptInv'
      BY KeptNext
<1> QED BY <1>1, <1>2, KeptInit, PTL DEF Spec

\* While one worker runs, the clients see what Transcript promises: the text of an utterance
\* grows, is finalized at most once, is not erased by its final, and is not touched again.
THEOREM PromiseKept == ASSUME MaxGen = 1 PROVE Spec => TranscriptSpec
<1>1. Init => Promise!Init
      BY DEF Init, Promise!Init
<1>2. KeptInv /\ [Next]_vars => KeptInv' /\ [Promise!Next]_<<shown, final>>
      BY KeptNext
<1> QED BY <1>1, <1>2, KeptInit, PTL DEF Spec, TranscriptSpec, Promise!Spec
=============================================================================
