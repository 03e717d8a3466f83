---------------------------- MODULE Harness_proofs ----------------------------
(***************************************************************************)
(* The two models of src/harness.cpp, for every value of their constants.  *)
(*                                                                         *)
(* The report path carries the whole stream, for every workload length,    *)
(* queue capacity and drain batch.  Lossless is inductive with the types   *)
(* and QueueBounded: the slot a push writes is free, although the producer *)
(* knows the read index of some time ago.                                  *)
(* That the stream is whole at the join needs the chain of hand-overs:     *)
(* past the barrier the engine has nothing to push (Barred), past          *)
(* transport->flush everything written is published (AllPublished), a      *)
(* drainer that has seen the stop sees all that is published (SeesAll),    *)
(* and it leaves with an empty queue.                                      *)
(*                                                                         *)
(* A run is judged by what was read before the engine ran, for any hashes  *)
(* and any of the three kinds of engine_init.  The argument is about order.*)
(* The stages are numbered and a run only moves forward, so what is read at*)
(* the setup is older than any engine code, the handlers that are installed*)
(* again after engine_init stay, and nothing is computed any more once     *)
(* there is a verdict.                                                     *)
(***************************************************************************)
EXTENDS ReportPipeline, HarnessRun, TLAPS, SequenceTheorems

-----------------------------------------------------------------------------
(* The report path.                                                        *)

Ending == {"flushed", "clocked", "join", "joined"}

Barred == phase \in Ending => Quiet
AllPublished == Clocked => published = Len(queue)
Stopped == ~running => phase \in {"join", "joined"}
SeesAll == drainer \in {"final", "done"} => ~running /\ visible = published
LeavesEmpty == drainer = "done" => queue = <<>>
Joined == phase = "joined" => drainer = "done"

\* With the types: the five indices follow each other round the ring, within one lap.
QueueBounded == Len(queue) + freed <= QUEUE_CAPACITY

Inv == /\ TypeOK
       /\ QueueBounded
       /\ Lossless
       /\ Barred
       /\ AllPublished
       /\ Stopped
       /\ SeesAll
       /\ LeavesEmpty
       /\ Joined

-----------------------------------------------------------------------------
(* Two operators of the community modules, as far as they are used here.   *)

LEMMA MinOfTwo ==
    ASSUME NEW a \in Nat, NEW b \in Nat
    PROVE  /\ Min({a, b}) \in {a, b}
           /\ Min({a, b}) <= a
           /\ Min({a, b}) <= b
<1>1. \E m \in {a, b} : \A y \in {a, b} : m =< y
  <2>1. CASE a <= b
    BY <2>1
  <2>2. CASE b <= a
    BY <2>2
  <2> QED
    BY <2>1, <2>2
<1> QED
  BY <1>1 DEF Min

\* A prefix is what something can be appended to.
LEMMA PrefixOfConcat ==
    ASSUME NEW T, NEW s \in Seq(T), NEW t \in Seq(T)
    PROVE  IsPrefix(s, s \o t)
<1>1. Len(s) <= Len(s \o t)
  BY ConcatProperties, LenProperties
<1>2. SubSeq(s, 1, Len(s)) = SubSeq(s \o t, 1, Len(s))
  <2>1. CASE s = <<>>
    BY <2>1, SubSeqEmpty, EmptySeq
  <2>2. CASE s # <<>>
    <3>1. Len(s) \in Nat \ {0}
      BY <2>2, EmptySeq
    <3> QED
      BY <3>1, SubSeqOfConcat1
  <2> QED
    BY <2>1, <2>2
<1> QED
  BY <1>1, <1>2 DEF IsPrefix

-----------------------------------------------------------------------------
(* What one drain() does to the queue.                                     *)

DrainCount == Min({DRAIN_BATCH, visible})

LEMMA DrainCountBound ==
    ASSUME TypeOK
    PROVE  /\ DrainCount \in Nat
           /\ DrainCount <= visible
           /\ DrainCount <= Len(queue)
<1>1. visible \in Nat /\ visible <= Len(queue) /\ Len(queue) \in Nat
  BY LenProperties DEF TypeOK
<1> QED
  BY <1>1, MinOfTwo, PipelineAssumption DEF DrainCount

\* The drained reports and the rest are the queue again.
LEMMA QueueSplit ==
    ASSUME NEW q \in Seq(Report), NEW n \in 0 .. Len(q)
    PROVE  /\ SubSeq(q, 1, n) \in Seq(Report)
           /\ SubSeq(q, n + 1, Len(q)) \in Seq(Report)
           /\ Len(SubSeq(q, n + 1, Len(q))) = Len(q) - n
           /\ SubSeq(q, 1, n) \o SubSeq(q, n + 1, Len(q)) = q
<1>1. Len(q) \in Nat /\ n \in Int /\ Len(q) \in Int
  BY LenProperties
<1>2. \A i \in 1 .. Len(q) : q[i] \in Report
  BY ElementOfSeq
<1>3. SubSeq(q, 1, n) \in Seq(Report)
  BY <1>1, <1>2, SubSeqProperties
<1>4. /\ SubSeq(q, n + 1, Len(q)) \in Seq(Report)
      /\ Len(SubSeq(q, n + 1, Len(q))) = Len(q) - n
  <2>1. \A i \in n + 1 .. Len(q) : q[i] \in Report
    BY <1>1, <1>2
  <2>2. n + 1 \in Int
    BY <1>1
  <2> QED
    BY <1>1, <2>1, <2>2, SubSeqProperties
<1>5. SubSeq(q, 1, n) \o SubSeq(q, n + 1, Len(q)) = SubSeq(q, 1, Len(q))
  <2>1. /\ 1 \in 1 .. Len(q) + 1
        /\ n \in 1 - 1 .. Len(q)
        /\ Len(q) \in n .. Len(q)
    BY <1>1
  <2> HIDE DEF Report
  <2> QED
    BY <2>1, ConcatAdjacentSubSeq, Zenon
<1> QED
  BY <1>3, <1>4, <1>5, SubSeqFull

LEMMA Regroup ==
    ASSUME NEW c \in Seq(Report), NEW f \in Seq(Report), NEW r \in Seq(Report)
    PROVE  (c \o f) \o r = c \o (f \o r)
BY ConcatAssociative, SMT

-----------------------------------------------------------------------------
(* Going round the ring.                                                   *)

LEMMA DistanceIs ==
    ASSUME NEW i \in Slots, NEW j \in Slots
    PROVE  /\ Distance(i, j) \in 0 .. QUEUE_CAPACITY
           /\ Distance(i, j) = 0 <=> i = j
BY PipelineAssumption DEF Slots, Distance

LEMMA AdvancedIs ==
    ASSUME NEW i \in Slots, NEW n \in 0 .. QUEUE_CAPACITY
    PROVE  /\ Advanced(i, n) \in Slots
           /\ Distance(i, Advanced(i, n)) = n
BY PipelineAssumption DEF Slots, Distance, Advanced

\* The slots met on the way round are all different.
LEMMA SlotsApart ==
    ASSUME NEW i \in Slots, NEW m \in 0 .. QUEUE_CAPACITY, NEW n \in 0 .. QUEUE_CAPACITY,
           Advanced(i, m) = Advanced(i, n)
    PROVE  m = n
BY PipelineAssumption DEF Slots, Advanced

LEMMA AdvancedTwice ==
    ASSUME NEW i \in Slots, NEW m \in 0 .. QUEUE_CAPACITY, NEW n \in 0 .. QUEUE_CAPACITY,
           m + n <= QUEUE_CAPACITY
    PROVE  Advanced(Advanced(i, m), n) = Advanced(i, m + n)
BY PipelineAssumption DEF Slots, Advanced

\* The distance to where an index is moved, and from where it is moved.
LEMMA FartherAhead ==
    ASSUME NEW i \in Slots, NEW j \in Slots, NEW n \in 0 .. QUEUE_CAPACITY,
           Distance(i, j) + n <= QUEUE_CAPACITY
    PROVE  Distance(i, Advanced(j, n)) = Distance(i, j) + n
BY PipelineAssumption DEF Slots, Distance, Advanced

LEMMA LessBehind ==
    ASSUME NEW i \in Slots, NEW j \in Slots, NEW n \in 0 .. Distance(i, j)
    PROVE  Distance(Advanced(i, n), j) = Distance(i, j) - n
BY PipelineAssumption DEF Slots, Distance, Advanced

LEMMA ReachedByDistance ==
    ASSUME NEW i \in Slots, NEW j \in Slots
    PROVE  Advanced(i, Distance(i, j)) = j
BY PipelineAssumption DEF Slots, Distance, Advanced

LEMMA RingIs ==
    ASSUME TypeOK
    PROVE  /\ queue \in [1 .. Distance(read_index, write_index) ->
                            Report \cup {Unwritten}]
           /\ Len(queue) = Distance(read_index, write_index)
           /\ Len(queue) \in 0 .. QUEUE_CAPACITY
           /\ freed \in Nat
<1> DEFINE d == Distance(read_index, write_index)
<1>1. read_index \in Slots /\ write_index \in Slots /\ freed_index \in Slots
  BY DEF TypeOK
<1>2. d \in 0 .. QUEUE_CAPACITY /\ d \in Nat /\ freed \in Nat
  BY <1>1, DistanceIs DEF freed
<1>3. \A k \in 1 .. d : Advanced(read_index, k - 1) \in Slots
  <2>1. \A k \in 1 .. d : k - 1 \in 0 .. QUEUE_CAPACITY
    <3> HIDE DEF d
    <3> QED
      BY <1>2, PipelineAssumption
  <2> QED
    BY <1>1, <2>1, AdvancedIs
<1>4. queue \in [1 .. d -> Report \cup {Unwritten}]
  BY <1>3 DEF queue, TypeOK
<1> HIDE DEF d
<1>5. Len(queue) = d
  <2>1. queue \in Seq(Report \cup {Unwritten}) /\ DOMAIN queue = 1 .. d
    BY <1>2, <1>4, SeqDef
  <2>2. DOMAIN queue = 1 .. Len(queue) /\ Len(queue) \in Nat
    BY <2>1, LenProperties
  <2> QED
    BY <1>2, <2>1, <2>2
<1> QED
  BY <1>2, <1>4, <1>5 DEF d

LEMMA RingStays ==
    ASSUME UNCHANGED transportVars
    PROVE  UNCHANGED <<queue, published, visible, freed>>
BY DEF transportVars, producerView, drainerView, queue, published, visible, freed

\* A push goes to the end of what lies in the ring: the slot it writes is none of
\* those the drainer has still to read.
LEMMA PushInRing ==
    ASSUME TypeOK, QueueBounded, Push
    PROVE  /\ slots' \in [Slots -> Report \cup {Unwritten}]
           /\ {write_index', published_index'} \subseteq Slots
           /\ queue' = Append(queue, Head(pending))
           /\ Len(queue) + freed < QUEUE_CAPACITY
           /\ published' \in {published, Len(queue) + 1}
           /\ visible' = visible /\ freed' = freed
<1> DEFINE d == Distance(read_index, write_index)
           r == Head(pending)
<1>1. /\ read_index \in Slots /\ write_index \in Slots /\ freed_index \in Slots
      /\ published_index \in Slots /\ seen_index \in Slots
      /\ slots \in [Slots -> Report \cup {Unwritten}]
  BY DEF TypeOK
<1>2. r \in Report
  BY HeadTailProperties DEF Push, TypeOK
<1>3. /\ Len(queue) = d /\ d \in 0 .. QUEUE_CAPACITY /\ QUEUE_CAPACITY \in Nat
      /\ freed \in Nat
      /\ queue \in [1 .. d -> Report \cup {Unwritten}]
  BY RingIs, PipelineAssumption
<1>4. d + freed < QUEUE_CAPACITY
  <2>1. d + freed <= QUEUE_CAPACITY
    BY <1>3 DEF QueueBounded
  <2>2. Distance(freed_index, write_index) = d + freed
    <3>1. freed \in 0 .. QUEUE_CAPACITY /\ Advanced(freed_index, freed) = read_index
      BY <1>1, DistanceIs, ReachedByDistance DEF freed
    <3>2. Advanced(read_index, d) = write_index
      BY <1>1, ReachedByDistance
    <3>3. Advanced(freed_index, freed + d) = write_index
      BY <1>1, <1>3, <2>1, <3>1, <3>2, AdvancedTwice
    <3>4. freed + d \in 0 .. QUEUE_CAPACITY
      BY <1>3, <2>1
    <3> HIDE DEF d
    <3>5. Distance(freed_index, Advanced(freed_index, freed + d)) = freed + d
      BY <1>1, <3>4, AdvancedIs
    <3> QED
      BY <1>3, <3>3, <3>5
  <2>3. Distance(freed_index, write_index) < QUEUE_CAPACITY
    BY DEF Push, HasRoom
  <2> QED
    BY <2>2, <2>3
<1>5. /\ slots' = [slots EXCEPT ![write_index] = r]
      /\ write_index' = Advanced(write_index, 1)
      /\ read_index' = read_index /\ freed_index' = freed_index
      /\ seen_index' = seen_index
  BY DEF Push, drainerView
<1>6. 1 \in 0 .. QUEUE_CAPACITY
  BY PipelineAssumption
<1>7. write_index' \in Slots /\ Distance(read_index, write_index') = d + 1
  BY <1>1, <1>3, <1>4, <1>5, <1>6, AdvancedIs, FartherAhead
<1>8. slots' \in [Slots -> Report \cup {Unwritten}]
  BY <1>1, <1>2, <1>5
<1>9. published_index' \in {published_index, write_index'}
  BY <1>5 DEF Push, PublishedAfter
<1>10. published' \in {published, d + 1}
  BY <1>5, <1>7, <1>9 DEF published
<1>11. queue' = Append(queue, r)
  <2>1. queue' = [k \in 1 .. d + 1 |-> slots'[Advanced(read_index, k - 1)]]
    BY <1>5, <1>7 DEF queue
  <2>2. ASSUME NEW k \in 1 .. d
        PROVE  slots'[Advanced(read_index, k - 1)] = queue[k]
    <3>1. k - 1 \in 0 .. QUEUE_CAPACITY /\ d \in 0 .. QUEUE_CAPACITY /\ k - 1 # d
      BY <1>3
    <3>2. Advanced(read_index, k - 1) \in Slots
      BY <1>1, <3>1, AdvancedIs
    <3>3. Advanced(read_index, d) = write_index
      BY <1>1, ReachedByDistance
    <3>4. Advanced(read_index, k - 1) # write_index
      <4> HIDE DEF d
      <4> QED
        BY <1>1, <3>1, <3>3, SlotsApart
    <3>5. queue[k] = slots[Advanced(read_index, k - 1)]
      BY DEF queue
    <3> QED
      BY <1>1, <1>5, <3>2, <3>4, <3>5
  <2>3. slots'[Advanced(read_index, d)] = r
    BY <1>1, <1>5, ReachedByDistance
  <2> HIDE DEF d, r
  <2>4. Append(queue, r) = [k \in 1 .. d + 1 |-> IF k <= d THEN queue[k] ELSE r]
    <3>1. queue \in Seq(Report \cup {Unwritten})
      BY <1>3, SeqDef
    <3>2. /\ Append(queue, r) \in Seq(Report \cup {Unwritten})
          /\ Len(Append(queue, r)) = d + 1
          /\ \A k \in 1 .. d : Append(queue, r)[k] = queue[k]
          /\ Append(queue, r)[d + 1] = r
      BY <1>2, <1>3, <3>1, AppendProperties
    <3>3. DOMAIN Append(queue, r) = 1 .. d + 1
      BY <3>2, LenProperties
    <3>4. \A k \in 1 .. d + 1 : (k <= d /\ k \in 1 .. d) \/ (k = d + 1 /\ ~(k <= d))
      BY <1>3
    <3>5. Append(queue, r) = [k \in 1 .. d + 1 |-> Append(queue, r)[k]]
      BY <3>2, <3>3, LenProperties
    <3> QED
      BY <3>2, <3>4, <3>5
  <2>5. \A k \in 1 .. d + 1 :
          slots'[Advanced(read_index, k - 1)] = IF k <= d THEN queue[k] ELSE r
    <3>1. \A k \in 1 .. d + 1 : (k <= d /\ k \in 1 .. d) \/ (k - 1 = d /\ ~(k <= d))
      BY <1>3
    <3> QED
      BY <2>2, <2>3, <3>1
  <2> QED
    BY <2>1, <2>4, <2>5
<1> QED
  BY <1>1, <1>3, <1>4, <1>5, <1>7, <1>8, <1>9, <1>10, <1>11 DEF visible, freed

\* A drain takes from the front of it, and leaves the rest where it is.
LEMMA DrainInRing ==
    ASSUME TypeOK, NEW next \in {"loop", "final"}, DrainInto(next)
    PROVE  /\ read_index' \in Slots
           /\ collected' = collected \o SubSeq(queue, 1, DrainCount)
           /\ queue' = SubSeq(queue, DrainCount + 1, Len(queue))
           /\ published' = published - DrainCount /\ visible' = visible - DrainCount
           /\ Len(queue) + freed <= QUEUE_CAPACITY => freed' = freed + DrainCount
<1> DEFINE d == Distance(read_index, write_index)
           n == DrainCount
<1>1. /\ read_index \in Slots /\ write_index \in Slots /\ freed_index \in Slots
      /\ published_index \in Slots /\ seen_index \in Slots
  BY DEF TypeOK
<1>2. /\ Len(queue) = d /\ d \in 0 .. QUEUE_CAPACITY /\ QUEUE_CAPACITY \in Nat
      /\ freed \in Nat /\ queue \in Seq(Report)
  BY RingIs, PipelineAssumption DEF TypeOK
<1>3. /\ n \in 0 .. d /\ n \in 0 .. QUEUE_CAPACITY
      /\ n <= visible /\ visible <= published
      /\ visible \in Nat /\ published \in Nat /\ n \in Nat
  BY <1>2, DrainCountBound DEF TypeOK
<1>4. /\ read_index' = Advanced(read_index, n)
      /\ collected' = collected \o Consumed(n)
      /\ slots' = slots /\ write_index' = write_index /\ seen_index' = seen_index
      /\ published_index' = published_index /\ freed_index' = freed_index
  BY DEF DrainInto, DrainCount, producerView
<1> HIDE DEF n
<1>5. read_index' \in Slots
  BY <1>1, <1>3, <1>4, AdvancedIs
<1>6. Distance(read_index', write_index') = d - n
  BY <1>1, <1>3, <1>4, LessBehind
<1>7. published' = published - n /\ visible' = visible - n
  <2>1. n \in 0 .. Distance(read_index, published_index)
        /\ n \in 0 .. Distance(read_index, seen_index)
    BY <1>3 DEF published, visible
  <2> QED
    BY <1>1, <1>4, <2>1, LessBehind DEF published, visible
<1>8. d + freed <= QUEUE_CAPACITY => freed' = freed + n
  <2> SUFFICES ASSUME d + freed <= QUEUE_CAPACITY PROVE freed' = freed + n
    OBVIOUS
  <2>1. Distance(freed_index, read_index) + n <= QUEUE_CAPACITY
    BY <1>2, <1>3 DEF freed
  <2> QED
    BY <1>1, <1>3, <1>4, <2>1, FartherAhead DEF freed
<1>9. Consumed(n) = SubSeq(queue, 1, n)
  <2>1. \A k \in 1 .. n : queue[k] = slots[Advanced(read_index, k - 1)]
    <3>1. \A k \in 1 .. n : k \in 1 .. d
      BY <1>2, <1>3
    <3> QED
      BY <3>1 DEF queue
  <2>2. SubSeq(queue, 1, n) = [k \in 1 .. n |-> queue[k]]
    <3>1. SubSeq(queue, 1, n) = [k \in 1 .. (1 + n) - 1 |-> queue[(k + 1) - 1]]
      BY <1>2, <1>3
    <3>2. (1 + n) - 1 = n /\ \A k \in 1 .. n : (k + 1) - 1 = k
      BY <1>3
    <3> QED
      BY <3>1, <3>2
  <2> QED
    BY <2>1, <2>2 DEF Consumed
<1>10. queue' = SubSeq(queue, n + 1, Len(queue))
  <2>1. queue' = [k \in 1 .. d - n |-> slots[Advanced(Advanced(read_index, n), k - 1)]]
    BY <1>4, <1>6 DEF queue
  <2>2. SubSeq(queue, n + 1, d) = [k \in 1 .. d - n |-> queue[k + n]]
    <3>1. SubSeq(queue, n + 1, d) = [k \in 1 .. (1 + d) - (n + 1) |-> queue[(k + (n + 1)) - 1]]
      BY <1>2, <1>3
    <3>2. (1 + d) - (n + 1) = d - n /\ \A k \in 1 .. d - n : (k + (n + 1)) - 1 = k + n
      BY <1>2, <1>3
    <3> QED
      BY <3>1, <3>2
  <2>3. ASSUME NEW k \in 1 .. d - n
        PROVE  queue[k + n] = slots[Advanced(Advanced(read_index, n), k - 1)]
    <3>1. /\ k - 1 \in 0 .. QUEUE_CAPACITY /\ n + (k - 1) <= QUEUE_CAPACITY
          /\ k + n \in 1 .. d /\ (k + n) - 1 = n + (k - 1)
      BY <1>2, <1>3
    <3>2. queue[k + n] = slots[Advanced(read_index, (k + n) - 1)]
      BY <3>1 DEF queue
    <3> QED
      BY <1>1, <1>3, <3>1, <3>2, AdvancedTwice
  <2> QED
    BY <1>2, <2>1, <2>2, <2>3
<1> QED
  BY <1>2, <1>4, <1>5, <1>7, <1>8, <1>9, <1>10 DEF n

\* What one thread comes to know of the other's index.
LEMMA SeenInRing ==
    ASSUME TypeOK, SeePublished
    PROVE  /\ seen_index' \in Slots
           /\ visible' \in visible + 1 .. published
           /\ UNCHANGED <<queue, published, freed>>
<1>1. read_index \in Slots /\ published_index \in Slots /\ seen_index \in Slots
  BY DEF TypeOK
<1>2. PICK n \in visible + 1 .. published : seen_index' = Advanced(read_index, n)
  BY DEF SeePublished
<1>3. n \in 0 .. QUEUE_CAPACITY
  BY <1>1, DistanceIs, PipelineAssumption DEF published, visible
<1>4. UNCHANGED <<slots, write_index, published_index, read_index, freed_index>>
  BY DEF SeePublished, producerView
<1> QED
  BY <1>1, <1>2, <1>3, <1>4, AdvancedIs DEF queue, published, visible, freed

LEMMA FreedInRing ==
    ASSUME TypeOK, SeeFreed
    PROVE  /\ freed_index' \in Slots
           /\ freed' \in 0 .. freed - 1
           /\ UNCHANGED <<queue, published, visible>>
<1>1. read_index \in Slots /\ freed_index \in Slots /\ QUEUE_CAPACITY \in Nat
  BY PipelineAssumption DEF TypeOK
<1>2. PICK n \in 1 .. freed : freed_index' = Advanced(freed_index, n)
  BY DEF SeeFreed
<1>3. UNCHANGED <<slots, write_index, published_index, read_index, seen_index>>
  BY DEF SeeFreed, drainerView
<1>4. freed \in 0 .. QUEUE_CAPACITY
  BY <1>1, DistanceIs DEF freed
<1>5. n \in 0 .. Distance(freed_index, read_index) /\ n \in 0 .. QUEUE_CAPACITY
  BY <1>1, <1>2, <1>4 DEF freed
<1>6. freed' = freed - n
  BY <1>1, <1>2, <1>3, <1>5, LessBehind DEF freed
<1> QED
  BY <1>1, <1>2, <1>3, <1>4, <1>5, <1>6, AdvancedIs DEF queue, published, visible

LEMMA StopInRing ==
    ASSUME TypeOK, SeeStop
    PROVE  /\ seen_index' \in Slots
           /\ visible' = published
           /\ UNCHANGED <<queue, published, freed>>
BY DEF TypeOK, SeeStop, AcquireLoad, producerView, queue, published, visible, freed

LEMMA FlushInRing ==
    ASSUME TypeOK, TransportFlush
    PROVE  /\ published_index' \in Slots
           /\ published' = Len(queue)
           /\ UNCHANGED <<queue, visible, freed>>
<1>1. Len(queue) = Distance(read_index, write_index)
  BY RingIs
<1> QED
  BY <1>1 DEF TypeOK, TransportFlush, FlushAll, drainerView, queue, published, visible, freed

\* A drain keeps the types of the transport and what is collected plus in flight.
LEMMA DrainStep ==
    ASSUME Inv, NEW next \in {"loop", "final"}, DrainInto(next)
    PROVE  /\ collected' \in Seq(Report) /\ queue' \in Seq(Report)
           /\ Len(queue') = Len(queue) - DrainCount
           /\ published' \in 0 .. Len(queue') /\ visible' \in 0 .. published'
           /\ read_index' \in Slots
           /\ Lossless' /\ QueueBounded'
           /\ \E taken \in Seq(Report) : collected' = collected \o taken
           /\ published' = Len(queue') <=> published = Len(queue)
           /\ visible' = published' <=> visible = published
<1> DEFINE n == DrainCount
           front == SubSeq(queue, 1, n)
           rest == SubSeq(queue, n + 1, Len(queue))
<1>1. TypeOK
  BY DEF Inv
<1>2. /\ queue \in Seq(Report) /\ collected \in Seq(Report)
      /\ Len(queue) \in Nat /\ n \in 0 .. Len(queue) /\ n <= visible
      /\ published \in 0 .. Len(queue) /\ visible \in 0 .. published
      /\ freed \in Nat
  BY <1>1, DrainCountBound, RingIs, LenProperties DEF TypeOK
<1>3. /\ collected' = collected \o front
      /\ queue' = rest
      /\ published' = published - n /\ visible' = visible - n /\ freed' = freed + n
      /\ read_index' \in Slots
      /\ pushed' = pushed
  BY <1>1, DrainInRing DEF Inv, QueueBounded, DrainInto, engineVars
<1>4. /\ front \in Seq(Report) /\ rest \in Seq(Report)
      /\ Len(rest) = Len(queue) - n /\ front \o rest = queue
  BY <1>2, QueueSplit
<1>5. collected' \in Seq(Report) /\ queue' \in Seq(Report)
  BY <1>2, <1>3, <1>4, ConcatProperties
<1>6. collected' \o queue' = collected \o queue
  <2>1. collected \in Seq(Report) /\ front \in Seq(Report) /\ rest \in Seq(Report)
    BY <1>2, <1>4
  <2>2. front \o rest = queue
    BY <1>4
  <2>3. collected' = collected \o front /\ queue' = rest
    BY <1>3
  <2> HIDE DEF n, front, rest
  <2>4. (collected \o front) \o rest = collected \o (front \o rest)
    BY <2>1, Regroup
  <2> QED
    BY <2>2, <2>3, <2>4
<1>7. Lossless'
  BY <1>3, <1>6 DEF Inv, Lossless
<1> HIDE DEF n, front, rest
<1>8. Len(queue') = Len(queue) - n
  BY <1>3, <1>4
<1>9. QueueBounded'
  BY <1>2, <1>3, <1>8, PipelineAssumption DEF Inv, QueueBounded
<1>10. /\ published' \in 0 .. Len(queue') /\ visible' \in 0 .. published'
       /\ published' = Len(queue') <=> published = Len(queue)
       /\ visible' = published' <=> visible = published
  BY <1>2, <1>3, <1>8
<1>11. \E taken \in Seq(Report) : collected' = collected \o taken
  BY <1>3, <1>4
<1> QED
  BY <1>3, <1>5, <1>7, <1>8, <1>9, <1>10, <1>11 DEF n

-----------------------------------------------------------------------------
(* The initial states.                                                     *)

LEMMA FunctionIsSeq ==
    ASSUME NEW D, NEW n \in Nat, NEW f \in [1 .. n -> D]
    PROVE  f \in Seq(D)
BY SeqDef

LEMMA AuditPicksType ==
    ASSUME NEW picks \in AuditPicks
    PROVE  picks \in Seq(Messages)
<1> DEFINE k == Min({AUDIT_POINTS, MessageCount})
<1>1. k \in Nat
  BY MinOfTwo, PipelineAssumption
<1>2. picks \in [1 .. k -> Messages]
  BY DEF AuditPicks
<1> HIDE DEF k
<1> QED
  BY <1>1, <1>2, FunctionIsSeq

LEMMA InitInv == Init => Inv
<1> SUFFICES ASSUME Init PROVE Inv
  OBVIOUS
<1>1. audit_idx \in Seq(Messages)
  BY AuditPicksType DEF Init
<1>2. /\ <<>> \in Seq(Messages) /\ <<>> \in Seq(Report) /\ Len(<<>>) = 0
  BY EmptySeq
<1>0. queue = <<>> /\ published = 0 /\ visible = 0 /\ freed = 0
  <2>1. Distance(0, 0) = 0
    BY DEF Distance
  <2>2. queue = [k \in 1 .. 0 |-> slots[Advanced(read_index, k - 1)]]
    BY <2>1 DEF queue, Init
  <2>3. queue = <<>>
    BY <2>2
  <2> QED
    BY <2>1, <2>3 DEF Init, published, visible, freed
<1>3. TypeOK
  <2>1. stride \in 1 .. QUEUE_CAPACITY /\ start \in 0 .. MessageCount
    BY PipelineAssumption DEF Init
  <2>2. /\ published \in 0 .. Len(queue) /\ visible \in 0 .. published
        /\ audit_cur \in Nat
    BY <1>2, <1>0 DEF Init
  <2>5. /\ slots \in [Slots -> Report \cup {Unwritten}]
        /\ {write_index, published_index, seen_index, read_index, freed_index} \subseteq Slots
    BY PipelineAssumption DEF Init, Slots
  <2>3. /\ inbox \in Seq(Messages) /\ pending \in Seq(Report)
        /\ queue \in Seq(Report) /\ pushed \in Seq(Report)
        /\ collected \in Seq(Report)
    BY <1>2, <1>0, Zenon DEF Init
  <2>4. /\ batched \in BOOLEAN /\ async \in BOOLEAN /\ running \in BOOLEAN
        /\ pin_failed \in BOOLEAN
    BY Zenon DEF Init
  <2> QED
    BY <1>1, <2>1, <2>2, <2>3, <2>4, <2>5, Zenon DEF Init, TypeOK
<1>4. QueueBounded
  BY <1>0, <1>2, PipelineAssumption DEF QueueBounded
<1>5. Lossless
  BY <1>0, <1>2, ConcatEmptySeq DEF Init, Lossless
<1> QED
  BY <1>0, <1>3, <1>4, <1>5
     DEF Inv, Init, Barred, AllPublished, Stopped, SeesAll, LeavesEmpty, Joined,
         Ending, Clocked

-----------------------------------------------------------------------------
(* The harness thread.                                                     *)

\* A delivery hands over a run of messages of the workload.
LEMMA DispatchType ==
    ASSUME TypeOK, Dispatch
    PROVE  inbox' \in Seq(Messages) /\ start' \in 0 .. MessageCount
<1> DEFINE run == [i \in 1 .. Boundary - start + 1 |-> start + i - 1]
<1>1. start \in Messages /\ MessageCount \in Nat
  BY PipelineAssumption DEF TypeOK, Dispatch, Messages
<1>2. Boundary \in Messages
  <2>1. CASE ~batched
    BY <1>1, <2>1 DEF Boundary
  <2>2. CASE batched /\ ProbesLeft
    <3>1. audit_cur + 1 \in 1 .. Len(audit_idx)
      BY <2>2, LenProperties DEF ProbesLeft, TypeOK
    <3>2. audit_idx[audit_cur + 1] \in Messages
      BY <3>1, ElementOfSeq DEF TypeOK
    <3> QED
      BY <2>2, <3>2 DEF Boundary
  <2>3. CASE batched /\ ~ProbesLeft
    BY <2>3, PipelineAssumption DEF Boundary, Messages
  <2> QED
    BY <2>1, <2>2, <2>3
<1>3. start' \in 0 .. MessageCount
  BY <1>1, <1>2 DEF Dispatch, After, Messages
<1>4. run \in Seq(Messages)
  <2>1. CASE Boundary - start + 1 \in Nat
    <3>1. \A i \in 1 .. Boundary - start + 1 : start + i - 1 \in Messages
      BY <1>1, <1>2 DEF Messages
    <3>2. run \in [1 .. Boundary - start + 1 -> Messages]
      BY <3>1
    <3> QED
      BY <2>1, <3>2, FunctionIsSeq
  <2>2. CASE Boundary - start + 1 \notin Nat
    <3>1. 1 .. Boundary - start + 1 = 1 .. 0
      BY <1>1, <1>2, <2>2 DEF Messages
    <3>2. run \in [1 .. 0 -> Messages]
      BY <3>1
    <3> HIDE DEF run
    <3> QED
      BY <3>2, FunctionIsSeq
  <2> QED
    BY <2>1, <2>2
<1>5. inbox' = inbox \o run
  BY DEF Dispatch
<1> HIDE DEF run
<1>6. inbox' \in Seq(Messages)
  BY <1>4, <1>5, ConcatProperties DEF TypeOK
<1> QED
  BY <1>3, <1>6

LEMMA DispatchKeeps ==
    ASSUME Inv, Dispatch
    PROVE  Inv'
<1>1. TypeOK'
  BY DispatchType, RingStays
     DEF Inv, TypeOK, Dispatch, engineKind, drainerVars, transportVars,
         producerView, drainerView
<1> QED
  BY <1>1, RingStays
     DEF Inv, Dispatch, engineKind, drainerVars, transportVars, QueueBounded,
         Lossless, Barred, AllPublished, Stopped, SeesAll, LeavesEmpty, Joined,
         Ending, Clocked

\* The other steps of the harness move the phase, and publish or stop.
LEMMA HarnessKeeps ==
    ASSUME Inv, Harness
    PROVE  Inv'
<1> USE DEF Inv, TypeOK, QueueBounded, Lossless, Barred, AllPublished, Stopped,
            SeesAll, LeavesEmpty, Joined, Ending, Clocked, Quiet
<1>0. UNCHANGED transportVars =>
        UNCHANGED <<queue, published, visible, freed, slots, write_index,
                    published_index, seen_index, read_index, freed_index>>
  BY RingStays DEF transportVars, producerView, drainerView
<1>1. CASE Preflight
  BY <1>0, <1>1 DEF Preflight, engineKind, engineVars, drainerVars
<1>2. CASE Dispatch
  BY <1>2, DispatchKeeps
<1>3. CASE Return
  BY <1>0, <1>3 DEF Return, engineKind, engineVars, drainerVars
<1>4. CASE Probe
  <2>1. audit_cur' \in Nat
    BY <1>4 DEF Probe
  <2> QED
    BY <1>0, <1>4, <2>1 DEF Probe, engineKind, engineVars, drainerVars
<1>5. CASE Flush
  BY <1>0, <1>5 DEF Flush, Barrier, engineKind, engineVars, drainerVars
<1>6. CASE TransportFlush
  <2>1. Len(queue) \in Nat
    BY LenProperties
  <2>2. visible \in 0 .. Len(queue) /\ Len(queue) \in 0 .. Len(queue)
    BY <2>1
  <2>3. drainer \notin {"final", "done"}
    BY <1>6 DEF TransportFlush
  <2>4. /\ published_index' \in Slots /\ published' = Len(queue)
        /\ UNCHANGED <<queue, visible, freed>>
    BY <1>6, FlushInRing
  <2> QED
    BY <1>6, <2>1, <2>2, <2>3, <2>4
       DEF TransportFlush, engineKind, engineVars, drainerVars, drainerView
<1>7. CASE StopDrainer
  BY <1>0, <1>7 DEF StopDrainer, engineKind, engineVars, drainerVars
<1>8. CASE Join
  BY <1>0, <1>8 DEF Join, engineKind, engineVars, drainerVars
<1> QED
  BY <1>1, <1>2, <1>3, <1>4, <1>5, <1>6, <1>7, <1>8 DEF Harness

-----------------------------------------------------------------------------
(* The engine.                                                             *)

LEMMA MatchKeeps ==
    ASSUME Inv, Match
    PROVE  Inv'
<1>1. PICK k \in 1 .. MaxReports :
        pending' = [n \in 1 .. k |-> [seq |-> Head(inbox), n |-> n]]
  BY DEF Match
<1>2. inbox \in Seq(Messages) /\ inbox # <<>>
  BY DEF Match, Inv, TypeOK
<1>3. Head(inbox) \in Messages /\ inbox' \in Seq(Messages)
  BY <1>2, HeadTailProperties DEF Match
<1>4. pending' \in Seq(Report)
  <2>1. k \in Nat /\ \A n \in 1 .. k : n \in 1 .. MaxReports
    BY PipelineAssumption
  <2>2. \A n \in 1 .. k : [seq |-> Head(inbox), n |-> n] \in Report
    BY <1>3, <2>1 DEF Report
  <2>3. pending' \in [1 .. k -> Report]
    BY <1>1, <2>2
  <2> QED
    BY <2>1, <2>3, FunctionIsSeq
<1>5. TypeOK'
  BY <1>3, <1>4, RingStays
     DEF Match, Inv, TypeOK, engineKind, harnessVars, drainerVars, transportVars,
         producerView, drainerView
<1>6. Barred'
  BY <1>2 DEF Match, Inv, Barred, Quiet, harnessVars
<1> QED
  BY <1>5, <1>6, RingStays
     DEF Match, Inv, QueueBounded, Lossless, AllPublished, Stopped, SeesAll,
         LeavesEmpty, Joined, Clocked, harnessVars, drainerVars, transportVars

LEMMA PushKeeps ==
    ASSUME Inv, Push
    PROVE  Inv'
<1> DEFINE r == Head(pending)
<1>1. /\ pending \in Seq(Report) /\ pending # <<>> /\ queue \in Seq(Report)
      /\ pushed \in Seq(Report) /\ collected \in Seq(Report)
  BY DEF Push, Inv, TypeOK
<1>2. r \in Report /\ pending' \in Seq(Report)
  BY <1>1, HeadTailProperties DEF Push
<1>3. /\ queue' = Append(queue, r) /\ pushed' = Append(pushed, r)
      /\ collected' = collected
      /\ Len(queue) + freed < QUEUE_CAPACITY
      /\ published' \in {published, Len(queue) + 1}
      /\ visible' = visible /\ freed' = freed
      /\ slots' \in [Slots -> Report \cup {Unwritten}]
      /\ {write_index', published_index'} \subseteq Slots
  BY PushInRing DEF Inv, Push, drainerVars
<1> HIDE DEF r
<1>4. /\ queue' \in Seq(Report) /\ pushed' \in Seq(Report)
      /\ Len(queue') = Len(queue) + 1 /\ Len(queue) \in Nat
  BY <1>1, <1>2, <1>3, AppendProperties, LenProperties
<1>5. /\ published' \in 0 .. Len(queue') /\ visible' \in 0 .. published'
  <2>1. /\ published' \in {Len(queue'), published} /\ visible' = visible
        /\ published \in 0 .. Len(queue) /\ visible \in 0 .. published
    BY <1>3, <1>4 DEF Inv, TypeOK
  <2> QED
    BY <1>4, <2>1
<1>6. TypeOK'
  BY <1>2, <1>3, <1>4, <1>5
     DEF Push, Inv, TypeOK, engineKind, harnessVars, drainerVars, drainerView
<1>7. QueueBounded'
  <2>1. freed \in Nat
    BY RingIs DEF Inv
  <2> QED
    BY <1>3, <1>4, <2>1, PipelineAssumption DEF QueueBounded
<1>8. Lossless'
  <2>1. <<r>> \in Seq(Report)
    BY <1>2
  <2>2. queue' = queue \o <<r>> /\ pushed' = pushed \o <<r>>
    BY <1>1, <1>2, <1>3, AppendIsConcat
  <2>3. (collected \o queue) \o <<r>> = collected \o (queue \o <<r>>)
    BY <1>1, <2>1, Regroup
  <2> QED
    BY <1>3, <2>2, <2>3 DEF Inv, Lossless
<1>9. phase \notin Ending /\ phase' = phase /\ running' = running
  BY DEF Push, Inv, Barred, Quiet, harnessVars
<1>10. running /\ drainer \notin {"final", "done"} /\ drainer' = drainer
  BY <1>9 DEF Push, Inv, Stopped, SeesAll, Ending, drainerVars
<1> QED
  BY <1>6, <1>7, <1>8, <1>9, <1>10
     DEF Inv, Barred, AllPublished, Stopped, SeesAll, LeavesEmpty, Joined,
         Ending, Clocked

-----------------------------------------------------------------------------
(* Visibility, and the drainer thread.                                     *)

LEMMA CoherenceKeeps ==
    ASSUME Inv, Coherence
    PROVE  Inv'
<1>1. Len(queue) \in Nat
  BY LenProperties DEF Inv, TypeOK
<1>2. CASE SeePublished
  <2>0. /\ seen_index' \in Slots /\ visible' \in visible + 1 .. published
        /\ UNCHANGED <<queue, published, freed>>
    BY <1>2, SeenInRing DEF Inv
  <2>1. visible' \in 0 .. published
    BY <1>1, <2>0 DEF Inv, TypeOK
  <2>2. drainer \notin {"final", "done"}
    BY <1>1, <1>2 DEF SeePublished, Inv, TypeOK, SeesAll
  <2> QED
    BY <1>2, <2>0, <2>1, <2>2
       DEF SeePublished, Inv, TypeOK, QueueBounded, Lossless, Barred,
           AllPublished, Stopped, SeesAll, LeavesEmpty, Joined, Clocked, Quiet,
           engineKind, harnessVars, engineVars, drainerVars, producerView
<1>3. CASE SeeFreed
  <2>1. /\ freed_index' \in Slots /\ freed' \in 0 .. freed - 1 /\ freed \in Nat
        /\ UNCHANGED <<queue, published, visible>>
    BY <1>3, FreedInRing, RingIs DEF Inv
  <2>2. QueueBounded'
    BY <1>1, <2>1, PipelineAssumption DEF Inv, QueueBounded
  <2> QED
    BY <1>3, <2>1, <2>2
       DEF SeeFreed, Inv, TypeOK, Lossless, Barred, AllPublished, Stopped,
           SeesAll, LeavesEmpty, Joined, Clocked, Quiet, engineKind,
           harnessVars, engineVars, drainerVars, drainerView
<1> QED
  BY <1>2, <1>3 DEF Coherence

LEMMA DrainKeeps ==
    ASSUME Inv, Drain \/ FinalDrain
    PROVE  Inv'
<1>1. PICK next \in {"loop", "final"} : DrainInto(next) /\ next = drainer
  BY DEF Drain, FinalDrain, UntilEmpty
<1>2. /\ collected' \in Seq(Report) /\ queue' \in Seq(Report)
      /\ published' \in 0 .. Len(queue') /\ visible' \in 0 .. published'
      /\ read_index' \in Slots
      /\ Lossless' /\ QueueBounded'
      /\ published' = Len(queue') <=> published = Len(queue)
      /\ visible' = published' <=> visible = published
  BY <1>1, DrainStep
<1>3. /\ UNCHANGED <<engineKind, harnessVars, engineVars, pin_failed, slots, write_index,
                      published_index, seen_index, freed_index>>
      /\ drainer' = drainer /\ drainer \in {"loop", "final"}
  BY <1>1 DEF DrainInto, producerView
<1>4. TypeOK'
  BY <1>2, <1>3 DEF Inv, TypeOK, engineKind, harnessVars, engineVars
<1> QED
  BY <1>2, <1>3, <1>4
     DEF Inv, Barred, AllPublished, Stopped, SeesAll, LeavesEmpty, Joined,
         Clocked, Quiet, harnessVars, engineVars

LEMMA DrainerKeeps ==
    ASSUME Inv, Drainer
    PROVE  Inv'
<1>1. Len(queue) \in Nat
  BY LenProperties DEF Inv, TypeOK
<1>0. UNCHANGED transportVars =>
        UNCHANGED <<queue, published, visible, freed, slots, write_index,
                    published_index, seen_index, read_index, freed_index>>
  BY RingStays DEF transportVars, producerView, drainerView
<1>2. CASE Pin
  <2>1. pin_failed' \in BOOLEAN /\ drainer' = "loop" /\ drainer = "pin"
    BY <1>2 DEF Pin, KeepsDraining
  <2> QED
    BY <1>0, <1>2, <2>1
       DEF Pin, Inv, TypeOK, QueueBounded, Lossless, Barred, AllPublished,
           Stopped, SeesAll, LeavesEmpty, Joined, Clocked, Quiet, engineKind,
           harnessVars, engineVars
<1>3. CASE Drain \/ FinalDrain
  BY <1>3, DrainKeeps
<1>4. CASE SeeStop
  <2>1. /\ visible' = published /\ published \in 0 .. published
        /\ seen_index' \in Slots /\ UNCHANGED <<queue, published, freed>>
    BY <1>1, <1>4, StopInRing DEF Inv, TypeOK
  <2> QED
    BY <1>4, <2>1
       DEF SeeStop, Inv, TypeOK, QueueBounded, Lossless, Barred, AllPublished,
           Stopped, SeesAll, LeavesEmpty, Joined, Clocked, Quiet, engineKind,
           harnessVars, engineVars, producerView
<1>5. CASE Exit
  <2>1. published = Len(queue) /\ visible = published /\ visible = 0
    BY <1>5 DEF Exit, Inv, SeesAll, Stopped, AllPublished, Clocked
  <2>2. queue = <<>>
    BY <2>1, EmptySeq DEF Inv, TypeOK
  <2> QED
    BY <1>0, <1>5, <2>2
       DEF Exit, Inv, TypeOK, QueueBounded, Lossless, Barred, AllPublished,
           Stopped, SeesAll, LeavesEmpty, Joined, Clocked, Quiet, engineKind,
           harnessVars, engineVars
<1> QED
  BY <1>2, <1>3, <1>4, <1>5 DEF Drainer

LEMMA NextInv == Inv /\ [Next]_vars => Inv'
<1> SUFFICES ASSUME Inv, [Next]_vars
             PROVE  Inv'
  OBVIOUS
<1>1. CASE Harness
  BY <1>1, HarnessKeeps
<1>2. CASE Engine
  BY <1>2, MatchKeeps, PushKeeps DEF Engine
<1>3. CASE Coherence
  BY <1>3, CoherenceKeeps
<1>4. CASE Drainer
  BY <1>4, DrainerKeeps
<1>5. CASE UNCHANGED vars
  BY <1>5, RingStays
     DEF vars, Inv, TypeOK, QueueBounded, Lossless, Barred, AllPublished,
         Stopped, SeesAll, LeavesEmpty, Joined, Clocked, Quiet, engineKind,
         harnessVars, engineVars, drainerVars, transportVars, producerView,
         drainerView
<1> QED
  BY <1>1, <1>2, <1>3, <1>4, <1>5 DEF Next, Over

-----------------------------------------------------------------------------
(* What follows.                                                           *)

\* The strengthened invariant holds in every state of the run.
THEOREM Invariance == Spec => []Inv
<1>1. Inv /\ [Next]_vars => Inv'
  BY NextInv
<1> QED
  BY <1>1, InitInv, PTL DEF Spec

\* The variables keep their types; the transport's counters stay in order.
THEOREM TypeCorrect == Spec => []TypeOK
<1>1. Inv => TypeOK
  BY DEF Inv
<1> QED
  BY <1>1, Invariance, PTL

\* No report is overwritten in the ring before it is taken, and none is lost,
\* repeated or reordered on its way to the drainer.
THEOREM NothingLost == Spec => []Lossless
<1>1. Inv => Lossless
  BY DEF Inv
<1> QED
  BY <1>1, Invariance, PTL

\* Nothing is pushed once the clock has stopped.
THEOREM AllWorkOnTheClock == Spec => WorkIsOnTheClock
<1>1. Inv /\ [Next]_vars => (Clocked => UNCHANGED pushed)
  <2> SUFFICES ASSUME Inv, [Next]_vars, Clocked
               PROVE  UNCHANGED pushed
    OBVIOUS
  <2>1. ~Push
    BY DEF Inv, Barred, Clocked, Ending, Quiet, Push
  <2> QED
    BY <2>1
       DEF Next, Harness, Engine, Coherence, Drainer, Over, vars, engineVars,
           Preflight, Dispatch, Return, Probe, Flush, TransportFlush,
           StopDrainer, Join, Match, SeePublished, SeeFreed, Pin, Drain,
           FinalDrain, DrainInto, SeeStop, Exit
<1> QED
  BY <1>1, Invariance, PTL DEF Spec, WorkIsOnTheClock

-----------------------------------------------------------------------------
(* The pipeline implements the lossless stream.                            *)

LEMMA InitRefines == Init => S!Init
BY DEF Init, S!Init

LEMMA PushRefines ==
    ASSUME Inv, Push
    PROVE  S!Push
<1>1. Head(pending) \in Report
  BY HeadTailProperties DEF Push, Inv, TypeOK
<1>2. phase # "joined" /\ phase' = phase
  BY DEF Push, Inv, Barred, Ending, Quiet, harnessVars
<1> QED
  BY <1>1, <1>2 DEF Push, S!Push, drainerVars

LEMMA DrainRefines ==
    ASSUME Inv, Drain \/ FinalDrain
    PROVE  S!Collect
<1>1. PICK next \in {"loop", "final"} : DrainInto(next)
  BY DEF Drain, FinalDrain, UntilEmpty
<1>2. /\ collected' \in Seq(Report) /\ queue' \in Seq(Report)
      /\ collected' \o queue' = pushed'
  BY <1>1, DrainStep DEF Lossless
<1>3. PICK taken \in Seq(Report) : collected' = collected \o taken
  BY <1>1, DrainStep
<1>4. collected \in Seq(Report)
  BY DEF Inv, TypeOK
<1>5. pushed' = pushed /\ phase' = phase
  BY <1>1 DEF DrainInto, engineVars, harnessVars
<1>6. IsPrefix(collected, collected')
  BY <1>3, <1>4, PrefixOfConcat
<1>7. IsPrefix(collected', pushed)
  BY <1>2, <1>5, PrefixOfConcat
<1> QED
  BY <1>5, <1>6, <1>7 DEF S!Collect, S!IsPrefix, IsPrefix

LEMMA JoinRefines ==
    ASSUME Inv, Join
    PROVE  S!Complete
<1>1. queue = <<>> /\ collected \in Seq(Report)
  BY DEF Join, Inv, LeavesEmpty, TypeOK
<1>2. collected = pushed
  BY <1>1, ConcatEmptySeq DEF Inv, Lossless
<1> QED
  BY <1>2 DEF Join, S!Complete, engineVars, drainerVars

LEMMA StepRefines == Inv /\ [Next]_vars => [S!Next]_S!streamVars
<1> SUFFICES ASSUME Inv, [Next]_vars
             PROVE  [S!Next]_S!streamVars
  OBVIOUS
<1>1. CASE Push
  BY <1>1, PushRefines DEF S!Next
<1>2. CASE Drain \/ FinalDrain
  BY <1>2, DrainRefines DEF S!Next
<1>3. CASE Join
  BY <1>3, JoinRefines DEF S!Next
<1>4. CASE ~Push /\ ~Drain /\ ~FinalDrain /\ ~Join
  <2>1. UNCHANGED <<pushed, collected, phase = "joined">>
    <3>1. CASE Harness
      BY <1>4, <3>1
         DEF Harness, Preflight, Dispatch, Return, Probe, Flush, TransportFlush,
             StopDrainer, engineVars, drainerVars
    <3>2. CASE Match \/ Coherence \/ Pin \/ SeeStop \/ Exit \/ UNCHANGED vars
      BY <3>2
         DEF Match, Coherence, SeePublished, SeeFreed, Pin, SeeStop, Exit, vars,
             harnessVars, engineVars, drainerVars
    <3> QED
      BY <1>4, <3>1, <3>2 DEF Next, Engine, Drainer, Over
  <2> QED
    BY <2>1 DEF S!streamVars
<1> QED
  BY <1>1, <1>2, <1>3, <1>4

\* The drainer's collection is at all times a prefix of what the engine pushed,
\* and what the harness hashes after the join is all of it.
THEOREM PipelineIsStream == Spec => Stream
<1>1. Inv /\ [Next]_vars => [S!Next]_S!streamVars
  BY StepRefines
<1> QED
  BY <1>1, InitRefines, Invariance, PTL DEF Spec, Stream, S!Spec

-----------------------------------------------------------------------------
(* What the harness hashes and what its probes have seen, for every choice *)
(* of probes as well.  StreamIsWhole and ProbesAligned speak of the end of *)
(* the run.  What makes them inductive is an account of every message from *)
(* the delivery on: it is matched, in the engine's hand or in the inbox,   *)
(* in this order (Accounted .. InboxInOrder); and the next probe is never  *)
(* behind the harness, which is what makes the batches of the batch path   *)
(* end where they do.                                                      *)


InHand == IF pending = <<>> THEN 0 ELSE 1
NextProbe == audit_idx[audit_cur + 1]
Probed == [index : Messages, matched : Seq(Messages)]

\* The messages delivered are 0 .. start - 1: matched, then in hand, then waiting.
HistoryTypes == matched \in Seq(Messages) /\ probes \in Seq(Probed)
Accounted == Len(matched) + InHand + Len(inbox) = start
MatchedInOrder == \A i \in 1 .. Len(matched) : matched[i] = i - 1
InboxInOrder == \A i \in 1 .. Len(inbox) : inbox[i] = Len(matched) + InHand + i - 1

\* The reports of the message in hand come in their order, after all others.
HandInOrder ==
    /\ \A i \in 1 .. Len(pending) : pending[i].seq = Len(matched)
    /\ \A i, j \in 1 .. Len(pending) : i < j => pending[i].n < pending[j].n
PushedInOrder ==
    \A i, j \in 1 .. Len(pushed) : i < j => Earlier(pushed[i], pushed[j])
PushedBefore ==
    \A i \in 1 .. Len(pushed) :
        /\ pushed[i].seq < Len(matched) + InHand
        /\ \A j \in 1 .. Len(pending) : Earlier(pushed[i], pending[j])

Work == /\ HistoryTypes
        /\ Accounted
        /\ MatchedInOrder
        /\ InboxInOrder
        /\ HandInOrder
        /\ PushedInOrder
        /\ PushedBefore

PicksIncrease ==
    \A j, k \in 1 .. Len(audit_idx) : j < k => audit_idx[j] < audit_idx[k]
ProbesCounted == Len(probes) = audit_cur /\ audit_cur <= Len(audit_idx)
ProbesTrue ==
    \A p \in 1 .. Len(probes) :
        /\ probes[p].index = audit_idx[p]
        /\ probes[p].matched = [i \in 1 .. audit_idx[p] + 1 |-> i - 1]

\* Before a delivery the next probe is ahead; a batch ends at it.
NextProbeAhead ==
    /\ phase \in {"preflight", "deliver"} /\ ProbesLeft => start <= NextProbe
    /\ phase = "call" /\ ProbesLeft =>
         IF batched THEN start - 1 = NextProbe ELSE start - 1 <= NextProbe
    /\ phase = "probe" => ProbesLeft /\ start - 1 = NextProbe
    /\ phase \in Ending => ~ProbesLeft /\ start = MessageCount

Probing == /\ PicksIncrease
           /\ ProbesCounted
           /\ ProbesTrue
           /\ NextProbeAhead

workVars == <<matched, pending, inbox, start, pushed>>
probingVars == <<phase, batched, start, audit_idx, audit_cur, probes>>

-----------------------------------------------------------------------------
(* The types these arguments use.                                          *)

LEMMA Sequences ==
    ASSUME Inv, Work
    PROVE  /\ matched \in Seq(Messages) /\ pending \in Seq(Report)
           /\ inbox \in Seq(Messages) /\ pushed \in Seq(Report)
           /\ audit_idx \in Seq(Messages) /\ probes \in Seq(Probed)
BY DEF Inv, TypeOK, Work, HistoryTypes

LEMMA Counts ==
    ASSUME Inv, Work
    PROVE  /\ Len(matched) \in Nat /\ Len(pending) \in Nat /\ Len(inbox) \in Nat
           /\ Len(pushed) \in Nat /\ Len(audit_idx) \in Nat /\ Len(probes) \in Nat
           /\ start \in Nat /\ start <= MessageCount /\ MessageCount \in Nat \ {0}
           /\ audit_cur \in Nat /\ InHand \in Nat
<1>1. /\ Len(matched) \in Nat /\ Len(pending) \in Nat /\ Len(inbox) \in Nat
      /\ Len(pushed) \in Nat /\ Len(audit_idx) \in Nat /\ Len(probes) \in Nat
  BY Sequences, LenProperties
<1>2. /\ start \in Nat /\ start <= MessageCount /\ MessageCount \in Nat \ {0}
      /\ audit_cur \in Nat /\ InHand \in Nat
  BY PipelineAssumption DEF Inv, TypeOK, InHand
<1> QED
  BY <1>1, <1>2

\* The index of a probe is the index of a message.
LEMMA NextProbeType ==
    ASSUME Inv, ProbesLeft
    PROVE  NextProbe \in Messages
<1>1. audit_cur + 1 \in 1 .. Len(audit_idx)
  BY LenProperties DEF ProbesLeft, Inv, TypeOK
<1> QED
  BY <1>1, ElementOfSeq DEF Inv, TypeOK, NextProbe

\* Nothing in hand and nothing waiting: all that was delivered is matched.
LEMMA QuietIsMatched ==
    ASSUME Inv, Work, Probing, Quiet
    PROVE  matched = [i \in 1 .. start |-> i - 1]
<1>1. Len(matched) = start
  BY Counts, Sequences, EmptySeq DEF Work, Accounted, InHand, Quiet
<1>2. matched = [i \in 1 .. Len(matched) |-> matched[i]]
  BY Sequences, LenProperties
<1> QED
  BY <1>1, <1>2 DEF Work, MatchedInOrder

-----------------------------------------------------------------------------
(* Steps that leave one of the two alone.                                  *)

LEMMA WorkStutters ==
    ASSUME Work, UNCHANGED workVars, probes' = probes
    PROVE  Work'
BY DEF workVars, Work, HistoryTypes, Accounted, MatchedInOrder, InboxInOrder,
       HandInOrder, PushedInOrder, PushedBefore, InHand

LEMMA ProbingStutters ==
    ASSUME Probing, UNCHANGED probingVars
    PROVE  Probing'
BY DEF probingVars, Probing, PicksIncrease, ProbesCounted, ProbesTrue,
       NextProbeAhead, ProbesLeft, NextProbe

\* Only the phase moves on, and with it what the next probe's index must be.
LEMMA ProbingMoves ==
    ASSUME Probing, UNCHANGED <<audit_idx, audit_cur, probes>>, NextProbeAhead'
    PROVE  Probing'
BY DEF Probing, PicksIncrease, ProbesCounted, ProbesTrue

-----------------------------------------------------------------------------
(* The harness.                                                            *)

LEMMA BoundaryBound ==
    ASSUME Inv, Work, Probing, Dispatch
    PROVE  Boundary \in Messages /\ start <= Boundary
<1>1. start \in Messages
  BY Counts DEF Dispatch, Messages
<1>2. CASE ~batched
  BY <1>1, <1>2, Counts DEF Boundary
<1>3. CASE batched /\ ProbesLeft
  <2>1. Boundary = NextProbe /\ phase = "deliver"
    BY <1>3 DEF Boundary, NextProbe, Dispatch
  <2> QED
    BY <1>3, <2>1, NextProbeType DEF Probing, NextProbeAhead
<1>4. CASE batched /\ ~ProbesLeft
  BY <1>1, <1>4, Counts DEF Boundary, Messages
<1> QED
  BY <1>2, <1>3, <1>4

RunFrom(from, to) == [i \in 1 .. to - from + 1 |-> from + i - 1]

\* What a delivery appends continues the numbering.
LEMMA RunOfMessages ==
    ASSUME NEW s \in Seq(Messages), NEW from \in Messages, NEW to \in Messages,
           from <= to
    PROVE  /\ Len(s \o RunFrom(from, to)) = Len(s) + (to - from + 1)
           /\ \A i \in 1 .. Len(s) : (s \o RunFrom(from, to))[i] = s[i]
           /\ \A i \in Len(s) + 1 .. Len(s) + (to - from + 1) :
                 (s \o RunFrom(from, to))[i] = from + (i - Len(s)) - 1
<1> DEFINE n == to - from + 1
           run == [i \in 1 .. n |-> from + i - 1]
<1>1. n \in Nat \ {0} /\ from \in Nat /\ to \in Nat
  BY PipelineAssumption DEF Messages
<1>2. \A i \in 1 .. n : from + i - 1 \in Messages
  BY <1>1, PipelineAssumption DEF Messages
<1>3. run \in [1 .. n -> Messages]
  BY <1>2
<1>4. run \in Seq(Messages)
  <2> HIDE DEF run, n
  <2> QED
    BY <1>1, <1>3, FunctionIsSeq
<1>5. Len(run) = n
  BY <1>1, <1>3, <1>4, LenProperties
<1>6. \A i \in 1 .. n : run[i] = from + i - 1
  OBVIOUS
<1> HIDE DEF run, n
<1>7. /\ Len(s \o run) = Len(s) + n /\ Len(s) \in Nat
      /\ \A i \in 1 .. Len(s) + n :
            (s \o run)[i] = IF i <= Len(s) THEN s[i] ELSE run[i - Len(s)]
  BY <1>4, <1>5, ConcatProperties, LenProperties
<1>8. \A i \in Len(s) + 1 .. Len(s) + n : (s \o run)[i] = from + (i - Len(s)) - 1
  <2> TAKE i \in Len(s) + 1 .. Len(s) + n
  <2>1. i - Len(s) \in 1 .. n /\ ~(i <= Len(s)) /\ i \in 1 .. Len(s) + n
    BY <1>1, <1>7
  <2> QED
    BY <1>6, <1>7, <2>1
<1> QED
  BY <1>1, <1>7, <1>8 DEF run, n, RunFrom

LEMMA DispatchOrders ==
    ASSUME Inv, Work, Probing, Dispatch
    PROVE  Work' /\ Probing'
<1> DEFINE n == Boundary - start + 1
<1>1. /\ Boundary \in Messages /\ start <= Boundary /\ start \in Messages
      /\ Boundary \in Nat
  BY BoundaryBound, Counts DEF Messages
<1>2. /\ inbox' = inbox \o RunFrom(start, Boundary)
      /\ start' = Boundary + 1
      /\ phase = "deliver" /\ phase' = "call"
      /\ UNCHANGED <<pending, matched, pushed, probes, batched, audit_idx, audit_cur>>
  BY DEF Dispatch, After, engineKind, RunFrom
<1>3. /\ Len(inbox') = Len(inbox) + n
      /\ \A i \in 1 .. Len(inbox) : inbox'[i] = inbox[i]
      /\ \A i \in Len(inbox) + 1 .. Len(inbox) + n :
            inbox'[i] = start + (i - Len(inbox)) - 1
  <2>1. inbox \in Seq(Messages)
    BY Sequences
  <2> QED
    BY <1>1, <1>2, <2>1, RunOfMessages
<1>4. n \in Nat
  BY <1>1, Counts
<1>5. Accounted'
  <2>1. Len(matched') = Len(matched) /\ InHand' = InHand
    BY <1>2 DEF InHand
  <2>2. Len(matched) + InHand + Len(inbox) = start
    BY DEF Work, Accounted
  <2>3. Len(inbox') = Len(inbox) + (Boundary - start + 1) /\ start' = Boundary + 1
    BY <1>2, <1>3
  <2>4. Len(matched') + InHand' + Len(inbox') = start'
    BY <1>1, <2>1, <2>2, <2>3, Counts, SMTT(30)
  <2> QED
    BY <2>4 DEF Accounted
<1> HIDE DEF n
<1>6. InboxInOrder'
  <2> SUFFICES ASSUME NEW i \in 1 .. Len(inbox')
               PROVE  inbox'[i] = Len(matched) + InHand + i - 1
    BY <1>2 DEF InboxInOrder, InHand
  <2>1. CASE i <= Len(inbox)
    <3>1. i \in 1 .. Len(inbox)
      BY <1>3, <1>4, <2>1, Counts
    <3> QED
      BY <1>3, <3>1 DEF Work, InboxInOrder
  <2>2. CASE ~(i <= Len(inbox))
    <3>1. i \in Len(inbox) + 1 .. Len(inbox) + n
      BY <1>3, <1>4, <2>2, Counts
    <3>2. inbox'[i] = start + (i - Len(inbox)) - 1
      BY <1>3, <3>1
    <3>3. Len(matched) + InHand + Len(inbox) = start
      BY DEF Work, Accounted
    <3>4. \A a, b, c, s, k \in Int : a + b + c = s => s + (k - c) - 1 = a + b + k - 1
      OBVIOUS
    <3>5. /\ Len(matched) \in Int /\ InHand \in Int /\ Len(inbox) \in Int
          /\ start \in Int /\ i \in Int
      BY <3>1, Counts
    <3> QED
      BY <3>2, <3>3, <3>4, <3>5
  <2> QED
    BY <2>1, <2>2
<1>7. Work'
  BY <1>2, <1>5, <1>6
     DEF Work, HistoryTypes, MatchedInOrder, HandInOrder, PushedInOrder,
         PushedBefore, InHand
<1>8. NextProbeAhead'
  <2>1. ProbesLeft' <=> ProbesLeft
    BY <1>2 DEF ProbesLeft
  <2>2. NextProbe' = NextProbe
    BY <1>2 DEF NextProbe
  <2>3. ProbesLeft => IF batched THEN Boundary = NextProbe ELSE Boundary <= NextProbe
    <3>1. CASE batched
      BY <3>1 DEF Boundary, NextProbe
    <3>2. CASE ~batched
      BY <1>2, <3>2 DEF Boundary, Probing, NextProbeAhead
    <3> QED
      BY <3>1, <3>2
  <2>4. start' - 1 = Boundary
    BY <1>1, <1>2
  <2> QED
    BY <1>2, <2>1, <2>2, <2>3, <2>4 DEF NextProbeAhead, Ending
<1> QED
  BY <1>2, <1>7, <1>8, ProbingMoves

LEMMA ReturnOrders ==
    ASSUME Inv, Work, Probing, Return
    PROVE  Work' /\ Probing'
<1>1. /\ phase = "call"
      /\ UNCHANGED <<workVars, batched, audit_idx, audit_cur, probes>>
      /\ phase' = IF ProbesLeft /\ (batched \/ NextProbe = start - 1)
                    THEN "probe" ELSE "deliver"
  BY DEF Return, NextProbe, engineKind, engineVars, workVars
<1>2. (ProbesLeft' <=> ProbesLeft) /\ NextProbe' = NextProbe /\ start' = start
  BY <1>1 DEF ProbesLeft, NextProbe, workVars
<1>3. ProbesLeft => IF batched THEN start - 1 = NextProbe ELSE start - 1 <= NextProbe
  BY <1>1 DEF Probing, NextProbeAhead
<1>4. ProbesLeft => NextProbe \in Nat
  BY NextProbeType, PipelineAssumption DEF Messages
<1>5. NextProbeAhead'
  <2>1. CASE ProbesLeft /\ (batched \/ NextProbe = start - 1)
    BY <1>1, <1>2, <1>3, <2>1 DEF NextProbeAhead, Ending
  <2>2. CASE ProbesLeft /\ ~batched /\ NextProbe # start - 1
    <3>1. start - 1 <= NextProbe /\ NextProbe # start - 1 /\ NextProbe \in Nat
      BY <1>3, <1>4, <2>2, Zenon
    <3>2. start <= NextProbe
      BY <3>1, Counts
    <3> QED
      BY <1>1, <1>2, <2>2, <3>2 DEF NextProbeAhead, Ending
  <2>3. CASE ~ProbesLeft
    BY <1>1, <1>2, <2>3 DEF NextProbeAhead, Ending
  <2> QED
    BY <2>1, <2>2, <2>3
<1> QED
  BY <1>1, <1>5, WorkStutters, ProbingMoves

LEMMA ProbeOrders ==
    ASSUME Inv, Work, Probing, Probe
    PROVE  Work' /\ Probing'
<1> DEFINE new == [index |-> start - 1, matched |-> matched]
<1>1. /\ phase = "probe" /\ phase' = "deliver" /\ Quiet
      /\ probes' = Append(probes, new)
      /\ audit_cur' = audit_cur + 1
      /\ UNCHANGED <<workVars, batched, audit_idx>>
  BY DEF Probe, QuerySynchronised, engineKind, engineVars, workVars
<1>2. ProbesLeft /\ start - 1 = NextProbe /\ NextProbe \in Messages
  BY <1>1, NextProbeType DEF Probing, NextProbeAhead
<1>3. new \in Probed
  BY <1>2, Sequences DEF Probed
<1>4. /\ new.index = audit_idx[audit_cur + 1]
      /\ new.matched = [i \in 1 .. audit_idx[audit_cur + 1] + 1 |-> i - 1]
  <2>1. start = NextProbe + 1
    BY <1>2, Counts, PipelineAssumption DEF Messages
  <2> QED
    BY <1>1, <1>2, <2>1, QuietIsMatched DEF NextProbe
<1> HIDE DEF new
<1>5. /\ probes' \in Seq(Probed)
      /\ Len(probes') = Len(probes) + 1
      /\ \A i \in 1 .. Len(probes) : probes'[i] = probes[i]
      /\ probes'[Len(probes) + 1] = new
  BY <1>1, <1>3, Sequences, AppendProperties
<1>6. Work'
  BY <1>1, <1>5
     DEF workVars, Work, HistoryTypes, Accounted, MatchedInOrder, InboxInOrder,
         HandInOrder, PushedInOrder, PushedBefore, InHand
<1>7. PicksIncrease' /\ ProbesCounted'
  BY <1>1, <1>2, <1>5, Counts, SMTT(30)
     DEF Probing, PicksIncrease, ProbesCounted, ProbesLeft
<1>8. ProbesTrue'
  <2> SUFFICES ASSUME NEW p \in 1 .. Len(probes')
               PROVE  /\ probes'[p].index = audit_idx[p]
                      /\ probes'[p].matched = [i \in 1 .. audit_idx[p] + 1 |-> i - 1]
    BY <1>1 DEF ProbesTrue
  <2>1. CASE p \in 1 .. Len(probes)
    BY <1>5, <2>1 DEF Probing, ProbesTrue
  <2>2. CASE p = Len(probes) + 1
    BY <1>4, <1>5, <2>2 DEF Probing, ProbesCounted
  <2> QED
    BY <1>5, <2>1, <2>2, Counts
<1>9. NextProbeAhead'
  <2>1. ProbesLeft' => start' <= NextProbe'
    <3> SUFFICES ASSUME ProbesLeft'
                 PROVE  start <= audit_idx[audit_cur + 2]
      BY <1>1, Counts, SMTT(30) DEF workVars, NextProbe
    <3>1. /\ audit_cur + 1 \in 1 .. Len(audit_idx)
          /\ audit_cur + 2 \in 1 .. Len(audit_idx)
      BY <1>1, Counts, SMTT(30) DEF ProbesLeft
    <3>2. audit_idx[audit_cur + 2] \in Nat
      <4>1. audit_idx[audit_cur + 2] \in Messages
        BY <3>1, Sequences, ElementOfSeq
      <4> QED
        BY <4>1, PipelineAssumption DEF Messages
    <3>3. audit_idx[audit_cur + 1] < audit_idx[audit_cur + 2]
      BY <3>1, Counts, SMTT(30) DEF Probing, PicksIncrease
    <3> QED
      BY <1>2, <3>2, <3>3, Counts, PipelineAssumption, SMTT(30) DEF NextProbe, Messages
  <2> QED
    BY <1>1, <2>1 DEF NextProbeAhead, Ending
<1> QED
  BY <1>6, <1>7, <1>8, <1>9 DEF Probing

\* The delivery is over only behind the last probe.
LEMMA FlushOrders ==
    ASSUME Inv, Work, Probing, Flush
    PROVE  Work' /\ Probing'
<1>1. /\ phase = "deliver" /\ phase' = "flushed" /\ start >= MessageCount
      /\ UNCHANGED <<workVars, batched, audit_idx, audit_cur, probes>>
  BY DEF Flush, engineKind, engineVars, workVars
<1>2. ~ProbesLeft
  BY <1>1, NextProbeType, Counts DEF Probing, NextProbeAhead, Messages
<1>3. NextProbeAhead'
  BY <1>1, <1>2, Counts DEF NextProbeAhead, ProbesLeft, Ending, workVars
<1> QED
  BY <1>1, <1>3, WorkStutters, ProbingMoves

LEMMA HarnessOrders ==
    ASSUME Inv, Work, Probing, Harness
    PROVE  Work' /\ Probing'
<1>1. CASE Preflight \/ TransportFlush \/ StopDrainer \/ Join
  <2>1. UNCHANGED <<workVars, batched, audit_idx, audit_cur, probes>>
    BY <1>1
       DEF Preflight, TransportFlush, StopDrainer, Join, engineKind, engineVars,
           workVars
  <2>2. \/ phase = "preflight" /\ phase' = "deliver"
        \/ phase \in Ending /\ phase' \in Ending
    BY <1>1 DEF Preflight, TransportFlush, StopDrainer, Join, Ending
  <2>3. NextProbeAhead'
    BY <2>1, <2>2
       DEF Probing, NextProbeAhead, ProbesLeft, NextProbe, Ending, workVars
  <2> QED
    BY <2>1, <2>3, WorkStutters, ProbingMoves
<1> QED
  BY <1>1, DispatchOrders, ReturnOrders, ProbeOrders, FlushOrders DEF Harness

-----------------------------------------------------------------------------
(* The engine.                                                             *)

LEMMA MatchOrders ==
    ASSUME Inv, Work, Probing, Match
    PROVE  Work' /\ Probing'
<1>1. PICK k \in 1 .. MaxReports :
        pending' = [n \in 1 .. k |-> [seq |-> Head(inbox), n |-> n]]
  BY DEF Match
<1>2. /\ pending = <<>> /\ inbox # <<>> /\ inbox' = Tail(inbox)
      /\ UNCHANGED <<matched, start, pushed, probes>> /\ UNCHANGED probingVars
  BY DEF Match, engineKind, harnessVars, probingVars
<1>3. /\ Len(inbox') = Len(inbox) - 1
      /\ \A i \in 1 .. Len(inbox') : inbox'[i] = inbox[i + 1]
      /\ Head(inbox) = inbox[1]
      /\ Len(inbox) \in Nat \ {0}
  BY <1>2, Sequences, HeadTailProperties, EmptySeq
<1>4. Head(inbox) = Len(matched)
  BY <1>2, <1>3, Counts DEF Work, InboxInOrder, InHand
<1>5. k \in Nat \ {0} /\ Len(pending') = k
  BY <1>1, PipelineAssumption, LenProperties
<1>6. /\ \A i \in 1 .. k : /\ pending'[i].seq = Len(matched)
                           /\ pending'[i].n = i
  BY <1>1, <1>4
<1>7. InHand = 0 /\ InHand' = 1
  BY <1>2, <1>5, EmptySeq DEF InHand
<1>8. Accounted'
  BY <1>2, <1>3, <1>7, Counts DEF Work, Accounted
<1>9. InboxInOrder'
  <2> SUFFICES ASSUME NEW i \in 1 .. Len(inbox')
               PROVE  inbox'[i] = Len(matched) + InHand' + i - 1
    BY <1>2 DEF InboxInOrder
  <2>1. i + 1 \in 1 .. Len(inbox)
    BY <1>3
  <2>2. inbox[i + 1] = Len(matched) + InHand + (i + 1) - 1
    BY <2>1 DEF Work, InboxInOrder
  <2> QED
    BY <1>3, <1>7, <2>2, Counts
<1>10. HandInOrder'
  BY <1>2, <1>5, <1>6 DEF HandInOrder
<1>11. PushedBefore'
  <2> SUFFICES ASSUME NEW i \in 1 .. Len(pushed)
               PROVE  /\ pushed[i].seq < Len(matched) + 1
                      /\ \A j \in 1 .. k : Earlier(pushed[i], pending'[j])
    BY <1>2, <1>5, <1>7 DEF PushedBefore
  <2>1. pushed[i].seq < Len(matched) + InHand
    BY DEF Work, PushedBefore
  <2>2. pushed[i].seq \in Nat
    <3>1. pushed[i] \in Report
      BY Sequences, ElementOfSeq
    <3> QED
      BY <3>1, PipelineAssumption DEF Report, Messages
  <2>3. pushed[i].seq < Len(matched)
    BY <1>7, <2>1, <2>2, Counts
  <2> QED
    BY <1>6, <2>2, <2>3, Counts, SMTT(30) DEF Earlier
<1>12. Work'
  BY <1>2, <1>8, <1>9, <1>10, <1>11
     DEF Work, HistoryTypes, MatchedInOrder, PushedInOrder
<1> QED
  BY <1>2, <1>12, ProbingStutters

LEMMA PushOrders ==
    ASSUME Inv, Work, Probing, Push
    PROVE  Work' /\ Probing'
<1> DEFINE r == Head(pending)
<1>1. /\ pending # <<>> /\ pending' = Tail(pending)
      /\ pushed' = Append(pushed, r)
      /\ matched' = IF Len(pending) = 1 THEN Append(matched, r.seq) ELSE matched
      /\ UNCHANGED <<inbox, start, probes>> /\ UNCHANGED probingVars
  BY DEF Push, engineKind, harnessVars, probingVars
<1>2. /\ r \in Report /\ r = pending[1]
      /\ Len(pending) \in Nat \ {0} /\ Len(pending') = Len(pending) - 1
      /\ pending' \in Seq(Report)
      /\ \A j \in 1 .. Len(pending') : pending'[j] = pending[j + 1]
  BY <1>1, Sequences, HeadTailProperties, EmptySeq
<1>3. r.seq = Len(matched) /\ r.seq \in Messages
  BY <1>2 DEF Work, HandInOrder, Report
<1> HIDE DEF r
<1>4. /\ Len(pushed') = Len(pushed) + 1
      /\ \A i \in 1 .. Len(pushed) : pushed'[i] = pushed[i]
      /\ pushed'[Len(pushed) + 1] = r
  BY <1>1, <1>2, Sequences, AppendProperties
<1>5. InHand = 1
  BY <1>1 DEF InHand
<1>6. \A i \in 1 .. Len(pushed) : Earlier(pushed[i], r)
  BY <1>2 DEF Work, PushedBefore
<1>7. PushedInOrder'
  <2> SUFFICES ASSUME NEW i \in 1 .. Len(pushed'), NEW j \in 1 .. Len(pushed'), i < j
               PROVE  Earlier(pushed'[i], pushed'[j])
    BY DEF PushedInOrder
  <2>1. i \in 1 .. Len(pushed)
    BY <1>4, Counts
  <2>2. CASE j \in 1 .. Len(pushed)
    BY <1>4, <2>1, <2>2 DEF Work, PushedInOrder
  <2>3. CASE j = Len(pushed) + 1
    BY <1>4, <1>6, <2>1, <2>3
  <2> QED
    BY <1>4, <2>2, <2>3, Counts
<1>8. CASE Len(pending) = 1
  <2>1. pending' = <<>> /\ InHand' = 0 /\ Len(pending') = 0
    BY <1>2, <1>8, EmptySeq DEF InHand
  <2>2. /\ matched' \in Seq(Messages) /\ Len(matched') = Len(matched) + 1
        /\ \A i \in 1 .. Len(matched) : matched'[i] = matched[i]
        /\ matched'[Len(matched) + 1] = Len(matched)
    BY <1>1, <1>3, <1>8, Sequences, AppendProperties
  <2>3. MatchedInOrder'
    <3> SUFFICES ASSUME NEW i \in 1 .. Len(matched')
                 PROVE  matched'[i] = i - 1
      BY DEF MatchedInOrder
    <3>1. CASE i \in 1 .. Len(matched)
      BY <2>2, <3>1 DEF Work, MatchedInOrder
    <3>2. CASE i = Len(matched) + 1
      BY <2>2, <3>2, Counts
    <3> QED
      BY <2>2, <3>1, <3>2, Counts
  <2>4. Len(matched') + InHand' = Len(matched) + InHand
    BY <1>5, <2>1, <2>2, Counts
  <2>5. Accounted' /\ InboxInOrder'
    BY <1>1, <2>4 DEF Work, Accounted, InboxInOrder
  <2>6. HandInOrder'
    BY <2>1 DEF HandInOrder
  <2>7. PushedBefore'
    <3> SUFFICES ASSUME NEW i \in 1 .. Len(pushed')
                 PROVE  pushed'[i].seq < Len(matched) + InHand
      BY <2>1, <2>4 DEF PushedBefore
    <3>1. CASE i \in 1 .. Len(pushed)
      BY <1>4, <3>1 DEF Work, PushedBefore
    <3>2. CASE i = Len(pushed) + 1
      BY <1>3, <1>4, <1>5, <3>2, Counts
    <3> QED
      BY <1>4, <3>1, <3>2, Counts
  <2> QED
    BY <1>1, <1>7, <2>2, <2>3, <2>5, <2>6, <2>7, Sequences, ProbingStutters
       DEF Work, HistoryTypes
<1>9. CASE Len(pending) # 1
  <2>1. pending' # <<>> /\ InHand' = InHand /\ matched' = matched
    BY <1>1, <1>2, <1>5, <1>9, EmptySeq DEF InHand
  <2>2. \A j \in 1 .. Len(pending') : /\ j + 1 \in 1 .. Len(pending)
                                      /\ 1 < j + 1
                                      /\ pending'[j] = pending[j + 1]
    BY <1>2
  <2>3. HandInOrder'
    <3>1. \A j \in 1 .. Len(pending') : pending'[j].seq = Len(matched)
      BY <2>2 DEF Work, HandInOrder
    <3>2. ASSUME NEW i \in 1 .. Len(pending'), NEW j \in 1 .. Len(pending'), i < j
          PROVE  pending'[i].n < pending'[j].n
      <4>1. i + 1 < j + 1
        BY <3>2, <1>2
      <4> QED
        BY <2>2, <4>1 DEF Work, HandInOrder
    <3> QED
      BY <2>1, <3>1, <3>2 DEF HandInOrder
  <2>4. PushedBefore'
    <3> SUFFICES ASSUME NEW i \in 1 .. Len(pushed')
                 PROVE  /\ pushed'[i].seq < Len(matched) + InHand
                        /\ \A j \in 1 .. Len(pending') :
                              Earlier(pushed'[i], pending'[j])
      BY <2>1 DEF PushedBefore
    <3>1. CASE i \in 1 .. Len(pushed)
      BY <1>4, <2>2, <3>1 DEF Work, PushedBefore
    <3>2. CASE i = Len(pushed) + 1
      <4>1. \A j \in 1 .. Len(pending') : /\ pending'[j].seq = r.seq
                                          /\ r.n < pending'[j].n
        BY <1>2, <1>3, <2>2, SMTT(30) DEF Work, HandInOrder
      <4> QED
        BY <1>3, <1>4, <1>5, <3>2, <4>1, Counts, SMTT(30) DEF Earlier
    <3> QED
      BY <1>4, <3>1, <3>2, Counts
  <2>5. Accounted' /\ InboxInOrder' /\ MatchedInOrder'
    BY <1>1, <2>1 DEF Work, Accounted, InboxInOrder, MatchedInOrder
  <2> QED
    BY <1>1, <1>7, <2>1, <2>3, <2>4, <2>5, ProbingStutters DEF Work, HistoryTypes
<1> QED
  BY <1>8, <1>9

-----------------------------------------------------------------------------
LEMMA InitOrders == Init => Work /\ Probing
<1> SUFFICES ASSUME Init PROVE Work /\ Probing
  OBVIOUS
<1>1. /\ \A T : <<>> \in Seq(T)
      /\ Len(<<>>) = 0
  BY EmptySeq
<1>2. Work
  BY <1>1
     DEF Init, Work, HistoryTypes, Accounted, MatchedInOrder, InboxInOrder,
         HandInOrder, PushedInOrder, PushedBefore, InHand
<1>3. audit_idx \in Seq(Messages) /\ audit_idx \in AuditPicks
  BY AuditPicksType DEF Init
<1>4. PicksIncrease
  BY <1>3, LenProperties DEF AuditPicks, PicksIncrease
<1>5. Len(audit_idx) \in Nat
  BY <1>3, LenProperties
<1>6. NextProbeAhead
  <2>1. ProbesLeft => NextProbe \in Messages
    BY <1>3, <1>5, ElementOfSeq DEF Init, ProbesLeft, NextProbe
  <2> QED
    BY <2>1, PipelineAssumption DEF Init, NextProbeAhead, Ending, Messages
<1> QED
  BY <1>1, <1>2, <1>4, <1>5, <1>6 DEF Init, Probing, ProbesCounted, ProbesTrue

LEMMA NextOrders == Inv /\ Work /\ Probing /\ [Next]_vars => Work' /\ Probing'
<1> SUFFICES ASSUME Inv, Work, Probing, [Next]_vars
             PROVE  Work' /\ Probing'
  OBVIOUS
<1>1. CASE Harness
  BY <1>1, HarnessOrders
<1>2. CASE Engine
  BY <1>2, MatchOrders, PushOrders DEF Engine
<1>3. CASE Coherence \/ Drainer \/ UNCHANGED vars
  <2>1. UNCHANGED workVars /\ UNCHANGED probingVars
    BY <1>3
       DEF Coherence, SeePublished, SeeFreed, Drainer, Pin, Drain, FinalDrain,
           DrainInto, SeeStop, Exit, vars, engineKind, harnessVars, engineVars,
           workVars, probingVars
  <2> QED
    BY <2>1, WorkStutters, ProbingStutters DEF probingVars
<1> QED
  BY <1>1, <1>2, <1>3 DEF Next, Over

\* Every message is accounted for, and the next probe is never passed.
THEOREM OrderInvariance == Spec => [](Work /\ Probing)
<1>1. Inv /\ (Work /\ Probing) /\ [Next]_vars => (Work /\ Probing)'
  BY NextOrders
<1> QED
  BY <1>1, InitOrders, Invariance, PTL DEF Spec

\* What the harness hashes after the join are the answers to every message of
\* the workload, once each and in order.
THEOREM WholeStream == Spec => []StreamIsWhole
<1>1. Inv /\ Work /\ Probing => StreamIsWhole
  <2> SUFFICES ASSUME Inv, Work, Probing, phase = "joined"
               PROVE  /\ matched = [i \in 1 .. MessageCount |-> i - 1]
                      /\ collected = pushed
                      /\ \A i, j \in 1 .. Len(collected) :
                            i < j => Earlier(collected[i], collected[j])
    BY DEF StreamIsWhole
  <2>1. Quiet /\ start = MessageCount
    BY DEF Inv, Barred, Ending, Probing, NextProbeAhead
  <2>2. collected = pushed
    <3>1. queue = <<>> /\ collected \in Seq(Report)
      BY DEF Inv, Joined, LeavesEmpty, TypeOK
    <3> QED
      BY <3>1, ConcatEmptySeq DEF Inv, Lossless
  <2> QED
    BY <2>1, <2>2, QuietIsMatched DEF Work, PushedInOrder
<1> QED
  BY <1>1, Invariance, OrderInvariance, PTL

\* Every probe that was picked is made, and saw the book after exactly the
\* messages up to its index, on the batch path as on the other.
THEOREM ProbesOnTime == Spec => []ProbesAligned
<1>1. Inv /\ Work /\ Probing => ProbesAligned
  BY Counts
     DEF Probing, ProbesTrue, ProbesCounted, NextProbeAhead, ProbesLeft,
         ProbesAligned, Ending
<1> QED
  BY <1>1, Invariance, OrderInvariance, PTL

-----------------------------------------------------------------------------
(* The run.                                                                *)

StageSet == {Stages[i] : i \in 1 .. Len(Stages)}

\* Nothing of the engine runs before the reference file has been read.
SetupFirst == /\ snapshot = Unread => stage = "setup"
              /\ stage = "setup" => at = "harness" /\ ~timer /\ refFile \in refBefore

\* What was read is an entry from before.
ReadBefore == snapshot # Unread => snapshot \in refBefore

\* A verdict is made after the stream has been collected, and VALID is an
\* equality.
Decided == /\ verdict # "none" => Position(stage) >= 10
           /\ verdict = "VALID" => computed = snapshot /\ computed # NoHash

\* Outside engine_init no signal has its default action, and only a runtime's
\* engine_init takes one over.
Guarded == /\ snapshot # Unread /\ stage # "init" =>
                \A s \in GuardedSignals : handler[s] # "default"
           /\ \A s \in GuardedSignals \ {"fault"} : handler[s] # "runtime"
           /\ handler["fault"] = "runtime" => engine = "runtime" /\ snapshot # Unread

\* The result file repeats the verdict, and exit code 0 comes from the end of
\* main only.
Honest == /\ json = "VALID" => verdict = "VALID"
          /\ exit = "0" => stage = "dlclose" /\ at = "harness"
          /\ trial = "ok" => Ended /\ json = "VALID" /\ exit = "0"

RunInv == /\ RunTypeOK
       /\ SetupFirst
       /\ ReadBefore
       /\ Decided
       /\ Guarded
       /\ Honest
       /\ FailureIsReported

-----------------------------------------------------------------------------
(* The order of the stages.                                                *)

LEMMA StagesAreDistinct ==
    /\ Len(Stages) = 15
    /\ \A i, j \in 1 .. 15 : Stages[i] = Stages[j] => i = j
BY DEF Stages

LEMMA PositionOfStage ==
    ASSUME NEW i \in 1 .. 15
    PROVE  Position(Stages[i]) = i
BY StagesAreDistinct DEF Position

LEMMA Numbered ==
    /\ Position("setup") = 1 /\ Position("init") = 4 /\ Position("prebuild") = 5
    /\ Position("join") = 9 /\ Position("shutdown") = 10
    /\ Position("audit_load") = 11 /\ Position("audit_unload") = 13
    /\ Position("destroy") = 14 /\ Position("dlclose") = 15
<1>1. /\ Stages[1] = "setup" /\ Stages[4] = "init" /\ Stages[5] = "prebuild"
      /\ Stages[9] = "join" /\ Stages[10] = "shutdown"
      /\ Stages[11] = "audit_load" /\ Stages[13] = "audit_unload"
      /\ Stages[14] = "destroy" /\ Stages[15] = "dlclose"
  BY DEF Stages
<1> QED
  BY <1>1, PositionOfStage

\* A run moves forward, and engine_init is followed by the prebuild pass.
LEMMA Forward ==
    ASSUME NEW s \in StageSet, NEW next \in StageSet, s # "dlclose", Follows(s, next)
    PROVE  /\ Position(s) \in Nat /\ Position(next) \in Nat
           /\ Position(next) > Position(s)
           /\ s = "init" => next = "prebuild"
           /\ next # "setup"
<1>1. PICK i \in 1 .. 15 : s = Stages[i]
  BY StagesAreDistinct DEF StageSet
<1>2. Position(s) = i /\ i # 15
  <2>1. i # 15
    BY <1>1 DEF Stages
  <2> QED
    BY <1>1, <2>1, PositionOfStage
<1>3. CASE next = Stages[i + 1]
  <2>1. Position(next) = i + 1
    BY <1>2, <1>3, PositionOfStage
  <2>2. s = "init" => next = "prebuild"
    <3> SUFFICES ASSUME s = "init"
                 PROVE  next = "prebuild"
      OBVIOUS
    <3>1. i = 4
      BY <1>2, Numbered
    <3> QED
      BY <1>3, <3>1 DEF Stages
  <2> QED
    BY <1>2, <2>1, <2>2, Numbered
<1>4. CASE s \in {"shutdown", "audit_load"} /\ next = "destroy"
  BY <1>4, Numbered
<1> QED
  BY <1>2, <1>3, <1>4 DEF Follows

-----------------------------------------------------------------------------
(* The initial states.                                                     *)

LEMMA RunBegins == RunInit => RunInv
<1> SUFFICES ASSUME RunInit
             PROVE  RunInv
  OBVIOUS
<1>1. "setup" \in StageSet
  BY StagesAreDistinct DEF StageSet, Stages
<1>2. handler \in [GuardedSignals -> {"default", "harness", "runtime"}]
  BY DEF RunInit
<1>3. RunTypeOK
  BY <1>1, <1>2 DEF RunInit, RunTypeOK, StageSet, At, Unread
<1>4. SetupFirst /\ ReadBefore
  BY DEF RunInit, SetupFirst, ReadBefore
<1>5. Decided /\ Honest /\ FailureIsReported
  BY DEF RunInit, Decided, Honest, FailureIsReported, GuardedSignals
<1>6. Guarded
  BY DEF RunInit, Guarded, GuardedSignals
<1> QED
  BY <1>3, <1>4, <1>5, <1>6 DEF RunInv

-----------------------------------------------------------------------------
(* One lemma per action.                                                   *)

LEMMA RewriteReferenceInv == RunInv /\ RewriteReference => RunInv'
<1> SUFFICES ASSUME RunInv, RewriteReference
             PROVE  RunInv'
  OBVIOUS
<1> USE DEF RunInv, RewriteReference, config, outcome
<1>1. RunTypeOK'
  BY DEF RunTypeOK
<1>2. SetupFirst' /\ ReadBefore'
  BY DEF SetupFirst, ReadBefore
<1>3. Decided' /\ Guarded'
  BY DEF Decided, Guarded
<1>4. Honest' /\ FailureIsReported'
  BY DEF Honest, FailureIsReported, Ended
<1> QED
  BY <1>1, <1>2, <1>3, <1>4

LEMMA ReadReferenceInv == RunInv /\ ReadReference => RunInv'
<1> SUFFICES ASSUME RunInv, ReadReference
             PROVE  RunInv'
  OBVIOUS
<1> USE DEF RunInv, ReadReference, config, outcome
<1>1. handler' \in [GuardedSignals -> {"default", "harness", "runtime"}]
  OBVIOUS
<1>2. RunTypeOK'
  BY <1>1 DEF RunTypeOK
<1>3. SetupFirst' /\ ReadBefore'
  BY DEF SetupFirst, ReadBefore
<1>4. Decided'
  <2>1. verdict # "VALID"
    BY Numbered DEF Decided, SetupFirst
  <2> QED
    BY <2>1 DEF Decided
<1>5. Guarded'
  BY DEF Guarded, GuardedSignals
<1>6. Honest' /\ FailureIsReported'
  BY DEF Honest, FailureIsReported, Ended
<1> QED
  BY <1>2, <1>3, <1>4, <1>5, <1>6

\* The handlers after a reassertion.
LEMMA Reasserted ==
    ASSUME NEW h \in [GuardedSignals -> {"default", "harness", "runtime"}]
    PROVE  /\ ReassertGuards(h) \in [GuardedSignals -> {"default", "harness", "runtime"}]
           /\ \A s \in GuardedSignals : ReassertGuards(h)[s] # "default"
           /\ \A s \in GuardedSignals \ {"fault"} : ReassertGuards(h)[s] # "runtime"
           /\ ReassertGuards(h)["fault"] = "runtime" <=> h["fault"] = "runtime"
BY DEF ReassertGuards, GuardedSignals

LEMMA EnterInv ==
    ASSUME RunInv, NEW next \in StageSet, Enter(next)
    PROVE  RunInv'
<1> USE DEF RunInv, config, reference, outcome
<1>1. stage \in StageSet /\ stage' = next /\ Follows(stage, next) /\ stage # "dlclose"
  BY DEF Enter, RunTypeOK, StageSet
<1>2. /\ Position(stage) \in Nat /\ Position(next) \in Nat
      /\ Position(next) > Position(stage)
      /\ stage = "init" => next = "prebuild"
      /\ next # "setup"
  BY <1>1, Forward
<1>3. handler \in [GuardedSignals -> {"default", "harness", "runtime"}]
  BY DEF RunTypeOK
<1>4. handler' \in [GuardedSignals -> {"default", "harness", "runtime"}]
  BY <1>3, Reasserted DEF Enter
<1>5. timer' \in BOOLEAN
  BY DEF Enter
<1>6. RunTypeOK'
  BY <1>4, <1>5 DEF RunTypeOK, Enter, StageSet, At
<1>7. SetupFirst' /\ ReadBefore'
  BY <1>2 DEF Enter, SetupFirst, ReadBefore
<1>8. Decided'
  BY <1>1, <1>2 DEF Enter, Decided
<1>9. Guarded'
  <2>1. CASE next = "prebuild"
    <3>1. handler' = ReassertGuards(handler)
      BY <2>1 DEF Enter
    <3> QED
      BY <1>3, <3>1, Reasserted DEF Enter, Guarded
  <2>2. CASE next # "prebuild"
    <3>1. handler' = handler /\ stage # "init"
      BY <1>2, <2>2 DEF Enter
    <3> QED
      BY <3>1 DEF Enter, Guarded
  <2> QED
    BY <2>1, <2>2
<1>10. Honest' /\ FailureIsReported'
  BY DEF Enter, Honest, FailureIsReported, Ended, GuardedSignals
<1> QED
  BY <1>6, <1>7, <1>8, <1>9, <1>10

LEMMA VerdictInv == RunInv /\ Verdict => RunInv'
<1> SUFFICES ASSUME RunInv, Verdict
             PROVE  RunInv'
  OBVIOUS
<1> USE DEF RunInv, Verdict, config, reference
<1>1. Ruling \in {"VALID", "INVALID"}
  BY DEF Ruling
<1>2. RunTypeOK'
  BY <1>1 DEF RunTypeOK
<1>3. SetupFirst' /\ ReadBefore'
  BY DEF SetupFirst, ReadBefore
<1>4. Decided'
  <2>1. stage \in {"shutdown", "audit_load", "audit_unload"}
    OBVIOUS
  <2>2. Position(stage) >= 10
    BY <2>1, Numbered
  <2>3. Ruling = "VALID" => computed = snapshot /\ computed # NoHash
    BY DEF Ruling, Reference
  <2> QED
    BY <2>2, <2>3 DEF Decided
<1>5. Guarded'
  BY DEF Guarded
<1>6. Honest' /\ FailureIsReported'
  BY DEF Honest, FailureIsReported, Ended
<1> QED
  BY <1>2, <1>3, <1>4, <1>5, <1>6

LEMMA ReturnInv == RunInv /\ EngineReturns => RunInv'
<1> SUFFICES ASSUME RunInv, EngineReturns
             PROVE  RunInv'
  OBVIOUS
<1> USE DEF RunInv, EngineReturns, InEngine, config, reference
<1>1. failed' \subseteq Gates
  <2>1. GateOf(stage) \subseteq Gates
    BY DEF GateOf, Gates
  <2> QED
    BY <2>1 DEF RunTypeOK
<1>2. computed' \in Hashes \cup {NoHash, OtherHash}
  BY DEF RunTypeOK
<1>3. RunTypeOK'
  BY <1>1, <1>2 DEF RunTypeOK, At
<1>4. SetupFirst' /\ ReadBefore'
  BY DEF SetupFirst, ReadBefore
<1>5. Decided'
  <2>1. CASE stage = "join"
    <3>1. verdict = "none"
      BY <2>1, Numbered DEF Decided
    <3> QED
      BY <3>1 DEF Decided
  <2>2. CASE stage # "join"
    BY <2>2 DEF Decided
  <2> QED
    BY <2>1, <2>2
<1>6. Guarded'
  BY DEF Guarded
<1>7. Honest' /\ FailureIsReported'
  BY DEF Honest, FailureIsReported, Ended, GuardedSignals
<1> QED
  BY <1>3, <1>4, <1>5, <1>6, <1>7

LEMMA ChangeProcessInv == RunInv /\ ChangeProcess => RunInv'
<1> SUFFICES ASSUME RunInv, ChangeProcess
             PROVE  RunInv'
  OBVIOUS
<1> USE DEF RunInv, ChangeProcess, InEngine, config, reference, outcome
<1>1. snapshot # Unread
  BY DEF SetupFirst
<1>2. handler \in [GuardedSignals -> {"default", "harness", "runtime"}]
  BY DEF RunTypeOK
<1>3. /\ handler' \in [GuardedSignals -> {"default", "harness", "runtime"}]
      /\ \A s \in GuardedSignals \ {"fault"} : handler'[s] # "runtime"
      /\ handler'["fault"] = "runtime" => engine = "runtime"
  <2>1. CASE engine = "runtime"
    <3>1. handler' = [handler EXCEPT !["fault"] = "runtime"]
      BY <2>1
    <3> QED
      BY <1>2, <2>1, <3>1 DEF Guarded, GuardedSignals
  <2>2. CASE engine = "resets"
    <3>1. PICK reset \in SUBSET GuardedSignals :
            handler' = [s \in GuardedSignals |-> IF s \in reset THEN "default"
                                                ELSE handler[s]]
      BY <2>2
    <3>2. "fault" \in GuardedSignals
      BY DEF GuardedSignals
    <3> QED
      BY <1>2, <3>1, <3>2 DEF Guarded
  <2> QED
    BY <2>1, <2>2
<1>4. timer' \in BOOLEAN
  BY DEF RunTypeOK
<1>5. RunTypeOK'
  BY <1>3, <1>4 DEF RunTypeOK
<1>6. SetupFirst' /\ ReadBefore'
  BY DEF SetupFirst, ReadBefore
<1>7. Guarded'
  BY <1>1, <1>3 DEF Guarded
<1>8. Decided' /\ Honest' /\ FailureIsReported'
  BY DEF Decided, Honest, FailureIsReported, Ended
<1> QED
  BY <1>5, <1>6, <1>7, <1>8

\* Any step that changes no more than who runs, and how the run ends or is
\* judged.
LEMMA RestInv ==
    ASSUME RunInv, RunTypeOK', Honest', FailureIsReported', stage # "setup" \/ at' = at,
           UNCHANGED <<config, reference, stage, timer, handler, computed, verdict>>
    PROVE  RunInv'
<1>1. SetupFirst' /\ ReadBefore'
  BY DEF RunInv, reference, SetupFirst, ReadBefore
<1>2. Decided' /\ Guarded'
  BY DEF RunInv, reference, config, Decided, Guarded
<1> QED
  BY <1>1, <1>2 DEF RunInv

\* The engine code that is running has been entered, and so the watchdog that
\* is pending was set by the harness.
LEMMA Started ==
    ASSUME RunInv, at # "harness" \/ timer
    PROVE  snapshot # Unread /\ stage # "setup"
BY DEF RunInv, SetupFirst

LEMMA HangInv == RunInv /\ Hang => RunInv'
<1> SUFFICES ASSUME RunInv, Hang
             PROVE  RunInv'
  OBVIOUS
<1>1. RunTypeOK' /\ Honest' /\ FailureIsReported'
  BY DEF Hang, InEngine, RunInv, RunTypeOK, Honest, FailureIsReported, Ended, At,
         config, reference, outcome
<1>2. stage # "setup"
  BY Started DEF Hang, InEngine
<1> QED
  BY <1>1, <1>2, RestInv DEF Hang, outcome

LEMMA CrashInv == RunInv /\ Crash => RunInv'
<1> SUFFICES ASSUME RunInv, Crash
             PROVE  RunInv'
  OBVIOUS
<1>1. snapshot # Unread
  BY Started DEF Crash, InEngine
<1>2. \/ \E s \in {"abort", "fault"} :
            (exit' = s /\ handler[s] = "default") \/ exit' = "3"
      \/ exit' = Unguarded
  BY DEF Crash
<1>3. exit' \in GuardedSignals => stage = "init"
  BY <1>1, <1>2 DEF RunInv, Guarded, GuardedSignals, Unguarded
<1>4. RunTypeOK'
  BY <1>2 DEF Crash, RunInv, RunTypeOK, GuardedSignals, config, reference, outcome
<1>5. Honest' /\ FailureIsReported'
  BY <1>2, <1>3
     DEF Crash, InEngine, RunInv, Honest, FailureIsReported, GuardedSignals,
         Unguarded, Ended, outcome
<1> QED
  BY <1>4, <1>5, RestInv DEF Crash, outcome

LEMMA AlarmFiresInv == RunInv /\ AlarmFires => RunInv'
<1> SUFFICES ASSUME RunInv, AlarmFires
             PROVE  RunInv'
  OBVIOUS
<1>1. snapshot # Unread
  BY Started DEF AlarmFires
<1>2. exit' = IF handler["alarm"] = "harness" THEN "3" ELSE "alarm"
  BY DEF AlarmFires
<1>3. "alarm" \in GuardedSignals /\ "alarm" # "fault"
  BY DEF GuardedSignals
<1>4. handler["alarm"] \in {"default", "harness", "runtime"}
  BY <1>3 DEF RunInv, RunTypeOK
<1>5. exit' \in GuardedSignals => stage = "init"
  BY <1>1, <1>2, <1>3, <1>4 DEF RunInv, Guarded, GuardedSignals
<1>6. RunTypeOK'
  BY <1>2, <1>3 DEF AlarmFires, RunInv, RunTypeOK, config, reference, outcome
<1>7. Honest' /\ FailureIsReported'
  BY <1>2, <1>5 DEF AlarmFires, RunInv, Honest, FailureIsReported, Ended, outcome
<1> QED
  BY <1>6, <1>7, RestInv DEF AlarmFires, outcome

LEMMA EndingsInv == RunInv /\ (ExitRun \/ OuterTimeout \/ Judge) => RunInv'
<1> USE DEF config, reference, outcome
<1>1. ASSUME RunInv, ExitRun
      PROVE  RunInv'
  <2>1. RunTypeOK'
    BY <1>1 DEF ExitRun, RunInv, RunTypeOK
  <2>2. Honest' /\ FailureIsReported'
    BY <1>1 DEF ExitRun, RunInv, Honest, FailureIsReported, Ended, GuardedSignals
  <2> QED
    BY <1>1, <2>1, <2>2, RestInv DEF ExitRun
<1>2. ASSUME RunInv, OuterTimeout
      PROVE  RunInv'
  <2>1. RunTypeOK'
    BY <1>2 DEF OuterTimeout, RunInv, RunTypeOK
  <2>2. Honest' /\ FailureIsReported'
    BY <1>2 DEF OuterTimeout, RunInv, Honest, FailureIsReported, Ended,
               GuardedSignals
  <2> QED
    BY <1>2, <2>1, <2>2, RestInv DEF OuterTimeout
<1>3. ASSUME RunInv, Judge
      PROVE  RunInv'
  <2>1. RunTypeOK'
    BY <1>3 DEF Judge, RunInv, RunTypeOK
  <2>2. Honest' /\ FailureIsReported'
    BY <1>3 DEF Judge, RunInv, Honest, FailureIsReported, Ended, TrialOk
  <2> QED
    BY <1>3, <2>1, <2>2, RestInv DEF Judge
<1> QED
  BY <1>1, <1>2, <1>3

LEMMA RunStutters == RunInv /\ UNCHANGED runVars => RunInv'
<1> SUFFICES ASSUME RunInv, UNCHANGED runVars
             PROVE  RunInv'
  OBVIOUS
<1> USE DEF runVars, config, reference
<1>1. RunTypeOK' /\ Honest' /\ FailureIsReported'
  BY DEF RunInv, RunTypeOK, Honest, FailureIsReported, Ended
<1> QED
  BY <1>1, RestInv

LEMMA RunStepInv == RunInv /\ [RunNext]_runVars => RunInv'
<1> SUFFICES ASSUME RunInv, [RunNext]_runVars
             PROVE  RunInv'
  OBVIOUS
<1>1. ASSUME NEW next \in StageSet, Enter(next)
      PROVE  RunInv'
  BY <1>1, EnterInv
<1>2. CASE HarnessMain
  BY <1>1, <1>2, ReadReferenceInv, VerdictInv, EndingsInv DEF HarnessMain, StageSet
<1>3. CASE EngineCode
  BY <1>3, ReturnInv, ChangeProcessInv, HangInv, CrashInv DEF EngineCode
<1>4. CASE AlarmFires \/ OuterTimeout \/ Judge \/ RewriteReference
  BY <1>4, AlarmFiresInv, EndingsInv, RewriteReferenceInv
<1>5. CASE RunOver \/ UNCHANGED runVars
  BY <1>5, RunStutters DEF RunOver
<1> QED
  BY <1>2, <1>3, <1>4, <1>5 DEF RunNext

\* The inductive invariant.
THEOREM RunInvariance == RunSpec => []RunInv
<1>1. RunInit => RunInv
  BY RunBegins
<1>2. RunInv /\ [RunNext]_runVars => RunInv'
  BY RunStepInv
<1> QED
  BY <1>1, <1>2, PTL DEF RunSpec

-----------------------------------------------------------------------------
(* The properties of HarnessRun.                                           *)

\* The variables keep their types.
THEOREM RunTypeCorrect == RunSpec => []RunTypeOK
<1>1. RunInv => RunTypeOK
  BY DEF RunInv
<1> QED
  BY <1>1, RunInvariance, PTL

\* VALID is a stream that equals an entry read before any engine code ran,
\* whoever rewrites the reference file afterwards and how often.
THEOREM VerdictOnSnapshot == RunSpec => []SnapshotDecides
<1>1. RunInv => SnapshotDecides
  <2> SUFFICES ASSUME RunInv, verdict = "VALID"
               PROVE  computed \in refBefore \ {NoHash}
    BY DEF SnapshotDecides
  <2>1. stage # "setup" /\ computed = snapshot /\ computed # NoHash
    BY Numbered DEF RunInv, Decided
  <2> QED
    BY <2>1 DEF RunInv, SetupFirst, ReadBefore
<1> QED
  BY <1>1, RunInvariance, PTL

\* No alarm, abort or fault that has a handler kills the harness by the bare
\* signal after engine_init, whatever engine_init did to the handlers.
THEOREM FailuresReported == RunSpec => []FailureIsReported
<1>1. RunInv => FailureIsReported
  BY DEF RunInv
<1> QED
  BY <1>1, RunInvariance, PTL

\* A trial that run_challenge.py counts ran to the end of main.
THEOREM CleanTrials == RunSpec => []CountedTrialsAreClean
<1>1. RunInv => CountedTrialsAreClean
  BY DEF RunInv, Honest, CountedTrialsAreClean
<1> QED
  BY <1>1, RunInvariance, PTL

\* No step takes the fault signals away from a runtime that has them.
THEOREM FaultsStay == RunSpec => RuntimeKeepsFaults
<1>1. RunInv /\ [RunNext]_runVars
        => [handler["fault"] = "runtime" => handler'["fault"] = "runtime"]_handler
  <2> SUFFICES ASSUME RunInv, [RunNext]_runVars, handler["fault"] = "runtime", handler' # handler
               PROVE  handler'["fault"] = "runtime"
    OBVIOUS
  <2>1. engine = "runtime" /\ snapshot # Unread
    BY DEF RunInv, Guarded
  <2>2. /\ handler \in [GuardedSignals -> {"default", "harness", "runtime"}]
        /\ "fault" \in GuardedSignals
    BY DEF RunInv, RunTypeOK, GuardedSignals
  <2>3. ASSUME NEW next \in StageSet, Enter(next)
        PROVE  handler'["fault"] = "runtime"
    BY <2>2, <2>3, Reasserted DEF Enter
  <2>4. CASE HarnessMain
    BY <2>1, <2>3, <2>4 DEF HarnessMain, ReadReference, Verdict, ExitRun, StageSet
  <2>5. CASE EngineCode
    <3>1. ChangeProcess
      BY <2>5 DEF EngineCode, EngineReturns, Hang, Crash
    <3>2. handler' = [handler EXCEPT !["fault"] = "runtime"]
      BY <2>1, <3>1 DEF ChangeProcess
    <3> QED
      BY <2>2, <3>2
  <2>6. CASE AlarmFires \/ OuterTimeout \/ Judge \/ RewriteReference \/ RunOver \/ UNCHANGED runVars
    BY <2>6 DEF AlarmFires, OuterTimeout, Judge, RewriteReference, RunOver, runVars
  <2> QED
    BY <2>4, <2>5, <2>6 DEF RunNext
<1> QED
  BY <1>1, RunInvariance, PTL DEF RunSpec, RuntimeKeepsFaults
=============================================================================
